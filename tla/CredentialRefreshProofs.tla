----------------------- MODULE CredentialRefreshProofs -----------------------
(***************************************************************************)
(* Proofs about CredentialRefresh, for any calls, credentials and bounds.  *)
(***************************************************************************)
EXTENDS CredentialRefresh, TLAPS

USE RefreshAssumption

-----------------------------------------------------------------------------
(* The types of the pieces the actions are made of.                        *)

(* Whoever is in the critical section holds the lock.                      *)
LockInv == \A c \in Calls : pc[c] \in Working => holder = c

(* A follower follows a call.                                              *)
Led == \A c \in Calls : pc[c] = "follow" => lead[c] \in Calls

LEMMA AuthType ==
  ASSUME RefreshTypeOK, NEW c \in Calls
  PROVE  /\ Auth(c) \in Auths
         /\ hold[c] \in Tokens /\ disk[Auth(c)] \in Tokens
         /\ seen[Auth(c)] \in Tokens
         /\ result[c] \in Results
BY DEF RefreshTypeOK, Auth, Requests

(* The steps that disturb no call.                                         *)
Aside ==
  \/ Rescan
  \/ \E a \in Auths :
       Mend(a) \/ GracePasses(a) \/ SetAccountDisabled(a) \/ Remove(a) \/ Tear(a)

LEMMA AsideFrame ==
  ASSUME Aside
  PROVE  /\ issued' = issued /\ live' = live
         /\ pc' = pc /\ req' = req /\ canceled' = canceled
         /\ flight' = flight /\ lead' = lead
         /\ holder' = holder /\ tries' = tries /\ hold' = hold /\ blind' = blind
         /\ result' = result /\ verdict' = verdict
         /\ retired' = retired /\ damaged' = damaged
BY DEF Aside, Rescan, Mend, GracePasses, SetAccountDisabled, Remove, Tear,
       upstreamVars, leaderVars, history

LEMMA TokensType ==
  /\ NoTokens \in Tokens
  /\ \A t \in Tokens : t.access \in Nat /\ t.refresh \in Nat
  /\ \A m \in Nat, n \in Nat : [access |-> m, refresh |-> n] \in Tokens
BY DEF Tokens, NoTokens

LEMMA ReadType ==
  ASSUME RefreshTypeOK, NEW a \in Auths
  PROVE  Read(a) \in Tokens /\ Read(a).access \in Nat /\ Read(a).refresh \in Nat
BY TokensType DEF RefreshTypeOK, Read

LEMMA ScanType ==
  ASSUME RefreshTypeOK, NEW flags, flags \subseteq Auths, Scan(flags)
  PROVE  /\ seen' \in [Auths -> Tokens] /\ shut' \subseteq Auths
         /\ trouble' \in [Auths -> {"none", "grace", "over"}]
<1>1. seen' \in [Auths -> Tokens]
  BY ReadType DEF Scan
<1>2. shut' \subseteq Auths
  BY DEF Scan
<1>3. trouble' \in [Auths -> {"none", "grace", "over"}]
  BY DEF Scan, RefreshTypeOK
<1> QED
  BY <1>1, <1>2, <1>3

(* A step that disturbs no call changes a file's tokens only by removing   *)
(* it, and what a scan finds only to what is read.                         *)
LEMMA AsideFiles ==
  ASSUME RefreshTypeOK, Aside
  PROVE  \A b \in Auths : /\ disk'[b] \in {disk[b], NoTokens}
                          /\ seen'[b] \in {seen[b], Read(b)}
<1>1. CASE Rescan
  BY <1>1 DEF RefreshTypeOK, Rescan, Scan, fileVars, storeVars
<1>2. ASSUME NEW a \in Auths, SetAccountDisabled(a)
      PROVE  \A b \in Auths : /\ disk'[b] \in {disk[b], NoTokens}
                              /\ seen'[b] \in {seen[b], Read(b)}
  BY <1>2 DEF RefreshTypeOK, SetAccountDisabled, Scan
<1>3. ASSUME NEW a \in Auths,
             Mend(a) \/ GracePasses(a) \/ Remove(a) \/ Tear(a)
      PROVE  \A b \in Auths : /\ disk'[b] \in {disk[b], NoTokens}
                              /\ seen'[b] \in {seen[b], Read(b)}
  BY <1>3 DEF RefreshTypeOK, Mend, GracePasses, Remove, Tear, fileVars, storeVars
<1> QED
  BY <1>1, <1>2, <1>3 DEF Aside

LEMMA ResultsType ==
  /\ NoResult \in Results
  /\ \A r \in Results : r.access \in Nat /\ r.error \in Errors \cup {"none"}
  /\ \A n \in Nat, e \in Errors \cup {"none"} : [access |-> n, error |-> e] \in Results
BY DEF Results, NoResult

LEMMA ReturnType ==
  ASSUME RefreshTypeOK, NEW c \in Calls, NEW r \in Results, Return(c, r)
  PROVE  /\ pc' \in [Calls -> Places]
         /\ result' \in [Calls -> Results]
         /\ verdict' \in [Calls -> Verdicts]
         /\ canceled' \subseteq Calls
<1>1. VerdictOn(c, r.error) \in Verdicts
  BY DEF VerdictOn, Verdicts
<1> QED
  BY <1>1 DEF RefreshTypeOK, Return, Places

LEMMA FinishType ==
  ASSUME RefreshTypeOK, NEW c \in Calls, NEW r \in Results, Finish(c, r)
  PROVE  /\ pc' \in [Calls -> Places]
         /\ result' \in [Calls -> Results]
         /\ holder' \in Calls \cup {NoCall}
         /\ hold' \in [Calls -> Tokens] /\ blind' \subseteq Calls
         /\ tries' \in [Calls -> Nat]
BY TokensType DEF RefreshTypeOK, Finish, HolderAfter, Places

LEMMA FailType ==
  ASSUME RefreshTypeOK, NEW c \in Calls, NEW e \in Errors, Fail(c, e)
  PROVE  /\ pc' \in [Calls -> Places]
         /\ result' \in [Calls -> Results]
         /\ holder' \in Calls \cup {NoCall}
         /\ hold' \in [Calls -> Tokens] /\ blind' \subseteq Calls
         /\ tries' \in [Calls -> Nat]
BY FinishType, ResultsType DEF Fail

LEMMA ServeType ==
  ASSUME RefreshTypeOK, NEW a \in Auths, NEW r \in Nat, NEW effect \in Effects,
         Serve(a, r, effect)
  PROVE  issued' \in [Auths -> Nat] /\ live' \in [Auths -> SUBSET Nat]
BY DEF RefreshTypeOK, Serve

(* Every step keeps followers led.                                         *)
LEMMA LedStep ==
  ASSUME RefreshTypeOK, Led, RefreshNext
  PROVE  Led'
<1>1. ASSUME NEW c \in Calls,
             Lead(c) \/ Follow(c) \/ TakeResult(c) \/ StopFollowing(c) \/
             RetryTimer(c) \/ Publish(c) \/ Cancel(c)
      PROVE  Led'
  BY <1>1
  DEF RefreshTypeOK, Led, Auth, Requests, fileVars, storeVars, leaderVars,
      upstreamVars, history, Lead, Follow, TakeResult, Return, StopFollowing,
      RetryTimer, Publish, FlightAfter, Cancel, Disturb
<1>2. ASSUME NEW c \in Calls,
             Reload(c) \/ WaitCut(c) \/ SaveFails(c)
      PROVE  Led'
  BY <1>2
  DEF RefreshTypeOK, Led, Auth, Requests, fileVars, storeVars, leaderVars,
      upstreamVars, history, Reload, CanLock, Finish, Fail, HolderAfter,
      WaitCut, SaveFails
<1>3. ASSUME NEW c \in Calls, NEW a \in Auths, NEW kind \in Kinds,
             Select(c, a, kind)
      PROVE  Led'
  BY <1>3
  DEF RefreshTypeOK, Led, Auth, Requests, fileVars, storeVars, leaderVars,
      upstreamVars, history, Select
<1>4. ASSUME NEW c \in Calls, NEW fresh \in BOOLEAN, Reread(c, fresh)
      PROVE  Led'
  BY <1>4
  DEF RefreshTypeOK, Led, Auth, Requests, fileVars, storeVars, leaderVars,
      upstreamVars, history, Reread, CanLock, Selectable, Candidate, Finish,
      Fail, HolderAfter
<1>5. ASSUME NEW c \in Calls, NEW effect \in Effects, Exchange(c, effect)
      PROVE  Led'
  BY <1>5
  DEF RefreshTypeOK, Led, Auth, Requests, fileVars, storeVars, leaderVars,
      upstreamVars, history, Exchange, Serve, Granted
<1>6. ASSUME NEW c \in Calls, NEW effect \in Effects, Retry(c, effect)
      PROVE  Led'
  BY <1>6
  DEF RefreshTypeOK, Led, Auth, Requests, fileVars, storeVars, leaderVars,
      upstreamVars, history, Retry, Unanswered, Serve
<1>7. ASSUME NEW c \in Calls, NEW effect \in Effects, NEW error \in Errors,
             AttemptFails(c, effect, error)
      PROVE  Led'
  BY <1>7
  DEF RefreshTypeOK, Led, Auth, Requests, fileVars, storeVars, leaderVars,
      upstreamVars, history, AttemptFails, Unanswered, Serve, Finish, Fail,
      HolderAfter
<1>8. ASSUME NEW c \in Calls, Save(c)
      PROVE  Led'
  BY <1>8
  DEF RefreshTypeOK, Led, Auth, Requests, fileVars, storeVars, leaderVars,
      upstreamVars, history, Save, Finish, Fail, HolderAfter
<1>9. ASSUME Aside
      PROVE  Led'
  BY <1>9, AsideFrame DEF Led
<1>10. ASSUME NEW a \in Auths,
              NEW t \in [access : {0, issued[a] + 1}, refresh : {0, issued[a] + 1}],
              Login(a, t)
      PROVE  Led'
  BY <1>10
  DEF RefreshTypeOK, Led, Auth, Requests, fileVars, storeVars, leaderVars,
      upstreamVars, history, Login, Disturb
<1>11. ASSUME Crash
      PROVE  Led'
  BY <1>11
  DEF RefreshTypeOK, Led, Auth, Requests, fileVars, storeVars, leaderVars,
      upstreamVars, history, Crash, Disturb
<1> QED
  BY <1>1, <1>2, <1>3, <1>4, <1>5, <1>6, <1>7, <1>8, <1>9, <1>10, <1>11
  DEF RefreshNext, Step, Surroundings, Aside

(* Every step keeps the types.                                              *)
LEMMA TypeStep ==
  ASSUME RefreshTypeOK, Led, RefreshNext
  PROVE  RefreshTypeOK'
<1>1. ASSUME NEW c \in Calls, NEW a \in Auths, NEW kind \in Kinds,
             Select(c, a, kind)
      PROVE  RefreshTypeOK'
  <2> DEFINE failed == IF kind = "force" THEN 0 ELSE Read(a).access
  <2>0. failed \in Nat
    BY ReadType
  <2> HIDE DEF failed
  <2>1. [auth |-> a, kind |-> kind, failed |-> failed] \in Requests
    BY <2>0 DEF Requests
  <2>2. /\ seen' \in [Auths -> Tokens] /\ shut' \subseteq Auths
        /\ trouble' \in [Auths -> {"none", "grace", "over"}]
    BY <1>1, ScanType DEF Select, RefreshTypeOK
  <2> QED
    BY <1>1, <2>1, <2>2
    DEF RefreshTypeOK, Select, Places, failed, fileVars, storeVars, leaderVars,
        upstreamVars, history
<1>2. ASSUME NEW c \in Calls, Lead(c)
      PROVE  RefreshTypeOK'
  BY <1>2, AuthType
  DEF RefreshTypeOK, fileVars, storeVars, leaderVars, upstreamVars, history,
      Lead, Places
<1>3. ASSUME NEW c \in Calls, Follow(c)
      PROVE  RefreshTypeOK'
  BY <1>3, AuthType
  DEF RefreshTypeOK, fileVars, storeVars, leaderVars, upstreamVars, history,
      Follow, Places
<1>4. ASSUME NEW c \in Calls, TakeResult(c)
      PROVE  RefreshTypeOK'
  <2>1. lead[c] \in Calls
    BY <1>4 DEF Led, TakeResult
  <2> QED
    BY <1>4, <2>1, ReturnType, AuthType
    DEF RefreshTypeOK, TakeResult, fileVars, storeVars, leaderVars,
        upstreamVars, history
<1>5. ASSUME NEW c \in Calls, StopFollowing(c)
      PROVE  RefreshTypeOK'
  BY <1>5, ReturnType, ResultsType
  DEF RefreshTypeOK, fileVars, storeVars, leaderVars, upstreamVars, history,
      StopFollowing, Errors
<1>6. ASSUME NEW c \in Calls, Reload(c)
      PROVE  RefreshTypeOK'
  BY <1>6, FailType
  DEF RefreshTypeOK, fileVars, storeVars, leaderVars, upstreamVars, history,
      Reload, Errors
<1>7. ASSUME NEW c \in Calls, NEW fresh \in BOOLEAN, Reread(c, fresh)
      PROVE  RefreshTypeOK'
  <2>0. /\ seen' \in [Auths -> Tokens] /\ shut' \subseteq Auths
        /\ trouble' \in [Auths -> {"none", "grace", "over"}]
    BY <1>7, ScanType DEF Reread, RefreshTypeOK
  <2>1. CASE Fail(c, "unavailable") \/ Fail(c, "refused")
    BY <1>7, <2>0, <2>1, FailType
    DEF RefreshTypeOK, Reread, Errors, fileVars, storeVars, leaderVars,
        upstreamVars, history
  <2>2. CASE Finish(c, [access |-> Read(Auth(c)).access, error |-> "none"])
    BY <1>7, <2>0, <2>2, FinishType, AuthType, ResultsType, ReadType
    DEF RefreshTypeOK, Reread, fileVars, storeVars, leaderVars, upstreamVars,
        history
  <2>3. CASE /\ hold' = [hold EXCEPT ![c] = Candidate(c)]
             /\ pc' = [pc EXCEPT ![c] = "send"]
             /\ blind' = IF Auth(c) \in torn THEN blind \cup {c} ELSE blind
             /\ holder' = c
             /\ UNCHANGED <<result, tries>>
    BY <1>7, <2>0, <2>3, AuthType, ReadType
    DEF RefreshTypeOK, Reread, Candidate, Places, fileVars, storeVars,
        leaderVars, upstreamVars, history
  <2> QED
    BY <1>7, <2>1, <2>2, <2>3 DEF Reread
<1>8. ASSUME NEW c \in Calls, NEW effect \in Effects, Exchange(c, effect)
      PROVE  RefreshTypeOK'
  <2>1. Granted(c, effect) \in Tokens
    BY AuthType, TokensType DEF RefreshTypeOK, Granted
  <2>2. issued' \in [Auths -> Nat] /\ live' \in [Auths -> SUBSET Nat]
    BY <1>8, AuthType, TokensType, ServeType DEF Exchange
  <2> QED
    BY <1>8, <2>1, <2>2 DEF RefreshTypeOK, Exchange, Places, fileVars, storeVars, history
<1>9. ASSUME NEW c \in Calls, NEW effect \in Effects, Retry(c, effect)
      PROVE  RefreshTypeOK'
  <2>1. issued' \in [Auths -> Nat] /\ live' \in [Auths -> SUBSET Nat]
    BY <1>9, AuthType, TokensType, ServeType DEF Retry, Unanswered
  <2> QED
    BY <1>9, <2>1, AuthType DEF RefreshTypeOK, Retry, Unanswered, Places, fileVars, storeVars
<1>10. ASSUME NEW c \in Calls, NEW effect \in Effects, NEW error \in Errors,
              AttemptFails(c, effect, error)
      PROVE  RefreshTypeOK'
  <2>1. issued' \in [Auths -> Nat] /\ live' \in [Auths -> SUBSET Nat]
    BY <1>10, AuthType, TokensType, ServeType DEF AttemptFails, Unanswered
  <2> QED
    BY <1>10, <2>1, AuthType, FailType DEF RefreshTypeOK, AttemptFails, Unanswered, fileVars, storeVars
<1>11. ASSUME NEW c \in Calls, RetryTimer(c)
      PROVE  RefreshTypeOK'
  BY <1>11
  DEF RefreshTypeOK, fileVars, storeVars, leaderVars, upstreamVars, history,
      RetryTimer, Places
<1>12. ASSUME NEW c \in Calls, WaitCut(c)
      PROVE  RefreshTypeOK'
  BY <1>12, FailType
  DEF RefreshTypeOK, fileVars, storeVars, leaderVars, upstreamVars, history,
      WaitCut, Errors
<1>13. ASSUME NEW c \in Calls, Save(c)
      PROVE  RefreshTypeOK'
  <2>1. [access |-> hold[c].access, error |-> "none"] \in Results
    BY AuthType, TokensType, ResultsType
  <2>2. retired' \subseteq Auths \X Nat
    BY <1>13, AuthType, TokensType DEF RefreshTypeOK, Save
  <2> QED
    BY <1>13, <2>1, <2>2, AuthType, FinishType DEF RefreshTypeOK, Save, upstreamVars, storeVars
<1>14. ASSUME NEW c \in Calls, SaveFails(c)
      PROVE  RefreshTypeOK'
  BY <1>14, FailType, AuthType
  DEF RefreshTypeOK, fileVars, storeVars, leaderVars, upstreamVars, history,
      SaveFails, Errors
<1>15. ASSUME NEW c \in Calls, Publish(c)
      PROVE  RefreshTypeOK'
  BY <1>15, ReturnType, AuthType
  DEF RefreshTypeOK, fileVars, storeVars, leaderVars, upstreamVars, history,
      Publish, FlightAfter
<1>16. ASSUME NEW c \in Calls, Cancel(c)
      PROVE  RefreshTypeOK'
  BY <1>16
  DEF RefreshTypeOK, fileVars, storeVars, leaderVars, upstreamVars, history,
      Cancel, Disturb
<1>17. ASSUME Aside
      PROVE  RefreshTypeOK'
  <2>1. CASE Rescan
    <3>1. disabled \subseteq Auths
      BY DEF RefreshTypeOK
    <3> QED
      BY <2>1, <3>1, <1>17, AsideFrame, ScanType DEF RefreshTypeOK, Rescan, fileVars, storeVars, history
  <2>2. ASSUME NEW a \in Auths, SetAccountDisabled(a)
        PROVE  RefreshTypeOK'
    <3>1. disabled \subseteq Auths /\ disabled' \subseteq Auths
      BY <2>2 DEF RefreshTypeOK, SetAccountDisabled
    <3>2. /\ seen' \in [Auths -> Tokens] /\ shut' \subseteq Auths
          /\ trouble' \in [Auths -> {"none", "grace", "over"}]
      BY <2>2, <3>1, ScanType DEF SetAccountDisabled
    <3> QED
      BY <2>2, <3>1, <3>2, <1>17, AsideFrame DEF RefreshTypeOK, SetAccountDisabled, Disturb
  <2>3. ASSUME NEW a \in Auths, Mend(a) \/ GracePasses(a)
        PROVE  RefreshTypeOK'
    BY <2>3, <1>17, AsideFrame
    DEF RefreshTypeOK, Mend, GracePasses, fileVars, storeVars, history
  <2>4. ASSUME NEW a \in Auths, Remove(a)
        PROVE  RefreshTypeOK'
    BY <2>4, <1>17, AsideFrame, TokensType
    DEF RefreshTypeOK, Remove, Disturb, storeVars
  <2>5. ASSUME NEW a \in Auths, Tear(a)
        PROVE  RefreshTypeOK'
    BY <2>5, <1>17, AsideFrame DEF RefreshTypeOK, Tear, Disturb, storeVars
  <2> QED
    BY <1>17, <2>1, <2>2, <2>3, <2>4, <2>5 DEF Aside
<1>18. ASSUME NEW a \in Auths,
              NEW t \in [access : {0, issued[a] + 1}, refresh : {0, issued[a] + 1}],
              Login(a, t)
      PROVE  RefreshTypeOK'
  <2>1. t \in Tokens
    BY <1>18 DEF RefreshTypeOK, Tokens
  <2> QED
    BY <1>18, <2>1, TokensType DEF RefreshTypeOK, Login, Disturb, storeVars, leaderVars
<1>19. ASSUME Crash
      PROVE  RefreshTypeOK'
  BY <1>19, TokensType
  DEF RefreshTypeOK, fileVars, storeVars, leaderVars, upstreamVars, history,
      Crash, Places, Disturb
<1> QED
  BY <1>1, <1>2, <1>3, <1>4, <1>5, <1>6, <1>7, <1>8, <1>9, <1>10, <1>11, <1>12,
     <1>13, <1>14, <1>15, <1>16, <1>17, <1>18, <1>19
  DEF RefreshNext, Step, Surroundings, Aside

(* Every step keeps one flight per credential.                             *)
LEMMA FlightStep ==
  ASSUME RefreshTypeOK, OneFlight, RefreshNext
  PROVE  OneFlight'
<1>1. ASSUME NEW c \in Calls, NEW a \in Auths, NEW kind \in Kinds,
             Select(c, a, kind)
      PROVE  OneFlight'
  BY <1>1, AuthType
  DEF RefreshTypeOK, OneFlight, AtWork, Working, Auth, fileVars, storeVars,
      leaderVars, upstreamVars, history, Select
<1>2. ASSUME NEW c \in Calls, Lead(c)
      PROVE  OneFlight'
  BY <1>2, AuthType
  DEF RefreshTypeOK, OneFlight, AtWork, Working, Auth, fileVars, storeVars,
      leaderVars, upstreamVars, history, Lead
<1>3. ASSUME NEW c \in Calls, Follow(c)
      PROVE  OneFlight'
  BY <1>3, AuthType
  DEF RefreshTypeOK, OneFlight, AtWork, Working, Auth, fileVars, storeVars,
      leaderVars, upstreamVars, history, Follow
<1>4. ASSUME NEW c \in Calls, TakeResult(c)
      PROVE  OneFlight'
  BY <1>4, AuthType
  DEF RefreshTypeOK, OneFlight, AtWork, Working, Auth, fileVars, storeVars,
      leaderVars, upstreamVars, history, TakeResult, Return
<1>5. ASSUME NEW c \in Calls, StopFollowing(c)
      PROVE  OneFlight'
  BY <1>5, AuthType
  DEF RefreshTypeOK, OneFlight, AtWork, Working, Auth, fileVars, storeVars,
      leaderVars, upstreamVars, history, StopFollowing, Return
<1>6. ASSUME NEW c \in Calls, Reload(c)
      PROVE  OneFlight'
  BY <1>6, AuthType
  DEF RefreshTypeOK, OneFlight, AtWork, Working, Auth, fileVars, storeVars,
      leaderVars, upstreamVars, history, Reload, CanLock, Finish, Fail,
      HolderAfter
<1>7. ASSUME NEW c \in Calls, NEW fresh \in BOOLEAN, Reread(c, fresh)
      PROVE  OneFlight'
  <2>1. flight' = flight /\ req' = req /\ pc[c] = "lock"
    BY <1>7 DEF Reread, CanLock
  <2>2. \E place \in {"publish", "send"} : pc' = [pc EXCEPT ![c] = place]
    BY <1>7 DEF Reread, Fail, Finish
  <2> QED
    BY <2>1, <2>2 DEF RefreshTypeOK, OneFlight, AtWork, Working, Auth
<1>8. ASSUME NEW c \in Calls, NEW effect \in Effects, Exchange(c, effect)
      PROVE  OneFlight'
  BY <1>8, AuthType
  DEF RefreshTypeOK, OneFlight, AtWork, Working, Auth, fileVars, storeVars,
      leaderVars, upstreamVars, history, Exchange, Serve, Granted
<1>9. ASSUME NEW c \in Calls, NEW effect \in Effects, Retry(c, effect)
      PROVE  OneFlight'
  BY <1>9, AuthType
  DEF RefreshTypeOK, OneFlight, AtWork, Working, Auth, fileVars, storeVars,
      leaderVars, upstreamVars, history, Retry, Unanswered, Serve
<1>10. ASSUME NEW c \in Calls, NEW effect \in Effects, NEW error \in Errors,
              AttemptFails(c, effect, error)
      PROVE  OneFlight'
  BY <1>10, AuthType
  DEF RefreshTypeOK, OneFlight, AtWork, Working, Auth, fileVars, storeVars,
      leaderVars, upstreamVars, history, AttemptFails, Unanswered, Serve,
      Finish, Fail, HolderAfter
<1>11. ASSUME NEW c \in Calls, RetryTimer(c)
      PROVE  OneFlight'
  BY <1>11, AuthType
  DEF RefreshTypeOK, OneFlight, AtWork, Working, Auth, fileVars, storeVars,
      leaderVars, upstreamVars, history, RetryTimer
<1>12. ASSUME NEW c \in Calls, WaitCut(c)
      PROVE  OneFlight'
  BY <1>12, AuthType
  DEF RefreshTypeOK, OneFlight, AtWork, Working, Auth, fileVars, storeVars,
      leaderVars, upstreamVars, history, WaitCut, Finish, Fail, HolderAfter
<1>13. ASSUME NEW c \in Calls, Save(c)
      PROVE  OneFlight'
  BY <1>13, AuthType
  DEF RefreshTypeOK, OneFlight, AtWork, Working, Auth, fileVars, storeVars,
      leaderVars, upstreamVars, history, Save, Finish, Fail, HolderAfter
<1>14. ASSUME NEW c \in Calls, SaveFails(c)
      PROVE  OneFlight'
  BY <1>14, AuthType
  DEF RefreshTypeOK, OneFlight, AtWork, Working, Auth, fileVars, storeVars,
      leaderVars, upstreamVars, history, SaveFails, Finish, Fail, HolderAfter
<1>15. ASSUME NEW c \in Calls, Publish(c)
      PROVE  OneFlight'
  BY <1>15, AuthType
  DEF RefreshTypeOK, OneFlight, AtWork, Working, Auth, fileVars, storeVars,
      leaderVars, upstreamVars, history, Publish, Return, FlightAfter
<1>16. ASSUME NEW c \in Calls, Cancel(c)
      PROVE  OneFlight'
  BY <1>16, AuthType
  DEF RefreshTypeOK, OneFlight, AtWork, Working, Auth, fileVars, storeVars,
      leaderVars, upstreamVars, history, Cancel, Disturb
<1>17. ASSUME Aside
      PROVE  OneFlight'
  BY <1>17, AsideFrame DEF OneFlight, AtWork, Working, Auth
<1>18. ASSUME NEW a \in Auths,
              NEW t \in [access : {0, issued[a] + 1}, refresh : {0, issued[a] + 1}],
              Login(a, t)
      PROVE  OneFlight'
  BY <1>18, AuthType
  DEF RefreshTypeOK, OneFlight, AtWork, Working, Auth, fileVars, storeVars,
      leaderVars, upstreamVars, history, Login, Disturb
<1>19. ASSUME Crash
      PROVE  OneFlight'
  BY <1>19, AuthType
  DEF RefreshTypeOK, OneFlight, AtWork, Working, Auth, fileVars, storeVars,
      leaderVars, upstreamVars, history, Crash, Disturb
<1> QED
  BY <1>1, <1>2, <1>3, <1>4, <1>5, <1>6, <1>7, <1>8, <1>9, <1>10, <1>11, <1>12,
     <1>13, <1>14, <1>15, <1>16, <1>17, <1>18, <1>19
  DEF RefreshNext, Step, Surroundings, Aside

(* Every step keeps the lock.                                              *)
LEMMA LockStep ==
  ASSUME RefreshTypeOK, LockInv, RefreshNext
  PROVE  LockInv'
<1>1. ASSUME NEW c \in Calls,
             Lead(c) \/ Follow(c) \/ TakeResult(c) \/ StopFollowing(c) \/
             RetryTimer(c) \/ Publish(c) \/ Cancel(c)
      PROVE  LockInv'
  BY <1>1
  DEF RefreshTypeOK, LockInv, Working, Auth, fileVars, storeVars, leaderVars,
      upstreamVars, history, Lead, Follow, TakeResult, Return, StopFollowing,
      RetryTimer, Publish, FlightAfter, Cancel, Disturb
<1>2. ASSUME NEW c \in Calls,
             Reload(c) \/ WaitCut(c) \/ SaveFails(c)
      PROVE  LockInv'
  BY <1>2
  DEF RefreshTypeOK, LockInv, Working, Auth, fileVars, storeVars, leaderVars,
      upstreamVars, history, Reload, CanLock, Finish, Fail, HolderAfter,
      WaitCut, SaveFails
<1>3. ASSUME NEW c \in Calls, NEW a \in Auths, NEW kind \in Kinds,
             Select(c, a, kind)
      PROVE  LockInv'
  BY <1>3
  DEF RefreshTypeOK, LockInv, Working, Auth, fileVars, storeVars, leaderVars,
      upstreamVars, history, Select
<1>4. ASSUME NEW c \in Calls, NEW fresh \in BOOLEAN, Reread(c, fresh)
      PROVE  LockInv'
  BY <1>4
  DEF RefreshTypeOK, LockInv, Working, Auth, fileVars, storeVars, leaderVars,
      upstreamVars, history, Reread, CanLock, Selectable, Candidate, Finish,
      Fail, HolderAfter
<1>5. ASSUME NEW c \in Calls, NEW effect \in Effects, Exchange(c, effect)
      PROVE  LockInv'
  BY <1>5
  DEF RefreshTypeOK, LockInv, Working, Auth, fileVars, storeVars, leaderVars,
      upstreamVars, history, Exchange, Serve, Granted
<1>6. ASSUME NEW c \in Calls, NEW effect \in Effects, Retry(c, effect)
      PROVE  LockInv'
  BY <1>6
  DEF RefreshTypeOK, LockInv, Working, Auth, fileVars, storeVars, leaderVars,
      upstreamVars, history, Retry, Unanswered, Serve
<1>7. ASSUME NEW c \in Calls, NEW effect \in Effects, NEW error \in Errors,
             AttemptFails(c, effect, error)
      PROVE  LockInv'
  BY <1>7
  DEF RefreshTypeOK, LockInv, Working, Auth, fileVars, storeVars, leaderVars,
      upstreamVars, history, AttemptFails, Unanswered, Serve, Finish, Fail,
      HolderAfter
<1>8. ASSUME NEW c \in Calls, Save(c)
      PROVE  LockInv'
  BY <1>8
  DEF RefreshTypeOK, LockInv, Working, Auth, fileVars, storeVars, leaderVars,
      upstreamVars, history, Save, Finish, Fail, HolderAfter
<1>9. ASSUME Aside
      PROVE  LockInv'
  BY <1>9, AsideFrame DEF LockInv, Working
<1>10. ASSUME NEW a \in Auths,
              NEW t \in [access : {0, issued[a] + 1}, refresh : {0, issued[a] + 1}],
              Login(a, t)
      PROVE  LockInv'
  BY <1>10
  DEF RefreshTypeOK, LockInv, Working, Auth, fileVars, storeVars, leaderVars,
      upstreamVars, history, Login, Disturb
<1>11. ASSUME Crash
      PROVE  LockInv'
  BY <1>11
  DEF RefreshTypeOK, LockInv, Working, Auth, fileVars, storeVars, leaderVars,
      upstreamVars, history, Crash, Disturb
<1> QED
  BY <1>1, <1>2, <1>3, <1>4, <1>5, <1>6, <1>7, <1>8, <1>9, <1>10, <1>11
  DEF RefreshNext, Step, Surroundings, Aside

(* Nothing refers to a token that was not issued.                          *)
NumbersInv ==
  /\ \A a \in Auths : disk[a].access <= issued[a] /\ disk[a].refresh <= issued[a]
  /\ \A a \in Auths : seen[a].access <= issued[a] /\ seen[a].refresh <= issued[a]
  /\ \A c \in Calls :
       /\ req[c].failed <= issued[Auth(c)]
       /\ pc[c] \in Working => /\ hold[c].access <= issued[Auth(c)]
                                /\ hold[c].refresh <= issued[Auth(c)]
  /\ \A a \in Auths, r \in Nat : <<a, r>> \in retired => 0 < r /\ r <= issued[a]

(* No file holds a refresh token that a saved file replaced, and no        *)
(* candidate does, but for one that was taken in the grace and has not     *)
(* been exchanged.                                                         *)
UnretiredInv ==
  /\ \A a \in Auths : <<a, disk[a].refresh>> \notin retired
  /\ \A c \in Calls :
       /\ pc[c] \in {"send", "wait"} /\ c \notin blind
            => <<Auth(c), hold[c].refresh>> \notin retired
       /\ pc[c] = "save" => <<Auth(c), hold[c].refresh>> \notin retired

(* A refresh token the last scan found may have been replaced, but then    *)
(* the endpoint no longer honours it.                                      *)
SeenInv ==
  \A a \in Auths : seen[a].refresh \in live[a] => <<a, seen[a].refresh>> \notin retired

(* While a leader works nobody scans: what it sends is what the last scan  *)
(* found, and what it saves keeps that refresh token or follows its end.   *)
HoldSeen ==
  \A c \in Calls :
    /\ pc[c] \in {"send", "wait"} => hold[c] = seen[Auth(c)]
    /\ pc[c] = "save" => \/ hold[c].refresh = seen[Auth(c)].refresh
                         \/ seen[Auth(c)].refresh \notin live[Auth(c)]

GraceInv == UnretiredInv /\ SeenInv /\ HoldSeen

(* What a leader is about to save can be redeemed.                         *)
SavesLive == \A c \in Calls : pc[c] = "save" => hold[c].refresh \in live[Auth(c)]

(* What a repairing leader is about to save is not the refused token.      *)
RepairInv ==
  /\ \A c \in Calls : AtWork(c) \/ pc[c] \in {"idle", "selected"} => lead[c] = NoCall
  /\ \A c \in Calls : pc[c] = "save" /\ req[c].kind = "repair"
                         => hold[c].access # req[c].failed
  /\ LeadersRepair

LEMMA ReadBound ==
  ASSUME RefreshTypeOK, NumbersInv, NEW a \in Auths
  PROVE  Read(a).access <= issued[a] /\ Read(a).refresh <= issued[a]
BY DEF NumbersInv, Read

(* Every step keeps the numbers.                                           *)
LEMMA NumbersStep ==
  ASSUME RefreshTypeOK, NumbersInv, RefreshNext
  PROVE  NumbersInv'
<1>1. ASSUME NEW c \in Calls,
             Lead(c) \/ Follow(c) \/ TakeResult(c) \/ StopFollowing(c) \/
             RetryTimer(c) \/ Publish(c) \/ Cancel(c)
      PROVE  NumbersInv'
  BY <1>1, AuthType, TokensType
  DEF RefreshTypeOK, Working, Auth, NumbersInv, Requests, NoTokens, fileVars,
      storeVars, leaderVars, upstreamVars, history, Lead, Follow, TakeResult,
      Return, StopFollowing, RetryTimer, Publish, FlightAfter, Cancel, Disturb
<1>2. ASSUME NEW c \in Calls,
             Reload(c) \/ WaitCut(c) \/ SaveFails(c)
      PROVE  NumbersInv'
  BY <1>2, AuthType, TokensType, ZenonT(90)
  DEF RefreshTypeOK, Working, Auth, NumbersInv, Requests, NoTokens, fileVars,
      storeVars, leaderVars, upstreamVars, history, Reload, CanLock, Finish,
      Fail, HolderAfter, WaitCut, SaveFails
<1>3. ASSUME NEW c \in Calls, NEW a \in Auths, NEW kind \in Kinds,
             Select(c, a, kind)
      PROVE  NumbersInv'
  <2>1. \A b \in Auths : /\ seen'[b].access <= issued'[b]
                         /\ seen'[b].refresh <= issued'[b]
    BY <1>3, ReadBound DEF Select, Scan, upstreamVars
  <2>2. \A d \in Calls : req'[d].failed <= issued'[req'[d].auth]
    <3>1. (IF kind = "force" THEN 0 ELSE Read(a).access) <= issued[a]
      BY ReadBound DEF RefreshTypeOK
    <3>2. req'[c].auth = a /\ req'[c].failed <= issued[a]
      BY <1>3, <3>1 DEF Select, RefreshTypeOK
    <3>3. \A d \in Calls \ {c} : req'[d] = req[d]
      BY <1>3 DEF Select, RefreshTypeOK
    <3>4. issued' = issued
      BY <1>3 DEF Select, upstreamVars
    <3> QED
      BY <3>2, <3>3, <3>4 DEF NumbersInv, Auth
  <2>3. \A d \in Calls : pc'[d] \in Working => pc[d] \in Working /\ req'[d] = req[d]
    BY <1>3 DEF Select, RefreshTypeOK, Working
  <2> QED
    BY <1>3, <2>1, <2>2, <2>3
    DEF Select, NumbersInv, Auth, fileVars, upstreamVars, leaderVars, history
<1>4. ASSUME NEW c \in Calls, NEW fresh \in BOOLEAN, Reread(c, fresh)
      PROVE  NumbersInv'
  <2>0. \A b \in Auths : /\ seen'[b].access <= issued'[b]
                         /\ seen'[b].refresh <= issued'[b]
    BY <1>4, ReadBound DEF Reread, Scan, upstreamVars
  <2>1. CASE Fail(c, "unavailable") \/ Fail(c, "refused")
    <3>1. \A d \in Calls : pc'[d] \in Working => pc[d] \in Working /\ hold'[d] = hold[d]
      BY <2>1 DEF RefreshTypeOK, Fail, Finish, Working
    <3>2. /\ disk' = disk /\ issued' = issued /\ req' = req /\ retired' = retired
      BY <1>4 DEF Reread, fileVars, upstreamVars, history
    <3> QED
      BY <2>0, <3>1, <3>2 DEF NumbersInv, Auth
  <2>2. CASE /\ Reuses(c, fresh)
             /\ Finish(c, [access |-> Read(Auth(c)).access, error |-> "none"])
    BY <1>4, <2>0, <2>2, AuthType, ReadType, ReadBound
    DEF RefreshTypeOK, Working, Auth, NumbersInv, Requests, NoTokens, fileVars,
        storeVars, leaderVars, upstreamVars, history, Reread, Reuses, Finish,
        HolderAfter, CanLock
  <2>3. CASE /\ hold' = [hold EXCEPT ![c] = Candidate(c)]
             /\ pc' = [pc EXCEPT ![c] = "send"]
             /\ UNCHANGED result
    BY <1>4, <2>0, <2>3, AuthType, ReadType, ReadBound
    DEF RefreshTypeOK, Working, Auth, NumbersInv, Requests, NoTokens, fileVars,
        storeVars, leaderVars, upstreamVars, history, Reread, Candidate,
        CanLock
  <2> QED
    BY <1>4, <2>1, <2>2, <2>3 DEF Reread
<1>5. ASSUME NEW c \in Calls, NEW effect \in Effects, Exchange(c, effect)
      PROVE  NumbersInv'
  BY <1>5, AuthType, TokensType
  DEF RefreshTypeOK, Working, Auth, NumbersInv, Requests, NoTokens, fileVars,
      storeVars, leaderVars, upstreamVars, history, Exchange, Serve, Granted
<1>6. ASSUME NEW c \in Calls, NEW effect \in Effects, Retry(c, effect)
      PROVE  NumbersInv'
  BY <1>6, AuthType, TokensType
  DEF RefreshTypeOK, Working, Auth, NumbersInv, Requests, NoTokens, fileVars,
      storeVars, leaderVars, upstreamVars, history, Retry, Unanswered, Serve
<1>7. ASSUME NEW c \in Calls, NEW effect \in Effects, NEW error \in Errors,
             AttemptFails(c, effect, error)
      PROVE  NumbersInv'
  BY <1>7, AuthType, TokensType
  DEF RefreshTypeOK, Working, Auth, NumbersInv, Requests, NoTokens, fileVars,
      storeVars, leaderVars, upstreamVars, history, AttemptFails, Unanswered,
      Serve, Finish, Fail, HolderAfter
<1>8. ASSUME NEW c \in Calls, Save(c)
      PROVE  NumbersInv'
  <2>1. \A b \in Auths : /\ disk'[b].access <= issued'[b]
                       /\ disk'[b].refresh <= issued'[b]
    BY <1>8, AuthType, TokensType
    DEF RefreshTypeOK, Save, Auth, Working, NumbersInv, upstreamVars, storeVars
  <2>2. ASSUME NEW d \in Calls
        PROVE  (/\ req[d].failed <= issued[Auth(d)]
                /\ pc[d] \in Working => /\ hold[d].access <= issued[Auth(d)]
                                        /\ hold[d].refresh <= issued[Auth(d)])'
    BY <1>8, AuthType, TokensType
    DEF RefreshTypeOK, Save, Finish, Auth, Working, NumbersInv, upstreamVars,
        storeVars
  <2>3. \A b \in Auths, r \in Nat : <<b, r>> \in retired' => 0 < r /\ r <= issued'[b]
    BY <1>8, AuthType, TokensType
    DEF RefreshTypeOK, Save, Auth, NumbersInv, upstreamVars, storeVars
  <2>4. seen' = seen /\ issued' = issued
    BY <1>8 DEF Save, storeVars, upstreamVars
  <2> QED
    BY <2>1, <2>2, <2>3, <2>4 DEF NumbersInv, Working, Auth
<1>9. ASSUME Aside
      PROVE  NumbersInv'
  <2>1. \A b \in Auths : /\ disk'[b].access <= issued[b]
                         /\ disk'[b].refresh <= issued[b]
    BY <1>9, AsideFiles DEF NoTokens, NumbersInv, RefreshTypeOK
  <2>2. \A b \in Auths : /\ seen'[b].access <= issued[b]
                         /\ seen'[b].refresh <= issued[b]
    BY <1>9, AsideFiles, ReadBound DEF NumbersInv
  <2> QED
    BY <1>9, <2>1, <2>2, AsideFrame DEF NumbersInv, Auth
<1>10. ASSUME NEW a \in Auths,
              NEW t \in [access : {0, issued[a] + 1}, refresh : {0, issued[a] + 1}],
              Login(a, t)
      PROVE  NumbersInv'
  BY <1>10, AuthType, TokensType
  DEF RefreshTypeOK, Working, Auth, NumbersInv, Requests, NoTokens, fileVars,
      storeVars, leaderVars, upstreamVars, history, Login, Disturb
<1>11. ASSUME Crash
      PROVE  NumbersInv'
  BY <1>11, AuthType, TokensType
  DEF RefreshTypeOK, Working, Auth, NumbersInv, Requests, NoTokens, fileVars,
      storeVars, leaderVars, upstreamVars, history, Crash, Disturb
<1> QED
  BY <1>1, <1>2, <1>3, <1>4, <1>5, <1>6, <1>7, <1>8, <1>9, <1>10, <1>11
  DEF RefreshNext, Step, Surroundings, Aside

(* What a step other than an exchange or a save does to what is retired:   *)
(* nothing comes to hold a retired token, nothing old comes alive, and a   *)
(* leader at work has just taken its candidate or goes on with it.         *)
KeepsGrace ==
  /\ retired' = retired
  /\ \A a \in Auths : /\ <<a, disk'[a].refresh>> \notin retired
                      /\ \/ seen'[a] = seen[a]
                         \/ <<a, seen'[a].refresh>> \notin retired
                      /\ \A r \in Nat : r \in live'[a] /\ r <= issued[a] => r \in live[a]
  /\ \A c \in Calls : pc'[c] \in Working =>
       \/ /\ pc[c] \in Working /\ (pc'[c] = "save" <=> pc[c] = "save")
          /\ hold'[c] = hold[c] /\ Auth(c)' = Auth(c) /\ c \in blind' \cup (Calls \ blind)
          /\ seen'[Auth(c)] = seen[Auth(c)]
       \/ /\ pc'[c] = "send" /\ hold'[c] = seen'[Auth(c)']
          /\ c \notin blind' => <<Auth(c)', hold'[c].refresh>> \notin retired

LEMMA GraceKept ==
  ASSUME RefreshTypeOK, NumbersInv, GraceInv, KeepsGrace
  PROVE  GraceInv'
<1>1. \A a \in Auths : <<a, disk'[a].refresh>> \notin retired'
  BY DEF KeepsGrace
<1>2. SeenInv'
  <2> SUFFICES ASSUME NEW a \in Auths, seen'[a].refresh \in live'[a]
               PROVE  <<a, seen'[a].refresh>> \notin retired
    BY DEF SeenInv, KeepsGrace
  <2>1. CASE seen'[a] = seen[a]
    <3>1. seen[a].refresh \in Nat /\ seen[a].refresh <= issued[a]
      BY TokensType DEF RefreshTypeOK, NumbersInv
    <3>2. seen[a].refresh \in live[a]
      BY <2>1, <3>1 DEF KeepsGrace
    <3> QED
      BY <2>1, <3>2 DEF GraceInv, SeenInv
  <2> QED
    BY <2>1 DEF KeepsGrace
<1>3. ASSUME NEW c \in Calls, pc'[c] \in Working
      PROVE  /\ pc'[c] \in {"send", "wait"} =>
                  /\ hold'[c] = seen'[Auth(c)']
                  /\ c \notin blind' => <<Auth(c)', hold'[c].refresh>> \notin retired
             /\ pc'[c] = "save" =>
                  /\ <<Auth(c)', hold'[c].refresh>> \notin retired
                  /\ \/ hold'[c].refresh = seen'[Auth(c)'].refresh
                     \/ seen'[Auth(c)'].refresh \notin live'[Auth(c)']
  <2>1. CASE /\ pc[c] \in Working /\ (pc'[c] = "save" <=> pc[c] = "save")
             /\ hold'[c] = hold[c] /\ Auth(c)' = Auth(c) /\ c \in blind' \cup (Calls \ blind)
             /\ seen'[Auth(c)] = seen[Auth(c)]
    <3>1. CASE pc'[c] = "save"
      <4>1. /\ Auth(c) \in Auths
            /\ seen[Auth(c)].refresh \in Nat /\ seen[Auth(c)].refresh <= issued[Auth(c)]
        BY AuthType, TokensType DEF NumbersInv
      <4>2. seen[Auth(c)].refresh \in live'[Auth(c)] => seen[Auth(c)].refresh \in live[Auth(c)]
        BY <4>1 DEF KeepsGrace
      <4> QED
        BY <2>1, <3>1, <4>2 DEF GraceInv, UnretiredInv, HoldSeen
    <3>2. CASE pc'[c] # "save"
      <4>1. pc[c] \in {"send", "wait"}
        BY <2>1, <3>2 DEF Working
      <4>2. c \notin blind' => c \notin blind
        BY <2>1
      <4> QED
        BY <2>1, <3>2, <4>1, <4>2 DEF GraceInv, UnretiredInv, HoldSeen
    <3> QED
      BY <3>1, <3>2
  <2>2. CASE /\ pc'[c] = "send" /\ hold'[c] = seen'[Auth(c)']
             /\ c \notin blind' => <<Auth(c)', hold'[c].refresh>> \notin retired
    BY <2>2
  <2> QED
    BY <1>3, <2>1, <2>2 DEF KeepsGrace
<1>4. retired' = retired
  BY DEF KeepsGrace
<1>5. UnretiredInv' /\ HoldSeen'
  BY <1>1, <1>3, <1>4 DEF UnretiredInv, HoldSeen, Working, Auth
<1> QED
  BY <1>2, <1>5 DEF GraceInv

(* A scan finds no retired token it did not find before.                   *)
LEMMA ScanUnretired ==
  ASSUME RefreshTypeOK, GraceInv, NEW a \in Auths
  PROVE  /\ Read(a) = seen[a] \/ <<a, Read(a).refresh>> \notin retired
         /\ a \notin torn => <<a, Read(a).refresh>> \notin retired
BY DEF GraceInv, UnretiredInv, Read

(* Serving the endpoint brings no old token to life.                       *)
LEMMA ServeOld ==
  ASSUME RefreshTypeOK, NEW a \in Auths, NEW r \in Nat, NEW effect \in Effects,
         Serve(a, r, effect), NEW b \in Auths
  PROVE  \A n \in Nat : n \in live'[b] /\ n <= issued[b] => n \in live[b]
BY DEF RefreshTypeOK, Serve

(* Only the holder of the lock works.                                      *)
LEMMA NobodyWorks ==
  ASSUME LockInv, holder = NoCall
  PROVE  \A d \in Calls : pc[d] \notin Working
BY DEF LockInv

LEMMA KeepsUnretired ==
  ASSUME GraceInv, NEW a \in Auths
  PROVE  <<a, disk[a].refresh>> \notin retired
BY DEF GraceInv, UnretiredInv

(* Every step keeps retired tokens out.                                    *)
LEMMA GraceStep ==
  ASSUME RefreshTypeOK, LockInv, NumbersInv, GraceInv, RefreshNext
  PROVE  GraceInv'
<1>1. ASSUME NEW c \in Calls,
             Lead(c) \/ Follow(c) \/ TakeResult(c) \/ StopFollowing(c) \/
             RetryTimer(c) \/ Publish(c) \/ Cancel(c)
      PROVE  KeepsGrace
  BY <1>1, KeepsUnretired
  DEF RefreshTypeOK, KeepsGrace, Working, Auth, fileVars, storeVars, leaderVars,
      upstreamVars, history, Lead, Follow, TakeResult, Return, StopFollowing,
      RetryTimer, Publish, Cancel
<1>2. ASSUME NEW c \in Calls,
             Reload(c) \/ WaitCut(c) \/ SaveFails(c)
      PROVE  KeepsGrace
  BY <1>2, KeepsUnretired
  DEF RefreshTypeOK, KeepsGrace, Working, Auth, fileVars, storeVars,
      upstreamVars, history, Reload, Finish, Fail, WaitCut, SaveFails
<1>3. ASSUME NEW c \in Calls, NEW a \in Auths, NEW kind \in Kinds,
             Select(c, a, kind)
      PROVE  KeepsGrace
  <2>1. \A d \in Calls : pc'[d] \notin Working
    BY <1>3, NobodyWorks DEF Select, RefreshTypeOK, Working
  <2>2. \A b \in Auths : seen'[b] = Read(b)
    BY <1>3 DEF Select, Scan
  <2> QED
    BY <1>3, <2>1, <2>2, ScanUnretired, KeepsUnretired
    DEF KeepsGrace, Select, fileVars, upstreamVars, history
<1>4. ASSUME NEW c \in Calls, NEW fresh \in BOOLEAN, Reread(c, fresh)
      PROVE  KeepsGrace
  <2>1. \A b \in Auths : seen'[b] = Read(b)
    BY <1>4 DEF Reread, Scan
  <2>2. \A d \in Calls : pc[d] \notin Working
    BY <1>4, NobodyWorks DEF Reread, CanLock
  <2>3. Auth(c) \in Auths /\ Auth(c)' = Auth(c)
    BY <1>4, AuthType DEF Reread, Auth
  <2>4. retired' = retired /\ disk' = disk /\ live' = live
    BY <1>4 DEF Reread, fileVars, upstreamVars, history
  <2>5. CASE /\ hold' = [hold EXCEPT ![c] = Candidate(c)]
             /\ blind' = IF Auth(c) \in torn THEN blind \cup {c} ELSE blind
             /\ pc' = [pc EXCEPT ![c] = "send"]
    <3>1. /\ pc'[c] = "send" /\ hold'[c] = Read(Auth(c))
          /\ c \notin blind' => Auth(c) \notin torn
          /\ \A d \in Calls \ {c} : pc'[d] \notin Working
      BY <2>2, <2>5 DEF RefreshTypeOK, Candidate
    <3>2. hold'[c] = seen'[Auth(c)']
      BY <2>1, <2>3, <3>1
    <3>3. c \notin blind' => <<Auth(c)', hold'[c].refresh>> \notin retired
      BY <2>3, <3>1, ScanUnretired
    <3>4. \A d \in Calls : pc'[d] \in Working => d = c
      BY <3>1
    <3>5. \A a \in Auths : /\ <<a, disk'[a].refresh>> \notin retired
                           /\ \/ seen'[a] = seen[a]
                              \/ <<a, seen'[a].refresh>> \notin retired
      BY <2>1, <2>4, ScanUnretired, KeepsUnretired
    <3> QED
      BY <2>4, <3>1, <3>2, <3>3, <3>4, <3>5 DEF KeepsGrace
  <2>6. CASE \E r \in Results \cup {[access |-> Read(Auth(c)).access, error |-> "none"],
                        [access |-> 0, error |-> "unavailable"],
                        [access |-> 0, error |-> "refused"]} : Finish(c, r)
    <3>1. \A d \in Calls : pc'[d] \notin Working
      BY <2>2, <2>6 DEF RefreshTypeOK, Finish, Working
    <3> QED
      BY <2>1, <2>4, <3>1, ScanUnretired, KeepsUnretired DEF KeepsGrace
  <2> QED
    BY <1>4, <2>5, <2>6 DEF Reread, Fail
<1>5. ASSUME NEW c \in Calls, NEW effect \in Effects, Exchange(c, effect)
      PROVE  GraceInv'
  <2> DEFINE a == Auth(c)
  <2>1. /\ a \in Auths /\ hold[c].refresh \in Nat /\ seen[a].refresh \in Nat
        /\ issued[a] \in Nat /\ seen[a].refresh <= issued[a]
    BY AuthType, TokensType DEF RefreshTypeOK, NumbersInv
  <2>2. /\ hold[c] = seen[a] /\ hold[c].refresh \in live[a]
        /\ <<a, hold[c].refresh>> \notin retired
    BY <1>5, <2>1 DEF Exchange, Serve, GraceInv, HoldSeen, SeenInv
  <2>3. /\ disk' = disk /\ seen' = seen /\ retired' = retired /\ req' = req
        /\ blind' = blind
    BY <1>5 DEF Exchange, fileVars, storeVars, history
  <2>4. \A b \in Auths : \A n \in Nat : n \in live'[b] /\ n <= issued[b] => n \in live[b]
    BY <1>5, <2>1, ServeOld DEF Exchange
  <2>5. SeenInv'
    BY <2>3, <2>4, TokensType
    DEF SeenInv, GraceInv, NumbersInv, RefreshTypeOK
  <2>6. /\ pc'[c] = "save" /\ \A d \in Calls \ {c} : pc'[d] \notin Working
    BY <1>5 DEF Exchange, RefreshTypeOK, LockInv, Working
  <2>7. \/ /\ effect = "renewed" /\ hold'[c].refresh = hold[c].refresh
        \/ /\ hold'[c].refresh = issued[a] + 1
           /\ seen[a].refresh \notin live'[a]
    <3>1. CASE effect = "rotated"
      <4>1. hold'[c].refresh = issued[a] + 1
        BY <1>5, <3>1 DEF Exchange, Granted, RefreshTypeOK
      <4>2. live'[a] = (live[a] \ {hold[c].refresh}) \cup {issued[a] + 1}
        BY <1>5, <2>1, <3>1 DEF Exchange, Serve, RefreshTypeOK
      <4> QED
        BY <2>1, <2>2, <4>1, <4>2
    <3>2. CASE effect = "renewed"
      BY <1>5, <3>2 DEF Exchange, Granted, RefreshTypeOK
    <3> QED
      BY <1>5, <3>1, <3>2 DEF Exchange, Effects
  <2>8. /\ <<a, hold'[c].refresh>> \notin retired
        /\ \/ hold'[c].refresh = seen[a].refresh
           \/ seen[a].refresh \notin live'[a]
    <3>1. <<a, issued[a] + 1>> \notin retired
      BY <2>1 DEF NumbersInv
    <3> QED
      BY <2>2, <2>7, <3>1
  <2>9. Auth(c)' = a
    BY <2>3 DEF Auth
  <2>10. UnretiredInv' /\ HoldSeen'
    <3>1. \A b \in Auths : <<b, disk'[b].refresh>> \notin retired'
      BY <2>3, KeepsUnretired
    <3>2. \A d \in Calls : pc'[d] \in Working => d = c
      BY <2>6
    <3> QED
      BY <2>3, <2>6, <2>8, <2>9, <3>1, <3>2 DEF UnretiredInv, HoldSeen, Working
  <2> QED
    BY <2>5, <2>10 DEF GraceInv
<1>6. ASSUME NEW c \in Calls, NEW effect \in Effects, Retry(c, effect)
      PROVE  KeepsGrace
  <2>1. \A b \in Auths : \A n \in Nat : n \in live'[b] /\ n <= issued[b] => n \in live[b]
    BY <1>6, AuthType, TokensType, ServeOld DEF Retry, Unanswered
  <2>2. \A d \in Calls : pc'[d] \in Working =>
            pc[d] \in Working /\ (pc'[d] = "save" <=> pc[d] = "save")
    BY <1>6 DEF Retry, Unanswered, RefreshTypeOK, Working
  <2> QED
    BY <1>6, <2>1, <2>2, KeepsUnretired
    DEF KeepsGrace, Retry, Unanswered, Auth, fileVars, storeVars
<1>7. ASSUME NEW c \in Calls, NEW effect \in Effects, NEW error \in Errors,
             AttemptFails(c, effect, error)
      PROVE  KeepsGrace
  <2>1. \A b \in Auths : \A n \in Nat : n \in live'[b] /\ n <= issued[b] => n \in live[b]
    BY <1>7, AuthType, TokensType, ServeOld DEF AttemptFails, Unanswered
  <2>2. \A d \in Calls : pc'[d] \in Working =>
            /\ pc[d] \in Working /\ (pc'[d] = "save" <=> pc[d] = "save")
            /\ hold'[d] = hold[d] /\ d \in blind' \cup (Calls \ blind)
    BY <1>7 DEF AttemptFails, Fail, Finish, RefreshTypeOK, Working
  <2> QED
    BY <1>7, <2>1, <2>2, KeepsUnretired
    DEF KeepsGrace, AttemptFails, Unanswered, Auth, fileVars, storeVars
<1>8. ASSUME NEW c \in Calls, Save(c)
      PROVE  GraceInv'
  <2> DEFINE a == Auth(c)
  <2>1. a \in Auths /\ hold[c].refresh \in Nat /\ disk[a].refresh \in Nat
    BY AuthType, TokensType
  <2>2. /\ <<a, hold[c].refresh>> \notin retired
        /\ \/ hold[c].refresh = seen[a].refresh
           \/ seen[a].refresh \notin live[a]
    BY <1>8 DEF Save, GraceInv, UnretiredInv, HoldSeen
  <2>3. disk' = [disk EXCEPT ![a] = hold[c]] /\ seen' = seen /\ live' = live
    BY <1>8 DEF Save, storeVars, upstreamVars
  <2>4. \A b \in Auths, r \in Nat : <<b, r>> \in retired' =>
            \/ <<b, r>> \in retired
            \/ b = a /\ r = disk[a].refresh /\ r # hold[c].refresh
    BY <1>8 DEF Save
  <2>5. \A d \in Calls : pc'[d] \notin Working
    BY <1>8 DEF Save, Finish, RefreshTypeOK, LockInv, Working
  <2>6. \A b \in Auths : <<b, disk'[b].refresh>> \notin retired'
    <3> SUFFICES ASSUME NEW b \in Auths PROVE <<b, disk'[b].refresh>> \notin retired'
      OBVIOUS
    <3>1. CASE b = a
      <4>1. disk'[b] = hold[c]
        BY <2>1, <2>3, <3>1 DEF RefreshTypeOK
      <4> QED
        BY <2>1, <2>2, <2>4, <3>1, <4>1
    <3>2. CASE b # a
      <4>1. disk'[b] = disk[b] /\ disk[b].refresh \in Nat
        BY <2>3, <3>2, TokensType DEF RefreshTypeOK
      <4> QED
        BY <2>4, <3>2, <4>1, KeepsUnretired
    <3> QED
      BY <3>1, <3>2
  <2>7. SeenInv'
    <3> SUFFICES ASSUME NEW b \in Auths, seen[b].refresh \in live[b]
                 PROVE  <<b, seen[b].refresh>> \notin retired'
      BY <2>3 DEF SeenInv
    <3>1. <<b, seen[b].refresh>> \notin retired /\ seen[b].refresh \in Nat
      BY TokensType DEF GraceInv, SeenInv, RefreshTypeOK
    <3> QED
      BY <2>2, <2>4, <3>1
  <2> QED
    BY <2>5, <2>6, <2>7 DEF GraceInv, UnretiredInv, HoldSeen, Working
<1>9. ASSUME Aside
      PROVE  KeepsGrace
  <2>1. \A b \in Auths : <<b, disk'[b].refresh>> \notin retired
    <3>1. \A b \in Auths : <<b, 0>> \notin retired
      BY DEF NumbersInv
    <3> QED
      BY <1>9, <3>1, AsideFiles, KeepsUnretired DEF NoTokens
  <2>2. \A b \in Auths : seen'[b] = seen[b] \/ <<b, seen'[b].refresh>> \notin retired
    BY <1>9, AsideFiles, ScanUnretired
  <2>3. \A d \in Calls : pc[d] \in Working => seen' = seen
    BY <1>9, NobodyWorks
    DEF Aside, Rescan, Mend, GracePasses, SetAccountDisabled, Remove, Tear, storeVars
  <2> QED
    BY <1>9, <2>1, <2>2, <2>3, AsideFrame DEF KeepsGrace, Auth, Working
<1>10. ASSUME NEW a \in Auths,
              NEW t \in [access : {0, issued[a] + 1}, refresh : {0, issued[a] + 1}],
              Login(a, t)
      PROVE  KeepsGrace
  <2>1. /\ issued[a] \in Nat /\ disk' = [disk EXCEPT ![a] = t]
        /\ t.refresh \in {0, issued[a] + 1}
        /\ live' = [live EXCEPT ![a] = @ \cup ({t.refresh} \ {0})]
    BY <1>10 DEF Login, RefreshTypeOK
  <2>2. <<a, t.refresh>> \notin retired
    BY <2>1 DEF NumbersInv
  <2>3. \A b \in Auths : <<b, disk'[b].refresh>> \notin retired
    BY <2>1, <2>2, KeepsUnretired DEF RefreshTypeOK
  <2>4. \A b \in Auths : \A n \in Nat : n \in live'[b] /\ n <= issued[b] => n \in live[b]
    BY <2>1 DEF RefreshTypeOK
  <2>5. /\ retired' = retired /\ seen' = seen /\ pc' = pc /\ hold' = hold
        /\ req' = req /\ blind' = blind
    BY <1>10 DEF Login, storeVars, leaderVars
  <2> QED
    BY <2>3, <2>4, <2>5 DEF KeepsGrace, Auth
<1>11. ASSUME Crash
      PROVE  KeepsGrace
  <2>1. \A d \in Calls : pc'[d] \notin Working
    BY <1>11 DEF Crash, Working
  <2>2. \A b \in Auths : <<b, seen'[b].refresh>> \notin retired
    BY <1>11, KeepsUnretired DEF Crash, NumbersInv, NoTokens
  <2> QED
    BY <1>11, <2>1, <2>2, KeepsUnretired
    DEF KeepsGrace, Crash, fileVars, upstreamVars
<1> QED
  BY <1>1, <1>2, <1>3, <1>4, <1>5, <1>6, <1>7, <1>8, <1>9, <1>10, <1>11, GraceKept
  DEF RefreshNext, Step, Surroundings, Aside

(* Every step keeps what is saved alive.                                   *)
LEMMA SavesLiveStep ==
  ASSUME RefreshTypeOK, LockInv, SavesLive, RefreshNext
  PROVE  SavesLive'
<1>1. ASSUME NEW c \in Calls,
             Lead(c) \/ Follow(c) \/ TakeResult(c) \/ StopFollowing(c) \/
             RetryTimer(c) \/ Publish(c) \/ Cancel(c)
      PROVE  SavesLive'
  BY <1>1, AuthType, TokensType
  DEF RefreshTypeOK, Working, Auth, LockInv, SavesLive, fileVars, storeVars,
      leaderVars, upstreamVars, history, Lead, Follow, TakeResult, Return,
      StopFollowing, RetryTimer, Publish, FlightAfter, Cancel, Disturb
<1>2. ASSUME NEW c \in Calls,
             Reload(c) \/ WaitCut(c) \/ SaveFails(c)
      PROVE  SavesLive'
  BY <1>2, AuthType, TokensType, SMTT(30)
  DEF RefreshTypeOK, Working, Auth, LockInv, SavesLive, fileVars, storeVars,
      leaderVars, upstreamVars, history, Reload, CanLock, Finish, Fail,
      HolderAfter, WaitCut, SaveFails
<1>3. ASSUME NEW c \in Calls, NEW a \in Auths, NEW kind \in Kinds,
             Select(c, a, kind)
      PROVE  SavesLive'
  BY <1>3, AuthType, TokensType
  DEF RefreshTypeOK, Working, Auth, LockInv, SavesLive, fileVars, storeVars,
      leaderVars, upstreamVars, history, Select
<1>4. ASSUME NEW c \in Calls, NEW fresh \in BOOLEAN, Reread(c, fresh)
      PROVE  SavesLive'
  BY <1>4, AuthType, TokensType, SMTT(30)
  DEF RefreshTypeOK, Working, Auth, LockInv, SavesLive, fileVars, storeVars,
      leaderVars, upstreamVars, history, Reread, CanLock, Selectable,
      Candidate, Finish, Fail, HolderAfter
<1>5. ASSUME NEW c \in Calls, NEW effect \in Effects, Exchange(c, effect)
      PROVE  SavesLive'
  BY <1>5, AuthType, TokensType
  DEF RefreshTypeOK, Working, Auth, LockInv, SavesLive, fileVars, storeVars,
      leaderVars, upstreamVars, history, Exchange, Serve, Granted
<1>6. ASSUME NEW c \in Calls, NEW effect \in Effects, Retry(c, effect)
      PROVE  SavesLive'
  BY <1>6, AuthType, TokensType
  DEF RefreshTypeOK, Working, Auth, LockInv, SavesLive, fileVars, storeVars,
      leaderVars, upstreamVars, history, Retry, Unanswered, Serve
<1>7. ASSUME NEW c \in Calls, NEW effect \in Effects, NEW error \in Errors,
             AttemptFails(c, effect, error)
      PROVE  SavesLive'
  BY <1>7, AuthType, TokensType
  DEF RefreshTypeOK, Working, Auth, LockInv, SavesLive, fileVars, storeVars,
      leaderVars, upstreamVars, history, AttemptFails, Unanswered, Serve,
      Finish, Fail, HolderAfter
<1>8. ASSUME NEW c \in Calls, Save(c)
      PROVE  SavesLive'
  BY <1>8, AuthType, TokensType
  DEF RefreshTypeOK, Working, Auth, LockInv, SavesLive, fileVars, storeVars,
      leaderVars, upstreamVars, history, Save, Finish, Fail, HolderAfter
<1>9. ASSUME Aside
      PROVE  SavesLive'
  BY <1>9, AsideFrame DEF SavesLive, Auth
<1>10. ASSUME NEW a \in Auths,
              NEW t \in [access : {0, issued[a] + 1}, refresh : {0, issued[a] + 1}],
              Login(a, t)
      PROVE  SavesLive'
  BY <1>10, AuthType, TokensType
  DEF RefreshTypeOK, Working, Auth, LockInv, SavesLive, fileVars, storeVars,
      leaderVars, upstreamVars, history, Login, Disturb
<1>11. ASSUME Crash
      PROVE  SavesLive'
  BY <1>11, AuthType, TokensType
  DEF RefreshTypeOK, Working, Auth, LockInv, SavesLive, fileVars, storeVars,
      leaderVars, upstreamVars, history, Crash, Disturb
<1> QED
  BY <1>1, <1>2, <1>3, <1>4, <1>5, <1>6, <1>7, <1>8, <1>9, <1>10, <1>11
  DEF RefreshNext, Step, Surroundings, Aside

(* Every step keeps the files redeemable.                                  *)
LEMMA RedeemableStep ==
  ASSUME RefreshTypeOK, SavesLive, DiskRedeemable, RefreshNext
  PROVE  DiskRedeemable'
<1>1. ASSUME NEW c \in Calls, NEW a \in Auths, NEW kind \in Kinds,
             Select(c, a, kind)
      PROVE  DiskRedeemable'
  BY <1>1, AuthType, TokensType
  DEF RefreshTypeOK, Working, Auth, SavesLive, DiskRedeemable, NoTokens,
      fileVars, storeVars, leaderVars, upstreamVars, history, Select
<1>2. ASSUME NEW c \in Calls, Lead(c)
      PROVE  DiskRedeemable'
  BY <1>2, AuthType, TokensType
  DEF RefreshTypeOK, Working, Auth, SavesLive, DiskRedeemable, NoTokens,
      fileVars, storeVars, leaderVars, upstreamVars, history, Lead
<1>3. ASSUME NEW c \in Calls, Follow(c)
      PROVE  DiskRedeemable'
  BY <1>3, AuthType, TokensType
  DEF RefreshTypeOK, Working, Auth, SavesLive, DiskRedeemable, NoTokens,
      fileVars, storeVars, leaderVars, upstreamVars, history, Follow
<1>4. ASSUME NEW c \in Calls, TakeResult(c)
      PROVE  DiskRedeemable'
  BY <1>4, AuthType, TokensType
  DEF RefreshTypeOK, Working, Auth, SavesLive, DiskRedeemable, NoTokens,
      fileVars, storeVars, leaderVars, upstreamVars, history, TakeResult,
      Return
<1>5. ASSUME NEW c \in Calls, StopFollowing(c)
      PROVE  DiskRedeemable'
  BY <1>5, AuthType, TokensType
  DEF RefreshTypeOK, Working, Auth, SavesLive, DiskRedeemable, NoTokens,
      fileVars, storeVars, leaderVars, upstreamVars, history, StopFollowing,
      Return
<1>6. ASSUME NEW c \in Calls, Reload(c)
      PROVE  DiskRedeemable'
  BY <1>6, AuthType, TokensType
  DEF RefreshTypeOK, Working, Auth, SavesLive, DiskRedeemable, NoTokens,
      fileVars, storeVars, leaderVars, upstreamVars, history, Reload, CanLock,
      Finish, Fail, HolderAfter
<1>7. ASSUME NEW c \in Calls, NEW fresh \in BOOLEAN, Reread(c, fresh)
      PROVE  DiskRedeemable'
  BY <1>7, AuthType, TokensType, SMTT(30)
  DEF RefreshTypeOK, Working, Auth, SavesLive, DiskRedeemable, NoTokens,
      fileVars, storeVars, leaderVars, upstreamVars, history, Reread, CanLock,
      Selectable, Candidate, Finish, Fail, HolderAfter
<1>8. ASSUME NEW c \in Calls, NEW effect \in Effects, Exchange(c, effect)
      PROVE  DiskRedeemable'
  <2> SUFFICES ASSUME NEW a \in Auths \ damaged
               PROVE  \/ disk[a].refresh \in live'[a] \cup {0}
                      \/ \E d \in Calls : /\ pc'[d] = "save" /\ Auth(d)' = a
                                          /\ hold'[d].refresh \in live'[a]
    BY <1>8 DEF Exchange, DiskRedeemable, fileVars, storeVars, history
  <2>1. CASE Auth(c) = a
    <3>1. hold'[c].refresh \in live'[a]
      BY <1>8, <2>1, AuthType, TokensType
      DEF RefreshTypeOK, Exchange, Serve, Granted, Effects
    <3> QED
      BY <1>8, <2>1, <3>1 DEF RefreshTypeOK, Exchange, Auth
  <2>2. CASE Auth(c) # a
    <3>1. live'[a] = live[a]
      BY <1>8, <2>2, AuthType DEF RefreshTypeOK, Exchange, Serve
    <3>2. ASSUME NEW d \in Calls, pc[d] = "save", Auth(d) = a
          PROVE  pc'[d] = "save" /\ Auth(d)' = a /\ hold'[d] = hold[d]
      BY <1>8, <2>2, <3>2 DEF RefreshTypeOK, Exchange, Auth
    <3> QED
      BY <3>1, <3>2 DEF DiskRedeemable
  <2> QED
    BY <2>1, <2>2
<1>9. ASSUME NEW c \in Calls, NEW effect \in Effects, Retry(c, effect)
      PROVE  DiskRedeemable'
  BY <1>9, AuthType, TokensType
  DEF RefreshTypeOK, Working, Auth, SavesLive, DiskRedeemable, NoTokens,
      fileVars, storeVars, leaderVars, upstreamVars, history, Retry,
      Unanswered, Serve
<1>10. ASSUME NEW c \in Calls, NEW effect \in Effects, NEW error \in Errors,
              AttemptFails(c, effect, error)
      PROVE  DiskRedeemable'
  BY <1>10, AuthType, TokensType
  DEF RefreshTypeOK, Working, Auth, SavesLive, DiskRedeemable, NoTokens,
      fileVars, storeVars, leaderVars, upstreamVars, history, AttemptFails,
      Unanswered, Serve, Finish, Fail, HolderAfter
<1>11. ASSUME NEW c \in Calls, RetryTimer(c)
      PROVE  DiskRedeemable'
  BY <1>11, AuthType, TokensType
  DEF RefreshTypeOK, Working, Auth, SavesLive, DiskRedeemable, NoTokens,
      fileVars, storeVars, leaderVars, upstreamVars, history, RetryTimer
<1>12. ASSUME NEW c \in Calls, WaitCut(c)
      PROVE  DiskRedeemable'
  BY <1>12, AuthType, TokensType
  DEF RefreshTypeOK, Working, Auth, SavesLive, DiskRedeemable, NoTokens,
      fileVars, storeVars, leaderVars, upstreamVars, history, WaitCut, Finish,
      Fail, HolderAfter
<1>13. ASSUME NEW c \in Calls, Save(c)
      PROVE  DiskRedeemable'
  BY <1>13, AuthType, TokensType
  DEF RefreshTypeOK, Working, Auth, SavesLive, DiskRedeemable, NoTokens,
      fileVars, storeVars, leaderVars, upstreamVars, history, Save, Finish,
      Fail, HolderAfter
<1>14. ASSUME NEW c \in Calls, SaveFails(c)
      PROVE  DiskRedeemable'
  BY <1>14, AuthType, TokensType
  DEF RefreshTypeOK, Working, Auth, SavesLive, DiskRedeemable, NoTokens,
      fileVars, storeVars, leaderVars, upstreamVars, history, SaveFails,
      Finish, Fail, HolderAfter
<1>15. ASSUME NEW c \in Calls, Publish(c)
      PROVE  DiskRedeemable'
  BY <1>15, AuthType, TokensType
  DEF RefreshTypeOK, Working, Auth, SavesLive, DiskRedeemable, NoTokens,
      fileVars, storeVars, leaderVars, upstreamVars, history, Publish, Return,
      FlightAfter
<1>16. ASSUME NEW c \in Calls, Cancel(c)
      PROVE  DiskRedeemable'
  BY <1>16, AuthType, TokensType
  DEF RefreshTypeOK, Working, Auth, SavesLive, DiskRedeemable, NoTokens,
      fileVars, storeVars, leaderVars, upstreamVars, history, Cancel, Disturb
<1>17. ASSUME Aside
      PROVE  DiskRedeemable'
  <2>1. \A b \in Auths : disk'[b].refresh \in {disk[b].refresh, 0}
    BY <1>17, AsideFiles DEF NoTokens
  <2> QED
    BY <1>17, <2>1, AsideFrame DEF DiskRedeemable, Auth
<1>18. ASSUME NEW a \in Auths,
              NEW t \in [access : {0, issued[a] + 1}, refresh : {0, issued[a] + 1}],
              Login(a, t)
      PROVE  DiskRedeemable'
  BY <1>18, AuthType, TokensType
  DEF RefreshTypeOK, Working, Auth, SavesLive, DiskRedeemable, NoTokens,
      fileVars, storeVars, leaderVars, upstreamVars, history, Login, Disturb
<1>19. ASSUME Crash
      PROVE  DiskRedeemable'
  BY <1>19, AuthType, TokensType
  DEF RefreshTypeOK, Working, Auth, SavesLive, DiskRedeemable, NoTokens,
      fileVars, storeVars, leaderVars, upstreamVars, history, Crash, Disturb
<1> QED
  BY <1>1, <1>2, <1>3, <1>4, <1>5, <1>6, <1>7, <1>8, <1>9, <1>10, <1>11, <1>12,
     <1>13, <1>14, <1>15, <1>16, <1>17, <1>18, <1>19
  DEF RefreshNext, Step, Surroundings, Aside

(* Every step keeps repairs honest.                                        *)
LEMMA RepairStep ==
  ASSUME RefreshTypeOK, Led, NumbersInv, RepairInv, RefreshNext
  PROVE  RepairInv'
<1>1. ASSUME NEW c \in Calls, NEW a \in Auths, NEW kind \in Kinds,
             Select(c, a, kind)
      PROVE  RepairInv'
  BY <1>1, AuthType, TokensType
  DEF RefreshTypeOK, Working, Auth, Led, NumbersInv, RepairInv, LeadersRepair,
      AtWork, Results, fileVars, storeVars, leaderVars, upstreamVars, history,
      Select
<1>2. ASSUME NEW c \in Calls, Lead(c)
      PROVE  RepairInv'
  BY <1>2, AuthType, TokensType
  DEF RefreshTypeOK, Working, Auth, Led, NumbersInv, RepairInv, LeadersRepair,
      AtWork, Results, fileVars, storeVars, leaderVars, upstreamVars, history,
      Lead
<1>3. ASSUME NEW c \in Calls, Follow(c)
      PROVE  RepairInv'
  BY <1>3, AuthType, TokensType
  DEF RefreshTypeOK, Working, Auth, Led, NumbersInv, RepairInv, LeadersRepair,
      AtWork, Results, fileVars, storeVars, leaderVars, upstreamVars, history,
      Follow
<1>4. ASSUME NEW c \in Calls, TakeResult(c)
      PROVE  RepairInv'
  BY <1>4, AuthType, TokensType
  DEF RefreshTypeOK, Working, Auth, Led, NumbersInv, RepairInv, LeadersRepair,
      AtWork, Results, fileVars, storeVars, leaderVars, upstreamVars, history,
      TakeResult, Return
<1>5. ASSUME NEW c \in Calls, StopFollowing(c)
      PROVE  RepairInv'
  BY <1>5, AuthType, TokensType
  DEF RefreshTypeOK, Working, Auth, Led, NumbersInv, RepairInv, LeadersRepair,
      AtWork, Results, fileVars, storeVars, leaderVars, upstreamVars, history,
      StopFollowing, Return
<1>6. ASSUME NEW c \in Calls, Reload(c)
      PROVE  RepairInv'
  BY <1>6, AuthType, TokensType
  DEF RefreshTypeOK, Working, Auth, Led, NumbersInv, RepairInv, LeadersRepair,
      AtWork, Results, fileVars, storeVars, leaderVars, upstreamVars, history,
      Reload, CanLock, Finish, Fail, HolderAfter
<1>7. ASSUME NEW c \in Calls, NEW fresh \in BOOLEAN, Reread(c, fresh)
      PROVE  RepairInv'
  <2>1. CASE Fail(c, "unavailable") \/ Fail(c, "refused")
    <3>1. /\ pc'[c] = "publish" /\ result'[c].error # "none"
          /\ \A d \in Calls \ {c} : pc'[d] = pc[d] /\ result'[d] = result[d]
      BY <2>1 DEF RefreshTypeOK, Fail, Finish
    <3>2. hold' = [hold EXCEPT ![c] = NoTokens] /\ lead' = lead /\ req' = req
      BY <1>7, <2>1 DEF Reread, Fail, Finish
    <3> QED
      BY <1>7, <3>1, <3>2 DEF RefreshTypeOK, CanLock, Reread, AtWork, Working, RepairInv,
        LeadersRepair
  <2>2. CASE /\ Reuses(c, fresh)
             /\ Finish(c, [access |-> Read(Auth(c)).access, error |-> "none"])
    BY <1>7, <2>2, AuthType, ReadType
    DEF RefreshTypeOK, Working, Auth, AtWork, RepairInv, LeadersRepair,
        fileVars, storeVars, leaderVars, upstreamVars, history, Reread, Reuses,
        Finish, HolderAfter, CanLock
  <2>3. CASE /\ hold' = [hold EXCEPT ![c] = Candidate(c)]
             /\ pc' = [pc EXCEPT ![c] = "send"]
             /\ UNCHANGED result
    BY <1>7, <2>3, AuthType, ReadType
    DEF RefreshTypeOK, Working, Auth, AtWork, RepairInv, LeadersRepair,
        fileVars, storeVars, leaderVars, upstreamVars, history, Reread,
        Candidate, CanLock
  <2> QED
    BY <1>7, <2>1, <2>2, <2>3 DEF Reread
<1>8. ASSUME NEW c \in Calls, NEW effect \in Effects, Exchange(c, effect)
      PROVE  RepairInv'
  BY <1>8, AuthType, TokensType
  DEF RefreshTypeOK, Working, Auth, Led, NumbersInv, RepairInv, LeadersRepair,
      AtWork, Results, fileVars, storeVars, leaderVars, upstreamVars, history,
      Exchange, Serve, Granted
<1>9. ASSUME NEW c \in Calls, NEW effect \in Effects, Retry(c, effect)
      PROVE  RepairInv'
  BY <1>9, AuthType, TokensType
  DEF RefreshTypeOK, Working, Auth, Led, NumbersInv, RepairInv, LeadersRepair,
      AtWork, Results, fileVars, storeVars, leaderVars, upstreamVars, history,
      Retry, Unanswered, Serve
<1>10. ASSUME NEW c \in Calls, NEW effect \in Effects, NEW error \in Errors,
              AttemptFails(c, effect, error)
      PROVE  RepairInv'
  BY <1>10, AuthType, TokensType
  DEF RefreshTypeOK, Working, Auth, Led, NumbersInv, RepairInv, LeadersRepair,
      AtWork, Results, fileVars, storeVars, leaderVars, upstreamVars, history,
      AttemptFails, Unanswered, Serve, Finish, Fail, HolderAfter
<1>11. ASSUME NEW c \in Calls, RetryTimer(c)
      PROVE  RepairInv'
  BY <1>11, AuthType, TokensType
  DEF RefreshTypeOK, Working, Auth, Led, NumbersInv, RepairInv, LeadersRepair,
      AtWork, Results, fileVars, storeVars, leaderVars, upstreamVars, history,
      RetryTimer
<1>12. ASSUME NEW c \in Calls, WaitCut(c)
      PROVE  RepairInv'
  BY <1>12, AuthType, TokensType
  DEF RefreshTypeOK, Working, Auth, Led, NumbersInv, RepairInv, LeadersRepair,
      AtWork, Results, fileVars, storeVars, leaderVars, upstreamVars, history,
      WaitCut, Finish, Fail, HolderAfter
<1>13. ASSUME NEW c \in Calls, Save(c)
      PROVE  RepairInv'
  BY <1>13, AuthType, TokensType
  DEF RefreshTypeOK, Working, Auth, Led, NumbersInv, RepairInv, LeadersRepair,
      AtWork, Results, fileVars, storeVars, leaderVars, upstreamVars, history,
      Save, Finish, Fail, HolderAfter
<1>14. ASSUME NEW c \in Calls, SaveFails(c)
      PROVE  RepairInv'
  BY <1>14, AuthType, TokensType
  DEF RefreshTypeOK, Working, Auth, Led, NumbersInv, RepairInv, LeadersRepair,
      AtWork, Results, fileVars, storeVars, leaderVars, upstreamVars, history,
      SaveFails, Finish, Fail, HolderAfter
<1>15. ASSUME NEW c \in Calls, Publish(c)
      PROVE  RepairInv'
  BY <1>15, AuthType, TokensType
  DEF RefreshTypeOK, Working, Auth, Led, NumbersInv, RepairInv, LeadersRepair,
      AtWork, Results, fileVars, storeVars, leaderVars, upstreamVars, history,
      Publish, Return, FlightAfter
<1>16. ASSUME NEW c \in Calls, Cancel(c)
      PROVE  RepairInv'
  BY <1>16, AuthType, TokensType
  DEF RefreshTypeOK, Working, Auth, Led, NumbersInv, RepairInv, LeadersRepair,
      AtWork, Results, fileVars, storeVars, leaderVars, upstreamVars, history,
      Cancel, Disturb
<1>17. ASSUME Aside
      PROVE  RepairInv'
  BY <1>17, AsideFrame DEF RepairInv, LeadersRepair, AtWork, Working
<1>18. ASSUME NEW a \in Auths,
              NEW t \in [access : {0, issued[a] + 1}, refresh : {0, issued[a] + 1}],
              Login(a, t)
      PROVE  RepairInv'
  BY <1>18, AuthType, TokensType
  DEF RefreshTypeOK, Working, Auth, Led, NumbersInv, RepairInv, LeadersRepair,
      AtWork, Results, fileVars, storeVars, leaderVars, upstreamVars, history,
      Login, Disturb
<1>19. ASSUME Crash
      PROVE  RepairInv'
  BY <1>19, AuthType, TokensType
  DEF RefreshTypeOK, Working, Auth, Led, NumbersInv, RepairInv, LeadersRepair,
      AtWork, Results, fileVars, storeVars, leaderVars, upstreamVars, history,
      Crash, Disturb
<1> QED
  BY <1>1, <1>2, <1>3, <1>4, <1>5, <1>6, <1>7, <1>8, <1>9, <1>10, <1>11, <1>12,
     <1>13, <1>14, <1>15, <1>16, <1>17, <1>18, <1>19
  DEF RefreshNext, Step, Surroundings, Aside

-----------------------------------------------------------------------------
(* The inductive invariant: NoReplay and DiskRedeemable need the lock,     *)
(* which keeps two leaders from working on one file and scans from a       *)
(* leader at work, the numbering, which makes every issued token new, and  *)
(* what a candidate of the grace can still do: an exchange that succeeds   *)
(* shows that nothing replaced it.                                         *)
IInv ==
  /\ RefreshTypeOK /\ Led
  /\ OneFlight /\ LockInv
  /\ NumbersInv /\ GraceInv
  /\ SavesLive /\ DiskRedeemable
  /\ RepairInv

LEMMA NoRequestType == NoRequest \in Requests /\ NoRequest.failed = 0
<1> DEFINE S == [auth : Auths, kind : Kinds, failed : {0}]
<1>1. PICK a \in Auths, k \in Kinds : TRUE
  BY DEF Kinds
<1>2. [auth |-> a, kind |-> k, failed |-> 0] \in S
  OBVIOUS
<1>3. (CHOOSE r \in S : TRUE) \in S
  BY <1>2, Zenon
<1> QED
  BY <1>3 DEF NoRequest, Requests

LEMMA InitIInv == RefreshInit => IInv
<1> SUFFICES ASSUME RefreshInit PROVE IInv
  OBVIOUS
<1>1. RefreshTypeOK
  <2>1. /\ disk \in [Auths -> Tokens] /\ hold \in [Calls -> Tokens]
        /\ result \in [Calls -> Results]
    BY TokensType, ResultsType DEF RefreshInit
  <2>5. /\ seen \in [Auths -> Tokens]
        /\ trouble \in [Auths -> {"none", "grace", "over"}]
    BY <2>1 DEF RefreshInit
  <2>2. req \in [Calls -> Requests]
    BY NoRequestType DEF RefreshInit
  <2>3. /\ live \in [Auths -> SUBSET Nat] /\ issued \in [Auths -> Nat]
        /\ tries \in [Calls -> Nat]
    <3>1. {1} \in SUBSET Nat
      OBVIOUS
    <3> QED
      BY <3>1 DEF RefreshInit
  <2>4. /\ pc \in [Calls -> Places] /\ verdict \in [Calls -> Verdicts]
        /\ flight \in [Auths -> Calls \cup {NoCall}]
        /\ lead \in [Calls -> Calls \cup {NoCall}]
    BY DEF RefreshInit, Places, Verdicts
  <2> QED
    BY <2>1, <2>2, <2>3, <2>4, <2>5 DEF RefreshInit, RefreshTypeOK
<1>2. Led /\ OneFlight /\ LockInv /\ SavesLive
  BY DEF RefreshInit, Led, OneFlight, LockInv, SavesLive, AtWork, Working
<1>3. NumbersInv /\ GraceInv
  <2>1. \A c \in Calls : Auth(c) \in Auths /\ req[c].failed = 0 /\ pc[c] = "idle"
    BY NoRequestType DEF RefreshInit, Auth, Requests
  <2>2. \A a \in Auths : issued[a] = 1 /\ disk[a].access = 1 /\ disk[a].refresh = 1
    BY DEF RefreshInit
  <2>3. retired = {} /\ seen = disk
    BY DEF RefreshInit
  <2>4. NumbersInv
    BY <2>1, <2>2, <2>3 DEF NumbersInv, Working
  <2>5. GraceInv
    BY <2>1, <2>3 DEF GraceInv, UnretiredInv, SeenInv, HoldSeen
  <2> QED
    BY <2>4, <2>5
<1>4. DiskRedeemable /\ RepairInv
  BY DEF RefreshInit, DiskRedeemable, RepairInv, LeadersRepair, AtWork, Working
<1> QED
  BY <1>1, <1>2, <1>3, <1>4 DEF IInv

LEMMA StutterIInv == IInv /\ UNCHANGED refreshVars => IInv'
BY DEF IInv, refreshVars, RefreshTypeOK, Led, OneFlight, LockInv, NumbersInv,
       GraceInv, UnretiredInv, SeenInv, HoldSeen, SavesLive, DiskRedeemable,
       RepairInv, LeadersRepair, AtWork, Auth

LEMMA NextIInv == IInv /\ RefreshNext => IInv'
BY LedStep, TypeStep, FlightStep, LockStep, NumbersStep, GraceStep,
   SavesLiveStep, RedeemableStep, RepairStep
DEF IInv

LEMMA IInvNoReplay == IInv => NoReplay
BY DEF IInv, GraceInv, UnretiredInv, NoReplay

LEMMA IInvParts == IInv => RefreshTypeOK /\ OneFlight /\ DiskRedeemable /\ LeadersRepair
BY DEF IInv, RepairInv

LEMMA IInvHolds == RefreshSpec => []IInv
BY InitIInv, StutterIInv, NextIInv, PTL DEF RefreshSpec

(* The variables of the coordinated refresh keep their types.              *)
THEOREM RefreshTypesHold == RefreshSpec => []RefreshTypeOK
BY IInvHolds, IInvParts, PTL

(* AuthManager.refresh serves a credential with one flight at a time, and  *)
(* no call joins a flight that is over.                                    *)
THEOREM OneFlightHolds == RefreshSpec => []OneFlight
BY IInvHolds, IInvParts, PTL

(* refreshCurrentAuth rereads the file under the lock: as long as it       *)
(* parses, no refresh token a saved file has replaced is sent again,       *)
(* however many calls, whatever they hold and whatever happens around      *)
(* them, broken files and the scans of others included.                    *)
THEOREM NoReplayHolds == RefreshSpec => []NoReplay
BY IInvHolds, IInvNoReplay, PTL

(* An auth file holds a refresh token the endpoint honours, or is about to *)
(* be replaced by one that does, unless an answer, a save or the process   *)
(* was lost at the wrong moment.                                           *)
THEOREM DiskRedeemableHolds == RefreshSpec => []DiskRedeemable
BY IInvHolds, IInvParts, PTL

(* A leader that repairs a 401 returns with another token.                 *)
THEOREM LeadersRepairHolds == RefreshSpec => []LeadersRepair
BY IInvHolds, IInvParts, PTL
=============================================================================
