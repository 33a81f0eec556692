------------------------------- MODULE Failover -------------------------------
(* One proxied request in executeUpstream (failover.go), over the health     *)
(* registry of AuthHealth and the auth files: it attempts one credential     *)
(* after the other, repairs a 401 with a refresh, waits for the nearest      *)
(* cooldown between two rounds, and ends with an answer or an error of its   *)
(* own.  Between any two of its steps other requests report to the registry, *)
(* scan the files, or move its session; operators change the files.          *)
EXTENDS AuthHealth

CONSTANTS
  Model,            \* the model the request asks for
  Settings,         \* request-retry, max-retry-credentials, max-retry-interval
  Cooldown,         \* defaultTransientCooldown
  Hints,            \* the delays a 429 may announce
  Expiring,         \* auths whose tokens may expire before an attempt
  NoAuth,
  MaxDisturbances   \* bound on what others do, and on slow attempts

ASSUME FailoverAssumption ==
  /\ Model \in Models /\ NoAuth \notin Auths
  /\ Settings \subseteq [retries : Nat, cap : Nat, wait : Nat]
  /\ Cooldown \in Nat \ {0} /\ Hints \subseteq Nat /\ Expiring \subseteq Auths /\ MaxDisturbances \in Nat
  /\ 1 \in Creds /\ Creds \subseteq Nat \ {0} /\ NoCred = 0

VARIABLES
  file,        \* auth |-> its file: tokens, newer ones being greater, and the disabled mark
  seen,        \* the files as FileAuthStore saw them last
  limits,      \* the settings, and whether the request may be sent again
  request,     \* the variables of executeUpstream
  left,        \* disturbances left
  sent,        \* auth |-> how often it was attempted in this round
  resent,      \* auth |-> how often it was attempted again after a repair in this round
  stolen,      \* another request has moved its session in this round
  ready,       \* auths it may use that were ready ever since it began, and not selected
  excused      \* auths whose verdict about older tokens no reconcile will drop

failoverVars == <<healthVars, file, seen, limits, request, left, sent, resent,
                  stolen, ready, excused>>
counts == <<sent, resent, stolen>>
-----------------------------------------------------------------------------
(* Files.  A scan compares them with the last one; reconcileAuths tells the  *)
(* registry what has changed (the transactions this takes are in AuthPool).  *)
Present == {a \in Auths : file[a].here}
Active  == {a \in Present : ~file[a].disabled}

TokensIn(f) == IF f.here THEN f.cred ELSE NoCred

ChangeOf(a) ==
  IF seen[a] = file[a] \/ ~seen[a].here THEN "none"
  ELSE IF ~file[a].here THEN "removed"
  ELSE IF seen[a].cred # file[a].cred THEN "rotated" ELSE "updated"

Changed == {a \in Auths : ChangeOf(a) # "none"}

(* A variant whose callers do not hand the changes on.                       *)
Mutant_ReconcileAuthsUntold == seen' = file /\ UNCHANGED healthVars

ReconcileAuths ==
  /\ seen' = file
  /\ \E pruned \in SUBSET Auths :
       Reconcile([a \in Auths |-> ChangeOf(a)], [a \in Auths |-> TokensIn(file[a])], Changed, pruned)
  /\ ExpiredIn(states') = {}

(* Any other scan, by a refresh or by SetAccountDisabled, keeps what it saw  *)
(* to itself.                                                                *)
ScanOnly == seen' = file

NoList == [a \in Auths |-> [here |-> FALSE, cred |-> NoCred, disabled |-> FALSE]]
-----------------------------------------------------------------------------
(* Failures: their kind, their deadline, 0 when there is none, and whether   *)
(* upstream announced it.                                                    *)
NoFailure == [kind |-> "none", retryAt |-> 0, explicit |-> FALSE]
Fault(kind, retryAt) == [NoFailure EXCEPT !.kind = kind, !.retryAt = retryAt]

Network == Fault("transient", now + Cooldown)

(* preparationFailure: of the errors of a refresh only one that may pass has *)
(* a deadline.                                                               *)
RefreshFailures ==
  {Fault("transient", now + Cooldown), Fault("invalid_grant", 0), Fault("credential_invalid", 0)}

(* The deadlines an answer announces, in a header or in its body.            *)
Announced == {now + hint : hint \in Hints}

(* classifyUpstreamResponse, of the answers that count against a credential. *)
Refusals ==
  {Fault("quota", 0), Fault("transient", 0), Fault("model", 0)}
    \cup {[kind |-> "quota", retryAt |-> t, explicit |-> TRUE] : t \in Announced}

(* markAuthFailure. *)
Verdict(f, cred) ==
  [kind |-> f.kind, authoritative |-> f.explicit,
   retryAt |-> IF f.kind \in {"quota", "transient"} /\ f.retryAt = 0 THEN now + Cooldown ELSE f.retryAt,
   cred |-> IF f.kind \in CredentialKinds THEN cred ELSE NoCred]

MarkFailure(a, cred, f) ==
  IF f.kind = "model" THEN MarkModelUnsupported(a, Model, cred, TRUE)
  ELSE MarkUnavailable(a, Verdict(f, cred), TRUE)
-----------------------------------------------------------------------------
At(phase) == request.phase = phase
Over == At("done")

Become(r) == request' = r
(* The variables of executeUpstream: none is kept longer than it is needed.   *)
Fresh ==
  [phase |-> "start", round |-> 0, attempted |-> 0, tried |-> {}, allowed |-> {}, list |-> NoList,
   auth |-> NoAuth, cred |-> NoCred, failures |-> [a \in Auths |-> NoFailure],
   pending |-> NoFailure, next |-> "", until |-> 0, outcome |-> [code |-> "none", retryAt |-> 0]]

Outcome(r, code, retryAt) ==
  [Fresh EXCEPT !.phase = "done", !.allowed = r.allowed,
                !.outcome = [code |-> code, retryAt |-> retryAt]]
Blaming(r, f, next) == [r EXCEPT !.phase = "blame", !.pending = f, !.next = next]

(* What the request may use is fixed at its start: all auths, or the active  *)
(* ones that the cached catalogs name for the model.                         *)
Start ==
  /\ At("start")
  /\ ReconcileAuths
  /\ \/ Become([request EXCEPT !.phase = "select", !.allowed = Present])
     \/ \E supporting \in SUBSET Active :
          Become(IF supporting = {} THEN Outcome(request, "model_not_found", 0)
                 ELSE [request EXCEPT !.phase = "select", !.allowed = supporting])
  /\ UNCHANGED <<file, limits, left, counts>>

(* The list a reconcile returns; the registry is asked about it afterwards.  *)
Listed  == {a \in Auths : request.list[a].here}
Serving == {a \in Listed : ~request.list[a].disabled}

(* A variant that takes no limit for a limit of none.                        *)
Mutant_CapReachedAtZero == request.attempted >= limits.cap

CapReached == limits.cap > 0 /\ request.attempted >= limits.cap

(* A variant that relies on the registry to keep a failed auth away.         *)
Mutant_EligibleAgain == {a \in Serving \cap request.allowed : ~Blocked(a, Model)}

Eligible == {a \in (Serving \cap request.allowed) \ request.tried : ~Blocked(a, Model)}

Selected(a) ==
  [request EXCEPT !.phase = "prepare", !.auth = a, !.cred = request.list[a].cred, !.list = NoList,
                  !.tried = @ \cup {a}, !.attempted = @ + 1]

List(phase, next) ==
  /\ At(phase)
  /\ ReconcileAuths
  /\ Become([request EXCEPT !.phase = next, !.list = file])
  /\ UNCHANGED <<file, limits, left, counts>>

(* selectProxyAuthCandidate takes the eligible auths in turn, or the one of  *)
(* the session.  When other requests move the session twice meanwhile, it    *)
(* takes whatever active auth that has, or fails (AffinitySelection).        *)
ListForSelect == ~CapReached /\ List("select", "filter")

Select ==
  /\ At("filter")
  /\ \/ /\ Eligible = {} /\ Become([request EXCEPT !.phase = "over", !.list = NoList])
        /\ UNCHANGED <<left, stolen>>
     \/ /\ \E a \in Eligible : Become(Selected(a))
        /\ UNCHANGED <<left, stolen>>
     \/ /\ Eligible # {} /\ left > 0 /\ left' = left - 1 /\ stolen' = TRUE
        /\ \/ \E a \in Serving : Become(Selected(a))
           \/ Become(Outcome(request, "session_lost", 0))
  /\ UNCHANGED <<healthVars, file, seen, limits, sent, resent>>

RoundFull ==
  /\ At("select") /\ CapReached
  /\ Become([request EXCEPT !.phase = "over"])
  /\ UNCHANGED <<healthVars, file, seen, limits, left, counts>>

(* A refresh (CredentialRefresh) finds the file as it is now.  Tokens that   *)
(* are not the ones in hand are taken, after a 401 in any case, before an    *)
(* attempt unless they have expired too.  Otherwise new ones are fetched and *)
(* written, or the refresh fails.                                            *)
Refresh(next) ==
  LET a == request.auth
      f == file[a]
      other == f.cred # request.cred
  IN /\ ScanOnly
     /\ \/ /\ a \notin Active
           /\ Become(Blaming(request, Fault("credential_invalid", 0), "select"))
           /\ UNCHANGED file
        \/ /\ a \in Active /\ other
           /\ Become([request EXCEPT !.phase = next, !.cred = f.cred])
           /\ UNCHANGED file
        \/ /\ a \in Active /\ (other => At("prepare"))
           /\ \/ /\ f.cred + 1 \in Creds
                 /\ file' = [file EXCEPT ![a].cred = @ + 1]
                 /\ Become([request EXCEPT !.phase = next, !.cred = f.cred + 1])
              \/ /\ \E failure \in RefreshFailures : Become(Blaming(request, failure, "select"))
                 /\ UNCHANGED file
     /\ UNCHANGED <<healthVars, limits, counts>>

(* prepareAuth: the tokens in hand have expired or not.                      *)
Prepare ==
  /\ At("prepare")
  /\ \/ /\ Become([request EXCEPT !.phase = "send"])
        /\ UNCHANGED <<healthVars, file, seen, limits, left, counts>>
     \/ request.auth \in Expiring /\ Refresh("send") /\ UNCHANGED left

Counted ==
  /\ sent' = IF At("send") THEN [sent EXCEPT ![request.auth] = @ + 1] ELSE sent
  /\ resent' = IF At("resend") THEN [resent EXCEPT ![request.auth] = @ + 1] ELSE resent
  /\ UNCHANGED stolen

(* An attempt and its answer: a success; an error of the request itself; a   *)
(* 401, which the first attempt of a request that may be sent again tries to *)
(* repair; a refusal; or none.                                               *)
Attempt ==
  LET again == limits.replayable
      Failed(f, next) == Become(Blaming(request, f, next)) /\ UNCHANGED healthVars
  IN /\ At("send") \/ At("resend")
     /\ Counted
     /\ \/ /\ MarkHealthy(request.auth, Model, TRUE)
           /\ Become(Outcome(request, "answered", 0))
        \/ Become(Outcome(request, "answered", 0)) /\ UNCHANGED healthVars
        \/ At("send") /\ again /\ Become([request EXCEPT !.phase = "repair"]) /\ UNCHANGED healthVars
        \/ At("send") /\ ~again /\ Failed(Fault("credential_invalid", 0), "done")
        \/ At("resend") /\ Failed(Fault("unauthorized", 0), "select")
        \/ \E f \in Refusals : Failed(f, IF again THEN "select" ELSE "done")
        \/ Failed(Network, IF again THEN "select" ELSE "refuse")
     /\ UNCHANGED <<file, seen, limits, left>>

Repair == At("repair") /\ Refresh("trust") /\ UNCHANGED left

(* MarkCredentialHealthy. *)
Trust ==
  /\ At("trust")
  /\ IF states[request.auth].kind \in CredentialKinds THEN MarkCredentialHealthy(request.auth, TRUE)
     ELSE UNCHANGED healthVars
  /\ Become([request EXCEPT !.phase = "resend"])
  /\ UNCHANGED <<file, seen, limits, left, counts>>

Blame ==
  LET r == [request EXCEPT !.failures[request.auth] = request.pending, !.pending = NoFailure,
                           !.next = "", !.auth = NoAuth, !.cred = NoCred]
  IN /\ At("blame")
     /\ MarkFailure(request.auth, request.cred, request.pending)
     /\ Become(IF request.next = "done" THEN Outcome(r, "answered", 0)
            ELSE [r EXCEPT !.phase = request.next])
     /\ UNCHANGED <<file, seen, limits, left, counts>>
-----------------------------------------------------------------------------
(* Between rounds. *)

Later(t) == IF t < now THEN now ELSE t

(* nearestCooldown: deadlines of the registry and of the request's own       *)
(* failures, of which one that is past counts as now.                        *)
Deadline ==
  {states[a].retryAt : a \in {b \in Serving \cap request.allowed :
      /\ exclusions[b][Model] = NoExclusion
      /\ states[b].kind # "none" /\ states[b].retryAt > now}}
  \cup {Later(request.failures[a].retryAt) : a \in {b \in Auths : request.failures[b].retryAt # 0}}

Earliest(times) == CHOOSE t \in times : \A u \in times : t <= u

MayRetry == limits.replayable /\ request.round < limits.retries /\ limits.wait > 0

LastRound ==
  /\ At("over") /\ ~MayRetry
  /\ Become([request EXCEPT !.phase = "refuse"])
  /\ UNCHANGED <<healthVars, file, seen, limits, left, counts>>

ListForRetry == MayRetry /\ List("over", "cool")

AwaitCooldown ==
  LET r == [request EXCEPT !.list = NoList] IN
  /\ At("cool")
  /\ Become(IF Deadline # {} /\ Earliest(Deadline) - now <= limits.wait
            THEN [r EXCEPT !.phase = "wait", !.until = Earliest(Deadline)]
            ELSE [r EXCEPT !.phase = "refuse"])
  /\ UNCHANGED <<healthVars, file, seen, limits, left, counts>>

(* A variant that does not count the rounds.                                 *)
Mutant_NextRoundUncounted == request.round

NextRound == request.round + 1

NewRound ==
  /\ At("wait") /\ now >= request.until
  /\ Become([request EXCEPT !.phase = "select", !.round = NextRound, !.until = 0,
                            !.tried = {}, !.attempted = 0])
  /\ sent' = [a \in Auths |-> 0] /\ resent' = [a \in Auths |-> 0] /\ stolen' = FALSE
  /\ UNCHANGED <<healthVars, file, seen, limits, left>>
-----------------------------------------------------------------------------
(* finalProxyError: every auth the request might use is put in one class,    *)
(* by the registry or else by what the request itself has met.               *)
Excludes(a) ==
  IF Blocked(a, Model) THEN exclusions[a][Model] # NoExclusion ELSE request.failures[a].kind = "model"

Kind(a) == IF Blocked(a, Model) THEN states[a].kind ELSE request.failures[a].kind

BackAt(a) == IF Blocked(a, Model) THEN states[a].retryAt ELSE request.failures[a].retryAt

Candidates == Listed \cap request.allowed
ModelLess  == {a \in Candidates : Excludes(a)}
Disabled   == (Candidates \ ModelLess) \ Serving

(* A variant that asks for the verdict before the disabled mark.             *)
Mutant_OfKindDisabledToo(kinds) == {a \in Candidates \ ModelLess : Kind(a) \in kinds}

OfKind(kinds) == {a \in Candidates \ (ModelLess \cup Disabled) : Kind(a) \in kinds}

Recoveries == {BackAt(a) : a \in {b \in OfKind({"quota"}) : BackAt(b) # 0}}

RateLimited ==
  /\ OfKind({"quota"}) # {}
  /\ \/ OfKind({"transient"}) = {}
     \/ Recoveries # {} /\ limits.wait > 0 /\ Earliest(Recoveries) - now <= limits.wait

FinalError ==
  IF Candidates # {} /\ ModelLess = Candidates THEN Outcome(request, "model_not_found", 0)
  ELSE IF Candidates = Disabled \cup OfKind(CredentialKinds) THEN Outcome(request, "auth_unavailable", 0)
  ELSE IF RateLimited
  THEN Outcome(request, "rate_limited", IF Recoveries = {} THEN 0 ELSE Earliest(Recoveries))
  ELSE Outcome(request, "upstream_unavailable", 0)

ListForRefusal == List("refuse", "judge")

Refuse ==
  /\ At("judge")
  /\ Become(FinalError)
  /\ UNCHANGED <<healthVars, file, seen, limits, left, counts>>

Cancel ==
  /\ ~Over
  /\ Become(Outcome(request, "canceled", 0))
  /\ UNCHANGED <<healthVars, file, seen, limits, left, counts>>
-----------------------------------------------------------------------------
(* The others. *)
Disturb == left > 0 /\ ~Over /\ left' = left - 1 /\ UNCHANGED <<limits, request, counts>>

ChangeFile(a) ==
  /\ Disturb
  /\ \/ file' = [file EXCEPT ![a].here = ~@]
     \/ file' = [file EXCEPT ![a].disabled = ~@] /\ file[a].here
     \/ file' = [file EXCEPT ![a].here = TRUE, ![a].cred = @ + 1] /\ file[a].cred + 1 \in Creds
  /\ UNCHANGED <<healthVars, seen>>

OthersReport(a) ==
  /\ Disturb
  /\ seen[a].here
  /\ \/ MarkHealthy(a, Model, TRUE)
     \/ \E f \in {Fault("unauthorized", 0), [kind |-> "quota", retryAt |-> now + 1, explicit |-> TRUE]} :
          MarkUnavailable(a, Verdict(f, seen[a].cred), TRUE)
  /\ UNCHANGED <<file, seen>>

OthersScan ==
  /\ seen # file /\ ~Over
  /\ UNCHANGED <<file, limits, request, counts>>
  /\ \/ ReconcileAuths /\ UNCHANGED left
     \/ ScanOnly /\ left > 0 /\ left' = left - 1 /\ UNCHANGED healthVars

(* Time passes while the request waits, and while an attempt takes long.     *)
TimePasses ==
  /\ Tick
  /\ \/ At("wait") /\ now < request.until /\ UNCHANGED left
     \/ ~At("wait") /\ ~Over /\ left > 0 /\ left' = left - 1
  /\ UNCHANGED <<file, seen, limits, request, counts>>
-----------------------------------------------------------------------------
Work ==
  \/ Start \/ ListForSelect \/ Select \/ RoundFull \/ Prepare \/ Attempt \/ Repair \/ Trust \/ Blame
  \/ LastRound \/ ListForRetry \/ AwaitCooldown \/ NewRound \/ ListForRefusal \/ Refuse

Others == OthersScan \/ \E a \in Auths : ChangeFile(a) \/ OthersReport(a)

(* The registry blames tokens that are older than those the store has seen.  *)
Blamed(a) == states[a].kind \in CredentialKinds
Stale(a) == Blamed(a) /\ seen[a].here /\ states[a].cred < seen[a].cred

(* No reconcile drops a verdict that is recorded after the tokens it is      *)
(* about were seen replaced or gone, or while a refresh or a scan kept their *)
(* change to itself.                                                         *)
Late(a) == At("blame") /\ request.auth = a /\ ~(seen[a].here /\ seen[a].cred = request.cred)

Unheard(a) ==
  /\ seen'[a] = file[a] /\ ChangeOf(a) # "none"
  /\ left' < left \/ (request.phase \in {"prepare", "repair"} /\ request' # request)

Excused == {a \in Auths : Late(a) \/ Unheard(a)}

History ==
  /\ ready' = {a \in IF At("start") THEN Auths ELSE ready :
                 /\ (a \in Active /\ ~Blocked(a, Model))'
                 /\ a \in request'.allowed \/ request'.phase = "start"
                 /\ a # request'.auth}
  /\ excused' = {a \in excused \cup Excused : Blamed(a)'}

FailoverInit ==
  /\ now = 1 /\ up = TRUE
  /\ states = [a \in Auths |-> NoState] /\ rows = [a \in Auths |-> NoRow]
  /\ exclusions = [a \in Auths |-> [m \in Models |-> NoExclusion]]
  /\ epochs = [a \in Auths |-> 0]
  /\ file = [a \in Auths |-> [here |-> TRUE, cred |-> 1, disabled |-> FALSE]] /\ seen = file
  /\ limits \in {[retries |-> s.retries, cap |-> s.cap, wait |-> s.wait, replayable |-> b] :
                   s \in Settings, b \in BOOLEAN}
  /\ request = Fresh
  /\ left = MaxDisturbances
  /\ sent = [a \in Auths |-> 0] /\ resent = [a \in Auths |-> 0] /\ stolen = FALSE
  /\ ready = Auths /\ excused = {}

FailoverNext == (Work \/ Cancel \/ Others \/ TimePasses) /\ History

FailoverSpec == FailoverInit /\ [][FailoverNext]_failoverVars

(* Upstream, the store and the files answer, or the connection breaks; and    *)
(* the clock moves.                                                           *)
FairFailoverSpec ==
  /\ FailoverSpec
  /\ WF_failoverVars(Work /\ History)
  /\ WF_failoverVars(TimePasses /\ At("wait") /\ History)
-----------------------------------------------------------------------------
(* Properties. *)

(* A request that may not be sent again is sent once.  In a round each       *)
(* credential is attempted once, and once more after its tokens were         *)
(* refreshed, and no more of them than the limit says, unless other requests *)
(* keep moving the session (executeUpstream, docs/architecture.md:184-194).  *)
SentWithinBudget ==
  /\ ~limits.replayable => request.round = 0 /\ Cardinality({a \in Auths : sent[a] + resent[a] > 0}) <= 1
  /\ ~stolen => /\ \A a \in Auths : resent[a] <= sent[a] /\ sent[a] <= 1
                /\ limits.cap > 0 => Cardinality({a \in Auths : sent[a] > 0}) <= limits.cap
                /\ \A a \in Auths : sent[a] > 0 => a \in request.allowed

(* A request that may use every credential is not refused while one that was *)
(* ready all the time has not been tried (selection and rounds together).    *)
Refused == request.outcome.code \in {"auth_unavailable", "rate_limited", "upstream_unavailable"}

NoReadyAuthLeft == Refused /\ limits.replayable /\ limits.cap = 0 => ready = {}

(* A client that comes back when a 429 says finds a credential, if nobody    *)
(* reports anything meanwhile (finalProxyError's earliest deadline).         *)
RetryAfterServes ==
  [][At("judge") /\ Over' /\ request'.outcome.retryAt # 0 =>
       \E a \in Serving \cap request.allowed :
         /\ exclusions[a][Model] = NoExclusion
         /\ \/ states[a].kind = "none"
            \/ states[a].retryAt \in 1 .. Later(request'.outcome.retryAt)]_failoverVars

(* A reconcile that sees new tokens lifts what the registry holds against    *)
(* the old ones.  What it misses came too late or was seen by another scan   *)
(* (reconcileAuths; docs/architecture.md:199-201).                           *)
BlameMatches == \A a \in Auths : Stale(a) => a \in excused

(* Every request ends.                                                       *)
RequestEnds == <>Over
=============================================================================
