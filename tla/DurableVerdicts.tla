--------------------------- MODULE DurableVerdicts --------------------------
(***************************************************************************)
(* What the auth health registry promises about authoritative verdicts: an *)
(* explicit quota deadline, an invalid grant, or a continued unauthorized  *)
(* state.  There is no table and no memory here, one verdict for every     *)
(* credential, and a crash changes nothing: routing after a restart is     *)
(* decided by what was known before, less what the restart can refute.     *)
(* A standing verdict gives way only to another authoritative verdict, to  *)
(* a reason that refutes it, or to evidence that the credential works:     *)
(* healthy counts how often a running process held the credential for      *)
(* good, and excludedAt has the times of the answers, as far as they are   *)
(* remembered, that the credential lacks one model.                        *)
(***************************************************************************)
EXTENDS Naturals

CONSTANTS Auths, Creds, NoCred, Deadlines, MaxTime

VARIABLES now, serving, verdict, healthy, excludedAt

(* excludedAt is only ever asked for evidence: it may change at any time.  *)
vars == <<now, serving, verdict, healthy>>

None == [kind |-> "none", retryAt |-> 0, authoritative |-> FALSE, cred |-> NoCred]

QuotaVerdicts ==
  [kind : {"quota"}, retryAt : Deadlines, authoritative : {TRUE}, cred : {NoCred}]

CredentialVerdicts ==
  [kind : {"invalid_grant", "unauthorized"}, retryAt : {0},
   authoritative : {FALSE}, cred : Creds]

Passed(v)   == v.retryAt # 0 /\ v.retryAt <= now
Standing(v) == v # None /\ ~Passed(v)

Forget(a) == verdict' = [verdict EXCEPT ![a] = None]

Healthy(a) == healthy' = [healthy EXCEPT ![a] = @ + 1]

(* A new authoritative verdict replaces the one before it.                 *)
Learn(a, v) ==
  /\ serving
  /\ verdict' = [verdict EXCEPT ![a] = v]
  /\ UNCHANGED <<now, serving, healthy>>

(* A failure of a weaker kind only removes a verdict whose time has passed.*)
HearWeaker(a) ==
  /\ serving
  /\ ~Standing(verdict[a])
  /\ Forget(a)
  /\ UNCHANGED <<now, serving, healthy>>

(* What news that the credential works leaves: it never lifts a quota      *)
(* deadline that is still ahead.                                           *)
Lift(a) ==
  IF verdict[a].kind = "quota" /\ Standing(verdict[a])
  THEN UNCHANGED verdict ELSE Forget(a)

(* A success: it counts, whatever verdict it finds.                        *)
HearSuccess(a) ==
  /\ serving
  /\ Lift(a)
  /\ Healthy(a)
  /\ UNCHANGED <<now, serving>>

(* The answer that the credential lacks a model: the credential itself     *)
(* works, but that does not count, and the exclusion remembers it.         *)
HearUnsupported(a) ==
  /\ serving
  /\ now \in excludedAt'[a]
  /\ Lift(a)
  /\ UNCHANGED <<now, serving, healthy>>

(* The administrator clears time-based verdicts, a credential repair the   *)
(* others.                                                                 *)
Clear(a) ==
  /\ serving
  /\ verdict[a].kind = "quota"
  /\ Forget(a)
  /\ Healthy(a)
  /\ UNCHANGED <<now, serving>>

Repair(a) ==
  /\ serving
  /\ verdict[a].kind \in {"invalid_grant", "unauthorized"}
  /\ Forget(a)
  /\ Healthy(a)
  /\ UNCHANGED <<now, serving>>

(* A look at the auth files may drop verdicts, each for a reason: the      *)
(* credential is gone, the verdict is about tokens it no longer has, or    *)
(* its time has passed.                                                    *)
Refuted(a, gone, creds) ==
  \/ a \in gone
  \/ Passed(verdict[a])
  \/ verdict[a].kind \in {"invalid_grant", "unauthorized"} /\ verdict[a].cred # creds[a]

Drop(gone, creds) ==
  \E dropped \in SUBSET {a \in Auths : Refuted(a, gone, creds)} :
    verdict' = [a \in Auths |-> IF a \in dropped THEN None ELSE verdict[a]]

(* The running process also counts afresh for a credential that is gone,   *)
(* and counts new tokens as good.                                          *)
Reconcile(gone, creds) ==
  /\ serving
  /\ Drop(gone, creds)
  /\ \E rotated \in SUBSET Auths :
       healthy' = [a \in Auths |-> IF a \in gone THEN 0
                                  ELSE IF a \in rotated THEN healthy[a] + 1
                                  ELSE healthy[a]]
  /\ UNCHANGED <<now, serving>>

Crash ==
  /\ serving
  /\ serving' = FALSE
  /\ healthy' = [a \in Auths |-> 0]
  /\ UNCHANGED <<now, verdict>>

(* A restart drops everything it can refute, or fails half way through.    *)
Restart(gone, creds) ==
  /\ ~serving
  /\ serving' = TRUE
  /\ verdict' = [a \in Auths |-> IF Refuted(a, gone, creds) THEN None ELSE verdict[a]]
  /\ UNCHANGED <<now, healthy>>

RestartFails(gone, creds) ==
  /\ ~serving
  /\ Drop(gone, creds)
  /\ UNCHANGED <<now, serving, healthy>>

Tick ==
  /\ now < MaxTime
  /\ now' = now + 1
  /\ UNCHANGED <<serving, verdict, healthy>>

Init ==
  /\ now = 1
  /\ serving = FALSE
  /\ verdict = [a \in Auths |-> None]
  /\ healthy = [a \in Auths |-> 0]

Next ==
  \/ \E a \in Auths :
       \/ \E v \in QuotaVerdicts \cup CredentialVerdicts : Learn(a, v)
       \/ HearWeaker(a)
       \/ HearSuccess(a)
       \/ HearUnsupported(a)
       \/ Clear(a)
       \/ Repair(a)
  \/ \E gone \in SUBSET Auths, creds \in [Auths -> Creds \cup {NoCred}] :
       \/ Reconcile(gone, creds)
       \/ Restart(gone, creds)
       \/ RestartFails(gone, creds)
  \/ Crash
  \/ Tick

Spec == Init /\ [][Next]_vars
=============================================================================
