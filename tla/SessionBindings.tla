--------------------------- MODULE SessionBindings ---------------------------
(***************************************************************************)
(* What session affinity promises: a live session has a set of aliases (the *)
(* digests its requests were seen with), one Codex auth, and the time it    *)
(* was first bound.  No alias belongs to two sessions.  A session moves to  *)
(* another auth as a whole, and when a request shows two sessions to be the *)
(* same one, the session that was bound first keeps its auth and its age.   *)
(*                                                                          *)
(* SessionAffinity implements this with a table that has one row per alias. *)
(***************************************************************************)
EXTENDS Integers

CONSTANTS Aliases, Targets, MaxSince

VARIABLE bindings

Binding == [aliases : SUBSET Aliases, auth : Targets, since : 0..MaxSince]

Bound == UNION {b.aliases : b \in bindings}

Init == bindings = {}

\* A request none of whose aliases is bound opens a session.
Open(opened) ==
    /\ opened \in Binding
    /\ opened.aliases # {} /\ opened.aliases \cap Bound = {}
    /\ bindings' = bindings \cup {opened}

\* A request with aliases of some sessions, and perhaps unbound ones: the
\* sessions become one, as old as the eldest, which may also move to another
\* auth; every other session is left alone.
Merge(eldest, merged) ==
    LET same == {b \in bindings : b.aliases \subseteq merged.aliases}
    IN  /\ merged \in Binding
        /\ eldest \in same /\ \A b \in same : eldest.since <= b.since
        /\ merged.since = eldest.since
        /\ \A b \in bindings \ same : b.aliases \cap merged.aliases = {}
        /\ bindings' = (bindings \ same) \cup {merged}

\* Sessions end whole: they expire, or an operator or a removed auth ends them.
End == bindings' \subseteq bindings

Next ==
    \/ \E opened \in bindings' : Open(opened)
    \/ \E eldest \in bindings, merged \in bindings' : Merge(eldest, merged)
    \/ End

Spec == Init /\ [][Next]_bindings

\* No digest is an alias of two sessions, so a client's session cannot be
\* pulled to two auths (chooseSessionAffinityWinner sees one candidate).
Disjoint ==
    \A b, c \in bindings : b # c => b.aliases \cap c.aliases = {}
=============================================================================
