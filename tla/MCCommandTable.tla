--------------------------- MODULE MCCommandTable ---------------------------
(***************************************************************************)
(* Small instances of CommandTable.                                        *)
(***************************************************************************)
EXTENDS CommandTable, TLC

CONSTANTS c1, c2, s1, s2, l1, h1, h2

\* Each connector has a session of its own, and both can be attached to the
\* one lane, as a migration followed by a new attach leaves them.
TwoSessions == {<<c1, s1>>, <<c2, s2>>}
TwoSessionsLane == [h \in TwoSessions |-> l1]

\* The same Codex session seen by two connectors, the second of which takes
\* the place of the first.
OneSession == {<<c1, s1>>, <<c2, s1>>}
OneSessionLane == [h \in OneSession |-> l1]
Replacement == {<<c1, c2>>}

NoSession == {}
NoLane == [h \in {} |-> l1]

HandlerSymmetry == Permutations({h1, h2})

\* The connectors can be exchanged if their sessions are exchanged with them.
ConnectorSymmetry ==
    HandlerSymmetry \cup {c1 :> c2 @@ c2 :> c1 @@ s1 :> s2 @@ s2 :> s1}
=============================================================================
