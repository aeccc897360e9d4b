--------------------------- MODULE MCPostgresSync ---------------------------
(* Small instances of PostgresSync for TLC.                                *)
EXTENDS PostgresSync, TLC

CONSTANTS a, b, plain, wide, s1, s2

Rows(known) == known @@ NoRows

\* Revision 2 of lineage 1 updates key 2, deletes key 1 and inserts key 3.
TwoLineages ==
    <<  << Rows(1 :> a @@ 2 :> a), Rows(2 :> b @@ 3 :> a) >>,
        << Rows(2 :> a), Rows(2 :> b) >>  >>

\* Revision 3 has as many rows as revision 2, and other edges.
OneLineage == << << Rows(1 :> a @@ 2 :> a), Rows(2 :> b @@ 3 :> a), Rows(1 :> a @@ 2 :> b) >> >>

SameSchema == [l \in Lineages |-> [r \in Revisions |-> plain]]
\* Revision 3 widens the schema of every lineage.
WiderSchema == [l \in Lineages |-> [r \in Revisions |-> IF r < 3 THEN plain ELSE wide]]

OwnLock == [l \in Lineages |-> l]

SyncerSymmetry == Permutations(Syncers)
=============================================================================
