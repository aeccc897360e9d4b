---------------------------- MODULE GoldServing ----------------------------
(***************************************************************************)
(* What PostgreSQL promises to a reader of the Gold serving tables: at any *)
(* instant a lineage (dataset, exchange, symbol) shows nothing, or exactly *)
(* the rows of one published Gold revision, under a checkpoint that names  *)
(* that revision.  A step replaces the whole view of one lineage at once.  *)
(*                                                                         *)
(* Nothing promises that revisions are served in publication order: two    *)
(* gold-sync-postgres commands are not excluded from each other by more    *)
(* than the per-lineage lock, so the slower one may serve the older one.   *)
(***************************************************************************)
EXTENDS Naturals

CONSTANTS Lineages,      \* Gold lineages, numbered in their sort order
          MaxRevisions,  \* bound: revisions ever published of one lineage
          SourceRows     \* SourceRows[l][r]: the rows of revision r of l

VARIABLES published,     \* published[l]: number of revisions published so far
          view,          \* view[l]: the rows a reader sees
          serving        \* serving[l]: revision named by the checkpoint, 0 if none

servingVars == <<published, view, serving>>

CONSTANT NoRows          \* the view of a lineage never synchronised

Init ==
    /\ published = [l \in Lineages |-> 0]
    /\ view = [l \in Lineages |-> NoRows]
    /\ serving = [l \in Lineages |-> 0]

\* Gold publishes the next revision of a lineage; readers notice nothing.
Publish(l) ==
    /\ published[l] < MaxRevisions
    /\ published' = [published EXCEPT ![l] = @ + 1]
    /\ UNCHANGED <<view, serving>>

\* One atomic replacement of a lineage by some revision that was published.
Serve(l, r) ==
    /\ r \in 1..published[l]
    /\ view' = [view EXCEPT ![l] = SourceRows[l][r]]
    /\ serving' = [serving EXCEPT ![l] = r]
    /\ UNCHANGED published

\* An operator reconstructs the serving tables of a lineage, empty.
Reset(l) ==
    /\ view' = [view EXCEPT ![l] = NoRows]
    /\ serving' = [serving EXCEPT ![l] = 0]
    /\ UNCHANGED published

Next == \E l \in Lineages :
            \/ Publish(l)
            \/ Reset(l)
            \/ \E r \in 1..MaxRevisions : Serve(l, r)

Spec == Init /\ [][Next]_servingVars
=============================================================================
