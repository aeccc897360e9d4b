---------------------------- MODULE PostgresSync ----------------------------
(***************************************************************************)
(* gold-sync-postgres: concurrent sync commands copy published Gold        *)
(* artifacts into PostgreSQL, one transaction per lineage, while Gold      *)
(* builds publish and prune artifacts and operators touch the tables.      *)
(*                                                                         *)
(* A transaction is what READ COMMITTED gives the code: its own writes     *)
(* (wrote, wroteDigests) over whatever is committed when a statement runs. *)
(* Row hashes are abstracted to the row payload (SHA-256 as injective).    *)
(***************************************************************************)
EXTENDS Naturals, FiniteSets

CONSTANTS Syncers,        \* gold-sync-postgres processes
          Lineages,       \* Gold lineages, numbered in their sort order
          Keys,           \* logical row keys (timestamp_m1) of a lineage, in time order
          Payloads,       \* row payloads
          Schemas,        \* table schema signatures
          LockKeys,       \* values of hashtext() over lineage names
          NoRow,          \* marks a key without a row
          Keep,           \* marks a key the transaction has not written
          MaxRevisions,   \* bound: revisions ever published of one lineage
          KeepVersions,   \* revisions Gold retention keeps per lineage
          SourceRows,     \* SourceRows[l][r]: rows of revision r
          SchemaOf,       \* SchemaOf[l][r]: schema signature of revision r
          LockKeyOf,      \* LockKeyOf[l]: advisory lock of a lineage (may collide)
          MaxBuilds,      \* bound: Gold commands
          MaxFaults,      \* bound: crashes, lost connections, lock timeouts
          MaxExternal     \* bound: operators' edits and reconstructions of the tables

Revisions == 1..MaxRevisions
RowMaps == [Keys -> Payloads \cup {NoRow}]
NoRows == [k \in Keys |-> NoRow]
Nothing == [k \in Keys |-> Keep]

ASSUME BoundsAssumption ==
    /\ MaxRevisions \in Nat /\ KeepVersions \in Nat \ {0}
    /\ MaxBuilds \in Nat /\ MaxFaults \in Nat /\ MaxExternal \in Nat
    /\ Lineages \subseteq Nat \ {0} /\ Keys \subseteq Nat

\* A certified artifact is never empty: an empty frame has no lineage rows to
\* match its manifest, so _snapshot_from_candidate refuses it.
ASSUME SourceAssumption ==
    /\ NoRow \notin Payloads /\ Keep \notin Payloads /\ Keep # NoRow
    /\ SourceRows \in [Lineages -> [Revisions -> RowMaps]]
    /\ \A l \in Lineages : \A r \in Revisions : SourceRows[l][r] # NoRows
    /\ SchemaOf \in [Lineages -> [Revisions -> Schemas]]
    /\ LockKeyOf \in [Lineages -> LockKeys]

VARIABLES
    published,     \* revisions published so far, per lineage
    declared,      \* the Gold publication result: revision per lineage, 0 = not in it
    building,      \* a Gold command is between its unlink and its result
    built,         \* revisions the running Gold command has reported so far
    consumer,      \* committed consumer tables
    digests,       \* committed row-hash tables
    state,         \* committed checkpoints: revision served, 0 = no checkpoint
    catalog,       \* schema of the provisioned consumer table
    pc,            \* control point of each sync command
    todo,          \* lineages the command has still to handle in this phase
    snapshot,      \* revision the command certified for each lineage, 0 = none
    cur,           \* lineage of the open transaction
    wrote,         \* consumer rows written by the open transaction
    wroteDigests,  \* digests written by the open transaction
    nextState,     \* checkpoint written by the open transaction, 0 = none
    drift,         \* lineages changed out of band since they were provisioned
    displaced,     \* history: lineages replaced since a command was done with them
    builds, faults, externals  \* how much of each bound is used

goldVars == <<published, declared, building, built, builds>>
tableVars == <<consumer, digests, state, catalog, displaced>>
txVars == <<cur, wrote, wroteDigests, nextState>>
commandVars == <<pc, todo, snapshot, txVars>>
vars == <<goldVars, tableVars, commandVars, drift, faults, externals>>

Retained(l) == {r \in 1..published[l] : r + KeepVersions > published[l]}
First(s) == {l \in s : \A m \in s : l <= m}

\* Points of reconcile_lineage at which the transaction holds its advisory lock.
Locked == {"read", "rows", "digests", "verify", "commit"}

\* A transaction sees its own writes over what is committed.
Over(writes, committed) ==
    [k \in Keys |-> IF writes[k] = Keep THEN committed[k] ELSE writes[k]]

Present(rows) == {k \in Keys : rows[k] # NoRow}
Edges(keys) == {k \in keys : (\A j \in keys : k <= j) \/ (\A j \in keys : j <= k)}

\* The checkpoint's row count and its first and last timestamp.
SummaryMatches(rows, l, r) ==
    /\ Cardinality(Present(rows)) = Cardinality(Present(SourceRows[l][r]))
    /\ Edges(Present(rows)) = Edges(Present(SourceRows[l][r]))

\* _verify_integrity: consumer and digests agree, and the checkpoint fits them.
Integrity(rows, hashes, l, r) ==
    /\ rows = hashes
    /\ IF r = 0 THEN rows = NoRows ELSE SummaryMatches(rows, l, r)
-----------------------------------------------------------------------------
(* History, for the properties: what became of the lineages a command is   *)
(* done with.                                                              *)

Handled(p) ==
    {l \in Lineages : /\ pc[p] \notin {"idle", "certify"}
                      /\ snapshot[p][l] # 0 /\ l \notin todo[p]}

Displace(l) ==
    displaced' = [p \in Syncers |-> IF l \in Handled(p) THEN displaced[p] \cup {l}
                                    ELSE displaced[p]]
-----------------------------------------------------------------------------
(* Gold commands, as the sync sees them.                                   *)

NoDeclaration == [l \in Lineages |-> 0]

\* A Gold command first removes the previous publication result.
GoldBegin ==
    /\ ~building /\ builds < MaxBuilds
    /\ building' = TRUE /\ builds' = builds + 1
    /\ declared' = NoDeclaration /\ built' = NoDeclaration
    /\ UNCHANGED <<published, tableVars, commandVars, drift, faults, externals>>

\* One lineage is published as a new revision (pruning beyond retention) ...
GoldPublish(l) ==
    /\ building /\ built[l] = 0 /\ published[l] < MaxRevisions
    /\ published' = [published EXCEPT ![l] = @ + 1]
    /\ built' = [built EXCEPT ![l] = published[l] + 1]
    /\ UNCHANGED <<declared, building, builds, tableVars, commandVars, drift, faults, externals>>

\* ... or reported unchanged.
GoldReuse(l) ==
    /\ building /\ built[l] = 0 /\ published[l] > 0
    /\ built' = [built EXCEPT ![l] = published[l]]
    /\ UNCHANGED <<published, declared, building, builds, tableVars, commandVars, drift, faults, externals>>

\* Success declares exactly the reported set; a failed command declares nothing.
GoldEnd(success) ==
    /\ building /\ building' = FALSE
    /\ declared' = IF success THEN built ELSE NoDeclaration
    /\ built' = NoDeclaration
    /\ UNCHANGED <<published, builds, tableVars, commandVars, drift, faults, externals>>

-----------------------------------------------------------------------------
(* The sync command.                                                       *)

\* Leaving the transaction discards its writes and releases its lock.
Rollback(p) ==
    /\ cur' = [cur EXCEPT ![p] = 0]
    /\ wrote' = [wrote EXCEPT ![p] = Nothing]
    /\ wroteDigests' = [wroteDigests EXCEPT ![p] = Nothing]
    /\ nextState' = [nextState EXCEPT ![p] = 0]

\* The command is over: with success, with the first error, or by a crash.
End(p) ==
    /\ pc' = [pc EXCEPT ![p] = "idle"]
    /\ todo' = [todo EXCEPT ![p] = {}]
    /\ snapshot' = [snapshot EXCEPT ![p] = NoDeclaration]
    /\ Rollback(p)

Goto(p, point) == pc' = [pc EXCEPT ![p] = point]

\* Select revisions from the publication result, or the current one of every lineage.
Start(p, selection) ==
    /\ pc[p] = "idle"
    /\ \E l \in Lineages : selection[l] # 0
    /\ Goto(p, "certify")
    /\ snapshot' = [snapshot EXCEPT ![p] = selection]
    /\ todo' = [todo EXCEPT ![p] = {l \in Lineages : selection[l] # 0}]
    /\ displaced' = [displaced EXCEPT ![p] = {}]
    /\ UNCHANGED <<goldVars, consumer, digests, state, catalog, txVars, drift, faults, externals>>

StartDeclared(p) == Start(p, declared)
StartCurrent(p) == Start(p, published)

\* Every selected artifact is certified before the first transaction opens.
Certify(p) ==
    /\ pc[p] = "certify"
    /\ \E l \in First(todo[p]) :
        IF snapshot[p][l] \notin Retained(l) THEN End(p)
        ELSE /\ IF todo[p] = {l}
                THEN /\ Goto(p, "next")
                     /\ todo' = [todo EXCEPT ![p] = {m \in Lineages : snapshot[p][m] # 0}]
                ELSE /\ todo' = [todo EXCEPT ![p] = @ \ {l}]
                     /\ UNCHANGED pc
             /\ UNCHANGED <<snapshot, txVars>>
    /\ UNCHANGED <<goldVars, tableVars, drift, faults, externals>>

\* Mutant of Open: an artifact that is gone by now is skipped.
OpenSkipping(p) ==
    /\ pc[p] = "next"
    /\ \E l \in First(todo[p]) :
        IF snapshot[p][l] \notin Retained(l)
        THEN todo' = [todo EXCEPT ![p] = @ \ {l}] /\ UNCHANGED <<pc, snapshot, txVars>>
        ELSE /\ Goto(p, "lock")
             /\ cur' = [cur EXCEPT ![p] = l]
             /\ UNCHANGED <<todo, snapshot, wrote, wroteDigests, nextState>>
    /\ UNCHANGED <<goldVars, tableVars, drift, faults, externals>>

\* Read the artifact's schema and open the next lineage's connection.
Open(p) ==
    /\ pc[p] = "next"
    /\ \E l \in First(todo[p]) :
        IF snapshot[p][l] \notin Retained(l) THEN End(p)
        ELSE /\ Goto(p, "lock")
             /\ cur' = [cur EXCEPT ![p] = l]
             /\ UNCHANGED <<todo, snapshot, wrote, wroteDigests, nextState>>
    /\ UNCHANGED <<goldVars, tableVars, drift, faults, externals>>

Finish(p) ==
    /\ pc[p] = "next" /\ todo[p] = {}
    /\ End(p)
    /\ UNCHANGED <<goldVars, tableVars, drift, faults, externals>>

\* Mutant of Lock: the advisory lock is granted to everyone.
LockUnguarded(p) ==
    /\ pc[p] = "lock" /\ Goto(p, "read")
    /\ UNCHANGED <<goldVars, tableVars, todo, snapshot, txVars, drift, faults, externals>>

\* pg_advisory_xact_lock(hashtext(lineage)) is granted.
Lock(p) ==
    /\ pc[p] = "lock"
    /\ \A q \in Syncers \ {p} :
           pc[q] \in Locked => LockKeyOf[cur[q]] # LockKeyOf[cur[p]]
    /\ Goto(p, "read")
    /\ UNCHANGED <<goldVars, tableVars, todo, snapshot, txVars, drift, faults, externals>>

\* Mutants of TargetAccepted: no schema check; no integrity check.
AcceptAnySchema(l, r) ==
    Integrity(consumer[l], digests[l], l, state[l]) /\ r \in Retained(l)
AcceptUnverified(l, r) ==
    catalog[l] = SchemaOf[l][r] /\ r \in Retained(l)

\* Catalog, schema and integrity checks and the planner's own checks.
TargetAccepted(l, r) ==
    /\ catalog[l] = SchemaOf[l][r]
    /\ state[l] # 0 => SchemaOf[l][state[l]] = SchemaOf[l][r]
    /\ Integrity(consumer[l], digests[l], l, state[l])
    /\ r \in Retained(l)
    /\ state[l] = r => digests[l] = SourceRows[l][r]

\* Mutant of Read: any checkpoint counts as up to date.
ReadAnyCheckpoint(p) ==
    /\ pc[p] = "read"
    /\ LET l == cur[p] IN
        IF ~TargetAccepted(l, snapshot[p][l]) THEN End(p)
        ELSE /\ Goto(p, IF state[l] # 0 THEN "verify" ELSE "rows")
             /\ UNCHANGED <<todo, snapshot, txVars>>
    /\ UNCHANGED <<goldVars, tableVars, drift, faults, externals>>

\* Read the target under the lock and plan: a matching checkpoint plans nothing.
Read(p) ==
    /\ pc[p] = "read"
    /\ LET l == cur[p]
           r == snapshot[p][l] IN
        IF ~TargetAccepted(l, r) THEN End(p)
        ELSE /\ Goto(p, IF state[l] = r THEN "verify" ELSE "rows")
             /\ UNCHANGED <<todo, snapshot, txVars>>
    /\ UNCHANGED <<goldVars, tableVars, drift, faults, externals>>

\* plan_gold_delta: the keys at which the stored hashes differ from the source.
Delta(l, r) == [k \in Keys |-> IF SourceRows[l][r][k] = digests[l][k] THEN Keep
                               ELSE SourceRows[l][r][k]]

\* INSERT meets a row, or UPDATE/DELETE finds none: someone changed the table.
Conflict(l, writes) ==
    \E k \in Keys : writes[k] # Keep /\ ((digests[l][k] = NoRow) # (consumer[l][k] = NoRow))

\* _apply_plan, first half: inserts, updates and deletes of consumer rows.
ApplyRows(p) ==
    /\ pc[p] = "rows"
    /\ LET l == cur[p]
           writes == Delta(l, snapshot[p][l]) IN
        IF Conflict(l, writes) THEN End(p)
        ELSE /\ wrote' = [wrote EXCEPT ![p] = writes]
             /\ Goto(p, "digests")
             /\ UNCHANGED <<todo, snapshot, cur, wroteDigests, nextState>>
    /\ UNCHANGED <<goldVars, tableVars, drift, faults, externals>>

\* _apply_plan, second half, and the checkpoint.
ApplyDigests(p) ==
    /\ pc[p] = "digests"
    /\ LET l == cur[p]
           r == snapshot[p][l] IN
        /\ wroteDigests' = [wroteDigests EXCEPT ![p] = Delta(l, r)]
        /\ nextState' = [nextState EXCEPT ![p] = r]
    /\ Goto(p, "verify")
    /\ UNCHANGED <<goldVars, tableVars, todo, snapshot, cur, wrote, drift, faults, externals>>

RowsSeen(p) == Over(wrote[p], consumer[cur[p]])
DigestsSeen(p) == Over(wroteDigests[p], digests[cur[p]])
StateSeen(p) == IF nextState[p] = 0 THEN state[cur[p]] ELSE nextState[p]

\* Re-read everything through the transaction before committing.
Verify(p) ==
    /\ pc[p] = "verify"
    /\ LET l == cur[p] IN
        IF /\ Integrity(RowsSeen(p), DigestsSeen(p), l, StateSeen(p))
           /\ nextState[p] # 0 => RowsSeen(p) = SourceRows[l][nextState[p]]
        THEN /\ Goto(p, "commit")
             /\ UNCHANGED <<todo, snapshot, txVars>>
        ELSE End(p)
    /\ UNCHANGED <<goldVars, tableVars, drift, faults, externals>>

\* Mutant of Durable: the plan replaces the rows instead of changing them.
DurablePlanOnly(p) ==
    /\ consumer' = [consumer EXCEPT ![cur[p]] = wrote[p]]
    /\ digests' = [digests EXCEPT ![cur[p]] = DigestsSeen(p)]
    /\ state' = [state EXCEPT ![cur[p]] = StateSeen(p)]
    /\ UNCHANGED displaced

\* The server makes the transaction's writes visible all at once.
Durable(p) ==
    LET l == cur[p] IN
    /\ consumer' = [consumer EXCEPT ![l] = RowsSeen(p)]
    /\ digests' = [digests EXCEPT ![l] = DigestsSeen(p)]
    /\ state' = [state EXCEPT ![l] = StateSeen(p)]
    /\ IF nextState[p] = 0 THEN UNCHANGED displaced ELSE Displace(l)

Commit(p) ==
    /\ pc[p] = "commit"
    /\ Durable(p)
    /\ Goto(p, "next")
    /\ todo' = [todo EXCEPT ![p] = @ \ {cur[p]}]
    /\ Rollback(p)
    /\ UNCHANGED <<goldVars, catalog, snapshot, drift, faults, externals>>

\* The commit takes effect but its acknowledgement is lost: the command fails.
CommitUnacknowledged(p) ==
    /\ pc[p] = "commit" /\ faults < MaxFaults
    /\ faults' = faults + 1
    /\ Durable(p)
    /\ End(p)
    /\ UNCHANGED <<goldVars, catalog, drift, externals>>

\* Mutant of Abort: rows already sent survive the failed command (autocommit).
AbortKeepsRows(p) ==
    /\ pc[p] \in Locked /\ faults < MaxFaults
    /\ faults' = faults + 1
    /\ consumer' = [consumer EXCEPT ![cur[p]] = RowsSeen(p)]
    /\ End(p)
    /\ UNCHANGED <<goldVars, digests, state, catalog, displaced, drift, externals>>

\* A crash, a lost connection, a statement or lock timeout at any point.
Abort(p) ==
    /\ pc[p] # "idle" /\ faults < MaxFaults
    /\ faults' = faults + 1
    /\ End(p)
    /\ UNCHANGED <<goldVars, tableVars, drift, externals>>

-----------------------------------------------------------------------------
(* Operators, outside this code.                                           *)

\* Someone edits one consumer row; a row an open transaction wrote is locked.
ExternalWrite(l, k, v) ==
    /\ externals < MaxExternal /\ externals' = externals + 1
    /\ consumer[l][k] # v
    /\ \A p \in Syncers : cur[p] = l => wrote[p][k] = Keep
    /\ consumer' = [consumer EXCEPT ![l][k] = v]
    /\ drift' = drift \cup {l}
    /\ UNCHANGED <<goldVars, digests, state, catalog, displaced, commandVars, faults>>

\* Mutant of Reconstruct: the checkpoint is left.
ReconstructKeepsCheckpoint(l, schema) ==
    /\ externals < MaxExternal /\ externals' = externals + 1
    /\ \A p \in Syncers : cur[p] = l => pc[p] \notin Locked
    /\ consumer' = [consumer EXCEPT ![l] = NoRows]
    /\ digests' = [digests EXCEPT ![l] = NoRows]
    /\ catalog' = [catalog EXCEPT ![l] = schema]
    /\ drift' = drift \ {l}
    /\ UNCHANGED <<goldVars, commandVars, state, displaced, faults>>

\* The owned tables of a lineage are dropped and created for another schema;
\* the DDL waits for every transaction that has read them.
Reconstruct(l, schema) ==
    /\ externals < MaxExternal /\ externals' = externals + 1
    /\ \A p \in Syncers : cur[p] = l => pc[p] \notin Locked
    /\ consumer' = [consumer EXCEPT ![l] = NoRows]
    /\ digests' = [digests EXCEPT ![l] = NoRows]
    /\ state' = [state EXCEPT ![l] = 0]
    /\ catalog' = [catalog EXCEPT ![l] = schema]
    /\ drift' = drift \ {l}
    /\ Displace(l)
    /\ UNCHANGED <<goldVars, commandVars, faults>>

-----------------------------------------------------------------------------
Init ==
    /\ published = NoDeclaration /\ declared = NoDeclaration /\ built = NoDeclaration
    /\ building = FALSE
    /\ consumer = [l \in Lineages |-> NoRows]
    /\ digests = [l \in Lineages |-> NoRows]
    /\ state = NoDeclaration
    /\ catalog \in [Lineages -> Schemas]
    /\ pc = [p \in Syncers |-> "idle"]
    /\ todo = [p \in Syncers |-> {}]
    /\ snapshot = [p \in Syncers |-> NoDeclaration]
    /\ cur = [p \in Syncers |-> 0]
    /\ wrote = [p \in Syncers |-> Nothing]
    /\ wroteDigests = [p \in Syncers |-> Nothing]
    /\ nextState = [p \in Syncers |-> 0]
    /\ drift = {} /\ displaced = [p \in Syncers |-> {}]
    /\ builds = 0 /\ faults = 0 /\ externals = 0

Gold == GoldBegin \/ GoldEnd(TRUE) \/ GoldEnd(FALSE)
        \/ \E l \in Lineages : GoldPublish(l) \/ GoldReuse(l)

\* What the command does by itself, without faults.
Advance(p) == Certify(p) \/ Open(p) \/ Finish(p) \/ Lock(p) \/ Read(p) \/ ApplyRows(p)
              \/ ApplyDigests(p) \/ Verify(p) \/ Commit(p)

Sync(p) == StartDeclared(p) \/ StartCurrent(p) \/ Advance(p)
           \/ CommitUnacknowledged(p) \/ Abort(p)

Operator == \E l \in Lineages :
                \/ \E k \in Keys : \E v \in Payloads \cup {NoRow} : ExternalWrite(l, k, v)
                \/ \E schema \in Schemas : Reconstruct(l, schema)

Next == Gold \/ Operator \/ \E p \in Syncers : Sync(p)

Spec == Init /\ [][Next]_vars

\* The scheduler starts a declared sync after every Gold command, and a
\* started command runs on.
Fairness == \A p \in Syncers : WF_vars(StartDeclared(p)) /\ WF_vars(Advance(p))
FairSpec == Spec /\ Fairness

-----------------------------------------------------------------------------
(* Properties.                                                             *)

\* Type invariant: revisions, row maps and control points of the sync keep their shape.
TypeOK ==
    /\ published \in [Lineages -> 0..MaxRevisions]
    /\ declared \in [Lineages -> 0..MaxRevisions]
    /\ built \in [Lineages -> 0..MaxRevisions]
    /\ building \in BOOLEAN
    /\ consumer \in [Lineages -> RowMaps]
    /\ digests \in [Lineages -> RowMaps]
    /\ state \in [Lineages -> 0..MaxRevisions]
    /\ catalog \in [Lineages -> Schemas]
    /\ pc \in [Syncers -> {"idle", "certify", "next", "lock"} \cup Locked]
    /\ todo \in [Syncers -> SUBSET Lineages]
    /\ snapshot \in [Syncers -> [Lineages -> 0..MaxRevisions]]
    /\ cur \in [Syncers -> Lineages \cup {0}]
    /\ wrote \in [Syncers -> [Keys -> Payloads \cup {NoRow, Keep}]]
    /\ wroteDigests \in [Syncers -> [Keys -> Payloads \cup {NoRow, Keep}]]
    /\ nextState \in [Syncers -> 0..MaxRevisions]
    /\ drift \subseteq Lineages
    /\ displaced \in [Syncers -> SUBSET Lineages]
    /\ builds \in 0..MaxBuilds /\ faults \in 0..MaxFaults /\ externals \in 0..MaxExternal

RowsOf(l, r) == IF r = 0 THEN NoRows ELSE SourceRows[l][r]

\* A lineage nobody edited by hand shows, in the consumer table and in the hash
\* table alike, exactly the rows of the published revision its checkpoint names:
\* never a mixture of revisions, whatever commands overlap, fail, crash or lose
\* the acknowledgement of a commit (reconcile_lineage).
ServedIsPublished ==
    \A l \in Lineages \ drift :
        /\ state[l] <= published[l]
        /\ consumer[l] = RowsOf(l, state[l])
        /\ digests[l] = RowsOf(l, state[l])

\* The rows of a lineage were written under the schema its table now has: a sync
\* never mixes rows of two schemas, and reports a migration instead.
SchemaAgrees ==
    \A l \in Lineages : state[l] # 0 => SchemaOf[l][state[l]] = catalog[l]

\* The table of a lineage disagrees with its hashes and no transaction has got
\* past reading it.
Quarantined(l) ==
    /\ consumer[l] # digests[l]
    /\ \A p \in Syncers : cur[p] = l => pc[p] \in {"lock", "read"}

\* Once quarantined, a lineage stays so until an operator acts: no sync command
\* overwrites or adopts rows it cannot account for (_verify_integrity).
OnlyOperatorsLiftQuarantine ==
    [][\A l \in Lineages :
          Quarantined(l) => Quarantined(l)' \/ externals' # externals]_vars

\* A lineage a command is done with is served at the revision the command selected,
\* until another command or an operator replaces it: so a command that ends well has
\* served all it selected, newer or older than what was served before it, and one that
\* fails has done so for the lineages before the failure (service.py:181).
HandledIsServed ==
    \A p \in Syncers : \A l \in Handled(p) \ displaced[p] :
        /\ state[l] = snapshot[p][l]
        /\ l \notin drift => consumer[l] = SourceRows[l][snapshot[p][l]]

\* A declared revision is eventually served for good: failures, stale commands
\* and lost acknowledgements only delay it.
Converges ==
    <>[](\A l \in Lineages : declared[l] # 0 => state[l] = declared[l])

\* A command in a transaction works on a lineage it certified a published
\* revision of.
CommandOK ==
    /\ \A l \in Lineages : declared[l] <= published[l] /\ built[l] <= published[l]
    /\ \A p \in Syncers :
        /\ cur[p] # 0 <=> pc[p] \in {"lock"} \cup Locked
        /\ cur[p] # 0 => snapshot[p][cur[p]] # 0
        /\ \A l \in Lineages : snapshot[p][l] <= published[l]
        /\ \A l \in todo[p] : snapshot[p][l] # 0

\* What an open transaction has written is nothing (once it is past planning, because
\* the lineage is at the selected revision), the whole plan, or (between
\* the two halves of _apply_plan) the plan's rows without its digests; it planned
\* against the schema the table still has.
TransactionOf(p) ==
    LET l == cur[p]
        r == snapshot[p][l] IN
    /\ pc[p] \notin {"digests", "verify", "commit"} =>
           wrote[p] = Nothing /\ wroteDigests[p] = Nothing /\ nextState[p] = 0
    /\ pc[p] = "digests" =>
           wrote[p] = Delta(l, r) /\ wroteDigests[p] = Nothing /\ nextState[p] = 0
    /\ pc[p] \in {"verify", "commit"} =>
           \/ wrote[p] = Nothing /\ wroteDigests[p] = Nothing /\ nextState[p] = 0 /\ state[l] = r
           \/ wrote[p] = Delta(l, r) /\ wroteDigests[p] = Delta(l, r) /\ nextState[p] = r
    /\ pc[p] \in {"rows", "digests", "verify", "commit"} => catalog[l] = SchemaOf[l][r]

TransactionOK == \A p \in Syncers : TransactionOf(p)

\* Transactions past the lock hold different locks.
LocksExclude ==
    \A p, q \in Syncers :
        p # q /\ pc[p] \in Locked /\ pc[q] \in Locked => LockKeyOf[cur[p]] # LockKeyOf[cur[q]]

\* The part of HandledIsServed that ServedIsPublished does not give.
HandledIsCurrent ==
    \A p \in Syncers : \A l \in Handled(p) \ displaced[p] : state[l] = snapshot[p][l]

\* The inductive invariant of the proofs (PostgresSyncProofs).
IInv == TypeOK /\ CommandOK /\ TransactionOK /\ LocksExclude
        /\ ServedIsPublished /\ SchemaAgrees /\ HandledIsCurrent

\* What readers are promised to see; an edit by hand is the editor's own business.
PromisedView ==
    [l \in Lineages |-> IF l \in drift THEN RowsOf(l, state[l]) ELSE consumer[l]]

\* Every step of the tables is one atomic step of what readers are promised.
Serving == INSTANCE GoldServing WITH view <- PromisedView, serving <- state, NoRows <- NoRows
ImplementsServing == Serving!Spec
=============================================================================
