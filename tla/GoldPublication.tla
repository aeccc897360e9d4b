-------------------------- MODULE GoldPublication --------------------------
(***************************************************************************)
(* Publication of a set of Gold artifacts (the siblings of one symbol, or  *)
(* a single one) over whatever is at their paths: stage every pair, then   *)
(* per artifact move the old pair aside and the new one in, and restore    *)
(* the old pairs on failure (gold_publication.py).  Each file operation is *)
(* a step; it can fail, the command can be interrupted or killed.          *)
(*                                                                         *)
(* Contents are the number of the build that wrote them, 0 = no file.  A   *)
(* manifest names the bytes of its parquet, so it carries the same number. *)
(***************************************************************************)
EXTENDS Naturals, Sequences

CONSTANTS Siblings,       \* number of artifacts published together
          MaxBuilds,      \* bound: publications attempted
          MaxErrors,      \* bound: failing file operations
          MaxInterrupts,  \* bound: KeyboardInterrupts
          MaxKills        \* bound: killed processes

Artifacts == 1..Siblings
Slots == {"parquet", "manifest", "stagedParquet", "stagedManifest",
          "previousParquet", "previousManifest"}
Temporary == Slots \ {"parquet", "manifest"}

ASSUME BoundsAssumption ==
    /\ Siblings \in Nat \ {0}
    /\ MaxBuilds \in Nat \ {0} /\ {MaxErrors, MaxInterrupts, MaxKills} \subseteq Nat

VARIABLES
    files,       \* files[a][slot]: what the artifact's paths hold
    orphans,     \* history: contents the last command left under temporary names
    pc,          \* idle, stage, swap, rollback, cleanup
    at,          \* artifact being worked on
    move,        \* next operation on it
    had,         \* had[a]: which of the pair existed when a was staged
    outcome,     \* of the last publication: "none", "published", "raised",
                 \* "interrupted", "killed"
    before,      \* history: the pairs when the publication began
    recovery,    \* history: "cut" when its except clause was skipped or cut short
    build, errors, interrupts, kills

bounds == <<errors, interrupts, kills>>
vars == <<files, orphans, pc, at, move, had, outcome, before, recovery, build, bounds>>

Empty == [s \in Slots |-> 0]
Pair(a) == <<files[a]["parquet"], files[a]["manifest"]>>
Certified(pair) == pair[1] # 0 /\ pair[1] = pair[2]
Exists(a, s) == files[a][s] # 0

\* os.replace: the destination, if any, is overwritten.
Rename(a, from, to) == [files EXCEPT ![a][to] = files[a][from], ![a][from] = 0]
Put(a, s, content) == files' = [files EXCEPT ![a][s] = content]


\* Mutant of SwapMoves: the old manifest is overwritten, not moved aside.
ManifestInPlace == << <<"parquet", "previousParquet">>, <<"stagedManifest", "manifest">>,
                      <<"stagedParquet", "parquet">>, <<"stagedManifest", "manifest">> >>

\* The operations of the swap, in order; the fifth is the attestation check.
SwapMoves == << <<"parquet", "previousParquet">>, <<"manifest", "previousManifest">>,
                <<"stagedParquet", "parquet">>, <<"stagedManifest", "manifest">> >>

Goto(point, artifact, operation) ==
    pc' = point /\ at' = artifact /\ move' = operation

\* Mutant of NextArtifact: one artifact too many.
NextArtifactPastEnd(point, after) ==
    IF at <= Siblings THEN Goto(point, at + 1, 1) ELSE Goto(after, 1, 1)

\* The next artifact's first operation, or the first of the next phase.
NextArtifact(point, after) ==
    IF at < Siblings THEN Goto(point, at + 1, 1) ELSE Goto(after, 1, 1)

\* Mutant of Begin: a path that holds a file is taken for published.
BeginOnEmpty ==
    /\ pc = "idle" /\ \A a \in Artifacts : ~Exists(a, "parquet")
    /\ build' = (build % MaxBuilds) + 1
    /\ before' = [a \in Artifacts |-> Pair(a)]
    /\ had' = [a \in Artifacts |-> {}]
    /\ outcome' = "none" /\ recovery' = "whole" /\ orphans' = {}
    /\ Goto("stage", 1, 1)
    /\ UNCHANGED <<files, bounds>>

\* A command starts to publish the next build over the artifacts' paths.
Begin ==
    /\ pc = "idle"
    /\ build' = (build % MaxBuilds) + 1
    /\ before' = [a \in Artifacts |-> Pair(a)]
    /\ had' = [a \in Artifacts |-> {}]
    /\ outcome' = "none" /\ recovery' = "whole" /\ orphans' = {}
    /\ Goto("stage", 1, 1)
    /\ UNCHANGED <<files, bounds>>

\* Write and validate the parquet, then the manifest, under temporary names.
Stage ==
    /\ pc = "stage"
    /\ \/ /\ move = 1 /\ Goto("stage", at, 2)
          /\ Put(at, "stagedParquet", build)
          /\ UNCHANGED had
       \/ /\ move = 2 /\ NextArtifact("stage", "swap")
          /\ Put(at, "stagedManifest", build)
          /\ had' = [had EXCEPT ![at] = {s \in {"parquet", "manifest"} : Exists(at, s)}]
    /\ UNCHANGED <<orphans, outcome, before, recovery, build, bounds>>

\* Move what existed aside, then the staged pair in.
Swap ==
    /\ pc = "swap" /\ move <= 4
    /\ LET from == SwapMoves[move][1]
           to == SwapMoves[move][2] IN
        files' = IF move <= 2 /\ from \notin had[at] THEN files ELSE Rename(at, from, to)
    /\ Goto("swap", at, move + 1)
    /\ UNCHANGED <<orphans, had, outcome, before, recovery, build, bounds>>

\* The pair in place must attest itself; a mismatch raises.
Validate ==
    /\ pc = "swap" /\ move = 5
    /\ \/ /\ Certified(Pair(at)) /\ NextArtifact("swap", "cleanup")
          /\ outcome' = IF at < Siblings THEN outcome ELSE "published"
       \/ /\ ~Certified(Pair(at)) /\ Goto("rollback", 1, 1)
          /\ outcome' = "raised"
    /\ UNCHANGED <<files, orphans, had, before, recovery, build, bounds>>

\* Mutant of Restored: a file with no previous version is left in place.
RestoredOnlyPrevious(a, s, previous) ==
    IF Exists(a, previous) THEN Rename(a, previous, s) ELSE files

\* Put the previous file back, or remove one that was not there before.
Restored(a, s, previous) ==
    IF Exists(a, previous) THEN Rename(a, previous, s)
    ELSE IF s \in had[a] THEN files ELSE [files EXCEPT ![a][s] = 0]

Rollback ==
    /\ pc = "rollback"
    /\ \/ /\ move = 1 /\ Goto("rollback", at, 2)
          /\ files' = Restored(at, "parquet", "previousParquet")
       \/ /\ move = 2 /\ NextArtifact("rollback", "cleanup")
          /\ files' = Restored(at, "manifest", "previousManifest")
    /\ UNCHANGED <<orphans, had, outcome, before, recovery, build, bounds>>

CleanupOrder == <<"stagedParquet", "stagedManifest", "previousParquet", "previousManifest">>

\* The finally clause: unlink every temporary file.
Cleanup ==
    /\ pc = "cleanup"
    /\ Put(at, CleanupOrder[move], 0)
    /\ IF move < 4 THEN Goto("cleanup", at, move + 1) ELSE NextArtifact("cleanup", "idle")
    /\ UNCHANGED <<orphans, had, outcome, before, recovery, build, bounds>>

Step == Stage \/ Swap \/ Validate \/ Rollback \/ Cleanup

\* Temporary names carry a fresh token: what is left of them is never found again.
Abandon ==
    /\ Goto("idle", 1, 1)
    /\ files' = [a \in Artifacts |-> [s \in Slots |-> IF s \in Temporary THEN 0 ELSE files[a][s]]]
    /\ orphans' = orphans \cup {<<a, s, files[a][s]>> : a \in Artifacts, s \in Temporary}

\* Mutant of Error: no except clause.
ErrorWithoutRestore ==
    /\ pc \in {"stage", "swap"} /\ errors < MaxErrors
    /\ errors' = errors + 1
    /\ outcome' = "raised"
    /\ Goto("cleanup", 1, 1)
    /\ UNCHANGED <<files, orphans, had, before, recovery, build, interrupts, kills>>

\* An Exception: the except clause restores what was swapped (nothing, while
\* staging), and an exception inside either clause skips the rest of it.
Error ==
    /\ pc # "idle" /\ errors < MaxErrors
    /\ errors' = errors + 1
    /\ outcome' = IF outcome = "interrupted" THEN outcome ELSE "raised"
    /\ recovery' = IF pc = "rollback" THEN "cut" ELSE recovery
    /\ CASE pc = "swap" -> Goto("rollback", 1, 1) /\ UNCHANGED <<files, orphans>>
         [] pc \in {"stage", "rollback"} -> Goto("cleanup", 1, 1) /\ UNCHANGED <<files, orphans>>
         [] pc = "cleanup" -> Abandon
    /\ UNCHANGED <<had, before, build, interrupts, kills>>

\* KeyboardInterrupt is no Exception: the except clause is skipped.
Interrupt ==
    /\ pc # "idle" /\ interrupts < MaxInterrupts
    /\ interrupts' = interrupts + 1
    /\ outcome' = "interrupted"
    /\ recovery' = IF pc \in {"swap", "rollback"} THEN "cut" ELSE recovery
    /\ IF pc = "cleanup" THEN Abandon
       ELSE Goto("cleanup", 1, 1) /\ UNCHANGED <<files, orphans>>
    /\ UNCHANGED <<had, before, build, errors, kills>>

\* The process or the host dies.
Kill ==
    /\ pc # "idle" /\ kills < MaxKills
    /\ kills' = kills + 1
    /\ outcome' = "killed"
    /\ Abandon
    /\ UNCHANGED <<had, before, recovery, build, errors, interrupts>>

Init ==
    /\ files = [a \in Artifacts |-> [s \in Slots |-> 0]]
    /\ orphans = {}
    /\ pc = "idle" /\ at = 1 /\ move = 1
    /\ had = [a \in Artifacts |-> {}]
    /\ outcome = "none"
    /\ before = [a \in Artifacts |-> <<0, 0>>] /\ recovery = "whole"
    /\ build = 0 /\ errors = 0 /\ interrupts = 0 /\ kills = 0

Next == Begin \/ Step \/ Error \/ Interrupt \/ Kill

Spec == Init /\ [][Next]_vars

\* The pipeline runs Gold again and again, and a running command proceeds.
FairSpec == Spec /\ WF_vars(Begin) /\ WF_vars(Step)

-----------------------------------------------------------------------------
(* Properties.                                                             *)

\* Type invariant: paths hold builds, and the control point names an operation of its phase.
TypeOK ==
    /\ files \in [Artifacts -> [Slots -> 0..MaxBuilds]]
    /\ orphans \subseteq Artifacts \X Temporary \X (0..MaxBuilds)
    /\ pc \in {"idle", "stage", "swap", "rollback", "cleanup"}
    /\ at \in Artifacts /\ move \in 1..5
    /\ had \in [Artifacts -> SUBSET {"parquet", "manifest"}]
    /\ outcome \in {"none", "published", "raised", "interrupted", "killed"}
    /\ before \in [Artifacts -> (0..MaxBuilds) \X (0..MaxBuilds)] /\ recovery \in {"whole", "cut"}
    /\ build \in 0..MaxBuilds /\ errors \in 0..MaxErrors
    /\ interrupts \in 0..MaxInterrupts /\ kills \in 0..MaxKills

\* A publication that ends other than by being killed has replaced every sibling's pair or
\* restored every one, and has replaced them if it reports success: "a failed publication
\* always restores the previously published pair" (publish_gold_artifact_atomically, line
\* 103) and "publish a complete sibling artifact set or restore every previous pair".
\* Except when the except clause did not run to its end: a KeyboardInterrupt skips it, and
\* a second error, in the restore itself, cuts it short (line 219).
AllOrNothing ==
    pc = "idle" /\ outcome # "killed" /\ recovery = "whole" =>
        \/ \A a \in Artifacts : Pair(a) = <<build, build>>
        \/ outcome # "published" /\ \A a \in Artifacts : Pair(a) = before[a]

\* The content is on disk, under its path or under a temporary name.
Kept(a, i, s, previous) ==
    \/ before[a][i] \in {files[a][s], files[a][previous]}
    \/ <<a, previous, before[a][i]>> \in orphans

\* The previous pair of an artifact is on disk, under whatever name, until the
\* whole sibling set has been replaced: "retaining the prior pair on failure"
\* (publish_gold_artifact_atomically; the order of renames, rollback and unlinks).
NothingLost ==
    \A a \in Artifacts :
        Certified(before[a]) =>
            \/ Kept(a, 1, "parquet", "previousParquet") /\ Kept(a, 2, "manifest", "previousManifest")
            \/ \A b \in Artifacts : Pair(b) = <<build, build>>

\* Failing operations, kills and interrupts destroy no previous pair that an operator could
\* not put back, unless the restore itself was skipped or cut short.
FaultsLoseNothing == recovery = "whole" => NothingLost

\* A parquet and a manifest of different builds never sit side by side unless some
\* file operation failed: a kill alone leaves an old pair, a new pair or an
\* incomplete one, which every reader refuses or rebuilds.
NoMixedPair ==
    errors = 0 => \A a \in Artifacts :
        Exists(a, "parquet") /\ Exists(a, "manifest") => Certified(Pair(a))

\* Whatever earlier commands left at the paths, publications keep succeeding and
\* leave every sibling certified, with no temporary file of their own.
Republishes ==
    []<>(pc = "idle" /\ outcome = "published"
         /\ \A a \in Artifacts : Certified(Pair(a)) /\ \A s \in Temporary : ~Exists(a, s))
=============================================================================
