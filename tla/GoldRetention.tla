--------------------------- MODULE GoldRetention ---------------------------
(***************************************************************************)
(* One Gold command after another builds one dataset for several symbols:  *)
(* the symbols' jobs run in parallel, and each publishes its artifact and  *)
(* then prunes version directories, which all symbols share, and its own   *)
(* artifacts (run_gold_build, build_gold_for_symbol, gold_versioning).     *)
(*                                                                         *)
(* Versions are numbers in semver order; a build with changed inputs bumps *)
(* by one.  The publication of one pair is atomic here (GoldPublication).  *)
(***************************************************************************)
EXTENDS Integers, FiniteSets

CONSTANTS Symbols,      \* symbols of the dataset
          Contents,     \* Silver inputs a symbol can have
          Keep,         \* retention: versions, and artifacts per lineage, kept
          Modes,        \* of the commands: TRUE = --auto-version, FALSE = the fixed version
          MaxCommands,  \* bound: Gold commands
          MaxChanges    \* bound: changes of Silver inputs

ASSUME RetentionAssumption ==
    /\ Keep \in Nat \ {0} /\ Modes \subseteq BOOLEAN
    /\ MaxCommands \in Nat /\ MaxChanges \in Nat

VARIABLES
    input,      \* Silver input of each symbol
    artifacts,  \* published artifacts; time orders their modification times
    dirs,       \* version directories of the dataset
    clock,      \* publications so far
    phase,      \* state of each symbol's job
    target,     \* version and content the job is to publish
    doomed,     \* version directories the job has decided to remove
    running,    \* a command is running
    auto,       \* its --auto-version
    reports,    \* artifacts reported by the finished jobs
    declared,   \* the publication result of the last command
    ever,       \* history: every artifact published, as last published
    commands, changes

fileVars == <<artifacts, dirs, clock, ever>>
jobVars == <<phase, target, doomed>>
commandVars == <<running, auto, reports, declared, commands>>
retentionVars == <<input, fileVars, jobVars, commandVars, changes>>

None == [version |-> 0, content |-> "none"]
Of(s) == {a \in artifacts : a.symbol = s}
Identity(a) == <<a.symbol, a.version, a.content>>
OnDisk == {Identity(a) : a \in artifacts}
Replaced(known, new) == {a \in known : Identity(a) # Identity(new)} \cup {new}

\* latest_manifest_for_dataset: the newest by modification time.
Latest(s) == CHOOSE a \in Of(s) : \A b \in Of(s) : a.time >= b.time

\* The members of s that fewer than n members precede in the order.
Top(n, s, Precedes(_, _)) == {x \in s : Cardinality({y \in s : Precedes(y, x)}) < n}

\* Mutant of Newer: the newest are removed first.
OldestVersion(v, w) == v < w

Newer(v, w) == v > w
NewerArtifact(a, b) == a.version > b.version \/ (a.version = b.version /\ a.time > b.time)

NextVersion(s) == IF ~auto \/ Of(s) = {} THEN 1 ELSE Latest(s).version + 1

RetentionInit ==
    /\ input \in [Symbols -> Contents]
    /\ artifacts = {} /\ ever = {} /\ dirs = {} /\ clock = 0
    /\ phase = [s \in Symbols |-> "idle"]
    /\ target = [s \in Symbols |-> None]
    /\ doomed = [s \in Symbols |-> {}]
    /\ running = FALSE /\ auto = FALSE /\ reports = {} /\ declared = {}
    /\ commands = 0 /\ changes = 0

\* Silver is rebuilt with other data for a symbol.
SilverChanges(s, content) ==
    /\ changes < MaxChanges /\ changes' = changes + 1
    /\ ~running /\ input[s] # content
    /\ input' = [input EXCEPT ![s] = content]
    /\ UNCHANGED <<fileVars, jobVars, commandVars>>

\* A command removes the previous result and schedules the symbols it was asked for.
Start(selected) ==
    /\ ~running /\ commands < MaxCommands
    /\ commands' = commands + 1
    /\ running' = TRUE /\ auto' \in Modes /\ reports' = {} /\ declared' = {}
    /\ phase' = [s \in Symbols |-> IF s \in selected THEN "plan" ELSE "idle"]
    /\ UNCHANGED <<input, fileVars, target, doomed, changes>>

Report(s, identity) == reports' = reports \cup {identity} /\ phase' = [phase EXCEPT ![s] = "done"]

\* Artifacts a job need not rebuild: the newest, when its manifest names these
\* inputs, or one whose path (version and content hashes) is the one to be written.
Reusable(s) ==
    {a \in Of(s) : /\ a.content = input[s]
                   /\ \/ a = Latest(s) /\ (auto \/ a.version = 1)
                      \/ a.version = NextVersion(s)}

Reuse(s) ==
    /\ phase[s] = "plan"
    /\ \E a \in Reusable(s) : Report(s, Identity(a))
    /\ UNCHANGED <<input, fileVars, target, doomed, running, auto, declared, commands, changes>>

\* A ValueError (a missing Silver source, an empty frame) skips the symbol.
Skip(s) ==
    /\ phase[s] = "plan"
    /\ phase' = [phase EXCEPT ![s] = "done"]
    /\ UNCHANGED <<input, fileVars, target, doomed, commandVars, changes>>

\* Choose the version and create its directory (the second of two mkdirs, which the
\* publication itself does before it writes).
Plan(s) ==
    /\ phase[s] = "plan" /\ Reusable(s) = {}
    /\ target' = [target EXCEPT ![s] = [version |-> NextVersion(s), content |-> input[s]]]
    /\ dirs' = dirs \cup {NextVersion(s)}
    /\ phase' = [phase EXCEPT ![s] = "publish"]
    /\ UNCHANGED <<input, artifacts, clock, ever, doomed, commandVars, changes>>

Crash(s) == phase' = [phase EXCEPT ![s] = "failed"]

\* Publish the pair, if another job has not removed the directory meanwhile.
Publish(s) ==
    /\ phase[s] = "publish"
    /\ LET new == [symbol |-> s, version |-> target[s].version,
                   content |-> target[s].content, time |-> clock + 1] IN
        IF new.version \notin dirs
        THEN Crash(s) /\ UNCHANGED fileVars
        ELSE /\ artifacts' = Replaced(artifacts, new)
             /\ ever' = Replaced(ever, new)
             /\ clock' = clock + 1
             /\ phase' = [phase EXCEPT ![s] = "list"]
             /\ UNCHANGED dirs
    /\ UNCHANGED <<input, target, doomed, commandVars, changes>>

\* prune_gold_versions, first half: the directories beyond the newest Keep.
ListVersions(s) ==
    /\ phase[s] = "list"
    /\ doomed' = [doomed EXCEPT ![s] = dirs \ Top(Keep, dirs, Newer)]
    /\ phase' = [phase EXCEPT ![s] = "prune"]
    /\ UNCHANGED <<input, fileVars, target, commandVars, changes>>

\* prune_gold_versions, second half, newest first; rmtree of a directory that
\* another job has removed raises.
RemoveVersion(s) ==
    /\ phase[s] = "prune"
    /\ \E v \in Top(1, doomed[s], Newer) :
        IF v \notin dirs
        THEN Crash(s) /\ UNCHANGED <<fileVars, doomed>>
        ELSE /\ dirs' = dirs \ {v}
             /\ artifacts' = {a \in artifacts : a.version # v}
             /\ doomed' = [doomed EXCEPT ![s] = @ \ {v}]
             /\ UNCHANGED <<phase, clock, ever>>
    /\ UNCHANGED <<input, target, commandVars, changes>>

\* Mutant of PruneArtifacts: the symbols of a version share one allowance.
PruneAcrossSymbols(s) ==
    /\ phase[s] = "prune" /\ doomed[s] = {}
    /\ artifacts' = Top(Keep, artifacts, NewerArtifact)
    /\ Report(s, <<s, target[s].version, target[s].content>>)
    /\ UNCHANGED <<input, dirs, clock, ever, target, doomed, running, auto, declared, commands, changes>>

\* prune_gold_artifacts, and the report of what was published.
PruneArtifacts(s) ==
    /\ phase[s] = "prune" /\ doomed[s] = {}
    /\ artifacts' = artifacts \ (Of(s) \ Top(Keep, Of(s), NewerArtifact))
    /\ Report(s, <<s, target[s].version, target[s].content>>)
    /\ UNCHANGED <<input, dirs, clock, ever, target, doomed, running, auto, declared, commands, changes>>

\* All jobs are over: the result is written unless one of them raised.
Finish ==
    /\ running /\ \A s \in Symbols : phase[s] \in {"idle", "done", "failed"}
    /\ running' = FALSE /\ reports' = {}
    /\ declared' = IF \E s \in Symbols : phase[s] = "failed" THEN {} ELSE reports
    /\ phase' = [s \in Symbols |-> "idle"]
    /\ target' = [s \in Symbols |-> None]
    /\ doomed' = [s \in Symbols |-> {}]
    /\ UNCHANGED <<input, fileVars, auto, commands, changes>>

Job(s) == Reuse(s) \/ Skip(s) \/ Plan(s) \/ Publish(s) \/ ListVersions(s)
          \/ RemoveVersion(s) \/ PruneArtifacts(s)

RetentionNext ==
    \/ \E s \in Symbols : Job(s) \/ \E c \in Contents : SilverChanges(s, c)
    \/ \E selected \in (SUBSET Symbols) \ {{}} : Start(selected)
    \/ Finish

RetentionSpec == RetentionInit /\ [][RetentionNext]_retentionVars

-----------------------------------------------------------------------------
(* Properties.                                                             *)

Versions == 1..(MaxCommands + 1)
Identities == Symbols \X Versions \X Contents

\* Type invariant: artifacts, version directories and results keep their shape.
RetentionTypeOK ==
    /\ input \in [Symbols -> Contents]
    /\ artifacts \subseteq ever
    /\ ever \subseteq [symbol : Symbols, version : Versions, content : Contents,
                       time : 1..clock]
    /\ dirs \subseteq Versions
    /\ clock \in Nat
    /\ phase \in [Symbols -> {"idle", "plan", "publish", "list", "prune", "done", "failed"}]
    /\ target \in [Symbols -> [version : Versions, content : Contents] \cup {None}]
    /\ doomed \in [Symbols -> SUBSET Versions]
    /\ {running, auto} \subseteq BOOLEAN
    /\ reports \subseteq Identities /\ declared \subseteq Identities
    /\ commands \in 0..MaxCommands /\ changes \in 0..MaxChanges

\* The newest artifacts a symbol has published: "only the latest three versions are
\* retained per dataset/exchange/symbol lineage" (README.md:269), three being Keep.
LatestOf(s) == Top(Keep, {a \in ever : a.symbol = s}, NewerArtifact)

\* At least Keep version directories are newer than version v.
Superseded(v) == Cardinality({w \in dirs : w > v}) >= Keep

\* Version directories are shared by all symbols, and a symbol that changes often evicts
\* the artifacts of another.  What the pruning leaves of the README's promise: one of the
\* newest Keep artifacts of a symbol disappears only when as many newer version
\* directories exist, whichever jobs list, remove and publish meanwhile.
RetainsUnlessSuperseded ==
    \A s \in Symbols : \A a \in LatestOf(s) : a \in artifacts \/ Superseded(a.version)

\* Keep artifacts of the symbol with newer versions are on disk.
Outranked(d) == Cardinality({a \in Of(d[1]) : a.version > d[2]}) >= Keep

\* An artifact named by the publication result is missing only for the same reason, or
\* because its own job's retention ranked it behind Keep artifacts of newer versions (a
\* fixed version published after automatic ones), although other jobs of the command prune
\* after it was reported (write_gold_publication_result).
DeclaredUnlessSuperseded ==
    \A d \in declared : d \in OnDisk \/ Superseded(d[2]) \/ Outranked(d)

\* Pruning removes a version directory only while Keep newer ones survive, however
\* the jobs' listings and removals interleave.
OnlySupersededRemoved ==
    [][\A v \in dirs \ dirs' : Cardinality({w \in dirs' : w > v}) >= Keep]_retentionVars
=============================================================================
