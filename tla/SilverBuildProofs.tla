------------------------- MODULE SilverBuildProofs -------------------------
(***************************************************************************)
(* Proofs about SilverBuild, for every list of datasets, number of         *)
(* workers, months and lookback.                                           *)
(***************************************************************************)
EXTENDS SilverBuild, NumberLemmas

-----------------------------------------------------------------------------
(* The tables of jobs and inputs.                                          *)

\* A job builds one or two targets, and no target of it is an input of itself or of one
\* that it builds before.
LEMMA HandlerTable ==
    ASSUME NEW mk \in DOMAIN Handler
    PROVE  /\ DOMAIN Handler[mk] = 1..Len(Handler[mk]) /\ Len(Handler[mk]) \in {1, 2}
           /\ \A i, j \in DOMAIN Handler[mk] :
                    i <= j => File(Handler[mk][j]) \notin Inputs(Handler[mk][i])
           /\ \A i, j \in DOMAIN Handler[mk] : i # j => Handler[mk][i] # Handler[mk][j]
<1>1. DOMAIN Handler[mk] = 1..Len(Handler[mk]) /\ Len(Handler[mk]) \in {1, 2}
  BY DEF Handler
<1>2. ASSUME NEW i \in DOMAIN Handler[mk], NEW j \in DOMAIN Handler[mk], i <= j
      PROVE  File(Handler[mk][j]) \notin Inputs(Handler[mk][i])
  BY <1>2 DEF Handler, Inputs, FeatureInputs, File, Silver
<1>3. ASSUME NEW i \in DOMAIN Handler[mk], NEW j \in DOMAIN Handler[mk], i # j
      PROVE  Handler[mk][i] # Handler[mk][j]
  BY <1>3 DEF Handler
<1> QED BY <1>1, <1>2, <1>3

\* Nothing reads what the derived jobs build.
LEMMA DerivedTable ==
    ASSUME NEW mk \in Derived, NEW i \in DOMAIN Handler[mk], NEW t
    PROVE  File(Handler[mk][i]) \notin Inputs(t)
BY DEF Handler, Inputs, FeatureInputs, File, Silver, Derived

\* Inputs are Bronze or Silver partitions, and never the target itself.
LEMMA InputTable ==
    ASSUME NEW t
    PROVE  /\ \A s \in Inputs(t) : s[1] \in {"bronze", "silver"}
           /\ File(t) \notin Inputs(t)
<1>1. CASE t \notin DOMAIN FeatureInputs
  BY <1>1 DEF Inputs, File
<1>2. CASE t \in DOMAIN FeatureInputs
  <2>1. \A s \in Inputs(t) : s[1] \in {"bronze", "silver"}
    BY <1>2 DEF Inputs, FeatureInputs, Silver
  <2>2. File(t) \notin Inputs(t)
    BY <1>2 DEF Inputs, FeatureInputs, Silver, File
  <2> QED BY <2>1, <2>2
<1> QED BY <1>1, <1>2

\* A target whose manifests are consulted is observed from Bronze month by month, or
\* computed from Silver alone.
LEMMA CachedTable ==
    ASSUME NEW t, t \notin Uncached
    PROVE  /\ t \notin Carrying
           /\ \/ t \notin Rolling /\ \A s \in Inputs(t) : s[1] = "bronze"
              \/ \A s \in Inputs(t) : s[1] = "silver"
<1>1. t \notin Carrying
  BY DEF Carrying, Uncached
<1>2. CASE t \notin DOMAIN FeatureInputs
  BY <1>1, <1>2 DEF Inputs, FeatureInputs, Rolling
<1>3. CASE t \in DOMAIN FeatureInputs
  BY <1>1, <1>3 DEF Inputs, FeatureInputs, Silver, Uncached
<1> QED BY <1>1, <1>2, <1>3

\* The calculation months end with the month itself.
LEMMA KeysTable ==
    ASSUME NEW t, NEW m \in Months
    PROVE  /\ CalculationKeys(t, m) \subseteq Months /\ m \in CalculationKeys(t, m)
           /\ \A k \in CalculationKeys(t, m) : k <= m
           /\ t \notin Carrying \cup Rolling => CalculationKeys(t, m) = {m}
BY SilverAssumption DEF CalculationKeys, Months

-----------------------------------------------------------------------------
(* The inductive invariant.                                                *)

Publication == {"stage", "aside", "land", "declare"}
Working == {"plan", "read"} \cup Publication

IsJob(j) == j = [stage |-> j.stage, pc |-> j.pc, months |-> j.months, month |-> j.month,
                 source |-> j.source, fp |-> j.fp, cache |-> j.cache, frame |-> j.frame,
                 had |-> j.had, backup |-> j.backup]

TargetOf(mk, j) == Handler[mk][j.stage]

\* What the fields of a job say at each of its steps.
JobOK(mk, j) ==
    /\ IsJob(j)
    /\ j.stage \in DOMAIN Handler[mk]
    /\ j.pc \in Working \cup {"discover", "done", "failed"}
    /\ j.months \subseteq Months
    /\ j.pc \in Working => j.month \in j.months /\ DOMAIN j.cache \subseteq Months
    /\ j.pc \in Publication \cup {"read"} => DOMAIN j.fp = CalculationKeys(TargetOf(mk, j), j.month)
    /\ j.pc \in Publication => j.frame # NoFile
    /\ j.backup # NoFile => j.pc \in {"land", "declare"}
    /\ j.pc = "aside" => j.had
    /\ j.pc \in {"land", "declare"} => (j.had <=> j.backup # NoFile)

JobsOK == \A mk \in DOMAIN job : JobOK(mk, job[mk])

\* Files and manifests are there for every month, and Bronze counts its versions.
FilesOK ==
    /\ DOMAIN lake = Files /\ \A s \in Files : DOMAIN lake[s] = Months
    /\ DOMAIN manifest = Targets /\ \A t \in Targets : DOMAIN manifest[t] = Months
    /\ \A t \in Targets, m \in Months : manifest[t][m] # None =>
            DOMAIN manifest[t][m].fp = CalculationKeys(t, m)
    /\ \A s \in Files, m \in Months :
            s[1] = "bronze" => lake[s][m] = NoFile \/ \E v \in lake[s][m] : v \in Nat /\ lake[s][m] = {v}

\* A file has its directory, and so has what is being published.
Directories ==
    /\ made \subseteq Targets \X Months
    /\ \A s \in Files, m \in Months : lake[s][m] # NoFile => Listed(s, m)
    /\ \A mk \in DOMAIN job :
            job[mk].pc \in Publication => <<TargetOf(mk, job[mk]), job[mk].month>> \in made

\* The jobs of the run; the running ones are no more than the workers, and what they do
\* to each other is known.
RunOK ==
    /\ selection \in Selections
    /\ Running => /\ waiting \subseteq scheduled /\ scheduled \subseteq ToSet(selection)
                  /\ DOMAIN job \subseteq scheduled \ waiting
    /\ ~Running => waiting = {} /\ job = Idle
    /\ Cardinality(DOMAIN job) <= MaxProcesses
    /\ Meets(DOMAIN job) \subseteq raced
    /\ raced \cup clean \subseteq Targets /\ orphans \subseteq Targets \X Months
    /\ writes \in 0..MaxWrites /\ faults \in 0..MaxFaults

\* Bronze only moves on: what has been read of it never comes back once it was replaced.
Older(a, b) == \E j \in b : a = NoFile \/ \E i \in a : i \in Nat /\ i < j
Outdated(fp, t, m) ==
    \E k \in CalculationKeys(t, m), s \in Inputs(t) : s[1] = "bronze" /\ Older(fp[k][s], lake[s][k])

InputsOf(t, m) == [k \in CalculationKeys(t, m) |-> InputsNow(t, k)]
ComputedFrom(content, rows) == \E c \in content : c.rows = rows
Sound(fp, content, t, m) == ComputedFrom(content, fp) \/ Outdated(fp, t, m)

\* A manifest declares what its partition was computed from, or Bronze has moved on.
ManifestsSound ==
    \A t \in Targets \ (Uncached \cup raced), m \in Months :
        manifest[t][m] # None => Sound(manifest[t][m].fp, manifest[t][m].out, t, m)

FromBronze(t) == t \notin Rolling /\ \A s \in Inputs(t) : s[1] = "bronze"
FromSilver(t) == \A s \in Inputs(t) : s[1] = "silver"

\* So does the fingerprint that a job carries, and the months it has kept in memory are
\* those of the lake, or earlier ones of Bronze.
JobSound(mk, j) ==
    LET t == TargetOf(mk, j) IN
    t \notin Uncached \cup raced =>
        /\ j.pc = "read" => j.fp = InputsOf(t, j.month) \/ Outdated(j.fp, t, j.month)
        /\ j.pc \in Publication => Sound(j.fp, j.frame, t, j.month)
        /\ j.pc \in Working /\ FromSilver(t) => \A k \in DOMAIN j.cache : j.cache[k] = InputsNow(t, k)
        /\ j.pc \in Working /\ FromBronze(t) =>
                \A k \in DOMAIN j.cache : k <= j.month /\ (j.pc \in {"plan", "read"} => k < j.month)

JobsSound == \A mk \in DOMAIN job : JobSound(mk, job[mk])

\* A declared partition is there, or set aside by the job that replaces it, or orphaned.
SetAside(t, m) ==
    \E mk \in DOMAIN job : /\ job[mk].pc = "land" /\ job[mk].backup # NoFile
                           /\ TargetOf(mk, job[mk]) = t /\ job[mk].month = m
Covered ==
    \A t \in Targets \ raced, m \in Months :
        manifest[t][m] # None => lake[File(t)][m] # NoFile \/ <<t, m>> \in orphans \/ SetAside(t, m)

\* A job that found no partition publishes the first one; what it has renamed is there.
JobCovers(mk, j) ==
    LET t == TargetOf(mk, j) IN
    t \notin raced =>
        /\ j.pc \in {"land", "declare"} /\ j.backup = NoFile =>
                manifest[t][j.month] = None \/ <<t, j.month>> \in orphans
        /\ j.pc = "declare" => lake[File(t)][j.month] = j.frame
JobsCover == \A mk \in DOMAIN job : JobCovers(mk, job[mk])

\* Source jobs are started in the order of the list, and before the derived ones.
InOrder ==
    \A p \in scheduled \ waiting, q \in scheduled \ Derived :
        q \in waiting \/ (q \in DOMAIN job /\ p \notin DOMAIN job) =>
            p \notin Derived /\ Position(p) < Position(q)

\* In a calm run a job has brought the earlier months of its target up to date, and
\* works on from what its inputs hold.
Brought(t, m) == InputsNow(t, m) # Nothing(t) => Fresh(t, m)
JobProgress(mk, j) ==
    LET t == TargetOf(mk, j) IN
    /\ j.pc # "failed"
    /\ t \notin raced /\ j.pc \in Working =>
        /\ \A k \in Months : InputsNow(t, k) # Nothing(t) => k \in j.months
        /\ \A k \in j.months : k < j.month => Brought(t, k)
        /\ \A k \in DOMAIN j.cache : j.cache[k] = InputsNow(t, k)
        /\ j.pc \in Publication => ComputedFrom(j.frame, InputsOf(t, j.month))

\* Every target that no waiting or running job will build again.
Finished(t) ==
    /\ \A mk \in waiting : t \notin ToSet(Handler[mk])
    /\ \A mk \in DOMAIN job : \A i \in DOMAIN Handler[mk] :
            Handler[mk][i] = t => job[mk].pc = "done" \/ i < job[mk].stage
UpToDate(t) == \A m \in Months : Brought(t, m)

CalmOK ==
    /\ Running => clean = {}
    /\ Running /\ calm => /\ \A mk \in DOMAIN job : JobProgress(mk, job[mk])
                          /\ \A t \in Built(scheduled) \ (raced \cup Overtaken) : Finished(t) => UpToDate(t)
    /\ \A t \in clean \ (raced \cup Overtaken) : UpToDate(t)

IInv == /\ FilesOK /\ JobsOK /\ RunOK /\ Directories
        /\ ManifestsSound /\ JobsSound
        /\ Covered /\ JobsCover
        /\ (Running => InOrder) /\ CalmOK

-----------------------------------------------------------------------------
(* Jobs, their targets and batches.                                        *)

\* A list names jobs that exist, each at one place.
LEMMA SelectedJobs ==
    ASSUME selection \in Selections
    PROVE  /\ selection \in Seq(DOMAIN Handler) /\ IsInjective(selection)
           /\ ToSet(selection) \subseteq DOMAIN Handler /\ IsFiniteSet(ToSet(selection))
           /\ \A jobs \in SUBSET ToSet(selection) : jobs # None
           /\ \A mk \in ToSet(selection) :
                /\ Position(mk) \in DOMAIN selection /\ Position(mk) \in Nat
                /\ selection[Position(mk)] = mk
<1>1. selection \in Seq(DOMAIN Handler) /\ IsInjective(selection)
  BY SilverAssumption
<1>2. \A jobs \in SUBSET ToSet(selection) : jobs # None
  BY SilverAssumption
<1>3. ToSet(selection) \subseteq DOMAIN Handler
  BY <1>1 DEF ToSet
<1>4. ASSUME NEW mk \in ToSet(selection)
      PROVE  /\ Position(mk) \in DOMAIN selection /\ Position(mk) \in Nat
             /\ selection[Position(mk)] = mk
  BY <1>1, <1>4 DEF ToSet, Position
<1>5. IsFiniteSet(ToSet(selection))
  <2> DEFINE at == [i \in 1..Len(selection) |-> selection[i]]
  <2>1. IsFiniteSet(1..Len(selection))
    BY <1>1, FS_Interval
  <2>2. at \in Surjection(1..Len(selection), ToSet(selection))
    BY <1>1 DEF Surjection, Range, ToSet
  <2> HIDE DEF at
  <2> QED BY <2>1, <2>2, FS_Surjection
<1> QED BY <1>1, <1>2, <1>3, <1>4, <1>5

\* A running job is one of the run, and its target is one of the run's.
LEMMA JobFacts ==
    ASSUME FilesOK, JobsOK, RunOK, NEW mk \in DOMAIN job
    PROVE  /\ Running /\ mk \in scheduled /\ mk \notin waiting
           /\ mk \in ToSet(selection) /\ mk \in DOMAIN Handler
           /\ Target(mk) = TargetOf(mk, job[mk])
           /\ Target(mk) \in ToSet(Handler[mk]) /\ Target(mk) \in Targets
           /\ File(Target(mk)) \in Files
<1>1. Running
  BY DEF RunOK, Idle
<1>2. mk \in scheduled /\ mk \notin waiting /\ mk \in ToSet(selection)
  BY <1>1 DEF RunOK
<1>3. mk \in DOMAIN Handler
  BY <1>2, SelectedJobs DEF RunOK
<1>4. Target(mk) = TargetOf(mk, job[mk]) /\ Target(mk) \in ToSet(Handler[mk])
  BY DEF JobsOK, JobOK, Target, TargetOf, ToSet
<1>5. Target(mk) \in Targets
  BY <1>2, <1>4 DEF Targets, Built
<1> QED BY <1>1, <1>2, <1>3, <1>4, <1>5 DEF Files, Silver, File

\* Whatever a target is built from is in the lake.
LEMMA InputFiles ==
    ASSUME NEW t \in Targets
    PROVE  File(t) \in Files /\ Inputs(t) \subseteq Files
BY DEF Files, Sources, Silver, File

\* The order of the list is a strict total order of the ready jobs.
LEMMA AheadOrders ==
    ASSUME RunOK, Running
    PROVE  /\ Ready \subseteq waiting /\ waiting \subseteq ToSet(selection)
           /\ IsFiniteSet(Ready) /\ StrictOrder(Ready, Ahead)
           /\ \A p, q \in Ready : p # q => p \in Ahead[q] \/ q \in Ahead[p]
<1>1. Ready \subseteq waiting /\ waiting \subseteq ToSet(selection)
  BY DEF RunOK, Ready
<1>2. \A p \in Ready : Position(p) \in Nat /\ selection[Position(p)] = p
  BY <1>1, SelectedJobs DEF RunOK
<1>3. IsFiniteSet(Ready)
  BY <1>1, SelectedJobs, FS_Subset DEF RunOK
<1>4. \A p, q \in Ready : p # q => p \in Ahead[q] \/ q \in Ahead[p]
  <2> SUFFICES ASSUME NEW p \in Ready, NEW q \in Ready, p # q
               PROVE  p \in Ahead[q] \/ q \in Ahead[p]
    OBVIOUS
  <2>1. Position(p) # Position(q)
    BY <1>2
  <2>2. Position(p) \in Nat /\ Position(q) \in Nat
    BY <1>2
  <2>3. Position(p) < Position(q) \/ Position(q) < Position(p)
    BY <2>1, <2>2
  <2> QED BY <2>3 DEF Ahead
<1>5. StrictOrder(Ready, Ahead)
  <2>1. Ahead \in [Ready -> SUBSET Ready]
    BY DEF Ahead
  <2>2. ASSUME NEW p \in Ready PROVE p \notin Ahead[p]
    BY <1>2 DEF Ahead
  <2>3. ASSUME NEW p \in Ready, NEW q \in Ahead[p] PROVE Ahead[q] \subseteq Ahead[p]
    <3>1. q \in Ready /\ Position(q) < Position(p)
      BY <2>3 DEF Ahead
    <3>2. \A r \in Ready : Position(r) < Position(q) => Position(r) < Position(p)
      BY <1>2, <3>1
    <3> QED BY <3>1, <3>2 DEF Ahead
  <2> QED BY <2>1, <2>2, <2>3 DEF StrictOrder
<1> QED BY <1>1, <1>3, <1>4, <1>5

\* The bounds are numbers.
LEMMA Positive == /\ MaxProcesses \in Nat \ {0} /\ LastMonth \in Nat \ {0} /\ Months \subseteq Nat \ {0}
                  /\ LookbackMonths \in Nat /\ MaxWrites \in Nat /\ MaxFaults \in Nat
BY SilverAssumption DEF Months

\* A batch is part of what waits, no larger than the number of workers, and ahead of the
\* ready jobs that it leaves.
LEMMA BatchFacts ==
    ASSUME RunOK, Running
    PROVE  /\ Batch \subseteq Ready /\ Batch \subseteq waiting
           /\ Cardinality(Batch) <= MaxProcesses
           /\ \A p \in Batch, q \in waiting \ Batch :
                q \notin Derived => p \notin Derived /\ Position(p) < Position(q)
<1>1. Batch \subseteq Ready /\ Ready \subseteq waiting
  BY AheadOrders DEF Batch
<1>2. Cardinality(Batch) <= MaxProcesses
  <2> DEFINE ahead == Ahead
  <2>1. Batch = {x \in Ready : Cardinality(ahead[x]) < MaxProcesses}
    BY DEF Batch
  <2>2. IsFiniteSet(Ready) /\ StrictOrder(Ready, ahead) /\ MaxProcesses \in Nat
        /\ \A p, q \in Ready : p # q => p \in ahead[q] \/ q \in ahead[p]
    BY AheadOrders, Positive
  <2> HIDE DEF ahead
  <2>3. Cardinality({x \in Ready : Cardinality(ahead[x]) < MaxProcesses}) <= MaxProcesses
    BY <2>2, FirstFew
  <2> QED BY <2>1, <2>3
<1>3. ASSUME NEW p \in Batch, NEW q \in waiting \ Batch, q \notin Derived
      PROVE  p \notin Derived /\ Position(p) < Position(q)
  <2>1. Ready = waiting \ Derived /\ p \in Ready /\ q \in Ready
    BY <1>1, <1>3 DEF Ready
  <2>2. Cardinality(Ahead[p]) < MaxProcesses /\ ~(Cardinality(Ahead[q]) < MaxProcesses)
    BY <1>3, <2>1 DEF Batch
  <2>3. q \notin Ahead[p]
    <3> SUFFICES ASSUME q \in Ahead[p] PROVE FALSE
      OBVIOUS
    <3>1. /\ Cardinality(Ahead[q]) < Cardinality(Ahead[p])
          /\ Cardinality(Ahead[p]) \in Nat
      BY <2>1, AheadOrders, FewerAhead
    <3>2. Cardinality(Ahead[q]) \in Nat
      BY <2>1, AheadOrders, FewerAhead
    <3> QED BY <2>2, <3>1, <3>2, Positive
  <2>4. p \in Ahead[q]
    BY <1>3, <2>1, <2>3, AheadOrders
  <2> QED BY <2>1, <2>4 DEF Ahead
<1> QED BY <1>1, <1>2, <1>3

-----------------------------------------------------------------------------
(* How a job goes on.                                                      *)

\* A job starts well formed.
LEMMA StartedJob ==
    ASSUME NEW mk \in DOMAIN Handler
    PROVE  JobOK(mk, StartJob)
<1>1. 1 \in DOMAIN Handler[mk]
  BY HandlerTable
<1> QED BY <1>1 DEF JobOK, StartJob, IsJob, Working, Publication, NoFile

\* A job that fails keeps only its stage.
LEMMA FailedJob ==
    ASSUME NEW mk \in DOMAIN Handler, NEW j, j.stage \in DOMAIN Handler[mk], NEW a, a = Failed(j)
    PROVE  /\ JobOK(mk, a) /\ a.pc = "failed"
           /\ a.stage = j.stage /\ a.backup = NoFile
<1>1. a = [StartJob EXCEPT !.stage = j.stage, !.pc = "failed"]
  BY DEF Failed
<1> QED BY <1>1 DEF JobOK, StartJob, IsJob, Working, Publication, NoFile

\* A job goes on with its next month, its next target, or ends.
GoesOn(mk, j, a) ==
    /\ JobOK(mk, a)
    /\ a.pc \in {"plan", "discover", "done"} /\ a.backup = NoFile
    /\ a.pc = "plan" => /\ a.stage = j.stage /\ a.months = j.months /\ a.cache = j.cache
                        /\ a.month \in j.months /\ a.month \in Nat /\ a.month > j.month
                        /\ \A k \in j.months : k < a.month => k <= j.month
    /\ a.pc # "plan" => \A k \in j.months : k <= j.month
    /\ a.pc = "discover" => a.stage = j.stage + 1
    /\ a.pc = "done" => a.stage = j.stage /\ j.stage = Len(Handler[mk])

\* Advanced takes a job to its next month, to its next target, or to its end.
LEMMA AdvancedJob ==
    ASSUME NEW mk \in DOMAIN Handler, NEW j, IsJob(j), j.stage \in DOMAIN Handler[mk],
           j.months \subseteq Months, j.month \in Nat, DOMAIN j.cache \subseteq Months,
           NEW a, a = Advanced(j, mk)
    PROVE  GoesOn(mk, j, a)
<1> DEFINE left == {m \in j.months : m > j.month}
<1>1. CASE left # {}
  <2> DEFINE next == Min(left)
  <2>1. left \subseteq Nat /\ IsFiniteSet(left)
    <3>1. IsFiniteSet(Months) /\ left \subseteq Months
      <4>1. IsFiniteSet(1..LastMonth)
        BY FS_Interval, Positive
      <4> QED BY <4>1 DEF Months
    <3> QED BY <3>1, FS_Subset, Positive
  <2>2. \E x \in left : \A y \in left : x <= y
    <3> HIDE DEF left
    <3>1. left \subseteq Int
      BY <2>1
    <3> QED BY <1>1, <2>1, <3>1, LeastInteger
  <2>3. next \in left /\ \A y \in left : next <= y
    BY <2>2 DEF Min
  <2>4. next \in j.months /\ next \in Nat /\ next > j.month
        /\ \A k \in j.months : k < next => k <= j.month
    <3>1. next \in j.months /\ next > j.month /\ next \in Nat
      BY <2>1, <2>3
    <3>2. \A k \in j.months : k < next => k <= j.month
      <4> SUFFICES ASSUME NEW k \in j.months, k < next, ~(k <= j.month) PROVE FALSE
        OBVIOUS
      <4>1. k \in Nat
        BY Positive
      <4>2. k \in left
        BY <4>1
      <4> HIDE DEF next, left
      <4> QED BY <2>3, <3>1, <4>1, <4>2
    <3> QED BY <3>1, <3>2
  <2>5. a = [j EXCEPT !.fp = None, !.frame = None, !.had = FALSE, !.backup = NoFile, !.month = next,
            !.pc = "plan"]
    <3>1. a = [[j EXCEPT !.fp = None, !.frame = None, !.had = FALSE, !.backup = NoFile]
                    EXCEPT !.month = next, !.pc = "plan"]
      BY <1>1 DEF Advanced
    <3> HIDE DEF next, left
    <3> QED BY <3>1 DEF IsJob
  <2> HIDE DEF next, left
  <2>6. a = [stage |-> j.stage, pc |-> "plan", months |-> j.months, month |-> next,
             source |-> j.source, fp |-> None, cache |-> j.cache, frame |-> None,
             had |-> FALSE, backup |-> NoFile]
    BY <2>5 DEF IsJob
  <2>7. JobOK(mk, a)
    BY <2>4, <2>6 DEF JobOK, IsJob, Working, Publication, NoFile
  <2> QED BY <2>4, <2>6, <2>7 DEF GoesOn
<1>2. CASE left = {}
  <2>1. \A k \in j.months : k <= j.month
    <3> SUFFICES ASSUME NEW k \in j.months, ~(k <= j.month) PROVE FALSE
      OBVIOUS
    <3>1. k \in Nat
      BY Positive
    <3>2. k \in left
      BY <3>1
    <3> QED BY <1>2, <3>2
  <2>2. DOMAIN Handler[mk] = 1..Len(Handler[mk]) /\ Len(Handler[mk]) \in Nat
    BY HandlerTable
  <2>3. CASE j.stage < Len(Handler[mk])
    <3>1. a = [StartJob EXCEPT !.stage = j.stage + 1]
      BY <1>2, <2>3 DEF Advanced
    <3>2. j.stage + 1 \in DOMAIN Handler[mk]
      BY <2>2, <2>3
    <3>3. JobOK(mk, a)
      BY <3>1, <3>2 DEF JobOK, StartJob, IsJob, Working, Publication, NoFile
    <3> QED BY <2>1, <3>1, <3>3 DEF StartJob, GoesOn
  <2>4. CASE ~(j.stage < Len(Handler[mk]))
    <3>1. a = [StartJob EXCEPT !.stage = j.stage, !.pc = "done"]
      BY <1>2, <2>4 DEF Advanced
    <3>2. j.stage = Len(Handler[mk])
      BY <2>2, <2>4
    <3>3. JobOK(mk, a)
      BY <3>1 DEF JobOK, StartJob, IsJob, Working, Publication, NoFile
    <3> QED BY <2>1, <3>1, <3>2, <3>3 DEF StartJob, GoesOn
  <2> QED BY <2>3, <2>4
<1> QED BY <1>1, <1>2

-----------------------------------------------------------------------------
(* What each step of a job does to it.                                     *)

\* The step concerns this job alone.
Alone(mk) ==
    /\ DOMAIN job' = DOMAIN job /\ \A q \in DOMAIN job \ {mk} : job'[q] = job[q]
    /\ Unchanged

\* Only the partition that the job is at changes.
Touches(mk) ==
    /\ DOMAIN lake' = DOMAIN lake /\ \A s \in DOMAIN lake : DOMAIN lake'[s] = DOMAIN lake[s]
    /\ \A s \in DOMAIN lake : \A k \in DOMAIN lake[s] :
            s # File(Target(mk)) \/ k # job[mk].month => lake'[s][k] = lake[s][k]

\* Put changes one file of one month.
LEMMA PutTouches ==
    ASSUME FilesOK, NEW mk, NEW content, Put(mk, content), NEW m \in Months, m = job[mk].month,
           File(Target(mk)) \in Files
    PROVE  Touches(mk) /\ lake'[File(Target(mk))][m] = content
BY DEF FilesOK, Put, Touches

\* A working job is at a month.
LEMMA WorkingJob ==
    ASSUME JobsOK, NEW mk \in DOMAIN job, job[mk].pc \in Working
    PROVE  job[mk].month \in Months /\ job[mk].month \in Nat \ {0}
BY Positive DEF JobsOK, JobOK

\* Discover lists the months that have a directory of an input, and starts with the first.
ListedMonths(t) == {m \in Months : \E s \in Inputs(t) : Listed(s, m)}
LEMMA DiscoverStep ==
    ASSUME FilesOK, JobsOK, RunOK, NEW mk, Discover(mk)
    PROVE  LET t == Target(mk)
               found == ListedMonths(t)
           IN /\ mk \in DOMAIN job /\ job[mk].pc = "discover"
              /\ Alone(mk) /\ UNCHANGED <<lake, manifest, calm, faults>>
              /\ JobOK(mk, job'[mk]) /\ job'[mk].pc \in {"plan", "discover", "done"} /\ job'[mk].backup = NoFile
              /\ job'[mk].pc = "plan" =>
                                  /\ job'[mk].stage = job[mk].stage /\ job'[mk].months = found
                                  /\ DOMAIN job'[mk].cache = {}
                                  /\ job'[mk].month \in found /\ \A k \in found : ~(k < job'[mk].month)
              /\ job'[mk].pc # "plan" => found = {}
              /\ job'[mk].pc = "discover" => job'[mk].stage = job[mk].stage + 1
              /\ job'[mk].pc = "done" => job'[mk].stage = job[mk].stage /\ job[mk].stage = Len(Handler[mk])
<1> PICK j : j = job[mk]
  OBVIOUS
<1> PICK a : a = job'[mk]
  OBVIOUS
<1> DEFINE t == Target(mk)
           found == ListedMonths(t)
<1>1. mk \in DOMAIN job /\ j.pc = "discover" /\ UNCHANGED <<lake, manifest, calm, faults>>
  BY DEF Discover, At, Quietly
<1>2. mk \in DOMAIN Handler /\ IsJob(j) /\ j.stage \in DOMAIN Handler[mk]
  BY <1>1, JobFacts DEF JobsOK, JobOK
<1>4. PICK source : job' = [job EXCEPT ![mk] =
            Advanced([j EXCEPT !.months = found, !.month = 0, !.cache = [k \in {} |-> None],
                !.source = source], mk)]
  BY DEF Discover, ListedMonths
<1> DEFINE start == [j EXCEPT !.months = found, !.month = 0, !.cache = [k \in {} |-> None], !.source = source]
<1>5. found \subseteq Months
  BY DEF ListedMonths
<1>6. Alone(mk) /\ a = Advanced(start, mk)
  BY <1>1, <1>4 DEF Alone, Discover, Quietly
<1>7. /\ IsJob(start) /\ start.stage = j.stage /\ start.months = found /\ start.month = 0
      /\ start.cache = [k \in {} |-> None]
  <2> SUFFICES ASSUME NEW x, x = start
               PROVE  /\ IsJob(x) /\ x.stage = j.stage /\ x.months = found /\ x.month = 0
                      /\ x.cache = [k \in {} |-> None]
    OBVIOUS
  <2> HIDE DEF found
  <2> QED BY <1>2 DEF IsJob
<1>8. GoesOn(mk, start, a)
  <2> HIDE DEF start, found
  <2> QED BY <1>2, <1>5, <1>6, <1>7, AdvancedJob
<1>9. \A k \in found : k \in Nat \ {0}
  BY <1>5, Positive
<1> HIDE DEF start, found
<1>10. \A k \in found : ~(k <= 0)
  BY <1>9
<1>11. a.pc = "plan" => \A k \in found : ~(k < a.month)
  BY <1>7, <1>8, <1>10 DEF GoesOn
<1>12. a.pc # "plan" => found = {}
  BY <1>7, <1>8, <1>10 DEF GoesOn
<1>13. DOMAIN start.cache = {}
  BY <1>7
<1> QED BY <1>1, <1>6, <1>7, <1>8, <1>11, <1>12, <1>13 DEF GoesOn, found

\* So a month whose inputs hold something is listed.
LEMMA HeldIsListed ==
    ASSUME Directories, NEW t \in Targets, NEW m \in Months, InputsNow(t, m) # Nothing(t)
    PROVE  m \in ListedMonths(t)
<1>1. PICK s \in Inputs(t) : lake[s][m] # NoFile
  BY DEF InputsNow, Nothing
<1>2. s \in Files
  BY <1>1, InputFiles
<1> QED BY <1>1, <1>2 DEF Directories, ListedMonths

\* Plan reuses the partition, or keeps the fingerprint of what its inputs hold.
LEMMA PlanStep ==
    ASSUME FilesOK, JobsOK, RunOK, NEW mk, Plan(mk)
    PROVE  LET t == Target(mk)
           IN /\ mk \in DOMAIN job /\ job[mk].pc = "plan"
              /\ Alone(mk) /\ UNCHANGED <<lake, manifest, calm, faults>>
              /\ JobOK(mk, job'[mk])
              /\ \/ t \notin Uncached /\ Current(t, job[mk].month, Fingerprint(t, job[mk].month))
                    /\ GoesOn(mk, job[mk], job'[mk])
                 \/ /\ job'[mk].pc = "read" /\ job'[mk].fp = Fingerprint(t, job[mk].month)
                    /\ job'[mk].stage = job[mk].stage /\ job'[mk].months = job[mk].months
                       /\ job'[mk].month = job[mk].month
                    /\ job'[mk].cache = job[mk].cache /\ job'[mk].backup = job[mk].backup
<1> PICK j : j = job[mk]
  OBVIOUS
<1> PICK a : a = job'[mk]
  OBVIOUS
<1> DEFINE t == Target(mk)
<1>1. mk \in DOMAIN job /\ j.pc = "plan" /\ UNCHANGED <<lake, manifest, calm, faults>> /\ Alone(mk)
  BY DEF Plan, At, Quietly, Alone
<1>2. mk \in DOMAIN Handler /\ JobOK(mk, j) /\ t = TargetOf(mk, j)
  BY <1>1, JobFacts DEF JobsOK
<1>3. CASE t \notin Uncached /\ Current(t, j.month, Fingerprint(t, j.month))
  <2>1. a = Advanced(j, mk)
    BY <1>1, <1>3 DEF Plan
  <2>2. GoesOn(mk, j, a)
    BY <1>1, <1>2, <2>1, AdvancedJob, Positive DEF JobOK, Working
  <2> QED BY <1>1, <1>3, <2>2 DEF GoesOn
<1>4. CASE ~(t \notin Uncached /\ Current(t, j.month, Fingerprint(t, j.month)))
  <2>1. a = [j EXCEPT !.pc = "read", !.fp = Fingerprint(t, j.month)]
    BY <1>1, <1>4 DEF Plan
  <2>2. /\ IsJob(a) /\ a.pc = "read" /\ a.fp = Fingerprint(t, j.month)
        /\ a.stage = j.stage /\ a.months = j.months /\ a.month = j.month
        /\ a.cache = j.cache /\ a.backup = j.backup
    BY <1>2, <2>1 DEF JobOK, IsJob
  <2>3. DOMAIN a.fp = CalculationKeys(t, j.month)
    BY <2>2 DEF Fingerprint
  <2>4. JobOK(mk, a)
    BY <1>1, <1>2, <2>2, <2>3 DEF JobOK, TargetOf, Working, Publication
  <2> QED BY <1>1, <2>2, <2>4
<1> QED BY <1>3, <1>4

\* Same(a, j): the job has the same target, month, listing, memory and work in hand.
SameTarget(a, j) == a.stage = j.stage /\ a.months = j.months /\ a.month = j.month
SameWork(a, j) == SameTarget(a, j) /\ a.cache = j.cache /\ a.fp = j.fp /\ a.frame = j.frame

\* The rows that Read computes for the partition.
RowsRead(mk) ==
    [k \in CalculationKeys(Target(mk), job[mk].month) |->
        IF k \in DOMAIN Cached(mk) THEN Cached(mk)[k] ELSE Nothing(Target(mk))]

\* Read keeps what was read, and computes the partition from it.
LEMMA ReadStep ==
    ASSUME FilesOK, JobsOK, RunOK, NEW mk, Read(mk)
    PROVE  LET t == Target(mk)
           IN /\ mk \in DOMAIN job /\ job[mk].pc = "read"
              /\ Alone(mk) /\ UNCHANGED <<lake, manifest, calm, faults>>
              /\ JobOK(mk, job'[mk]) /\ DOMAIN Cached(mk) = DOMAIN job[mk].cache \cup KeysToRead(mk)
              /\ job'[mk].backup = NoFile
              /\ \/ /\ Cached(mk)[job[mk].month] = Nothing(t)
                    /\ GoesOn(mk, [job[mk] EXCEPT !.cache = Cached(mk)], job'[mk])
                 \/ /\ Cached(mk)[job[mk].month] # Nothing(t)
                    /\ job'[mk].pc = "stage" /\ SameTarget(job'[mk], job[mk])
                       /\ job'[mk].fp = job[mk].fp /\ job'[mk].cache = Cached(mk)
                    /\ ComputedFrom(job'[mk].frame, RowsRead(mk))
<1> PICK j : j = job[mk]
  OBVIOUS
<1> PICK a : a = job'[mk]
  OBVIOUS
<1> DEFINE t == Target(mk)
           rows == RowsRead(mk)
<1>1. mk \in DOMAIN job /\ j.pc = "read" /\ UNCHANGED <<lake, manifest, calm, faults>> /\ Alone(mk)
  BY DEF Read, At, Quietly, Alone
<1>2. mk \in DOMAIN Handler /\ JobOK(mk, j) /\ t = TargetOf(mk, j)
  BY <1>1, JobFacts DEF JobsOK
<1>3. j.month \in Months /\ j.month \in Nat /\ DOMAIN j.cache \subseteq Months /\ j.months \subseteq Months
      /\ j.backup = NoFile
  BY <1>1, <1>2, Positive DEF JobOK, Working
<1>4. DOMAIN Cached(mk) = DOMAIN j.cache \cup KeysToRead(mk)
  BY DEF Cached
<1>5. KeysToRead(mk) \subseteq Months
  <2>1. CalculationKeys(t, j.month) \subseteq Months
    BY <1>3, KeysTable
  <2> QED BY <1>3, <2>1 DEF KeysToRead
<1>6. CASE Cached(mk)[j.month] = Nothing(t)
  <2>1. a = Advanced([j EXCEPT !.cache = Cached(mk)], mk)
    BY <1>1, <1>6 DEF Read
  <2>2. ASSUME NEW x, x = [j EXCEPT !.cache = Cached(mk)]
        PROVE  IsJob(x) /\ x.stage = j.stage /\ x.months = j.months /\ x.month = j.month
               /\ x.cache = Cached(mk)
    BY <1>2, <2>2 DEF JobOK, IsJob
  <2>3. ASSUME NEW x, x = [j EXCEPT !.cache = Cached(mk)] PROVE GoesOn(mk, x, a)
    <3>1. j.stage \in DOMAIN Handler[mk]
      BY <1>2 DEF JobOK
    <3>2. DOMAIN Cached(mk) \subseteq Months
      BY <1>3, <1>4, <1>5
    <3> QED BY <1>2, <1>3, <2>1, <2>2, <2>3, <3>1, <3>2, AdvancedJob
  <2>4. GoesOn(mk, [j EXCEPT !.cache = Cached(mk)], a)
    BY <2>3
  <2> QED BY <1>1, <1>4, <1>6, <2>4 DEF GoesOn
<1>7. CASE Cached(mk)[j.month] # Nothing(t)
  <2>1. a = [j EXCEPT !.pc = "stage", !.cache = Cached(mk), !.frame = {[rows |-> rows, source |-> j.source]}]
    BY <1>1, <1>7 DEF Read, RowsRead
  <2> HIDE DEF rows
  <2>2. /\ IsJob(a) /\ a.pc = "stage" /\ SameTarget(a, j) /\ a.fp = j.fp /\ a.cache = Cached(mk)
        /\ a.frame = {[rows |-> rows, source |-> j.source]} /\ a.backup = NoFile
    BY <1>2, <1>3, <2>1 DEF JobOK, IsJob, SameTarget
  <2>3. ComputedFrom(a.frame, rows) /\ a.frame # NoFile
    BY <2>2 DEF ComputedFrom, NoFile
  <2>4. TargetOf(mk, a) = TargetOf(mk, j)
    BY <2>2 DEF TargetOf, SameTarget
  <2>5. DOMAIN a.cache \subseteq Months
    BY <1>3, <1>4, <1>5, <2>2
  <2>6. JobOK(mk, a)
    BY <1>1, <1>2, <1>3, <2>2, <2>3, <2>4, <2>5 DEF JobOK, SameTarget, Working, Publication
  <2> QED BY <1>1, <1>4, <1>7, <2>2, <2>3, <2>6 DEF rows
<1> QED BY <1>6, <1>7

\* Stage finds whether there is a previous partition.
LEMMA StageStep ==
    ASSUME FilesOK, JobsOK, RunOK, NEW mk, Stage(mk)
    PROVE  /\ mk \in DOMAIN job /\ job[mk].pc = "stage"
           /\ Alone(mk) /\ UNCHANGED <<lake, manifest, calm, faults>>
           /\ JobOK(mk, job'[mk]) /\ SameWork(job'[mk], job[mk]) /\ job'[mk].backup = NoFile
           /\ \/ job'[mk].pc = "aside" /\ lake[File(Target(mk))][job[mk].month] # NoFile
              \/ job'[mk].pc = "land" /\ lake[File(Target(mk))][job[mk].month] = NoFile
<1> PICK j : j = job[mk]
  OBVIOUS
<1> PICK a : a = job'[mk]
  OBVIOUS
<1>1. mk \in DOMAIN job /\ j.pc = "stage" /\ UNCHANGED <<lake, manifest, calm, faults>> /\ Alone(mk)
  BY DEF Stage, At, Quietly, Alone
<1>2. JobOK(mk, j) /\ j.backup = NoFile
  BY <1>1 DEF JobsOK, JobOK
<1> DEFINE had == lake[File(Target(mk))][j.month] # NoFile
<1>3. a = [j EXCEPT !.had = had, !.pc = IF had THEN "aside" ELSE "land"]
  BY <1>1, <1>2 DEF Stage, JobOK, IsJob
<1>4. CASE had
  <2>1. a = [j EXCEPT !.had = TRUE, !.pc = "aside"]
    BY <1>3, <1>4
  <2>2. IsJob(a) /\ a.pc = "aside" /\ SameWork(a, j) /\ a.had /\ a.backup = NoFile
    BY <1>2, <2>1 DEF JobOK, IsJob, SameWork, SameTarget
  <2>3. JobOK(mk, a)
    BY <1>1, <1>2, <2>2 DEF JobOK, SameWork, SameTarget, TargetOf, Working, Publication
  <2> QED BY <1>1, <1>4, <2>2, <2>3
<1>5. CASE ~had
  <2>1. a = [j EXCEPT !.had = FALSE, !.pc = "land"]
    BY <1>3, <1>5
  <2>2. IsJob(a) /\ a.pc = "land" /\ SameWork(a, j) /\ ~a.had /\ a.backup = NoFile
    BY <1>2, <2>1 DEF JobOK, IsJob, SameWork, SameTarget
  <2>3. JobOK(mk, a)
    BY <1>1, <1>2, <2>2 DEF JobOK, SameWork, SameTarget, TargetOf, Working, Publication
  <2> QED BY <1>1, <1>5, <2>2, <2>3
<1> QED BY <1>4, <1>5

\* The job has failed.
Fails(mk, j, a) == JobOK(mk, a) /\ a.pc = "failed" /\ a.stage = j.stage /\ a.backup = NoFile

\* A step that fails a job concerns it alone.
LEMMA FailedStep ==
    ASSUME FilesOK, JobsOK, RunOK, NEW mk \in DOMAIN job, job' = [job EXCEPT ![mk] = Failed(@)], Unchanged
    PROVE  Alone(mk) /\ Fails(mk, job[mk], job'[mk])
<1> PICK j : j = job[mk]
  OBVIOUS
<1> PICK a : a = job'[mk]
  OBVIOUS
<1>1. a = Failed(j) /\ Alone(mk)
  BY DEF Alone
<1>2. mk \in DOMAIN Handler /\ j.stage \in DOMAIN Handler[mk]
  BY JobFacts DEF JobsOK, JobOK
<1> QED BY <1>1, <1>2, FailedJob DEF Fails

\* MoveAside sets the previous partition aside, or fails when it is gone.
LEMMA MoveAsideStep ==
    ASSUME FilesOK, JobsOK, RunOK, NEW mk, MoveAside(mk)
    PROVE  /\ mk \in DOMAIN job /\ job[mk].pc = "aside"
           /\ Alone(mk) /\ UNCHANGED manifest /\ JobOK(mk, job'[mk])
           /\ \/ lake[File(Target(mk))][job[mk].month] = NoFile /\ Fails(mk, job[mk], job'[mk])
                 /\ calm' = FALSE /\ UNCHANGED <<lake, faults>>
              \/ /\ lake[File(Target(mk))][job[mk].month] # NoFile /\ Touches(mk)
                    /\ lake'[File(Target(mk))][job[mk].month] = NoFile
                 /\ job'[mk].pc = "land" /\ job'[mk].backup # NoFile /\ SameWork(job'[mk], job[mk])
                    /\ UNCHANGED <<calm, faults>>
<1> PICK j : j = job[mk]
  OBVIOUS
<1> PICK a : a = job'[mk]
  OBVIOUS
<1> DEFINE file == File(Target(mk))
<1>1. mk \in DOMAIN job /\ j.pc = "aside" /\ UNCHANGED manifest
  BY DEF MoveAside, At
<1>2. JobOK(mk, j) /\ j.had
  BY <1>1 DEF JobsOK, JobOK
<1>3. CASE lake[file][j.month] = NoFile
  <2>1. job' = [job EXCEPT ![mk] = Failed(@)] /\ Unchanged /\ calm' = FALSE /\ UNCHANGED <<lake, faults>>
    BY <1>3 DEF MoveAside
  <2>2. Alone(mk) /\ Fails(mk, j, a)
    BY <1>1, <2>1, FailedStep
  <2> QED BY <1>1, <1>3, <2>1, <2>2 DEF Fails
<1>4. CASE lake[file][j.month] # NoFile
  <2>1. /\ job' = [job EXCEPT ![mk].backup = lake[file][j.month], ![mk].pc = "land"]
        /\ Put(mk, NoFile) /\ Quietly
    BY <1>4 DEF MoveAside
  <2>p. PICK previous : previous = lake[file][j.month]
    OBVIOUS
  <2>2. a = [j EXCEPT !.backup = previous, !.pc = "land"]
    BY <1>1, <1>2, <2>1, <2>p DEF JobOK, IsJob
  <2>a. previous # NoFile
    BY <1>4, <2>p
  <2>3. IsJob(a) /\ a.pc = "land" /\ SameWork(a, j) /\ a.had = j.had /\ a.backup # NoFile
    <3>1. j = [stage |-> j.stage, pc |-> j.pc, months |-> j.months, month |-> j.month,
               source |-> j.source, fp |-> j.fp, cache |-> j.cache, frame |-> j.frame,
               had |-> j.had, backup |-> j.backup]
      BY <1>2 DEF JobOK, IsJob
    <3>2. a = [stage |-> j.stage, pc |-> "land", months |-> j.months, month |-> j.month,
               source |-> j.source, fp |-> j.fp, cache |-> j.cache, frame |-> j.frame,
               had |-> j.had, backup |-> previous]
      BY <2>2, <3>1
    <3>3. IsJob(a) /\ a.pc = "land" /\ a.had = j.had /\ a.backup = previous
      BY <3>2 DEF IsJob
    <3>4. SameWork(a, j)
      BY <3>2 DEF SameWork, SameTarget
    <3> QED BY <2>a, <3>3, <3>4
  <2>4. a.had <=> a.backup # NoFile
    BY <1>2, <2>3
  <2>5. JobOK(mk, a)
    BY <1>1, <1>2, <2>3, <2>4 DEF JobOK, SameWork, SameTarget, TargetOf, Working, Publication
  <2>6. Touches(mk) /\ lake'[file][j.month] = NoFile
    BY <1>1, <2>1, PutTouches, WorkingJob, JobFacts DEF Working, Publication
  <2> QED BY <1>1, <1>4, <2>1, <2>3, <2>5, <2>6 DEF Alone, Quietly
<1> QED BY <1>3, <1>4

\* Land puts the new partition in place.
LEMMA LandStep ==
    ASSUME FilesOK, JobsOK, RunOK, NEW mk, Land(mk)
    PROVE  /\ mk \in DOMAIN job /\ job[mk].pc = "land"
           /\ Alone(mk) /\ UNCHANGED <<manifest, calm, faults>> /\ JobOK(mk, job'[mk])
           /\ Touches(mk) /\ lake'[File(Target(mk))][job[mk].month] = job[mk].frame
           /\ job'[mk].pc = "declare" /\ SameWork(job'[mk], job[mk]) /\ job'[mk].backup = job[mk].backup
<1> PICK j : j = job[mk]
  OBVIOUS
<1> PICK a : a = job'[mk]
  OBVIOUS
<1> DEFINE file == File(Target(mk))
<1>1. /\ mk \in DOMAIN job /\ j.pc = "land" /\ UNCHANGED <<manifest, calm, faults>>
      /\ Put(mk, j.frame) /\ job' = [job EXCEPT ![mk].pc = "declare"] /\ Alone(mk)
  BY DEF Land, At, Quietly, Alone
<1>2. JobOK(mk, j)
  BY <1>1 DEF JobsOK
<1>3. a = [j EXCEPT !.pc = "declare"]
  BY <1>1, <1>2 DEF JobOK, IsJob
<1>4. IsJob(a) /\ a.pc = "declare" /\ SameWork(a, j) /\ a.had = j.had /\ a.backup = j.backup
  BY <1>2, <1>3 DEF JobOK, IsJob, SameWork, SameTarget
<1>5. JobOK(mk, a)
  BY <1>1, <1>2, <1>4 DEF JobOK, SameWork, SameTarget, TargetOf, Working, Publication
<1>6. Touches(mk) /\ lake'[file][j.month] = j.frame
  BY <1>1, PutTouches, WorkingJob, JobFacts DEF Working, Publication
<1> QED BY <1>1, <1>4, <1>5, <1>6

\* Declare writes the manifest of the partition, and goes on.
LEMMA DeclareStep ==
    ASSUME FilesOK, JobsOK, RunOK, NEW mk, Declare(mk)
    PROVE  /\ mk \in DOMAIN job /\ job[mk].pc = "declare"
           /\ Alone(mk) /\ UNCHANGED <<lake, calm, faults>> /\ JobOK(mk, job'[mk])
              /\ GoesOn(mk, job[mk], job'[mk])
           /\ DOMAIN manifest' = Targets /\ \A u \in Targets : DOMAIN manifest'[u] = Months
           /\ manifest'[Target(mk)][job[mk].month] = [fp |-> job[mk].fp, out |-> job[mk].frame]
           /\ \A u \in Targets, k \in Months :
                u # Target(mk) \/ k # job[mk].month => manifest'[u][k] = manifest[u][k]
<1> PICK j : j = job[mk]
  OBVIOUS
<1> PICK a : a = job'[mk]
  OBVIOUS
<1> DEFINE t == Target(mk)
<1>1. /\ mk \in DOMAIN job /\ j.pc = "declare" /\ UNCHANGED <<lake, calm, faults>>
      /\ manifest' = [manifest EXCEPT ![t][j.month] = [fp |-> j.fp, out |-> j.frame]]
      /\ job' = [job EXCEPT ![mk] = Advanced(@, mk)] /\ Alone(mk)
  BY DEF Declare, At, Quietly, Alone
<1>2. JobOK(mk, j) /\ mk \in DOMAIN Handler /\ t \in Targets
  BY <1>1, JobFacts DEF JobsOK
<1>3. a = Advanced(j, mk)
  BY <1>1
<1>4. GoesOn(mk, j, a)
  BY <1>1, <1>2, <1>3, AdvancedJob, Positive DEF JobOK, Working, Publication
<1>5. j.month \in Months
  BY <1>1, WorkingJob DEF Working, Publication
<1> QED BY <1>1, <1>2, <1>4, <1>5 DEF GoesOn, FilesOK

\* A vanished input fails the job and changes no file.
LEMMA VanishStep ==
    ASSUME FilesOK, JobsOK, RunOK, NEW mk \in DOMAIN job, Vanish(mk)
    PROVE  Alone(mk) /\ UNCHANGED <<lake, manifest, faults>> /\ Fails(mk, job[mk], job'[mk]) /\ calm' = FALSE
BY FailedStep DEF Vanish

\* A failed publication leaves the partition that was there before it.
LEMMA FaultStep ==
    ASSUME FilesOK, JobsOK, RunOK, NEW mk \in DOMAIN job, Fault(mk)
    PROVE  /\ job[mk].pc \in Publication /\ Alone(mk) /\ UNCHANGED manifest /\ Fails(mk, job[mk], job'[mk])
           /\ calm' = FALSE /\ faults < MaxFaults /\ faults' = faults + 1
           /\ Touches(mk)
           /\ \/ job[mk].pc \in {"stage", "aside"}
                 /\ lake'[File(Target(mk))][job[mk].month] = lake[File(Target(mk))][job[mk].month]
              \/ job[mk].pc \in {"land", "declare"} /\ lake'[File(Target(mk))][job[mk].month] = job[mk].backup
<1> PICK j : j = job[mk]
  OBVIOUS
<1> PICK a : a = job'[mk]
  OBVIOUS
<1> DEFINE file == File(Target(mk))
<1>1. /\ j.pc \in Publication /\ Unchanged /\ UNCHANGED manifest
      /\ calm' = FALSE /\ faults < MaxFaults /\ faults' = faults + 1
      /\ job' = [job EXCEPT ![mk] = Failed(@)]
      /\ Put(mk, IF j.pc = "stage" THEN lake[file][j.month] ELSE Restored(mk))
  BY DEF Fault, Publishing, Publication
<1>2. Alone(mk) /\ Fails(mk, j, a)
  BY <1>1, FailedStep
<1>3. JobOK(mk, j) /\ j.month \in Months
  BY <1>1, WorkingJob DEF JobsOK, Working
<1>4. /\ Touches(mk)
      /\ lake'[file][j.month] = IF j.pc = "stage" THEN lake[file][j.month] ELSE Restored(mk)
  BY <1>1, <1>3, PutTouches, JobFacts
<1>5. CASE j.pc = "aside"
  <2>1. j.had /\ j.backup = NoFile
    BY <1>3, <1>5 DEF JobOK
  <2>2. Restored(mk) = lake[file][j.month]
    BY <2>1 DEF Restored
  <2> QED BY <1>1, <1>2, <1>4, <1>5, <2>2
<1>6. CASE j.pc \in {"land", "declare"}
  <2>1. j.had <=> j.backup # NoFile
    BY <1>3, <1>6 DEF JobOK
  <2>2. Restored(mk) = j.backup
    BY <2>1 DEF Restored
  <2> QED BY <1>1, <1>2, <1>4, <1>6, <2>2
<1>7. CASE j.pc = "stage"
  BY <1>1, <1>2, <1>4, <1>7
<1> QED BY <1>1, <1>5, <1>6, <1>7 DEF Publication

-----------------------------------------------------------------------------
(* Files, jobs and the run.                                                *)

JobAction(mk) == JobStep(mk) \/ Vanish(mk) \/ Fault(mk)

\* The list of datasets never changes, nor what is derived from it.
LEMMA SelectionKept ==
    ASSUME UNCHANGED selection
    PROVE  /\ Targets' = Targets /\ Files' = Files /\ Overtaken' = Overtaken
           /\ \A jobs : Meets(jobs)' = Meets(jobs)
           /\ \A mk : Position(mk)' = Position(mk)
<1>1. Targets' = Targets
  BY DEF Targets
<1>2. Files' = Files
  BY <1>1 DEF Files, Sources
<1>3. Overtaken' = Overtaken
  BY <1>1 DEF Overtaken
<1>4. ASSUME NEW jobs PROVE Meets(jobs)' = Meets(jobs)
  BY <1>1 DEF Meets
<1>5. ASSUME NEW mk PROVE Position(mk)' = Position(mk)
  BY DEF Position
<1> QED BY <1>1, <1>2, <1>3, <1>4, <1>5

\* A step that changes no file touches none.
LEMMA NothingTouched ==
    ASSUME NEW mk, UNCHANGED lake
    PROVE  Touches(mk)
BY DEF Touches

\* No step of a job changes anything but the job, its partition and its manifest.
LEMMA StepSummary ==
    ASSUME FilesOK, JobsOK, RunOK, NEW mk \in DOMAIN job, JobAction(mk)
    PROVE  /\ Alone(mk) /\ JobOK(mk, job'[mk]) /\ Touches(mk)
           /\ job[mk].pc \in Working \cup {"discover"}
           /\ job[mk].pc \notin Publication => UNCHANGED lake
           /\ job[mk].pc # "declare" => UNCHANGED manifest
           /\ calm' => calm
           /\ faults' \in 0..MaxFaults
<1>0. faults \in 0..MaxFaults /\ MaxFaults \in Nat
  BY Positive DEF RunOK
<1>1. CASE Discover(mk)
  BY <1>0, <1>1, DiscoverStep, NothingTouched
<1>2. CASE Plan(mk)
  BY <1>0, <1>2, PlanStep, NothingTouched DEF Working
<1>3. CASE Read(mk)
  BY <1>0, <1>3, ReadStep, NothingTouched DEF Working
<1>4. CASE Stage(mk)
  BY <1>0, <1>4, StageStep, NothingTouched DEF Working, Publication
<1>5. CASE MoveAside(mk)
  BY <1>0, <1>5, MoveAsideStep, NothingTouched DEF Working, Publication, MoveAside, Quietly
<1>6. CASE Land(mk)
  BY <1>0, <1>6, LandStep, NothingTouched DEF Working, Publication
<1>7. CASE Declare(mk)
  BY <1>0, <1>7, DeclareStep, NothingTouched DEF Working, Publication
<1>8. CASE Vanish(mk)
  <2>1. job[mk].pc \in {"plan", "read"}
    BY <1>8 DEF Vanish, At
  <2> QED BY <1>0, <1>8, <2>1, VanishStep, NothingTouched DEF Working, Publication, Fails
<1>9. CASE Fault(mk)
  <2>1. faults' \in 0..MaxFaults
    <3>1. faults < MaxFaults /\ faults' = faults + 1
      BY <1>9, FaultStep
    <3> QED BY <1>0, <3>1
  <2>2. job[mk].pc \in Publication /\ Alone(mk) /\ UNCHANGED manifest /\ Fails(mk, job[mk], job'[mk])
        /\ calm' = FALSE /\ Touches(mk)
    BY <1>9, FaultStep
  <2> QED BY <2>1, <2>2 DEF Working, Publication, Fails
<1> QED BY <1>1, <1>2, <1>3, <1>4, <1>5, <1>6, <1>7, <1>8, <1>9 DEF JobAction, JobStep

\* Jobs keep files and manifests well formed.
LEMMA FilesJob ==
    ASSUME FilesOK, JobsOK, RunOK, NEW mk \in DOMAIN job, JobAction(mk)
    PROVE  FilesOK'
<1>1. Alone(mk) /\ Touches(mk)
  BY StepSummary
<1>2. Targets' = Targets /\ Files' = Files
  BY <1>1, SelectionKept DEF Alone, Unchanged
<1>3. DOMAIN lake' = Files /\ \A s \in Files : DOMAIN lake'[s] = Months
  BY <1>1 DEF FilesOK, Touches
<1>4. ASSUME NEW s \in Files, NEW m \in Months, s[1] = "bronze"
      PROVE  lake'[s][m] = NoFile \/ \E v \in lake'[s][m] : v \in Nat /\ lake'[s][m] = {v}
  <2>1. s # File(Target(mk))
    BY <1>4 DEF File
  <2>2. lake'[s][m] = lake[s][m]
    BY <1>1, <2>1 DEF FilesOK, Touches
  <2> QED BY <1>4, <2>2 DEF FilesOK
<1>5. /\ DOMAIN manifest' = Targets /\ \A t \in Targets : DOMAIN manifest'[t] = Months
      /\ \A t \in Targets, m \in Months : manifest'[t][m] # None =>
            DOMAIN manifest'[t][m].fp = CalculationKeys(t, m)
  <2>1. CASE UNCHANGED manifest
    BY <2>1 DEF FilesOK
  <2>2. CASE job[mk].pc = "declare" /\ ~UNCHANGED manifest
    <3>1. Declare(mk)
      BY <2>2, VanishStep, FaultStep DEF JobAction, JobStep, Discover, Plan, Read, Stage, MoveAside, Land
    <3>2. /\ DOMAIN manifest' = Targets /\ \A u \in Targets : DOMAIN manifest'[u] = Months
          /\ manifest'[Target(mk)][job[mk].month] = [fp |-> job[mk].fp, out |-> job[mk].frame]
          /\ \A u \in Targets, k \in Months :
                u # Target(mk) \/ k # job[mk].month => manifest'[u][k] = manifest[u][k]
      BY <3>1, DeclareStep
    <3>3. DOMAIN job[mk].fp = CalculationKeys(Target(mk), job[mk].month)
      BY <2>2, JobFacts DEF JobsOK, JobOK, Publication
    <3>4. ASSUME NEW u \in Targets, NEW k \in Months, manifest'[u][k] # None
          PROVE  DOMAIN manifest'[u][k].fp = CalculationKeys(u, k)
      <4>1. CASE u = Target(mk) /\ k = job[mk].month
        BY <3>2, <3>3, <4>1
      <4>2. CASE ~(u = Target(mk) /\ k = job[mk].month)
        BY <3>2, <3>4, <4>2 DEF FilesOK
      <4> QED BY <4>1, <4>2
    <3> QED BY <3>2, <3>4
  <2> QED BY <2>1, <2>2, StepSummary
<1> QED BY <1>2, <1>3, <1>4, <1>5 DEF FilesOK

\* Jobs keep jobs well formed.
LEMMA JobsJob ==
    ASSUME FilesOK, JobsOK, RunOK, NEW mk \in DOMAIN job, JobAction(mk)
    PROVE  JobsOK'
BY StepSummary DEF JobsOK, Alone

\* Jobs keep the run well formed.
LEMMA RunJob ==
    ASSUME FilesOK, JobsOK, RunOK, NEW mk \in DOMAIN job, JobAction(mk)
    PROVE  RunOK'
<1>1. /\ DOMAIN job' = DOMAIN job /\ faults' \in 0..MaxFaults
      /\ UNCHANGED <<selection, orphans, scheduled, waiting, clean, raced, writes>>
  BY StepSummary DEF Alone, Unchanged
<1>2. Running /\ Running'
  BY <1>1, JobFacts DEF Running
<1>3. Targets' = Targets /\ Meets(DOMAIN job') = Meets(DOMAIN job) /\ Meets(DOMAIN job)' = Meets(DOMAIN job')
  BY <1>1, SelectionKept
<1> QED BY <1>1, <1>2, <1>3, SelectionKept DEF RunOK

\* A job publishes only in the directory that it has made.
LEMMA DirectoriesJob ==
    ASSUME FilesOK, JobsOK, RunOK, Directories, NEW mk \in DOMAIN job, JobAction(mk)
    PROVE  Directories'
<1>1. PICK j, a, t : j = job[mk] /\ a = job'[mk] /\ t = Target(mk)
  OBVIOUS
<1>2. /\ Alone(mk) /\ JobOK(mk, a) /\ Touches(mk) /\ UNCHANGED selection
      /\ j.pc \notin Publication => UNCHANGED lake
      /\ t = TargetOf(mk, j) /\ t \in Targets
  BY <1>1, StepSummary, JobFacts DEF Alone, Unchanged
<1>3. Targets' = Targets /\ Files' = Files
  BY <1>2, SelectionKept
<1>4. \/ /\ made' = made
         /\ a.pc \in Publication => j.pc \in Publication /\ SameTarget(a, j)
      \/ /\ made' = made \cup {<<t, j.month>>} /\ j.month \in Months
         /\ a.pc \in Publication => SameTarget(a, j)
  <2>1. CASE Discover(mk)
    BY <1>1, <2>1, DiscoverStep DEF Discover, Publication
  <2>2. CASE Plan(mk)
    BY <1>1, <2>2, PlanStep DEF Plan, GoesOn, Publication
  <2>3. CASE Read(mk)
    <3>1. j.month \in Months
      BY <1>1, <2>3, ReadStep, WorkingJob DEF Working
    <3>2. Cached(mk)[j.month] = Nothing(t) => made' = made
      BY <1>1, <2>3 DEF Read
    <3>3. Cached(mk)[j.month] # Nothing(t) => made' = made \cup {<<t, j.month>>}
      BY <1>1, <2>3 DEF Read
    <3>4. a.pc \in Publication => SameTarget(a, j) /\ made' = made \cup {<<t, j.month>>}
      <4>1. CASE Cached(mk)[j.month] = Nothing(t)
        BY <1>1, <2>3, <4>1, ReadStep DEF GoesOn, Publication
      <4>2. CASE Cached(mk)[j.month] # Nothing(t)
        BY <1>1, <2>3, <3>3, <4>2, ReadStep
      <4> QED BY <4>1, <4>2
    <3> QED BY <3>1, <3>2, <3>3, <3>4
  <2>4. CASE Stage(mk)
    BY <1>1, <2>4, StageStep DEF Stage, SameWork, Publication
  <2>5. CASE MoveAside(mk)
    BY <1>1, <2>5, MoveAsideStep DEF MoveAside, Fails, SameWork, Publication
  <2>6. CASE Land(mk)
    BY <1>1, <2>6, LandStep DEF Land, SameWork, Publication
  <2>7. CASE Declare(mk)
    BY <1>1, <2>7, DeclareStep DEF Declare, GoesOn, Publication
  <2>8. CASE Vanish(mk)
    BY <1>1, <2>8, VanishStep DEF Vanish, Fails, Publication
  <2>9. CASE Fault(mk)
    BY <1>1, <2>9, FaultStep DEF Fault, Fails, Publication
  <2> QED BY <2>1, <2>2, <2>3, <2>4, <2>5, <2>6, <2>7, <2>8, <2>9 DEF JobAction, JobStep
<1>5. made \subseteq made' /\ made' \subseteq Targets \X Months
  BY <1>2, <1>4 DEF Directories
<1>6. ASSUME NEW q \in DOMAIN job', job'[q].pc \in Publication
      PROVE  <<TargetOf(q, job'[q]), job'[q].month>> \in made'
  <2>1. CASE q # mk
    BY <1>2, <1>5, <1>6, <2>1 DEF Alone, Directories
  <2>2. CASE q = mk
    <3>1. TargetOf(mk, a) = t /\ a.month = j.month
      BY <1>1, <1>2, <1>4, <1>6, <2>2 DEF SameTarget, TargetOf
    <3>2. j.pc \in Publication => <<t, j.month>> \in made
      BY <1>1, <1>2 DEF Directories
    <3> QED BY <1>1, <1>4, <1>5, <1>6, <2>2, <3>1, <3>2
  <2> QED BY <2>1, <2>2
<1>7. ASSUME NEW s \in Files, NEW m \in Months, lake'[s][m] # NoFile
      PROVE  IF s[1] = "silver" THEN <<s[2], m>> \in made' ELSE lake'[s][m] # NoFile
  <2>1. CASE lake'[s][m] = lake[s][m]
    BY <1>5, <1>7, <2>1 DEF Directories, Listed
  <2>2. CASE lake'[s][m] # lake[s][m]
    <3>1. s = File(t) /\ m = j.month /\ j.pc \in Publication
      BY <1>1, <1>2, <2>2 DEF Touches, FilesOK
    <3>2. <<t, m>> \in made
      BY <1>1, <1>2, <3>1 DEF Directories
    <3> QED BY <1>5, <3>1, <3>2 DEF File
  <2> QED BY <2>1, <2>2
<1> QED BY <1>3, <1>5, <1>6, <1>7 DEF Directories, Listed, TargetOf

\* The rest of the run makes no directory, and no file of Silver.
LEMMA DirectoriesRest ==
    ASSUME FilesOK, JobsOK, RunOK, Directories,
           \/ StartRun \/ NextBatch \/ EndRun \/ Kill
           \/ \E s \in BronzeSources, m \in Months : BronzeWrite(s, m)
    PROVE  Directories'
<1>1. UNCHANGED <<selection, made>>
  BY DEF StartRun, NextBatch, EndRun, Kill, BronzeWrite
<1>2. Targets' = Targets /\ Files' = Files
  BY <1>1, SelectionKept
<1>3. \A mk \in DOMAIN job' : job'[mk].pc \in Publication =>
            <<TargetOf(mk, job'[mk]), job'[mk].month>> \in made
  <2>1. CASE NextBatch
    <3>1. job' = [mk \in Batch |-> StartJob]
      BY <2>1 DEF NextBatch
    <3>2. \A mk \in DOMAIN job' : job'[mk].pc = "discover"
      BY <3>1 DEF StartJob
    <3> QED BY <3>2 DEF Publication
  <2>2. CASE EndRun \/ Kill
    BY <2>2 DEF EndRun, Kill, Idle
  <2>3. CASE StartRun \/ \E s \in BronzeSources, m \in Months : BronzeWrite(s, m)
    <3>1. job' = job
      BY <2>3 DEF StartRun, BronzeWrite
    <3> QED BY <3>1 DEF Directories
  <2> QED BY <2>1, <2>2, <2>3
<1>4. ASSUME NEW s \in Files, NEW m \in Months, s[1] = "silver", lake'[s][m] # NoFile
      PROVE  <<s[2], m>> \in made
  <2>1. lake'[s][m] = lake[s][m]
    <3>1. CASE StartRun \/ NextBatch \/ EndRun \/ Kill
      BY <3>1 DEF StartRun, NextBatch, EndRun, Kill
    <3>2. CASE \E z \in BronzeSources, k \in Months : BronzeWrite(z, k)
      <4>1. PICK z \in BronzeSources, k \in Months : BronzeWrite(z, k)
        BY <3>2
      <4>2. z # s
        BY <1>4 DEF BronzeSources
      <4> QED BY <4>1, <4>2 DEF BronzeWrite, FilesOK
    <3> QED BY <3>1, <3>2
  <2> QED BY <1>4, <2>1 DEF Directories, Listed
<1> QED BY <1>1, <1>2, <1>3, <1>4 DEF Directories, Listed, TargetOf

\* A run starts well formed, with no job running.
LEMMA StartRunOK ==
    ASSUME FilesOK, JobsOK, RunOK, StartRun
    PROVE  FilesOK' /\ JobsOK' /\ RunOK' /\ Running' /\ job = Idle /\ job' = Idle
<1>1. /\ UNCHANGED <<selection, lake, manifest, orphans, job, raced, writes, faults>>
      /\ job = Idle /\ ~Running /\ clean' = {} /\ waiting' = scheduled'
      /\ scheduled' \subseteq ToSet(selection)
  BY DEF StartRun, RunOK
<1>2. Targets' = Targets /\ Files' = Files /\ Meets(DOMAIN job)' = Meets(DOMAIN job)
  BY <1>1, SelectionKept
<1>3. FilesOK'
  BY <1>1, <1>2 DEF FilesOK
<1>4. JobsOK'
  BY <1>1 DEF JobsOK, Idle
<1>5. Running'
  BY <1>1, SelectedJobs DEF Running, RunOK
<1>6. RunOK'
  <2>1. DOMAIN job' = {}
    BY <1>1 DEF Idle
  <2>2. /\ Running' => /\ waiting' \subseteq scheduled' /\ scheduled' \subseteq ToSet(selection')
                       /\ DOMAIN job' \subseteq scheduled' \ waiting'
        /\ ~Running' => waiting' = {} /\ job' = Idle
    BY <1>1, <1>5, <2>1
  <2>3. Idle' = Idle
    BY DEF Idle
  <2> QED BY <1>1, <1>2, <2>2, <2>3 DEF RunOK
<1> QED BY <1>1, <1>3, <1>4, <1>5, <1>6

\* A batch starts well formed, with its races recorded.
LEMMA NextBatchOK ==
    ASSUME FilesOK, JobsOK, RunOK, NextBatch
    PROVE  FilesOK' /\ JobsOK' /\ RunOK' /\ Running /\ Running'
<1>1. /\ UNCHANGED <<selection, lake, manifest, orphans, scheduled, clean, writes, faults>>
      /\ Running /\ job' = [mk \in Batch |-> StartJob] /\ raced' = raced \cup Meets(Batch)
      /\ waiting' = waiting \ Batch
  BY DEF NextBatch
<1>2. Targets' = Targets /\ Files' = Files /\ \A jobs : Meets(jobs)' = Meets(jobs)
  BY <1>1, SelectionKept
<1>3. Running'
  BY <1>1 DEF Running
<1>4. FilesOK'
  BY <1>1, <1>2 DEF FilesOK
<1>5. Batch \subseteq waiting /\ Cardinality(Batch) <= MaxProcesses
  BY <1>1, BatchFacts
<1>6. Batch \subseteq DOMAIN Handler
  BY <1>1, <1>5, SelectedJobs DEF RunOK
<1>7. JobsOK'
  BY <1>1, <1>6, StartedJob DEF JobsOK
<1>8. DOMAIN job' = Batch
  BY <1>1
<1>9. RunOK'
  <2>1. /\ waiting' \subseteq scheduled' /\ scheduled' \subseteq ToSet(selection')
        /\ DOMAIN job' \subseteq scheduled' \ waiting'
    BY <1>1, <1>5, <1>8 DEF RunOK
  <2>2. Meets(DOMAIN job)' = Meets(Batch)
    BY <1>2, <1>8 DEF Meets
  <2>3. Meets(Batch) \subseteq Targets
    BY DEF Meets
  <2> QED BY <1>1, <1>2, <1>3, <1>5, <1>8, <2>1, <2>2, <2>3 DEF RunOK
<1> QED BY <1>1, <1>3, <1>4, <1>7, <1>9

\* Between runs there is no job.
LEMMA IdleOK ==
    ASSUME FilesOK, RunOK, UNCHANGED <<selection, lake, manifest, raced, writes>>,
           scheduled' = None, waiting' = {}, job' = Idle,
           clean' \subseteq Targets, orphans' \subseteq Targets \X Months, faults' \in 0..MaxFaults
    PROVE  FilesOK' /\ JobsOK' /\ RunOK' /\ ~Running'
<1>1. Targets' = Targets /\ Files' = Files
  BY SelectionKept
<1>2. FilesOK'
  BY <1>1 DEF FilesOK
<1>3. DOMAIN job' = {} /\ JobsOK' /\ Idle' = Idle
  BY DEF JobsOK, Idle
<1>4. ~Running'
  BY DEF Running
<1>5. Cardinality(DOMAIN job') <= MaxProcesses
  BY <1>3, FS_EmptySet, Positive
<1>6. Meets(DOMAIN job)' = {}
  BY <1>3 DEF Meets
<1> QED BY <1>1, <1>2, <1>3, <1>4, <1>5, <1>6 DEF RunOK

\* A run ends well formed.
LEMMA EndRunOK ==
    ASSUME FilesOK, JobsOK, RunOK, EndRun
    PROVE  FilesOK' /\ JobsOK' /\ RunOK' /\ ~Running'
<1>1. clean' \subseteq Targets
  <2>1. Built(scheduled) \subseteq Targets
    BY DEF EndRun, RunOK, Built, Targets
  <2> QED BY <2>1 DEF EndRun
<1> QED BY <1>1, IdleOK DEF EndRun, RunOK

\* A killed run leaves everything well formed.
LEMMA KillOK ==
    ASSUME FilesOK, JobsOK, RunOK, Kill
    PROVE  FilesOK' /\ JobsOK' /\ RunOK' /\ ~Running'
<1>1. orphans' \subseteq Targets \X Months
  <2>1. ASSUME NEW mk \in DOMAIN job, job[mk].backup # NoFile
        PROVE  <<Target(mk), job[mk].month>> \in Targets \X Months
    <3>1. job[mk].pc \in Working
      BY <2>1 DEF JobsOK, JobOK, Working, Publication
    <3> QED BY <3>1, WorkingJob, JobFacts
  <2> QED BY <2>1 DEF Kill, RunOK
<1>2. faults' \in 0..MaxFaults
  <2>1. faults \in 0..MaxFaults /\ MaxFaults \in Nat /\ faults < MaxFaults /\ faults' = faults + 1
    BY Positive DEF Kill, RunOK
  <2> QED BY <2>1
<1> QED BY <1>1, <1>2, IdleOK DEF Kill, RunOK

\* A new version of a Bronze partition is newer than the one it replaces.
LEMMA BronzeStep ==
    ASSUME FilesOK, NEW s, NEW m \in Months, BronzeWrite(s, m)
    PROVE  /\ s \in Files /\ s[1] = "bronze"
           /\ DOMAIN lake' = DOMAIN lake /\ \A u \in DOMAIN lake : DOMAIN lake'[u] = DOMAIN lake[u]
           /\ \A u \in Files, k \in Months : u # s \/ k # m => lake'[u][k] = lake[u][k]
           /\ \E v \in lake'[s][m] : v \in Nat /\ lake'[s][m] = {v}
           /\ Older(lake[s][m], lake'[s][m])
<1>1. s \in Files /\ s[1] = "bronze"
  BY DEF BronzeWrite, BronzeSources, Files
<1>2. lake' = [lake EXCEPT ![s][m] = IF @ = NoFile THEN {1} ELSE {version + 1 : version \in @}]
  BY DEF BronzeWrite
<1>3. /\ DOMAIN lake' = DOMAIN lake /\ \A u \in DOMAIN lake : DOMAIN lake'[u] = DOMAIN lake[u]
      /\ \A u \in Files, k \in Months : u # s \/ k # m => lake'[u][k] = lake[u][k]
      /\ lake'[s][m] = IF lake[s][m] = NoFile THEN {1} ELSE {version + 1 : version \in lake[s][m]}
  BY <1>1, <1>2 DEF FilesOK
<1>4. CASE lake[s][m] = NoFile
  <2>1. lake'[s][m] = {1}
    BY <1>3, <1>4
  <2> QED BY <1>1, <1>3, <1>4, <2>1 DEF Older
<1>5. CASE lake[s][m] # NoFile
  <2>1. PICK v \in lake[s][m] : v \in Nat /\ lake[s][m] = {v}
    BY <1>1, <1>5 DEF FilesOK
  <2>2. lake'[s][m] = {v + 1}
    BY <1>3, <1>5, <2>1
  <2>3. v + 1 \in Nat /\ v < v + 1
    BY <2>1
  <2> QED BY <1>1, <1>3, <2>1, <2>2, <2>3 DEF Older
<1> QED BY <1>4, <1>5

\* Bronze writers keep everything well formed.
LEMMA BronzeOK ==
    ASSUME FilesOK, JobsOK, RunOK, NEW s, NEW m \in Months, BronzeWrite(s, m)
    PROVE  FilesOK' /\ JobsOK' /\ RunOK'
<1>1. /\ UNCHANGED <<selection, manifest, orphans, scheduled, waiting, job, raced, faults>>
      /\ writes < MaxWrites /\ writes' = writes + 1 /\ clean' = {}
  BY DEF BronzeWrite
<1>2. Targets' = Targets /\ Files' = Files /\ Meets(DOMAIN job)' = Meets(DOMAIN job)
  BY <1>1, SelectionKept
<1>3. writes' \in 0..MaxWrites
  <2>1. writes \in 0..MaxWrites /\ MaxWrites \in Nat
    BY Positive DEF RunOK
  <2> QED BY <1>1, <2>1
<1>4. JobsOK'
  BY <1>1 DEF JobsOK
<1>5. RunOK'
  <2>1. Running' = Running /\ Idle' = Idle
    BY <1>1 DEF Running, Idle
  <2> QED BY <1>1, <1>2, <1>3, <2>1 DEF RunOK
<1>6. FilesOK'
  <2>1. ASSUME NEW u \in Files, NEW k \in Months, u[1] = "bronze"
        PROVE  lake'[u][k] = NoFile \/ \E v \in lake'[u][k] : v \in Nat /\ lake'[u][k] = {v}
    <3>1. CASE u = s /\ k = m
      BY <3>1, BronzeStep
    <3>2. CASE u # s \/ k # m
      <4>1. lake'[u][k] = lake[u][k]
        BY <3>2, BronzeStep
      <4> QED BY <2>1, <4>1 DEF FilesOK
    <3> QED BY <3>1, <3>2
  <2>2. DOMAIN lake' = Files /\ \A u \in Files : DOMAIN lake'[u] = Months
    BY BronzeStep DEF FilesOK
  <2> QED BY <1>1, <1>2, <2>1, <2>2 DEF FilesOK
<1> QED BY <1>4, <1>5, <1>6

-----------------------------------------------------------------------------
(* Published partitions stay.                                              *)

\* What two running jobs do to each other is recorded.
LEMMA Apart ==
    ASSUME FilesOK, JobsOK, RunOK, NEW p \in DOMAIN job, NEW q \in DOMAIN job, p # q,
           NEW t \in ToSet(Handler[p]), t \notin raced
    PROVE  t \notin ToSet(Handler[q]) /\ \A u \in ToSet(Handler[q]) : File(u) \notin Inputs(t)
<1>1. t \in Targets
  <2>1. p \in ToSet(selection)
    BY JobFacts
  <2> QED BY <2>1 DEF Targets, Built
<1>2. t \notin Meets(DOMAIN job)
  BY DEF RunOK
<1> QED BY <1>1, <1>2 DEF Meets

\* Two running jobs are at different targets unless the race is recorded.
LEMMA OwnTarget ==
    ASSUME FilesOK, JobsOK, RunOK, NEW p \in DOMAIN job, NEW q \in DOMAIN job, p # q,
           TargetOf(p, job[p]) \notin raced
    PROVE  TargetOf(q, job[q]) # TargetOf(p, job[p])
BY JobFacts, Apart

\* Elsewhere nothing changes.
LEMMA Elsewhere ==
    ASSUME FilesOK, JobsOK, RunOK, NEW mk \in DOMAIN job, JobAction(mk),
           NEW t \in Targets, NEW m \in Months, t # Target(mk) \/ m # job[mk].month
    PROVE  manifest'[t][m] = manifest[t][m] /\ lake'[File(t)][m] = lake[File(t)][m]
<1>1. lake'[File(t)][m] = lake[File(t)][m]
  <2>1. File(t) \in Files /\ (t # Target(mk) => File(t) # File(Target(mk)))
    BY InputFiles DEF File
  <2> QED BY <2>1, StepSummary DEF Touches, FilesOK
<1>2. manifest'[t][m] = manifest[t][m]
  <2>1. CASE Declare(mk)
    <3>1. \A u \in Targets, k \in Months :
                u # Target(mk) \/ k # job[mk].month => manifest'[u][k] = manifest[u][k]
      BY <2>1, DeclareStep
    <3> QED BY <3>1
  <2>2. CASE ~Declare(mk)
    <3>1. UNCHANGED manifest
      BY <2>2, VanishStep, FaultStep DEF JobAction, JobStep, Discover, Plan, Read, Stage, MoveAside, Land
    <3> QED BY <3>1
  <2> QED BY <2>1, <2>2
<1> QED BY <1>1, <1>2

\* At the partition of the job.
CoversHere(mk, t, m) ==
    /\ manifest'[t][m] # None =>
            \/ lake'[File(t)][m] # NoFile \/ <<t, m>> \in orphans
            \/ job'[mk].pc = "land" /\ job'[mk].backup # NoFile /\ TargetOf(mk, job'[mk]) = t
               /\ job'[mk].month = m
    /\ job'[mk].pc \in {"land", "declare"} /\ job'[mk].backup = NoFile =>
                manifest'[t][m] = None \/ <<t, m>> \in orphans
    /\ job'[mk].pc = "declare" => lake'[File(t)][m] = job'[mk].frame
    /\ job'[mk].pc \in {"land", "declare"} => TargetOf(mk, job'[mk]) = t /\ job'[mk].month = m

\* Every step of a publication leaves the partition there, set aside or orphaned.
LEMMA HereCovered ==
    ASSUME FilesOK, JobsOK, RunOK, Covered, JobsCover, NEW mk \in DOMAIN job, JobAction(mk),
           job[mk].pc \in Working, NEW t, t = Target(mk), NEW m, m = job[mk].month, t \notin raced
    PROVE  CoversHere(mk, t, m)
<1> DEFINE j == job[mk]
           a == job'[mk]
<1>0. t \in Targets /\ m \in Months /\ t = TargetOf(mk, j) /\ JobOK(mk, j)
  BY JobFacts, WorkingJob DEF JobsOK
<1>a. /\ manifest[t][m] # None => lake[File(t)][m] # NoFile \/ <<t, m>> \in orphans \/ SetAside(t, m)
      /\ SetAside(t, m) => j.pc = "land" /\ j.backup # NoFile
  BY <1>0, OwnTarget DEF Covered, SetAside
<1>b. /\ j.pc \in {"land", "declare"} /\ j.backup = NoFile => manifest[t][m] = None \/ <<t, m>> \in orphans
      /\ j.pc = "declare" => lake[File(t)][m] = j.frame
  BY <1>0 DEF JobsCover, JobCovers
<1>1. CASE Discover(mk)
  BY <1>1 DEF Discover, At, Working, Publication
<1>2. CASE Plan(mk)
  <2>1. UNCHANGED <<lake, manifest>> /\ j.pc = "plan" /\ a.pc \notin {"land", "declare"}
    BY <1>2, PlanStep DEF GoesOn
  <2> QED BY <2>1, <1>a DEF CoversHere
<1>3. CASE Read(mk)
  <2>1. UNCHANGED <<lake, manifest>> /\ j.pc = "read" /\ a.pc \notin {"land", "declare"}
    BY <1>3, ReadStep DEF GoesOn
  <2> QED BY <2>1, <1>a DEF CoversHere
<1>4. CASE Stage(mk)
  <2>1. /\ UNCHANGED <<lake, manifest>> /\ j.pc = "stage" /\ a.backup = NoFile /\ SameWork(a, j)
        /\ a.pc = "aside" \/ (a.pc = "land" /\ lake[File(t)][m] = NoFile)
    BY <1>4, StageStep
  <2>2. TargetOf(mk, a) = t /\ a.month = m
    BY <1>0, <2>1 DEF TargetOf, SameWork, SameTarget
  <2> QED BY <2>1, <2>2, <1>a DEF CoversHere
<1>5. CASE MoveAside(mk)
  <2>0. j.pc = "aside" /\ UNCHANGED manifest
    BY <1>5, MoveAsideStep
  <2>1. CASE lake[File(t)][m] = NoFile
    <3>1. UNCHANGED lake /\ a.pc = "failed"
      BY <1>5, <2>1, MoveAsideStep DEF Fails
    <3> QED BY <2>0, <3>1, <1>a DEF CoversHere
  <2>2. CASE lake[File(t)][m] # NoFile
    <3>1. a.pc = "land" /\ a.backup # NoFile /\ SameWork(a, j)
      BY <1>5, <2>2, MoveAsideStep
    <3>2. TargetOf(mk, a) = t /\ a.month = m
      BY <1>0, <3>1 DEF TargetOf, SameWork, SameTarget
    <3> QED BY <3>1, <3>2 DEF CoversHere
  <2> QED BY <2>1, <2>2
<1>6. CASE Land(mk)
  <2>1. /\ j.pc = "land" /\ UNCHANGED manifest /\ lake'[File(t)][m] = j.frame
        /\ a.pc = "declare" /\ SameWork(a, j) /\ a.backup = j.backup
    BY <1>6, LandStep
  <2>2. TargetOf(mk, a) = t /\ a.month = m /\ a.frame = j.frame
    BY <1>0, <2>1 DEF TargetOf, SameWork, SameTarget
  <2>3. j.frame # NoFile
    BY <1>0, <2>1 DEF JobOK, Publication
  <2> QED BY <2>1, <2>2, <2>3, <1>b DEF CoversHere
<1>7. CASE Declare(mk)
  <2>1. j.pc = "declare" /\ UNCHANGED lake /\ a.pc \notin {"land", "declare"}
    BY <1>7, DeclareStep DEF GoesOn
  <2>2. j.frame # NoFile
    BY <1>0, <2>1 DEF JobOK, Publication
  <2> QED BY <2>1, <2>2, <1>b DEF CoversHere
<1>8. CASE Vanish(mk)
  <2>1. UNCHANGED <<lake, manifest>> /\ a.pc = "failed" /\ j.pc # "land"
    BY <1>8, VanishStep DEF Fails, Vanish, At
  <2> QED BY <2>1, <1>a DEF CoversHere
<1>9. CASE Fault(mk)
  <2>1. /\ UNCHANGED manifest /\ a.pc = "failed"
        /\ \/ j.pc \in {"stage", "aside"} /\ lake'[File(t)][m] = lake[File(t)][m]
           \/ j.pc \in {"land", "declare"} /\ lake'[File(t)][m] = j.backup
    BY <1>9, FaultStep DEF Fails
  <2> QED BY <2>1, <1>a, <1>b DEF CoversHere
<1> QED BY <1>1, <1>2, <1>3, <1>4, <1>5, <1>6, <1>7, <1>8, <1>9 DEF JobAction, JobStep

\* Jobs keep declared partitions covered.
LEMMA CoveredJob ==
    ASSUME FilesOK, JobsOK, RunOK, Covered, JobsCover, NEW mk \in DOMAIN job, JobAction(mk)
    PROVE  Covered' /\ JobsCover'
<1>0. /\ Alone(mk) /\ UNCHANGED <<selection, raced, orphans>>
      /\ job[mk].pc \in Working \cup {"discover"}
  BY StepSummary DEF Alone, Unchanged
<1>1. Targets' = Targets /\ Target(mk) = TargetOf(mk, job[mk]) /\ Target(mk) \in Targets
  BY <1>0, SelectionKept, JobFacts
<1>2. ASSUME job[mk].pc = "discover"
      PROVE  job'[mk].pc \notin {"land", "declare"} /\ UNCHANGED <<lake, manifest>>
  <2>1. Discover(mk)
    BY <1>2, StepSummary, FaultStep DEF JobAction, JobStep, Plan, Read, Stage, MoveAside, Land, Declare,
        Vanish, At, Publication
  <2> QED BY <2>1, DiscoverStep
<1>3. ASSUME NEW t \in Targets \ raced, NEW m \in Months, manifest'[t][m] # None
      PROVE  lake'[File(t)][m] # NoFile \/ <<t, m>> \in orphans \/ SetAside(t, m)'
  <2>1. CASE t = Target(mk) /\ m = job[mk].month /\ job[mk].pc \in Working
    <3>1. CoversHere(mk, t, m)
      BY <2>1, HereCovered
    <3> QED BY <1>0, <1>3, <3>1 DEF CoversHere, SetAside, Alone
  <2>2. CASE ~(t = Target(mk) /\ m = job[mk].month /\ job[mk].pc \in Working)
    <3>1. manifest'[t][m] = manifest[t][m] /\ lake'[File(t)][m] = lake[File(t)][m]
      BY <1>0, <1>2, <2>2, Elsewhere
    <3>2. SetAside(t, m) => SetAside(t, m)'
      <4> SUFFICES ASSUME NEW q \in DOMAIN job, job[q].pc = "land", job[q].backup # NoFile,
                          TargetOf(q, job[q]) = t, job[q].month = m
                   PROVE  SetAside(t, m)'
        BY DEF SetAside
      <4>1. q # mk
        BY <1>1, <2>2 DEF Working, Publication
      <4>2. q \in DOMAIN job' /\ job'[q] = job[q]
        BY <1>0, <4>1 DEF Alone
      <4> QED BY <4>2 DEF SetAside
    <3> QED BY <1>3, <3>1, <3>2 DEF Covered
  <2> QED BY <2>1, <2>2
<1>4. ASSUME NEW q \in DOMAIN job' PROVE JobCovers(q, job[q])'
  <2>0. q \in DOMAIN job
    BY <1>0 DEF Alone
  <2>1. CASE q # mk
    <3>1. job'[q] = job[q]
      BY <1>0, <2>0, <2>1 DEF Alone
    <3> DEFINE t == TargetOf(q, job[q])
    <3> SUFFICES ASSUME t \notin raced, job[q].pc \in {"land", "declare"}
                 PROVE  /\ job[q].backup = NoFile =>
                                manifest'[t][job[q].month] = None \/ <<t, job[q].month>> \in orphans
                        /\ job[q].pc = "declare" => lake'[File(t)][job[q].month] = job[q].frame
      BY <1>0, <3>1 DEF JobCovers, TargetOf
    <3>2. t # Target(mk)
      BY <1>1, <2>0, <2>1, OwnTarget
    <3>3. t \in Targets /\ job[q].month \in Months
      BY <2>0, JobFacts, WorkingJob DEF Working, Publication
    <3>4. /\ manifest'[t][job[q].month] = manifest[t][job[q].month]
          /\ lake'[File(t)][job[q].month] = lake[File(t)][job[q].month]
      BY <3>2, <3>3, Elsewhere
    <3> QED BY <2>0, <3>4 DEF JobsCover, JobCovers
  <2>2. CASE q = mk /\ job[mk].pc \in Working
    <3> SUFFICES ASSUME TargetOf(mk, job'[mk]) \notin raced, job'[mk].pc \in {"land", "declare"}
                 PROVE  JobCovers(mk, job[mk])'
      BY <1>0, <2>2 DEF JobCovers, TargetOf
    <3>1. job'[mk].stage = job[mk].stage
      <4>1. ~(Discover(mk) \/ Plan(mk) \/ Read(mk) \/ Declare(mk) \/ Vanish(mk) \/ Fault(mk))
        <5>1. ~Discover(mk) /\ ~Plan(mk)
          BY DiscoverStep, PlanStep DEF GoesOn
        <5>2. ~Read(mk) /\ ~Declare(mk)
          BY ReadStep, DeclareStep DEF GoesOn
        <5>3. ~Vanish(mk) /\ ~Fault(mk)
          BY VanishStep, FaultStep DEF Fails
        <5> QED BY <5>1, <5>2, <5>3
      <4>2. Stage(mk) \/ MoveAside(mk) \/ Land(mk)
        BY <4>1 DEF JobAction, JobStep
      <4>3. CASE Stage(mk)
        BY <4>3, StageStep DEF SameWork, SameTarget
      <4>4. CASE MoveAside(mk)
        BY <4>4, MoveAsideStep DEF Fails, SameWork, SameTarget
      <4>5. CASE Land(mk)
        BY <4>5, LandStep DEF SameWork, SameTarget
      <4> QED BY <4>2, <4>3, <4>4, <4>5
    <3>2. CoversHere(mk, Target(mk), job[mk].month)
      BY <1>1, <2>2, <3>1, HereCovered DEF TargetOf
    <3> QED BY <1>0, <3>2 DEF CoversHere, JobCovers, TargetOf
  <2>3. CASE q = mk /\ job[mk].pc = "discover"
    BY <1>2, <2>3 DEF JobCovers
  <2> QED BY <1>0, <2>1, <2>2, <2>3
<1> QED BY <1>0, <1>1, <1>3, <1>4 DEF Covered, JobsCover

\* No job has anything set aside when a batch starts or a run ends.
LEMMA NothingSetAside ==
    ASSUME \A mk \in DOMAIN job : job[mk].pc \in {"done", "failed"}, NEW t, NEW m
    PROVE  ~SetAside(t, m)
BY DEF SetAside

\* So do the start and the end of runs and batches.
LEMMA CoveredRun ==
    ASSUME FilesOK, JobsOK, RunOK, Covered, JobsCover, StartRun \/ NextBatch \/ EndRun
    PROVE  Covered' /\ JobsCover'
<1>1. UNCHANGED <<selection, lake, manifest, orphans>> /\ raced \subseteq raced'
  BY DEF StartRun, NextBatch, EndRun
<1>2. Targets' = Targets
  BY <1>1, SelectionKept
<1>3. \A mk \in DOMAIN job : job[mk].pc \in {"done", "failed"}
  BY StartRunOK DEF NextBatch, EndRun, Settled, Idle
<1>4. Covered'
  <2>1. ASSUME NEW t \in Targets \ raced, NEW m \in Months, manifest[t][m] # None
        PROVE  lake[File(t)][m] # NoFile \/ <<t, m>> \in orphans
    BY <1>3, <2>1, NothingSetAside DEF Covered
  <2> QED BY <1>1, <1>2, <2>1 DEF Covered
<1>5. \A mk \in DOMAIN job' : job'[mk].pc \notin {"land", "declare"}
  BY <1>3, StartRunOK DEF NextBatch, EndRun, Idle, StartJob
<1> QED BY <1>4, <1>5 DEF JobsCover, JobCovers

\* A kill orphans what was set aside.
LEMMA CoveredKill ==
    ASSUME FilesOK, JobsOK, RunOK, Covered, JobsCover, Kill
    PROVE  Covered' /\ JobsCover'
<1>1. /\ UNCHANGED <<selection, lake, manifest, raced>> /\ job' = Idle /\ orphans \subseteq orphans'
      /\ \A mk \in DOMAIN job : job[mk].backup # NoFile => <<Target(mk), job[mk].month>> \in orphans'
  BY DEF Kill
<1>2. Targets' = Targets
  BY <1>1, SelectionKept
<1>3. ASSUME NEW t \in Targets \ raced, NEW m \in Months, manifest[t][m] # None
      PROVE  lake[File(t)][m] # NoFile \/ <<t, m>> \in orphans'
  <2>1. SetAside(t, m) => <<t, m>> \in orphans'
    BY <1>1, JobFacts DEF SetAside
  <2> QED BY <1>1, <1>3, <2>1 DEF Covered
<1> QED BY <1>1, <1>2, <1>3 DEF Covered, JobsCover, Idle

\* Bronze writers change no Silver partition.
LEMMA CoveredBronze ==
    ASSUME FilesOK, JobsOK, RunOK, Covered, JobsCover, NEW s, NEW m \in Months, BronzeWrite(s, m)
    PROVE  Covered' /\ JobsCover'
<1>1. UNCHANGED <<selection, manifest, orphans, job, raced>>
  BY DEF BronzeWrite
<1>2. Targets' = Targets
  BY <1>1, SelectionKept
<1>3. \A t \in Targets, k \in Months : lake'[File(t)][k] = lake[File(t)][k]
  <2> SUFFICES ASSUME NEW t \in Targets, NEW k \in Months PROVE lake'[File(t)][k] = lake[File(t)][k]
    OBVIOUS
  <2>1. File(t) \in Files /\ File(t) # s
    BY InputFiles, BronzeStep DEF File
  <2> QED BY <2>1, BronzeStep
<1>4. Covered'
  <2>1. \A t, k : SetAside(t, k)' = SetAside(t, k)
    BY <1>1 DEF SetAside, TargetOf
  <2> QED BY <1>1, <1>2, <1>3, <2>1 DEF Covered
<1>5. ASSUME NEW mk \in DOMAIN job PROVE JobCovers(mk, job[mk])'
  <2>1. job[mk].pc \in {"land", "declare"} =>
            LET t == TargetOf(mk, job[mk])
            IN lake'[File(t)][job[mk].month] = lake[File(t)][job[mk].month]
    BY <1>3, JobFacts, WorkingJob DEF Working, Publication
  <2>2. JobCovers(mk, job[mk])
    BY DEF JobsCover
  <2> QED BY <1>1, <2>1, <2>2 DEF JobCovers, TargetOf
<1> QED BY <1>1, <1>4, <1>5 DEF JobsCover

-----------------------------------------------------------------------------
(* What is reused is fresh.                                                *)

\* Newer versions of Bronze only push what was read of it further back.
LEMMA OlderThan ==
    ASSUME NEW a, NEW b, NEW c, Older(a, b), Older(b, c), c # NoFile => \E v \in c : v \in Nat /\ c = {v},
           b # NoFile => \E v \in b : v \in Nat /\ b = {v}
    PROVE  Older(a, c)
<1>1. PICK j \in b : a = NoFile \/ \E i \in a : i \in Nat /\ i < j
  BY DEF Older
<1>2. PICK k \in c : \E i \in b : i \in Nat /\ i < k
  BY <1>1 DEF Older, NoFile
<1>3. c = {k} /\ k \in Nat /\ b = {j} /\ j \in Nat /\ j < k
  BY <1>1, <1>2 DEF NoFile
<1>4. CASE a = NoFile
  BY <1>3, <1>4 DEF Older
<1>5. CASE \E i \in a : i \in Nat /\ i < j
  BY <1>3, <1>5 DEF Older
<1> QED BY <1>1, <1>4, <1>5

\* A version is not older than itself.
LEMMA NeverOlder ==
    ASSUME NEW a, a # NoFile => \E v \in a : v \in Nat /\ a = {v}
    PROVE  ~Older(a, a)
BY DEF Older, NoFile

\* What holds now is not outdated.
LEMMA NowIsCurrent ==
    ASSUME FilesOK, NEW t \in Targets, NEW m \in Months, NEW fp, fp = InputsOf(t, m)
    PROVE  ~Outdated(fp, t, m)
<1> SUFFICES ASSUME NEW k \in CalculationKeys(t, m), NEW s \in Inputs(t), s[1] = "bronze",
                    Older(fp[k][s], lake[s][k])
             PROVE  FALSE
  BY DEF Outdated
<1>1. fp[k][s] = lake[s][k]
  BY DEF InputsOf, InputsNow
<1>2. s \in Files /\ k \in Months
  BY InputFiles, KeysTable
<1>3. lake[s][k] # NoFile => \E v \in lake[s][k] : v \in Nat /\ lake[s][k] = {v}
  BY <1>2 DEF FilesOK
<1> QED BY <1>1, <1>3, NeverOlder

\* What was outdated stays so, and a fingerprint of now stays true or becomes outdated.
LEMMA BronzeOutdates ==
    ASSUME FilesOK, JobsOK, RunOK, NEW s, NEW n \in Months, BronzeWrite(s, n),
           NEW t \in Targets, NEW m \in Months, NEW fp
    PROVE  /\ Outdated(fp, t, m) => Outdated(fp, t, m)'
           /\ fp = InputsOf(t, m) => InputsOf(t, m)' = fp \/ Outdated(fp, t, m)'
<1>0. FilesOK'
  BY BronzeOK
<1>1. ASSUME NEW k \in CalculationKeys(t, m), NEW u \in Inputs(t), u[1] = "bronze",
             Older(fp[k][u], lake[u][k])
      PROVE  Outdated(fp, t, m)'
  <2>1. u \in Files /\ k \in Months
    BY InputFiles, KeysTable
  <2>2. CASE u = s /\ k = n
    <3>1. Older(lake[u][k], lake'[u][k])
      BY <2>2, BronzeStep
    <3>2. lake'[u][k] # NoFile => \E v \in lake'[u][k] : v \in Nat /\ lake'[u][k] = {v}
      BY <2>2, BronzeStep
    <3>3. lake[u][k] # NoFile => \E v \in lake[u][k] : v \in Nat /\ lake[u][k] = {v}
      BY <1>1, <2>1 DEF FilesOK
    <3>4. Older(fp[k][u], lake'[u][k])
      BY <1>1, <3>1, <3>2, <3>3, OlderThan
    <3> QED BY <1>1, <3>4 DEF Outdated, Older
  <2>3. CASE ~(u = s /\ k = n)
    <3>1. lake'[u][k] = lake[u][k]
      BY <2>1, <2>3, BronzeStep
    <3> QED BY <1>1, <3>1 DEF Outdated, Older
  <2> QED BY <2>2, <2>3
<1>2. ASSUME fp = InputsOf(t, m), InputsOf(t, m)' # fp
      PROVE  Outdated(fp, t, m)'
  <2>1. PICK k \in CalculationKeys(t, m), u \in Inputs(t) : lake'[u][k] # lake[u][k]
    BY <1>2 DEF InputsOf, InputsNow
  <2>2. u \in Files /\ k \in Months
    BY InputFiles, KeysTable
  <2>3. u = s /\ k = n
    BY <2>1, <2>2, BronzeStep
  <2>4. u[1] = "bronze" /\ Older(lake[u][k], lake'[u][k])
    BY <2>3, BronzeStep
  <2>5. fp[k][u] = lake[u][k]
    BY <1>2 DEF InputsOf, InputsNow
  <2> QED BY <2>4, <2>5 DEF Outdated, Older
<1> QED BY <1>1, <1>2 DEF Outdated

\* No job changes Bronze.
LEMMA OutdatedStays ==
    ASSUME FilesOK, JobsOK, RunOK, NEW mk \in DOMAIN job, JobAction(mk),
           NEW t \in Targets, NEW m \in Months, NEW fp, Outdated(fp, t, m)
    PROVE  Outdated(fp, t, m)'
<1>1. PICK k \in CalculationKeys(t, m), s \in Inputs(t) : s[1] = "bronze" /\ Older(fp[k][s], lake[s][k])
  BY DEF Outdated
<1>2. s \in Files /\ k \in Months /\ s # File(Target(mk))
  <2>1. s \in Files /\ k \in Months
    BY InputFiles, KeysTable
  <2>2. s # File(Target(mk))
    BY <1>1 DEF File
  <2> QED BY <2>1, <2>2
<1>3. lake'[s][k] = lake[s][k]
  BY <1>2, StepSummary DEF Touches, FilesOK
<1> QED BY <1>1, <1>3 DEF Outdated, Older

InputsStay(t) == \A s \in Inputs(t), k \in Months : lake'[s][k] = lake[s][k]

\* Fingerprints of inputs that stay do too.
LEMMA InputsStaying ==
    ASSUME NEW t, InputsStay(t), NEW m \in Months
    PROVE  InputsNow(t, m)' = InputsNow(t, m) /\ InputsOf(t, m)' = InputsOf(t, m)
<1>1. \A k \in Months : InputsNow(t, k)' = InputsNow(t, k)
  BY DEF InputsStay, InputsNow
<1> QED BY <1>1, KeysTable DEF InputsOf

\* No job changes what another one reads without the race being recorded.
LEMMA OwnInputsStay ==
    ASSUME FilesOK, JobsOK, RunOK, NEW mk \in DOMAIN job, JobAction(mk),
           NEW p \in DOMAIN job, NEW t \in ToSet(Handler[p]) \ raced, p # mk \/ t = Target(mk)
    PROVE  InputsStay(t)
<1>1. File(Target(mk)) \notin Inputs(t)
  <2>1. CASE p # mk
    BY <2>1, Apart, JobFacts
  <2>2. CASE t = Target(mk)
    BY <2>2, InputTable
  <2> QED BY <2>1, <2>2
<1>2. t \in Targets
  BY JobFacts DEF Targets, Built
<1>3. ASSUME NEW s \in Inputs(t), NEW k \in Months PROVE lake'[s][k] = lake[s][k]
  <2>1. s \in Files /\ s # File(Target(mk))
    BY <1>1, <1>2, InputFiles
  <2> QED BY <2>1, StepSummary DEF Touches, FilesOK
<1> QED BY <1>3 DEF InputsStay

\* A manifest is written with the fingerprint and the content of a sound job.
LEMMA ManifestsJob ==
    ASSUME FilesOK, JobsOK, RunOK, ManifestsSound, JobsSound, NEW mk \in DOMAIN job, JobAction(mk)
    PROVE  ManifestsSound'
<1>1. UNCHANGED <<selection, raced>> /\ Targets' = Targets
  BY StepSummary, SelectionKept DEF Alone, Unchanged
<1>2. ASSUME NEW t \in Targets \ (Uncached \cup raced), NEW m \in Months, manifest'[t][m] # None
      PROVE  Sound(manifest[t][m].fp, manifest[t][m].out, t, m)'
  <2>1. CASE manifest'[t][m] = manifest[t][m]
    <3> DEFINE fp == manifest[t][m].fp
               out == manifest[t][m].out
    <3>1. Sound(fp, out, t, m)
      BY <1>2, <2>1 DEF ManifestsSound
    <3>2. PICK x, y : x = fp /\ y = out
      OBVIOUS
    <3>3. Outdated(x, t, m) => Outdated(x, t, m)'
      BY OutdatedStays
    <3>4. ComputedFrom(y, x) \/ Outdated(x, t, m)'
      BY <3>1, <3>2, <3>3 DEF Sound
    <3>5. manifest'[t][m].fp = x /\ manifest'[t][m].out = y
      BY <2>1, <3>2
    <3> QED BY <3>4, <3>5 DEF Sound, Outdated, ComputedFrom
  <2>2. CASE manifest'[t][m] # manifest[t][m]
    <3>1. t = Target(mk) /\ m = job[mk].month
      BY <2>2, Elsewhere
    <3>2. Declare(mk)
      BY <2>2, VanishStep, FaultStep DEF JobAction, JobStep, Discover, Plan, Read, Stage, MoveAside, Land
    <3>3. /\ manifest'[t][m] = [fp |-> job[mk].fp, out |-> job[mk].frame] /\ UNCHANGED lake
          /\ job[mk].pc = "declare"
      BY <3>1, <3>2, DeclareStep
    <3>4. Sound(job[mk].fp, job[mk].frame, t, m)
      BY <1>2, <3>1, <3>3, JobFacts DEF JobsSound, JobSound, Publication
    <3>5. manifest'[t][m].fp = job[mk].fp /\ manifest'[t][m].out = job[mk].frame
      BY <3>3
    <3> QED BY <3>3, <3>4, <3>5 DEF Sound, Outdated, ComputedFrom
  <2> QED BY <2>1, <2>2
<1> QED BY <1>1, <1>2 DEF ManifestsSound

\* A job that keeps its work and whose inputs stay is as sound as it was.
LEMMA SoundStays ==
    ASSUME FilesOK, JobsOK, RunOK, NEW mk \in DOMAIN job, JobAction(mk),
           NEW p \in DOMAIN job, JobSound(p, job[p]),
           NEW a, SameWork(a, job[p]), a.pc = job[p].pc \/ {a.pc, job[p].pc} \subseteq Publication
    PROVE  JobSound(p, a)'
<1> DEFINE j == job[p]
<1>0. PICK t, m, fp : t = TargetOf(p, j) /\ m = j.month /\ fp = j.fp
  OBVIOUS
<1>1. TargetOf(p, a) = t /\ a.month = m /\ a.cache = j.cache /\ a.fp = fp /\ a.frame = j.frame
  BY <1>0 DEF TargetOf, SameWork, SameTarget
<1>2. UNCHANGED raced
  BY StepSummary DEF Alone, Unchanged
<1>3. SUFFICES ASSUME t \notin Uncached \cup raced, a.pc \in Working
      PROVE  /\ a.pc = "read" => fp = InputsOf(t, m)' \/ Outdated(fp, t, m)'
             /\ a.pc \in Publication => Sound(fp, a.frame, t, m)'
             /\ FromSilver(t) => \A k \in DOMAIN a.cache : a.cache[k] = InputsNow(t, k)'
             /\ FromBronze(t) =>
                \A k \in DOMAIN a.cache : k <= m /\ (a.pc \in {"plan", "read"} => k < m)
  BY <1>1, <1>2 DEF JobSound, Working, TargetOf
<1>4. /\ t \in Targets /\ t \in ToSet(Handler[p]) /\ j.pc \in Working /\ m \in Months
      /\ DOMAIN j.cache \subseteq Months
  <2>1. j.pc \in Working
    BY <1>3 DEF Working
  <2> QED BY <1>0, <2>1, JobFacts, WorkingJob DEF JobsOK, JobOK
<1>5. InputsStay(t)
  BY <1>0, <1>3, <1>4, OwnInputsStay, JobFacts
<1>6. InputsOf(t, m)' = InputsOf(t, m) /\ \A k \in Months : InputsNow(t, k)' = InputsNow(t, k)
  BY <1>4, <1>5, InputsStaying
<1>7. Outdated(fp, t, m) => Outdated(fp, t, m)'
  BY <1>4, OutdatedStays
<1>8. /\ j.pc = "read" => fp = InputsOf(t, m) \/ Outdated(fp, t, m)
      /\ j.pc \in Publication => Sound(fp, j.frame, t, m)
      /\ FromSilver(t) => \A k \in DOMAIN j.cache : j.cache[k] = InputsNow(t, k)
      /\ FromBronze(t) => \A k \in DOMAIN j.cache : k <= m /\ (j.pc \in {"plan", "read"} => k < m)
  BY <1>0, <1>3, <1>4 DEF JobSound
<1>9. a.pc = "read" => fp = InputsOf(t, m)' \/ Outdated(fp, t, m)'
  BY <1>6, <1>7, <1>8 DEF Publication
<1>10. a.pc \in Publication => Sound(fp, a.frame, t, m)'
  <2>1. a.pc \in Publication => ComputedFrom(a.frame, fp) \/ Outdated(fp, t, m)
    BY <1>1, <1>8 DEF Sound, Publication
  <2> QED BY <1>7, <2>1 DEF Sound, ComputedFrom
<1>11. FromSilver(t) => \A k \in DOMAIN a.cache : a.cache[k] = InputsNow(t, k)'
  BY <1>1, <1>4, <1>6, <1>8
<1>12. FromBronze(t) => \A k \in DOMAIN a.cache : k <= m /\ (a.pc \in {"plan", "read"} => k < m)
  BY <1>1, <1>8 DEF Publication
<1> QED BY <1>9, <1>10, <1>11, <1>12

\* A job that goes on is sound about its next month.
LEMMA SoundGoingOn ==
    ASSUME FilesOK, JobsOK, RunOK, UNCHANGED <<lake, raced>>,
           NEW mk \in DOMAIN job, NEW x, NEW a, GoesOn(mk, x, a), x.stage = job[mk].stage,
           x.month = job[mk].month, x.month \in Nat,
           LET t == TargetOf(mk, x)
           IN t \notin Uncached \cup raced =>
                /\ FromSilver(t) => \A k \in DOMAIN x.cache : x.cache[k] = InputsNow(t, k)
                /\ FromBronze(t) => \A k \in DOMAIN x.cache : k <= x.month,
           DOMAIN x.cache \subseteq Months
    PROVE  JobSound(mk, a)'
<1>1. CASE a.pc = "plan"
  <2>1. PICK t : t = TargetOf(mk, x)
    OBVIOUS
  <2>2. /\ TargetOf(mk, a) = t /\ a.cache = x.cache /\ a.month \in Nat /\ x.month < a.month
    BY <1>1, <2>1 DEF GoesOn, TargetOf
  <2>3. ASSUME t \notin Uncached \cup raced, FromBronze(t), NEW k \in DOMAIN a.cache
        PROVE  k < a.month /\ k <= a.month
    <3>1. k <= x.month /\ k \in Nat
      BY <2>1, <2>2, <2>3, Positive
    <3> QED BY <2>2, <3>1
  <2>4. ASSUME t \notin Uncached \cup raced, FromSilver(t), NEW k \in DOMAIN a.cache
        PROVE  a.cache[k] = InputsNow(t, k)'
    <3>1. a.cache[k] = InputsNow(t, k)
      BY <2>1, <2>2, <2>4
    <3> QED BY <3>1 DEF InputsNow
  <2> QED BY <1>1, <2>2, <2>3, <2>4 DEF JobSound, Publication, TargetOf
<1>2. CASE a.pc # "plan"
  BY <1>2 DEF GoesOn, JobSound, Working, Publication
<1> QED BY <1>1, <1>2

\* Where a job computes from exactly its calculation months, it reads what they hold.
LEMMA ReadIsCurrent ==
    ASSUME FilesOK, JobsOK, RunOK, JobsSound, NEW mk, Read(mk),
           NEW t, t = Target(mk), t \notin Uncached \cup raced, NEW m, m = job[mk].month
    PROVE  /\ RowsRead(mk) = InputsOf(t, m)
           /\ FromSilver(t) => \A k \in DOMAIN Cached(mk) : Cached(mk)[k] = InputsNow(t, k)
           /\ FromBronze(t) => \A k \in DOMAIN Cached(mk) : k <= m
<1>1. /\ mk \in DOMAIN job /\ job[mk].pc = "read" /\ t \in Targets /\ t = TargetOf(mk, job[mk])
      /\ m \in Months /\ m \in Nat
  BY ReadStep, JobFacts, WorkingJob DEF Working
<1>2. t \notin Carrying /\ (FromBronze(t) \/ FromSilver(t))
  BY CachedTable DEF FromBronze, FromSilver
<1>3. KeysToRead(mk) = CalculationKeys(t, m)
  BY <1>2 DEF KeysToRead, Carrying
<1>4. /\ DOMAIN Cached(mk) = DOMAIN job[mk].cache \cup CalculationKeys(t, m)
      /\ \A k \in DOMAIN Cached(mk) :
            Cached(mk)[k] = IF k \in DOMAIN job[mk].cache THEN job[mk].cache[k] ELSE InputsNow(t, k)
  BY <1>3 DEF Cached
<1>5. /\ FromSilver(t) => \A k \in DOMAIN job[mk].cache : job[mk].cache[k] = InputsNow(t, k)
      /\ FromBronze(t) => \A k \in DOMAIN job[mk].cache : k <= m /\ k < m
  BY <1>1 DEF JobsSound, JobSound, Working
<1>6. \A k \in CalculationKeys(t, m) : Cached(mk)[k] = InputsNow(t, k)
  <2>1. CASE FromSilver(t)
    BY <2>1, <1>4, <1>5
  <2>2. CASE FromBronze(t)
    <3>1. CalculationKeys(t, m) = {m}
      BY <1>1, <1>2, <2>2, KeysTable DEF FromBronze
    <3>2. m \notin DOMAIN job[mk].cache
      BY <1>1, <1>5, <2>2
    <3> QED BY <1>4, <3>1, <3>2
  <2> QED BY <1>2, <2>1, <2>2
<1>7. RowsRead(mk) = InputsOf(t, m)
  BY <1>4, <1>6 DEF RowsRead, InputsOf
<1>8. FromBronze(t) => \A k \in DOMAIN Cached(mk) : k <= m
  BY <1>1, <1>4, <1>5, KeysTable
<1> QED BY <1>4, <1>5, <1>7, <1>8

\* Every step of a job keeps the jobs sound.
LEMMA SoundJob ==
    ASSUME FilesOK, JobsOK, RunOK, JobsSound, NEW mk \in DOMAIN job, JobAction(mk)
    PROVE  JobsSound'
<1>1. Alone(mk) /\ UNCHANGED raced /\ DOMAIN job' = DOMAIN job
  BY StepSummary DEF Alone, Unchanged
<1>2. ASSUME NEW q \in DOMAIN job, q # mk PROVE JobSound(q, job[q])'
  <2>1. PICK a : a = job'[q]
    OBVIOUS
  <2>2. SameWork(a, job[q]) /\ a.pc = job[q].pc
    BY <1>1, <1>2, <2>1 DEF Alone, SameWork, SameTarget
  <2>3. JobSound(q, a)'
    BY <2>2, SoundStays DEF JobsSound
  <2> QED BY <2>1, <2>3
<1>3. JobSound(mk, job[mk])'
  <2>1. PICK a : a = job'[mk]
    OBVIOUS
  <2>2. PICK t, m : t = Target(mk) /\ m = job[mk].month
    OBVIOUS
  <2>3. t \in Targets /\ t = TargetOf(mk, job[mk]) /\ JobOK(mk, job[mk]) /\ JobSound(mk, job[mk])
    BY <2>2, JobFacts DEF JobsOK, JobsSound
  <2>4. SUFFICES JobSound(mk, a)'
    BY <2>1
  <2>5. CASE Discover(mk)
    <3>1. (a.pc = "plan" /\ DOMAIN a.cache = {}) \/ a.pc \in {"discover", "done"}
      BY <2>1, <2>5, DiscoverStep
    <3> QED BY <3>1 DEF JobSound, Working, Publication
  <2>6. CASE Plan(mk)
    <3>1. job[mk].pc = "plan" /\ UNCHANGED lake
      BY <2>6, PlanStep
    <3>2. m \in Months /\ m \in Nat
      BY <2>2, <3>1, WorkingJob DEF Working
    <3>3. CASE GoesOn(mk, job[mk], a)
      <4>1. DOMAIN job[mk].cache \subseteq Months
        BY <2>3, <3>1 DEF JobOK, Working
      <4>2. PICK x : x = job[mk]
        OBVIOUS
      <4>3. LET u == TargetOf(mk, x)
            IN u \notin Uncached \cup raced =>
                /\ FromSilver(u) => \A k \in DOMAIN x.cache : x.cache[k] = InputsNow(u, k)
                /\ FromBronze(u) => \A k \in DOMAIN x.cache : k <= x.month
        BY <2>3, <3>1, <4>2 DEF JobSound, Working
      <4> QED BY <1>1, <2>2, <3>1, <3>2, <3>3, <4>1, <4>2, <4>3, SoundGoingOn
    <3>4. CASE /\ a.pc = "read" /\ a.fp = Fingerprint(t, m) /\ a.stage = job[mk].stage
               /\ a.months = job[mk].months /\ a.month = m /\ a.cache = job[mk].cache
      <4>1. TargetOf(mk, a) = t
        BY <2>3, <3>4 DEF TargetOf
      <4>2. a.fp = InputsOf(t, m)' /\ \A k : InputsNow(t, k)' = InputsNow(t, k)
        BY <3>1, <3>4 DEF Fingerprint, InputsOf, InputsNow
      <4>3. t \notin Uncached \cup raced =>
              /\ FromSilver(t) => \A k \in DOMAIN a.cache : a.cache[k] = InputsNow(t, k)'
              /\ FromBronze(t) => \A k \in DOMAIN a.cache : k <= m /\ k < m
        BY <2>2, <2>3, <3>1, <3>4, <4>2 DEF JobSound, Working
      <4> QED BY <1>1, <3>4, <4>1, <4>2, <4>3 DEF JobSound, Publication, TargetOf
    <3> QED BY <2>1, <2>2, <2>6, <3>3, <3>4, PlanStep
  <2>7. CASE Read(mk)
    <3>1. job[mk].pc = "read" /\ UNCHANGED lake /\ DOMAIN Cached(mk) = DOMAIN job[mk].cache \cup KeysToRead(mk)
      BY <2>7, ReadStep
    <3>2. m \in Months /\ m \in Nat
      BY <2>2, <3>1, WorkingJob DEF Working
    <3>3. t \notin Uncached \cup raced =>
              /\ RowsRead(mk) = InputsOf(t, m)
              /\ FromSilver(t) => \A k \in DOMAIN Cached(mk) : Cached(mk)[k] = InputsNow(t, k)
              /\ FromBronze(t) => \A k \in DOMAIN Cached(mk) : k <= m
      BY <2>2, <2>7, ReadIsCurrent
    <3>4. CASE GoesOn(mk, [job[mk] EXCEPT !.cache = Cached(mk)], a)
      <4>1. PICK x : x = [job[mk] EXCEPT !.cache = Cached(mk)]
        OBVIOUS
      <4>2. x.stage = job[mk].stage /\ x.month = m /\ x.cache = Cached(mk)
        BY <2>2, <2>3, <4>1 DEF JobOK, IsJob
      <4>3. DOMAIN x.cache \subseteq Months
        <5>1. KeysToRead(mk) \subseteq Months
          BY <2>2, <2>3, <3>2, KeysTable DEF KeysToRead, JobOK
        <5> QED BY <2>3, <3>1, <4>2, <5>1 DEF JobOK, Working
      <4>4. TargetOf(mk, x) = t
        BY <2>3, <4>2 DEF TargetOf
      <4>5. GoesOn(mk, x, a)
        BY <3>4, <4>1
      <4> QED BY <1>1, <2>2, <3>1, <3>2, <3>3, <4>2, <4>3, <4>4, <4>5, SoundGoingOn
    <3>5. CASE /\ a.pc = "stage" /\ SameTarget(a, job[mk]) /\ a.fp = job[mk].fp /\ a.cache = Cached(mk)
               /\ ComputedFrom(a.frame, RowsRead(mk))
      <4>1. TargetOf(mk, a) = t /\ a.month = m
        BY <2>2, <2>3, <3>5 DEF TargetOf, SameTarget
      <4>2. t \notin Uncached \cup raced => a.fp = InputsOf(t, m) \/ Outdated(a.fp, t, m)
        BY <2>2, <2>3, <3>1, <3>5 DEF JobSound
      <4>3. t \notin Uncached \cup raced => Sound(a.fp, a.frame, t, m)
        BY <3>3, <3>5, <4>2 DEF Sound
      <4>4. t \notin Uncached \cup raced => Sound(a.fp, a.frame, t, m)'
        BY <3>1, <4>3 DEF Sound, Outdated, ComputedFrom
      <4>5. \A k : InputsNow(t, k)' = InputsNow(t, k)
        BY <3>1 DEF InputsNow
      <4> QED BY <1>1, <3>3, <3>5, <4>1, <4>4, <4>5 DEF JobSound, TargetOf
    <3> QED BY <2>1, <2>7, <3>4, <3>5, ReadStep
  <2>8. CASE Stage(mk)
    <3>1. SameWork(a, job[mk]) /\ {a.pc, job[mk].pc} \subseteq Publication
      BY <2>1, <2>8, StageStep DEF Publication
    <3> QED BY <2>3, <3>1, SoundStays
  <2>9. CASE MoveAside(mk)
    <3>1. a.pc = "failed" \/ (SameWork(a, job[mk]) /\ {a.pc, job[mk].pc} \subseteq Publication)
      BY <2>1, <2>9, MoveAsideStep DEF Publication, Fails
    <3>2. CASE a.pc = "failed"
      BY <3>2 DEF JobSound, Working, Publication
    <3> QED BY <2>3, <3>1, <3>2, SoundStays
  <2>10. CASE Land(mk)
    <3>1. SameWork(a, job[mk]) /\ {a.pc, job[mk].pc} \subseteq Publication
      BY <2>1, <2>10, LandStep DEF Publication
    <3> QED BY <2>3, <3>1, SoundStays
  <2>11. CASE Declare(mk)
    <3>1. job[mk].pc = "declare" /\ UNCHANGED lake /\ GoesOn(mk, job[mk], a)
      BY <2>1, <2>11, DeclareStep
    <3>2. m \in Months /\ m \in Nat
      BY <2>2, <3>1, WorkingJob DEF Working, Publication
    <3>3. DOMAIN job[mk].cache \subseteq Months
      BY <2>3, <3>1 DEF JobOK, Working, Publication
    <3>4. PICK x : x = job[mk]
      OBVIOUS
    <3>5. LET u == TargetOf(mk, x)
          IN u \notin Uncached \cup raced =>
                /\ FromSilver(u) => \A k \in DOMAIN x.cache : x.cache[k] = InputsNow(u, k)
                /\ FromBronze(u) => \A k \in DOMAIN x.cache : k <= x.month
      BY <2>3, <3>1, <3>4 DEF JobSound, Working, Publication
    <3> QED BY <1>1, <2>2, <3>1, <3>2, <3>3, <3>4, <3>5, SoundGoingOn
  <2>12. CASE Vanish(mk) \/ Fault(mk)
    <3>1. a.pc = "failed"
      BY <2>1, <2>12, VanishStep, FaultStep DEF Fails
    <3> QED BY <3>1 DEF JobSound, Working, Publication
  <2> QED BY <2>5, <2>6, <2>7, <2>8, <2>9, <2>10, <2>11, <2>12 DEF JobAction, JobStep
<1> QED BY <1>1, <1>2, <1>3 DEF JobsSound

\* A job starts with nothing read, and no run changes a manifest.
LEMMA SoundRun ==
    ASSUME FilesOK, JobsOK, RunOK, ManifestsSound, StartRun \/ NextBatch \/ EndRun \/ Kill
    PROVE  ManifestsSound' /\ JobsSound'
<1>1. UNCHANGED <<selection, lake, manifest>> /\ raced \subseteq raced'
  BY DEF StartRun, NextBatch, EndRun, Kill
<1>2. Targets' = Targets
  BY <1>1, SelectionKept
<1>3. ManifestsSound'
  BY <1>1, <1>2 DEF ManifestsSound, Sound, Outdated, ComputedFrom
<1>4. \A mk \in DOMAIN job' : job'[mk].pc \notin Working
  BY StartRunOK DEF NextBatch, EndRun, Kill, Idle, StartJob, Working, Publication
<1> QED BY <1>3, <1>4 DEF JobsSound, JobSound, Working

\* A Bronze write outdates what was read before it.
LEMMA SoundBronze ==
    ASSUME FilesOK, JobsOK, RunOK, ManifestsSound, JobsSound, NEW s, NEW n \in Months, BronzeWrite(s, n)
    PROVE  ManifestsSound' /\ JobsSound'
<1>1. UNCHANGED <<selection, manifest, job, raced>>
  BY DEF BronzeWrite
<1>2. Targets' = Targets
  BY <1>1, SelectionKept
<1>3. ASSUME NEW t \in Targets \ (Uncached \cup raced), NEW m \in Months, manifest[t][m] # None
      PROVE  Sound(manifest[t][m].fp, manifest[t][m].out, t, m)'
  <2>1. PICK fp, out : fp = manifest[t][m].fp /\ out = manifest[t][m].out
    OBVIOUS
  <2>2. Sound(fp, out, t, m)
    BY <1>3, <2>1 DEF ManifestsSound
  <2>3. Sound(fp, out, t, m)'
    BY <2>2, BronzeOutdates DEF Sound, ComputedFrom
  <2> QED BY <1>1, <2>1, <2>3
<1>4. ASSUME NEW q \in DOMAIN job PROVE JobSound(q, job[q])'
  <2>1. PICK a, t, m, fp : a = job[q] /\ t = TargetOf(q, a) /\ m = a.month /\ fp = a.fp
    OBVIOUS
  <2>2. JobSound(q, a) /\ t \in Targets
    BY <2>1, JobFacts DEF JobsSound
  <2>3. SUFFICES ASSUME t \notin Uncached \cup raced, a.pc \in Working
        PROVE  /\ a.pc = "read" => fp = InputsOf(t, m)' \/ Outdated(fp, t, m)'
               /\ a.pc \in Publication => Sound(fp, a.frame, t, m)'
               /\ FromSilver(t) => \A k \in DOMAIN a.cache : a.cache[k] = InputsNow(t, k)'
               /\ FromBronze(t) =>
                    \A k \in DOMAIN a.cache : k <= m /\ (a.pc \in {"plan", "read"} => k < m)
    BY <1>1, <2>1 DEF JobSound, Working, TargetOf
  <2>4. m \in Months /\ DOMAIN a.cache \subseteq Months
    BY <2>1, <2>3, WorkingJob DEF JobsOK, JobOK
  <2>5. a.pc = "read" => fp = InputsOf(t, m)' \/ Outdated(fp, t, m)'
    BY <2>1, <2>2, <2>3, <2>4, BronzeOutdates DEF JobSound
  <2>6. a.pc \in Publication => Sound(fp, a.frame, t, m)'
    BY <2>1, <2>2, <2>3, <2>4, BronzeOutdates DEF JobSound, Sound, ComputedFrom
  <2>7. ASSUME FromSilver(t), NEW k \in DOMAIN a.cache PROVE a.cache[k] = InputsNow(t, k)'
    <3>1. a.cache[k] = InputsNow(t, k)
      BY <2>1, <2>2, <2>3, <2>7 DEF JobSound
    <3>2. \A u \in Inputs(t) : lake'[u][k] = lake[u][k]
      BY <2>2, <2>4, <2>7, InputFiles, BronzeStep DEF FromSilver
    <3> QED BY <3>1, <3>2 DEF InputsNow
  <2>8. FromBronze(t) => \A k \in DOMAIN a.cache : k <= m /\ (a.pc \in {"plan", "read"} => k < m)
    BY <2>1, <2>2, <2>3 DEF JobSound
  <2> QED BY <2>5, <2>6, <2>7, <2>8
<1> QED BY <1>1, <1>2, <1>3, <1>4 DEF ManifestsSound, JobsSound

\* A partition that is reused was computed from what its inputs hold.
LEMMA CurrentIsFresh ==
    ASSUME FilesOK, ManifestsSound, NEW t \in Targets \ (Uncached \cup raced), NEW m \in Months,
           Current(t, m, Fingerprint(t, m))
    PROVE  Fresh(t, m)
<1>1. Fingerprint(t, m) = InputsOf(t, m)
  BY DEF Fingerprint, InputsOf
<1>2. PICK fp : fp = InputsOf(t, m)
  OBVIOUS
<1>3. /\ manifest[t][m] # None /\ manifest[t][m].fp = fp
      /\ manifest[t][m].out = lake[File(t)][m]
  BY <1>1, <1>2 DEF Current
<1>4. Sound(fp, lake[File(t)][m], t, m)
  BY <1>3 DEF ManifestsSound
<1>5. ComputedFrom(lake[File(t)][m], fp)
  BY <1>2, <1>4, NowIsCurrent DEF Sound
<1> QED BY <1>2, <1>5 DEF ComputedFrom, Fresh, InputsOf

-----------------------------------------------------------------------------
(* A calm run brings its targets up to date.                               *)

\* Jobs do not change what has been started.
LEMMA OrderJob ==
    ASSUME FilesOK, JobsOK, RunOK, InOrder, NEW mk \in DOMAIN job, JobAction(mk)
    PROVE  InOrder'
<1>1. UNCHANGED <<selection, scheduled, waiting>> /\ DOMAIN job' = DOMAIN job
  BY StepSummary DEF Alone, Unchanged
<1>2. \A p : Position(p)' = Position(p)
  BY <1>1, SelectionKept
<1> QED BY <1>1, <1>2 DEF InOrder

\* A batch is taken from the front of the list.
LEMMA OrderBatch ==
    ASSUME FilesOK, JobsOK, RunOK, InOrder, NextBatch
    PROVE  InOrder'
<1>1. /\ UNCHANGED <<selection, scheduled>> /\ waiting' = waiting \ Batch /\ DOMAIN job' = Batch
      /\ Running /\ \A p : Position(p)' = Position(p)
  BY SelectionKept DEF NextBatch
<1>2. Batch \subseteq waiting
  BY <1>1, BatchFacts
<1>3. ASSUME NEW p \in scheduled \ waiting', NEW q \in scheduled \ Derived,
             q \in waiting' \/ (q \in Batch /\ p \notin Batch)
      PROVE  p \notin Derived /\ Position(p) < Position(q)
  <2>1. CASE p \in Batch
    BY <1>1, <1>3, <2>1, BatchFacts
  <2>2. CASE p \notin Batch
    BY <1>1, <1>2, <1>3, <2>2 DEF InOrder
  <2> QED BY <2>1, <2>2
<1> QED BY <1>1, <1>3 DEF InOrder

\* A partition is as fresh as it was when it stays and its inputs do.
LEMMA FreshStays ==
    ASSUME NEW t, InputsStay(t), NEW m \in Months, lake'[File(t)][m] = lake[File(t)][m]
    PROVE  Fresh(t, m)' <=> Fresh(t, m)
<1>1. InputsOf(t, m)' = InputsOf(t, m)
  BY InputsStaying
<1> QED BY <1>1 DEF Fresh, InputsOf

\* Another job's progress stands.
LEMMA OthersProgress ==
    ASSUME FilesOK, JobsOK, RunOK, NEW mk \in DOMAIN job, JobAction(mk),
           NEW q \in DOMAIN job, q # mk, JobProgress(q, job[q])
    PROVE  JobProgress(q, job[q])'
<1>1. PICK a, t : a = job[q] /\ t = TargetOf(q, a)
  OBVIOUS
<1>2. job'[q] = a /\ UNCHANGED raced
  BY <1>1, StepSummary DEF Alone, Unchanged
<1>3. SUFFICES ASSUME t \notin raced, a.pc \in Working
      PROVE  /\ \A k \in Months : InputsNow(t, k)' # Nothing(t) => k \in a.months
             /\ \A k \in a.months : k < a.month => Brought(t, k)'
             /\ \A k \in DOMAIN a.cache : a.cache[k] = InputsNow(t, k)'
             /\ a.pc \in Publication => ComputedFrom(a.frame, InputsOf(t, a.month)')
  BY <1>1, <1>2 DEF JobProgress, TargetOf, Nothing, ComputedFrom
<1>4. /\ t \in Targets /\ t \in ToSet(Handler[q]) /\ t = Target(q) /\ a.month \in Months
      /\ DOMAIN a.cache \subseteq Months /\ a.months \subseteq Months
  BY <1>1, <1>3, JobFacts, WorkingJob DEF JobsOK, JobOK
<1>5. InputsStay(t) /\ t # Target(mk)
  BY <1>1, <1>3, <1>4, OwnInputsStay, OwnTarget, JobFacts
<1>6. \A k \in Months : /\ InputsNow(t, k)' = InputsNow(t, k) /\ InputsOf(t, k)' = InputsOf(t, k)
                        /\ (Fresh(t, k)' <=> Fresh(t, k))
  BY <1>4, <1>5, InputsStaying, Elsewhere, FreshStays
<1>7. JobProgress(q, a)
  BY <1>1
<1>8. /\ \A k \in Months : InputsNow(t, k) # Nothing(t) => k \in a.months
      /\ \A k \in a.months : k < a.month => Brought(t, k)
      /\ \A k \in DOMAIN a.cache : a.cache[k] = InputsNow(t, k)
      /\ a.pc \in Publication => ComputedFrom(a.frame, InputsOf(t, a.month))
  BY <1>1, <1>3, <1>7 DEF JobProgress
<1>9. ASSUME NEW k \in a.months, k < a.month PROVE Brought(t, k)'
  <2>1. Brought(t, k) /\ InputsNow(t, k)' = InputsNow(t, k) /\ (Fresh(t, k)' <=> Fresh(t, k))
    BY <1>4, <1>6, <1>8, <1>9
  <2> QED BY <2>1 DEF Brought, Nothing
<1>10. ASSUME a.pc \in Publication PROVE ComputedFrom(a.frame, InputsOf(t, a.month)')
  BY <1>4, <1>6, <1>8, <1>10
<1> QED BY <1>4, <1>6, <1>8, <1>9, <1>10

\* A calm run reads what the inputs hold, whatever the target.
LEMMA CalmRead ==
    ASSUME FilesOK, JobsOK, RunOK, NEW mk, Read(mk), JobProgress(mk, job[mk]),
           NEW t, t = Target(mk), t \notin raced, NEW m, m = job[mk].month
    PROVE  /\ \A k \in DOMAIN Cached(mk) : Cached(mk)[k] = InputsNow(t, k)
           /\ m \in DOMAIN Cached(mk)
           /\ RowsRead(mk) = InputsOf(t, m)
<1>1. /\ mk \in DOMAIN job /\ job[mk].pc = "read" /\ t = TargetOf(mk, job[mk])
      /\ m \in Months /\ m \in Nat /\ m \in job[mk].months
  BY ReadStep, JobFacts, WorkingJob DEF Working, JobsOK, JobOK
<1>2. /\ \A k \in Months : InputsNow(t, k) # Nothing(t) => k \in job[mk].months
      /\ \A k \in DOMAIN job[mk].cache : job[mk].cache[k] = InputsNow(t, k)
  BY <1>1 DEF JobProgress, Working
<1>3. /\ DOMAIN Cached(mk) = DOMAIN job[mk].cache \cup KeysToRead(mk)
      /\ \A k \in DOMAIN Cached(mk) : Cached(mk)[k] = InputsNow(t, k)
  BY <1>2 DEF Cached
<1>4. m \in KeysToRead(mk)
  BY <1>1, KeysTable DEF KeysToRead
<1>5. ASSUME NEW k \in CalculationKeys(t, m), k \notin KeysToRead(mk) PROVE InputsNow(t, k) = Nothing(t)
  <2>1. k \in Months /\ k <= m
    BY <1>1, KeysTable
  <2>2. k \notin job[mk].months
    BY <1>5, <2>1 DEF KeysToRead
  <2> QED BY <1>2, <2>1, <2>2
<1>6. RowsRead(mk) = InputsOf(t, m)
  BY <1>3, <1>5 DEF RowsRead, InputsOf
<1> QED BY <1>1, <1>2, <1>3, <1>4, <1>6

\* A job that keeps its work on a partition keeps its progress.
LEMMA ProgressStays ==
    ASSUME FilesOK, JobsOK, RunOK, NEW mk \in DOMAIN job, JobAction(mk), JobProgress(mk, job[mk]),
           NEW a, SameWork(a, job[mk]), {a.pc, job[mk].pc} \subseteq Publication
    PROVE  JobProgress(mk, a)'
<1>1. PICK j, t : j = job[mk] /\ t = TargetOf(mk, j)
  OBVIOUS
<1>2. /\ TargetOf(mk, a) = t /\ a.month = j.month /\ a.months = j.months /\ a.cache = j.cache
      /\ a.frame = j.frame /\ a.pc # "failed" /\ j.pc \in Publication /\ j.pc \in Working
  BY <1>1 DEF TargetOf, SameWork, SameTarget, Publication, Working
<1>3. UNCHANGED raced
  BY StepSummary DEF Alone, Unchanged
<1>4. SUFFICES ASSUME t \notin raced
      PROVE  /\ \A k \in Months : InputsNow(t, k)' # Nothing(t) => k \in j.months
             /\ \A k \in j.months : k < j.month => Brought(t, k)'
             /\ \A k \in DOMAIN j.cache : j.cache[k] = InputsNow(t, k)'
             /\ ComputedFrom(j.frame, InputsOf(t, j.month)')
  BY <1>2, <1>3 DEF JobProgress, TargetOf, Nothing, ComputedFrom
<1>5. /\ t \in Targets /\ t \in ToSet(Handler[mk]) /\ t = Target(mk) /\ j.month \in Months
      /\ j.month \in Nat /\ DOMAIN j.cache \subseteq Months /\ j.months \subseteq Months
  BY <1>1, <1>2, JobFacts, WorkingJob DEF JobsOK, JobOK
<1>6. InputsStay(t)
  BY <1>4, <1>5, OwnInputsStay
<1>7. \A k \in Months : InputsNow(t, k)' = InputsNow(t, k) /\ InputsOf(t, k)' = InputsOf(t, k)
  BY <1>6, InputsStaying
<1>8. /\ \A k \in Months : InputsNow(t, k) # Nothing(t) => k \in j.months
      /\ \A k \in j.months : k < j.month => Brought(t, k)
      /\ \A k \in DOMAIN j.cache : j.cache[k] = InputsNow(t, k)
      /\ ComputedFrom(j.frame, InputsOf(t, j.month))
  BY <1>1, <1>2, <1>4 DEF JobProgress
<1>9. ASSUME NEW k \in j.months, k < j.month PROVE Brought(t, k)'
  <2>1. k \in Months /\ k # j.month
    BY <1>5, <1>9
  <2>2. lake'[File(t)][k] = lake[File(t)][k]
    BY <1>1, <1>5, <2>1, Elsewhere
  <2>3. Brought(t, k) /\ InputsNow(t, k)' = InputsNow(t, k) /\ (Fresh(t, k)' <=> Fresh(t, k))
    BY <1>6, <1>7, <1>8, <1>9, <2>1, <2>2, FreshStays
  <2> QED BY <2>3 DEF Brought, Nothing
<1>10. ComputedFrom(j.frame, InputsOf(t, j.month)')
  BY <1>5, <1>7, <1>8
<1> QED BY <1>5, <1>7, <1>8, <1>9, <1>10

\* A job whose months up to this one are fresh goes on with the next one.
LEMMA ProgressGoingOn ==
    ASSUME UNCHANGED <<lake, raced>>, NEW mk, NEW x, NEW a, GoesOn(mk, x, a),
           LET t == TargetOf(mk, x)
           IN t \notin raced =>
                /\ \A k \in Months : InputsNow(t, k) # Nothing(t) => k \in x.months
                /\ \A k \in x.months : k <= x.month => Brought(t, k)
                /\ \A k \in DOMAIN x.cache : x.cache[k] = InputsNow(t, k)
    PROVE  JobProgress(mk, a)'
<1>1. CASE a.pc = "plan"
  <2>1. PICK t : t = TargetOf(mk, x)
    OBVIOUS
  <2>2. /\ TargetOf(mk, a) = t /\ a.cache = x.cache /\ a.months = x.months
        /\ \A k \in x.months : k < a.month => k <= x.month
    BY <1>1, <2>1 DEF GoesOn, TargetOf
  <2>3. \A k : InputsNow(t, k)' = InputsNow(t, k) /\ (Brought(t, k)' <=> Brought(t, k))
    BY DEF Brought, InputsNow, Nothing, Fresh
  <2>4. t \notin raced =>
            /\ \A k \in Months : InputsNow(t, k) # Nothing(t) => k \in x.months
            /\ \A k \in x.months : k < a.month => Brought(t, k)
            /\ \A k \in DOMAIN x.cache : x.cache[k] = InputsNow(t, k)
    BY <2>1, <2>2
  <2>5. t \notin raced =>
            /\ \A k \in Months : InputsNow(t, k)' # Nothing(t) => k \in a.months
            /\ \A k \in a.months : k < a.month => Brought(t, k)'
            /\ \A k \in DOMAIN a.cache : a.cache[k] = InputsNow(t, k)'
    BY <2>2, <2>3, <2>4
  <2> QED BY <1>1, <2>2, <2>5 DEF JobProgress, Publication, TargetOf, Nothing
<1>2. CASE a.pc # "plan"
  BY <1>2 DEF GoesOn, JobProgress, Working, Publication
<1> QED BY <1>1, <1>2

\* A job in a calm run leaves a month only when it is fresh.
LEMMA MonthDone ==
    ASSUME FilesOK, JobsOK, RunOK, ManifestsSound, JobsCover, NEW mk \in DOMAIN job, JobProgress(mk, job[mk]),
           NEW t, t = Target(mk), t \notin raced, NEW m, m = job[mk].month,
           \/ job[mk].pc = "declare"
           \/ job[mk].pc = "plan" /\ t \notin Uncached /\ Current(t, m, Fingerprint(t, m))
    PROVE  /\ \A k \in Months : InputsNow(t, k) # Nothing(t) => k \in job[mk].months
           /\ \A k \in job[mk].months : k <= m => Brought(t, k)
           /\ \A k \in DOMAIN job[mk].cache : job[mk].cache[k] = InputsNow(t, k)
<1>1. /\ t \in Targets /\ t = TargetOf(mk, job[mk]) /\ m \in Months /\ m \in Nat
      /\ job[mk].months \subseteq Months /\ job[mk].pc \in Working
  BY JobFacts, WorkingJob DEF Working, Publication, JobsOK, JobOK
<1>2. /\ \A k \in Months : InputsNow(t, k) # Nothing(t) => k \in job[mk].months
      /\ \A k \in job[mk].months : k < m => Brought(t, k)
      /\ \A k \in DOMAIN job[mk].cache : job[mk].cache[k] = InputsNow(t, k)
      /\ job[mk].pc \in Publication => ComputedFrom(job[mk].frame, InputsOf(t, m))
  BY <1>1 DEF JobProgress
<1>3. Fresh(t, m)
  <2>1. CASE job[mk].pc = "declare"
    <3>1. lake[File(t)][m] = job[mk].frame
      BY <1>1, <2>1 DEF JobsCover, JobCovers
    <3>2. ComputedFrom(lake[File(t)][m], InputsOf(t, m))
      BY <1>2, <2>1, <3>1 DEF Publication
    <3> QED BY <3>2 DEF ComputedFrom, Fresh, InputsOf
  <2>2. CASE t \notin Uncached /\ Current(t, m, Fingerprint(t, m))
    BY <1>1, <2>2, CurrentIsFresh
  <2> QED BY <2>1, <2>2
<1>4. ASSUME NEW k \in job[mk].months, k <= m PROVE Brought(t, k)
  <2>1. k \in Nat
    BY <1>1, Positive
  <2>2. k < m \/ k = m
    BY <1>1, <1>4, <2>1
  <2> QED BY <1>2, <1>3, <2>2 DEF Brought
<1> QED BY <1>2, <1>4

\* A month that a calm run finds empty needs nothing.
LEMMA EmptyMonth ==
    ASSUME FilesOK, JobsOK, RunOK, NEW mk, Read(mk), JobProgress(mk, job[mk]),
           NEW t, t = Target(mk), t \notin raced, NEW m, m = job[mk].month,
           Cached(mk)[m] = Nothing(t)
    PROVE  /\ \A k \in Months : InputsNow(t, k) # Nothing(t) => k \in job[mk].months
           /\ \A k \in job[mk].months : k <= m => Brought(t, k)
<1>1. /\ mk \in DOMAIN job /\ job[mk].pc = "read" /\ t = TargetOf(mk, job[mk])
      /\ m \in Nat /\ job[mk].months \subseteq Months
  BY ReadStep, JobFacts, WorkingJob DEF Working, JobsOK, JobOK
<1>2. /\ \A k \in Months : InputsNow(t, k) # Nothing(t) => k \in job[mk].months
      /\ \A k \in job[mk].months : k < m => Brought(t, k)
  BY <1>1 DEF JobProgress, Working
<1>3. InputsNow(t, m) = Nothing(t)
  BY CalmRead
<1>4. ASSUME NEW k \in job[mk].months, k <= m PROVE Brought(t, k)
  <2>1. k \in Nat
    BY <1>1, Positive
  <2>2. k < m \/ k = m
    BY <1>1, <1>4, <2>1
  <2> QED BY <1>2, <1>3, <2>2 DEF Brought
<1> QED BY <1>2, <1>4

\* A calm run keeps the progress of the job that takes a step.
LEMMA OwnProgress ==
    ASSUME FilesOK, JobsOK, RunOK, Directories, ManifestsSound, JobsCover,
           NEW mk \in DOMAIN job, JobAction(mk), calm' # FALSE, JobProgress(mk, job[mk])
    PROVE  JobProgress(mk, job[mk])'
<1>1. PICK j, a, t, m : j = job[mk] /\ a = job'[mk] /\ t = Target(mk) /\ m = job[mk].month
  OBVIOUS
<1>2. SUFFICES JobProgress(mk, a)'
  BY <1>1
<1>3. UNCHANGED raced /\ t \in Targets /\ t = TargetOf(mk, j)
  BY <1>1, StepSummary, JobFacts DEF Alone, Unchanged
<1>4. CASE Discover(mk)
  <2>1. /\ UNCHANGED lake /\ a.pc \in {"plan", "discover", "done"}
        /\ a.pc = "plan" =>
            /\ a.stage = j.stage /\ a.months = ListedMonths(t) /\ DOMAIN a.cache = {}
            /\ \A k \in ListedMonths(t) : ~(k < a.month)
    BY <1>1, <1>4, DiscoverStep
  <2>2. CASE a.pc = "plan"
    <3>1. TargetOf(mk, a) = t
      BY <1>3, <2>1, <2>2 DEF TargetOf
    <3>2. \A k : InputsNow(t, k)' = InputsNow(t, k)
      BY <2>1 DEF InputsNow
    <3>3. /\ \A k \in Months : InputsNow(t, k)' # Nothing(t) => k \in a.months
          /\ \A k \in a.months : ~(k < a.month)
      BY <1>3, <2>1, <2>2, <3>2, HeldIsListed
    <3> QED BY <2>1, <2>2, <3>1, <3>3 DEF JobProgress, Publication, TargetOf, Nothing
  <2>3. CASE a.pc \in {"discover", "done"}
    BY <2>3 DEF JobProgress, Working, Publication
  <2> QED BY <2>1, <2>2, <2>3
<1>5. CASE Plan(mk)
  <2>1. j.pc = "plan" /\ UNCHANGED lake
    BY <1>1, <1>5, PlanStep
  <2>2. CASE t \notin Uncached /\ Current(t, m, Fingerprint(t, m)) /\ GoesOn(mk, j, a)
    <3>1. t \notin raced =>
            /\ \A k \in Months : InputsNow(t, k) # Nothing(t) => k \in j.months
            /\ \A k \in j.months : k <= j.month => Brought(t, k)
            /\ \A k \in DOMAIN j.cache : j.cache[k] = InputsNow(t, k)
      BY <1>1, <2>1, <2>2, MonthDone
    <3> QED BY <1>3, <2>1, <2>2, <3>1, ProgressGoingOn
  <2>3. CASE /\ a.pc = "read" /\ a.stage = j.stage /\ a.months = j.months /\ a.month = j.month
             /\ a.cache = j.cache
    <3>1. TargetOf(mk, a) = t
      BY <1>3, <2>3 DEF TargetOf
    <3>2. \A k : InputsNow(t, k)' = InputsNow(t, k) /\ (Brought(t, k)' <=> Brought(t, k))
      BY <2>1 DEF Brought, InputsNow, Nothing, Fresh
    <3>3. JobProgress(mk, j)
      BY <1>1
    <3>4. t \notin raced =>
            /\ \A k \in Months : InputsNow(t, k)' # Nothing(t) => k \in a.months
            /\ \A k \in a.months : k < a.month => Brought(t, k)'
            /\ \A k \in DOMAIN a.cache : a.cache[k] = InputsNow(t, k)'
      BY <1>3, <2>1, <2>3, <3>2, <3>3 DEF JobProgress, Working
    <3> QED BY <1>3, <2>3, <3>1, <3>4 DEF JobProgress, Publication, TargetOf, Nothing
  <2> QED BY <1>1, <1>5, <2>2, <2>3, PlanStep
<1>6. CASE Read(mk)
  <2>1. j.pc = "read" /\ UNCHANGED lake
    BY <1>1, <1>6, ReadStep
  <2>2. t \notin raced => /\ \A k \in DOMAIN Cached(mk) : Cached(mk)[k] = InputsNow(t, k)
                          /\ m \in DOMAIN Cached(mk) /\ RowsRead(mk) = InputsOf(t, m)
    BY <1>1, <1>6, CalmRead
  <2>3. CASE Cached(mk)[m] = Nothing(t) /\ GoesOn(mk, [j EXCEPT !.cache = Cached(mk)], a)
    <3>1. PICK x : x = [j EXCEPT !.cache = Cached(mk)]
      OBVIOUS
    <3>2. x.stage = j.stage /\ x.months = j.months /\ x.month = m /\ x.cache = Cached(mk)
      BY <1>1, <3>1 DEF JobsOK, JobOK, IsJob
    <3>3. TargetOf(mk, x) = t
      BY <1>3, <3>2 DEF TargetOf
    <3>4. GoesOn(mk, x, a)
      BY <2>3, <3>1
    <3>5. t \notin raced =>
            /\ \A k \in Months : InputsNow(t, k) # Nothing(t) => k \in j.months
            /\ \A k \in j.months : k <= m => Brought(t, k)
      BY <1>1, <1>6, <2>3, EmptyMonth
    <3> QED BY <1>3, <2>1, <2>2, <3>2, <3>3, <3>4, <3>5, ProgressGoingOn
  <2>4. CASE /\ a.pc = "stage" /\ SameTarget(a, j) /\ a.cache = Cached(mk)
             /\ ComputedFrom(a.frame, RowsRead(mk))
    <3>1. TargetOf(mk, a) = t /\ a.month = m /\ a.months = j.months
      BY <1>1, <1>3, <2>4 DEF TargetOf, SameTarget
    <3>2. \A k : /\ InputsNow(t, k)' = InputsNow(t, k) /\ (Brought(t, k)' <=> Brought(t, k))
                 /\ InputsOf(t, k)' = InputsOf(t, k)
      BY <2>1 DEF Brought, InputsNow, Nothing, Fresh, InputsOf
    <3>3. JobProgress(mk, j)
      BY <1>1
    <3>4. t \notin raced =>
            /\ \A k \in Months : InputsNow(t, k) # Nothing(t) => k \in j.months
            /\ \A k \in j.months : k < m => Brought(t, k)
      BY <1>1, <1>3, <2>1, <3>3 DEF JobProgress, Working
    <3>5. t \notin raced =>
            /\ \A k \in Months : InputsNow(t, k)' # Nothing(t) => k \in a.months
            /\ \A k \in a.months : k < m => Brought(t, k)'
            /\ \A k \in DOMAIN a.cache : a.cache[k] = InputsNow(t, k)'
      BY <2>2, <2>4, <3>1, <3>2, <3>4
    <3>6. t \notin raced => ComputedFrom(a.frame, InputsOf(t, m)')
      BY <2>2, <2>4, <3>2
    <3> QED BY <1>3, <2>4, <3>1, <3>5, <3>6 DEF JobProgress, TargetOf, Nothing, ComputedFrom
  <2> QED BY <1>1, <1>6, <2>3, <2>4, ReadStep
<1>7. CASE Stage(mk)
  <2>1. SameWork(a, job[mk]) /\ {a.pc, job[mk].pc} \subseteq Publication
    BY <1>1, <1>7, StageStep DEF Publication
  <2> QED BY <2>1, ProgressStays
<1>8. CASE MoveAside(mk)
  <2>1. SameWork(a, job[mk]) /\ {a.pc, job[mk].pc} \subseteq Publication
    BY <1>1, <1>8, MoveAsideStep DEF Publication
  <2> QED BY <2>1, ProgressStays
<1>9. CASE Land(mk)
  <2>1. SameWork(a, job[mk]) /\ {a.pc, job[mk].pc} \subseteq Publication
    BY <1>1, <1>9, LandStep DEF Publication
  <2> QED BY <2>1, ProgressStays
<1>10. CASE Declare(mk)
  <2>1. j.pc = "declare" /\ UNCHANGED lake /\ GoesOn(mk, j, a)
    BY <1>1, <1>10, DeclareStep
  <2>2. t \notin raced =>
            /\ \A k \in Months : InputsNow(t, k) # Nothing(t) => k \in j.months
            /\ \A k \in j.months : k <= j.month => Brought(t, k)
            /\ \A k \in DOMAIN j.cache : j.cache[k] = InputsNow(t, k)
    BY <1>1, <2>1, MonthDone
  <2> QED BY <1>3, <2>1, <2>2, ProgressGoingOn
<1>11. CASE Vanish(mk) \/ Fault(mk)
  BY <1>11, VanishStep, FaultStep
<1> QED BY <1>4, <1>5, <1>6, <1>7, <1>8, <1>9, <1>10, <1>11 DEF JobAction, JobStep

\* What no job will build again, no job of the run changes, nor what it was built from.
LEMMA FinishedStays ==
    ASSUME FilesOK, JobsOK, RunOK, InOrder, NEW mk \in DOMAIN job, JobAction(mk),
           NEW t \in Built(scheduled) \ (raced \cup Overtaken), Finished(t), UpToDate(t)
    PROVE  UpToDate(t)'
<1>1. PICK p \in scheduled : t \in ToSet(Handler[p])
  BY DEF Built
<1>2. p \notin waiting
  BY <1>1 DEF Finished
<1>3. /\ mk \in DOMAIN Handler /\ Running /\ mk \in scheduled /\ p \in ToSet(selection)
      /\ mk \in ToSet(selection) /\ Target(mk) = Handler[mk][job[mk].stage]
      /\ Target(mk) \in ToSet(Handler[mk]) /\ job[mk].stage \in DOMAIN Handler[mk]
  BY <1>1, JobFacts DEF Target, RunOK, JobsOK, JobOK
<1>4. t \in Targets
  BY <1>1, <1>3 DEF Targets, Built
<1>5. ASSUME NEW i \in DOMAIN Handler[mk], Handler[mk][i] = t PROVE i < job[mk].stage
  <2>1. job[mk].pc # "done"
    BY StepSummary DEF Working, Publication
  <2> QED BY <1>5, <2>1 DEF Finished
<1>6. ASSUME t \in ToSet(Handler[mk])
      PROVE  t # Target(mk) /\ File(Target(mk)) \notin Inputs(t)
  <2>1. PICK i \in DOMAIN Handler[mk] : Handler[mk][i] = t
    BY <1>6 DEF ToSet
  <2>2. i < job[mk].stage /\ i \in Nat /\ job[mk].stage \in Nat
    BY <1>3, <1>5, <2>1, HandlerTable
  <2>3. i <= job[mk].stage /\ i # job[mk].stage
    BY <2>2
  <2> QED BY <1>3, <2>1, <2>3, HandlerTable
<1>7. ASSUME t \notin ToSet(Handler[mk])
      PROVE  t # Target(mk) /\ File(Target(mk)) \notin Inputs(t)
  <2>1. t # Target(mk) /\ p # mk
    BY <1>1, <1>3, <1>7
  <2>2. CASE p \in DOMAIN job
    BY <1>1, <1>3, <2>1, <2>2, Apart
  <2>3. CASE p \notin DOMAIN job /\ mk \in Derived
    BY <1>3, <2>1, <2>3, DerivedTable
  <2>4. CASE p \notin DOMAIN job /\ mk \notin Derived
    <3>1. p \notin Derived /\ Position(p) < Position(mk)
      BY <1>1, <1>2, <1>3, <2>4 DEF InOrder
    <3>2. /\ Position(p) \in DOMAIN selection /\ selection[Position(p)] = p
          /\ Position(mk) \in DOMAIN selection /\ selection[Position(mk)] = mk
      BY <1>3, SelectedJobs DEF RunOK
    <3> SUFFICES ASSUME File(Target(mk)) \in Inputs(t) PROVE FALSE
      BY <2>1
    <3>3. PICK i, j \in DOMAIN selection : i < j /\ selection[i] = p /\ selection[j] = mk
      BY <3>1, <3>2
    <3>4. t \in Overtaken
      BY <1>1, <1>3, <1>4, <1>7, <3>1, <3>3 DEF Overtaken
    <3> QED BY <3>4
  <2> QED BY <2>1, <2>2, <2>3, <2>4
<1>8. InputsStay(t)
  <2> SUFFICES ASSUME NEW s \in Inputs(t), NEW k \in Months PROVE lake'[s][k] = lake[s][k]
    BY DEF InputsStay
  <2>1. s \in Files /\ s # File(Target(mk))
    BY <1>4, <1>6, <1>7, InputFiles
  <2> QED BY <2>1, StepSummary DEF Touches, FilesOK
<1>9. ASSUME NEW k \in Months PROVE Brought(t, k)'
  <2>1. InputsNow(t, k)' = InputsNow(t, k)
    BY <1>8, InputsStaying
  <2>2. Brought(t, k)
    BY DEF UpToDate
  <2>3. lake'[File(t)][k] = lake[File(t)][k]
    BY <1>4, <1>6, <1>7, Elsewhere
  <2>4. Fresh(t, k)' <=> Fresh(t, k)
    BY <1>8, <2>3, FreshStays
  <2> QED BY <2>1, <2>2, <2>4 DEF Brought, Nothing
<1> QED BY <1>9 DEF UpToDate

\* A job finishes a target when its last month is fresh.
LEMMA Finishes ==
    ASSUME FilesOK, JobsOK, RunOK, Directories, ManifestsSound, JobsCover,
           NEW mk \in DOMAIN job, JobAction(mk), calm' # FALSE, JobProgress(mk, job[mk]),
           NEW t, t \notin raced, ~Finished(t), Finished(t)'
    PROVE  UpToDate(t)'
<1>1. PICK j, a : j = job[mk] /\ a = job'[mk]
  OBVIOUS
<1>2. /\ UNCHANGED waiting /\ Alone(mk) /\ mk \in DOMAIN Handler
      /\ j.stage \in DOMAIN Handler[mk] /\ DOMAIN Handler[mk] = 1..Len(Handler[mk])
      /\ Len(Handler[mk]) \in Nat /\ Target(mk) = Handler[mk][j.stage]
  BY <1>1, StepSummary, JobFacts, HandlerTable DEF Alone, Unchanged, JobsOK, JobOK, Target
<1>3. PICK i \in DOMAIN Handler[mk] :
            /\ Handler[mk][i] = t /\ j.pc # "done" /\ ~(i < j.stage)
            /\ a.pc = "done" \/ i < a.stage
  <2>0. PICK q \in DOMAIN job : \E i \in DOMAIN Handler[q] :
            Handler[q][i] = t /\ job[q].pc # "done" /\ ~(i < job[q].stage)
    BY <1>2 DEF Finished
  <2>1. PICK i \in DOMAIN Handler[q] :
            Handler[q][i] = t /\ job[q].pc # "done" /\ ~(i < job[q].stage)
    BY <2>0
  <2>2. job'[q].pc = "done" \/ i < job'[q].stage
    BY <1>2, <2>1 DEF Finished, Alone
  <2>3. q = mk
    BY <1>2, <2>1, <2>2 DEF Alone
  <2> QED BY <1>1, <2>1, <2>2, <2>3
<1>4. a.stage # j.stage \/ a.pc = "done"
  BY <1>3
<1>5. ASSUME \/ a.pc = "done" /\ a.stage = j.stage /\ j.stage = Len(Handler[mk])
             \/ a.pc = "discover" /\ a.stage = j.stage + 1
      PROVE  t = Target(mk)
  <2>1. i = j.stage
    BY <1>2, <1>3, <1>5
  <2> QED BY <1>2, <1>3, <2>1
<1>6. ASSUME UNCHANGED lake, UpToDate(t) PROVE UpToDate(t)'
  BY <1>6 DEF UpToDate, Brought, InputsNow, Nothing, Fresh
<1>7. CASE Discover(mk)
  <2>1. /\ UNCHANGED lake /\ a.pc \in {"plan", "discover", "done"}
        /\ a.pc = "plan" => a.stage = j.stage
        /\ a.pc # "plan" => ListedMonths(Target(mk)) = {}
        /\ a.pc = "discover" => a.stage = j.stage + 1
        /\ a.pc = "done" => a.stage = j.stage /\ j.stage = Len(Handler[mk])
    BY <1>1, <1>7, DiscoverStep
  <2>2. t = Target(mk) /\ a.pc # "plan"
    BY <1>4, <1>5, <2>1
  <2>3. t \in Targets
    BY <2>2, JobFacts
  <2>4. \A m \in Months : InputsNow(t, m) = Nothing(t)
    BY <2>1, <2>2, <2>3, HeldIsListed
  <2>5. UpToDate(t)
    BY <2>4 DEF UpToDate, Brought
  <2> QED BY <1>6, <2>1, <2>5
<1>8. ASSUME GoesOn(mk, j, a), UNCHANGED lake,
             \/ j.pc = "declare"
             \/ /\ j.pc = "plan" /\ Target(mk) \notin Uncached
                /\ Current(Target(mk), j.month, Fingerprint(Target(mk), j.month))
      PROVE  UpToDate(t)'
  <2>1. t = Target(mk) /\ a.pc # "plan"
    BY <1>4, <1>5, <1>8 DEF GoesOn
  <2>2. /\ \A k \in Months : InputsNow(t, k) # Nothing(t) => k \in j.months
        /\ \A k \in j.months : k <= j.month => Brought(t, k)
    BY <1>1, <1>8, <2>1, MonthDone
  <2>3. \A k \in j.months : k <= j.month
    BY <1>8, <2>1 DEF GoesOn
  <2>4. UpToDate(t)
    BY <2>2, <2>3 DEF UpToDate, Brought
  <2> QED BY <1>6, <1>8, <2>4
<1>9. CASE Plan(mk)
  BY <1>1, <1>4, <1>8, <1>9, PlanStep
<1>10. CASE Read(mk)
  <2>1. CASE /\ Cached(mk)[j.month] = Nothing(Target(mk))
             /\ GoesOn(mk, [j EXCEPT !.cache = Cached(mk)], a)
    <3>1. PICK x : x = [j EXCEPT !.cache = Cached(mk)]
      OBVIOUS
    <3>2. x.stage = j.stage /\ x.months = j.months /\ x.month = j.month
      BY <1>1, <3>1 DEF JobsOK, JobOK, IsJob
    <3>3. GoesOn(mk, x, a)
      BY <2>1, <3>1
    <3>4. t = Target(mk) /\ a.pc # "plan"
      BY <1>4, <1>5, <3>2, <3>3 DEF GoesOn
    <3>5. \A k \in j.months : k <= j.month
      BY <3>2, <3>3, <3>4 DEF GoesOn
    <3>6. /\ \A k \in Months : InputsNow(t, k) # Nothing(t) => k \in j.months
          /\ \A k \in j.months : k <= j.month => Brought(t, k)
      BY <1>1, <1>10, <2>1, <3>4, EmptyMonth
    <3>7. UpToDate(t)
      BY <3>5, <3>6 DEF UpToDate, Brought
    <3> QED BY <1>1, <1>6, <1>10, <3>7, ReadStep
  <2>2. CASE a.pc = "stage" /\ SameTarget(a, j)
    BY <1>4, <2>2 DEF SameTarget
  <2> QED BY <1>1, <1>10, <2>1, <2>2, ReadStep
<1>11. CASE Stage(mk)
  BY <1>1, <1>4, <1>11, StageStep DEF SameWork, SameTarget
<1>12. CASE MoveAside(mk)
  BY <1>1, <1>4, <1>12, MoveAsideStep DEF SameWork, SameTarget
<1>13. CASE Land(mk)
  BY <1>1, <1>4, <1>13, LandStep DEF SameWork, SameTarget
<1>14. CASE Declare(mk)
  BY <1>1, <1>8, <1>14, DeclareStep
<1>15. CASE Vanish(mk) \/ Fault(mk)
  BY <1>15, VanishStep, FaultStep
<1> QED BY <1>7, <1>9, <1>10, <1>11, <1>12, <1>13, <1>14, <1>15 DEF JobAction, JobStep

\* A calm run keeps its progress at every step of a job.
LEMMA CalmJob ==
    ASSUME FilesOK, JobsOK, RunOK, Directories, ManifestsSound, JobsCover, InOrder, CalmOK,
           NEW mk \in DOMAIN job, JobAction(mk)
    PROVE  CalmOK'
<1>1. /\ Alone(mk) /\ UNCHANGED <<selection, scheduled, waiting, clean, raced>> /\ (calm' => calm)
      /\ Running /\ clean = {} /\ clean' = {}
  BY StepSummary, JobFacts DEF Alone, Unchanged, CalmOK
<1>2. Overtaken' = Overtaken
  BY <1>1, SelectionKept
<1>3. ASSUME calm', NEW q \in DOMAIN job PROVE JobProgress(q, job[q])'
  <2>1. JobProgress(q, job[q]) /\ JobProgress(mk, job[mk]) /\ calm' # FALSE
    BY <1>1, <1>3 DEF CalmOK
  <2> QED BY <2>1, OthersProgress, OwnProgress
<1>4. ASSUME calm', NEW t \in Built(scheduled) \ (raced \cup Overtaken), Finished(t)' PROVE UpToDate(t)'
  <2>1. (Finished(t) => UpToDate(t)) /\ JobProgress(mk, job[mk]) /\ calm' # FALSE
    BY <1>1, <1>4 DEF CalmOK
  <2> QED BY <1>4, <2>1, FinishedStays, Finishes
<1>5. DOMAIN job' = DOMAIN job /\ Built(scheduled)' = Built(scheduled)
  BY <1>1 DEF Alone, Built
<1> QED BY <1>1, <1>2, <1>3, <1>4, <1>5 DEF CalmOK

\* A run starts with nothing finished.
LEMMA CalmStart ==
    ASSUME FilesOK, JobsOK, RunOK, CalmOK, StartRun
    PROVE  CalmOK'
<1>1. clean' = {} /\ waiting' = scheduled' /\ DOMAIN job' = {}
  BY StartRunOK DEF StartRun, Idle
<1>2. ASSUME NEW t \in Built(scheduled') PROVE ~Finished(t)'
  BY <1>1, <1>2 DEF Built, Finished
<1>3. Built(scheduled)' = Built(scheduled')
  BY DEF Built
<1> QED BY <1>1, <1>2, <1>3 DEF CalmOK

\* No target is finished by starting a batch.
LEMMA CalmBatch ==
    ASSUME FilesOK, JobsOK, RunOK, CalmOK, NextBatch
    PROVE  CalmOK'
<1>1. /\ UNCHANGED <<selection, lake, scheduled, calm, clean>> /\ raced \subseteq raced'
      /\ Running /\ waiting' = waiting \ Batch /\ job' = [mk \in Batch |-> StartJob]
      /\ \A mk \in DOMAIN job : job[mk].pc = "done"
  BY DEF NextBatch
<1>2. Overtaken' = Overtaken
  BY <1>1, SelectionKept
<1>3. Batch \subseteq waiting /\ waiting \subseteq DOMAIN Handler
  BY <1>1, BatchFacts, SelectedJobs DEF RunOK
<1>4. ASSUME NEW mk \in Batch PROVE JobProgress(mk, job[mk])'
  <2>1. job'[mk] = StartJob
    BY <1>1
  <2> QED BY <2>1 DEF JobProgress, StartJob, Working, Publication
<1>5. ASSUME NEW t, Finished(t)' PROVE Finished(t)
  <2>1. ASSUME NEW mk \in waiting PROVE t \notin ToSet(Handler[mk])
    <3>1. CASE mk \in Batch
      <4>1. job'[mk] = StartJob /\ mk \in DOMAIN job'
        BY <1>1, <3>1
      <4>2. \A i \in DOMAIN Handler[mk] : Handler[mk][i] # t
        <5>1. \A i \in DOMAIN Handler[mk] : i \in Nat /\ ~(i < 1)
          BY <1>3, HandlerTable
        <5> QED BY <1>5, <4>1, <5>1 DEF Finished, StartJob
      <4> QED BY <4>2 DEF ToSet
    <3>2. CASE mk \notin Batch
      BY <1>1, <1>5, <3>2 DEF Finished
    <3> QED BY <3>1, <3>2
  <2> QED BY <1>1, <2>1 DEF Finished
<1>6. \A t : UpToDate(t)' <=> UpToDate(t)
  BY <1>1 DEF UpToDate, Brought, InputsNow, Nothing, Fresh
<1>7. Built(scheduled)' = Built(scheduled) /\ DOMAIN job' = Batch
  BY <1>1 DEF Built
<1>8. ASSUME calm, NEW t \in Built(scheduled) \ (raced' \cup Overtaken), Finished(t)' PROVE UpToDate(t)'
  <2>1. t \notin raced
    BY <1>1, <1>8
  <2>2. UpToDate(t)
    BY <1>1, <1>5, <1>8, <2>1 DEF CalmOK
  <2> QED BY <1>6, <2>2
<1> QED BY <1>1, <1>2, <1>4, <1>6, <1>7, <1>8 DEF CalmOK

\* When a calm run ends well every target of its jobs is finished.
LEMMA CalmEnd ==
    ASSUME FilesOK, JobsOK, RunOK, CalmOK, EndRun
    PROVE  CalmOK'
<1>1. /\ UNCHANGED <<selection, lake, calm, raced>> /\ Running /\ ~Running'
      /\ \A mk \in DOMAIN job : job[mk].pc \in {"done", "failed"}
  BY EndRunOK DEF EndRun, Settled
<1>2. Overtaken' = Overtaken
  BY <1>1, SelectionKept
<1>3. ASSUME NEW t \in clean' \ (raced \cup Overtaken) PROVE UpToDate(t)
  <2>1. /\ calm /\ t \in Built(scheduled) /\ waiting = {}
        /\ \A mk \in DOMAIN job : job[mk].pc # "failed"
    BY <1>3 DEF EndRun
  <2>2. Finished(t)
    BY <1>1, <2>1 DEF Finished
  <2> QED BY <1>1, <1>3, <2>1, <2>2 DEF CalmOK
<1>4. \A t : UpToDate(t)' <=> UpToDate(t)
  BY <1>1 DEF UpToDate, Brought, InputsNow, Nothing, Fresh
<1> QED BY <1>1, <1>2, <1>3, <1>4 DEF CalmOK

\* Kills and Bronze writes end the calm.
LEMMA CalmElse ==
    ASSUME FilesOK, JobsOK, RunOK, CalmOK, Kill \/ \E s \in BronzeSources, m \in Months : BronzeWrite(s, m)
    PROVE  CalmOK'
<1>1. calm' = FALSE /\ clean' = {}
  BY DEF Kill, BronzeWrite, CalmOK
<1> QED BY <1>1 DEF CalmOK

\* A run starts with nothing started.
LEMMA OrderRest ==
    ASSUME FilesOK, JobsOK, RunOK, (Running => InOrder),
           StartRun \/ EndRun \/ Kill \/ \E s \in BronzeSources, m \in Months : BronzeWrite(s, m)
    PROVE  (Running => InOrder)'
<1>1. CASE StartRun
  BY <1>1, StartRunOK DEF StartRun, InOrder
<1>2. CASE EndRun \/ Kill
  BY <1>2, EndRunOK, KillOK
<1>3. CASE \E s \in BronzeSources, m \in Months : BronzeWrite(s, m)
  <2>1. UNCHANGED <<selection, scheduled, waiting, job>>
    BY <1>3 DEF BronzeWrite
  <2>2. \A p : Position(p)' = Position(p)
    BY <2>1, SelectionKept
  <2> QED BY <2>1, <2>2 DEF InOrder, Running
<1> QED BY <1>1, <1>2, <1>3

-----------------------------------------------------------------------------
(* The invariant holds.                                                    *)

\* The invariant holds before the first run.
LEMMA InvariantHoldsInitially ==
    Init => IInv
<1> SUFFICES ASSUME Init PROVE IInv
  OBVIOUS
<1>1. ~Running /\ job = Idle /\ DOMAIN job = {} /\ clean = {} /\ raced = {} /\ orphans = {}
  BY DEF Init, Running, Idle
<1>2. FilesOK
  <2>1. PICK seeds : lake = [s \in Files |-> [m \in Months |-> IF s \in seeds /\ m = 1 THEN {1} ELSE NoFile]]
    BY DEF Init
  <2>2. ASSUME NEW s \in Files, NEW m \in Months
        PROVE  lake[s][m] = NoFile \/ \E v \in lake[s][m] : v \in Nat /\ lake[s][m] = {v}
    <3>1. lake[s][m] = {1} \/ lake[s][m] = NoFile
      BY <2>1
    <3> QED BY <3>1
  <2>3. DOMAIN lake = Files /\ \A s \in Files : DOMAIN lake[s] = Months
    BY <2>1
  <2>4. /\ DOMAIN manifest = Targets /\ \A t \in Targets : DOMAIN manifest[t] = Months
        /\ \A t \in Targets, m \in Months : manifest[t][m] = None
    BY DEF Init
  <2> QED BY <2>2, <2>3, <2>4 DEF FilesOK
<1>d. Directories
  <2>1. PICK seeds \in {{}, BronzeSources} :
            lake = [s \in Files |-> [m \in Months |-> IF s \in seeds /\ m = 1 THEN {1} ELSE NoFile]]
    BY DEF Init
  <2>2. ASSUME NEW s \in Files, NEW m \in Months, lake[s][m] # NoFile PROVE s[1] = "bronze"
    BY <2>1, <2>2 DEF BronzeSources
  <2>3. made = {}
    BY DEF Init
  <2> QED BY <1>1, <2>2, <2>3 DEF Directories, Listed
<1>3. JobsOK /\ JobsSound /\ JobsCover
  BY <1>1 DEF JobsOK, JobsSound, JobsCover
<1>4. RunOK
  <2>1. Cardinality(DOMAIN job) <= MaxProcesses
    BY <1>1, FS_EmptySet, Positive
  <2>2. Meets(DOMAIN job) = {}
    BY <1>1 DEF Meets
  <2>3. writes \in 0..MaxWrites /\ faults \in 0..MaxFaults
    BY Positive DEF Init
  <2>4. selection \in Selections /\ waiting = {}
    BY DEF Init
  <2> QED BY <1>1, <2>1, <2>2, <2>3, <2>4 DEF RunOK
<1>5. ManifestsSound /\ Covered
  <2>1. \A t \in Targets, m \in Months : manifest[t][m] = None
    BY DEF Init
  <2> QED BY <2>1 DEF ManifestsSound, Covered
<1>6. CalmOK
  BY <1>1 DEF CalmOK
<1> QED BY <1>1, <1>2, <1>d, <1>3, <1>4, <1>5, <1>6 DEF IInv

\* Every step keeps it, of the runs, of each job and of its environment.
LEMMA InvariantIsPreserved ==
    IInv /\ [Next]_vars => IInv'
<1> SUFFICES ASSUME IInv, [Next]_vars PROVE IInv'
  OBVIOUS
<1> USE DEF IInv
<1>1. CASE StartRun
  BY <1>1, StartRunOK, DirectoriesRest, CoveredRun, SoundRun, CalmStart, OrderRest
<1>2. CASE NextBatch
  <2>1. Running
    BY <1>2 DEF NextBatch
  <2> QED BY <1>2, <2>1, NextBatchOK, DirectoriesRest, CoveredRun, SoundRun, CalmBatch, OrderBatch
<1>3. CASE EndRun
  BY <1>3, EndRunOK, DirectoriesRest, CoveredRun, SoundRun, CalmEnd, OrderRest
<1>4. CASE Kill
  BY <1>4, KillOK, DirectoriesRest, CoveredKill, SoundRun, CalmElse, OrderRest
<1>5. ASSUME NEW mk \in DOMAIN job, JobAction(mk) PROVE IInv'
  <2>1. Running
    BY JobFacts
  <2>2. FilesOK' /\ JobsOK' /\ RunOK' /\ Directories'
    BY <1>5, FilesJob, JobsJob, RunJob, DirectoriesJob
  <2>3. ManifestsSound' /\ JobsSound'
    BY <1>5, ManifestsJob, SoundJob
  <2>4. Covered' /\ JobsCover'
    BY <1>5, CoveredJob
  <2>5. InOrder' /\ CalmOK'
    BY <1>5, <2>1, OrderJob, CalmJob
  <2> QED BY <2>2, <2>3, <2>4, <2>5
<1>6. CASE \E s \in BronzeSources, m \in Months : BronzeWrite(s, m)
  <2>1. PICK s \in BronzeSources, m \in Months : BronzeWrite(s, m)
    BY <1>6
  <2>2. FilesOK' /\ JobsOK' /\ RunOK' /\ Directories'
    BY <1>6, <2>1, BronzeOK, DirectoriesRest
  <2>3. ManifestsSound' /\ JobsSound' /\ Covered' /\ JobsCover'
    BY <2>1, SoundBronze, CoveredBronze
  <2> QED BY <1>6, <2>2, <2>3, CalmElse, OrderRest
<1>7. CASE UNCHANGED vars
  <2>0. UNCHANGED <<selection, lake, manifest, made, orphans, scheduled, waiting, job, calm, clean, raced,
            writes, faults>>
    BY <1>7 DEF vars
  <2>1. /\ Targets' = Targets /\ Files' = Files /\ Overtaken' = Overtaken /\ Running' = Running
        /\ Meets(DOMAIN job)' = Meets(DOMAIN job) /\ Idle' = Idle /\ Built(scheduled)' = Built(scheduled)
        /\ \A p : Position(p)' = Position(p)
    BY <2>0, SelectionKept DEF Running, Idle, Built
  <2>2. FilesOK' /\ JobsOK' /\ RunOK' /\ Directories'
    BY <2>0, <2>1 DEF FilesOK, JobsOK, RunOK, Directories, Listed, TargetOf
  <2>3. ManifestsSound' /\ JobsSound'
    <3>1. ManifestsSound'
      BY <2>0, <2>1 DEF ManifestsSound, Sound, Outdated, ComputedFrom
    <3>2. JobsSound'
      <4> SUFFICES ASSUME NEW q \in DOMAIN job PROVE JobSound(q, job[q])'
        BY <2>0 DEF JobsSound
      <4>1. PICK j : j = job[q]
        OBVIOUS
      <4>2. JobSound(q, j)
        BY <4>1 DEF JobsSound
      <4>3. /\ \A t, m : InputsNow(t, m)' = InputsNow(t, m)
            /\ \A t, m : InputsOf(t, m)' = InputsOf(t, m)
            /\ \A fp, t, m : Outdated(fp, t, m)' <=> Outdated(fp, t, m)
        BY <2>0 DEF InputsOf, InputsNow, Outdated
      <4>4. JobSound(q, j)'
        BY <2>0, <4>2, <4>3 DEF JobSound, Sound, ComputedFrom, TargetOf
      <4> QED BY <2>0, <4>1, <4>4
    <3> QED BY <3>1, <3>2
  <2>4. Covered' /\ JobsCover'
    BY <2>0, <2>1 DEF Covered, SetAside, JobsCover, JobCovers, TargetOf
  <2>5. (Running => InOrder)'
    BY <2>0, <2>1 DEF InOrder
  <2>6. CalmOK'
    <3>1. \A t : UpToDate(t)' <=> UpToDate(t)
      BY <2>0 DEF UpToDate, Brought, InputsNow, Nothing, Fresh
    <3>2. \A t : Finished(t)' <=> Finished(t)
      BY <2>0 DEF Finished
    <3>3. \A mk \in DOMAIN job : JobProgress(mk, job[mk])' <=> JobProgress(mk, job[mk])
      BY <2>0 DEF JobProgress, Brought, InputsOf, InputsNow, Nothing, Fresh, ComputedFrom, TargetOf
    <3> QED BY <2>0, <2>1, <3>1, <3>2, <3>3 DEF CalmOK
  <2> QED BY <2>2, <2>3, <2>4, <2>5, <2>6
<1> QED BY <1>1, <1>2, <1>3, <1>4, <1>5, <1>6, <1>7 DEF Next, Runner, Environment, JobAction

\* So it always holds.
LEMMA InvariantHolds ==
    Spec => []IInv
BY InvariantHoldsInitially, InvariantIsPreserved, PTL DEF Spec

-----------------------------------------------------------------------------
(* What follows from it.                                                   *)

\* Whatever the number of workers, a batch never has more jobs than they are, a job holds
\* a renamed-aside file only while it publishes, and manifests cover the months asked for.
THEOREM TypeCorrectness ==
    Spec => []TypeOK
<1>1. IInv => TypeOK
  <2> SUFFICES ASSUME IInv PROVE TypeOK
    OBVIOUS
  <2> USE DEF IInv
  <2>1. ASSUME NEW mk \in DOMAIN job
        PROVE  job[mk].months \subseteq Months /\ (job[mk].backup # NoFile => Publishing(mk))
    BY DEF JobsOK, JobOK, Publishing
  <2>2. DOMAIN job \subseteq ToSet(selection)
    BY JobFacts
  <2> QED BY <2>1, <2>2 DEF TypeOK, FilesOK, RunOK, Directories
<1> QED BY <1>1, InvariantHolds, PTL

\* A partition that a run reuses as unchanged was computed from exactly what its inputs
\* hold (load_current_manifest), for any Bronze writes, faults, kills and number of workers.
THEOREM ReuseIsFresh ==
    Spec => []ReusedIsFresh
<1>1. IInv => ReusedIsFresh
  BY CurrentIsFresh DEF IInv, ReusedIsFresh
<1> QED BY <1>1, InvariantHolds, PTL

\* What a publication replaced is never lost, however it fails (publish_partition_atomically).
THEOREM PublishedPartitionsStay ==
    Spec => []PublishedStays
<1>1. IInv => PublishedStays
  <2> SUFFICES ASSUME IInv PROVE PublishedStays
    OBVIOUS
  <2> USE DEF IInv
  <2>1. ASSUME NEW t \in Targets, NEW m \in Months, SetAside(t, m) PROVE BeingPublished(t, m)
    BY <2>1, JobFacts DEF SetAside, BeingPublished, Publishing
  <2> QED BY <2>1 DEF Covered, PublishedStays
<1> QED BY <1>1, InvariantHolds, PTL

\* A run that ended well, with nothing written meanwhile, has brought every partition it
\* scheduled up to date (_run_silver_build), for any order of its concurrent jobs.
THEOREM RunsBringUpToDate ==
    Spec => []RunBringsUpToDate
<1>1. IInv => RunBringsUpToDate
  BY DEF IInv, CalmOK, RunBringsUpToDate, UpToDate, Brought
<1> QED BY <1>1, InvariantHolds, PTL
=============================================================================
