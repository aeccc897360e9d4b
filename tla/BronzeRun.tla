----------------------------- MODULE BronzeRun -----------------------------
(***************************************************************************)
(* Runs of bronze-build: the fetch tasks of a plan one after another, the  *)
(* incremental persistence of their rows, and the one restart checkpoint   *)
(* that all plans share (run_bronze_build, IncrementalPersistor).          *)
(*                                                                         *)
(* Time is counted in intervals of a candle, PerDay of them in a UTC day;  *)
(* the start bound is interval 0.  Tasks are fetched in ascending order:   *)
(* the groups are sequential, and trade tasks, which do run in parallel,   *)
(* share only the checkpoint, which their callbacks never write.  Runs do  *)
(* not overlap (single_instance_lock).                                     *)
(***************************************************************************)
EXTENDS Integers, FiniteSets, FiniteSetsExt

CONSTANTS Tasks,     \* tasks, numbered in the order they are fetched
          Kind,      \* of a task: "standard", "worker", "volatility", "trade"
          Plans,     \* plans runs are started with: [tasks, tail]
          SaveModes, \* values of --save-parquet-lake
          PerDay,    \* intervals of a day
          MaxTime,   \* bound: intervals
          MaxFaults  \* bound: failing tasks and killed runs

ASSUME BronzeAssumption ==
    /\ Tasks \subseteq Nat /\ IsFiniteSet(Tasks)
    /\ Kind \in [Tasks -> {"standard", "worker", "volatility", "trade"}]
    /\ Plans # {} /\ Plans \subseteq [tasks : (SUBSET Tasks) \ {{}}, tail : BOOLEAN]
    /\ SaveModes \subseteq BOOLEAN
    /\ PerDay \in Nat \ {0} /\ {MaxTime, MaxFaults} \subseteq Nat

VARIABLES
    now,      \* intervals closed so far: 0 .. now - 1
    lake,     \* intervals of each task stored in Bronze
    file,     \* the checkpoint file: at most one [plan, done]
    pc,       \* idle, fetch, chunk, mark, complete, record
    plan, save,
    enabled,  \* checkpoint_enabled
    done,     \* completed tasks as the run knows them
    todo,     \* pending tasks, the current one first
    got,      \* rows of each fetched task
    left,     \* rows of the current task still to be streamed
    results,  \* tasks fetched and not yet recorded in the final loop
    errors,   \* tasks that failed
    claims,   \* history: <<interval, save>> a run held when it recorded the task
    since,    \* history: time at which the first of the runs a plan resumes began
    faults

taskVars == <<todo, got, left, results, errors>>
runVars == <<plan, save, enabled, done, taskVars>>
vars == <<now, lake, file, pc, runVars, claims, since, faults>>

Ticks == 0..(MaxTime - 1)
Current == Min(todo)
Day(x) == x \div PerDay
DayStart(x) == Day(x) * PerDay

NoRows == [t \in Tasks |-> {}]
NoPlan == CHOOSE p \in Plans : TRUE

Init ==
    /\ now = 0 /\ lake = NoRows /\ file = {}
    /\ pc = "idle" /\ plan = NoPlan /\ save = FALSE /\ enabled = FALSE /\ done = {}
    /\ todo = {} /\ got = NoRows /\ left = {} /\ results = {} /\ errors = {}
    /\ claims = NoRows /\ since = [p \in Plans |-> 0] /\ faults = 0

Tick ==
    /\ now < MaxTime /\ now' = now + 1
    /\ UNCHANGED <<lake, file, pc, runVars, claims, since, faults>>

Checkpointed(p) == \E c \in file : c.plan = p

\* Mutants of Loaded: another plan's checkpoint; a full-gap run's own.
LoadedOfAnyPlan(p, on) == IF on /\ p.tail THEN UNION {c.done : c \in file} ELSE {}
LoadedInFullGap(p, on) == IF on THEN UNION {c.done : c \in {k \in file : k.plan = p}} ELSE {}

\* load_bronze_checkpoint: the tasks of a checkpoint with this plan's fingerprint;
\* full-gap runs ignore it.
Loaded(p, on) ==
    IF on /\ p.tail THEN UNION {c.done : c \in {k \in file : k.plan = p}} ELSE {}

\* A run starts, resuming from the checkpoint; tasks completed before are skipped.
Start(p, s) ==
    LET on == s \/ file # {} IN
    LET known == Loaded(p, on) IN
    /\ pc = "idle"
    /\ pc' = IF p.tasks \subseteq known THEN "record" ELSE "fetch"
    /\ plan' = p /\ save' = s /\ enabled' = on
    /\ done' = known /\ todo' = p.tasks \ known
    /\ got' = NoRows /\ left' = {} /\ results' = {} /\ errors' = {}
    /\ since' = [q \in Plans |-> IF q = p /\ s /\ ~(p.tail /\ Checkpointed(p)) THEN now
                                 ELSE IF Checkpointed(q) /\ (q = p => s) THEN since[q] ELSE 0]
    /\ UNCHANGED <<now, lake, file, claims, faults>>

\* Mutant of Wanted: the interval in progress is fetched as well.
WantedOpen(t) == (0..now) \ lake[t]

\* What a task asks the exchange for: a tail run what follows its latest stored
\* row, within today; a full-gap run every interval missing in the lake.
Wanted(t) ==
    IF plan.tail
    THEN {x \in DayStart(now)..(now - 1) : \A y \in lake[t] : y < x}
    ELSE (0..(now - 1)) \ lake[t]

\* Failing windows of a trade task are skipped; other tasks get all they want.
Answers(t) == IF Kind[t] = "trade" THEN SUBSET Wanted(t) ELSE {Wanted(t)}

\* Rows are streamed in chunks while the lake has none, and by full-gap trade tasks.
Streams(t) == save /\ (lake[t] = {} \/ (Kind[t] = "trade" /\ ~plan.tail))

Fetch ==
    /\ pc = "fetch"
    /\ \E rows \in Answers(Current) :
        /\ got' = [got EXCEPT ![Current] = rows]
        /\ left' = IF Streams(Current) THEN rows ELSE {}
        /\ pc' = IF left' = {} THEN "complete" ELSE "chunk"
    /\ UNCHANGED <<now, lake, file, plan, save, enabled, done, todo, results, errors, claims, since, faults>>

NextPhase == IF left' = {} THEN "complete" ELSE "chunk"

\* on_*_task_chunk: a day's rows are persisted, oldest day first.
PersistChunk ==
    /\ pc = "chunk"
    /\ LET rows == {x \in left : Day(x) = Day(Min(left))} IN
        /\ lake' = [lake EXCEPT ![Current] = @ \cup rows]
        /\ left' = left \ rows
    /\ pc' = IF Kind[Current] = "trade" THEN NextPhase ELSE "mark"
    /\ UNCHANGED <<now, file, plan, save, enabled, done, todo, got, results, errors, claims, since, faults>>

\* _mark_checkpoint_complete: add the task and replace the file atomically.
Record(t, rows) ==
    /\ file' = IF enabled THEN {[plan |-> plan, done |-> done \cup {t}]} ELSE file
    /\ claims' = [x \in Tasks |-> IF x = t THEN claims[x] \cup (rows \X {save})
                                  ELSE IF x \in done THEN claims[x] ELSE {}]

\* ... and the task is marked complete.  A worker process (an open-interest task
\* with a timeout) marks it in its own memory and in the file, not in its parent's.
MarkChunk ==
    /\ pc = "mark"
    /\ Record(Current, got[Current] \ left)
    /\ done' = IF Kind[Current] = "worker" THEN done ELSE done \cup {Current}
    /\ pc' = IF left = {} THEN "complete" ELSE "chunk"
    /\ UNCHANGED <<now, lake, plan, save, enabled, taskVars, since, faults>>

Advance == pc' = IF todo' = {} THEN "record" ELSE "fetch"

\* Mutants of Persisted: gap rows are kept for an output that is never written;
\* the latest stored row is taken for the end of what is stored.
StreamedOnly(t) == lake[t]
LastRowOnly(t) == IF save /\ got[t] # {} THEN lake[t] \cup {Max(got[t])} ELSE lake[t]

\* on_*_task_complete persists the rows, unless they were streamed and so are in
\* already; volatility tasks have no such callback.
Persisted(t) == IF save /\ Kind[t] # "volatility" THEN lake[t] \cup got[t] ELSE lake[t]

Complete ==
    /\ pc = "complete"
    /\ lake' = [lake EXCEPT ![Current] = Persisted(Current)]
    /\ results' = results \cup {Current} /\ todo' = todo \ {Current}
    /\ Advance
    /\ UNCHANGED <<now, file, plan, save, enabled, done, got, left, errors, claims, since, faults>>

\* The fetch, or the persistence of its rows, raises: the task is in error and the
\* run goes on.
Fail ==
    /\ pc \in {"fetch", "chunk", "mark", "complete"} /\ faults < MaxFaults
    /\ faults' = faults + 1
    /\ errors' = errors \cup {Current} /\ todo' = todo \ {Current} /\ left' = {}
    /\ Advance
    /\ UNCHANGED <<now, lake, file, plan, save, enabled, done, got, results, claims, since>>

\* The process and what it held in memory are gone.
Exit ==
    /\ pc' = "idle" /\ plan' = NoPlan /\ save' = FALSE /\ enabled' = FALSE /\ done' = {}
    /\ todo' = {} /\ got' = NoRows /\ left' = {} /\ results' = {} /\ errors' = {}

\* The process ends, by a signal or an error outside of any task.
Kill ==
    /\ pc # "idle" /\ faults < MaxFaults
    /\ faults' = faults + 1
    /\ Exit
    /\ UNCHANGED <<now, lake, file, claims, since>>

\* After all tasks every result is recorded, one checkpoint write each.
RecordResult ==
    /\ pc = "record" /\ results # {}
    /\ LET t == Min(results) IN
        /\ Record(t, got[t])
        /\ done' = done \cup {t} /\ results' = results \ {t}
    /\ UNCHANGED <<now, lake, pc, plan, save, enabled, todo, got, left, errors, since, faults>>

\* A run without errors removes the checkpoint.
Finish ==
    /\ pc = "record" /\ results = {}
    /\ IF enabled /\ errors = {}
       THEN file' = {} /\ claims' = NoRows /\ since' = [p \in Plans |-> 0]
       ELSE UNCHANGED <<file, claims, since>>
    /\ Exit
    /\ UNCHANGED <<now, lake, faults>>

Work == Fetch \/ PersistChunk \/ MarkChunk \/ Complete \/ RecordResult \/ Finish

Next ==
    \/ Tick \/ Work \/ Fail \/ Kill
    \/ \E p \in Plans, s \in SaveModes : Start(p, s)

Spec == Init /\ [][Next]_vars

\* Time passes, a run that is not killed proceeds, and the scheduler starts a saving
\* run of every plan again and again.
FairSpec ==
    /\ Spec
    /\ WF_vars(Tick) /\ WF_vars(Work)
    /\ \A p \in Plans : SF_vars(Start(p, TRUE))

-----------------------------------------------------------------------------
(* Properties.                                                             *)

\* Type invariant; only closed intervals are ever stored (_last_closed_open_ms).
TypeOK ==
    /\ now \in 0..MaxTime
    /\ lake \in [Tasks -> SUBSET (0..(now - 1))]
    /\ file \subseteq [plan : Plans, done : SUBSET Tasks] /\ Cardinality(file) <= 1
    /\ pc \in {"idle", "fetch", "chunk", "mark", "complete", "record"}
    /\ plan \in Plans /\ {save, enabled} \subseteq BOOLEAN
    /\ {done, todo, results, errors} \subseteq SUBSET Tasks
    /\ got \in [Tasks -> SUBSET Ticks] /\ left \subseteq Ticks
    /\ claims \in [Tasks -> SUBSET (Ticks \X BOOLEAN)]
    /\ since \in [Plans -> 0..MaxTime] /\ faults \in 0..MaxFaults

Recorded == UNION {c.done : c \in file}
Streamed(t) == Kind[t] \in {"standard", "worker"}

\* A task in the checkpoint is not fetched again by the run that resumes it, so the
\* rows held when it was recorded are in the lake: wherever the run is killed, the
\* checkpoint is never ahead of the lake ("restart-safe Bronze checkpoints",
\* README.md:40).  Except for the rows of runs without saving, and of volatility tasks,
\* which have no completion callback: those are recorded and never persisted.
SavedIsPersisted ==
    \A t \in Recorded : Kind[t] # "volatility" =>
        {c[1] : c \in {x \in claims[t] : x[2]}} \subseteq lake[t]

Successful == pc = "record" /\ results = {} /\ errors = {} /\ save

\* A chain of tail runs that resume one another on one day, whatever tasks failed or
\* where they were killed, and whatever runs of other plans overwrote the checkpoint
\* between them, has stored the whole day up to the time its first run began when
\* its last one succeeds (apply_checkpoint_filter).
ResumeIsComplete ==
    Successful /\ plan.tail /\ Day(since[plan]) = Day(now) =>
        \A t \in plan.tasks : Streamed(t) =>
            DayStart(now)..(since[plan] - 1) \subseteq lake[t]

\* A successful full-gap run leaves no interval before its start missing, even if
\* an interrupted one before it left its checkpoint (README.md:261).
FullGapIsComplete ==
    Successful /\ ~plan.tail =>
        \A t \in plan.tasks : Streamed(t) => 0..(since[plan] - 1) \subseteq lake[t]

\* Every interval is stored in the end: once tasks stop failing, the holes that tail
\* runs, killed runs and skipped tasks left are filled by full-gap runs.
GapsAreFilled ==
    \A p \in Plans : ~p.tail =>
        \A t \in p.tasks : Streamed(t) => <>(lake[t] = Ticks)
=============================================================================
