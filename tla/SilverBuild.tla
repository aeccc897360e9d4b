---------------------------- MODULE SilverBuild ----------------------------
(***************************************************************************)
(* silver-build for one symbol: batches of concurrent jobs rebuild the     *)
(* monthly partitions whose inputs changed, while Bronze is being written. *)
(*                                                                         *)
(* What a partition holds is abstracted to what it was computed from: per  *)
(* month and input the content that was read.  A file's identity in a      *)
(* fingerprint is its content (its modification time, which only adds      *)
(* rebuilds of unchanged content, is left out).                            *)
(***************************************************************************)
EXTENDS Naturals, Sequences, FiniteSets, FiniteSetsExt, SequencesExt

CONSTANTS
    Selections,     \* --dataset lists, each without repetition
    MaxProcesses,   \* --maxprocesses
    LastMonth,      \* bound: months are 1..LastMonth
    LookbackMonths, \* months before a target that its rolling windows reach into
    MaxWrites,      \* bound: Bronze partitions written after the first run
    MaxFaults,      \* bound: failing file operations and kills
    None

Months == 1..LastMonth

-----------------------------------------------------------------------------
(* What the jobs build, and from what.                                     *)

\* market_handlers of run_silver_build: the partitions a job builds, in order.
Handler == [
    spot_ohlcv |-> <<"spot_ohlcv">>,
    perps_ohlcv |-> <<"perps_ohlcv">>,
    funding |-> <<"funding_observed", "funding_1m_feature">>,
    open_interest |-> <<"open_interest_observed", "open_interest_1m_feature">>,
    perps_trades |-> <<"perps_trades_observed", "perps_trades_1m_feature">>,
    options_trades |-> <<"options_trades_observed", "options_trades_1m_feature">>,
    volatility_index_data |-> <<"volatility_index_data_observed", "volatility_index_1m_feature">>,
    volatility_index_snapshot_1m |-> <<"volatility_index_snapshot_1m_observed", "volatility_index_1m_feature">>,
    realized_volatility |-> <<"realized_volatility_1m_feature">>,
    iv_rv |-> <<"iv_rv_1m_feature">>,
    index_price_snapshot_1m |-> <<"index_price_observed", "index_price_1m_feature">>,
    futures_summary_snapshot_1m |-> <<"futures_summary_observed", "futures_summary_1m_feature">>,
    options_ticker_snapshot_1m |-> <<"options_ticker_observed">>,
    options_instrument_ticker_snapshot_1m |-> <<"options_instrument_ticker_observed">>,
    options_surface_1m_feature |-> <<"options_surface_1m_feature">>,
    perps_l2_snapshot_1m |-> <<"perps_l2_observed", "perps_l2_1m_feature">>,
    options_l2_snapshot_1m |-> <<"options_l2_observed", "options_l2_1m_feature">>,
    recent_trade_snapshot_1m |-> <<"recent_trade_observed">>,
    instrument_metadata_snapshot_daily |-> <<"instrument_metadata_observed">>,
    futures_instrument_metadata_snapshot_daily |-> <<"futures_instrument_metadata_observed">>,
    historical_volatility |-> <<"historical_volatility_observed">>,
    historical_prediction |-> <<"historical_prediction_1m_feature">> ]

Silver(names) == {<<"silver", n>> : n \in names}

\* The Silver inputs of each feature; the trade features also read the confirmed
\* empty minutes of Bronze, and everything else is observed from Bronze.
FeatureInputs == [
    funding_1m_feature |-> Silver({"funding_observed"}),
    open_interest_1m_feature |-> Silver({"open_interest_observed"}),
    perps_trades_1m_feature |-> Silver({"perps_trades_observed"}) \cup {<<"bronze", "perps_trades_empty_minutes">>},
    options_trades_1m_feature |-> Silver({"options_trades_observed"}) \cup {<<"bronze", "options_trades_empty_minutes">>},
    volatility_index_1m_feature |->
        Silver({"volatility_index_data_observed", "volatility_index_snapshot_1m_observed"}),
    realized_volatility_1m_feature |-> Silver({"spot_ohlcv", "perps_ohlcv"}),
    iv_rv_1m_feature |-> Silver({"volatility_index_1m_feature", "realized_volatility_1m_feature"}),
    index_price_1m_feature |-> Silver({"index_price_observed"}),
    futures_summary_1m_feature |-> Silver({"futures_summary_observed"}),
    options_surface_1m_feature |-> Silver({"options_ticker_observed", "options_instrument_ticker_observed"}),
    perps_l2_1m_feature |-> Silver({"perps_l2_observed"}),
    options_l2_1m_feature |-> Silver({"options_l2_observed"}),
    historical_prediction_1m_feature |->
        Silver({"perps_ohlcv", "spot_ohlcv", "funding_1m_feature", "open_interest_1m_feature",
                "perps_trades_1m_feature", "options_trades_1m_feature"}) ]

Inputs(t) == IF t \in DOMAIN FeatureInputs THEN FeatureInputs[t] ELSE {<<"bronze", t>>}

\* Features that are rebuilt in every run: their manifests are never consulted.
Uncached == {"funding_1m_feature", "open_interest_1m_feature", "perps_trades_1m_feature",
             "options_trades_1m_feature", "historical_prediction_1m_feature"}

\* Features whose rolling windows reach into earlier months.
Rolling == {"volatility_index_1m_feature", "realized_volatility_1m_feature", "iv_rv_1m_feature"}

\* Features that carry state through all the months a run builds.
Carrying == {"perps_trades_1m_feature", "options_trades_1m_feature", "historical_prediction_1m_feature"}

\* lookback_month_keys and the month itself
CalculationKeys(t, m) ==
    {k \in Months : k <= m /\ (t \in Carrying \/ k = m \/ (t \in Rolling /\ k + LookbackMonths >= m))}

\* iv_rv and historical_prediction wait for every source job; the others do not wait.
Derived == {"historical_prediction", "iv_rv"}

\* A list that names a scheduled job twice is an error (topological_work_order).
ASSUME SilverAssumption ==
    /\ MaxProcesses \in 1..4 /\ LastMonth \in Nat \ {0}
    /\ {LookbackMonths, MaxWrites, MaxFaults} \subseteq Nat
    /\ \A list \in Selections : list \in Seq(DOMAIN Handler) /\ IsInjective(list)
    /\ \A list \in Selections : \A jobs \in SUBSET ToSet(list) : jobs # None

-----------------------------------------------------------------------------
VARIABLES
    selection, \* the --dataset list the command is run with
    lake,      \* content of each partition file: {} when there is no file
    manifest,  \* manifest of each Silver partition: [fp, out], or None
    made,      \* Silver partitions whose directory a publication has made
    orphans,   \* partitions with a leftover of an interrupted publication
    scheduled, \* jobs of the run, None between runs
    waiting,   \* those of them that have not been started
    job,       \* the jobs of the running batch
    calm,      \* history: no write and no fault since the run began
    clean,     \* history: targets of the last run, if it ended well and calm
    raced,     \* history: targets ever built in one batch with one of their inputs, or twice
    writes, faults \* how many have happened

vars == <<selection, lake, manifest, made, orphans, scheduled, waiting, job, calm, clean, raced, writes, faults>>

Running == scheduled # None
Built(jobs) == UNION {ToSet(Handler[mk]) : mk \in jobs}
Targets == Built(ToSet(selection))
Sources == UNION {Inputs(t) : t \in Targets}
BronzeSources == {s \in Sources : s[1] = "bronze"}
Files == Sources \cup Silver(Targets)
File(t) == <<"silver", t>>
NoFile == {}

\* A directory of the partition; a publication that failed or was killed may leave it empty.
Listed(s, m) == IF s[1] = "silver" THEN <<s[2], m>> \in made ELSE lake[s][m] # NoFile

\* What the inputs of a month hold now.
InputsNow(t, m) == [s \in Inputs(t) |-> lake[s][m]]
Nothing(t) == [s \in Inputs(t) |-> NoFile]

\* Mutant of Fingerprint: only the files of the target month are fingerprinted.
FingerprintOfMonth(t, m) ==
    [k \in CalculationKeys(t, m) |-> IF k = m THEN InputsNow(t, k) ELSE Nothing(t)]

\* source_fingerprint over the files of the calculation months that exist
Fingerprint(t, m) == [k \in CalculationKeys(t, m) |-> InputsNow(t, k)]

\* load_current_manifest: the partition is reused.
Current(t, m, fp) ==
    /\ lake[File(t)][m] # NoFile
    /\ manifest[t][m] # None
    /\ manifest[t][m].fp = fp
    /\ manifest[t][m].out = lake[File(t)][m]

-----------------------------------------------------------------------------
(* A run.                                                                  *)

Idle == [mk \in {} |-> None]

\* _discover_effective_symbols, once before any job runs: a Bronze partition of the job's
\* dataset, or one of a Silver input when it reads no Bronze; predictions need both prices.
Discovered(mk) ==
    LET has(s) == \E m \in Months : Listed(s, m)
        raw == UNION {{s \in Inputs(t) : s[1] = "bronze"} : t \in ToSet(Handler[mk])}
    IN CASE mk = "historical_prediction" -> \A s \in Silver({"spot_ohlcv", "perps_ohlcv"}) : has(s)
         [] raw # {} -> \E s \in raw : has(s)
         [] OTHER -> \E s \in Inputs(Handler[mk][1]) : has(s)

\* Two jobs of a batch meet at a target: both build it, or one builds what it reads.
Meets(batch) == {t \in Targets : \E p, q \in batch : p # q /\ t \in ToSet(Handler[p])
                    /\ (t \in ToSet(Handler[q]) \/ \E u \in ToSet(Handler[q]) : File(u) \in Inputs(t))}

StartJob == [stage |-> 1, pc |-> "discover", months |-> {}, month |-> 0, source |-> None,
             fp |-> None, cache |-> None, frame |-> None, had |-> FALSE, backup |-> NoFile]

StartRun ==
    /\ ~Running
    /\ scheduled' = {mk \in ToSet(selection) : Discovered(mk)}
    /\ waiting' = scheduled'
    /\ calm' = TRUE /\ clean' = {}
    /\ UNCHANGED <<selection, lake, manifest, made, orphans, job, raced, writes, faults>>

Settled == \A mk \in DOMAIN job : job[mk].pc \in {"done", "failed"}

\* The waiting jobs whose dependencies are complete, in the order of the list.
Ready == IF waiting \subseteq Derived THEN waiting ELSE waiting \ Derived
Position(mk) == CHOOSE i \in DOMAIN selection : selection[i] = mk
Ahead == [mk \in Ready |-> {other \in Ready : Position(other) < Position(mk)}]

\* Mutant of Batch: the worker bound is not applied.
BatchUnbounded == Ready

\* bounded_work_batches: as many as there are workers.
Batch == {mk \in Ready : Cardinality(Ahead[mk]) < MaxProcesses}

\* The next batch starts when every job of the last one is done.
NextBatch ==
    /\ Running /\ waiting # {}
    /\ \A mk \in DOMAIN job : job[mk].pc = "done"
    /\ job' = [mk \in Batch |-> StartJob]
    /\ raced' = raced \cup Meets(Batch)
    /\ waiting' = waiting \ Batch
    /\ UNCHANGED <<selection, lake, manifest, made, orphans, scheduled, calm, clean, writes, faults>>

\* The command ends after its last batch, or after the batch in which a job failed.
EndRun ==
    /\ Running /\ Settled
    /\ LET failed == \E mk \in DOMAIN job : job[mk].pc = "failed"
       IN /\ failed \/ waiting = {}
          /\ clean' = IF calm /\ ~failed THEN Built(scheduled) ELSE {}
    /\ scheduled' = None /\ waiting' = {} /\ job' = Idle
    /\ UNCHANGED <<selection, lake, manifest, made, orphans, calm, raced, writes, faults>>

-----------------------------------------------------------------------------
(* A job: its targets in order, the months of each in order.               *)

Target(mk) == Handler[mk][job[mk].stage]
Unchanged == UNCHANGED <<selection, orphans, scheduled, waiting, clean, raced, writes>>
Quietly == Unchanged /\ UNCHANGED <<calm, faults>>
At(mk, pc) == mk \in DOMAIN job /\ job[mk].pc = pc

\* The job with its current month finished.
Advanced(j, mk) ==
    LET left == {m \in j.months : m > j.month}
        base == [j EXCEPT !.fp = None, !.frame = None, !.had = FALSE, !.backup = NoFile]
    IN IF left # {} THEN [base EXCEPT !.month = Min(left), !.pc = "plan"]
       ELSE IF j.stage < Len(Handler[mk]) THEN [StartJob EXCEPT !.stage = j.stage + 1]
       ELSE [StartJob EXCEPT !.stage = j.stage, !.pc = "done"]

Failed(j) == [StartJob EXCEPT !.stage = j.stage, !.pc = "failed"]

\* The months of a target, and the canonical source of realized volatility, are
\* listed once, from the directories that exist when the builder starts.
Discover(mk) ==
    /\ At(mk, "discover")
    /\ LET t == Target(mk)
           perps == File("perps_ohlcv")
           found == {m \in Months : \E s \in Inputs(t) : Listed(s, m)}
           start == [job[mk] EXCEPT !.months = found, !.month = 0, !.cache = [k \in {} |-> None],
                        !.source = IF t # "realized_volatility_1m_feature" THEN None
                                   ELSE IF \E m \in Months : Listed(perps, m) THEN "perps" ELSE "spot"]
       IN job' = [job EXCEPT ![mk] = Advanced(start, mk)]
    /\ UNCHANGED <<lake, manifest, made>> /\ Quietly

\* Fingerprint first, then reuse the partition or go on to read its inputs.
Plan(mk) ==
    /\ At(mk, "plan")
    /\ LET t == Target(mk)
           m == job[mk].month
           fp == Fingerprint(t, m)
       IN job' = [job EXCEPT ![mk] =
            IF t \notin Uncached /\ Current(t, m, fp) THEN Advanced(@, mk)
            ELSE [@ EXCEPT !.pc = "read", !.fp = fp]]
    /\ UNCHANGED <<lake, manifest, made>> /\ Quietly

\* The months to read: all of them for the prediction features, none that the trade
\* features did not list, the calculation months otherwise.
KeysToRead(mk) ==
    LET t == Target(mk)
    IN IF t = "historical_prediction_1m_feature" THEN job[mk].months
       ELSE IF t \in Carrying THEN {k \in job[mk].months : k <= job[mk].month}
       ELSE CalculationKeys(t, job[mk].month)

\* Months already read for an earlier target month of this run come from month_cache.
Cached(mk) ==
    LET seen == DOMAIN job[mk].cache
    IN [k \in seen \cup KeysToRead(mk) |-> IF k \in seen THEN job[mk].cache[k] ELSE InputsNow(Target(mk), k)]

\* The inputs are read; a month without rows of its own publishes nothing.  A publication
\* begins with the directory of its partition.
Read(mk) ==
    /\ At(mk, "read")
    /\ LET t == Target(mk)
           m == job[mk].month
           cache == Cached(mk)
           rows == [k \in CalculationKeys(t, m) |-> IF k \in DOMAIN cache THEN cache[k] ELSE Nothing(t)]
       IN /\ job' = [job EXCEPT ![mk] =
                IF cache[m] = Nothing(t) THEN Advanced([@ EXCEPT !.cache = cache], mk)
                ELSE [@ EXCEPT !.pc = "stage", !.cache = cache,
                               !.frame = {[rows |-> rows, source |-> job[mk].source]}]]
          /\ made' = IF cache[m] = Nothing(t) THEN made ELSE made \cup {<<t, m>>}
    /\ UNCHANGED <<lake, manifest>> /\ Quietly

Publishing(mk) == mk \in DOMAIN job /\ job[mk].pc \in {"stage", "aside", "land", "declare"}

\* A source that another job is replacing may vanish between exists() and its reading.
Vanish(mk) ==
    /\ At(mk, "plan") \/ At(mk, "read")
    /\ \E other \in DOMAIN job \ {mk} : job[other].pc \in {"aside", "land"}
            /\ File(Target(other)) \in Inputs(Target(mk))
            /\ job[other].month \in CalculationKeys(Target(mk), job[mk].month)
    /\ job' = [job EXCEPT ![mk] = Failed(@)]
    /\ calm' = FALSE
    /\ UNCHANGED <<lake, manifest, made, faults>> /\ Unchanged

-----------------------------------------------------------------------------
(* publish_partition_atomically.                                           *)

\* Mutant of Stage: the inputs are fingerprinted after they have been read.
StageWithFingerprint(mk) ==
    /\ At(mk, "stage")
    /\ LET had == lake[File(Target(mk))][job[mk].month] # NoFile
       IN job' = [job EXCEPT ![mk].had = had, ![mk].pc = IF had THEN "aside" ELSE "land",
                             ![mk].fp = Fingerprint(Target(mk), job[mk].month)]
    /\ UNCHANGED <<lake, manifest, made>> /\ Quietly

\* The partition and its manifest are staged beside their targets and validated.
Stage(mk) ==
    /\ At(mk, "stage")
    /\ LET had == lake[File(Target(mk))][job[mk].month] # NoFile
       IN job' = [job EXCEPT ![mk].had = had, ![mk].pc = IF had THEN "aside" ELSE "land"]
    /\ UNCHANGED <<lake, manifest, made>> /\ Quietly

Put(mk, content) == lake' = [lake EXCEPT ![File(Target(mk))][job[mk].month] = content]

\* The previous file is renamed aside; it may be gone when another job replaces it too.
MoveAside(mk) ==
    /\ At(mk, "aside")
    /\ LET previous == lake[File(Target(mk))][job[mk].month]
       IN IF previous = NoFile
          THEN /\ job' = [job EXCEPT ![mk] = Failed(@)]
               /\ calm' = FALSE /\ UNCHANGED <<lake, faults>> /\ Unchanged
          ELSE /\ job' = [job EXCEPT ![mk].backup = previous, ![mk].pc = "land"]
               /\ Put(mk, NoFile) /\ Quietly
    /\ UNCHANGED <<manifest, made>>

Land(mk) ==
    /\ At(mk, "land")
    /\ Put(mk, job[mk].frame)
    /\ job' = [job EXCEPT ![mk].pc = "declare"]
    /\ UNCHANGED <<manifest, made>> /\ Quietly

Declare(mk) ==
    /\ At(mk, "declare")
    /\ manifest' = [manifest EXCEPT ![Target(mk)][job[mk].month] = [fp |-> job[mk].fp, out |-> job[mk].frame]]
    /\ job' = [job EXCEPT ![mk] = Advanced(@, mk)]
    /\ UNCHANGED <<lake, made>> /\ Quietly

\* Mutant of Restored: the file is removed whether or not there was a previous one.
RestoredNever(mk) == NoFile

\* What the except clause leaves at the target.
Restored(mk) ==
    IF job[mk].backup # NoFile THEN job[mk].backup
    ELSE IF ~job[mk].had THEN NoFile
    ELSE lake[File(Target(mk))][job[mk].month]

\* A file operation of the publication fails: roll back, and the job fails.
Fault(mk) ==
    /\ Publishing(mk) /\ faults < MaxFaults
    /\ Put(mk, IF job[mk].pc = "stage" THEN lake[File(Target(mk))][job[mk].month] ELSE Restored(mk))
    /\ job' = [job EXCEPT ![mk] = Failed(@)]
    /\ faults' = faults + 1 /\ calm' = FALSE
    /\ UNCHANGED <<manifest, made>> /\ Unchanged

\* The process is killed: what was renamed aside stays there.
Kill ==
    /\ Running /\ faults < MaxFaults
    /\ orphans' = orphans \cup {<<Target(mk), job[mk].month>> :
                                   mk \in {j \in DOMAIN job : job[j].backup # NoFile}}
    /\ scheduled' = None /\ waiting' = {} /\ job' = Idle
    /\ faults' = faults + 1 /\ calm' = FALSE
    /\ UNCHANGED <<selection, lake, manifest, made, clean, raced, writes>>

\* A Bronze writer replaces a partition file, at any time.
BronzeWrite(s, m) ==
    /\ s \in BronzeSources /\ writes < MaxWrites
    /\ lake' = [lake EXCEPT ![s][m] = IF @ = NoFile THEN {1} ELSE {version + 1 : version \in @}]
    /\ writes' = writes + 1 /\ calm' = FALSE /\ clean' = {}
    /\ UNCHANGED <<selection, manifest, made, orphans, scheduled, waiting, job, raced, faults>>

-----------------------------------------------------------------------------
\* Bronze is empty or has the first month of every source; Silver is empty.
Init ==
    /\ selection \in Selections
    /\ \E seeds \in {{}, BronzeSources} :
            lake = [s \in Files |-> [m \in Months |-> IF s \in seeds /\ m = 1 THEN {1} ELSE NoFile]]
    /\ manifest = [t \in Targets |-> [m \in Months |-> None]]
    /\ made = {} /\ orphans = {} /\ scheduled = None /\ waiting = {} /\ job = Idle
    /\ calm = FALSE /\ clean = {} /\ raced = {}
    /\ writes = 0 /\ faults = 0

JobStep(mk) == \/ Discover(mk) \/ Plan(mk) \/ Read(mk) \/ Stage(mk)
               \/ MoveAside(mk) \/ Land(mk) \/ Declare(mk)
Runner == StartRun \/ NextBatch \/ EndRun
Environment == \/ Kill
               \/ \E mk \in DOMAIN job : Vanish(mk) \/ Fault(mk)
               \/ \E s \in BronzeSources, m \in Months : BronzeWrite(s, m)
Next == \/ Runner \/ (\E mk \in DOMAIN job : JobStep(mk)) \/ Environment

Spec == Init /\ [][Next]_vars
Markets == UNION {ToSet(s) : s \in Selections}
FairSpec == Spec /\ WF_vars(Runner) /\ \A mk \in Markets : WF_vars(mk \in DOMAIN job /\ JobStep(mk))

-----------------------------------------------------------------------------
(* Properties.                                                             *)

TypeOK ==
    /\ selection \in Selections
    /\ DOMAIN lake = Files /\ \A s \in Files : DOMAIN lake[s] = Months
    /\ DOMAIN manifest = Targets /\ \A t \in Targets : DOMAIN manifest[t] = Months
    /\ \A t \in Targets, m \in Months : manifest[t][m] # None =>
            DOMAIN manifest[t][m].fp = CalculationKeys(t, m)
    /\ made \cup orphans \subseteq Targets \X Months
    /\ DOMAIN job \subseteq ToSet(selection) /\ Cardinality(DOMAIN job) <= MaxProcesses
    /\ \A mk \in DOMAIN job : job[mk].months \subseteq Months /\ (job[mk].backup # NoFile => Publishing(mk))
    /\ Running => waiting \cup DOMAIN job \subseteq scheduled /\ scheduled \subseteq ToSet(selection)
    /\ ~Running => waiting = {} /\ job = Idle
    /\ raced \cup clean \subseteq Targets
    /\ writes \in 0..MaxWrites /\ faults \in 0..MaxFaults

BeingPublished(t, m) == \E mk \in DOMAIN job : Publishing(mk) /\ Target(mk) = t /\ job[mk].month = m

\* The partition was computed from what its inputs hold now.
Fresh(t, m) ==
    \E content \in lake[File(t)][m] : content.rows = [k \in CalculationKeys(t, m) |-> InputsNow(t, k)]

\* A partition that a run would reuse as unchanged was computed from exactly what its
\* inputs hold now, whenever Bronze was written and whichever publication was cut short.
ReusedIsFresh ==
    \A t \in Targets \ Uncached, m \in Months :
        Current(t, m, Fingerprint(t, m)) => Fresh(t, m) \/ t \in raced

\* A partition that was published once is never missing again, however publications
\* fail, unless the process was killed between two renames or two jobs built it at once.
PublishedStays ==
    \A t \in Targets, m \in Months :
        manifest[t][m] # None => \/ lake[File(t)][m] # NoFile
                                 \/ BeingPublished(t, m)
                                 \/ <<t, m>> \in orphans
                                 \/ t \in raced

\* Targets of a job listed before another one that builds an input of theirs, and not
\* them: the run builds them from the last version of that input.
Overtaken ==
    {t \in Targets : \E i, j \in DOMAIN selection :
        /\ i < j /\ selection[i] \notin Derived
        /\ t \in ToSet(Handler[selection[i]]) \ ToSet(Handler[selection[j]])
        /\ \E u \in ToSet(Handler[selection[j]]) : File(u) \in Inputs(t)}

\* After a run that ended well, with nothing written meanwhile, every partition of the
\* datasets it scheduled is computed from what its inputs hold; except of datasets listed
\* before their source, since the jobs keep the order of the list (_run_silver_build).
RunBringsUpToDate ==
    \A t \in clean \ (raced \cup Overtaken), m \in Months :
        InputsNow(t, m) # Nothing(t) => Fresh(t, m)

\* When writes and faults end, runs make and keep every selected partition up to date.
Converges ==
    <>[](\A mk \in {j \in ToSet(selection) : Discovered(j)} : \A t \in ToSet(Handler[mk]) \ raced, m \in Months :
            InputsNow(t, m) # Nothing(t) => Fresh(t, m) \/ BeingPublished(t, m))
=============================================================================
