------------------------------ MODULE Ranking ------------------------------
(***************************************************************************)
(* The ranking model from training to serving.  Training jobs              *)
(* (training/lightgbm_trainer.py) read a dataset directory and write three *)
(* files beside each other: the model, its metadata and its metrics.  API  *)
(* processes load the model file once, when they start                     *)
(* (bootstrap/lifespan.py, registry/model_registry.py), and report it as    *)
(* their model (presentation/api/router.py).                                *)
(*                                                                         *)
(* By default the trainer writes to RANKING_MODEL_PATH itself, so a job    *)
(* replaces the file that processes load while it is at work.              *)
(***************************************************************************)
EXTENDS RankingMetrics

CONSTANTS
    Trainers,     \* training jobs that can run at the same time
    Replicas,     \* API processes
    Datasets,     \* dataset directories a job may be pointed at
    Settings,     \* RANKING_MODEL_PATH set?, RANKING_MODEL_VERSION, RANKING_EXPECTED_FEATURES
    MinTrain,     \* rows the train split needs (20)
    NoFile,       \* the file does not exist
    Torn,         \* a model file that is not written to its end
    Fallback,     \* the deterministic scorer, ranking-fallback-v1
    FallbackNames,\* the versions that begin with "ranking-fallback"
    MaxRuns,      \* bound: trainings started
    MaxDeaths     \* bound: training jobs that die halfway

Versions == {s.version : s \in Settings}
Columns == {s.expected : s \in Settings}
FallbackVersion == "ranking-fallback-v1"

\* What the three files hold of the training that wrote them.
Booster == [run : 1..MaxRuns, columns : Columns]
Metadata == [run : 1..MaxRuns, version : Versions, columns : Columns, dataset : Datasets]
Metrics == [run : 1..MaxRuns, version : Versions, dataset : Datasets]

\* standard_ranking_predictions pairs eight weights and one penalty.
ComparedColumns == 9

ASSUME RankingAssumption ==
    /\ FallbackVersion \in Versions \* the default of RANKING_MODEL_VERSION
    /\ FallbackVersion \in FallbackNames
    /\ Columns \subseteq Nat \ {0}
    /\ {MinTrain, MaxRuns, MaxDeaths} \subseteq Nat
    /\ \A model \in {NoFile, Torn, Fallback} : model \notin Booster
    /\ NoFile \notin Metadata \cup Metrics

VARIABLES
    settings,   \* the environment of all processes
    artifact,   \* the model file
    metadata,   \* the .meta.json file
    metrics,    \* the .metrics.json file
    training,   \* what each training job does
    served,     \* what each API process answers with
    saved,      \* runs whose model file was written to its end
    disturbed,  \* a job died or raised after it began to write, or two overlapped
    runs, deaths

files == <<artifact, metadata, metrics>>
counters == <<runs, deaths>>
vars == <<settings, files, training, served, saved, disturbed, counters>>

NoJob == [step |-> "idle", run |-> 0, columns |-> 0, version |-> FallbackVersion,
          dataset |-> NoFile, shared |-> FALSE]
Down == [step |-> "down", model |-> Fallback]

TypeOK ==
    /\ settings \in Settings
    /\ artifact \in {NoFile, Torn} \cup Booster
    /\ metadata \in {NoFile} \cup Metadata
    /\ metrics \in {NoFile} \cup Metrics
    /\ training \in [Trainers ->
           [step : {"idle", "train", "saving", "evaluate", "metadata", "metrics"},
            run : 0..MaxRuns, columns : Columns \cup {0}, version : Versions,
            dataset : Datasets \cup {NoFile}, shared : BOOLEAN]]
    /\ served \in [Replicas -> [step : {"down", "up"}, model : {Fallback} \cup Booster]]
    /\ saved \subseteq 1..MaxRuns
    /\ disturbed \in BOOLEAN
    /\ runs \in 0..MaxRuns /\ deaths \in 0..MaxDeaths

Init ==
    /\ settings \in Settings
    /\ artifact = NoFile
    /\ metadata = NoFile
    /\ metrics = NoFile
    /\ training = [t \in Trainers |-> NoJob]
    /\ served = [a \in Replicas |-> Down]
    /\ saved = {}
    /\ disturbed = FALSE
    /\ runs = 0
    /\ deaths = 0

-----------------------------------------------------------------------------
(* The training job: train_model.                                          *)

\* _read_rows: the first line that breaks the contract ends the job.
Readable(split, columns) == \A i \in DOMAIN split : split[i].sound /\ split[i].columns = columns

\* _validate_split: enough rows, and more than one label.
ValidSplit(split, minimum) ==
    /\ Len(split) >= minimum
    /\ \E i, j \in DOMAIN split : split[i].label # split[j].label

Accepts(dataset, columns) ==
    /\ \A split \in {dataset.train, dataset.validation, dataset.test} : Readable(split, columns)
    /\ dataset.manifest
    /\ ValidSplit(dataset.train, MinTrain)
    /\ ValidSplit(dataset.validation, 1)
    /\ ValidSplit(dataset.test, 1)

At(t, step) == training[t].step = step
Goto(t, step) == training' = [training EXCEPT ![t].step = step]
End(t) == training' = [training EXCEPT ![t] = NoJob]
Busy(t) == ~At(t, "idle")

\* A refused dataset leaves every file as it was, so only accepted ones start.
StartTraining(t, dataset, columns, version) ==
    /\ At(t, "idle")
    /\ runs < MaxRuns
    /\ Accepts(dataset, columns)
    /\ runs' = runs + 1
    /\ training' = [training EXCEPT ![t] =
           [step |-> "train", run |-> runs + 1, columns |-> columns, version |-> version,
            dataset |-> dataset, shared |-> FALSE]]
    /\ disturbed' = (disturbed \/ \E other \in Trainers : Busy(other))
    /\ UNCHANGED <<settings, files, served, saved, deaths>>

\* save_model opens the file for writing in place ...
BeginSave(t) ==
    LET others == {u \in Trainers : At(u, "saving")} IN
    /\ At(t, "train")
    /\ artifact' = Torn
    /\ training' = [u \in Trainers |->
           IF u = t THEN [training[t] EXCEPT !.step = "saving", !.shared = others # {}]
           ELSE IF u \in others THEN [training[u] EXCEPT !.shared = TRUE]
           ELSE training[u]]
    /\ UNCHANGED <<settings, metadata, metrics, served, saved, disturbed, counters>>

\* ... and two jobs that write at once may leave a mixture.
EndSave(t) ==
    /\ At(t, "saving")
    /\ artifact' \in {[run |-> training[t].run, columns |-> training[t].columns]}
                     \cup (IF training[t].shared THEN {Torn} ELSE {})
    /\ saved' = saved \cup {training[t].run}
    /\ Goto(t, "evaluate")
    /\ UNCHANGED <<settings, metadata, metrics, served, disturbed, counters>>

\* The comparison with the baseline raises for any other number of features,
\* after the model file was replaced.
Evaluate(t) ==
    /\ At(t, "evaluate")
    /\ IF training[t].columns = ComparedColumns
       THEN Goto(t, "metadata") /\ UNCHANGED disturbed
       ELSE End(t) /\ disturbed' = TRUE
    /\ UNCHANGED <<settings, files, served, saved, counters>>

\* Seeded fault: the metadata is written before the model.
WriteMetadataEarly(t) ==
    /\ training[t].step \in {"train", "metadata"}
    /\ metadata' = [run |-> training[t].run, version |-> training[t].version,
                    columns |-> training[t].columns, dataset |-> training[t].dataset]
    /\ IF At(t, "train") THEN UNCHANGED training ELSE Goto(t, "metrics")
    /\ UNCHANGED <<settings, artifact, metrics, served, saved, disturbed, counters>>

WriteMetadata(t) ==
    /\ At(t, "metadata")
    /\ metadata' = [run |-> training[t].run, version |-> training[t].version,
                    columns |-> training[t].columns, dataset |-> training[t].dataset]
    /\ Goto(t, "metrics")
    /\ UNCHANGED <<settings, artifact, metrics, served, saved, disturbed, counters>>

\* Seeded fault: the metrics of a model are written once and then kept.
WriteModelMetricsOnce(t) ==
    /\ At(t, "metrics")
    /\ metrics' = IF metrics = NoFile
                  THEN [run |-> training[t].run, version |-> training[t].version,
                        dataset |-> training[t].dataset]
                  ELSE metrics
    /\ End(t)
    /\ UNCHANGED <<settings, artifact, metadata, served, saved, disturbed, counters>>

WriteModelMetrics(t) ==
    /\ At(t, "metrics")
    /\ metrics' = [run |-> training[t].run, version |-> training[t].version,
                   dataset |-> training[t].dataset]
    /\ End(t)
    /\ UNCHANGED <<settings, artifact, metadata, served, saved, disturbed, counters>>

Die(t) ==
    /\ Busy(t)
    /\ deaths < MaxDeaths
    /\ deaths' = deaths + 1
    /\ End(t)
    /\ disturbed' = (disturbed \/ ~At(t, "train"))
    /\ UNCHANGED <<settings, files, served, saved, runs>>

TrainingStep(t) ==
    \/ \E d \in Datasets, c \in Columns, v \in Versions : StartTraining(t, d, c, v)
    \/ BeginSave(t)
    \/ EndSave(t)
    \/ Evaluate(t)
    \/ WriteMetadata(t)
    \/ WriteModelMetrics(t)
    \/ Die(t)

-----------------------------------------------------------------------------
(* The API process: build_ranking_model at start-up, and its status.        *)

Up(model) == [step |-> "up", model |-> model]

\* Seeded fault: the number of features of the file is not compared.
CompatibleAny(model) == model \in Booster

\* Seeded fault: a file that was not written to its end is loaded.
CompatibleTorn(model) == model = Torn \/ (model \in Booster /\ model.columns = settings.expected)

\* LightGbmRankingModel raises ValueError for another number of features.
Compatible(model) == model \in Booster /\ model.columns = settings.expected

\* A file that cannot be loaded makes LightGBM raise.  Only OSError, RuntimeError
\* and ValueError lead to the fallback; after any other class the process ends.
Start(a) ==
    /\ served[a].step = "down"
    /\ \/ /\ ~settings.path
          /\ served' = [served EXCEPT ![a] = Up(Fallback)]
       \/ /\ settings.path
          /\ Compatible(artifact)
          /\ served' = [served EXCEPT ![a] = Up(artifact)]
       \/ /\ settings.path
          /\ ~Compatible(artifact)
          /\ served' = [served EXCEPT ![a] = Up(Fallback)]
       \/ /\ settings.path
          /\ artifact \in {NoFile, Torn}
          /\ UNCHANGED served
    /\ UNCHANGED <<settings, files, training, saved, disturbed, counters>>

Stop(a) ==
    /\ served[a].step = "up"
    /\ served' = [served EXCEPT ![a] = Down]
    /\ UNCHANGED <<settings, files, training, saved, disturbed, counters>>

Next ==
    \/ \E t \in Trainers : TrainingStep(t)
    \/ \E a \in Replicas : Start(a) \/ Stop(a)

Spec == Init /\ [][Next]_vars

\* What /ranking/status calls the model of a process.
ModelVersion(model) == IF model = Fallback THEN FallbackVersion ELSE settings.version
Ready(a) == ModelVersion(served[a].model) \notin FallbackNames

-----------------------------------------------------------------------------
(* Properties of training and serving.                                     *)

\* README.md:553: a process reports itself ready only with a model that was
\* written to its end and has the configured number of features.  It never calls
\* the fallback a model, nor a model the fallback unless RANKING_MODEL_VERSION
\* begins with "ranking-fallback", as its default does.
StatusTellsTruth ==
    \A a \in Replicas : served[a].step = "up" =>
        LET model == served[a].model IN
        /\ Ready(a) => model # Fallback /\ model.columns = settings.expected /\ model.run \in saved
        /\ model # Fallback /\ settings.version \notin FallbackNames => Ready(a)

\* README.md:219: the files beside the model are about this model, as long as
\* every job came to its end and none ran into another.
SidecarsDescribeModel ==
    ~disturbed /\ (\A t \in Trainers : ~Busy(t)) /\ artifact \in Booster =>
        /\ metadata # NoFile /\ metadata.run = artifact.run /\ metadata.columns = artifact.columns
        /\ metrics # NoFile /\ metrics.run = artifact.run /\ metrics.version = metadata.version

\* Also when jobs die, raise or overlap: no file ever describes a model that was
\* not written to its end.
SidecarsOfSavedModels ==
    /\ metadata # NoFile => metadata.run \in saved
    /\ metrics # NoFile => metrics.run \in saved

-----------------------------------------------------------------------------
(* The metrics of a job that evaluates its model.  Whatever it read and    *)
(* whatever its model answers, they are compared with what they stand for. *)

Scores == 0..One
Evaluating == \E t \in Trainers : At(t, "evaluate")

RowsOf(labels, requests) ==
    [i \in DOMAIN labels |-> [label |-> labels[i], request |-> requests[i]]]

\* How often a positive row is scored above a negative one, ties counting half.
WinsTwice(rows, predictions) ==
    LET pairs == Positives(rows) \X Negatives(rows) IN
    2 * Cardinality({p \in pairs : predictions[p[1]] > predictions[p[2]]})
        + Cardinality({p \in pairs : predictions[p[1]] = predictions[p[2]]})
PairsCounted(rows, predictions) ==
    LET auc == BinaryAuc(rows, predictions)
    IN  auc # Undefined => auc.num = WinsTwice(rows, predictions)

Separates(rows, predictions) ==
    LET auc == BinaryAuc(rows, predictions) IN auc # Undefined /\ auc.num = auc.den
IsBinary(rows) == \A i \in DOMAIN rows : rows[i].label \in {0, One}
GainsInOrder(rows, predictions) ==
    LET cutoffs == 1..MaxRows
        report  == EvaluatePredictions(rows, predictions, cutoffs)
    IN  /\ \A k \in cutoffs, r \in Requests(rows) : report.ndcg[k][r].num <= report.ndcg[k][r].den
        /\ Separates(rows, predictions) /\ IsBinary(rows) =>
               \A r \in DOMAIN report.mrr :
                   /\ report.mrr[r] = 1
                   /\ \A k \in cutoffs : report.ndcg[k][r].num = report.ndcg[k][r].den

AucCountsPairs ==
    \A n \in 1..MaxRows : \A labels, predictions \in [1..n -> Scores] :
        PairsCounted(RowsOf(labels, [i \in 1..n |-> NoRequest]), predictions)
PerfectOrderScoresOne ==
    \A n \in 1..(MaxRows - 1) :
    \A labels, predictions \in [1..n -> Scores], requests \in [1..n -> RequestIds \cup {NoRequest}] :
        GainsInOrder(RowsOf(labels, requests), predictions)

\* ranking_evaluator.py:61 and :92: the rank sum counts for every pair of a
\* positive and a negative row whether the model ranks the positive one higher,
\* and NDCG stays within [0, 1].  Scores that separate all positive rows from all
\* negative ones (AUC 1) have NDCG 1 in every request with a positive row, and
\* the reciprocal rank 1.
MetricsMatchMeaning == Evaluating => AucCountsPairs /\ PerfectOrderScoresOne

BlendKeepsLead ==
    \A merits, penalties, model \in [1..2 -> Scores], blend \in -1..12 :
        LET rows     == [i \in 1..2 |-> [merit |-> merits[i], penalty |-> penalties[i]]]
            standard == StandardRankingPredictions(rows)
            enhanced == BlendedRankingPredictions(standard, model, blend)
        IN  /\ standard[1] >= standard[2]
            /\ standard[1] - standard[2] >= model[2] - model[1]
            => enhanced[1] >= enhanced[2]

\* ranking_evaluator.py:197: the model cannot overrule the baseline.  Whatever
\* blend is asked for, it only turns an order around with a lead of its own that
\* is larger than the lead the baseline gives.
BaselineNotOverruled == Evaluating => BlendKeepsLead
=============================================================================
