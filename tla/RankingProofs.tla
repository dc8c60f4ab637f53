---------------------------- MODULE RankingProofs ----------------------------
(***************************************************************************)
(* Theorems about Ranking, for every number of trainings, API processes,   *)
(* datasets, settings and deaths, and about its metrics for all rows.      *)
(***************************************************************************)
EXTENDS Ranking, FiniteSetTheorems, TLAPS

-----------------------------------------------------------------------------
(* Types: a job at work has its run, its columns and its dataset.          *)

JobSteps == {"train", "saving", "evaluate", "metadata", "metrics"}
Job == [step : JobSteps, run : 1..MaxRuns, columns : Columns, version : Versions,
        dataset : Datasets, shared : BOOLEAN]

TypeInv ==
    /\ settings \in Settings
    /\ artifact \in {NoFile, Torn} \cup Booster
    /\ metadata \in {NoFile} \cup Metadata
    /\ metrics \in {NoFile} \cup Metrics
    /\ training \in [Trainers -> {NoJob} \cup Job]
    /\ served \in [Replicas -> {Down} \cup [step : {"up"}, model : {Fallback} \cup Booster]]
    /\ saved \subseteq 1..MaxRuns
    /\ disturbed \in BOOLEAN
    /\ runs \in 0..MaxRuns /\ deaths \in 0..MaxDeaths

LEMMA BusyJob ==
  ASSUME TypeInv, NEW t \in Trainers, Busy(t)
  PROVE  training[t] \in Job
  BY DEF TypeInv, Busy, At, NoJob

\* Moving a job on, and ending it, keep it well formed.
LEMMA GotoType ==
  ASSUME TypeInv, NEW t \in Trainers, Busy(t), NEW s \in JobSteps, Goto(t, s)
  PROVE  training' \in [Trainers -> {NoJob} \cup Job]
<1>1. [training[t] EXCEPT !.step = s] \in Job
  BY BusyJob DEF Job
<1> QED
  BY <1>1 DEF TypeInv, Goto

LEMMA EndType ==
  ASSUME TypeInv, NEW t \in Trainers, End(t)
  PROVE  training' \in [Trainers -> {NoJob} \cup Job]
  BY DEF TypeInv, End

\* What one job writes is well formed.
Built(t) == [run |-> training[t].run, columns |-> training[t].columns]
MetadataOf(t) ==
    [run |-> training[t].run, version |-> training[t].version,
     columns |-> training[t].columns, dataset |-> training[t].dataset]
MetricsOf(t) ==
    [run |-> training[t].run, version |-> training[t].version, dataset |-> training[t].dataset]

LEMMA WrittenTypes ==
  ASSUME TypeInv, NEW t \in Trainers, Busy(t)
  PROVE  Built(t) \in Booster /\ MetadataOf(t) \in Metadata /\ MetricsOf(t) \in Metrics
  BY BusyJob DEF Job, Built, MetadataOf, MetricsOf, Booster, Metadata, Metrics

LEMMA BeginSaveType ==
  ASSUME TypeInv, NEW t \in Trainers, BeginSave(t)
  PROVE  training' \in [Trainers -> {NoJob} \cup Job]
<1> DEFINE others == {u \in Trainers : At(u, "saving")}
<1>1. training[t] \in Job
  BY BusyJob DEF BeginSave, Busy, At
<1>2. training' = [u \in Trainers |->
          IF u = t THEN [training[t] EXCEPT !.step = "saving", !.shared = others # {}]
          ELSE IF u \in others THEN [training[u] EXCEPT !.shared = TRUE]
          ELSE training[u]]
  BY DEF BeginSave
<1>3. [training[t] EXCEPT !.step = "saving", !.shared = others # {}] \in Job
  BY <1>1 DEF Job, JobSteps
<1>4. ASSUME NEW u \in others PROVE [training[u] EXCEPT !.shared = TRUE] \in Job
  <2>1. training[u] \in Job
    BY BusyJob DEF Busy, At
  <2> QED
    BY <2>1 DEF Job
<1>5. \A u \in Trainers : training[u] \in {NoJob} \cup Job
  BY DEF TypeInv
<1> QED
  BY <1>2, <1>3, <1>4, <1>5

LEMMA TypeStep == TypeInv /\ [Next]_vars => TypeInv'
<1> SUFFICES ASSUME TypeInv, [Next]_vars PROVE TypeInv'
  OBVIOUS
<1> USE RankingAssumption
<1>1. ASSUME NEW t \in Trainers, NEW d \in Datasets, NEW c \in Columns, NEW v \in Versions,
             StartTraining(t, d, c, v)
      PROVE  TypeInv'
  <2>1. runs + 1 \in 1..MaxRuns
    BY <1>1 DEF StartTraining, TypeInv
  <2>2. [step |-> "train", run |-> runs + 1, columns |-> c, version |-> v,
         dataset |-> d, shared |-> FALSE] \in Job
    BY <2>1 DEF Job, JobSteps
  <2>3. disturbed' \in BOOLEAN
    BY <1>1 DEF StartTraining
  <2> QED
    BY <1>1, <2>1, <2>2, <2>3 DEF StartTraining, TypeInv, files
<1>2. ASSUME NEW t \in Trainers, BeginSave(t) PROVE TypeInv'
  BY <1>2, BeginSaveType DEF BeginSave, TypeInv, counters
<1>3. ASSUME NEW t \in Trainers, EndSave(t) PROVE TypeInv'
  <2>1. Built(t) \in Booster /\ training[t].run \in 1..MaxRuns
    BY <1>3, WrittenTypes, BusyJob DEF EndSave, Busy, At, Job
  <2>2. training' \in [Trainers -> {NoJob} \cup Job]
    BY <1>3, GotoType DEF EndSave, Busy, At, JobSteps
  <2>3. artifact' \in {NoFile, Torn} \cup Booster
    BY <1>3, <2>1 DEF EndSave, Built
  <2> QED
    BY <1>3, <2>1, <2>2, <2>3 DEF EndSave, TypeInv, counters
<1>4. ASSUME NEW t \in Trainers, Evaluate(t) PROVE TypeInv'
  <2>1. training' \in [Trainers -> {NoJob} \cup Job]
    BY <1>4, GotoType, EndType DEF Evaluate, Busy, At, JobSteps
  <2> QED
    BY <1>4, <2>1 DEF Evaluate, TypeInv, files, counters
<1>5. ASSUME NEW t \in Trainers, WriteMetadata(t) PROVE TypeInv'
  <2>1. training' \in [Trainers -> {NoJob} \cup Job] /\ metadata' \in Metadata
    BY <1>5, GotoType, WrittenTypes DEF WriteMetadata, Busy, At, JobSteps, MetadataOf
  <2> QED
    BY <1>5, <2>1 DEF WriteMetadata, TypeInv, counters
<1>6. ASSUME NEW t \in Trainers, WriteModelMetrics(t) PROVE TypeInv'
  <2>1. training' \in [Trainers -> {NoJob} \cup Job] /\ metrics' \in Metrics
    BY <1>6, EndType, WrittenTypes DEF WriteModelMetrics, Busy, At, MetricsOf
  <2> QED
    BY <1>6, <2>1 DEF WriteModelMetrics, TypeInv, counters
<1>7. ASSUME NEW t \in Trainers, Die(t) PROVE TypeInv'
  <2>1. deaths' \in 0..MaxDeaths /\ disturbed' \in BOOLEAN
    BY <1>7 DEF Die, TypeInv
  <2> QED
    BY <1>7, <2>1, EndType DEF Die, TypeInv, files
<1>8. ASSUME NEW a \in Replicas, Start(a) \/ Stop(a) PROVE TypeInv'
  <2>1. served' \in [Replicas -> {Down} \cup [step : {"up"}, model : {Fallback} \cup Booster]]
    BY <1>8 DEF Start, Stop, Up, Compatible, TypeInv
  <2> QED
    BY <1>8, <2>1 DEF Start, Stop, TypeInv, files, counters
<1>9. CASE UNCHANGED vars
  BY <1>9 DEF vars, files, counters, TypeInv
<1> QED
  BY <1>1, <1>2, <1>3, <1>4, <1>5, <1>6, <1>7, <1>8, <1>9 DEF Next, TrainingStep

LEMMA TypeInit == Init => TypeInv
<1> SUFFICES ASSUME Init PROVE TypeInv
  OBVIOUS
<1>1. 0 \in 0..MaxRuns /\ 0 \in 0..MaxDeaths
  BY RankingAssumption
<1>2. training \in [Trainers -> {NoJob} \cup Job]
  BY DEF Init
<1>3. served \in [Replicas -> {Down} \cup [step : {"up"}, model : {Fallback} \cup Booster]]
  BY DEF Init
<1> QED
  BY <1>1, <1>2, <1>3 DEF Init, TypeInv

\* The three files, the jobs and the processes keep their types.
THEOREM TypeCorrect == Spec => []TypeOK
<1>1. TypeInv => TypeOK
  <2> SUFFICES ASSUME TypeInv PROVE TypeOK
    OBVIOUS
  <2> DEFINE Shape ==
          [step : {"idle", "train", "saving", "evaluate", "metadata", "metrics"},
           run : 0..MaxRuns, columns : Columns \cup {0}, version : Versions,
           dataset : Datasets \cup {NoFile}, shared : BOOLEAN]
  <2>1. training \in [Trainers -> Shape]
    <3>1. 0 \in 0..MaxRuns /\ 1..MaxRuns \subseteq 0..MaxRuns
      BY RankingAssumption
    <3>2. NoJob \in Shape
      BY <3>1, RankingAssumption DEF NoJob
    <3>3. Job \subseteq Shape
      BY <3>1 DEF Job, JobSteps
    <3> QED
      BY <3>2, <3>3 DEF TypeInv
  <2>2. served \in [Replicas -> [step : {"down", "up"}, model : {Fallback} \cup Booster]]
    BY DEF TypeInv, Down
  <2> QED
    BY <2>1, <2>2 DEF TypeInv, TypeOK, Metadata, Metrics
<1> QED
  BY <1>1, TypeInit, TypeStep, PTL DEF Spec

-----------------------------------------------------------------------------
(* Nothing but whole models is described or served: whoever mentions a run *)
(* comes after the end of its save.                                        *)

SidecarSteps == {"evaluate", "metadata", "metrics"}

SavedInv ==
    /\ artifact \in Booster => artifact.run \in saved
    /\ SidecarsOfSavedModels
    /\ \A t \in Trainers : training[t].step \in SidecarSteps => training[t].run \in saved
    /\ \A a \in Replicas : served[a].model # Fallback =>
           served[a].model.run \in saved /\ served[a].model.columns = settings.expected

\* Steps of training jobs that write no file and report no new run.
LEMMA SavedStays ==
  ASSUME SavedInv, UNCHANGED <<settings, metadata, metrics, served, saved>>,
         artifact' \in Booster => artifact' = artifact,
         \A t \in Trainers : training'[t].step \in SidecarSteps =>
             training[t].step \in SidecarSteps /\ training'[t].run = training[t].run
  PROVE  SavedInv'
  BY DEF SavedInv, SidecarsOfSavedModels

LEMMA SavedStep == TypeInv /\ SavedInv /\ [Next]_vars => SavedInv'
<1> SUFFICES ASSUME TypeInv, SavedInv, [Next]_vars PROVE SavedInv'
  OBVIOUS
<1> USE RankingAssumption DEF SidecarSteps
<1>1. ASSUME NEW t \in Trainers, NEW d \in Datasets, NEW c \in Columns, NEW v \in Versions,
             StartTraining(t, d, c, v)
      PROVE  SavedInv'
  <2>1. \A u \in Trainers : training'[u].step \in SidecarSteps => training'[u] = training[u]
    BY <1>1 DEF StartTraining, TypeInv
  <2> QED
    BY <1>1, <2>1, SavedStays DEF StartTraining, files
<1>2. ASSUME NEW t \in Trainers, BeginSave(t) PROVE SavedInv'
  <2>1. artifact' \notin Booster
    BY <1>2 DEF BeginSave, Booster
  <2>2. ASSUME NEW u \in Trainers, training'[u].step \in SidecarSteps
        PROVE  training[u].step \in SidecarSteps /\ training'[u].run = training[u].run
    <3>1. training[t] \in Job
      BY <1>2, BusyJob DEF BeginSave, Busy, At
    <3>2. training[u] \in {NoJob} \cup Job
      BY DEF TypeInv
    <3>3. u # t
      BY <1>2, <2>2, <3>1 DEF BeginSave, Job
    <3> QED
      BY <1>2, <2>2, <3>2, <3>3 DEF BeginSave, At, Job, NoJob
  <2> QED
    BY <1>2, <2>1, <2>2, SavedStays DEF BeginSave
<1>3. ASSUME NEW t \in Trainers, EndSave(t) PROVE SavedInv'
  <2>1. training[t] \in Job
    BY <1>3, BusyJob DEF EndSave, Busy, At
  <2>2. /\ artifact' \in Booster => artifact'.run = training[t].run
        /\ saved' = saved \cup {training[t].run}
        /\ UNCHANGED <<settings, metadata, metrics, served>>
    BY <1>3 DEF EndSave, Booster
  <2>3. \A u \in Trainers :
            /\ training'[u].run = training[u].run
            /\ u # t => training'[u].step = training[u].step
    BY <1>3, <2>1 DEF EndSave, Goto, TypeInv, Job
  <2> QED
    BY <2>2, <2>3 DEF SavedInv, SidecarsOfSavedModels
<1>4. ASSUME NEW t \in Trainers, Evaluate(t) PROVE SavedInv'
  <2>1. training[t] \in Job
    BY <1>4, BusyJob DEF Evaluate, Busy, At
  <2>2. \A u \in Trainers : training'[u].step \in SidecarSteps =>
            training[u].step \in SidecarSteps /\ training'[u].run = training[u].run
    BY <1>4, <2>1 DEF Evaluate, At, Goto, End, NoJob, TypeInv, Job
  <2> QED
    BY <1>4, <2>2, SavedStays DEF Evaluate, files
<1>5. ASSUME NEW t \in Trainers, WriteMetadata(t) PROVE SavedInv'
  <2>1. training[t] \in Job /\ training[t].run \in saved
    BY <1>5, BusyJob DEF WriteMetadata, Busy, At, SavedInv
  <2>2. metadata'.run = training[t].run
    BY <1>5 DEF WriteMetadata
  <2>3. \A u \in Trainers : training'[u].step \in SidecarSteps =>
            training[u].step \in SidecarSteps /\ training'[u].run = training[u].run
    BY <1>5, <2>1 DEF WriteMetadata, At, Goto, TypeInv, Job
  <2> QED
    BY <1>5, <2>1, <2>2, <2>3 DEF WriteMetadata, SavedInv, SidecarsOfSavedModels
<1>6. ASSUME NEW t \in Trainers, WriteModelMetrics(t) PROVE SavedInv'
  <2>1. training[t].run \in saved
    BY <1>6 DEF WriteModelMetrics, At, SavedInv
  <2>2. metrics'.run = training[t].run
    BY <1>6 DEF WriteModelMetrics
  <2>3. \A u \in Trainers : training'[u].step \in SidecarSteps =>
            training[u].step \in SidecarSteps /\ training'[u].run = training[u].run
    BY <1>6 DEF WriteModelMetrics, End, NoJob, TypeInv
  <2> QED
    BY <1>6, <2>1, <2>2, <2>3 DEF WriteModelMetrics, SavedInv, SidecarsOfSavedModels
<1>7. ASSUME NEW t \in Trainers, Die(t) PROVE SavedInv'
  <2>1. \A u \in Trainers : training'[u].step \in SidecarSteps =>
            training[u].step \in SidecarSteps /\ training'[u].run = training[u].run
    BY <1>7 DEF Die, End, NoJob, TypeInv
  <2> QED
    BY <1>7, <2>1, SavedStays DEF Die, files
<1>8. ASSUME NEW a \in Replicas, Start(a) \/ Stop(a) PROVE SavedInv'
  <2>1. \A b \in Replicas : served'[b].model # Fallback =>
            \/ served'[b].model = served[b].model
            \/ served'[b].model = artifact /\ Compatible(artifact)
    BY <1>8 DEF Start, Stop, Up, Down, TypeInv
  <2> QED
    BY <1>8, <2>1
    DEF Start, Stop, Compatible, SavedInv, SidecarsOfSavedModels, files
<1>9. CASE UNCHANGED vars
  BY <1>9 DEF vars, files, counters, SavedInv, SidecarsOfSavedModels
<1> QED
  BY <1>1, <1>2, <1>3, <1>4, <1>5, <1>6, <1>7, <1>8, <1>9 DEF Next, TrainingStep

LEMMA SavedInit == Init => SavedInv
  BY RankingAssumption
  DEF Init, SavedInv, SidecarsOfSavedModels, SidecarSteps, NoJob, Down, Booster

\* lightgbm_trainer.py:250: whichever jobs die, raise or overlap, no metadata and
\* no metrics are ever about a model that was not written to its end.
THEOREM SidecarsAreOfSavedModels == Spec => []SidecarsOfSavedModels
<1>1. SavedInv => SidecarsOfSavedModels
  BY DEF SavedInv
<1> QED
  BY <1>1, TypeInit, TypeStep, SavedInit, SavedStep, PTL DEF Spec

\* model_registry.py and README.md:553: what /ranking/status says of a process is
\* true, for every order of trainings, deaths and restarts, and whichever
\* versions begin with "ranking-fallback".
THEOREM StatusIsTrue == Spec => []StatusTellsTruth
<1>1. SavedInv => StatusTellsTruth
  BY RankingAssumption DEF SavedInv, StatusTellsTruth, Ready, ModelVersion
<1> QED
  BY <1>1, TypeInit, TypeStep, SavedInit, SavedStep, PTL DEF Spec

-----------------------------------------------------------------------------
(* The three files agree.  While no job was disturbed, at most one is at    *)
(* work; until it opens the model file the files describe one another, and  *)
(* from then on it is on its way to replace all three.                      *)

Described ==
    artifact \in Booster =>
        /\ metadata # NoFile /\ metadata.run = artifact.run /\ metadata.columns = artifact.columns
        /\ metrics # NoFile /\ metrics.run = artifact.run /\ metrics.version = metadata.version

OneJob == \A t, u \in Trainers : Busy(t) /\ Busy(u) => t = u

\* What the files hold when job t has come this far.
Progress(t) ==
    /\ At(t, "train") => Described
    /\ At(t, "saving") => training[t].shared = FALSE
    /\ training[t].step \in SidecarSteps => artifact = Built(t)
    /\ At(t, "metrics") => metadata = MetadataOf(t)

FilesInv ==
    disturbed = FALSE =>
        /\ OneJob
        /\ \A t \in Trainers : Progress(t)
        /\ (\A t \in Trainers : ~Busy(t)) => Described

\* A step of the one job at work keeps FilesInv if it is at the progress it
\* claims, or leaves files that describe one another.
LEMMA AloneStep ==
  ASSUME FilesInv, disturbed = FALSE, NEW t \in Trainers, Busy(t),
         \A u \in Trainers \ {t} : training'[u] = training[u],
         IF Busy(t)' THEN Progress(t)' ELSE Described'
  PROVE  FilesInv'
<1>1. \A u \in Trainers \ {t} : ~Busy(u)
  BY DEF FilesInv, OneJob
<1>2. \A u \in Trainers \ {t} : ~Busy(u)' /\ Progress(u)'
  BY <1>1 DEF Busy, At, Progress, SidecarSteps
<1>3. ~Busy(t)' => Progress(t)'
  BY DEF Busy, At, Progress, SidecarSteps
<1> QED
  BY <1>2, <1>3 DEF FilesInv, OneJob

LEMMA FilesStep == TypeInv /\ FilesInv /\ [Next]_vars => FilesInv'
<1> SUFFICES ASSUME TypeInv, FilesInv, [Next]_vars, disturbed' = FALSE PROVE FilesInv'
  BY DEF FilesInv
<1> USE RankingAssumption DEF SidecarSteps
<1>1. ASSUME NEW t \in Trainers, NEW d \in Datasets, NEW c \in Columns, NEW v \in Versions,
             StartTraining(t, d, c, v)
      PROVE  FilesInv'
  <2>1. disturbed = FALSE /\ \A u \in Trainers : ~Busy(u)
    BY <1>1 DEF StartTraining, TypeInv
  <2>2. Described'
    BY <1>1, <2>1 DEF FilesInv, StartTraining, files, Described
  <2>3. \A u \in Trainers : IF u = t THEN At(u, "train")' ELSE training'[u] = training[u]
    BY <1>1 DEF StartTraining, At, TypeInv
  <2>4. \A u \in Trainers \ {t} : ~Busy(u)'
    BY <2>1, <2>3 DEF Busy, At
  <2>5. \A u \in Trainers : Progress(u)'
    BY <2>2, <2>3, <2>4 DEF Progress, Busy, At
  <2> QED
    BY <2>2, <2>4, <2>5 DEF FilesInv, OneJob
<1>2. ASSUME NEW t \in Trainers, BeginSave(t) PROVE FilesInv'
  <2>1. disturbed = FALSE /\ Busy(t) /\ training[t] \in Job
    BY <1>2, BusyJob DEF BeginSave, Busy, At
  <2>2. \A u \in Trainers : ~At(u, "saving")
    BY <1>2, <2>1 DEF FilesInv, OneJob, BeginSave, Busy, At
  <2>3. training' = [u \in Trainers |->
            IF u = t THEN [training[t] EXCEPT !.step = "saving", !.shared = FALSE]
            ELSE training[u]]
    BY <1>2, <2>2 DEF BeginSave
  <2>4. At(t, "saving")' /\ training'[t].shared = FALSE
    BY <2>1, <2>3 DEF At, Job
  <2>5. Progress(t)'
    BY <2>4 DEF Progress, At
  <2> QED
    BY <2>1, <2>3, <2>4, <2>5, AloneStep DEF Busy, At
<1>3. ASSUME NEW t \in Trainers, EndSave(t) PROVE FilesInv'
  <2>1. disturbed = FALSE /\ Busy(t) /\ training[t] \in Job
    BY <1>3, BusyJob DEF EndSave, Busy, At
  <2>2. training[t].shared = FALSE
    BY <1>3, <2>1 DEF FilesInv, Progress, EndSave
  <2>3. artifact' = Built(t)
    BY <1>3, <2>2 DEF EndSave, Built
  <2>4. /\ At(t, "evaluate")' /\ Built(t)' = Built(t)
        /\ \A u \in Trainers \ {t} : training'[u] = training[u]
    BY <1>3, <2>1 DEF EndSave, Goto, At, Built, Job, TypeInv
  <2>5. Progress(t)'
    BY <2>3, <2>4 DEF Progress, At
  <2> QED
    BY <2>1, <2>4, <2>5, AloneStep DEF Busy, At
<1>4. ASSUME NEW t \in Trainers, Evaluate(t) PROVE FilesInv'
  <2>1. disturbed = FALSE /\ Busy(t) /\ training[t] \in Job /\ Goto(t, "metadata")
    BY <1>4, BusyJob DEF Evaluate, Busy, At
  <2>2. artifact' = Built(t)
    BY <1>4, <2>1 DEF FilesInv, Progress, Evaluate, At, files
  <2>3. /\ At(t, "metadata")' /\ Built(t)' = Built(t)
        /\ \A u \in Trainers \ {t} : training'[u] = training[u]
    BY <2>1 DEF Goto, At, Built, Job, TypeInv
  <2>4. Progress(t)'
    BY <2>2, <2>3 DEF Progress, At
  <2> QED
    BY <2>1, <2>3, <2>4, AloneStep DEF Busy, At
<1>5. ASSUME NEW t \in Trainers, WriteMetadata(t) PROVE FilesInv'
  <2>1. disturbed = FALSE /\ Busy(t) /\ training[t] \in Job
    BY <1>5, BusyJob DEF WriteMetadata, Busy, At
  <2>2. artifact' = Built(t) /\ metadata' = MetadataOf(t)
    BY <1>5, <2>1 DEF FilesInv, Progress, WriteMetadata, At, MetadataOf
  <2>3. /\ At(t, "metrics")' /\ Built(t)' = Built(t) /\ MetadataOf(t)' = MetadataOf(t)
        /\ \A u \in Trainers \ {t} : training'[u] = training[u]
    BY <1>5, <2>1 DEF WriteMetadata, Goto, At, Built, MetadataOf, Job, TypeInv
  <2>4. Progress(t)'
    BY <2>2, <2>3 DEF Progress, At
  <2> QED
    BY <2>1, <2>3, <2>4, AloneStep DEF Busy, At
<1>6. ASSUME NEW t \in Trainers, WriteModelMetrics(t) PROVE FilesInv'
  <2>1. disturbed = FALSE /\ Busy(t)
    BY <1>6 DEF WriteModelMetrics, Busy, At
  <2>2. /\ artifact' = Built(t) /\ metadata' = MetadataOf(t) /\ metrics' = MetricsOf(t)
        /\ \A u \in Trainers \ {t} : training'[u] = training[u]
        /\ ~Busy(t)'
    BY <1>6, <2>1
    DEF FilesInv, Progress, WriteModelMetrics, End, Busy, At, NoJob, MetricsOf, TypeInv
  <2>3. MetadataOf(t) # NoFile /\ MetricsOf(t) # NoFile
    BY <2>1, WrittenTypes
  <2>4. Described'
    BY <2>2, <2>3 DEF Described, Built, MetadataOf, MetricsOf
  <2> QED
    BY <2>1, <2>2, <2>4, AloneStep
<1>7. ASSUME NEW t \in Trainers, Die(t) PROVE FilesInv'
  <2>1. disturbed = FALSE /\ Busy(t) /\ At(t, "train")
    BY <1>7 DEF Die, TypeInv
  <2>2. /\ Described' /\ ~Busy(t)'
        /\ \A u \in Trainers \ {t} : training'[u] = training[u]
    BY <1>7, <2>1
    DEF FilesInv, Progress, Die, End, Busy, At, NoJob, files, Described, TypeInv
  <2> QED
    BY <2>1, <2>2, AloneStep
<1>8. ASSUME UNCHANGED <<files, training, disturbed>> PROVE FilesInv'
  BY <1>8 DEF files, FilesInv, OneJob, Progress, Described, Busy, At, Built, MetadataOf
<1>9. ASSUME NEW a \in Replicas, Start(a) \/ Stop(a) PROVE FilesInv'
  BY <1>8, <1>9 DEF Start, Stop
<1>10. CASE UNCHANGED vars
  BY <1>8, <1>10 DEF vars
<1> QED
  BY <1>1, <1>2, <1>3, <1>4, <1>5, <1>6, <1>7, <1>9, <1>10 DEF Next, TrainingStep

LEMMA FilesInit == Init => FilesInv
<1> SUFFICES ASSUME Init PROVE FilesInv
  OBVIOUS
<1>1. artifact \notin Booster /\ \A t \in Trainers : ~Busy(t)
  BY RankingAssumption DEF Init, Busy, At, NoJob
<1> QED
  BY <1>1 DEF FilesInv, OneJob, Progress, Described, Busy, At, SidecarSteps

\* README.md:219: when all jobs came to their end one after the other, metadata
\* and metrics are those of the model beside them.
THEOREM SidecarsDescribe == Spec => []SidecarsDescribeModel
<1>1. FilesInv /\ TypeInv => SidecarsDescribeModel
  BY DEF FilesInv, Described, SidecarsDescribeModel, TypeInv
<1> QED
  BY <1>1, TypeInit, TypeStep, FilesInit, FilesStep, PTL DEF Spec

-----------------------------------------------------------------------------
(* Blending, over rows of any number.  A clamped score is the score or the  *)
(* end of the range it leaves, so clamping keeps the order; and with a      *)
(* share of at most one half the baseline's lead weighs at least as much as *)
(* the model's.                                                             *)

LEMMA ClampIs ==
  ASSUME NEW score \in Int, NEW top \in Nat
  PROVE  Clamp(score, top) = IF score < 0 THEN 0 ELSE IF score > top THEN top ELSE score
<1> DEFINE least == IF score > top THEN top ELSE score
           most == IF least < 0 THEN 0 ELSE least
<1>1. Min({top, score}) = least
  BY DEF Min
<1>2. least \in Int
  OBVIOUS
<1> HIDE DEF least
<1>3. Max({0, least}) = most
  BY <1>2 DEF Max
<1> QED
  BY <1>1, <1>3 DEF Clamp, least

LEMMA ClampKeepsOrder ==
  ASSUME NEW low \in Int, NEW high \in Int, NEW top \in Nat, low <= high
  PROVE  Clamp(low, top) <= Clamp(high, top)
  BY ClampIs

\* The weighted leads, for every share the code can use.
LEMMA LeadsAddUp ==
  ASSUME NEW share \in 0..5, NEW lead \in Nat, NEW other \in Int, other <= lead
  PROVE  other * share <= lead * (10 - share)
<1>1. share \in {0, 1, 2, 3, 4, 5}
  OBVIOUS
<1>2. CASE share = 0
  BY <1>2
<1>3. CASE share = 1
  BY <1>3
<1>4. CASE share = 2
  BY <1>4
<1>5. CASE share = 3
  BY <1>5
<1>6. CASE share = 4
  BY <1>6
<1>7. CASE share = 5
  BY <1>7
<1> QED
  BY <1>1, <1>2, <1>3, <1>4, <1>5, <1>6, <1>7

\* Of two rows in any dataset, the one the baseline prefers stays ahead unless the
\* model prefers the other by more.
LEMMA LeadIsKept ==
  ASSUME NEW rows, NEW standard \in [rows -> Scores], NEW model \in [rows -> Scores],
         NEW blend \in Int, NEW i \in rows, NEW j \in rows,
         standard[i] >= standard[j], standard[i] - standard[j] >= model[j] - model[i]
  PROVE  LET enhanced == BlendedRankingPredictions(standard, model, blend)
         IN  enhanced[i] >= enhanced[j]
<1> DEFINE share == BoundedBlend(blend)
           mixed(k) == standard[k] * (10 - share) + model[k] * share
<1>1. share \in 0..5
  BY ClampIs DEF BoundedBlend
<1>2. /\ \A k \in rows : standard[k] \in Nat /\ model[k] \in Nat
      /\ One \in Nat /\ 10 * One \in Nat
  BY MetricsAssumption DEF Scores
<1>3. mixed(j) <= mixed(i) /\ mixed(i) \in Int /\ mixed(j) \in Int
  <2> DEFINE a == standard[i]
             b == standard[j]
             m == model[i]
             n == model[j]
  <2>1. a \in Nat /\ b \in Nat /\ m \in Nat /\ n \in Nat /\ a - b \in Nat /\ n - m <= a - b
    BY <1>2
  <2> HIDE DEF a, b, m, n, share
  <2>2. (n - m) * share <= (a - b) * (10 - share)
    BY <1>1, <2>1, LeadsAddUp
  <2>3. b * (10 - share) + n * share <= a * (10 - share) + m * share
    BY <1>1, <2>1, <2>2, Z3
  <2>4. /\ a * (10 - share) + m * share \in Int
        /\ b * (10 - share) + n * share \in Int
    BY <1>1, <2>1
  <2> QED
    BY <2>3, <2>4 DEF a, b, m, n
<1> HIDE DEF mixed
<1>4. Clamp(mixed(j), 10 * One) <= Clamp(mixed(i), 10 * One)
  BY <1>2, <1>3, ClampKeepsOrder
<1>5. /\ Clamp(mixed(j), 10 * One) \in Int /\ Clamp(mixed(i), 10 * One) \in Int
  BY <1>2, <1>3, ClampIs
<1> QED
  BY <1>4, <1>5 DEF BlendedRankingPredictions, mixed

\* ranking_evaluator.py:197: for any scale of the scores and any blend that is asked
\* for, the model turns an order around only with a lead larger than the baseline's.
THEOREM BaselineIsNotOverruled == Spec => []BaselineNotOverruled
<1>1. BlendKeepsLead
  <2> SUFFICES ASSUME NEW merits \in [1..2 -> Scores], NEW penalties \in [1..2 -> Scores],
                      NEW model \in [1..2 -> Scores], NEW blend \in -1..12
               PROVE  LET rows     == [i \in 1..2 |-> [merit |-> merits[i], penalty |-> penalties[i]]]
                          standard == StandardRankingPredictions(rows)
                          enhanced == BlendedRankingPredictions(standard, model, blend)
                      IN  /\ standard[1] >= standard[2]
                          /\ standard[1] - standard[2] >= model[2] - model[1]
                          => enhanced[1] >= enhanced[2]
    BY DEF BlendKeepsLead
  <2> DEFINE rows == [i \in 1..2 |-> [merit |-> merits[i], penalty |-> penalties[i]]]
             standard == StandardRankingPredictions(rows)
  <2>1. \A i \in 1..2 : Clamp(merits[i] - penalties[i], One) \in Scores
    <3> SUFFICES ASSUME NEW i \in 1..2 PROVE Clamp(merits[i] - penalties[i], One) \in Scores
      OBVIOUS
    <3>1. merits[i] \in Nat /\ penalties[i] \in Nat /\ One \in Nat
      BY MetricsAssumption DEF Scores
    <3>2. merits[i] - penalties[i] \in Int
      BY <3>1
    <3> QED
      BY <3>1, <3>2, ClampIs DEF Scores
  <2>2. standard = [i \in 1..2 |-> Clamp(merits[i] - penalties[i], One)]
    BY DEF StandardRankingPredictions
  <2>3. standard \in [1..2 -> Scores] /\ blend \in Int
    BY <2>1, <2>2
  <2> HIDE DEF standard
  <2>4. 1 \in 1..2 /\ 2 \in 1..2
    OBVIOUS
  <2>5. LET enhanced == BlendedRankingPredictions(standard, model, blend) IN
        /\ standard[1] >= standard[2] /\ standard[1] - standard[2] >= model[2] - model[1]
        => enhanced[1] >= enhanced[2]
    BY <2>3, <2>4, LeadIsKept
  <2> QED
    BY <2>5 DEF standard
<1>2. BaselineNotOverruled
  BY <1>1 DEF BaselineNotOverruled
<1> QED
  BY <1>2, PTL

-----------------------------------------------------------------------------
(* Sums.  The induction principles of the library take an operator; these  *)
(* lemmas take sets and functions, and rest on the well-foundedness of the *)
(* inclusion of finite sets.                                               *)

\* Whatever holds of a set when it holds of its proper subsets holds of all
\* subsets of a finite set.
LEMMA FiniteInduction ==
  ASSUME NEW S, IsFiniteSet(S), NEW Good,
         \A T \in SUBSET S : (\A U \in SUBSET T : U # T => U \in Good) => T \in Good
  PROVE  \A T \in SUBSET S : T \in Good
<1> DEFINE R == StrictSubsetOrdering(S)
           Bad == (SUBSET S) \ Good
<1>1. IsWellFoundedOn(R, SUBSET S)
  BY FS_StrictSubsetOrderingWellFounded, FS_FiniteSubsetsOfFinite
<1> SUFFICES ASSUME Bad # {} PROVE FALSE
  OBVIOUS
<1>2. PICK T \in Bad : \A U \in Bad : <<U, T>> \notin R
  <2>1. Bad \subseteq SUBSET S /\ Bad # {}
    OBVIOUS
  <2> HIDE DEF R, Bad
  <2> QED
    BY <1>1, <2>1, WFMin
<1>3. ASSUME NEW U \in SUBSET T, U # T PROVE U \in Good
  BY <1>2, <1>3 DEF StrictSubsetOrdering
<1> QED
  BY <1>2, <1>3

\* SumFunctionOnSet takes g[S] of the function g that adds up every subset of S.
Chosen(U) == CHOOSE x \in U : TRUE
AddsUp(f, S, g) ==
    g = [U \in SUBSET S |-> IF U = {} THEN 0 ELSE f[Chosen(U)] + g[U \ {Chosen(U)}]]

LEMMA SumDef ==
  ASSUME NEW f, NEW S
  PROVE  SumFunctionOnSet(f, S) = (CHOOSE g : AddsUp(f, S, g))[S]
  BY DEF SumFunctionOnSet, FoldFunctionOnSet, MapThenFoldSet, AddsUp, Chosen

LEMMA ChosenIn ==
  ASSUME NEW U, U # {}
  PROVE  Chosen(U) \in U
  BY DEF Chosen

\* Two such functions agree where both are defined ...
LEMMA AddsUpOnce ==
  ASSUME NEW f, NEW S, IsFiniteSet(S), NEW g, AddsUp(f, S, g), NEW T, NEW h, AddsUp(f, T, h)
  PROVE  \A U \in SUBSET (S \cap T) : g[U] = h[U]
<1> DEFINE Good == {U \in SUBSET (S \cap T) : g[U] = h[U]}
<1>1. IsFiniteSet(S \cap T)
  BY FS_Intersection
<1>2. ASSUME NEW U \in SUBSET (S \cap T), \A V \in SUBSET U : V # U => V \in Good
      PROVE  U \in Good
  <2>1. CASE U = {}
    BY <2>1 DEF AddsUp
  <2>2. CASE U # {}
    <3> DEFINE x == Chosen(U)
    <3>1. x \in U
      BY <2>2, ChosenIn
    <3>2. g[U \ {x}] = h[U \ {x}]
      BY <3>1, <1>2
    <3>3. g[U] = f[x] + g[U \ {x}] /\ h[U] = f[x] + h[U \ {x}]
      BY <2>2 DEF AddsUp
    <3> QED
      BY <3>2, <3>3
  <2> QED
    BY <2>1, <2>2
<1> HIDE DEF Good
<1>3. \A U \in SUBSET (S \cap T) : U \in Good
  BY <1>1, <1>2, FiniteInduction
<1> QED
  BY <1>3 DEF Good

\* ... and there is one for every finite set.
LEMMA AddsUpExists ==
  ASSUME NEW f, NEW S, IsFiniteSet(S)
  PROVE  \E g : AddsUp(f, S, g)
<1> DEFINE Good == {T \in SUBSET S : \E g : AddsUp(f, T, g)}
<1>1. ASSUME NEW T \in SUBSET S, \A U \in SUBSET T : U # T => U \in Good
      PROVE  T \in Good
  <2>1. CASE T = {}
    <3> DEFINE g == [U \in SUBSET T |-> 0]
    <3>1. g = [U \in SUBSET T |-> IF U = {} THEN 0 ELSE f[Chosen(U)] + g[U \ {Chosen(U)}]]
      BY <2>1
    <3> QED
      BY <3>1 DEF AddsUp
  <2>2. CASE T # {}
    <3> DEFINE Part(y) == CHOOSE g : AddsUp(f, T \ {y}, g)
               Missing(U) == CHOOSE y \in T : y \notin U
               x == Chosen(T)
               g == [U \in SUBSET T |->
                       IF U = T THEN f[x] + Part(x)[T \ {x}] ELSE Part(Missing(U))[U]]
    <3>1. ASSUME NEW y \in T PROVE AddsUp(f, T \ {y}, Part(y)) /\ IsFiniteSet(T \ {y})
      BY <1>1, FS_Subset
    <3>2. ASSUME NEW U \in SUBSET T, U # T PROVE Missing(U) \in T /\ Missing(U) \notin U
      BY <3>2
    <3>3. x \in T
      BY <2>2, ChosenIn
    <3>4. ASSUME NEW U \in SUBSET T, U # T, NEW y \in T, y \notin U
          PROVE  g[U] = Part(y)[U]
      <4> DEFINE z == Missing(U)
      <4>1. z \in T /\ z \notin U
        BY <3>2, <3>4
      <4>2. U \in SUBSET ((T \ {z}) \cap (T \ {y}))
        BY <4>1, <3>4
      <4>3. AddsUp(f, T \ {z}, Part(z)) /\ IsFiniteSet(T \ {z}) /\ AddsUp(f, T \ {y}, Part(y))
        BY <3>1, <4>1
      <4>4. g[U] = Part(z)[U]
        BY <3>4
      <4> HIDE DEF g, z, Part
      <4> QED
        BY <4>2, <4>3, <4>4, AddsUpOnce
    <3>5. ASSUME NEW U \in SUBSET T
          PROVE  g[U] = IF U = {} THEN 0 ELSE f[Chosen(U)] + g[U \ {Chosen(U)}]
      <4>1. CASE U = T
        <5>1. g[T \ {x}] = Part(x)[T \ {x}]
          <6> HIDE DEF g, Part
          <6> QED
            BY <3>3, <3>4
        <5>2. g[T] = f[x] + Part(x)[T \ {x}]
          OBVIOUS
        <5> QED
          BY <4>1, <5>1, <5>2, <2>2
      <4>2. CASE U # T
        <5> PICK y \in T : y \notin U
          BY <4>2
        <5>1. g[U] = Part(y)[U]
          <6> HIDE DEF g, Part
          <6> QED
            BY <3>4, <4>2
        <5>2. AddsUp(f, T \ {y}, Part(y))
          BY <3>1
        <5>3. CASE U = {}
          <6> HIDE DEF g, Part
          <6> QED
            BY <5>1, <5>2, <5>3 DEF AddsUp
        <5>4. CASE U # {}
          <6>1. Chosen(U) \in U
            BY <5>4, ChosenIn
          <6>2. g[U \ {Chosen(U)}] = Part(y)[U \ {Chosen(U)}]
            <7>1. U \ {Chosen(U)} \in SUBSET T /\ U \ {Chosen(U)} # T
              BY <4>2
            <7> HIDE DEF g, Part
            <7> QED
              BY <3>4, <7>1
          <6>3. Part(y)[U] = f[Chosen(U)] + Part(y)[U \ {Chosen(U)}]
            <7> HIDE DEF g, Part
            <7> QED
              BY <5>2, <5>4 DEF AddsUp
          <6> HIDE DEF g, Part
          <6> QED
            BY <5>1, <5>4, <6>2, <6>3
        <5> QED
          BY <5>3, <5>4
      <4> QED
        BY <4>1, <4>2
    <3>6. AddsUp(f, T, g)
      <4>1. g = [U \in SUBSET T |-> g[U]]
        OBVIOUS
      <4> HIDE DEF g
      <4> QED
        BY <3>5, <4>1 DEF AddsUp
    <3> QED
      BY <3>6
  <2> QED
    BY <2>1, <2>2
<1> HIDE DEF Good
<1>2. \A T \in SUBSET S : T \in Good
  BY <1>1, FiniteInduction
<1> QED
  BY <1>2 DEF Good

LEMMA SumIsAddedUp ==
  ASSUME NEW f, NEW S, IsFiniteSet(S), NEW g, AddsUp(f, S, g)
  PROVE  \A U \in SUBSET S : SumFunctionOnSet(f, U) = g[U]
<1> TAKE U \in SUBSET S
<1> DEFINE h == CHOOSE k : AddsUp(f, U, k)
<1>1. IsFiniteSet(U)
  BY FS_Subset
<1>2. AddsUp(f, U, h)
  BY <1>1, AddsUpExists
<1>3. U \in SUBSET (S \cap U)
  OBVIOUS
<1> HIDE DEF h
<1>4. g[U] = h[U]
  BY <1>2, <1>3, AddsUpOnce
<1> QED
  BY <1>4, SumDef DEF h

\* Hence the equations of a sum: nothing, one chosen element taken out ...
LEMMA SumEmpty ==
  ASSUME NEW f
  PROVE  SumFunctionOnSet(f, {}) = 0
<1>1. PICK g : AddsUp(f, {}, g)
  BY FS_EmptySet, AddsUpExists
<1>2. SumFunctionOnSet(f, {}) = g[{}]
  BY <1>1, FS_EmptySet, SumIsAddedUp
<1> QED
  BY <1>1, <1>2 DEF AddsUp

LEMMA SumChosen ==
  ASSUME NEW f, NEW S, IsFiniteSet(S), S # {}
  PROVE  SumFunctionOnSet(f, S) = f[Chosen(S)] + SumFunctionOnSet(f, S \ {Chosen(S)})
<1>1. PICK g : AddsUp(f, S, g)
  BY AddsUpExists
<1>2. SumFunctionOnSet(f, S) = g[S] /\ SumFunctionOnSet(f, S \ {Chosen(S)}) = g[S \ {Chosen(S)}]
  BY <1>1, SumIsAddedUp
<1> QED
  BY <1>1, <1>2 DEF AddsUp

LEMMA SumType ==
  ASSUME NEW f, NEW S, IsFiniteSet(S), \A x \in S : f[x] \in Int
  PROVE  SumFunctionOnSet(f, S) \in Int
<1> DEFINE Good == {T \in SUBSET S : SumFunctionOnSet(f, T) \in Int}
<1>1. ASSUME NEW T \in SUBSET S, \A U \in SUBSET T : U # T => U \in Good
      PROVE  T \in Good
  <2>1. CASE T = {}
    BY <2>1, SumEmpty
  <2>2. CASE T # {}
    <3>1. Chosen(T) \in T /\ IsFiniteSet(T)
      BY <2>2, ChosenIn, FS_Subset
    <3>2. SumFunctionOnSet(f, T) = f[Chosen(T)] + SumFunctionOnSet(f, T \ {Chosen(T)})
      BY <2>2, <3>1, SumChosen
    <3>3. SumFunctionOnSet(f, T \ {Chosen(T)}) \in Int
      BY <1>1, <3>1
    <3> QED
      BY <3>1, <3>2, <3>3
  <2> QED
    BY <2>1, <2>2
<1> HIDE DEF Good
<1>2. \A T \in SUBSET S : T \in Good
  BY <1>1, FiniteInduction
<1> QED
  BY <1>2 DEF Good

\* ... or any one element taken out.
LEMMA SumTakeOut ==
  ASSUME NEW f, NEW S, IsFiniteSet(S), \A x \in S : f[x] \in Int, NEW x \in S
  PROVE  SumFunctionOnSet(f, S) = f[x] + SumFunctionOnSet(f, S \ {x})
<1> DEFINE Good == {T \in SUBSET S :
               \A y \in T : SumFunctionOnSet(f, T) = f[y] + SumFunctionOnSet(f, T \ {y})}
<1>1. ASSUME NEW T \in SUBSET S, \A U \in SUBSET T : U # T => U \in Good
      PROVE  T \in Good
  <2> SUFFICES ASSUME NEW y \in T
               PROVE  SumFunctionOnSet(f, T) = f[y] + SumFunctionOnSet(f, T \ {y})
    OBVIOUS
  <2> DEFINE c == Chosen(T)
  <2>1. c \in T /\ IsFiniteSet(T)
    BY ChosenIn, FS_Subset
  <2>2. SumFunctionOnSet(f, T) = f[c] + SumFunctionOnSet(f, T \ {c})
    BY <2>1, SumChosen
  <2>3. CASE c = y
    BY <2>2, <2>3
  <2>4. CASE c # y
    <3> HIDE DEF c
    <3>1. SumFunctionOnSet(f, T \ {c}) = f[y] + SumFunctionOnSet(f, (T \ {c}) \ {y})
      <4>1. T \ {c} \in SUBSET T /\ T \ {c} # T /\ y \in T \ {c}
        BY <2>1, <2>4
      <4> QED
        BY <1>1, <4>1
    <3>2. SumFunctionOnSet(f, T \ {y}) = f[c] + SumFunctionOnSet(f, (T \ {y}) \ {c})
      <4>1. T \ {y} \in SUBSET T /\ T \ {y} # T /\ c \in T \ {y}
        BY <2>1, <2>4
      <4> QED
        BY <1>1, <4>1
    <3> DEFINE rest == SumFunctionOnSet(f, (T \ {y}) \ {c})
    <3>3. SumFunctionOnSet(f, (T \ {c}) \ {y}) = rest
      <4>1. (T \ {c}) \ {y} = (T \ {y}) \ {c}
        OBVIOUS
      <4> QED
        BY <4>1
    <3>4. f[c] \in Int /\ f[y] \in Int
      BY <2>1
    <3>5. rest \in Int
      <4>1. IsFiniteSet((T \ {y}) \ {c})
        BY <2>1, FS_RemoveElement
      <4> QED
        BY <4>1, SumType
    <3> HIDE DEF rest
    <3>6. SumFunctionOnSet(f, T) = f[c] + (f[y] + rest)
      BY <2>2, <3>1, <3>3
    <3>7. SumFunctionOnSet(f, T \ {y}) = f[c] + rest
      BY <3>2 DEF rest
    <3>8. f[c] + (f[y] + rest) = f[y] + (f[c] + rest)
      BY <3>4, <3>5
    <3> QED
      BY <3>6, <3>7, <3>8
  <2> QED
    BY <2>3, <2>4
<1> HIDE DEF Good
<1>2. \A T \in SUBSET S : T \in Good
  BY <1>1, FiniteInduction
<1> QED
  BY <1>2 DEF Good

\* Only the values on the set count ...
LEMMA SumSame ==
  ASSUME NEW f, NEW g, NEW S, IsFiniteSet(S), \A x \in S : f[x] = g[x]
  PROVE  SumFunctionOnSet(f, S) = SumFunctionOnSet(g, S)
<1> DEFINE Good == {T \in SUBSET S : SumFunctionOnSet(f, T) = SumFunctionOnSet(g, T)}
<1>1. ASSUME NEW T \in SUBSET S, \A U \in SUBSET T : U # T => U \in Good
      PROVE  T \in Good
  <2>1. CASE T = {}
    BY <2>1, SumEmpty
  <2>2. CASE T # {}
    <3>1. Chosen(T) \in T /\ IsFiniteSet(T)
      BY <2>2, ChosenIn, FS_Subset
    <3>2. /\ SumFunctionOnSet(f, T) = f[Chosen(T)] + SumFunctionOnSet(f, T \ {Chosen(T)})
          /\ SumFunctionOnSet(g, T) = g[Chosen(T)] + SumFunctionOnSet(g, T \ {Chosen(T)})
      BY <2>2, <3>1, SumChosen
    <3>3. SumFunctionOnSet(f, T \ {Chosen(T)}) = SumFunctionOnSet(g, T \ {Chosen(T)})
      BY <1>1, <3>1
    <3> QED
      BY <3>1, <3>2, <3>3
  <2> QED
    BY <2>1, <2>2
<1> HIDE DEF Good
<1>2. \A T \in SUBSET S : T \in Good
  BY <1>1, FiniteInduction
<1> QED
  BY <1>2 DEF Good

\* ... and zeros do not.
LEMMA SumWithoutZeros ==
  ASSUME NEW f, NEW S, IsFiniteSet(S), \A x \in S : f[x] \in Int,
         NEW T \in SUBSET S, \A x \in S \ T : f[x] = 0
  PROVE  SumFunctionOnSet(f, S) = SumFunctionOnSet(f, T)
<1> DEFINE Good == {U \in SUBSET S : SumFunctionOnSet(f, U) = SumFunctionOnSet(f, U \cap T)}
<1>1. ASSUME NEW U \in SUBSET S, \A V \in SUBSET U : V # U => V \in Good
      PROVE  U \in Good
  <2>1. CASE U \subseteq T
    <3>1. U \cap T = U
      BY <2>1
    <3> QED
      BY <3>1
  <2>2. CASE ~(U \subseteq T)
    <3> PICK x \in U : x \notin T
      BY <2>2
    <3>1. SumFunctionOnSet(f, U) = f[x] + SumFunctionOnSet(f, U \ {x})
      <4>1. IsFiniteSet(U) /\ \A y \in U : f[y] \in Int
        BY FS_Subset
      <4> QED
        BY <4>1, SumTakeOut
    <3>2. SumFunctionOnSet(f, U \ {x}) = SumFunctionOnSet(f, (U \ {x}) \cap T)
      BY <1>1
    <3>3. (U \ {x}) \cap T = U \cap T
      OBVIOUS
    <3>4. f[x] = 0 /\ SumFunctionOnSet(f, U \ {x}) \in Int
      <4>1. IsFiniteSet(U \ {x}) /\ \A y \in U \ {x} : f[y] \in Int
        BY FS_Subset, FS_RemoveElement
      <4> QED
        BY <4>1, SumType
    <3>5. SumFunctionOnSet(f, U) = SumFunctionOnSet(f, U \ {x})
      BY <3>1, <3>4
    <3>6. SumFunctionOnSet(f, U) = SumFunctionOnSet(f, U \cap T)
      BY <3>2, <3>3, <3>5
    <3> QED
      BY <3>6
  <2> QED
    BY <2>1, <2>2
<1> HIDE DEF Good
<1>2. S \in Good
  BY <1>1, FiniteInduction
<1>3. S \cap T = T
  OBVIOUS
<1> QED
  BY <1>2, <1>3 DEF Good

-----------------------------------------------------------------------------
(* AUC: the rank sum counts pairs.                                         *)

\* The pairs of a relation between two sets, and the row of one element.
Pairs(A, B, R) == {q \in A \X B : q \in R}
Row(x, B, R) == {k \in B : <<x, k>> \in R}

LEMMA PairsFinite ==
  ASSUME NEW A, NEW B, NEW R, IsFiniteSet(A), IsFiniteSet(B)
  PROVE  IsFiniteSet(Pairs(A, B, R)) /\ Cardinality(Pairs(A, B, R)) \in Nat
<1>1. IsFiniteSet(A \X B)
  BY FS_Product
<1>2. Pairs(A, B, R) \in SUBSET (A \X B)
  BY DEF Pairs
<1> QED
  BY <1>1, <1>2, FS_Subset, FS_CardinalityType

LEMMA RowFinite ==
  ASSUME NEW x, NEW B, NEW R, IsFiniteSet(B)
  PROVE  IsFiniteSet(Row(x, B, R)) /\ Cardinality(Row(x, B, R)) \in Nat
<1>1. Row(x, B, R) \in SUBSET B
  BY DEF Row
<1> QED
  BY <1>1, FS_Subset, FS_CardinalityType

\* Sets of pairs that share nothing are counted one after the other.
LEMMA CountDisjoint ==
  ASSUME NEW S, NEW T, IsFiniteSet(S), IsFiniteSet(T), S \cap T = {}
  PROVE  Cardinality(S \cup T) = Cardinality(S) + Cardinality(T)
<1>1. Cardinality(S) \in Nat /\ Cardinality(T) \in Nat /\ Cardinality(S \cap T) = 0
  BY FS_CardinalityType, FS_EmptySet
<1>2. Cardinality(S \cup T) = Cardinality(S) + Cardinality(T) - Cardinality(S \cap T)
  BY FS_Union
<1> QED
  BY <1>1, <1>2

LEMMA PairsRow ==
  ASSUME NEW A, NEW B, NEW R, IsFiniteSet(A), IsFiniteSet(B), NEW x \in A
  PROVE  Cardinality(Pairs(A, B, R))
             = Cardinality(Pairs(A \ {x}, B, R)) + Cardinality(Row(x, B, R))
<1> DEFINE K == Row(x, B, R)
           T == {x} \X K
<1>1. IsFiniteSet(K) /\ Cardinality(K) \in Nat
  BY RowFinite
<1>2. IsFiniteSet(T) /\ Cardinality(T) = Cardinality(K)
  <2>1. IsFiniteSet({x}) /\ Cardinality({x}) = 1
    BY FS_Singleton
  <2> HIDE DEF K
  <2>2. IsFiniteSet(T) /\ Cardinality(T) = 1 * Cardinality(K)
    BY <1>1, <2>1, FS_Product
  <2> QED
    BY <1>1, <2>2
<1>3. IsFiniteSet(Pairs(A \ {x}, B, R))
  BY FS_RemoveElement, PairsFinite
<1>4. Pairs(A, B, R) = Pairs(A \ {x}, B, R) \cup T /\ Pairs(A \ {x}, B, R) \cap T = {}
  BY DEF Pairs, Row
<1> HIDE DEF K, T
<1>5. Cardinality(Pairs(A, B, R)) = Cardinality(Pairs(A \ {x}, B, R)) + Cardinality(T)
  BY <1>2, <1>3, <1>4, CountDisjoint
<1> QED
  BY <1>2, <1>5 DEF K

\* Doubled ranks, added up: one for every row, and the pairs of both relations.
LEMMA RankSum ==
  ASSUME NEW A, NEW D, IsFiniteSet(A), IsFiniteSet(D), NEW R, NEW Q, NEW f,
         \A i \in A : f[i] = Cardinality(Row(i, D, R)) + 1 + Cardinality(Row(i, D, Q))
  PROVE  SumFunctionOnSet(f, A)
             = Cardinality(A) + Cardinality(Pairs(A, D, R)) + Cardinality(Pairs(A, D, Q))
<1> DEFINE Claim(T) == SumFunctionOnSet(f, T)
               = Cardinality(T) + Cardinality(Pairs(T, D, R)) + Cardinality(Pairs(T, D, Q))
           Good == {T \in SUBSET A : Claim(T)}
<1>1. ASSUME NEW T \in SUBSET A, \A U \in SUBSET T : U # T => U \in Good
      PROVE  T \in Good
  <2>1. CASE T = {}
    <3>1. Pairs({}, D, R) = {} /\ Pairs({}, D, Q) = {}
      BY DEF Pairs
    <3>2. Cardinality({}) = 0
      BY FS_EmptySet
    <3> QED
      BY <2>1, <3>1, <3>2, SumEmpty
  <2>2. CASE T # {}
    <3> PICK x \in T : TRUE
      BY <2>2
    <3>1. IsFiniteSet(T) /\ IsFiniteSet(T \ {x})
      BY FS_Subset, FS_RemoveElement
    <3>2. SumFunctionOnSet(f, T) = f[x] + SumFunctionOnSet(f, T \ {x})
      <4>1. \A i \in T : f[i] \in Int
        BY RowFinite
      <4> QED
        BY <3>1, <4>1, SumTakeOut
    <3>3. Claim(T \ {x})
      BY <1>1
    <3>4. Cardinality(T) = Cardinality(T \ {x}) + 1
      <4>1. Cardinality(T \ {x}) = Cardinality(T) - 1
        BY <3>1, FS_RemoveElement
      <4>2. Cardinality(T) \in Nat
        BY <3>1, FS_CardinalityType
      <4> QED
        BY <4>1, <4>2
    <3>5. /\ Cardinality(Pairs(T, D, R))
                 = Cardinality(Pairs(T \ {x}, D, R)) + Cardinality(Row(x, D, R))
          /\ Cardinality(Pairs(T, D, Q))
                 = Cardinality(Pairs(T \ {x}, D, Q)) + Cardinality(Row(x, D, Q))
      BY <3>1, PairsRow
    <3>6. f[x] = Cardinality(Row(x, D, R)) + 1 + Cardinality(Row(x, D, Q))
      OBVIOUS
    <3> DEFINE c == Cardinality(T \ {x})
               pr == Cardinality(Pairs(T \ {x}, D, R))
               pq == Cardinality(Pairs(T \ {x}, D, Q))
               rr == Cardinality(Row(x, D, R))
               rq == Cardinality(Row(x, D, Q))
    <3>7. c \in Nat /\ pr \in Nat /\ pq \in Nat /\ rr \in Nat /\ rq \in Nat
      BY <3>1, FS_CardinalityType, PairsFinite, RowFinite
    <3>8. SumFunctionOnSet(f, T) = (rr + 1 + rq) + (c + pr + pq)
      BY <3>2, <3>3, <3>6
    <3>9. Cardinality(T) + Cardinality(Pairs(T, D, R)) + Cardinality(Pairs(T, D, Q))
              = (c + 1) + (pr + rr) + (pq + rq)
      BY <3>4, <3>5
    <3> HIDE DEF c, pr, pq, rr, rq
    <3>10. (rr + 1 + rq) + (c + pr + pq) = (c + 1) + (pr + rr) + (pq + rq)
      BY <3>7
    <3> QED
      BY <3>8, <3>9, <3>10
  <2> QED
    BY <2>1, <2>2
<1> HIDE DEF Good
<1>2. A \in Good
  BY <1>1, FiniteInduction
<1> QED
  BY <1>2 DEF Good

\* Of two rows of one set the first is below the second, or the second is below
\* the first or level with it.
LEMMA PairsAmongThemselves ==
  ASSUME NEW A, IsFiniteSet(A), NEW p, \A i \in A : p[i] \in Int,
         NEW R, \A i, k \in A : <<i, k>> \in R <=> p[k] < p[i],
         NEW Q, \A i, k \in A : <<i, k>> \in Q <=> p[k] <= p[i]
  PROVE  Cardinality(Pairs(A, A, R)) + Cardinality(Pairs(A, A, Q))
             = Cardinality(A) * Cardinality(A)
<1> DEFINE turned == {q \in A \X A : <<q[2], q[1]>> \in R}
           flip == [q \in Pairs(A, A, R) |-> <<q[2], q[1]>>]
<1>1. flip \in Bijection(Pairs(A, A, R), turned)
  <2>1. flip \in [Pairs(A, A, R) -> turned]
    BY DEF Pairs
  <2>2. \A q, u \in Pairs(A, A, R) : flip[q] = flip[u] => q = u
    BY DEF Pairs
  <2>3. ASSUME NEW u \in turned PROVE \E q \in Pairs(A, A, R) : flip[q] = u
    <3>1. <<u[2], u[1]>> \in Pairs(A, A, R) /\ flip[<<u[2], u[1]>>] = u
      BY DEF Pairs
    <3> QED
      BY <3>1
  <2> HIDE DEF turned, flip
  <2> QED
    BY <2>1, <2>2, <2>3 DEF Bijection, Injection, Surjection, IsInjective
<1>2. IsFiniteSet(Pairs(A, A, R)) /\ IsFiniteSet(Pairs(A, A, Q))
  BY PairsFinite
<1>3. IsFiniteSet(turned) /\ Cardinality(turned) = Cardinality(Pairs(A, A, R))
  <2> HIDE DEF turned, flip
  <2> QED
    BY <1>1, <1>2, FS_Bijection DEF ExistsBijection
<1>4. turned \cup Pairs(A, A, Q) = A \X A /\ turned \cap Pairs(A, A, Q) = {}
  <2>1. ASSUME NEW i \in A, NEW k \in A
        PROVE  <<i, k>> \in turned <=> ~(<<i, k>> \in Pairs(A, A, Q))
    <3>1. p[i] \in Int /\ p[k] \in Int
      OBVIOUS
    <3>2. <<i, k>> \in turned <=> p[i] < p[k]
      OBVIOUS
    <3>3. <<i, k>> \in Pairs(A, A, Q) <=> p[k] <= p[i]
      BY DEF Pairs
    <3> QED
      BY <3>1, <3>2, <3>3
  <2>2. turned \subseteq A \X A /\ Pairs(A, A, Q) \subseteq A \X A
    BY DEF Pairs
  <2> HIDE DEF turned
  <2> QED
    BY <2>1, <2>2
<1>5. Cardinality(A \X A) = Cardinality(A) * Cardinality(A)
  BY FS_Product
<1> HIDE DEF turned
<1>6. Cardinality(A \X A) = Cardinality(turned) + Cardinality(Pairs(A, A, Q))
  BY <1>2, <1>3, <1>4, CountDisjoint
<1> QED
  BY <1>3, <1>5, <1>6

\* binary_auc: for whole scores, twice the rank sum of the positive rows, less
\* what they get among themselves, counts the pairs a positive row wins.
THEOREM AucIsPairwise ==
  ASSUME NEW rows, IsFiniteSet(DOMAIN rows),
         NEW predictions, DOMAIN predictions = DOMAIN rows,
         \A i \in DOMAIN rows : predictions[i] \in Int
  PROVE  PairsCounted(rows, predictions)
<1> DEFINE D == DOMAIN rows
           P == Positives(rows)
           N == Negatives(rows)
           R == {q \in D \X D : predictions[q[2]] < predictions[q[1]]}
           Q == {q \in D \X D : predictions[q[2]] <= predictions[q[1]]}
           E == {q \in D \X D : predictions[q[1]] = predictions[q[2]]}
           f == [i \in P |-> AverageRankTwice(predictions, i)]
           a == Cardinality(P)
           wins == Cardinality(Pairs(P, N, R))
           draws == Cardinality(Pairs(P, N, E))
<1>1. P \in SUBSET D /\ N = D \ P /\ IsFiniteSet(P) /\ IsFiniteSet(N) /\ IsFiniteSet(D)
  <2>1. P \in SUBSET D /\ N = D \ P
    BY DEF Positives, Negatives
  <2> QED
    BY <2>1, FS_Subset
<1>2. SumFunction(f) = a + Cardinality(Pairs(P, D, R)) + Cardinality(Pairs(P, D, Q))
  <2>1. ASSUME NEW i \in P
        PROVE  f[i] = Cardinality(Row(i, D, R)) + 1 + Cardinality(Row(i, D, Q))
    <3>1. Row(i, D, R) = {k \in D : predictions[k] < predictions[i]}
      BY <1>1 DEF Row
    <3>2. Row(i, D, Q) = {k \in D : predictions[k] <= predictions[i]}
      BY <1>1 DEF Row
    <3> QED
      BY <3>1, <3>2 DEF AverageRankTwice
  <2>2. SumFunction(f) = SumFunctionOnSet(f, P)
    BY DEF SumFunction
  <2> HIDE DEF D, P, R, Q, f
  <2> QED
    BY <1>1, <2>1, <2>2, RankSum
<1>3. ASSUME NEW X
      PROVE  Cardinality(Pairs(P, D, X)) = Cardinality(Pairs(P, P, X)) + Cardinality(Pairs(P, N, X))
  <2> HIDE DEF D, P, N
  <2>1. Pairs(P, D, X) = Pairs(P, P, X) \cup Pairs(P, N, X)
    BY <1>1 DEF Pairs
  <2>2. Pairs(P, P, X) \cap Pairs(P, N, X) = {}
    BY <1>1 DEF Pairs
  <2> QED
    BY <1>1, <2>1, <2>2, PairsFinite, CountDisjoint
<1>4. Cardinality(Pairs(P, P, R)) + Cardinality(Pairs(P, P, Q)) = a * a
  <2>1. \A i, k \in P : /\ <<i, k>> \in R <=> predictions[k] < predictions[i]
                        /\ <<i, k>> \in Q <=> predictions[k] <= predictions[i]
    BY <1>1
  <2>2. \A i \in P : predictions[i] \in Int
    BY <1>1
  <2> HIDE DEF P, R, Q
  <2> QED
    BY <1>1, <2>1, <2>2, PairsAmongThemselves
<1>5. Cardinality(Pairs(P, N, Q)) = wins + draws
  <2>1. ASSUME NEW i \in P, NEW k \in N
        PROVE  /\ <<i, k>> \in Q <=> <<i, k>> \in R \/ <<i, k>> \in E
               /\ ~(<<i, k>> \in R /\ <<i, k>> \in E)
    BY <1>1
  <2> HIDE DEF P, N, R, Q, E
  <2>2. Pairs(P, N, Q) = Pairs(P, N, R) \cup Pairs(P, N, E)
    BY <2>1 DEF Pairs
  <2>3. Pairs(P, N, R) \cap Pairs(P, N, E) = {}
    BY <2>1 DEF Pairs
  <2> QED
    BY <1>1, <2>2, <2>3, PairsFinite, CountDisjoint
<1>6. WinsTwice(rows, predictions) = 2 * wins + draws
  <2>1. Pairs(P, N, R) = {q \in P \X N : predictions[q[1]] > predictions[q[2]]}
    BY <1>1 DEF Pairs
  <2>2. Pairs(P, N, E) = {q \in P \X N : predictions[q[1]] = predictions[q[2]]}
    BY <1>1 DEF Pairs
  <2> QED
    BY <2>1, <2>2 DEF WinsTwice
<1>7. /\ a \in Nat /\ wins \in Nat /\ draws \in Nat
      /\ Cardinality(Pairs(P, P, R)) \in Nat /\ Cardinality(Pairs(P, P, Q)) \in Nat
  BY <1>1, FS_CardinalityType, PairsFinite
<1>8. SumFunction(f) - a * (a + 1) = WinsTwice(rows, predictions)
  <2> DEFINE ppr == Cardinality(Pairs(P, P, R))
             ppq == Cardinality(Pairs(P, P, Q))
  <2>1. SumFunction(f) = a + (ppr + wins) + (ppq + (wins + draws))
    BY <1>2, <1>3, <1>5
  <2>2. ppr + ppq = a * a
    BY <1>4
  <2>3. ppr \in Nat /\ ppq \in Nat /\ a \in Nat /\ wins \in Nat /\ draws \in Nat
    BY <1>7
  <2> HIDE DEF ppr, ppq, a, wins, draws, f
  <2>4. a * (a + 1) = a * a + a /\ a * a \in Nat
    BY <2>3
  <2> QED
    BY <1>6, <2>1, <2>2, <2>3, <2>4
<1>9. BinaryAuc(rows, predictions) # Undefined
          => BinaryAuc(rows, predictions).num = SumFunction(f) - a * (a + 1)
  BY DEF BinaryAuc
<1> HIDE DEF f, a
<1> QED
  BY <1>8, <1>9 DEF PairsCounted

-----------------------------------------------------------------------------
(* NDCG: no order of a request gains more than the order of its labels.    *)

\* The position in a ranking is a bijection, and a higher key comes first.
Ahead(key, i, group) == {k \in group : key[k] > key[i] \/ (key[k] = key[i] /\ k < i)}
Positions(key, group) == [i \in group |-> PositionBy(key, group, i)]

LEMMA PositionsInOrder ==
  ASSUME NEW group \in SUBSET Int, IsFiniteSet(group),
         NEW key, \A i \in group : key[i] \in Int
  PROVE  /\ Positions(key, group) \in Bijection(group, 1..Cardinality(group))
         /\ \A i, j \in group : key[i] > key[j] =>
                Positions(key, group)[i] < Positions(key, group)[j]
<1> DEFINE n == Cardinality(group)
           pos == Positions(key, group)
           Before(i, j) == key[i] > key[j] \/ (key[i] = key[j] /\ i < j)
<1>1. ASSUME NEW i \in group
      PROVE  /\ pos[i] = 1 + Cardinality(Ahead(key, i, group))
             /\ IsFiniteSet(Ahead(key, i, group)) /\ Cardinality(Ahead(key, i, group)) \in 0..(n - 1)
  <2>1. pos[i] = 1 + Cardinality(Ahead(key, i, group))
    BY DEF Positions, PositionBy, Ahead
  <2>2. Ahead(key, i, group) \in SUBSET (group \ {i})
    BY DEF Ahead
  <2>3. IsFiniteSet(group \ {i}) /\ Cardinality(group \ {i}) = n - 1 /\ n \in Nat
    BY FS_RemoveElement, FS_CardinalityType
  <2>4. IsFiniteSet(Ahead(key, i, group)) /\ Cardinality(Ahead(key, i, group)) <= n - 1
    BY <2>2, <2>3, FS_Subset
  <2>5. Cardinality(Ahead(key, i, group)) \in Nat
    BY <2>4, FS_CardinalityType
  <2> HIDE DEF pos, n
  <2> QED
    BY <2>1, <2>3, <2>4, <2>5
<1>2. ASSUME NEW i \in group, NEW j \in group, Before(i, j)
      PROVE  pos[i] < pos[j]
  <2>1. Ahead(key, i, group) \in SUBSET Ahead(key, j, group)
    <3> SUFFICES ASSUME NEW k \in group, Before(k, i) PROVE Before(k, j)
      BY DEF Ahead
    <3>1. key[i] \in Int /\ key[j] \in Int /\ key[k] \in Int /\ i \in Int /\ j \in Int /\ k \in Int
      OBVIOUS
    <3> QED
      BY <1>2, <3>1
  <2>2. i \in Ahead(key, j, group) /\ i \notin Ahead(key, i, group)
    BY <1>2 DEF Ahead
  <2>3. Ahead(key, i, group) # Ahead(key, j, group)
    BY <2>2
  <2>4. Cardinality(Ahead(key, i, group)) <= Cardinality(Ahead(key, j, group))
        /\ Cardinality(Ahead(key, i, group)) # Cardinality(Ahead(key, j, group))
    <3>1. IsFiniteSet(Ahead(key, j, group))
      BY <1>1
    <3> HIDE DEF pos, n
    <3> QED
      BY <3>1, <2>1, <2>3, FS_Subset
  <2>5. Cardinality(Ahead(key, i, group)) \in Int /\ Cardinality(Ahead(key, j, group)) \in Int
    BY <1>1, FS_CardinalityType
  <2>6. pos[i] = 1 + Cardinality(Ahead(key, i, group)) /\ pos[j] = 1 + Cardinality(Ahead(key, j, group))
    BY <1>1
  <2> HIDE DEF pos, n
  <2> QED
    BY <2>4, <2>5, <2>6
<1>3. pos \in Injection(group, 1..n)
  <2>1. ASSUME NEW i \in group PROVE pos[i] \in 1..n
    <3>1. n \in Nat
      BY FS_CardinalityType
    <3> HIDE DEF pos, n
    <3> QED
      BY <1>1, <3>1
  <2>2. pos = [i \in group |-> pos[i]]
    BY DEF Positions
  <2>3. ASSUME NEW i \in group, NEW j \in group, pos[i] = pos[j] PROVE i = j
    <3>1. i = j \/ Before(i, j) \/ Before(j, i)
      OBVIOUS
    <3>2. pos[i] \in Int /\ pos[j] \in Int
      BY <2>1
    <3> HIDE DEF pos, Before
    <3> QED
      BY <1>2, <2>3, <3>1, <3>2
  <2> HIDE DEF pos, n
  <2> QED
    BY <2>1, <2>2, <2>3 DEF Injection, IsInjective
<1>4. pos \in Bijection(group, 1..n)
  <2>1. n \in Nat /\ IsFiniteSet(1..n) /\ Cardinality(1..n) = n
    <3>1. n \in Nat
      BY FS_CardinalityType
    <3> HIDE DEF n
    <3> QED
      BY <3>1, FS_Interval
  <2>2. pos \in Surjection(group, 1..n)
    <3> HIDE DEF pos
    <3> QED
      BY <1>3, <2>1, FS_Injection
  <2> QED
    BY <1>3, <2>2 DEF Bijection
<1> QED
  BY <1>2, <1>4

\* Exchanging two weights for the larger label loses nothing.
LEMMA Exchange ==
  ASSUME NEW lo \in Int, NEW hi \in Int, lo <= hi, NEW last \in Int, NEW early \in Int, last <= early
  PROVE  lo * early + hi * last <= hi * early + lo * last
<1> DEFINE a == hi - lo
           b == early - last
<1>1. a \in Nat /\ b \in Nat
  OBVIOUS
<1>2. a * b \in Nat
  BY <1>1
<1>3. a * b = hi * early + lo * last - (lo * early + hi * last)
  OBVIOUS
<1> HIDE DEF a, b
<1> QED
  BY <1>2, <1>3

\* What labels l gain under the weights w in the order t of a set.
Gains(l, w, t, U) == [i \in U |-> l[i] * w[t[i]]]
Gained(l, w, t, U) == SumFunctionOnSet(Gains(l, w, t, U), U)
Sorted(l, s, U) == \A i, j \in U : l[i] > l[j] => s[i] < s[j]

\* The order t without z, once z has changed places with the last element y.
Without(t, U, y, z) == [i \in U \ {z} |-> IF i = y THEN t[z] ELSE t[i]]

LEMMA WithoutLast ==
  ASSUME NEW U, NEW m \in Nat \ {0}, NEW t \in Bijection(U, 1..m), NEW y \in U, t[y] = m, NEW z \in U
  PROVE  Without(t, U, y, z) \in Bijection(U \ {z}, 1..(m - 1))
<1> DEFINE r == Without(t, U, y, z)
<1>1. /\ t \in [U -> 1..m]
      /\ \A i, j \in U : t[i] = t[j] => i = j
      /\ \A q \in 1..m : \E i \in U : t[i] = q
  BY DEF Bijection, Injection, Surjection, IsInjective
<1>2. \A i \in U \ {z} : r[i] = IF i = y THEN t[z] ELSE t[i]
  BY DEF Without
<1>3. ASSUME NEW i \in U \ {z} PROVE r[i] \in 1..(m - 1)
  <2>1. \A j \in U : j # y => t[j] \in 1..m /\ t[j] # m
    BY <1>1
  <2>2. \A j \in U : j # y => t[j] \in 1..(m - 1)
    BY <2>1
  <2> HIDE DEF r
  <2> QED
    BY <1>2, <2>2
<1>4. ASSUME NEW i \in U \ {z}, NEW j \in U \ {z}, r[i] = r[j] PROVE i = j
  BY <1>1, <1>2, <1>4
<1>5. ASSUME NEW q \in 1..(m - 1) PROVE \E i \in U \ {z} : r[i] = q
  <2>1. q \in 1..m /\ q # m
    OBVIOUS
  <2> PICK i \in U : t[i] = q
    BY <1>1, <2>1
  <2>2. i # y
    BY <2>1
  <2> HIDE DEF r
  <2>3. CASE i = z
    BY <1>2, <2>2, <2>3
  <2>4. CASE i # z
    BY <1>2, <2>2, <2>4
  <2> QED
    BY <2>3, <2>4
<1>6. r = [i \in U \ {z} |-> r[i]]
  BY DEF Without
<1> HIDE DEF r
<1>7. r \in [U \ {z} -> 1..(m - 1)]
  BY <1>3, <1>6
<1> QED
  BY <1>4, <1>5, <1>7 DEF Bijection, Injection, Surjection, IsInjective, r

\* The rearrangement inequality: with weights that do not increase, the labels
\* gain most in an order that is sorted by them.
LEMMA SortedGainsMost ==
  ASSUME NEW G, IsFiniteSet(G), NEW l, \A i \in G : l[i] \in Int,
         NEW w, \A q \in 1..Cardinality(G) : w[q] \in Int,
         \A q, r \in 1..Cardinality(G) : q <= r => w[r] <= w[q],
         NEW s \in Bijection(G, 1..Cardinality(G)), Sorted(l, s, G),
         NEW t \in Bijection(G, 1..Cardinality(G))
  PROVE  Gained(l, w, t, G) <= Gained(l, w, s, G)
<1> DEFINE Claim(U) == \A a, b \in Bijection(U, 1..Cardinality(U)) :
                           Sorted(l, a, U) => Gained(l, w, b, U) <= Gained(l, w, a, U)
           Good == {U \in SUBSET G : Claim(U)}
<1>1. ASSUME NEW U \in SUBSET G, IsFiniteSet(U), Cardinality(U) <= Cardinality(G),
             NEW a \in Bijection(U, 1..Cardinality(U)), NEW i \in U
      PROVE  a[i] \in 1..Cardinality(G) /\ w[a[i]] \in Int /\ l[i] * w[a[i]] \in Int
  <2>1. a[i] \in 1..Cardinality(U)
    BY DEF Bijection, Injection
  <2>2. Cardinality(U) \in Nat /\ Cardinality(G) \in Nat
    BY <1>1, FS_CardinalityType
  <2>3. a[i] \in 1..Cardinality(G)
    BY <1>1, <2>1, <2>2
  <2> QED
    BY <2>3
<1>2. ASSUME NEW U \in SUBSET G, \A V \in SUBSET U : V # U => V \in Good
      PROVE  U \in Good
  <2> SUFFICES ASSUME NEW a \in Bijection(U, 1..Cardinality(U)),
                      NEW b \in Bijection(U, 1..Cardinality(U)), Sorted(l, a, U)
               PROVE  Gained(l, w, b, U) <= Gained(l, w, a, U)
    OBVIOUS
  <2> DEFINE m == Cardinality(U)
  <2>1. IsFiniteSet(U) /\ m \in Nat /\ m <= Cardinality(G)
    BY FS_Subset, FS_CardinalityType
  <2>2. CASE U = {}
    <3>1. Gained(l, w, b, U) = 0 /\ Gained(l, w, a, U) = 0
      BY <2>2, SumEmpty DEF Gained
    <3> QED
      BY <3>1
  <2>3. CASE U # {}
    <3>1. m \in Nat \ {0}
      BY <2>1, <2>3, FS_EmptySet
    <3>0. \A q \in 1..m : (\E i \in U : a[i] = q) /\ (\E i \in U : b[i] = q)
      BY DEF Bijection, Surjection
    <3> HIDE DEF m
    <3>last. m \in 1..m
      BY <3>1
    <3> PICK z \in U : a[z] = m
      BY <3>0, <3>last
    <3> PICK y \in U : b[y] = m
      BY <3>0, <3>last
    <3> DEFINE V == U \ {z}
               a1 == Without(a, U, z, z)
               b1 == Without(b, U, y, z)
    <3>2. IsFiniteSet(V) /\ Cardinality(V) = m - 1 /\ V \in SUBSET U /\ V # U /\ V \in SUBSET G
      BY <2>1, FS_RemoveElement DEF m
    <3>3. a1 \in Bijection(V, 1..(m - 1)) /\ b1 \in Bijection(V, 1..(m - 1))
      <4>1. a \in Bijection(U, 1..m) /\ b \in Bijection(U, 1..m)
        BY DEF m
      <4> QED
        BY <3>1, <4>1, WithoutLast
    <3>4. Sorted(l, a1, V)
      BY DEF Sorted, Without
    <3>5. Gained(l, w, b1, V) <= Gained(l, w, a1, V)
      <4>1. Claim(V)
        BY <1>2, <3>2
      <4> HIDE DEF V, a1, b1
      <4> QED
        BY <3>2, <3>3, <3>4, <4>1
    <3>6. ASSUME NEW c \in Bijection(U, 1..Cardinality(U)), NEW x \in U
          PROVE  Gained(l, w, c, U) = l[x] * w[c[x]] + SumFunctionOnSet(Gains(l, w, c, U), U \ {x})
      <4>1. \A i \in U : Gains(l, w, c, U)[i] \in Int
        BY <1>1, <2>1 DEF Gains, m
      <4>2. Gains(l, w, c, U)[x] = l[x] * w[c[x]]
        BY DEF Gains
      <4> QED
        BY <2>1, <4>1, <4>2, SumTakeOut DEF Gained
    <3>7. Gained(l, w, a, U) = l[z] * w[m] + Gained(l, w, a1, V)
      <4>1. \A i \in V : Gains(l, w, a, U)[i] = Gains(l, w, a1, V)[i]
        BY DEF Gains, Without
      <4>2. SumFunctionOnSet(Gains(l, w, a, U), V) = Gained(l, w, a1, V)
        <5> HIDE DEF V, a1
        <5> QED
          BY <3>2, <4>1, SumSame DEF Gained
      <4> QED
        BY <3>6, <4>2
    <3>8. Gained(l, w, a1, V) \in Int /\ Gained(l, w, b1, V) \in Int
      <4>1. m - 1 <= Cardinality(G)
        <5>1. Cardinality(G) \in Nat
          BY FS_CardinalityType
        <5> QED
          BY <2>1, <5>1 DEF m
      <4> HIDE DEF V, a1, b1
      <4>2. \A i \in V : Gains(l, w, a1, V)[i] \in Int /\ Gains(l, w, b1, V)[i] \in Int
        BY <1>1, <3>2, <3>3, <4>1 DEF Gains
      <4> QED
        BY <3>2, <4>2, SumType DEF Gained
    <3>9. l[y] \in Int /\ l[z] \in Int /\ w[m] \in Int /\ w[b[z]] \in Int /\ w[m] <= w[b[z]]
      <4>1. m \in 1..Cardinality(G) /\ b[z] \in 1..m /\ b[z] \in 1..Cardinality(G)
        <5>1. Cardinality(G) \in Nat
          BY FS_CardinalityType
        <5>2. b[z] \in 1..m
          BY DEF Bijection, Injection, m
        <5> QED
          BY <2>1, <3>1, <5>1, <5>2 DEF m
      <4> QED
        BY <4>1
    <3>10. l[z] <= l[y]
      <4>1. a[y] \in 1..m
        BY DEF Bijection, Injection, m
      <4>2. ~(a[z] < a[y])
        BY <3>1, <4>1
      <4> QED
        BY <3>9, <4>2 DEF Sorted
    <3>11. CASE y = z
      <4>1. \A i \in V : Gains(l, w, b, U)[i] = Gains(l, w, b1, V)[i]
        BY <3>11 DEF Gains, Without
      <4>2. SumFunctionOnSet(Gains(l, w, b, U), V) = Gained(l, w, b1, V)
        <5> HIDE DEF V, b1
        <5> QED
          BY <3>2, <4>1, SumSame DEF Gained
      <4>3. Gained(l, w, b, U) = l[z] * w[m] + Gained(l, w, b1, V)
        BY <3>6, <3>11, <4>2
      <4>4. l[z] * w[m] \in Int
        BY <3>9
      <4> HIDE DEF V, a1, b1
      <4> QED
        BY <3>5, <3>7, <3>8, <4>3, <4>4
    <3>12. CASE y # z
      <4> DEFINE X == V \ {y}
                 rest == SumFunctionOnSet(Gains(l, w, b1, V), X)
      <4>1. IsFiniteSet(X) /\ y \in V
        BY <3>2, <3>12, FS_RemoveElement
      <4>2. Gained(l, w, b, U) = l[z] * w[b[z]] + (l[y] * w[m] + rest)
        <5>1. Gained(l, w, b, U) = l[z] * w[b[z]] + SumFunctionOnSet(Gains(l, w, b, U), V)
          BY <3>6
        <5>2. SumFunctionOnSet(Gains(l, w, b, U), V)
                  = l[y] * w[m] + SumFunctionOnSet(Gains(l, w, b, U), X)
          <6>1. \A i \in V : Gains(l, w, b, U)[i] \in Int
            BY <1>1, <2>1 DEF Gains, m
          <6>2. Gains(l, w, b, U)[y] = l[y] * w[m]
            BY DEF Gains
          <6> HIDE DEF V
          <6> QED
            BY <3>2, <4>1, <6>1, <6>2, SumTakeOut
        <5>3. SumFunctionOnSet(Gains(l, w, b, U), X) = rest
          <6>1. \A i \in X : Gains(l, w, b, U)[i] = Gains(l, w, b1, V)[i]
            BY DEF Gains, Without
          <6> HIDE DEF X, V, b1
          <6> QED
            BY <4>1, <6>1, SumSame
        <5> QED
          BY <5>1, <5>2, <5>3
      <4>3. Gained(l, w, b1, V) = l[y] * w[b[z]] + rest /\ rest \in Int
        <5>1. \A i \in V : Gains(l, w, b1, V)[i] \in Int
          <6>1. m - 1 <= Cardinality(G)
            <7>1. Cardinality(G) \in Nat
              BY FS_CardinalityType
            <7> QED
              BY <2>1, <7>1 DEF m
          <6> HIDE DEF V, b1
          <6> QED
            BY <1>1, <3>2, <3>3, <6>1 DEF Gains
        <5>2. Gains(l, w, b1, V)[y] = l[y] * w[b[z]]
          BY <4>1 DEF Gains, Without
        <5>3. X \in SUBSET V
          OBVIOUS
        <5> HIDE DEF V, b1
        <5> QED
          BY <3>2, <4>1, <5>1, <5>2, <5>3, SumTakeOut, SumType DEF Gained
      <4>4. l[z] * w[b[z]] + l[y] * w[m] <= l[y] * w[b[z]] + l[z] * w[m]
        BY <3>9, <3>10, Exchange
      <4> DEFINE p1 == l[z] * w[b[z]]
                 p2 == l[y] * w[m]
                 p3 == l[y] * w[b[z]]
                 p4 == l[z] * w[m]
      <4>5. p1 \in Int /\ p2 \in Int /\ p3 \in Int /\ p4 \in Int /\ p1 + p2 <= p3 + p4
        BY <3>9, <4>4
      <4>6. /\ Gained(l, w, b, U) = p1 + (p2 + rest)
            /\ Gained(l, w, b1, V) = p3 + rest
            /\ Gained(l, w, a, U) = p4 + Gained(l, w, a1, V)
        BY <3>7, <4>2, <4>3
      <4>7. rest \in Int
        BY <4>3
      <4> HIDE DEF V, a1, b1, X, rest, p1, p2, p3, p4
      <4> QED
        BY <3>5, <3>8, <4>5, <4>6, <4>7
    <3> QED
      BY <3>11, <3>12
  <2> QED
    BY <2>2, <2>3
<1> HIDE DEF Good
<1>3. G \in Good
  BY <1>2, FiniteInduction
<1> QED
  BY <1>3 DEF Good

\* An evaluation the discounts suffice for: whole labels and whole scores.
Evaluation(rows, predictions) ==
    /\ \E n \in 0..MaxRows : DOMAIN rows = 1..n /\ DOMAIN predictions = 1..n
    /\ \A i \in DOMAIN rows : rows[i].label \in Nat /\ predictions[i] \in Int

\* The weights of the first k positions.
Weights(k) == [q \in DOMAIN Discount |-> IF q <= k THEN Discount[q] ELSE 0]

LEMMA GroupFinite ==
  ASSUME NEW rows, NEW predictions, Evaluation(rows, predictions), NEW request
  PROVE  /\ Group(rows, request) \in SUBSET DOMAIN rows
         /\ Group(rows, request) \in SUBSET Int
         /\ IsFiniteSet(DOMAIN rows) /\ IsFiniteSet(Group(rows, request))
         /\ Cardinality(Group(rows, request)) \in 0..MaxRows
<1> PICK n \in 0..MaxRows : DOMAIN rows = 1..n
  BY DEF Evaluation
<1>1. n \in Nat /\ n <= MaxRows /\ MaxRows \in Nat
  BY MetricsAssumption
<1>2. IsFiniteSet(1..n) /\ Cardinality(1..n) = n
  BY <1>1, FS_Interval
<1>3. Group(rows, request) \in SUBSET (1..n)
  BY DEF Group
<1>4. IsFiniteSet(Group(rows, request)) /\ Cardinality(Group(rows, request)) <= n
  BY <1>2, <1>3, FS_Subset
<1>5. Cardinality(Group(rows, request)) \in Nat
  BY <1>4, FS_CardinalityType
<1> QED
  BY <1>1, <1>2, <1>3, <1>4, <1>5

LEMMA WeightsFall ==
  ASSUME NEW k \in Int, NEW n \in 0..MaxRows
  PROVE  /\ \A q \in 1..n : q \in DOMAIN Discount /\ Weights(k)[q] \in Int
         /\ \A q, r \in 1..n : q <= r => Weights(k)[r] <= Weights(k)[q]
<1>1. \A q \in 1..n : q \in DOMAIN Discount /\ Discount[q] \in Nat
  BY MetricsAssumption
<1>2. \A q, r \in 1..n : q <= r => Discount[q] >= Discount[r]
  BY <1>1, MetricsAssumption
<1>3. \A q \in 1..n : Weights(k)[q] = IF q <= k THEN Discount[q] ELSE 0
  BY <1>1 DEF Weights
<1> QED
  BY <1>1, <1>2, <1>3

\* A gain is what the labels gain under the weights: the rows after the first k
\* add nothing.
LEMMA GainIsGained ==
  ASSUME NEW rows, NEW predictions, Evaluation(rows, predictions), NEW request, NEW k \in Int,
         NEW key, \A i \in Group(rows, request) : key[i] \in Int
  PROVE  LET group == Group(rows, request) IN
         Gain(rows, key, group, k) = Gained(Labels(rows), Weights(k), Positions(key, group), group)
<1> DEFINE group == Group(rows, request)
           top == {j \in group : PositionBy(key, group, j) <= k}
           part == [i \in top |-> rows[i].label * Discount[PositionBy(key, group, i)]]
           all == Gains(Labels(rows), Weights(k), Positions(key, group), group)
<1>1. group \in SUBSET DOMAIN rows /\ group \in SUBSET Int /\ IsFiniteSet(group)
      /\ Cardinality(group) \in 0..MaxRows
  BY GroupFinite
<1>2. \A i \in group : PositionBy(key, group, i) \in 1..Cardinality(group)
  <2>1. Positions(key, group) \in [group -> 1..Cardinality(group)]
    BY <1>1, PositionsInOrder DEF Bijection, Injection
  <2> QED
    BY <2>1 DEF Positions
<1>3. ASSUME NEW i \in group
      PROVE  /\ all[i] = rows[i].label * Weights(k)[PositionBy(key, group, i)]
             /\ all[i] \in Int
             /\ i \in top => all[i] = part[i]
             /\ i \notin top => all[i] = 0
  <2> DEFINE q == PositionBy(key, group, i)
  <2>1. q \in DOMAIN Discount /\ Weights(k)[q] \in Int /\ rows[i].label \in Nat
    BY <1>1, <1>2, WeightsFall DEF Evaluation
  <2>2. Weights(k)[q] = IF q <= k THEN Discount[q] ELSE 0
    BY <2>1 DEF Weights
  <2>3. all[i] = rows[i].label * Weights(k)[q]
    BY <1>1 DEF Gains, Labels, Positions
  <2>4. i \in top <=> q <= k
    OBVIOUS
  <2>5. i \in top => part[i] = rows[i].label * Discount[q]
    OBVIOUS
  <2> HIDE DEF all, top, part, q
  <2> QED
    BY <2>1, <2>2, <2>3, <2>4, <2>5 DEF q
<1>4. Gain(rows, key, group, k) = SumFunctionOnSet(part, top)
  BY DEF Gain, SumFunction
<1>5. top \in SUBSET group /\ IsFiniteSet(top)
  BY <1>1, FS_Subset
<1> HIDE DEF top, part, all, group
<1>6. SumFunctionOnSet(part, top) = SumFunctionOnSet(all, top)
  BY <1>3, <1>5, SumSame
<1>7. SumFunctionOnSet(all, group) = SumFunctionOnSet(all, top)
  BY <1>1, <1>3, <1>5, SumWithoutZeros
<1> QED
  BY <1>4, <1>6, <1>7 DEF Gained, all, group

LEMMA GainType ==
  ASSUME NEW rows, NEW predictions, Evaluation(rows, predictions), NEW request, NEW k \in Int,
         NEW key, \A i \in Group(rows, request) : key[i] \in Int
  PROVE  Gain(rows, key, Group(rows, request), k) \in Int
<1> DEFINE group == Group(rows, request)
           all == Gains(Labels(rows), Weights(k), Positions(key, group), group)
<1>1. group \in SUBSET DOMAIN rows /\ group \in SUBSET Int /\ IsFiniteSet(group)
      /\ Cardinality(group) \in 0..MaxRows
  BY GroupFinite
<1>2. Positions(key, group) \in [group -> 1..Cardinality(group)]
  BY <1>1, PositionsInOrder DEF Bijection, Injection
<1>3. \A i \in group : all[i] \in Int
  <2> TAKE i \in group
  <2>1. Labels(rows)[i] \in Int
    BY <1>1 DEF Labels, Evaluation
  <2>2. Weights(k)[Positions(key, group)[i]] \in Int
    BY <1>1, <1>2, WeightsFall
  <2> QED
    BY <2>1, <2>2 DEF Gains
<1>4. Gain(rows, key, group, k) = SumFunctionOnSet(all, group)
  BY GainIsGained DEF Gained
<1> HIDE DEF all, group
<1> QED
  BY <1>1, <1>3, <1>4, SumType DEF group

\* ndcg_at_k: the ranking by key gains no more than a ranking by another key that
\* never puts a smaller label before a larger one.
LEMMA GainAtMostSorted ==
  ASSUME NEW rows, NEW predictions, Evaluation(rows, predictions), NEW request, NEW k \in Int,
         NEW key, \A i \in Group(rows, request) : key[i] \in Int,
         NEW best, \A i \in Group(rows, request) : best[i] \in Int,
         \A i, j \in Group(rows, request) : rows[i].label > rows[j].label => best[i] > best[j]
  PROVE  Gain(rows, key, Group(rows, request), k) <= Gain(rows, best, Group(rows, request), k)
<1> DEFINE group == Group(rows, request)
           l == Labels(rows)
<1>1. group \in SUBSET DOMAIN rows /\ group \in SUBSET Int /\ IsFiniteSet(group)
      /\ Cardinality(group) \in 0..MaxRows
  BY GroupFinite
<1>2. \A i \in group : l[i] = rows[i].label /\ l[i] \in Int
  BY <1>1 DEF Labels, Evaluation
<1>3. /\ Positions(key, group) \in Bijection(group, 1..Cardinality(group))
      /\ Positions(best, group) \in Bijection(group, 1..Cardinality(group))
      /\ \A i, j \in group : best[i] > best[j] => Positions(best, group)[i] < Positions(best, group)[j]
  BY <1>1, PositionsInOrder
<1>4. Sorted(l, Positions(best, group), group)
  BY <1>2, <1>3 DEF Sorted
<1>5. /\ \A q \in 1..Cardinality(group) : Weights(k)[q] \in Int
      /\ \A q, r \in 1..Cardinality(group) : q <= r => Weights(k)[r] <= Weights(k)[q]
  BY <1>1, WeightsFall
<1>6. Gain(rows, key, group, k) = Gained(l, Weights(k), Positions(key, group), group)
      /\ Gain(rows, best, group, k) = Gained(l, Weights(k), Positions(best, group), group)
  BY GainIsGained
<1> HIDE DEF group, l
<1>7. Gained(l, Weights(k), Positions(key, group), group)
          <= Gained(l, Weights(k), Positions(best, group), group)
  BY <1>1, <1>2, <1>3, <1>4, <1>5, SortedGainsMost
<1> QED
  BY <1>6, <1>7 DEF group

\* AUC 1: every positive row is scored above every negative one.
LEMMA SeparatesEveryPair ==
  ASSUME NEW rows, NEW predictions, Evaluation(rows, predictions), Separates(rows, predictions)
  PROVE  \A i \in Positives(rows), j \in Negatives(rows) : predictions[i] > predictions[j]
<1> DEFINE P == Positives(rows)
           N == Negatives(rows)
           W == {p \in P \X N : predictions[p[1]] > predictions[p[2]]}
           E == {p \in P \X N : predictions[p[1]] = predictions[p[2]]}
           a == Cardinality(P)
           b == Cardinality(N)
<1>1. IsFiniteSet(DOMAIN rows)
  BY GroupFinite
<1>2. P \in SUBSET DOMAIN rows /\ N \in SUBSET DOMAIN rows
  BY DEF Positives, Negatives
<1>3. IsFiniteSet(P) /\ IsFiniteSet(N) /\ a \in Nat /\ b \in Nat
  BY <1>1, <1>2, FS_Subset, FS_CardinalityType
<1>4. 2 * Cardinality(W) + Cardinality(E) = 2 * (a * b)
  <2>1. PairsCounted(rows, predictions)
    <3>1. DOMAIN predictions = DOMAIN rows /\ \A i \in DOMAIN rows : predictions[i] \in Int
      BY DEF Evaluation
    <3> QED
      BY <1>1, <3>1, AucIsPairwise
  <2>2. BinaryAuc(rows, predictions) # Undefined
        /\ BinaryAuc(rows, predictions).num = BinaryAuc(rows, predictions).den
    BY DEF Separates
  <2>3. BinaryAuc(rows, predictions).num = WinsTwice(rows, predictions)
    BY <2>1, <2>2 DEF PairsCounted
  <2>4. BinaryAuc(rows, predictions).den = 2 * a * b
    BY <2>2 DEF BinaryAuc
  <2>5. WinsTwice(rows, predictions) = 2 * Cardinality(W) + Cardinality(E)
    BY DEF WinsTwice
  <2> HIDE DEF W, E, a, b
  <2>6. 2 * a * b = 2 * (a * b)
    BY <1>3
  <2> QED
    BY <2>2, <2>3, <2>4, <2>5, <2>6
<1>5. IsFiniteSet(P \X N) /\ Cardinality(P \X N) = a * b /\ a * b \in Nat
  <2>1. IsFiniteSet(P \X N) /\ Cardinality(P \X N) = a * b
    BY <1>3, FS_Product
  <2> HIDE DEF P, N
  <2> QED
    BY <2>1, FS_CardinalityType
<1>6. W \in SUBSET (P \X N) /\ E \in SUBSET (P \X N) /\ W \cap E = {}
  <2>1. ASSUME NEW p \in P \X N PROVE ~(p \in W /\ p \in E)
    <3>1. predictions[p[1]] \in Int /\ predictions[p[2]] \in Int
      BY <1>2 DEF Evaluation
    <3> QED
      BY <3>1
  <2> QED
    BY <2>1
<1> HIDE DEF W, E, P, N, a, b
<1>7. IsFiniteSet(W) /\ IsFiniteSet(E) /\ Cardinality(W) \in Nat /\ Cardinality(E) \in Nat
  BY <1>5, <1>6, FS_Subset, FS_CardinalityType
<1>8. Cardinality(W) + Cardinality(E) <= a * b
  <2>1. W \cup E \in SUBSET (P \X N)
    BY <1>6
  <2>2. Cardinality(W \cup E) = Cardinality(W) + Cardinality(E)
    BY <1>6, <1>7, CountDisjoint
  <2>3. Cardinality(W \cup E) <= Cardinality(P \X N)
    BY <1>5, <2>1, FS_Subset
  <2> QED
    BY <1>5, <2>2, <2>3
<1>9. Cardinality(W) = a * b
  BY <1>4, <1>5, <1>7, <1>8
<1>10. W = P \X N
  BY <1>5, <1>6, <1>9, FS_Subset
<1> SUFFICES ASSUME NEW i \in P, NEW j \in N PROVE predictions[i] > predictions[j]
  BY DEF P, N
<1>11. <<i, j>> \in W
  BY <1>10
<1> QED
  BY <1>11 DEF W

\* mean_reciprocal_rank: if the positive rows lead everywhere, one of them is first.
LEMMA FirstIsPositive ==
  ASSUME NEW rows, NEW predictions, Evaluation(rows, predictions),
         \A i \in Positives(rows), j \in Negatives(rows) : predictions[i] > predictions[j],
         NEW request \in DOMAIN FirstPositive(rows, predictions)
  PROVE  FirstPositive(rows, predictions)[request] = 1
<1> DEFINE group == Group(rows, request)
           pos == Positions(predictions, group)
           places == {PositionBy(predictions, group, i) : i \in group \cap Positives(rows)}
<1>1. group \cap Positives(rows) # {} /\ FirstPositive(rows, predictions)[request] = Min(places)
  BY DEF FirstPositive
<1>2. group \in SUBSET DOMAIN rows /\ group \in SUBSET Int /\ IsFiniteSet(group)
      /\ Cardinality(group) \in Nat
  BY GroupFinite, FS_CardinalityType
<1>3. \A i \in group : predictions[i] \in Int
  BY <1>2 DEF Evaluation
<1>4. /\ pos \in Bijection(group, 1..Cardinality(group))
      /\ \A i, j \in group : predictions[i] > predictions[j] => pos[i] < pos[j]
  BY <1>2, <1>3, PositionsInOrder
<1>5. \A i \in group : pos[i] = PositionBy(predictions, group, i)
  BY DEF Positions
<1>6. \A i \in group : pos[i] \in Int /\ 1 <= pos[i]
  BY <1>2, <1>4 DEF Bijection, Injection
<1>7. Cardinality(group) # 0
  BY <1>1, <1>2, FS_EmptySet
<1> HIDE DEF pos
<1>8. PICK x \in group : pos[x] = 1
  BY <1>2, <1>4, <1>7 DEF Bijection, Surjection
<1>9. x \in Positives(rows)
  <2> SUFFICES ASSUME x \notin Positives(rows) PROVE FALSE
    OBVIOUS
  <2>1. x \in Negatives(rows)
    BY <1>2 DEF Negatives
  <2> PICK i \in group \cap Positives(rows) : TRUE
    BY <1>1
  <2>2. pos[i] < pos[x]
    BY <1>4, <2>1
  <2> QED
    BY <1>6, <1>8, <2>2
<1>10. 1 \in places /\ \A y \in places : 1 <= y /\ y \in Int
  BY <1>5, <1>6, <1>8, <1>9
<1> HIDE DEF places
<1>11. Min(places) = 1
  BY <1>10 DEF Min
<1> QED
  BY <1>1, <1>11

\* evaluate_predictions, for all rows and scores: NDCG is at most 1; with AUC 1
\* and labels of two values, NDCG and the reciprocal rank are 1.
THEOREM GainsAreInOrder ==
  ASSUME NEW rows, NEW predictions, Evaluation(rows, predictions)
  PROVE  GainsInOrder(rows, predictions)
<1> DEFINE report == EvaluatePredictions(rows, predictions, 1..MaxRows)
<1>1. ASSUME NEW k \in 1..MaxRows, NEW r \in Requests(rows)
      PROVE  /\ report.ndcg[k][r].num = Gain(rows, predictions, Group(rows, r), k)
             /\ report.ndcg[k][r].den = Gain(rows, Labels(rows), Group(rows, r), k)
  BY DEF EvaluatePredictions, NdcgAtK
<1>2. report.mrr = FirstPositive(rows, predictions)
  BY DEF EvaluatePredictions
<1>3. ASSUME NEW r
      PROVE  \A i \in Group(rows, r) : /\ predictions[i] \in Int
                                       /\ Labels(rows)[i] = rows[i].label
                                       /\ Labels(rows)[i] \in Int
  BY GroupFinite DEF Evaluation, Labels
<1>4. MaxRows \in Nat
  BY MetricsAssumption
<1>5. ASSUME NEW k \in 1..MaxRows, NEW r \in Requests(rows)
      PROVE  Gain(rows, predictions, Group(rows, r), k) <= Gain(rows, Labels(rows), Group(rows, r), k)
  BY <1>3, <1>4, GainAtMostSorted
<1>6. ASSUME Separates(rows, predictions), IsBinary(rows)
      PROVE  /\ \A r \in DOMAIN report.mrr : report.mrr[r] = 1
             /\ \A k \in 1..MaxRows, r \in DOMAIN report.mrr :
                    report.ndcg[k][r].num = report.ndcg[k][r].den
  <2>1. \A i \in Positives(rows), j \in Negatives(rows) : predictions[i] > predictions[j]
    BY <1>6, SeparatesEveryPair
  <2>2. ASSUME NEW r, NEW i \in Group(rows, r), NEW j \in Group(rows, r),
               rows[i].label > rows[j].label
        PROVE  predictions[i] > predictions[j]
    <3>1. i \in DOMAIN rows /\ j \in DOMAIN rows
      BY GroupFinite
    <3>2. rows[i].label \in {0, One} /\ rows[j].label \in {0, One} /\ One \in Nat \ {0}
      BY <1>6, <3>1, MetricsAssumption DEF IsBinary
    <3>3. i \in Positives(rows) /\ j \in Negatives(rows)
      BY <2>2, <3>1, <3>2 DEF Positives, Negatives
    <3> QED
      BY <2>1, <3>3
  <2>3. ASSUME NEW k \in 1..MaxRows, NEW r \in Requests(rows)
        PROVE  report.ndcg[k][r].num = report.ndcg[k][r].den
    <3>1. Gain(rows, Labels(rows), Group(rows, r), k) <= Gain(rows, predictions, Group(rows, r), k)
      BY <1>3, <1>4, <2>2, GainAtMostSorted
    <3>2. /\ Gain(rows, Labels(rows), Group(rows, r), k) \in Int
          /\ Gain(rows, predictions, Group(rows, r), k) \in Int
      BY <1>3, <1>4, GainType
    <3> HIDE DEF report
    <3> QED
      BY <1>1, <1>5, <3>1, <3>2
  <2>4. DOMAIN report.mrr \subseteq Requests(rows)
    BY <1>2 DEF FirstPositive
  <2>5. ASSUME NEW r \in DOMAIN report.mrr PROVE report.mrr[r] = 1
    BY <1>2, <2>1, FirstIsPositive
  <2> HIDE DEF report
  <2> QED
    BY <2>3, <2>4, <2>5
<1> HIDE DEF report
<1>7. \A k \in 1..MaxRows, r \in Requests(rows) : report.ndcg[k][r].num <= report.ndcg[k][r].den
  BY <1>1, <1>5
<1> QED
  BY <1>6, <1>7 DEF GainsInOrder, report

\* ranking_evaluator.py:61 and :92: the metrics that a training reports are what
\* they are taken for, whatever the job read and whatever its model answers.
THEOREM MetricsMeanWhatTheySay == Spec => []MetricsMatchMeaning
<1>1. ASSUME NEW n \in 1..MaxRows, NEW labels \in [1..n -> Scores], NEW requests,
             NEW predictions \in [1..n -> Scores]
      PROVE  Evaluation(RowsOf(labels, requests), predictions)
  <2>1. DOMAIN RowsOf(labels, requests) = 1..n /\ n \in 0..MaxRows
    BY MetricsAssumption DEF RowsOf
  <2>2. \A i \in 1..n : labels[i] \in Nat /\ predictions[i] \in Int
    BY MetricsAssumption DEF Scores
  <2>3. \A i \in 1..n : RowsOf(labels, requests)[i].label = labels[i]
    BY DEF RowsOf
  <2>4. DOMAIN predictions = 1..n
    OBVIOUS
  <2> QED
    BY <2>1, <2>2, <2>3, <2>4 DEF Evaluation
<1>2. AucCountsPairs
  <2> SUFFICES ASSUME NEW n \in 1..MaxRows,
                      NEW labels \in [1..n -> Scores], NEW predictions \in [1..n -> Scores]
               PROVE  PairsCounted(RowsOf(labels, [i \in 1..n |-> NoRequest]), predictions)
    BY DEF AucCountsPairs
  <2> DEFINE rows == RowsOf(labels, [i \in 1..n |-> NoRequest])
  <2>1. Evaluation(rows, predictions)
    BY <1>1
  <2> HIDE DEF rows
  <2>2. IsFiniteSet(DOMAIN rows) /\ DOMAIN predictions = DOMAIN rows
        /\ \A i \in DOMAIN rows : predictions[i] \in Int
    BY <2>1, GroupFinite DEF Evaluation
  <2>3. PairsCounted(rows, predictions)
    BY <2>2, AucIsPairwise
  <2> QED
    BY <2>3 DEF rows
<1>3. PerfectOrderScoresOne
  <2> SUFFICES ASSUME NEW n \in 1..(MaxRows - 1), NEW labels \in [1..n -> Scores],
                      NEW predictions \in [1..n -> Scores],
                      NEW requests \in [1..n -> RequestIds \cup {NoRequest}]
               PROVE  GainsInOrder(RowsOf(labels, requests), predictions)
    BY DEF PerfectOrderScoresOne
  <2>1. n \in 1..MaxRows
    BY MetricsAssumption
  <2> QED
    BY <1>1, <2>1, GainsAreInOrder
<1>4. MetricsMatchMeaning
  BY <1>2, <1>3 DEF MetricsMatchMeaning
<1> QED
  BY <1>4, PTL
=============================================================================
