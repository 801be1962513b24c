---------------------------- MODULE ModelRegistry ----------------------------
(***************************************************************************)
(* How a model gets from models/train.py to api/main.py: through the       *)
(* directories of mlruns/, which trainers write and a starting API scans,  *)
(* and nothing orders one before the other.                                *)
(*                                                                         *)
(* A run is one execution of train.py.  Of MLflow's file store the model   *)
(* has what main.py relies on: a run's meta.yaml is opened for writing     *)
(* (which empties it) and then written, once with status RUNNING and once  *)
(* when the run ends; end_time is read from the clock before; a model is a *)
(* directory that is copied file by file.                                  *)
(***************************************************************************)
EXTENDS Integers

CONSTANTS
    Runs,      \* the executions of train.py
    NoRun,     \* no run: a plot or a model nobody has made
    MaxNow,    \* bound on the clock
    MaxFaults, \* bound on the runs that raise or are killed
    MaxStarts  \* bound on the starts of the API

ASSUME RegistryAssumption ==
    /\ NoRun \notin Runs
    /\ MaxNow \in Nat
    /\ MaxFaults \in Nat
    /\ MaxStarts \in Nat

VARIABLES
    now,      \* the clock, in steps end_time tells apart
    trainer,  \* run -> where its process is
    meta,     \* run -> its meta.yaml: status, "empty" or "absent"
    endTime,  \* run -> end_time of its meta.yaml
    model,    \* run -> artifacts/model: "absent", "partial" or "whole"
    plot,     \* run -> whose plot its artifacts/plots holds
    plotFile, \* whose plot models/artifacts/feature_importance.png is
    faults,   \* runs that raised or were killed so far
    starts,   \* starts of the API so far
    api,      \* [pc, todo, found, model]: todo are the runs of the glob not
              \* yet read, found the candidates, model what it serves
    finished, \* history: the runs that had finished when the scan began
    torn,     \* history: the scan read an empty meta.yaml
    broken,   \* history: the run whose model did not load
    overlaps  \* history: pairs of runs that were active at one time

runFiles == <<meta, endTime, model, plot, plotFile>>
apiState == <<api, starts, finished, torn, broken>>
vars == <<now, trainer, runFiles, faults, apiState, overlaps>>

Active == {"creating", "training", "plotted", "logging", "copying", "copied",
           "finishing", "failing"}

Init ==
    /\ now = 0
    /\ trainer = [r \in Runs |-> "new"]
    /\ meta = [r \in Runs |-> "absent"]
    /\ endTime = [r \in Runs |-> 0]
    /\ model = [r \in Runs |-> "absent"]
    /\ plot = [r \in Runs |-> NoRun]
    /\ plotFile = NoRun
    /\ faults = 0
    /\ starts = 0
    /\ api = [pc |-> "down", todo |-> {}, found |-> {}, model |-> NoRun]
    /\ finished = {}
    /\ torn = FALSE
    /\ broken = NoRun
    /\ overlaps = {}

-----------------------------------------------------------------------------
(* train.py.  What comes before start_run, and may end the process there,   *)
(* touches no file of mlruns.                                               *)

Step(r, from, to) ==
    /\ trainer[r] = from
    /\ trainer' = [trainer EXCEPT ![r] = to]

(* start_run: the run's directory, with a meta.yaml not yet written. *)
StartRun(r) ==
    /\ Step(r, "new", "creating")
    /\ meta' = [meta EXCEPT ![r] = "empty"]
    /\ overlaps' = overlaps \cup {{r, q} : q \in {p \in Runs : trainer[p] \in Active}}
    /\ UNCHANGED <<now, endTime, model, plot, plotFile, faults, apiState>>

WriteRunning(r) ==
    /\ Step(r, "creating", "training")
    /\ meta' = [meta EXCEPT ![r] = "RUNNING"]
    /\ UNCHANGED <<now, endTime, model, plot, plotFile, faults, apiState, overlaps>>

(* Mutant: a plot that is there is not drawn again. *)
SavePlotOnce(r) ==
    /\ Step(r, "training", "plotted")
    /\ plotFile' = IF plotFile = NoRun THEN r ELSE plotFile
    /\ UNCHANGED <<now, meta, endTime, model, plot, faults, apiState, overlaps>>

(* log_to_mlflow: the plot goes to one path of the working copy, ... *)
SavePlot(r) ==
    /\ Step(r, "training", "plotted")
    /\ plotFile' = r
    /\ UNCHANGED <<now, meta, endTime, model, plot, faults, apiState, overlaps>>

(* ... is copied from there to the run's artifacts, ... *)
LogPlot(r) ==
    /\ Step(r, "plotted", "logging")
    /\ plot' = [plot EXCEPT ![r] = plotFile]
    /\ UNCHANGED <<now, meta, endTime, model, plotFile, faults, apiState, overlaps>>

(* ... and the model's directory follows. *)
LogModel(r) ==
    /\ \/ /\ Step(r, "logging", "copying")
          /\ model' = [model EXCEPT ![r] = "partial"]
       \/ /\ Step(r, "copying", "copied")
          /\ model' = [model EXCEPT ![r] = "whole"]
    /\ UNCHANGED <<now, meta, endTime, plot, plotFile, faults, apiState, overlaps>>

Stamped(r) ==
    /\ \E t \in now .. MaxNow :
        /\ now' = t
        /\ endTime' = [endTime EXCEPT ![r] = t]
    /\ meta' = [meta EXCEPT ![r] = "empty"]

(* The with block is left: end_run takes the time and opens meta.yaml. *)
EndRun(r) ==
    /\ Step(r, "copied", "finishing")
    /\ Stamped(r)
    /\ UNCHANGED <<model, plot, plotFile, faults, apiState, overlaps>>

(* It is left by an exception, from training, plotting or copying. *)
Raise(r) ==
    /\ faults < MaxFaults
    /\ faults' = faults + 1
    /\ \E pc \in {"training", "plotted", "logging", "copying"} :
        Step(r, pc, "failing")
    /\ Stamped(r)
    /\ UNCHANGED <<model, plot, plotFile, apiState, overlaps>>

WriteStatus(r) ==
    /\ \/ /\ Step(r, "finishing", "over")
          /\ meta' = [meta EXCEPT ![r] = "FINISHED"]
       \/ /\ Step(r, "failing", "over")
          /\ meta' = [meta EXCEPT ![r] = "FAILED"]
    /\ UNCHANGED <<now, endTime, model, plot, plotFile, faults, apiState, overlaps>>

(* Killed: the files stay as they are. *)
Kill(r) ==
    /\ faults < MaxFaults
    /\ faults' = faults + 1
    /\ trainer[r] \in Active
    /\ trainer' = [trainer EXCEPT ![r] = "over"]
    /\ UNCHANGED <<now, runFiles, apiState, overlaps>>

-----------------------------------------------------------------------------
(* main.py: lifespan and _find_latest_model_uri. *)

(* The glob. *)
StartApi ==
    /\ api.pc = "down"
    /\ starts < MaxStarts
    /\ starts' = starts + 1
    /\ api' = [api EXCEPT !.pc = "scanning",
                          !.todo = {r \in Runs : meta[r] # "absent"}]
    /\ finished' = {r \in Runs : meta[r] = "FINISHED"}
    /\ torn' = FALSE
    /\ broken' = NoRun
    /\ UNCHANGED <<now, trainer, runFiles, faults, overlaps>>

(* Mutant: any run with a model directory. *)
IsCandidateAnyStatus(r) == model[r] # "absent"

(* status 3, and artifacts/model is a directory. *)
IsCandidate(r) == meta[r] = "FINISHED" /\ model[r] # "absent"

(* The API goes on with m, or without a model. *)
Serve(m) == [pc |-> "up", todo |-> {}, found |-> {}, model |-> m]

(* Mutant: the scan stops at a run that did not finish. *)
ReadMetaUntilUnfinished(r) ==
    /\ r \in api.todo
    /\ api' = IF ~IsCandidate(r) THEN [api EXCEPT !.todo = {}]
              ELSE [api EXCEPT !.todo = @ \ {r}, !.found = @ \cup {r}]
    /\ torn' = (meta[r] = "empty")
    /\ UNCHANGED <<now, trainer, runFiles, faults, starts, finished, broken,
                   overlaps>>

(* One meta.yaml of the loop, in the order of the glob.  An empty one loads *)
(* as None, meta.get raises, and lifespan catches it: no model.             *)
ReadMeta(r) ==
    /\ r \in api.todo
    /\ api' = IF meta[r] = "empty" THEN Serve(NoRun)
              ELSE [api EXCEPT !.todo = @ \ {r},
                               !.found = IF IsCandidate(r) THEN @ \cup {r}
                                         ELSE @]
    /\ torn' = (meta[r] = "empty")
    /\ UNCHANGED <<now, trainer, runFiles, faults, starts, finished, broken,
                   overlaps>>

(* Mutant: ascending order. *)
FirstCandidates == {r \in api.found : \A q \in api.found : endTime[r] <= endTime[q]}

(* The head of the sorted list; ties go by the random name of the run. *)
BestCandidates == {r \in api.found : \A q \in api.found : endTime[q] <= endTime[r]}

(* The list is sorted and its head is loaded.  If load_model raises, or if  *)
(* the list is empty, the API goes on without a model: no other candidate   *)
(* is tried.                                                                *)
LoadModel ==
    /\ api.pc = "scanning"
    /\ api.todo = {}
    /\ \/ api.found = {} /\ api' = Serve(NoRun) /\ UNCHANGED broken
       \/ \E r \in BestCandidates :
            \/ api' = Serve(r) /\ UNCHANGED broken
            \/ api' = Serve(NoRun) /\ broken' = r
    /\ UNCHANGED <<now, trainer, runFiles, faults, starts, finished, torn,
                   overlaps>>

(* Mutant: the old model is still there for the next start. *)
StopApiKeepingModel ==
    /\ api.pc # "down"
    /\ api' = [api EXCEPT !.pc = "down"]
    /\ UNCHANGED <<now, trainer, runFiles, faults, starts, finished, torn,
                   broken, overlaps>>

(* The process ends, for whatever reason. *)
StopApi ==
    /\ api.pc # "down"
    /\ api' = [pc |-> "down", todo |-> {}, found |-> {}, model |-> NoRun]
    /\ UNCHANGED <<now, trainer, runFiles, faults, starts, finished, torn,
                   broken, overlaps>>

-----------------------------------------------------------------------------
Train(r) ==
    \/ StartRun(r) \/ WriteRunning(r)
    \/ SavePlot(r) \/ LogPlot(r) \/ LogModel(r)
    \/ EndRun(r) \/ Raise(r) \/ WriteStatus(r) \/ Kill(r)

(* The end of the modelled period. *)
Done ==
    /\ \A r \in Runs : trainer[r] = "over"
    /\ starts = MaxStarts
    /\ UNCHANGED vars

Next ==
    \/ \E r \in Runs : Train(r)
    \/ StartApi
    \/ \E r \in api.todo : ReadMeta(r)
    \/ LoadModel
    \/ StopApi
    \/ Done

Spec == Init /\ [][Next]_vars

-----------------------------------------------------------------------------
(* Types; outside a scan the API keeps nothing of one, and a down API       *)
(* serves nothing (main.py:80-83, 86-121).                                  *)
TypeOK ==
    /\ now \in 0 .. MaxNow
    /\ trainer \in [Runs -> Active \cup {"new", "over"}]
    /\ meta \in [Runs -> {"absent", "empty", "RUNNING", "FINISHED", "FAILED"}]
    /\ endTime \in [Runs -> 0 .. now]
    /\ model \in [Runs -> {"absent", "partial", "whole"}]
    /\ plot \in [Runs -> Runs \cup {NoRun}]
    /\ plotFile \in Runs \cup {NoRun}
    /\ api \in [pc : {"down", "scanning", "up"}, todo : SUBSET Runs,
                found : SUBSET Runs, model : Runs \cup {NoRun}]
    /\ api.pc # "scanning" => api.todo = {} /\ api.found = {}
    /\ api.pc # "up" => api.model = NoRun
    /\ finished \subseteq Runs
    /\ torn \in BOOLEAN
    /\ broken \in Runs \cup {NoRun}

(* A model that was still being copied, or whose copy was cut short, is     *)
(* never served, although the scan takes a directory for a model and reads  *)
(* status and directory at different times (main.py:139-172,                *)
(* train.py:389-390, 446-451).                                              *)
LoadedModelIsWhole == api.model # NoRun => model[api.model] = "whole"

(* No run that had finished when the API began to look is newer than the    *)
(* one it serves, whatever runs begin, end or die while it looks: "the most *)
(* recent one" of "all FINISHED runs" (main.py:141-143).                    *)
NewestFinishedIsServed ==
    api.model # NoRun => \A r \in finished : endTime[r] <= endTime[api.model]

(* The API comes up without a model only if no run had finished when it     *)
(* began to look, if it found a meta.yaml just opened for writing, of       *)
(* whatever run, or if load_model raised for a model that was complete and  *)
(* the newest: failed, killed and unfinished runs, and models still being   *)
(* copied, do not hide the finished ones (main.py:93-105, 139-172).         *)
StartsWithModel ==
    (api.pc = "up" /\ api.model = NoRun)
        => \/ finished = {}
           \/ torn
           \/ /\ broken # NoRun
              /\ model[broken] = "whole"
              /\ \A r \in finished : endTime[r] <= endTime[broken]

(* The plot among a run's artifacts is its own unless it was made while     *)
(* another run was active, and then it is that run's                        *)
(* (train.py:384-387).                                                      *)
PlotIsOwn ==
    \A r \in Runs : plot[r] \in {NoRun, r} \/ {r, plot[r]} \in overlaps

-----------------------------------------------------------------------------
(* The inductive invariants of ModelRegistryProofs. *)

(* Status is the last thing a run writes, and only a whole model gets it.   *)
FinishedIsWhole ==
    \A r \in Runs :
        /\ meta[r] = "FINISHED" => trainer[r] = "over" /\ model[r] = "whole"
        /\ trainer[r] \in {"copied", "finishing"} => model[r] = "whole"
        /\ trainer[r] = "new" => meta[r] = "absent"

(* What a scan found or has to find, and what is served, stays finished.    *)
ScanIsSound ==
    /\ \A r \in finished \cup api.found : meta[r] = "FINISHED"
    /\ api.model # NoRun => meta[api.model] = "FINISHED"
    /\ broken # NoRun => meta[broken] = "FINISHED"
    /\ api.pc = "scanning" => finished \subseteq api.todo \cup api.found

ScanInv ==
    /\ TypeOK /\ FinishedIsWhole /\ ScanIsSound
    /\ NewestFinishedIsServed /\ StartsWithModel

(* Between drawing and logging, the plot file is overwritten only by a run  *)
(* active at that time, and any two of those overlap.                       *)
OverlapsAreKnown ==
    /\ \A r, q \in Runs :
        (r # q /\ trainer[r] \in Active /\ trainer[q] \in Active)
            => {r, q} \in overlaps
    /\ \A r \in Runs :
        trainer[r] = "plotted" => plotFile = r \/ {r, plotFile} \in overlaps

PlotInv == OverlapsAreKnown /\ PlotIsOwn

=============================================================================
