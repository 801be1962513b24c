------------------------- MODULE ModelRegistryProofs -------------------------
(***************************************************************************)
(* The hand-over of models is right for any number of trainers and starts  *)
(* of the API, whatever the order of their steps and whoever dies.         *)
(***************************************************************************)
EXTENDS ModelRegistry, TLAPS

USE RegistryAssumption

(* At the start there is nothing to be wrong about.                        *)
LEMMA InitScan == Init => ScanInv
<1> SUFFICES ASSUME Init PROVE ScanInv
  OBVIOUS
<1>1. 0 \in 0 .. MaxNow /\ 0 \in 0 .. 0
  OBVIOUS
<1>2. TypeOK
  <2>1. /\ trainer \in [Runs -> Active \cup {"new", "over"}]
        /\ meta \in [Runs -> {"absent", "empty", "RUNNING", "FINISHED", "FAILED"}]
        /\ model \in [Runs -> {"absent", "partial", "whole"}]
        /\ plot \in [Runs -> Runs \cup {NoRun}]
    BY DEF Init
  <2>2. now \in 0 .. MaxNow /\ endTime \in [Runs -> 0 .. now]
    BY <1>1 DEF Init
  <2>3. /\ plotFile \in Runs \cup {NoRun}
        /\ api \in [pc : {"down", "scanning", "up"}, todo : SUBSET Runs,
                    found : SUBSET Runs, model : Runs \cup {NoRun}]
        /\ api.pc # "scanning" => api.todo = {} /\ api.found = {}
        /\ api.pc # "up" => api.model = NoRun
        /\ finished \subseteq Runs
        /\ torn \in BOOLEAN
        /\ broken \in Runs \cup {NoRun}
    BY DEF Init
  <2> QED
    BY <2>1, <2>2, <2>3 DEF TypeOK
<1>3. FinishedIsWhole
  BY DEF Init, FinishedIsWhole
<1>4. ScanIsSound /\ NewestFinishedIsServed /\ StartsWithModel
  BY DEF Init, ScanIsSound, NewestFinishedIsServed, StartsWithModel
<1> QED
  BY <1>2, <1>3, <1>4 DEF ScanInv

(* A step of a trainer changes one run, which the API has not seen finish. *)
LEMMA TrainKeepsScan ==
    ASSUME ScanInv, NEW r \in Runs, Train(r)
    PROVE  ScanInv'
<1>1. TypeOK'
  <2> USE DEF ScanInv, TypeOK, Step, apiState, runFiles, Active
  <2>1. CASE StartRun(r)
    BY <2>1 DEF StartRun
  <2>2. CASE WriteRunning(r)
    BY <2>2 DEF WriteRunning
  <2>3. CASE SavePlot(r)
    BY <2>3 DEF SavePlot
  <2>4. CASE LogPlot(r)
    BY <2>4 DEF LogPlot
  <2>5. CASE LogModel(r)
    BY <2>5 DEF LogModel
  <2>6. CASE EndRun(r)
    BY <2>6 DEF EndRun, Stamped
  <2>7. CASE Raise(r)
    BY <2>7 DEF Raise, Stamped
  <2>8. CASE WriteStatus(r)
    BY <2>8 DEF WriteStatus
  <2>9. CASE Kill(r)
    BY <2>9 DEF Kill
  <2> QED
    BY <2>1, <2>2, <2>3, <2>4, <2>5, <2>6, <2>7, <2>8, <2>9 DEF Train
<1>2. /\ UNCHANGED apiState
      /\ trainer[r] # "over"
      /\ \A q \in Runs \ {r} : /\ trainer'[q] = trainer[q]
                               /\ meta'[q] = meta[q]
                               /\ model'[q] = model[q]
                               /\ endTime'[q] = endTime[q]
  <2> USE DEF ScanInv, TypeOK, Step, runFiles, Active
  <2>1. CASE StartRun(r) \/ WriteRunning(r) \/ SavePlot(r) \/ LogPlot(r)
    BY <2>1 DEF StartRun, WriteRunning, SavePlot, LogPlot
  <2>2. CASE LogModel(r) \/ WriteStatus(r) \/ Kill(r)
    BY <2>2 DEF LogModel, WriteStatus, Kill
  <2>3. CASE EndRun(r) \/ Raise(r)
    BY <2>3 DEF EndRun, Raise, Stamped
  <2> QED
    BY <2>1, <2>2, <2>3 DEF Train
<1>3. /\ meta'[r] = "FINISHED" => trainer'[r] = "over" /\ model'[r] = "whole"
      /\ trainer'[r] \in {"copied", "finishing"} => model'[r] = "whole"
      /\ trainer'[r] = "new" => meta'[r] = "absent"
  <2> USE DEF ScanInv, TypeOK, Step, runFiles, Active, FinishedIsWhole
  <2>1. CASE StartRun(r) \/ WriteRunning(r) \/ SavePlot(r) \/ LogPlot(r)
    BY <2>1 DEF StartRun, WriteRunning, SavePlot, LogPlot
  <2>2. CASE LogModel(r) \/ WriteStatus(r) \/ Kill(r)
    BY <2>2 DEF LogModel, WriteStatus, Kill
  <2>3. CASE EndRun(r) \/ Raise(r)
    BY <2>3 DEF EndRun, Raise, Stamped
  <2> QED
    BY <2>1, <2>2, <2>3 DEF Train
<1>4. FinishedIsWhole'
  BY <1>2, <1>3 DEF ScanInv, FinishedIsWhole
<1>5. r \notin finished \cup api.found /\ r # api.model /\ r # broken
  BY <1>2 DEF ScanInv, ScanIsSound, FinishedIsWhole, TypeOK
<1>6. /\ ScanIsSound'
      /\ NewestFinishedIsServed'
      /\ StartsWithModel'
  BY <1>2, <1>5 DEF ScanInv, ScanIsSound, NewestFinishedIsServed,
                    StartsWithModel, TypeOK, apiState
<1> QED
  BY <1>1, <1>4, <1>6 DEF ScanInv

(* A step of the API changes nothing the trainers wrote.                   *)
LEMMA ApiKeepsScan ==
    ASSUME ScanInv,
           StartApi \/ (\E r \in api.todo : ReadMeta(r)) \/ LoadModel \/ StopApi
    PROVE  ScanInv'
<1>1. UNCHANGED <<now, trainer, runFiles>>
  BY DEF StartApi, ReadMeta, LoadModel, StopApi
<1>2. FinishedIsWhole'
  BY <1>1 DEF ScanInv, FinishedIsWhole, runFiles
<1>3. CASE StartApi
  <2>1. /\ api' = [api EXCEPT !.pc = "scanning",
                              !.todo = {r \in Runs : meta[r] # "absent"}]
        /\ finished' = {r \in Runs : meta[r] = "FINISHED"}
        /\ torn' = FALSE /\ broken' = NoRun
        /\ api.pc = "down"
    BY <1>3 DEF StartApi
  <2>3. /\ api'.model = NoRun /\ api'.found = {} /\ api'.pc = "scanning"
        /\ api'.todo = {r \in Runs : meta[r] # "absent"}
    BY <2>1 DEF ScanInv, TypeOK
  <2>4. TypeOK'
    BY <1>1, <2>1, <2>3 DEF ScanInv, TypeOK, runFiles
  <2>5. ScanIsSound' /\ NewestFinishedIsServed' /\ StartsWithModel'
    BY <1>1, <2>1, <2>3 DEF ScanIsSound, NewestFinishedIsServed,
                            StartsWithModel, runFiles
  <2> QED
    BY <1>2, <2>4, <2>5 DEF ScanInv
<1>4. ASSUME NEW r \in api.todo, ReadMeta(r)
      PROVE  ScanInv'
  <2>1. api.pc = "scanning"
    BY DEF ScanInv, TypeOK
  <2>2. CASE meta[r] = "empty"
    BY <1>1, <1>2, <1>4, <2>2 DEF ReadMeta, Serve, ScanInv, TypeOK, ScanIsSound,
                    runFiles, NewestFinishedIsServed, StartsWithModel
  <2>3. CASE meta[r] # "empty"
    <3>1. /\ api' = [api EXCEPT !.todo = @ \ {r},
                                !.found = IF IsCandidate(r) THEN @ \cup {r} ELSE @]
          /\ UNCHANGED <<finished, broken>>
          /\ torn' = FALSE
      BY <1>4, <2>3 DEF ReadMeta
    <3>2. meta[r] = "FINISHED" => IsCandidate(r)
      BY DEF IsCandidate, ScanInv, FinishedIsWhole, TypeOK
    <3> QED
      BY <1>1, <1>2, <2>1, <3>1, <3>2 DEF IsCandidate, ScanInv, TypeOK,
             ScanIsSound, runFiles, NewestFinishedIsServed, StartsWithModel
  <2> QED
    BY <2>2, <2>3
<1>5. CASE LoadModel
  <2>1. finished \subseteq api.found
    BY <1>5 DEF LoadModel, ScanInv, ScanIsSound
  <2>2. CASE api' = Serve(NoRun) /\ api.found = {} /\ UNCHANGED broken
    BY <1>1, <1>2, <1>5, <2>1, <2>2 DEF LoadModel, Serve, ScanInv, TypeOK,
           ScanIsSound, runFiles, NewestFinishedIsServed, StartsWithModel
  <2>3. ASSUME NEW r \in BestCandidates,
               \/ api' = Serve(r) /\ UNCHANGED broken
               \/ api' = Serve(NoRun) /\ broken' = r
        PROVE  ScanInv'
    <3>1. r \in api.found /\ \A q \in api.found : endTime[q] <= endTime[r]
      BY DEF BestCandidates
    <3>2. meta[r] = "FINISHED" /\ model[r] = "whole" /\ r \in Runs
      BY <3>1 DEF ScanInv, ScanIsSound, FinishedIsWhole, TypeOK
    <3>3. CASE api' = Serve(r) /\ UNCHANGED broken
      BY <1>1, <1>2, <1>5, <2>1, <3>1, <3>2, <3>3 DEF LoadModel, Serve,
             ScanInv, TypeOK, ScanIsSound, runFiles, NewestFinishedIsServed,
             StartsWithModel
    <3>4. CASE api' = Serve(NoRun) /\ broken' = r
      BY <1>1, <1>2, <1>5, <2>1, <3>1, <3>2, <3>4 DEF LoadModel, Serve,
             ScanInv, TypeOK, ScanIsSound, runFiles, NewestFinishedIsServed,
             StartsWithModel
    <3> QED
      BY <2>3, <3>3, <3>4
  <2> QED
    BY <1>5, <2>2, <2>3 DEF LoadModel
<1>6. CASE StopApi
  BY <1>1, <1>2, <1>6 DEF StopApi, ScanInv, TypeOK, ScanIsSound, runFiles,
                          NewestFinishedIsServed, StartsWithModel
<1> QED
  BY <1>3, <1>4, <1>5, <1>6

LEMMA NextScan == ScanInv /\ [Next]_vars => ScanInv'
<1> SUFFICES ASSUME ScanInv, [Next]_vars PROVE ScanInv'
  OBVIOUS
<1>1. CASE UNCHANGED vars
  BY <1>1 DEF vars, runFiles, apiState, ScanInv, TypeOK, FinishedIsWhole,
              ScanIsSound, NewestFinishedIsServed, StartsWithModel
<1> QED
  BY <1>1, TrainKeepsScan, ApiKeepsScan DEF Next, Done

(* The state of trainers, files and API stays well typed.                  *)
THEOREM RegistryTypes == Spec => []TypeOK
<1>1. ScanInv => TypeOK
  BY DEF ScanInv
<1> QED
  BY <1>1, InitScan, NextScan, PTL DEF Spec

(* No model is served that was not completely written.                     *)
THEOREM ServedModelsAreWhole == Spec => []LoadedModelIsWhole
<1>1. ScanInv => LoadedModelIsWhole
  BY DEF ScanInv, TypeOK, ScanIsSound, FinishedIsWhole, LoadedModelIsWhole
<1> QED
  BY <1>1, InitScan, NextScan, PTL DEF Spec

(* The served model is the newest of those finished when the scan began.   *)
THEOREM NewestIsServed == Spec => []NewestFinishedIsServed
<1>1. ScanInv => NewestFinishedIsServed
  BY DEF ScanInv
<1> QED
  BY <1>1, InitScan, NextScan, PTL DEF Spec

(* Only a torn meta.yaml, or a load that raises for the newest complete    *)
(* model, keeps the API from a model that is there.                        *)
THEOREM ModelIsFound == Spec => []StartsWithModel
<1>1. ScanInv => StartsWithModel
  BY DEF ScanInv
<1> QED
  BY <1>1, InitScan, NextScan, PTL DEF Spec

-----------------------------------------------------------------------------
(* Active runs know of each other, and only they write the plot file.      *)
LEMMA TrainKeepsPlots ==
    ASSUME TypeOK, PlotInv, NEW r \in Runs, Train(r)
    PROVE  PlotInv'
<1> USE DEF PlotInv, OverlapsAreKnown, PlotIsOwn, TypeOK, Step, runFiles,
            Active
<1>1. CASE StartRun(r)
  BY <1>1 DEF StartRun
<1>2. CASE WriteRunning(r)
  BY <1>2 DEF WriteRunning
<1>3. CASE SavePlot(r)
  BY <1>3 DEF SavePlot
<1>4. CASE LogPlot(r)
  BY <1>4 DEF LogPlot
<1>5. CASE LogModel(r)
  BY <1>5 DEF LogModel
<1>6. CASE EndRun(r)
  BY <1>6 DEF EndRun
<1>7. CASE Raise(r)
  BY <1>7 DEF Raise
<1>8. CASE WriteStatus(r)
  BY <1>8 DEF WriteStatus
<1>9. CASE Kill(r)
  BY <1>9 DEF Kill
<1> QED
  BY <1>1, <1>2, <1>3, <1>4, <1>5, <1>6, <1>7, <1>8, <1>9 DEF Train

(* A run shows another run's plot only if both were active at one time.    *)
THEOREM PlotsOfOverlappingRuns == Spec => []PlotIsOwn
<1>1. Init => PlotInv
  BY DEF Init, PlotInv, OverlapsAreKnown, PlotIsOwn, Active
<1>2. ScanInv /\ PlotInv /\ [Next]_vars => PlotInv'
  <2> SUFFICES ASSUME ScanInv, PlotInv, [Next]_vars PROVE PlotInv'
    OBVIOUS
  <2>1. CASE \E r \in Runs : Train(r)
    BY <2>1, TrainKeepsPlots DEF ScanInv
  <2>2. CASE UNCHANGED <<trainer, runFiles, overlaps>>
    BY <2>2 DEF PlotInv, OverlapsAreKnown, PlotIsOwn, runFiles
  <2> QED
    BY <2>1, <2>2 DEF Next, Done, vars, StartApi, ReadMeta, LoadModel, StopApi
<1>3. PlotInv => PlotIsOwn
  BY DEF PlotInv
<1> QED
  BY <1>1, <1>2, <1>3, InitScan, NextScan, PTL DEF Spec

=============================================================================
