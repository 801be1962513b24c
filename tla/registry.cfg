SPECIFICATION Spec
CONSTANTS
    Runs = {r1, r2, r3}
    NoRun = none
    MaxNow = 2
    MaxFaults = 1
    MaxStarts = 2
SYMMETRY Symmetry
INVARIANTS
    TypeOK
    LoadedModelIsWhole
    NewestFinishedIsServed
    StartsWithModel
    PlotIsOwn
