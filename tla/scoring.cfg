SPECIFICATION FairSpec
CONSTANTS
    Threads = {t1, t2}
INVARIANTS
    TypeOK
    AnswersAreJustified
PROPERTIES
    GaugeConverges
    EveryRequestAnswered
