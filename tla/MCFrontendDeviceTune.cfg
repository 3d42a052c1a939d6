\* Tunes with a stop in between.
CONSTANTS
    MaxRequests = 5
    Ops = {"tune"}
    Contended = FALSE
    Restart = FALSE
SPECIFICATION Spec
INVARIANTS
    AnswersOwnTuning
PROPERTIES
    TuneAnswered
CHECK_DEADLOCK FALSE
