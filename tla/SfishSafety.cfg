SPECIFICATION Spec
CONSTANTS
    Lines <- MCLines
    Pids = {1, 2, 3}
    MAX_NUM_PGID = 7
    MaxLoose = 2
INVARIANT PromptIsClean
INVARIANT StdioRestored
INVARIANT TableSound
INVARIANT HandlerNeverBlocks
INVARIANT FirstInterruptSurvives
PROPERTY WordsReachPrograms
PROPERTY InterruptKills
PROPERTY CommandReturns
CHECK_DEADLOCK FALSE
