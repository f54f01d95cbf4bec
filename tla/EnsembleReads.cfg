SPECIFICATION Spec
CONSTANTS
 Runs = {1, 2}
 Between = 3
 Expected = 7
 Weak = {1, 2}
 Rowless = {1}
 MaxTroubles = 1
 MaxMoves = 2
INVARIANTS EnsembleAnswersAreSound
CHECK_DEADLOCK FALSE
