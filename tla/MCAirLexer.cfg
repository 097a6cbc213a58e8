SPECIFICATION Spec
CONSTANTS
    Inputs <- MCInputs
    parse_lambda <- parse
    MaxText = 4
    MaxWord = 4
    MaxPath = 5
INVARIANTS TokensTileTheText WordsAreRead
CHECK_DEADLOCK FALSE
