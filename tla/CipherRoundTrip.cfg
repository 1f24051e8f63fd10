SPECIFICATION Spec
CONSTANTS
    NULL = NULL
    Keys <- MCKeys
    Numbers <- MCNumbers
    Chars <- MCChars
    MaxWords = 5
    MaxPoly = 2
    MaxFM = 5
CHECK_DEADLOCK FALSE
INVARIANT CommandHonoured
INVARIANT LettersInStep
INVARIANT PolybiusRoundTrip
INVARIANT MorseRoundTrip
