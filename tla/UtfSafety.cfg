SPECIFICATION Spec
CONSTANTS
    Standard <- MCStandard
    Inputs <- MCInputs
    Argvs <- MCArgvs
    Dashed <- MCDashed
    Olds <- MCOlds
    Garbage <- MCGarbage
    MaxFaults = 1
INVARIANT TextInStep
INVARIANT AskedOnly
INVARIANT SwapInStep
INVARIANT CopyOrConvert
PROPERTY Terminates
