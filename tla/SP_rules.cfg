SPECIFICATION Spec
CONSTANTS
    Cwd <- MCCwd
    ExecName <- MCExecName
    IsIdent <- MCIsIdent
    Ops <- MCOps
    Commands <- MCCommands
    Missing <- MCMissing
    NetworkAssets <- MCNetworkAssets
    PathTo <- MCPathTo
INVARIANTS
    TypeOK
    LadderKept
    SuggestionHelps
    FlagsGrantWhatTheyName
    GatesMatchMounts
