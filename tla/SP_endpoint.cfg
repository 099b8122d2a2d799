SPECIFICATION Spec
CONSTANTS
    Cwd <- MCCwd
    ExecName <- MCExecName
    IsIdent <- MCIsIdent
    Ops <- MCOps
    Commands <- MCCommands
    Missing <- MCMissing
    NetworkAssets <- MCNetworkAssets
    PathTo <- MCPathTo
INVARIANT EndpointGranted
