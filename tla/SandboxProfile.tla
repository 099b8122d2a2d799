--------------------------- MODULE SandboxProfile ---------------------------
(***************************************************************************)
(* From a command line to a permission decision: ResolveActiveProfile of   *)
(* basekite/cmd/root.go, the profiles of libkite/sandbox/profile.go, and   *)
(* the checker a script meets.  A profile is resolved, overridden by the   *)
(* command's flags, and compiled twice: to mounts, which the operating     *)
(* system enforces, and to permission rules, which the runtime checks.     *)
(*                                                                         *)
(* Lists whose order decides nothing are sets.  Driver, image, environment *)
(* and limits of a profile are left out: no rule depends on them.          *)
(***************************************************************************)
EXTENDS Permissions

CONSTANTS
    Ops,             \* the operations a script may try
    Commands,        \* command lines with the config file they find
    Missing,         \* host paths that do not exist
    NetworkAssets,   \* resolver and certificate files of the host
    PathTo(_)        \* where ResolveExecutablePaths finds a bare binary name

VARIABLES
    command,         \* the flags and the config file
    stage,           \* how far the command is
    profile,         \* the active profile
    config,          \* what CompilePermissions made of it
    answer           \* the last operation and what became of it

vars == <<command, stage, profile, config, answer>>

Modes == {Empty, "none", "loopback", "host"}
Rungs == <<"deny-all", "sandbox-path", "sandbox-exec", "sandbox-net", "unconfined">>

Tmp == <<Empty, "tmp">>
Bind(source, mode) == [source |-> source, type |-> "bind", mode |-> mode]
Tmpfs(mode) == [source |-> <<>>, type |-> "tmpfs", mode |-> mode]

---------------------------------------------------------------------------
(* Mounts: a function from destinations.                                   *)

MountAt(destination, mount) == [d \in {destination} |-> mount]

\* The first mounts replace those of the second that have the same destination.
f ++ g == [d \in DOMAIN f \cup DOMAIN g |-> IF d \in DOMAIN f THEN f[d] ELSE g[d]]

\* Mutant: /tmp is not added.
CompilePathsNoTmp(read, write, explicit, base) ==
    LET writes == {Expand(p) : p \in write}
        reads  == {Expand(p) : p \in read}
    IN explicit ++ ([p \in writes \cup reads |-> Bind(p, IF p \in writes THEN "rw" ELSE "ro")] ++ base)

\* Explicit mounts replace the paths' mounts, which replace the base's; /tmp is always there.
CompilePaths(read, write, explicit, base) ==
    LET writes == {Expand(p) : p \in write}
        reads  == {Expand(p) : p \in read}
        paths  == [p \in writes \cup reads |-> Bind(p, IF p \in writes THEN "rw" ELSE "ro")]
    IN explicit ++ (paths ++ (base ++ MountAt(Tmp, Tmpfs("rw"))))

ResolveNetworkAssetMounts(mounts) == mounts ++ [p \in NetworkAssets |-> Bind(p, "ro")]

---------------------------------------------------------------------------
(* Profiles.                                                               *)

ZeroProfile ==
    [enabled |-> FALSE, network |-> Empty, netAllow |-> {}, netDeny |-> {}, mounts |-> <<>>,
     read |-> {}, write |-> {}, execAllow |-> {}, execDeny |-> {}, callAllow |-> {}, callDeny |-> {},
     noExec |-> FALSE, execPaths |-> {}]

\* Mutant: the profiles with a working directory have no scratch directory.
InCwdNoTmp == [ZeroProfile EXCEPT !.enabled = TRUE, !.network = "none", !.read = {Cwd}, !.write = {Cwd},
                                  !.mounts = MountAt(Cwd, Bind(Cwd, "rw"))]

InCwd == [ZeroProfile EXCEPT !.enabled = TRUE, !.network = "none", !.read = {Cwd}, !.write = {Cwd},
                             !.mounts = MountAt(Cwd, Bind(Cwd, "rw")) ++ MountAt(Tmp, Tmpfs("rw"))]

LoadBuiltin(name) ==
    CASE name = "deny-all" ->
           [ZeroProfile EXCEPT !.enabled = TRUE, !.network = "none", !.execDeny = {Star}, !.noExec = TRUE,
                               !.mounts = MountAt(Tmp, Tmpfs("rw"))]
      [] name = "sandbox-path" -> [InCwd EXCEPT !.execDeny = {Star}, !.noExec = TRUE]
      [] name = "sandbox-exec" -> [InCwd EXCEPT !.execAllow = {Star}]
      [] name = "sandbox-net" ->
           [InCwd EXCEPT !.execAllow = {Star}, !.network = "host",
                         !.mounts = ResolveNetworkAssetMounts(InCwd.mounts)]
      [] name = "unconfined" -> [ZeroProfile EXCEPT !.network = "host"]

IsBuiltin(name) == name \in ToSet(Rungs)

\* Binaries named by a path are taken as they are, bare names are looked up; * names none.
ResolveExecutablePaths(bins) == {IF Len(b) = 1 THEN PathTo(b) ELSE Expand(b) : b \in bins \ {Star}}

\* A body written in a config file; "unset" is a pointer that is nil.
BodyRefused(body) ==
    \/ body.base # Empty /\ ~IsBuiltin(body.base)
    \/ /\ body.enabled # "false" /\ body.base = Empty /\ body.network = Empty
       /\ \A list \in {"netAllow", "netDeny", "read", "write", "execAllow", "execDeny", "callAllow", "callDeny"} :
              body[list] = {}

ProfileFromBody(body) ==
    LET base == IF body.base = Empty THEN [ZeroProfile EXCEPT !.enabled = TRUE] ELSE LoadBuiltin(body.base)
        \* networkSpec.UnmarshalYAML: endpoints without a mode mean the host's network
        mode == IF body.network = Empty /\ body.netAllow # {} THEN "host" ELSE body.network
        airGapped == AnyEndpoint \in body.netDeny
        network == IF mode # Empty THEN mode
                   ELSE IF airGapped \/ base.network = Empty THEN "none" ELSE base.network
        read == base.read \cup body.read
        write == base.write \cup body.write
        mounts == CompilePaths(read, write, body.mounts, base.mounts)
        execAllow == base.execAllow \cup body.execAllow
        execDeny == base.execDeny \cup body.execDeny
        named == body.noExec = "unset" /\ execAllow # {} /\ Star \notin execAllow
    IN [enabled   |-> IF body.enabled = "unset" THEN base.enabled ELSE body.enabled = "true",
        network   |-> network,
        netAllow  |-> (IF mode = Empty /\ airGapped THEN {} ELSE base.netAllow)
                        \cup (IF airGapped THEN {} ELSE body.netAllow),
        netDeny   |-> IF airGapped THEN {AnyEndpoint} ELSE body.netDeny,
        mounts    |-> IF network = "host" THEN ResolveNetworkAssetMounts(mounts) ELSE mounts,
        read      |-> read,
        write     |-> write,
        execAllow |-> execAllow,
        execDeny  |-> execDeny,
        callAllow |-> base.callAllow \cup body.callAllow,
        callDeny  |-> base.callDeny \cup body.callDeny,
        noExec    |-> CASE body.noExec # "unset" -> body.noExec = "true"
                        [] body.noExec = "unset" /\ execAllow # {} -> FALSE
                        [] OTHER -> IF body.base = Empty THEN execDeny = {} \/ Star \in execDeny ELSE base.noExec,
        execPaths |-> base.execPaths \cup body.execPaths
                        \cup (IF named THEN ResolveExecutablePaths(execAllow) ELSE {})]

\* validateSources: a bind mount's source must exist.
SourcesExist(p) == \A d \in DOMAIN p.mounts : p.mounts[d].type = "bind" => p.mounts[d].source \notin Missing

---------------------------------------------------------------------------
(* ApplyCLIOverrides, group by group in the order of the code.             *)

WithEnabled(p, flags) ==
    CASE flags.enabled = "unset" -> p
      [] flags.enabled = "true"  -> [p EXCEPT !.enabled = TRUE]
      [] flags.enabled = "false" ->
           [p EXCEPT !.enabled = FALSE, !.noExec = FALSE, !.network = IF p.network = Empty THEN "host" ELSE p.network]

WithPaths(p, flags) ==
    LET read == p.read \cup flags.read
        write == p.write \cup flags.write
    IN IF flags.read \cup flags.write = {} THEN p
       ELSE [p EXCEPT !.read = read, !.write = write, !.mounts = CompilePaths(read, write, <<>>, p.mounts)]

WithMounts(p, flags) == [p EXCEPT !.mounts = flags.mounts ++ p.mounts]

WithNetMode(p, flags) == IF flags.network = Empty THEN p ELSE [p EXCEPT !.network = flags.network]

WithNetAllow(p, flags) ==
    IF flags.netAllow = {} THEN p
    ELSE IF AnyEndpoint \in flags.netAllow
    THEN [p EXCEPT !.network = "host", !.netAllow = {AnyEndpoint}, !.netDeny = p.netDeny \ {AnyEndpoint}]
    ELSE [p EXCEPT !.network = IF p.network \in {Empty, "none"} THEN "host" ELSE p.network,
                   !.netAllow = p.netAllow \cup flags.netAllow]

WithNetDeny(p, flags) ==
    IF flags.netDeny = {} THEN p
    ELSE IF AnyEndpoint \in flags.netDeny
    THEN [p EXCEPT !.network = "none", !.netAllow = {}, !.netDeny = {AnyEndpoint}]
    ELSE [p EXCEPT !.netDeny = p.netDeny \cup flags.netDeny]

WithNetAssets(p) ==
    IF p.network = "host" \/ p.netAllow # {} THEN [p EXCEPT !.mounts = ResolveNetworkAssetMounts(p.mounts)] ELSE p

\* Mutant: the inherited deny of every binary stays.
WithExecAllowKeepDeny(p, flags) ==
    IF flags.execAllow = {} THEN p
    ELSE [p EXCEPT !.execAllow = p.execAllow \cup flags.execAllow, !.noExec = FALSE,
                   !.execPaths = p.execPaths \cup ResolveExecutablePaths(flags.execAllow)]

\* An allowed binary lifts the deny of every binary that deny-all and sandbox-path begin with.
WithExecAllow(p, flags) ==
    LET execAllow == p.execAllow \cup flags.execAllow
    IN IF flags.execAllow = {} THEN p
       ELSE [p EXCEPT !.execAllow = execAllow, !.execDeny = p.execDeny \ {Star}, !.noExec = FALSE,
                      !.execPaths = IF Star \in execAllow THEN {}
                                    ELSE p.execPaths \cup ResolveExecutablePaths(flags.execAllow)]

WithExecDeny(p, flags) ==
    [p EXCEPT !.execDeny = p.execDeny \cup flags.execDeny,
              !.noExec = p.noExec \/ (Star \in flags.execDeny /\ p.execAllow = {})]

WithCalls(p, flags) ==
    [p EXCEPT !.callAllow = p.callAllow \cup flags.callAllow, !.callDeny = p.callDeny \cup flags.callDeny]

ApplyCLIOverrides(p, flags) ==
    LET p1 == WithMounts(WithPaths(WithEnabled(p, flags), flags), flags)
        p2 == WithNetAssets(WithNetDeny(WithNetAllow(WithNetMode(p1, flags), flags), flags))
    IN WithCalls(WithExecDeny(WithExecAllow(p2, flags), flags), flags)

---------------------------------------------------------------------------
(* Which profile is active, and the rules it compiles to.                  *)

\* The profile's name: "" on the command line and in the environment means "default", which is
\* unconfined if the sandbox was switched off, and deny-all if the config file has no such profile.
ActiveName(c) ==
    IF c.profile # Empty THEN c.profile
    ELSE IF c.flags.enabled = "false" THEN "unconfined"
    ELSE "default"

Refused(c) ==
    LET name == ActiveName(c)
    IN /\ ~IsBuiltin(name)
       /\ IF name \in DOMAIN c.file.profiles
          THEN BodyRefused(c.file.profiles[name]) \/ ~SourcesExist(ProfileFromBody(c.file.profiles[name]))
          ELSE name # "default"

ResolveProfile(c) ==
    LET name == ActiveName(c)
        written == name \in DOMAIN c.file.profiles
        p == IF IsBuiltin(name) THEN LoadBuiltin(name)
             ELSE IF written THEN ProfileFromBody(c.file.profiles[name])
             ELSE LoadBuiltin("deny-all")
        off == /\ name = "default" /\ ~c.file.enabled
               /\ written => c.file.profiles[name].enabled = "unset"
    IN IF off THEN [p EXCEPT !.enabled = FALSE] ELSE p

\* Mutant: what a bind mount shows is granted at its destination only.
MountRulesNoSource(destination, mount) ==
    IF mount.mode = "rw" THEN PathWriteRules({destination}) ELSE PathReadRules({destination})

MountRules(destination, mount) ==
    LET paths == {destination} \cup (IF mount.type = "bind" /\ destination # Tmp THEN {mount.source} ELSE {})
    IN IF mount.mode = "rw" THEN PathWriteRules(paths) ELSE PathReadRules(paths)

AmbientRules(p) ==
    IF p.read \cup p.write \cup (DOMAIN p.mounts \ {Tmp}) = {} THEN {}
    ELSE {Whole("os", "env"), Whole("io", "prompt")} \ p.callDeny

NetworkRules(p) ==
    IF p.network \in {Empty, "none"} /\ p.netAllow = {} THEN {} ELSE NetworkAllowRules(p.network, p.netAllow)

CompilePermissions(p) ==
    IF ~p.enabled THEN Config({Whole("*", "*")}, p.callDeny \cup ExecRules(p.execDeny), "allow")
    ELSE Config(
        PathReadRules(p.read) \cup PathWriteRules(p.write)
          \cup (UNION {MountRules(d, p.mounts[d]) : d \in DOMAIN p.mounts})
          \cup AmbientRules(p)
          \cup ExecRules(p.execAllow)
          \cup (IF ~p.noExec /\ p.execAllow = {} THEN ExecRules(p.execPaths) ELSE {})
          \cup NetworkRules(p) \cup p.callAllow,
        ExecRules(p.execDeny) \cup SynthesizeNetworkRules(p.netDeny) \cup p.callDeny,
        "deny")

---------------------------------------------------------------------------
(* The command.                                                            *)

\* Mounts are absolute (decodeMount).  Paths are literal: no parser refuses a wildcard, but what it would mean
\* differs, a name to the mount and a pattern to the rules.
PathsTyped(x) == \A p \in x.read \cup x.write : Plain(p)

MountsTyped(mounts) ==
    \A d \in DOMAIN mounts :
        /\ Absolute(d) /\ mounts[d].mode \in {"ro", "rw"}
        /\ mounts[d].type = "bind" => Absolute(mounts[d].source)

SpecTyped(x) ==
    /\ x.enabled \in {"unset", "true", "false"} /\ x.network \in Modes
    /\ PathsTyped(x) /\ MountsTyped(x.mounts)

ASSUME CommandsAssumption ==
    \A c \in Commands :
        /\ DOMAIN c = {"profile", "flags", "file"}
        /\ SpecTyped(c.flags)
        /\ \A name \in DOMAIN c.file.profiles : SpecTyped(c.file.profiles[name])

\* What is checked with a resource: files with the absolute path, local databases too, and binaries with
\* the path that resolveExecTarget finds, or the bare name when it finds none.
ASSUME OpsAssumption ==
    \A op \in Ops :
        LET path == op.segs \in Seq(Segment) /\ op.segs # <<>> /\ op.scheme = Empty
        IN /\ op.module = "fs" =>
                 op.category \in {"read", "write", "delete"} /\ path /\ Head(op.segs) = Empty
           /\ op.module = "sql" /\ op.function = "sqlite" => path /\ (op.segs = Memory \/ Head(op.segs) = Empty)
           /\ op.module = "os" /\ op.category = "exec" => path

\* What the code mounts by itself.
ASSUME AssetsAssumption == Tmp \notin NetworkAssets /\ \A p \in NetworkAssets \cup {Tmp} : Absolute(p)

NoOp == Op("none", "none", "none", Empty, <<>>)

Init ==
    /\ command \in Commands
    /\ stage = "started"
    /\ profile = ZeroProfile
    /\ config = Config({}, {}, "deny")
    /\ answer = [op |-> NoOp, verdict |-> "none", suggestion |-> "none"]

ResolveActiveProfile ==
    /\ stage = "started"
    /\ IF Refused(command)
       THEN stage' = "refused" /\ UNCHANGED profile
       ELSE /\ stage' = "resolved"
            /\ profile' = ApplyCLIOverrides(ResolveProfile(command), command.flags)
    /\ UNCHANGED <<command, config, answer>>

NewChecker ==
    /\ stage = "resolved"
    /\ stage' = "running"
    /\ config' = CompilePermissions(profile)
    /\ UNCHANGED <<command, profile, answer>>

Fresh == stage = "running" /\ answer.op = NoOp

\* A denial suggests a profile only if no deny rule was the reason.  The checker keeps no state, so
\* one operation stands for each of a script's.
Check(op) ==
    LET verdict == CASE MatchesOneOf(config.deny, op) -> "denied"
                     [] Allows(config, op)           -> "allowed"
                     [] OTHER                        -> "no rule"
    IN /\ Fresh
       /\ answer' = [op |-> op, verdict |-> verdict,
                     suggestion |-> IF verdict = "no rule" THEN SuggestProfile(op) ELSE "none"]
       /\ UNCHANGED <<command, stage, profile, config>>

\* A refused command ends with its message.
Ended == (stage = "refused" \/ answer.op # NoOp) /\ UNCHANGED vars

Next ==
    \/ ResolveActiveProfile
    \/ NewChecker
    \/ \E op \in Ops : Check(op)
    \/ Ended

Spec == Init /\ [][Next]_vars

---------------------------------------------------------------------------
(* Properties.                                                             *)

NoFlags ==
    [enabled |-> "unset", read |-> {}, write |-> {}, mounts |-> <<>>, network |-> Empty, netAllow |-> {},
     netDeny |-> {}, execAllow |-> {}, execDeny |-> {}, callAllow |-> {}, callDeny |-> {}]

ConfigOf(c) == CompilePermissions(ApplyCLIOverrides(ResolveProfile(c), c.flags))
Granted(conf) == {op \in Ops : Allows(conf, op)}

Under(path, top) == top = Root \/ IsPrefix(top, path)
UnderOneOf(path, tops) == \E top \in tops : Under(path, Expand(top))

\* A profile in use has a network mode and, unless it began unconfined, mounts.
TypeOK ==
    /\ command \in Commands
    /\ stage \in {"started", "resolved", "refused", "running"}
    /\ stage \in {"resolved", "running"} =>
          /\ profile.network \in Modes \ {Empty}
          /\ DOMAIN profile.mounts # {} \/ ActiveName(command) = "unconfined"
    /\ stage # "running" => config.allow = {}
    /\ answer.verdict \in {"none", "allowed", "denied", "no rule"}
    /\ (answer.suggestion # "none") <=> (answer.verdict = "no rule")

\* Scripts use what tells the rungs apart: the environment, the shell, a server, a file elsewhere.
ASSUME RungsAssumption ==
    /\ \E op \in Ops : op.module = "os" /\ op.category = "env"
    /\ \E op \in Ops : op.module = "os" /\ op.category = "shell"
    /\ \E op \in Ops : op.module = "http" /\ op.category = "server"
    /\ \E op \in Ops : /\ op.module = "fs" /\ op.category = "write"
                        /\ ~Under(op.segs, Cwd) /\ ~Under(op.segs, Tmp)

\* The profiles are a ladder (permissions.go:615, sandbox.go:190): with the same flags a rung never
\* loses what the rung below grants, and without flags it grants something more.  Switching the
\* sandbox on for the unconfined profile, which has no mounts, leaves the ladder.
LadderKept ==
    \A i \in 1 .. Len(Rungs) - 1 :
        Fresh /\ command.profile = Rungs[i] /\ ~(Rungs[i + 1] = "unconfined" /\ command.flags.enabled = "true") =>
            LET above == Granted(ConfigOf([command EXCEPT !.profile = Rungs[i + 1]]))
            IN /\ Granted(config) \subseteq above
               /\ command.flags = NoFlags => Granted(config) # above

\* The profile a denial suggests (permissions.go:943), computed from lists of rules, grants the
\* denied operation when it is used, which compiles it from a profile instead.
SuggestionHelps ==
    answer.suggestion # "none" =>
        Allows(ConfigOf([command EXCEPT !.profile = answer.suggestion, !.flags = NoFlags]), answer.op)

OpenNetwork(flags) == AnyEndpoint \in flags.netAllow \/ flags.network = "host"

\* No wildcards, and no binary below a relative directory, which would stand for every path that ends so.
OnlyGrants(flags) ==
    /\ flags.enabled = "unset" /\ flags.mounts = <<>>
    /\ flags.netDeny = {} /\ flags.execDeny = {} /\ flags.callDeny = {} /\ flags.callAllow = {}
    /\ flags.netAllow \subseteq {AnyEndpoint} /\ flags.network # "loopback"
    /\ \A p \in flags.read \cup flags.write : Absolute(Expand(p))
    /\ \A b \in flags.execAllow : b = Star \/ (Plain(b) /\ (Len(b) = 1 \/ Head(b) \in {Empty, "."}))

\* What is about other machines.
NetworkOp(op) ==
    \/ <<op.module, op.category>> \in {"http"} \X {"client", "server"} \cup {"ssh"} \X {"connect", "transfer"}
                                      \cup {"k8s"} \X {"read", "write", "config"} \cup {"mcp"} \X {"client", "server"}
    \/ op.module = "containers"
    \/ op.module = "sql" /\ op.category = "open" /\ op.function \in {"postgres", "mysql"} /\ op.segs # <<>>

\* What the flags say, without patterns: paths stand for their trees, bare names for every binary
\* that has this base name, but for case and a Windows extension.  To name /tmp for reading takes away that
\* it can be written.
Named(op, flags) ==
    LET assets == IF OpenNetwork(flags) THEN NetworkAssets ELSE {}
        writable == flags.write \cup (IF \E p \in flags.read : Expand(p) = Tmp THEN {} ELSE {Tmp})
        readable == flags.read \cup writable \cup assets
        sqlite == op.module = "sql" /\ op.category = "open" /\ op.function = "sqlite"
    IN CASE op.module = "fs" -> UnderOneOf(op.segs, IF op.category = "read" THEN readable ELSE writable)
         [] sqlite -> IF op.segs = Memory THEN writable # {} ELSE UnderOneOf(op.segs, readable)
         [] <<op.module, op.category>> \in {<<"os", "env">>, <<"io", "prompt">>} -> flags.read \cup flags.write \cup assets # {}
         [] op.module = "os" /\ op.category = "exec" ->
              \E b \in flags.execAllow : b = Star \/ b = op.segs \/ (Len(b) = 1 /\ ExecName(Last(op.segs)) = ExecName(b[1]))
         [] op.module = "os" /\ op.category = "shell" -> Star \in flags.execAllow
         [] OTHER -> NetworkOp(op) /\ OpenNetwork(flags)

\* On top of deny-all, flags that grant paths, binaries or the whole network grant what they name and
\* nothing else (ApplyCLIOverrides, CompilePermissions, the generated rules and their matching).
FlagsGrantWhatTheyName ==
    Fresh /\ command.profile = "deny-all" /\ OnlyGrants(command.flags) =>
        \A op \in Ops : Allows(config, op) <=> Named(op, command.flags)

\* What the compiled mounts show by the account of CompilePermissions (profile.go:680-705): at the destination
\* and, for a bind mount, at the source.
Mounted(path, modes) ==
    \E d \in DOMAIN profile.mounts :
        LET m == profile.mounts[d]
        IN m.mode \in modes /\ (Under(path, d) \/ (m.type = "bind" /\ d # Tmp /\ Under(path, m.source)))

\* The two translations of a profile agree: the rules let a script read and write what is mounted,
\* and nothing else, as long as no mount takes the place of a path that may be written and no rule
\* about files is given by hand.
GatesMatchMounts ==
    /\ Fresh /\ profile.enabled
    /\ \A w \in profile.write : profile.mounts[Expand(w)].mode = "rw"
    /\ \A r \in profile.callAllow \cup profile.callDeny : r.module \notin {"fs", "*"}
    => \A op \in {o \in Ops : o.module = "fs"} :
           Allows(config, op) <=> Mounted(op.segs, IF op.category = "read" THEN {"ro", "rw"} ELSE {"rw"})

\* `--sandbox-net-allow=api.github.com:443` is "selective outbound HTTP" (docs/fundamentals/security/sandbox.md:192):
\* a request to that host over https is granted.
EndpointGranted ==
    \A e \in command.flags.netAllow :
        /\ Fresh /\ command.profile = Empty /\ e.port = "443"
        /\ command.flags = [NoFlags EXCEPT !.netAllow = {e}, !.read = {<<".">>}]
        => Allows(config, Op("http", "client", "GET", "https", <<Empty, Empty, e.host, "repos">>))
=============================================================================
