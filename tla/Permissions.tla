---------------------------- MODULE Permissions ----------------------------
(***************************************************************************)
(* The permission rules of libkite/permissions.go: how a rule is read and  *)
(* matched, how a checker decides, which rules a path, a binary or a       *)
(* network endpoint stands for, and the built-in ladder of rule lists.     *)
(*                                                                         *)
(* A path, a pattern or a URL is the sequence of segments strings.Split    *)
(* gives for "/": "/a/b" is <<"", "a", "b">>.  What a text shows before    *)
(* its first colon is its scheme ("" if that is not an identifier).  Paths *)
(* are clean and free of symbolic links; wildcards are whole segments.     *)
(***************************************************************************)
EXTENDS Naturals, Sequences, FiniteSets, SequencesExt

CONSTANTS
    Cwd,            \* the working directory, as segments
    ExecName(_),    \* a base name in lower case and without .exe, .cmd, .bat, .ps1 or .com
    IsIdent(_)      \* whether a text is letters, digits and underscores

Segment == STRING
Empty == ""

\* A path without wildcards.
Plain(path) ==
    path \in Seq(Segment) /\ path # <<>> /\ \A i \in DOMAIN path : path[i] \notin {"*", "**"}

Absolute(path) == Plain(path) /\ Head(path) = Empty

Root == <<Empty, Empty>>

\* The root of the file system, to which nothing is joined this way, is no working directory here.
ASSUME CwdAssumption == Absolute(Cwd) /\ Cwd # Root

Memory == <<":memory:">>
Star == <<"*">>

---------------------------------------------------------------------------
(* Rules.  No function stands for any function, no resource for any.      *)

Rule(module, category, functions, resource) ==
    [module |-> module, category |-> category, functions |-> functions, resource |-> resource]

\* "module.category"
Whole(module, category) == Rule(module, category, {}, <<>>)

\* "module.category(text)": an identifier before the first colon is taken for a list of functions.
ParseRule(module, category, scheme, segs) ==
    Rule(module, category, IF scheme = Empty THEN {} ELSE {scheme}, segs)

SegmentMatches(pattern, name) == pattern \in {"*", "**", name}

\* ** stands for any number of segments, also for none.
MatchSegments(pattern, path) ==
    LET match[i \in 1 .. Len(pattern) + 1] ==
          [j \in 1 .. Len(path) + 1 |->
              IF i > Len(pattern) THEN j > Len(path)
              ELSE IF pattern[i] = "**"
                   THEN i = Len(pattern) \/ \E k \in j .. Len(path) + 1 : match[i + 1][k]
                   ELSE j <= Len(path) /\ SegmentMatches(pattern[i], path[j]) /\ match[i + 1][j + 1]]
    IN match[1][1]

\* An operation names module, category and function, and the scheme and segments of its resource.
Op(module, category, function, scheme, segs) ==
    [module |-> module, category |-> category, function |-> function,
     scheme |-> scheme, segs |-> segs]

\* Mutant: base names are compared as they are.
IsBinaryOfThisCase(pattern, op) ==
    /\ op.module = "os" /\ op.category = "exec"
    /\ Len(pattern) = 1 /\ pattern[1] = Last(op.segs)

\* A pattern without a slash or wildcard also matches the base name of what is executed, on every
\* system without regard to case and to a Windows extension.
IsBinaryOf(pattern, op) ==
    /\ op.module = "os" /\ op.category = "exec"
    /\ Len(pattern) = 1 /\ pattern[1] \notin {"*", "**"}
    /\ ExecName(pattern[1]) = ExecName(Last(op.segs))

ResourceMatches(pattern, op) ==
    \/ pattern \in {<<"*">>, <<"**">>}
    \/ IsBinaryOf(pattern, op)
    \/ /\ op.scheme = Empty
       /\ \/ Len(pattern) = Len(op.segs) /\ \A i \in DOMAIN pattern : SegmentMatches(pattern[i], op.segs[i])
          \/ "**" \in ToSet(pattern) /\ MatchSegments(pattern, op.segs)

Matches(rule, op) ==
    /\ rule.module \in {"*", op.module}
    /\ rule.category \in {"*", op.category}
    /\ rule.functions = {} \/ op.function \in rule.functions
    /\ rule.resource = <<>> \/ (op.segs # <<>> /\ ResourceMatches(rule.resource, op))

---------------------------------------------------------------------------
(* The checker.                                                            *)

Config(allow, deny, default) == [allow |-> allow, deny |-> deny, default |-> default]

MatchesOneOf(rules, op) == \E rule \in rules : Matches(rule, op)

Allows(config, op) ==
    /\ ~MatchesOneOf(config.deny, op)
    /\ MatchesOneOf(config.allow, op) \/ config.default = "allow"

---------------------------------------------------------------------------
(* The rules a path, a binary or an endpoint stands for.                   *)

\* "." and "./x" are relative to the working directory.
Expand(path) == IF Head(path) = "." THEN Cwd \o Tail(path) ELSE path

Tree(path) == IF path = Root THEN <<Empty, "**">> ELSE path \o <<"**">>

\* category(p/**) and, except for the root, category(p)
TreeRules(category, path) ==
    {ParseRule("fs", category, Empty, Tree(path))}
      \cup (IF path = Root THEN {} ELSE {ParseRule("fs", category, Empty, path)})

PathReadRules(paths) ==
    UNION {TreeRules("read", Expand(p)) \cup {ParseRule("sql", "open", "sqlite", Tree(Expand(p)))} : p \in paths}

PathWriteRules(paths) ==
    PathReadRules(paths)
      \cup UNION {TreeRules("write", Expand(p)) \cup TreeRules("delete", Expand(p))
                    \cup {ParseRule("sql", "open", "sqlite", Memory)} : p \in paths}

\* Mutant: * is a pattern for binaries like any other and no rule names the shell.
ExecRulesNoShell(bins) == {ParseRule("os", "exec", Empty, b) : b \in bins}

\* ExecAllowRules and ExecDenyRules are the same function of their binaries.
ExecRules(bins) ==
    UNION {IF b = Star THEN {Whole("os", "exec"), Whole("os", "shell")}
           ELSE {ParseRule("os", "exec", Empty, b)}
                  \cup (IF Head(b) \in {Empty, ".", "$"} THEN {} ELSE {ParseRule("os", "exec", Empty, <<Empty, "**">> \o b)})
           : b \in bins}

SandboxPathRules ==
    {ParseRule("fs", c, Empty, Tree(Cwd)) : c \in {"read", "write", "delete"}}
      \cup {Whole("os", "env"), Whole("io", "prompt")}
      \cup {ParseRule("sql", "open", "sqlite", Tree(Cwd)), ParseRule("sql", "open", "sqlite", Memory)}

SandboxExecRules == {Whole("os", "exec"), Whole("os", "shell")}

SandboxNetRules ==
    {Whole("http", "client"), Whole("http", "server"), Whole("ssh", "connect"), Whole("ssh", "transfer"),
     ParseRule("sql", "open", "postgres", <<"**">>), ParseRule("sql", "open", "mysql", <<"**">>),
     Whole("k8s", "read"), Whole("k8s", "write"), Whole("k8s", "config"),
     Whole("mcp", "client"), Whole("mcp", "server"), Whole("containers", "*")}

\* An endpoint is a host with or without a port, or "*"; `at` is the host with a port, spelled out.
AnyEndpoint == [host |-> "*", port |-> Empty]
At(endpoint, port) == "@" \o endpoint.host \o ":" \o port

HttpRules(endpoint) ==
    LET Url(scheme, authority) == ParseRule("http", "client", scheme, <<Empty, Empty, authority, "*">>)
        host == endpoint.host
        port == endpoint.port
    IN CASE port = Empty    -> {Url(s, host) : s \in {"http", "https"}} \cup {Url("https", host \o ":443"), Url("http", host \o ":80")}
         [] port = "443" -> {Url("https", host), Url("https", host \o ":443")}
         [] port = "80"  -> {Url("http", host), Url("http", host \o ":80")}
         [] OTHER        -> {Url(s, host \o ":" \o port) : s \in {"http", "https"}}

LoginRules(endpoint) ==
    LET Port(default) == IF endpoint.port = Empty THEN default ELSE endpoint.port
        \* a host without dots is taken for the name of a function, too
        Login == IF IsIdent(endpoint.host) THEN ParseRule("ssh", "connect", endpoint.host, <<Port("22")>>)
                 ELSE ParseRule("ssh", "connect", Empty, <<endpoint.host \o ":" \o Port("22")>>)
    IN {Login,
        ParseRule("sql", "open", "postgres", <<Empty, Empty, At(endpoint, Port("5432")), "*">>),
        ParseRule("sql", "open", "mysql", <<Empty, Empty, At(endpoint, Port("3306")), "*">>)}
         \cup (IF endpoint.port = Empty THEN {ParseRule("ssh", "connect", Empty, <<endpoint.host>>)} ELSE {})

SynthesizeNetworkRules(endpoints) ==
    IF AnyEndpoint \in endpoints THEN SandboxNetRules
    ELSE UNION {HttpRules(e) \cup LoginRules(e) : e \in endpoints}

LoopbackRules ==
    {ParseRule("http", "client", "http", <<Empty, Empty, h>>) : h \in {"localhost*", "127.0.0.1*", "[::1]*"}}
      \cup {Whole("http", "server")}

NetworkAllowRules(mode, endpoints) ==
    IF endpoints # {} THEN SynthesizeNetworkRules(endpoints)
    ELSE CASE mode = "host"     -> SandboxNetRules
           [] mode = "loopback" -> LoopbackRules
           [] OTHER             -> {}

---------------------------------------------------------------------------
(* The ladder of built-in rule lists and the suggestion in a denial.       *)

AllowAllPermissions == Config({Whole("*", "*")}, {}, "allow")

SuggestLadder ==
    <<[name |-> "sandbox-path", config |-> Config(SandboxPathRules, {}, "deny")],
      [name |-> "sandbox-exec", config |-> Config(SandboxPathRules \cup SandboxExecRules, {}, "deny")],
      [name |-> "sandbox-net",
       config |-> Config(SandboxPathRules \cup SandboxExecRules \cup SandboxNetRules, {}, "deny")],
      [name |-> "unconfined", config |-> AllowAllPermissions]>>

SuggestProfile(op) ==
    LET i == SelectInSeq(SuggestLadder, LAMBDA rung : Allows(rung.config, op))
    IN SuggestLadder[i].name
============================================================================
