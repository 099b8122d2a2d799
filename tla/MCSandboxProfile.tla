-------------------------- MODULE MCSandboxProfile --------------------------
EXTENDS SandboxProfile, TLC

MCCwd == <<"", "w">>
Data == <<"", "data">>
Gone == <<"", "gone">>
Git == <<"git">>
Db == [host |-> "db", port |-> "22"]
GitHub == [host |-> "api.github.com", port |-> "443"]

MCMissing == {Gone}
MCNetworkAssets == {<<"", "etc", "hosts">>}
\* Names that differ in case or by an extension, and hosts without dots.
MCExecName(name) == IF name \in {"GIT", "Git", "git.bat"} THEN "git" ELSE name
MCIsIdent(text) == text \in {"git", "db"}
MCPathTo(bin) == <<"", "bin">> \o bin

Paths == {Root, MCCwd, MCCwd \o <<"out">>, MCCwd \o <<"out", "f">>, Data, Data \o <<"f">>,
          Tmp, Tmp \o <<"f">>, <<"", "srv">>, <<"", "etc", "hosts">>}

FileOps == {Op("fs", c, c, "", p) : c \in {"read", "write", "delete"}, p \in Paths}
OtherOps ==
    {Op("sql", "open", "sqlite", "", p) : p \in {MCCwd \o <<"out">>, Data, Memory}}
      \cup {Op("os", "exec", "exec", "", p) : p \in {<<"git">>, <<"", "bin", "git">>, <<"", "x", "GIT">>,
                                                     <<"", "w", "git.bat">>, <<"", "bin", "rm">>}}
      \cup {Op("os", "shell", "shell", "", Star), Op("os", "env", "env", "", <<"HOME">>),
            Op("io", "prompt", "prompt", "", <<"name?">>), Op("sql", "open", "postgres", "postgres", <<"", "", "db">>),
            Op("http", "client", "GET", "https", <<"", "", "api.github.com", "repos">>),
            Op("http", "server", "serve", "", <<>>), Op("k8s", "read", "read", "", <<>>), Op("k8s", "exec", "exec", "", <<>>),
            Op("os", "process", "chdir", "", Data),
            Op("ssh", "connect", "scan_host_keys", "", <<"api.github.com:443">>),
            Op("containers", "read", "list", "", <<>>)}

MCOps == FileOps \cup OtherOps

NoBody == [base |-> "", enabled |-> "unset", network |-> "", netAllow |-> {}, netDeny |-> {}, mounts |-> <<>>,
           read |-> {}, write |-> {}, execAllow |-> {}, execDeny |-> {}, callAllow |-> {}, callDeny |-> {},
           noExec |-> "unset", execPaths |-> {}]

Bodies ==
    {NoBody,
     [NoBody EXCEPT !.base = "default"],
     [NoBody EXCEPT !.base = "sandbox-path", !.network = "host", !.callDeny = {Whole("fs", "delete")}],
     [NoBody EXCEPT !.base = "sandbox-net", !.netDeny = {AnyEndpoint}, !.enabled = "true"],
     [NoBody EXCEPT !.read = {<<".">>}, !.write = {<<".", "out">>}, !.netAllow = {GitHub}, !.execAllow = {Git}],
     [NoBody EXCEPT !.network = "none", !.read = {Data}, !.noExec = "true", !.execPaths = {MCPathTo(Git)}],
     [NoBody EXCEPT !.network = "none", !.noExec = "false", !.execPaths = {MCPathTo(Git)},
                    !.mounts = <<"", "srv">> :> Bind(Data, "ro")],
     [NoBody EXCEPT !.enabled = "false"],
     [NoBody EXCEPT !.read = {Gone}]}

\* Paths, mounts and binaries in every combination; then the network; then the switch.
HostFlags ==
    {[NoFlags EXCEPT !.read = r, !.write = w, !.mounts = m, !.execAllow = a, !.execDeny = d] :
        r \in {{}, {Data}, {Root}, {Tmp}}, w \in {{}, {<<".">>}, {<<".", "out">>}},
        m \in {<<>>, <<"", "srv">> :> Bind(Data, "rw")}, a \in {{}, {Git}, {Star}}, d \in {{}, {<<"rm">>}, {Star}}}
NetFlags ==
    {[NoFlags EXCEPT !.network = n, !.netAllow = a, !.netDeny = d, !.read = r] :
        n \in Modes, a \in {{}, {AnyEndpoint}, {GitHub}, {Db}}, d \in {{}, {AnyEndpoint}, {GitHub}}, r \in {{}, {<<".">>}}}
SwitchFlags ==
    {[NoFlags EXCEPT !.enabled = e, !.execDeny = d, !.read = r, !.callDeny = c] :
        e \in {"true", "false"}, d \in {{}, {Star}}, r \in {{}, {Data}}, c \in {{}, {Whole("os", "env")}}}

NoFile == [enabled |-> TRUE, profiles |-> <<>>]

MCCommands ==
    {[profile |-> p, flags |-> f, file |-> NoFile] : p \in ToSet(Rungs) \cup {""}, f \in HostFlags \cup NetFlags \cup SwitchFlags}
      \cup {[profile |-> p, flags |-> f, file |-> [enabled |-> e, profiles |-> "default" :> b]] :
               p \in {"", "custom"}, b \in Bodies, e \in BOOLEAN,
               f \in {NoFlags, [NoFlags EXCEPT !.read = {Data}], [NoFlags EXCEPT !.execAllow = {Git}]}}
=============================================================================
