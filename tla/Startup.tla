------------------------------ MODULE Startup ------------------------------
(***************************************************************************)
(* Startup: main from its arguments to serving (main.go), the layers of    *)
(* the configuration (GetConfig, LoadEnvVars, LoadFlags), its validation,  *)
(* the listener and the TLS configurations, and the PROXY protocol header  *)
(* of the first connection.                                                *)
(*                                                                         *)
(* The input is the environment of the process: the working directory, the *)
(* -config paths, the TLSPXY_ variables and the flags on the command line. *)
(* A path is a directory, a single file or nothing; an entry of it is a    *)
(* file with its extension, its first line, whether it parses, and the     *)
(* keys it sets. Only flags given on the command line override; the        *)
(* default of a flag is the default of its key.                            *)
(***************************************************************************)
EXTENDS Config, ProxyProto

CONSTANTS
    Inputs,      \* the environments explored
    Addrs        \* the addresses of connections explored

\* What a path holds, and the -config paths, are in order; the working directory
\* is a directory, if it is there.
IsSequence(s) == s \in Seq({s[i] : i \in DOMAIN s})
ASSUME InputsAssumption ==
    \A e \in Inputs :
       /\ e.cwd.kind \in {"dir", "missing"} /\ IsSequence(e.cwd.entries)
       /\ IsSequence(e.paths)
       /\ \A i \in DOMAIN e.paths : IsSequence(e.paths[i].entries)

\* Ports are what the operating system reports: 16 bits.
ASSUME AddrsAssumption == \A a \in Addrs : a.port \in Nat /\ a.port < Uint16

VARIABLES
    input,     \* [cwd, paths, env, flags, args]: fixed at the start
    main,      \* the stage of main
    k,         \* the configuration
    todo,      \* files still to be read of the directory at hand
    paths,     \* -config paths still to be read
    level,     \* logging.Level
    listener,  \* the TLS configuration of the listener, NoTLS before
    remote,    \* the TLS configuration towards the backend
    header,    \* the header sent on the first connection
    conn,      \* the two addresses of that connection
    code       \* exit status, 9 while the process runs

vars == <<input, main, k, todo, paths, level, listener, remote, header, conn,
          code>>

Init ==
    /\ input \in Inputs
    /\ main = "start" /\ k = DefaultConfig /\ todo = <<>> /\ paths = input.paths
    /\ level = "unset" /\ listener = NoTLS /\ remote = NoTLS /\ header = NoHeader
    /\ conn = <<>> /\ code = 9

built == <<level, listener, remote, header, conn>>

Exit(c) == main' = "exit" /\ code' = c

----------------------------------------------------------------------------
(* GetConfig *)

\* -version
PrintVersion ==
    /\ main = "start" /\ input.args = "version"
    /\ Exit(0)
    /\ UNCHANGED <<input, k, todo, paths, built>>

\* The working directory, if it can be read
ReadCwd ==
    /\ main = "start" /\ input.args # "version"
    /\ main' = "cwd"
    /\ todo' = IF input.cwd.kind = "dir" THEN input.cwd.entries ELSE <<>>
    /\ UNCHANGED <<input, k, paths, built, code>>

\* Only YAML files are read; in the working directory only marked ones.
Skips(f) == ~f.yaml \/ (main = "cwd" /\ ~f.marker)

SkipFile ==
    /\ main \in {"cwd", "dir"} /\ todo # <<>> /\ Skips(Head(todo))
    /\ todo' = Tail(todo)
    /\ UNCHANGED <<input, main, k, paths, built, code>>

LoadFile ==
    /\ main \in {"cwd", "dir"} /\ todo # <<>>
    /\ ~Skips(Head(todo)) /\ Head(todo).ok
    /\ k' = Overlay(k, Head(todo).set)
    /\ todo' = Tail(todo)
    /\ UNCHANGED <<input, main, paths, built, code>>

\* A file that does not parse ends the walk: of the working directory with a
\* warning, of a -config path with exit status 1.
BrokenFile ==
    /\ main \in {"cwd", "dir"} /\ todo # <<>>
    /\ ~Skips(Head(todo)) /\ ~Head(todo).ok
    /\ todo' = <<>>
    /\ IF main = "cwd" THEN main' = "paths" /\ UNCHANGED code ELSE Exit(1)
    /\ UNCHANGED <<input, k, paths, built>>

DirRead ==
    /\ main \in {"cwd", "dir"} /\ todo = <<>>
    /\ main' = "paths"
    /\ UNCHANGED <<input, k, todo, paths, built, code>>

\* The next -config path; one that does not exist is fatal. A file is read like
\* a directory that holds only it.
NextPath ==
    /\ main = "paths" /\ paths # <<>>
    /\ IF Head(paths).kind = "missing"
       THEN Exit(1) /\ UNCHANGED <<todo, paths>>
       ELSE /\ main' = "dir" /\ todo' = Head(paths).entries /\ paths' = Tail(paths)
            /\ UNCHANGED code
    /\ UNCHANGED <<input, k, built>>

PathsRead ==
    /\ main = "paths" /\ paths = <<>>
    /\ main' = "env"
    /\ UNCHANGED <<input, k, todo, paths, built, code>>

LoadEnvVars ==
    /\ main = "env"
    /\ main' = "flags" /\ k' = Overlay(k, input.env)
    /\ UNCHANGED <<input, todo, paths, built, code>>

\* flag.Parse leaves with status 2 on an argument it does not know.
FlagsRefused ==
    /\ main = "flags" /\ input.args = "unknown"
    /\ Exit(2)
    /\ UNCHANGED <<input, k, todo, paths, built>>

\* Mutant: every flag overrides, given or not.
LoadFlags_Defaults ==
    /\ main = "flags" /\ input.args # "unknown"
    /\ main' = "check" /\ k' = Overlay(DefaultConfig, input.flags)
    /\ UNCHANGED <<input, todo, paths, built, code>>

LoadFlags ==
    /\ main = "flags" /\ input.args # "unknown"
    /\ main' = "check" /\ k' = Overlay(k, input.flags)
    /\ UNCHANGED <<input, todo, paths, built, code>>

----------------------------------------------------------------------------
(* Validation *)

\* No remote.addr, no -config and no flag: print the usage.
Bare == k["remote_addr"] = "" /\ input.paths = <<>> /\ DOMAIN input.flags = {}

Usage ==
    /\ main = "check" /\ Bare
    /\ Exit(0)
    /\ UNCHANGED <<input, k, todo, paths, built>>

Refuse ==
    /\ main = "check" /\ ~Bare /\ ~ValidateConfig(k)
    /\ Exit(1)
    /\ UNCHANGED <<input, k, todo, paths, built>>

\* With -validate the program stops here.
Accept ==
    /\ main = "check" /\ ~Bare /\ ValidateConfig(k)
    /\ k' = Normalized(k)
    /\ IF On(k["validate"]) THEN Exit(0) ELSE main' = "logging" /\ UNCHANGED code
    /\ UNCHANGED <<input, todo, paths, built>>

----------------------------------------------------------------------------
(* From the configuration to serving *)

LevelOf(l) ==
    CASE l = "debug" -> "debug" [] l = "warning" -> "warn" [] l = "error" -> "error"
      [] OTHER -> "info"

\* logging.Configure: no syslog is fatal, no log file falls back to stdout.
ConfigureLogging ==
    /\ main = "logging"
    /\ level' = LevelOf(k["log_level"])
    /\ \/ main' = "metrics" /\ UNCHANGED code
       \/ k["log_destination"] = "syslog" /\ Exit(1)
    /\ UNCHANGED <<input, k, todo, paths, listener, remote, header, conn>>

\* metrics.Init and StartServer, whose listener may fail to bind
StartMetrics ==
    /\ main = "metrics"
    /\ \/ main' = "listen" /\ UNCHANGED code
       \/ On(k["metrics_enable"]) /\ Exit(1)
    /\ UNCHANGED <<input, k, todo, paths, built>>

\* The listening socket; the address may be in use.
Listen ==
    /\ main = "listen"
    /\ \/ k["server_addr"] = "valid" /\ main' = "server" /\ UNCHANGED code
       \/ Exit(1)
    /\ UNCHANGED <<input, k, todo, paths, built>>

\* Every step that builds something leaves with status 1 if that fails.
Goes(next, ok) == IF ok THEN main' = next /\ UNCHANGED code ELSE Exit(1)

ConfigServer ==
    /\ main = "server"
    /\ listener' = GetServerConfig(k)
    /\ Goes("remote", listener'.kind # "error")
    /\ UNCHANGED <<input, k, todo, paths, level, remote, header, conn>>

BuildRemote(sys) ==
    /\ main = "remote"
    /\ remote' = ConfigRemote(k, sys)
    /\ Goes("dispatch", remote'.kind # "error")
    /\ UNCHANGED <<input, k, todo, paths, level, listener, header, conn>>

\* switch k.String("server.type"), after the watcher of certificate files, which
\* may fail to start.
Dispatch(watch) ==
    /\ main = "dispatch"
    /\ watch \/ (listener.cert = "store" /\ On(k["server_tls_autoreload"]))
    /\ Goes("serve", watch /\ k["server_type"] \in {"tcp", "http", "https"})
    /\ UNCHANGED <<input, k, todo, paths, built>>

\* How the backend is dialled. In TCP mode a non-nil remote TLS configuration
\* decides; in HTTP mode the scheme of remote.addr does, and the configuration
\* only says how TLS is done if it is (nil stands for the defaults). An address
\* the mode cannot dial fails on every connection.
Dial ==
    IF k["server_type"] = "tcp"
    THEN IF k["remote_addr"] # "hostport" THEN "fails"
         ELSE IF remote.kind = "tls" THEN "tls" ELSE "plain"
    ELSE IF k["remote_addr"] = "https" THEN "tls"
         ELSE IF k["remote_addr"] = "http" THEN "plain" ELSE "fails"

\* A connection in TCP mode, from src to the local address dst
Connect(src, dst) ==
    /\ main = "serve" /\ k["server_type"] = "tcp" /\ Dial # "fails"
    /\ main' = "connected" /\ conn' = <<src, dst>>
    /\ header' = ProxyHeader(k["remote_proxyprotocol"], src, dst)
    /\ UNCHANGED <<input, k, todo, paths, level, listener, remote, code>>

Next ==
    \/ PrintVersion \/ ReadCwd \/ SkipFile \/ LoadFile \/ BrokenFile \/ DirRead
    \/ NextPath \/ PathsRead \/ LoadEnvVars \/ FlagsRefused \/ LoadFlags
    \/ Usage \/ Refuse \/ Accept
    \/ ConfigureLogging \/ StartMetrics \/ Listen \/ ConfigServer
    \/ \E sys \in BOOLEAN : BuildRemote(sys)
    \/ \E watch \in BOOLEAN : Dispatch(watch)
    \/ \E src, dst \in Addrs : Connect(src, dst)

Spec == Init /\ [][Next]_vars

----------------------------------------------------------------------------
(* Properties *)

\* The files that count in environment e, as <<0, j>> for file j of the working
\* directory and <<i, j>> for file j of -config path i: YAML, marked if found by
\* itself, and with no broken one before it.
Dir(e, i) == IF i = 0 THEN e.cwd ELSE e.paths[i]
Counts(i, f) == f.yaml /\ (i = 0 => f.marker)
Sources(e) ==
    {p \in UNION {{i} \X DOMAIN Dir(e, i).entries : i \in 0..Len(e.paths)} :
        /\ Dir(e, p[1]).kind # "missing"
        /\ Counts(p[1], Dir(e, p[1]).entries[p[2]])
        /\ \A h \in 1..p[2] :
              Counts(p[1], Dir(e, p[1]).entries[h]) => Dir(e, p[1]).entries[h].ok}
Sets(e, p) == Dir(e, p[1]).entries[p[2]].set
Later(p, q) == p[1] > q[1] \/ (p[1] = q[1] /\ p[2] > q[2])

Effective(e, key) ==
    LET S == {p \in Sources(e) : key \in DOMAIN Sets(e, p)} IN
    IF key \in DOMAIN e.flags THEN e.flags[key]
    ELSE IF key \in DOMAIN e.env THEN e.env[key]
    ELSE IF S # {} THEN Sets(e, CHOOSE p \in S : \A q \in S : p = q \/ Later(p, q))[key]
    ELSE DefaultConfig[key]

\* What is validated is, for each key, the value of the last layer that sets it
\* (defaults, working directory, -config in order, environment, flags), where
\* the files are the YAML files the code reads: marked ones of the working
\* directory up to the first that does not parse, all of a -config path. So says
\* the comment of loadConfigsFromDir; README.md:51, which asks for the marker in a
\* -config directory too, is not what the code does. Every path of -config is there
\* and every YAML file of it parsed; a file of another kind is skipped without a
\* word (loadConfigFile).
ConfigAsLayered ==
    main = "check" =>
       /\ \A key \in Keys : k[key] = Effective(input, key)
       /\ \A i \in DOMAIN input.paths :
             /\ input.paths[i].kind # "missing"
             /\ \A j \in DOMAIN input.paths[i].entries :
                   input.paths[i].entries[j].yaml => input.paths[i].entries[j].ok

Serving == main \in {"serve", "connected"}

TLSAsked ==
    \/ k["server_type"] = "https" \/ On(k["server_tls_letsencrypt_enable"])
    \/ k["server_tls_cert"] # "" \/ k["server_tls_key"] # ""

\* TLS that was asked for, however the files behind it turn out, is not replaced
\* by plaintext: not towards clients (https implies a certificate, a certificate
\* that does not load is fatal), and in TCP mode not towards the backend. In HTTP
\* mode remote.tls.enable promises nothing: the scheme of remote.addr decides
\* (Dial), although README.md:185 says that backend connections use TLS unless it
\* is off. And in both modes a TLS side told to verify its peer does, whatever
\* the other settings are.
TLSKept ==
    Serving =>
       /\ TLSAsked => listener.kind = "tls"
       /\ k["server_type"] = "tcp" /\ On(k["remote_tls_enable"]) => Dial # "plain"
       /\ listener.kind = "tls" /\ On(k["server_tls_verify"]) => listener.auth = "verify"
       /\ Dial = "tls" /\ On(k["remote_tls_verify"]) => ~remote.insecure

\* The header tells the backend the endpoints of the connection, in both
\* versions, or that they are unknown; the v2 length is the size of what
\* follows it.
HeaderTrue ==
    main = "connected" /\ header.proto # "UNKNOWN" =>
       /\ header.src = End(conn[1], conn[1].port)
       /\ header.dst = End(conn[2], conn[2].port)
       /\ \A i \in 1..2 : To4(conn[i]) = (header.proto = "TCP4")
       /\ header.version = "v2" =>
             header.len = header.sizes[1] + header.sizes[2] + header.sizes[3] + header.sizes[4]
=============================================================================
