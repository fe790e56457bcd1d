--------------------------- MODULE StartupProofs ---------------------------
(***************************************************************************)
(* Proofs about Startup for every environment of the process: whatever the *)
(* files, variables and flags hold, the configuration is what its layers   *)
(* say; when the proxy serves, the TLS asked for is there towards clients  *)
(* and in TCP mode towards the backend, and so is the verification.        *)
(***************************************************************************)
EXTENDS Startup, SequenceTheorems, TLAPS

\* The stages behind validation, behind ConfigServer and behind ConfigRemote
Stage3 == {"dispatch", "serve", "connected"}
Stage2 == Stage3 \cup {"remote"}
Stage1 == Stage2 \cup {"logging", "metrics", "listen", "server"}

IsConfig(c) == c = [key \in Keys |-> c[key]]

\* What validation has established, and what was built from it.
Checked == main \in Stage1 => ServerTLSValid(k)
ListenerBuilt == main \in Stage2 => listener = GetServerConfig(k) /\ listener.kind # "error"
RemoteBuilt ==
    main \in Stage3 => /\ \E sys \in BOOLEAN : remote = ConfigRemote(k, sys)
                       /\ remote.kind # "error"

HeaderBuilt ==
    main = "connected" =>
       \E src, dst \in Addrs :
          /\ conn = <<src, dst>>
          /\ header = ProxyHeader(k["remote_proxyprotocol"], src, dst)

Inv == IsConfig(k) /\ Checked /\ ListenerBuilt /\ RemoteBuilt /\ HeaderBuilt

----------------------------------------------------------------------------
(* The functions of Config *)

\* Normalising the log level changes no other key.
LEMMA NormalizedKeeps ==
    ASSUME NEW c, IsConfig(c)
    PROVE  /\ IsConfig(Normalized(c))
           /\ \A key \in Keys \ {"log_level"} : Normalized(c)[key] = c[key]
BY DEF IsConfig, Normalized

\* The keys TLS is validated on are keys, and none is the log level.
LEMMA TLSKeys ==
    {"server_type", "server_tls_cert", "server_tls_key", "server_tls_letsencrypt_enable",
     "server_tls_letsencrypt_domain"} \subseteq Keys \ {"log_level"}
BY DEF Keys, DefaultConfig

\* Normalisation does not touch what TLS was validated on.
LEMMA NormalizedValid ==
    ASSUME NEW c, IsConfig(c), ServerTLSValid(c)
    PROVE  ServerTLSValid(Normalized(c))
BY NormalizedKeeps, TLSKeys DEF ServerTLSValid, ServerType, On

\* A listener for which TLS was asked and that was built without an error has
\* it, and verifies its clients if told to.
LEMMA ServerKeeps ==
    ASSUME NEW c, GetServerConfig(c).kind # "error"
    PROVE  /\ On(c["server_tls_letsencrypt_enable"]) \/ c["server_tls_cert"] # ""
                 \/ c["server_tls_key"] # "" => GetServerConfig(c).kind = "tls"
           /\ GetServerConfig(c).kind = "tls" /\ On(c["server_tls_verify"])
                 => GetServerConfig(c).auth = "verify"
BY DEF GetServerConfig, TLSConfig, NoTLS, TLSError, NotTLS, ClientAuth

\* The same towards the backend.
LEMMA RemoteKeeps ==
    ASSUME NEW c, NEW sys \in BOOLEAN, ConfigRemote(c, sys).kind # "error"
    PROVE  /\ On(c["remote_tls_enable"]) => ConfigRemote(c, sys).kind = "tls"
           /\ On(c["remote_tls_verify"]) => ~ConfigRemote(c, sys).insecure
BY DEF ConfigRemote, TLSConfig, NoTLS, TLSError, NotTLS

----------------------------------------------------------------------------
\* What a header tells, for each version
LEMMA HeaderV1 ==
    ASSUME NEW src \in Addrs, NEW dst \in Addrs, NEW h, h = proxyHeaderV1(src, dst),
           h.proto # "UNKNOWN"
    PROVE  /\ h.src = End(src, src.port) /\ h.dst = End(dst, dst.port)
           /\ To4(src) = (h.proto = "TCP4") /\ To4(dst) = (h.proto = "TCP4")
           /\ h.version # "v2"
BY DEF proxyHeaderV1, Header, Unknown, Proto, End, To4

\* A port survives the conversion to uint16.
LEMMA PortFits ==
    ASSUME NEW a \in Addrs
    PROVE  a.port % Uint16 = a.port
<1> DEFINE p == a.port
<1>1. p \in Nat /\ p < 65536
    BY AddrsAssumption DEF Uint16
<1> HIDE DEF p
<1>2. p % 65536 = p
    BY <1>1
<1> QED
    BY <1>2 DEF p, Uint16

\* The binary header, whose ports are uint16.
LEMMA HeaderV2 ==
    ASSUME NEW src \in Addrs, NEW dst \in Addrs, NEW h, h = proxyHeaderV2(src, dst),
           h.proto # "UNKNOWN"
    PROVE  /\ h.src = End(src, src.port) /\ h.dst = End(dst, dst.port)
           /\ To4(src) = (h.proto = "TCP4") /\ To4(dst) = (h.proto = "TCP4")
           /\ h.len = h.sizes[1] + h.sizes[2] + h.sizes[3] + h.sizes[4]
<1>1. src.port % Uint16 = src.port /\ dst.port % Uint16 = dst.port
    BY PortFits
<1> QED
    BY <1>1 DEF proxyHeaderV2, Header, Unknown, Proto, End, To4

----------------------------------------------------------------------------
\* The process starts with the defaults and nothing built.
LEMMA InitInv == Init => Inv
BY DEF Init, Inv, IsConfig, Checked, ListenerBuilt, RemoteBuilt, HeaderBuilt, Stage1, Stage2, Stage3,
       Keys, DefaultConfig

\* Every step keeps what earlier steps established.
LEMMA Step == Inv /\ [Next]_vars => Inv'
<1> SUFFICES ASSUME Inv, [Next]_vars PROVE Inv'
    OBVIOUS
<1> USE DEF Stage1, Stage2, Stage3
<1>1. CASE main' \notin Stage1 /\ k' \in {k, Overlay(k, Head(todo).set), Overlay(k, input.env),
                                           Overlay(k, input.flags), Normalized(k)}
    BY <1>1, NormalizedKeeps DEF Inv, IsConfig, Checked, ListenerBuilt, RemoteBuilt, HeaderBuilt, Overlay
<1>2. CASE PrintVersion \/ ReadCwd \/ SkipFile \/ LoadFile \/ BrokenFile \/ DirRead
           \/ NextPath \/ PathsRead \/ LoadEnvVars \/ FlagsRefused \/ LoadFlags
           \/ Usage \/ Refuse
    BY <1>1, <1>2 DEF PrintVersion, ReadCwd, SkipFile, LoadFile, BrokenFile, DirRead,
       NextPath, PathsRead, LoadEnvVars, FlagsRefused, LoadFlags, Usage, Refuse, Exit
<1>3. CASE Accept
  <2>1. k' = Normalized(k) /\ main' \in {"exit", "logging"}
    BY <1>3 DEF Accept, Exit
  <2>2. ServerTLSValid(k)
    BY <1>3 DEF Accept, ValidateConfig
  <2>3. IsConfig(k') /\ ServerTLSValid(k')
    BY <2>1, <2>2, NormalizedKeeps, NormalizedValid DEF Inv
  <2> QED
    BY <2>1, <2>3 DEF Inv, Checked, ListenerBuilt, RemoteBuilt, HeaderBuilt
<1>4. CASE ConfigureLogging \/ StartMetrics \/ Listen
  <2>1. /\ main \in Stage1 /\ UNCHANGED k
        /\ main' \in {"metrics", "listen", "server", "exit"}
    BY <1>4 DEF ConfigureLogging, StartMetrics, Listen, Exit
  <2> QED
    BY <2>1 DEF Inv, Checked, ListenerBuilt, RemoteBuilt, HeaderBuilt
<1>5. CASE ConfigServer
  <2>1. /\ main \in Stage1 /\ UNCHANGED k /\ listener' = GetServerConfig(k)
        /\ main' \in {"remote", "exit"} /\ (main' = "remote" => listener'.kind # "error")
    BY <1>5 DEF ConfigServer, Goes, Exit
  <2> QED
    BY <2>1 DEF Inv, Checked, ListenerBuilt, RemoteBuilt, HeaderBuilt
<1>6. CASE \E sys \in BOOLEAN : BuildRemote(sys)
  <2>1. PICK sys \in BOOLEAN : BuildRemote(sys)
    BY <1>6
  <2>2. /\ main \in Stage2 /\ UNCHANGED <<k, listener>> /\ remote' = ConfigRemote(k, sys)
        /\ main' \in {"dispatch", "exit"} /\ (main' = "dispatch" => remote'.kind # "error")
    BY <2>1 DEF BuildRemote, Goes, Exit
  <2> QED
    BY <2>2 DEF Inv, Checked, ListenerBuilt, RemoteBuilt, HeaderBuilt
<1>7. CASE \E watch \in BOOLEAN : Dispatch(watch)
  <2>1. /\ main \in Stage3 /\ UNCHANGED <<k, listener, remote>>
        /\ main' \in {"serve", "exit"}
    BY <1>7 DEF Dispatch, Goes, Exit, built
  <2> QED
    BY <2>1 DEF Inv, Checked, ListenerBuilt, RemoteBuilt, HeaderBuilt
<1>9. CASE \E src, dst \in Addrs : Connect(src, dst)
  <2>1. PICK src \in Addrs, dst \in Addrs : Connect(src, dst)
    BY <1>9
  <2>2. /\ main \in Stage3 /\ UNCHANGED <<k, listener, remote>> /\ main' = "connected"
        /\ conn' = <<src, dst>>
        /\ header' = ProxyHeader(k["remote_proxyprotocol"], src, dst)
    BY <2>1 DEF Connect
  <2>3. HeaderBuilt'
    BY <2>2 DEF HeaderBuilt
  <2> QED
    BY <2>2, <2>3 DEF Inv, Checked, ListenerBuilt, RemoteBuilt
<1>8. CASE UNCHANGED vars
    BY <1>8 DEF vars, Inv, Checked, ListenerBuilt, RemoteBuilt, HeaderBuilt
<1> QED
    BY <1>2, <1>3, <1>4, <1>5, <1>6, <1>7, <1>8, <1>9 DEF Next

\* The inductive invariant: a configuration that reached a stage passed the
\* checks before it, and what was built was built from that configuration.
THEOREM Invariance == Spec => []Inv
BY InitInv, Step, PTL DEF Spec

\* Between the layers of the configuration and the serving proxy, TLS that was
\* asked for is not lost towards clients, nor in TCP mode towards the backend,
\* and verification is lost on neither side and in neither mode. It says nothing
\* of an HTTP backend whose URL says http, which is dialled in plaintext.
THEOREM TLSNeverLost == Spec => []TLSKept
<1>1. Inv => TLSKept
  <2> SUFFICES ASSUME Inv, Serving PROVE TLSKept
    BY DEF TLSKept
  <2>1. /\ main \in Stage1 /\ main \in Stage2 /\ main \in Stage3
    BY DEF Serving, Stage1, Stage2, Stage3
  <2>2. ServerTLSValid(k) /\ listener = GetServerConfig(k) /\ listener.kind # "error"
    BY <2>1 DEF Inv, Checked, ListenerBuilt
  <2>3. PICK sys \in BOOLEAN : remote = ConfigRemote(k, sys) /\ remote.kind # "error"
    BY <2>1 DEF Inv, RemoteBuilt
  <2>4. TLSAsked => On(k["server_tls_letsencrypt_enable"]) \/ k["server_tls_cert"] # ""
                       \/ k["server_tls_key"] # ""
    BY <2>2 DEF TLSAsked, ServerTLSValid, ServerType
  <2> QED
    BY <2>2, <2>3, <2>4, ServerKeeps, RemoteKeeps DEF TLSKept, Dial
<1> QED
    BY <1>1, Invariance, PTL

\* The PROXY protocol header names the endpoints of the connection, for every
\* two addresses and in both versions, and declares the size it has.
THEOREM HeaderCorrect == Spec => []HeaderTrue
<1>1. Inv => HeaderTrue
  <2> SUFFICES ASSUME Inv, main = "connected", header.proto # "UNKNOWN" PROVE HeaderTrue
    BY DEF HeaderTrue
  <2>1. PICK src \in Addrs, dst \in Addrs :
           /\ conn = <<src, dst>>
           /\ header = ProxyHeader(k["remote_proxyprotocol"], src, dst)
    BY DEF Inv, HeaderBuilt
  <2>2. conn[1] = src /\ conn[2] = dst
    BY <2>1
  <2>3. header = proxyHeaderV1(src, dst) \/ header = proxyHeaderV2(src, dst)
    BY <2>1 DEF ProxyHeader, NoHeader, Unknown, Header
  <2> QED
    BY <2>2, <2>3, HeaderV1, HeaderV2 DEF HeaderTrue
<1> QED
    BY <1>1, Invariance, PTL

\* What becomes of the CA that is configured for a backend that is verified:
\* it is used, and then alone, just when there is a client certificate and
\* sysroots is off.
CAFate ==
    Serving /\ remote.kind = "tls" /\ ~remote.insecure /\ k["remote_tls_ca"] # "" =>
       /\ "ca" \in remote.roots <=> ClientCert(k) /\ ~On(k["remote_tls_sysroots"])
       /\ "ca" \in remote.roots => remote.roots = {"ca"}

\* ConfigRemote drops remote.tls.ca in every other configuration, although
\* README.md:187 has it used whenever it is set, and alone with sysroots off.
THEOREM CADropped == Spec => []CAFate
<1>1. Inv => CAFate
  <2> SUFFICES ASSUME Inv, Serving, remote.kind = "tls", ~remote.insecure,
                      k["remote_tls_ca"] # ""
               PROVE  /\ "ca" \in remote.roots <=> ClientCert(k) /\ ~On(k["remote_tls_sysroots"])
                      /\ "ca" \in remote.roots => remote.roots = {"ca"}
    BY DEF CAFate
  <2>1. PICK sys \in BOOLEAN : remote = ConfigRemote(k, sys)
    BY DEF Inv, RemoteBuilt, Serving, Stage3
  <2>2. /\ remote.roots = RemoteRoots(k)
        /\ remote.insecure = ~On(k["remote_tls_verify"])
    BY <2>1 DEF ConfigRemote, TLSConfig, TLSError, NoTLS, NotTLS
  <2>3. On(k["remote_tls_verify"])
    BY <2>2
  <2> QED
    BY <2>2, <2>3 DEF RemoteRoots
<1> QED
    BY <1>1, Invariance, PTL

----------------------------------------------------------------------------
(***************************************************************************)
(* The layers of the configuration.                                        *)
(*                                                                         *)
(* ConfigAsLayered speaks of the end of GetConfig. The invariant that      *)
(* leads there says where the reading is (Position), and that k holds, for *)
(* each key, the value of the latest file among those read (Layered).      *)
(***************************************************************************)

\* t is what is left of s.
Rest(t, s) ==
    /\ t \in Seq({s[i] : i \in DOMAIN s}) /\ Len(t) <= Len(s)
    /\ \A h \in 1..Len(t) : t[h] = s[Len(s) - Len(t) + h]

Reading == main \in {"cwd", "dir"}
Layers == {"start", "cwd", "dir", "paths", "env", "flags", "check"}

\* The -config paths begun, and the files of the last one that are behind.
Begun == Len(input.paths) - Len(paths)
Entries == Dir(input, Begun).entries
Done == Len(Entries) - Len(todo)

\* paths and todo are what is left to read, and no file that counts among those
\* behind in the directory at hand is broken.
Position ==
    /\ input \in Inputs
    /\ Rest(paths, input.paths)
    /\ main \in {"start", "cwd"} => Begun = 0
    /\ main = "dir" => Begun > 0
    /\ main \in {"env", "flags", "check"} => Begun = Len(input.paths)
    /\ Reading => /\ Rest(todo, Entries)
                  /\ todo # <<>> => Dir(input, Begun).kind # "missing"
                  /\ Dir(input, Begun).kind # "missing" =>
                        \A h \in 1..Done : Counts(Begun, Entries[h]) => Entries[h].ok

\* A -config path that was read is there, and every YAML file of it parsed.
PathRead(i) ==
    /\ input.paths[i].kind # "missing"
    /\ \A j \in DOMAIN input.paths[i].entries :
          input.paths[i].entries[j].yaml => input.paths[i].entries[j].ok
PathsClean ==
    main \in Layers => \A i \in 1..Begun : (main = "dir" => i < Begun) => PathRead(i)
DirThere == main = "dir" => Dir(input, Begun).kind # "missing"

\* The files that count and have been loaded.
Past(p) ==
    IF main = "start" THEN FALSE
    ELSE IF Reading THEN p[1] < Begun \/ (p[1] = Begun /\ p[2] <= Done)
    ELSE p[1] <= Begun
Applied == {p \in Sources(input) : Past(p)}

\* Of the files in A that set key, p is the latest.
Latest(e, key, p, A) ==
    /\ p \in A /\ key \in DOMAIN Sets(e, p)
    /\ \A q \in A : key \in DOMAIN Sets(e, q) => p = q \/ Later(p, q)

\* The value of a key is the one of the latest file that sets it, or the default.
FromFiles(e, key, v, A) ==
    \/ v = DefaultConfig[key] /\ \A p \in A : key \notin DOMAIN Sets(e, p)
    \/ \E p \in A : Latest(e, key, p, A) /\ v = Sets(e, p)[key]

\* What k holds, layer by layer: files, then the environment, then flags.
Layered ==
    /\ main \in {"start", "cwd", "dir", "paths", "env"} =>
          \A key \in Keys : FromFiles(input, key, k[key], Applied)
    /\ main = "flags" =>
          \A key \in Keys : IF key \in DOMAIN input.env THEN k[key] = input.env[key]
                            ELSE FromFiles(input, key, k[key], Applied)
    /\ main = "check" =>
          \A key \in Keys : IF key \in DOMAIN input.flags THEN k[key] = input.flags[key]
                            ELSE IF key \in DOMAIN input.env THEN k[key] = input.env[key]
                            ELSE FromFiles(input, key, k[key], Applied)

LayerInv == main \in Layers => Position /\ PathsClean /\ DirThere /\ Layered

----------------------------------------------------------------------------
(* What is left of a sequence *)

\* All of a sequence is left at first ...
LEMMA RestAll == ASSUME NEW s, IsSequence(s) PROVE Rest(s, s) /\ Len(s) \in Nat
<1>1. Len(s) \in Nat
  BY LenProperties DEF IsSequence
<1> QED
  BY <1>1 DEF Rest, IsSequence

\* ... and nothing at the end; ...
LEMMA RestNone ==
    ASSUME NEW s, IsSequence(s) PROVE Rest(<<>>, s)
<1>1. Len(s) \in Nat
  BY LenProperties DEF IsSequence
<1> QED
  BY <1>1 DEF Rest

\* ... in between its head is the next element.
LEMMA RestTail ==
    ASSUME NEW s, IsSequence(s), NEW t, Rest(t, s)
    PROVE  /\ Len(t) \in Nat /\ Len(s) \in Nat /\ Len(t) <= Len(s)
           /\ DOMAIN s = 1..Len(s)
           /\ t = <<>> <=> Len(t) = 0
           /\ t # <<>> => /\ Rest(Tail(t), s) /\ Len(Tail(t)) = Len(t) - 1
                          /\ Head(t) = s[Len(s) - Len(t) + 1]
<1> DEFINE S == {s[i] : i \in DOMAIN s}
<1>1. t \in Seq(S) /\ s \in Seq(S) /\ Len(t) <= Len(s)
  BY DEF Rest, IsSequence
<1> HIDE DEF S
<1>2. Len(t) \in Nat /\ Len(s) \in Nat /\ DOMAIN s = 1..Len(s)
  BY <1>1, LenProperties
<1>3. t = <<>> <=> Len(t) = 0
  BY <1>1, EmptySeq
<1>4. ASSUME t # <<>>
      PROVE  /\ Rest(Tail(t), s) /\ Len(Tail(t)) = Len(t) - 1
             /\ Head(t) = s[Len(s) - Len(t) + 1]
  <2>1. /\ Tail(t) \in Seq(S) /\ Len(Tail(t)) = Len(t) - 1
        /\ \A h \in 1..Len(Tail(t)) : Tail(t)[h] = t[h + 1]
    BY <1>1, <1>4, HeadTailProperties
  <2>2. \A h \in 1..Len(t) : t[h] = s[Len(s) - Len(t) + h]
    BY DEF Rest
  <2>3. Head(t) = s[Len(s) - Len(t) + 1]
    <3>1. Head(t) = t[1] /\ 1 \in 1..Len(t)
      BY <1>1, <1>2, <1>3, <1>4
    <3> QED
      BY <2>2, <3>1
  <2>4. ASSUME NEW h \in 1..Len(Tail(t))
        PROVE  Tail(t)[h] = s[Len(s) - Len(Tail(t)) + h]
    <3>1. h + 1 \in 1..Len(t) /\ h \in Int
      BY <1>2, <2>1
    <3>2. Tail(t)[h] = s[Len(s) - Len(t) + (h + 1)]
      BY <2>1, <2>2, <3>1
    <3>3. Len(s) - Len(t) + (h + 1) = Len(s) - Len(Tail(t)) + h
      BY <1>2, <2>1, <3>1
    <3> QED
      BY <3>2, <3>3
  <2>5. Len(Tail(t)) <= Len(s)
    BY <1>1, <1>2, <2>1
  <2>6. Rest(Tail(t), s)
    BY <2>1, <2>4, <2>5 DEF Rest, S
  <2> QED
    BY <2>1, <2>3, <2>6
<1> QED
  BY <1>1, <1>2, <1>3, <1>4

----------------------------------------------------------------------------
(* The files that count *)

\* What InputsAssumption says of an environment, by directory.
LEMMA InputSequences ==
    ASSUME NEW e \in Inputs
    PROVE  /\ IsSequence(e.paths) /\ Len(e.paths) \in Nat
           /\ DOMAIN e.paths = 1..Len(e.paths)
           /\ \A i \in 0..Len(e.paths) :
                 /\ IsSequence(Dir(e, i).entries) /\ Len(Dir(e, i).entries) \in Nat
                 /\ DOMAIN Dir(e, i).entries = 1..Len(Dir(e, i).entries)
           /\ e.cwd.kind \in {"dir", "missing"}
<1>1. /\ IsSequence(e.paths) /\ IsSequence(e.cwd.entries)
      /\ \A i \in DOMAIN e.paths : IsSequence(e.paths[i].entries)
      /\ e.cwd.kind \in {"dir", "missing"}
  BY InputsAssumption
<1>2. ASSUME NEW s, IsSequence(s) PROVE Len(s) \in Nat /\ DOMAIN s = 1..Len(s)
  BY <1>2, LenProperties DEF IsSequence
<1>3. Len(e.paths) \in Nat /\ DOMAIN e.paths = 1..Len(e.paths)
  BY <1>1, <1>2
<1>4. ASSUME NEW i \in 0..Len(e.paths)
      PROVE  IsSequence(Dir(e, i).entries)
  <2>1. CASE i = 0
    BY <1>1, <2>1 DEF Dir
  <2>2. CASE i # 0
    <3>1. i \in DOMAIN e.paths
      BY <1>3, <2>2
    <3> QED
      BY <1>1, <2>2, <3>1 DEF Dir
  <2> QED
    BY <2>1, <2>2
<1>5. \A i \in 0..Len(e.paths) :
         /\ IsSequence(Dir(e, i).entries) /\ Len(Dir(e, i).entries) \in Nat
         /\ DOMAIN Dir(e, i).entries = 1..Len(Dir(e, i).entries)
  BY <1>2, <1>4
<1> QED
  BY <1>1, <1>3, <1>5

IsSource(e, i, j) ==
    /\ i \in 0..Len(e.paths) /\ j \in 1..Len(Dir(e, i).entries)
    /\ Dir(e, i).kind # "missing" /\ Counts(i, Dir(e, i).entries[j])
    /\ \A h \in 1..j : Counts(i, Dir(e, i).entries[h]) => Dir(e, i).entries[h].ok

\* Sources, element by element.
LEMMA SourceIs ==
    ASSUME NEW e \in Inputs
    PROVE  /\ \A i, j : <<i, j>> \in Sources(e) <=> IsSource(e, i, j)
           /\ \A p \in Sources(e) : p = <<p[1], p[2]>>
<1> DEFINE N == Len(e.paths)
           All == UNION {{i} \X DOMAIN Dir(e, i).entries : i \in 0..N}
<1>1. ASSUME NEW i, NEW j
      PROVE  <<i, j>> \in All <=> i \in 0..N /\ j \in DOMAIN Dir(e, i).entries
  OBVIOUS
<1>2. ASSUME NEW p \in All PROVE p = <<p[1], p[2]>>
  <2>1. PICK i \in 0..N : p \in {i} \X DOMAIN Dir(e, i).entries
    OBVIOUS
  <2> QED
    BY <2>1
<1>3. \A i \in 0..N : DOMAIN Dir(e, i).entries = 1..Len(Dir(e, i).entries)
  BY InputSequences
<1>4. Sources(e) = {p \in All : /\ Dir(e, p[1]).kind # "missing"
                             /\ Counts(p[1], Dir(e, p[1]).entries[p[2]])
                             /\ \A h \in 1..p[2] :
                                  Counts(p[1], Dir(e, p[1]).entries[h]) => Dir(e, p[1]).entries[h].ok}
  BY DEF Sources
<1> HIDE DEF All
<1>5. ASSUME NEW i, NEW j
      PROVE  <<i, j>> \in Sources(e) <=> IsSource(e, i, j)
  <2>1. <<i, j>>[1] = i /\ <<i, j>>[2] = j
    OBVIOUS
  <2> QED
    BY <1>1, <1>3, <1>4, <2>1 DEF IsSource
<1> QED
  BY <1>2, <1>4, <1>5

----------------------------------------------------------------------------
(* The latest file wins *)

\* Loading one more file, later than all before it, keeps the latest one.
LEMMA FromAdd ==
    ASSUME NEW e, NEW key, NEW v, NEW A, NEW p, FromFiles(e, key, v, A),
           \A q \in A : Later(p, q)
    PROVE  FromFiles(e, key, IF key \in DOMAIN Sets(e, p) THEN Sets(e, p)[key] ELSE v,
                     A \cup {p})
<1>1. CASE key \in DOMAIN Sets(e, p)
  <2>1. Latest(e, key, p, A \cup {p})
    BY <1>1 DEF Latest
  <2> QED
    BY <1>1, <2>1 DEF FromFiles
<1>2. CASE key \notin DOMAIN Sets(e, p)
  <2>1. CASE v = DefaultConfig[key] /\ \A q \in A : key \notin DOMAIN Sets(e, q)
    BY <1>2, <2>1 DEF FromFiles
  <2>2. CASE \E q \in A : Latest(e, key, q, A) /\ v = Sets(e, q)[key]
    <3>1. PICK q \in A : Latest(e, key, q, A) /\ v = Sets(e, q)[key]
      BY <2>2
    <3>2. Latest(e, key, q, A \cup {p})
      BY <1>2, <3>1 DEF Latest
    <3> QED
      BY <1>2, <3>1, <3>2 DEF FromFiles
  <2> QED
    BY <2>1, <2>2 DEF FromFiles
<1> QED
  BY <1>1, <1>2

\* When all files that count have been loaded, that is what Effective chooses.
LEMMA FromAll ==
    ASSUME NEW e \in Inputs, NEW key, NEW v, FromFiles(e, key, v, Sources(e)),
           key \notin DOMAIN e.flags, key \notin DOMAIN e.env
    PROVE  v = Effective(e, key)
<1> DEFINE S == {p \in Sources(e) : key \in DOMAIN Sets(e, p)}
           Wins(p) == \A q \in S : p = q \/ Later(p, q)
<1>1. CASE v = DefaultConfig[key] /\ \A p \in Sources(e) : key \notin DOMAIN Sets(e, p)
  <2>1. S = {}
    BY <1>1
  <2> QED
    BY <1>1, <2>1 DEF Effective
<1>2. CASE \E p \in Sources(e) : Latest(e, key, p, Sources(e)) /\ v = Sets(e, p)[key]
  <2>1. PICK p \in Sources(e) : Latest(e, key, p, Sources(e)) /\ v = Sets(e, p)[key]
    BY <1>2
  <2>2. p \in S /\ Wins(p)
    BY <2>1 DEF Latest
  <2>3. ASSUME NEW q \in S PROVE q[1] \in Int /\ q[2] \in Int
    <3>1. IsSource(e, q[1], q[2])
      BY SourceIs
    <3> QED
      BY <3>1, InputSequences DEF IsSource
  <2>4. ASSUME NEW q \in S, Wins(q) PROVE q = p
    <3>1. p = q \/ (Later(p, q) /\ Later(q, p))
      BY <2>2, <2>4
    <3>2. ~(Later(p, q) /\ Later(q, p))
      BY <2>2, <2>3 DEF Later
    <3> QED
      BY <3>1, <3>2
  <2>5. (CHOOSE q \in S : Wins(q)) = p
    BY <2>2, <2>4
  <2>6. Effective(e, key) = Sets(e, CHOOSE q \in S : Wins(q))[key]
    BY <2>2 DEF Effective
  <2> QED
    BY <2>1, <2>5, <2>6
<1> QED
  BY <1>1, <1>2 DEF FromFiles

----------------------------------------------------------------------------
(* Where the reading is *)

\* Where Position puts the file at hand.
LEMMA Where ==
    ASSUME Position
    PROVE  /\ Begun \in 0..Len(input.paths) /\ Len(input.paths) \in Nat
           /\ IsSequence(Entries) /\ Len(Entries) \in Nat
           /\ Reading => /\ Done \in 0..Len(Entries)
                         /\ todo = <<>> <=> Done = Len(Entries)
                         /\ todo # <<>> => /\ Rest(Tail(todo), Entries)
                                           /\ Len(Entries) - Len(Tail(todo)) = Done + 1
                                           /\ Head(todo) = Entries[Done + 1]
<1>1. input \in Inputs /\ Rest(paths, input.paths)
  BY DEF Position
<1>2. Len(input.paths) \in Nat /\ IsSequence(input.paths)
  BY <1>1, InputSequences
<1>3. Len(paths) \in Nat /\ Len(paths) <= Len(input.paths)
  BY <1>1, <1>2, RestTail
<1>4. Begun \in 0..Len(input.paths)
  BY <1>2, <1>3 DEF Begun
<1>5. IsSequence(Entries) /\ Len(Entries) \in Nat
  BY <1>1, <1>4, InputSequences DEF Entries
<1>6. ASSUME Reading
      PROVE  /\ Done \in 0..Len(Entries)
             /\ todo = <<>> <=> Done = Len(Entries)
             /\ todo # <<>> => /\ Rest(Tail(todo), Entries)
                               /\ Len(Entries) - Len(Tail(todo)) = Done + 1
                               /\ Head(todo) = Entries[Done + 1]
  <2>1. Rest(todo, Entries)
    BY <1>6 DEF Position, Entries
  <2>2. /\ Len(todo) \in Nat /\ Len(todo) <= Len(Entries)
        /\ todo = <<>> <=> Len(todo) = 0
        /\ todo # <<>> => /\ Rest(Tail(todo), Entries) /\ Len(Tail(todo)) = Len(todo) - 1
                          /\ Head(todo) = Entries[Len(Entries) - Len(todo) + 1]
    BY <1>5, <2>1, RestTail
  <2>3. Done = Len(Entries) - Len(todo)
    BY DEF Done, Entries
  <2> HIDE DEF Entries
  <2>4. Done \in 0..Len(Entries) /\ (todo = <<>> <=> Done = Len(Entries))
    BY <1>5, <2>2, <2>3
  <2>5. todo # <<>> => Len(Entries) - Len(Tail(todo)) = Done + 1
    BY <1>5, <2>2, <2>3
  <2> QED
    BY <2>2, <2>3, <2>4, <2>5
<1> QED
  BY <1>2, <1>4, <1>5, <1>6

\* A step that keeps the environment and the paths keeps what has begun.
LEMMA SameBegun ==
    ASSUME UNCHANGED <<input, paths>>
    PROVE  /\ Begun' = Begun /\ Entries' = Entries
           /\ Done' = Len(Entries) - Len(todo')
           /\ \A i : PathRead(i)' <=> PathRead(i)
BY DEF Begun, Done, Entries, PathRead

\* A source beyond or before a file
LEMMA SourceIn ==
    ASSUME input \in Inputs, NEW p \in Sources(input)
    PROVE  /\ IsSource(input, p[1], p[2]) /\ p = <<p[1], p[2]>>
           /\ p[1] \in Nat /\ p[2] \in Nat \ {0}
<1>1. IsSource(input, p[1], p[2]) /\ p = <<p[1], p[2]>>
  BY SourceIs
<1>2. Len(input.paths) \in Nat
  BY InputSequences
<1>3. p[1] \in 0..Len(input.paths) /\ p[2] \in 1..Len(Dir(input, p[1]).entries)
  BY <1>1 DEF IsSource
<1>4. Len(Dir(input, p[1]).entries) \in Nat
  BY <1>3, InputSequences
<1> QED
  BY <1>1, <1>2, <1>3, <1>4

----------------------------------------------------------------------------
(* Each step of GetConfig *)

\* A step that loads nothing: the same files count as loaded.
LEMMA LayeredSame ==
    ASSUME Layered, UNCHANGED <<input, k>>, Applied' = Applied,
           main \in {"start", "cwd", "dir", "paths", "env"},
           main' \in {"start", "cwd", "dir", "paths", "env"}
    PROVE  Layered'
BY DEF Layered

\* The working directory is opened, or cannot be read; no file is behind yet.
LEMMA ReadCwdKeeps ==
    ASSUME Position, PathsClean, Layered, ReadCwd
    PROVE  (Position /\ PathsClean /\ DirThere /\ Layered)'
<1>1. /\ main = "start" /\ main' = "cwd" /\ UNCHANGED <<input, paths, k>>
      /\ todo' = IF input.cwd.kind = "dir" THEN input.cwd.entries ELSE <<>>
  BY DEF ReadCwd
<1>2. /\ Begun = 0 /\ Begun' = 0 /\ Entries' = Entries /\ Entries = input.cwd.entries
      /\ Done' = Len(Entries) - Len(todo') /\ Dir(input, 0) = input.cwd
  BY <1>1, SameBegun DEF Position, Entries, Dir
<1>3. input \in Inputs /\ Rest(paths, input.paths) /\ input.cwd.kind \in {"dir", "missing"}
  BY InputSequences DEF Position
<1>4. IsSequence(Entries) /\ Len(Entries) \in Nat
  BY Where
<1>5. Rest(todo', Entries)
  BY <1>1, <1>2, <1>4, RestAll, RestNone
<1>6. input.cwd.kind = "dir" => Done' = 0
  BY <1>1, <1>2, <1>4
<1>7. input.cwd.kind = "missing" => todo' = <<>>
  BY <1>1
<1>8. input.cwd.kind = "missing" => Done' = Len(Entries)
  BY <1>2, <1>4, <1>7
<1>9. Applied' = {}
  <2> SUFFICES ASSUME NEW p \in Sources(input), Past(p)' PROVE FALSE
    BY <1>1 DEF Applied
  <2>1. p[1] < 0 \/ (p[1] = 0 /\ p[2] <= Done')
    BY <1>1, <1>2 DEF Past, Reading
  <2>2. p[1] = 0 /\ p[2] <= Done' /\ p[2] \in Nat \ {0} /\ IsSource(input, p[1], p[2])
    BY <1>3, <2>1, SourceIn
  <2>3. input.cwd.kind # "missing"
    BY <1>2, <2>2 DEF IsSource
  <2> QED
    BY <1>3, <1>6, <2>2, <2>3
<1>10. Applied = {}
  BY <1>1 DEF Applied, Past
<1>11. Layered'
  BY <1>1, <1>9, <1>10, LayeredSame
<1>12. input.cwd.kind # "missing" =>
          \A h \in 1..Done' : Counts(0, Entries[h]) => Entries[h].ok
  BY <1>3, <1>6
<1>13. Position'
  BY <1>1, <1>2, <1>3, <1>5, <1>7, <1>12 DEF Position, Reading
<1>14. PathsClean' /\ DirThere'
  BY <1>1, <1>2 DEF PathsClean, DirThere
<1> QED
  BY <1>11, <1>13, <1>14

\* Within a directory the paths stay as they are.
LEMMA CleanSame ==
    ASSUME PathsClean, DirThere, main \in Layers, main' = main, UNCHANGED <<input, paths>>
    PROVE  PathsClean' /\ DirThere'
<1>1. Begun' = Begun /\ \A i : PathRead(i)' <=> PathRead(i)
  BY SameBegun
<1> QED
  BY <1>1 DEF PathsClean, DirThere

\* The file at hand is behind: it does not count, or it parses.
LEMMA OneFurther ==
    ASSUME Position, Reading, todo # <<>>, UNCHANGED <<input, paths, main>>, todo' = Tail(todo),
           Skips(Head(todo)) \/ Head(todo).ok
    PROVE  /\ Position' /\ Done' = Done + 1 /\ Begun' = Begun
           /\ Head(todo) = Entries[Done + 1] /\ Done + 1 \in 1..Len(Entries)
           /\ Skips(Head(todo)) <=> ~Counts(Begun, Head(todo))
           /\ \A h \in 1..Done + 1 : Counts(Begun, Entries[h]) => Entries[h].ok
<1>1. /\ Begun \in 0..Len(input.paths) /\ Len(Entries) \in Nat
      /\ Done \in 0..Len(Entries) /\ Done # Len(Entries)
      /\ Rest(Tail(todo), Entries)
      /\ Len(Entries) - Len(Tail(todo)) = Done + 1
      /\ Head(todo) = Entries[Done + 1]
  BY Where
<1>2. Begun' = Begun /\ Entries' = Entries /\ Done' = Done + 1
  BY <1>1, SameBegun
<1>3. /\ main = "cwd" => Begun = 0
      /\ main = "dir" => Begun > 0
      /\ main = "cwd" \/ main = "dir"
      /\ Dir(input, Begun).kind # "missing"
      /\ \A h \in 1..Done : Counts(Begun, Entries[h]) => Entries[h].ok
  BY DEF Position, Reading
<1>4. main = "cwd" <=> Begun = 0
  BY <1>1, <1>3
<1>5. Skips(Head(todo)) <=> ~Counts(Begun, Head(todo))
  BY <1>4 DEF Skips, Counts
<1>6. Done + 1 \in 1..Len(Entries) /\ \A h \in 1..Done + 1 : h \in 1..Done \/ h = Done + 1
  BY <1>1
<1>7. \A h \in 1..Done + 1 : Counts(Begun, Entries[h]) => Entries[h].ok
  BY <1>1, <1>3, <1>5, <1>6
<1>8. Position'
  BY <1>1, <1>2, <1>3, <1>7 DEF Position, Reading
<1> QED
  BY <1>1, <1>2, <1>5, <1>6, <1>7, <1>8

\* A file that is not YAML, or not marked, does not count.
LEMMA SkipFileKeeps ==
    ASSUME Position, PathsClean, DirThere, Layered, SkipFile
    PROVE  (Position /\ PathsClean /\ DirThere /\ Layered)'
<1>1. /\ main \in {"cwd", "dir"} /\ main' = main /\ UNCHANGED <<input, paths, k>>
      /\ todo # <<>> /\ Skips(Head(todo)) /\ todo' = Tail(todo)
  BY DEF SkipFile
<1>2. /\ Position' /\ Done' = Done + 1 /\ Begun' = Begun
      /\ Head(todo) = Entries[Done + 1] /\ Done + 1 \in 1..Len(Entries)
      /\ ~Counts(Begun, Head(todo))
  BY <1>1, OneFurther DEF Reading
<1>3. input \in Inputs /\ Done \in Nat
  BY <1>1, Where DEF Position, Reading
<1>4. Applied' = Applied
  <2>1. ASSUME NEW p \in Sources(input) PROVE Past(p)' <=> Past(p)
    <3>1. p[2] \in Nat /\ ~(p[1] = Begun /\ p[2] = Done + 1)
      BY <1>2, <1>3, SourceIn DEF IsSource, Entries
    <3>2. p[2] <= Done + 1 <=> p[2] <= Done \/ p[2] = Done + 1
      BY <1>3, <3>1
    <3> QED
      BY <1>1, <1>2, <3>1, <3>2 DEF Past, Reading
  <2> QED
    BY <1>1, <2>1 DEF Applied
<1>5. Layered'
  BY <1>1, <1>4, LayeredSame
<1>6. PathsClean' /\ DirThere'
  BY <1>1, CleanSame DEF Layers
<1> QED
  BY <1>2, <1>5, <1>6

\* k.Load of a file that counts: its keys win over all earlier ones.
LEMMA LoadFileKeeps ==
    ASSUME Position, PathsClean, DirThere, Layered, LoadFile
    PROVE  (Position /\ PathsClean /\ DirThere /\ Layered)'
<1> DEFINE p == <<Begun, Done + 1>>
<1>1. /\ main \in {"cwd", "dir"} /\ main' = main /\ UNCHANGED <<input, paths>>
      /\ todo # <<>> /\ ~Skips(Head(todo)) /\ Head(todo).ok /\ todo' = Tail(todo)
      /\ k' = Overlay(k, Head(todo).set)
  BY DEF LoadFile
<1>2. /\ Position' /\ Done' = Done + 1 /\ Begun' = Begun
      /\ Head(todo) = Entries[Done + 1] /\ Done + 1 \in 1..Len(Entries)
      /\ Counts(Begun, Head(todo))
      /\ \A h \in 1..Done + 1 : Counts(Begun, Entries[h]) => Entries[h].ok
  BY <1>1, OneFurther DEF Reading
<1>3. /\ input \in Inputs /\ Done \in Nat /\ Begun \in 0..Len(input.paths) /\ Begun \in Int
      /\ Dir(input, Begun).kind # "missing"
  BY <1>1, Where DEF Position, Reading
<1>4. IsSource(input, Begun, Done + 1)
  BY <1>2, <1>3 DEF IsSource, Entries
<1>5. p \in Sources(input)
  BY <1>3, <1>4, SourceIs
<1>6. Sets(input, p) = Head(todo).set
  BY <1>2 DEF Sets, Entries
<1>7. ASSUME NEW q \in Sources(input)
      PROVE  /\ Past(q)' <=> Past(q) \/ q = p
             /\ Past(q) => Later(p, q)
  <2>1. q = <<q[1], q[2]>> /\ q[1] \in Nat /\ q[2] \in Nat
    BY <1>3, SourceIn
  <2>2. q = p <=> q[1] = Begun /\ q[2] = Done + 1
    BY <2>1
  <2>3. Past(q) <=> q[1] < Begun \/ (q[1] = Begun /\ q[2] <= Done)
    BY <1>1 DEF Past, Reading
  <2>4. Past(q)' <=> q[1] < Begun \/ (q[1] = Begun /\ q[2] <= Done + 1)
    BY <1>1, <1>2 DEF Past, Reading
  <2>5. Past(q)' <=> Past(q) \/ q = p
    BY <1>3, <2>1, <2>2, <2>3, <2>4
  <2>6. Past(q) => Begun > q[1] \/ (Begun = q[1] /\ Done + 1 > q[2])
    BY <1>3, <2>1, <2>3
  <2> QED
    BY <2>5, <2>6 DEF Later
<1>8. Applied' = Applied \cup {p} /\ \A q \in Applied : Later(p, q)
  BY <1>1, <1>5, <1>7 DEF Applied
<1> HIDE DEF p
<1>9. ASSUME NEW key \in Keys
      PROVE  FromFiles(input, key, k'[key], Applied')
  <2>1. FromFiles(input, key, k[key], Applied)
    BY <1>1 DEF Layered
  <2>2. k'[key] = IF key \in DOMAIN Sets(input, p) THEN Sets(input, p)[key] ELSE k[key]
    BY <1>1, <1>6 DEF Overlay
  <2> QED
    BY <1>8, <2>1, <2>2, FromAdd
<1>10. Layered'
  BY <1>1, <1>9 DEF Layered
<1>11. PathsClean' /\ DirThere'
  BY <1>1, CleanSame DEF Layers
<1> QED
  BY <1>2, <1>10, <1>11

\* The end of a directory, whose remaining files, if any, do not count.
LEMMA DirEnds ==
    ASSUME Position, Layered, Reading, main' = "paths", UNCHANGED <<input, paths, k>>,
           \A j \in 1..Len(Entries) : j > Done => ~IsSource(input, Begun, j)
    PROVE  Position' /\ DirThere' /\ Layered'
<1>1. Begun' = Begun
  BY SameBegun
<1>2. /\ input \in Inputs /\ Begun \in Nat /\ Len(Entries) \in Nat /\ Done \in Nat
      /\ Done <= Len(Entries)
  BY Where DEF Position
<1>3. Position'
  BY <1>1 DEF Position, Reading
<1>4. Applied' = Applied
  <2>1. ASSUME NEW p \in Sources(input) PROVE Past(p)' <=> Past(p)
    <3>1. /\ p[1] \in Nat /\ p[2] \in Nat /\ IsSource(input, p[1], p[2])
          /\ p[1] = Begun => p[2] \in 1..Len(Entries)
      BY <1>2, SourceIn DEF IsSource, Entries
    <3>2. Past(p)' <=> p[1] <= Begun
      BY <1>1 DEF Past, Reading
    <3>3. Past(p) <=> p[1] < Begun \/ (p[1] = Begun /\ p[2] <= Done)
      BY DEF Past, Reading
    <3>4. p[1] = Begun => p[2] <= Done
      BY <1>2, <3>1
    <3> QED
      BY <1>2, <3>1, <3>2, <3>3, <3>4
  <2> QED
    BY <2>1 DEF Applied
<1>5. Layered'
  BY <1>4, LayeredSame DEF Reading
<1> QED
  BY <1>3, <1>5 DEF DirThere

\* A broken file ends the walk of the working directory; what is behind it does
\* not count.
LEMMA BrokenFileKeeps ==
    ASSUME Position, PathsClean, DirThere, Layered, BrokenFile, main' \in Layers
    PROVE  (Position /\ PathsClean /\ DirThere /\ Layered)'
<1>1. /\ main = "cwd" /\ main' = "paths" /\ UNCHANGED <<input, paths, k>>
      /\ todo # <<>> /\ ~Skips(Head(todo)) /\ ~Head(todo).ok
  BY DEF BrokenFile, Exit, Layers
<1>2. /\ Begun = 0 /\ Head(todo) = Entries[Done + 1] /\ Done \in Nat /\ Len(Entries) \in Nat
  BY <1>1, Where DEF Position, Reading
<1>3. Counts(Begun, Entries[Done + 1]) /\ ~Entries[Done + 1].ok
  BY <1>1, <1>2 DEF Skips, Counts
<1>4. ASSUME NEW j \in 1..Len(Entries), j > Done PROVE ~IsSource(input, Begun, j)
  <2>1. Done + 1 \in 1..j
    BY <1>2, <1>4
  <2> QED
    BY <1>3, <2>1 DEF IsSource, Entries
<1>5. Position' /\ DirThere' /\ Layered'
  BY <1>1, <1>4, DirEnds DEF Reading
<1>6. Begun' = 0
  BY <1>1, <1>2, SameBegun
<1>7. PathsClean'
  BY <1>6 DEF PathsClean
<1> QED
  BY <1>5, <1>7

\* The end of a directory: every YAML file of a -config path has parsed.
LEMMA DirReadKeeps ==
    ASSUME Position, PathsClean, DirThere, Layered, DirRead
    PROVE  (Position /\ PathsClean /\ DirThere /\ Layered)'
<1>1. /\ main \in {"cwd", "dir"} /\ main' = "paths" /\ UNCHANGED <<input, paths, k>>
      /\ todo = <<>>
  BY DEF DirRead
<1>2. Done = Len(Entries) /\ Len(Entries) \in Nat /\ Begun \in Nat /\ Begun <= Len(input.paths)
  BY <1>1, Where DEF Reading
<1>3. \A j \in 1..Len(Entries) : ~(j > Done)
  BY <1>2
<1>4. Position' /\ DirThere' /\ Layered'
  BY <1>1, <1>3, DirEnds DEF Reading
<1>5. Begun' = Begun /\ \A i : PathRead(i)' <=> PathRead(i)
  BY <1>1, SameBegun
<1>6. \A i \in 1..Begun : i < Begun => PathRead(i)
  BY <1>1, <1>2 DEF PathsClean, Layers
<1>7. ASSUME Begun > 0 PROVE PathRead(Begun)
  <2>1. main = "dir"
    BY <1>1, <1>7 DEF Position
  <2>2. Dir(input, Begun) = input.paths[Begun]
    BY <1>2, <1>7 DEF Dir
  <2>3. /\ input.paths[Begun].kind # "missing"
        /\ \A h \in 1..Done : Counts(Begun, Entries[h]) => Entries[h].ok
    BY <2>1, <2>2 DEF DirThere, Position, Reading
  <2>4. Begun \in 0..Len(input.paths) /\ input \in Inputs
    BY Where DEF Position
  <2>5. DOMAIN Entries = 1..Done
    BY <1>2, <2>4, InputSequences DEF Entries
  <2>6. \A h \in DOMAIN Entries : Entries[h].yaml => Entries[h].ok
    BY <1>2, <1>7, <2>3, <2>5 DEF Counts
  <2> QED
    BY <2>2, <2>3, <2>6 DEF PathRead, Entries
<1>8. \A i \in 1..Begun : PathRead(i)
  <2> SUFFICES ASSUME NEW i \in 1..Begun PROVE PathRead(i)
    OBVIOUS
  <2>1. CASE i < Begun
    BY <1>6, <2>1
  <2>2. CASE i = Begun
    BY <1>2, <1>7, <2>2
  <2> QED
    BY <1>2, <2>1, <2>2
<1>9. PathsClean'
  BY <1>5, <1>8 DEF PathsClean
<1> QED
  BY <1>4, <1>9

\* The next -config path begins, with all of its files ahead.
LEMMA NextPathKeeps ==
    ASSUME Position, PathsClean, DirThere, Layered, NextPath, main' \in Layers
    PROVE  (Position /\ PathsClean /\ DirThere /\ Layered)'
<1>1. /\ main = "paths" /\ main' = "dir" /\ UNCHANGED <<input, k>>
      /\ paths # <<>> /\ Head(paths).kind # "missing"
      /\ todo' = Head(paths).entries /\ paths' = Tail(paths)
  BY DEF NextPath, Exit, Layers
<1>2. /\ input \in Inputs /\ IsSequence(input.paths) /\ Rest(paths, input.paths)
  BY InputSequences DEF Position
<1>3. /\ Len(paths) \in Nat /\ Len(input.paths) \in Nat
      /\ Rest(Tail(paths), input.paths) /\ Len(Tail(paths)) = Len(paths) - 1
      /\ Head(paths) = input.paths[Begun + 1]
  BY <1>1, <1>2, RestTail DEF Begun
<1>4. Begun' = Len(input.paths) - Len(Tail(paths)) /\ Begun = Len(input.paths) - Len(paths)
  BY <1>1 DEF Begun
<1>5. Begun' = Begun + 1
  <2> DEFINE n == Len(input.paths)
             m == Len(paths)
  <2>1. n \in Nat /\ m \in Nat /\ Begun' = n - (m - 1) /\ Begun = n - m
    BY <1>3, <1>4
  <2> HIDE DEF n, m
  <2> QED
    BY <2>1
<1>6. Begun \in Nat
  BY Where
<1>7. Dir(input, Begun + 1) = Head(paths)
  BY <1>3, <1>6 DEF Dir
<1>8. Entries' = Head(paths).entries
  BY <1>1, <1>5, <1>7 DEF Entries
<1>9. Begun + 1 \in 0..Len(input.paths)
  <2>1. Len(paths) # 0
    BY <1>1, <1>2, RestTail
  <2> QED
    BY <1>3, <1>4, <1>6, <2>1
<1>10. IsSequence(Head(paths).entries)
  BY <1>2, <1>7, <1>9, InputSequences
<1>11. Rest(todo', Entries') /\ Len(Entries') \in Nat
  BY <1>1, <1>8, <1>10, RestAll
<1>12. Done' = 0
  <2>1. Done' = Len(Entries') - Len(todo')
    BY DEF Done
  <2> QED
    BY <1>1, <1>8, <1>11, <2>1
<1>13. Position'
  BY <1>1, <1>2, <1>3, <1>5, <1>6, <1>7, <1>11, <1>12 DEF Position, Reading
<1>14. Applied' = Applied
  <2>1. ASSUME NEW p \in Sources(input) PROVE Past(p)' <=> Past(p)
    <3>1. p[1] \in Nat /\ p[2] \in Nat \ {0}
      BY <1>2, SourceIn
    <3>2. Past(p)' <=> p[1] < Begun + 1 \/ (p[1] = Begun + 1 /\ p[2] <= 0)
      BY <1>1, <1>5, <1>12 DEF Past, Reading
    <3>3. Past(p) <=> p[1] <= Begun
      BY <1>1 DEF Past, Reading
    <3> QED
      BY <1>6, <3>1, <3>2, <3>3
  <2> QED
    BY <1>1, <2>1 DEF Applied
<1>15. Layered'
  BY <1>1, <1>14, LayeredSame
<1>16. DirThere'
  BY <1>1, <1>5, <1>7 DEF DirThere
<1>17. PathsClean'
  <2>1. \A i \in 1..Begun : PathRead(i)
    BY <1>1 DEF PathsClean, Layers
  <2>2. \A i : PathRead(i)' <=> PathRead(i)
    BY <1>1 DEF PathRead
  <2>3. \A i \in 1..Begun + 1 : i < Begun + 1 => i \in 1..Begun
    BY <1>6
  <2> QED
    BY <1>1, <1>5, <2>1, <2>2, <2>3 DEF PathsClean
<1> QED
  BY <1>13, <1>15, <1>16, <1>17

\* Behind the files nothing moves but k.
LEMMA FilesOver ==
    ASSUME Position, PathsClean, Begun = Len(input.paths), UNCHANGED <<input, paths>>,
           main \in {"paths", "env", "flags"}, main' \in {"env", "flags", "check"}
    PROVE  Position' /\ PathsClean' /\ DirThere' /\ Applied' = Applied
<1>1. Begun' = Begun /\ \A i : PathRead(i)' <=> PathRead(i)
  BY SameBegun
<1>2. Position'
  BY <1>1 DEF Position, Reading
<1>3. PathsClean' /\ DirThere'
  BY <1>1 DEF PathsClean, DirThere, Layers
<1>4. \A p : Past(p)' <=> Past(p)
  BY <1>1 DEF Past, Reading
<1>5. Applied' = Applied
  BY <1>4 DEF Applied
<1> QED
  BY <1>2, <1>3, <1>5

\* All -config paths are behind.
LEMMA PathsReadKeeps ==
    ASSUME Position, PathsClean, DirThere, Layered, PathsRead
    PROVE  (Position /\ PathsClean /\ DirThere /\ Layered)'
<1>1. /\ main = "paths" /\ main' = "env" /\ UNCHANGED <<input, paths, k>> /\ paths = <<>>
  BY DEF PathsRead
<1>2. Begun = Len(input.paths)
  <2>1. Len(paths) = 0 /\ Len(input.paths) \in Nat
    BY <1>1, Where
  <2> QED
    BY <2>1 DEF Begun
<1>3. Position' /\ PathsClean' /\ DirThere' /\ Applied' = Applied
  BY <1>1, <1>2, FilesOver
<1> QED
  BY <1>1, <1>3, LayeredSame

\* The environment wins over the files.
LEMMA LoadEnvVarsKeeps ==
    ASSUME Position, PathsClean, DirThere, Layered, LoadEnvVars
    PROVE  (Position /\ PathsClean /\ DirThere /\ Layered)'
<1>1. /\ main = "env" /\ main' = "flags" /\ UNCHANGED <<input, paths>>
      /\ k' = Overlay(k, input.env)
  BY DEF LoadEnvVars
<1>2. Position' /\ PathsClean' /\ DirThere' /\ Applied' = Applied
  BY <1>1, FilesOver DEF Position
<1>3. Layered'
  BY <1>1, <1>2 DEF Layered, Overlay
<1> QED
  BY <1>2, <1>3

\* The flags that were given win over everything.
LEMMA LoadFlagsKeeps ==
    ASSUME Position, PathsClean, DirThere, Layered, LoadFlags
    PROVE  (Position /\ PathsClean /\ DirThere /\ Layered)'
<1>1. /\ main = "flags" /\ main' = "check" /\ UNCHANGED <<input, paths>>
      /\ k' = Overlay(k, input.flags)
  BY DEF LoadFlags
<1>2. Position' /\ PathsClean' /\ DirThere' /\ Applied' = Applied
  BY <1>1, FilesOver DEF Position
<1>3. Layered'
  BY <1>1, <1>2 DEF Layered, Overlay
<1> QED
  BY <1>2, <1>3

----------------------------------------------------------------------------
(* ConfigAsLayered *)

\* At the start nothing is loaded and k holds the defaults.
LEMMA InitLayers == Init => LayerInv
<1> SUFFICES ASSUME Init PROVE LayerInv
  OBVIOUS
<1>1. input \in Inputs /\ main = "start" /\ paths = input.paths /\ k = DefaultConfig
  BY DEF Init
<1>2. Rest(paths, input.paths) /\ Len(input.paths) \in Nat
  BY <1>1, InputSequences, RestAll
<1>3. Begun = 0
  BY <1>1, <1>2 DEF Begun
<1>4. Position
  BY <1>1, <1>2, <1>3 DEF Position, Reading
<1>5. PathsClean /\ DirThere
  BY <1>1, <1>3 DEF PathsClean, DirThere
<1>6. Applied = {}
  BY <1>1 DEF Applied, Past
<1>7. Layered
  BY <1>1, <1>6 DEF Layered, FromFiles
<1> QED
  BY <1>4, <1>5, <1>7 DEF LayerInv

\* Every step of main keeps the invariant; behind "check" it says nothing.
LEMMA StepLayers == LayerInv /\ [Next]_vars => LayerInv'
<1> SUFFICES ASSUME LayerInv, [Next]_vars, main' \in Layers
             PROVE  (Position /\ PathsClean /\ DirThere /\ Layered)'
  BY DEF LayerInv
<1>1. CASE main \notin Layers \/ PrintVersion \/ FlagsRefused \/ Usage \/ Refuse \/ Accept
  <2>1. main' \notin Layers
    BY <1>1 DEF Next, vars, Layers, PrintVersion, ReadCwd, SkipFile, LoadFile, BrokenFile,
       DirRead, NextPath, PathsRead, LoadEnvVars, FlagsRefused, LoadFlags, Usage, Refuse,
       Accept, ConfigureLogging, StartMetrics, Listen, ConfigServer, BuildRemote, Dispatch,
       Connect, Goes, Exit
  <2> QED
    BY <2>1
<1>2. CASE main \in Layers
  <2>1. Position /\ PathsClean /\ DirThere /\ Layered
    BY <1>2 DEF LayerInv
  <2>2. \/ PrintVersion \/ FlagsRefused \/ Usage \/ Refuse \/ Accept
        \/ ReadCwd \/ SkipFile \/ LoadFile \/ BrokenFile \/ DirRead
        \/ NextPath \/ PathsRead \/ LoadEnvVars \/ LoadFlags \/ UNCHANGED vars
    BY <1>2 DEF Next, Layers, ConfigureLogging, StartMetrics, Listen, ConfigServer,
       BuildRemote, Dispatch, Connect
  <2>3. CASE UNCHANGED vars
    <3>1. UNCHANGED <<input, main, k, todo, paths>>
      BY <2>3 DEF vars
    <3>2. Begun' = Begun /\ Entries' = Entries /\ Done' = Done /\ \A i : PathRead(i)' <=> PathRead(i)
      BY <3>1 DEF Begun, Entries, Done, PathRead
    <3>3. \A p : Past(p)' <=> Past(p)
      BY <3>1, <3>2 DEF Past, Reading
    <3>4. Applied' = Applied
      BY <3>1, <3>3 DEF Applied
    <3>5. Position' /\ PathsClean' /\ DirThere'
      BY <2>1, <3>1, <3>2 DEF Position, PathsClean, DirThere, Reading
    <3>6. Layered'
      BY <2>1, <3>1, <3>4 DEF Layered
    <3> QED
      BY <3>5, <3>6
  <2> QED
    BY <1>1, <2>1, <2>2, <2>3, ReadCwdKeeps, SkipFileKeeps, LoadFileKeeps, BrokenFileKeeps,
       DirReadKeeps, NextPathKeeps, PathsReadKeeps, LoadEnvVarsKeeps, LoadFlagsKeeps
<1> QED
  BY <1>1, <1>2

\* Reading the layers one file at a time, with its skips, its walk that a broken
\* file ends and its early exits, computes what the layers say: for any number
\* of -config paths and of files in them, the latest layer that sets a key wins
\* among the defaults, the YAML files that are read, the environment and the
\* flags, and no -config path was missing and no YAML file of one was broken.
\* Files that are not YAML are skipped, on the command line too.
THEOREM LayersCorrect == Spec => []ConfigAsLayered
<1>1. LayerInv => ConfigAsLayered
  <2> SUFFICES ASSUME LayerInv, main = "check"
               PROVE  /\ \A key \in Keys : k[key] = Effective(input, key)
                      /\ \A i \in DOMAIN input.paths : PathRead(i)
    BY DEF ConfigAsLayered, PathRead
  <2>1. Position /\ PathsClean /\ Layered
    BY DEF LayerInv, Layers
  <2>2. input \in Inputs /\ Begun = Len(input.paths)
    BY <2>1 DEF Position
  <2>3. \A i \in DOMAIN input.paths : PathRead(i)
    BY <2>1, <2>2, InputSequences DEF PathsClean, Layers
  <2>4. Applied = Sources(input)
    <3>1. ASSUME NEW p \in Sources(input) PROVE Past(p)
      <4>1. p[1] <= Len(input.paths)
        BY <2>2, SourceIn, InputSequences DEF IsSource
      <4> QED
        BY <2>2, <4>1 DEF Past, Reading
    <3> QED
      BY <3>1 DEF Applied
  <2>5. ASSUME NEW key \in Keys PROVE k[key] = Effective(input, key)
    <3>1. IF key \in DOMAIN input.flags THEN k[key] = input.flags[key]
          ELSE IF key \in DOMAIN input.env THEN k[key] = input.env[key]
          ELSE FromFiles(input, key, k[key], Sources(input))
      BY <2>1, <2>4 DEF Layered
    <3>2. CASE key \in DOMAIN input.flags \/ key \in DOMAIN input.env
      BY <3>1, <3>2 DEF Effective
    <3>3. CASE key \notin DOMAIN input.flags /\ key \notin DOMAIN input.env
      BY <2>2, <3>1, <3>3, FromAll
    <3> QED
      BY <3>2, <3>3
  <2> QED
    BY <2>3, <2>5
<1> QED
  BY <1>1, InitLayers, StepLayers, PTL DEF Spec
=============================================================================
