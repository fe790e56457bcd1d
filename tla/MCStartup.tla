----------------------------- MODULE MCStartup -----------------------------
(* Small environments of Startup for TLC. *)
EXTENDS Startup

None == [x \in {} |-> ""]
One(key, v) == [x \in {key} |-> v]

\* Every single setting, and the ones worth putting on top of another.
Singles == UNION {{One(key, v) : v \in Domain(key)} : key \in Keys}
Tops ==
    {None, One("server_type", "https"), One("server_type", ""), One("remote_addr", ""),
     One("server_tls_verify", "true"), One("server_tls_key", "broken"),
     One("server_tls_letsencrypt_enable", "true"), One("server_tls_autoreload", "true"),
     One("remote_tls_sysroots", "false"), One("remote_tls_verify", "false"),
     One("remote_tls_enable", "false"), One("remote_proxyprotocol", "v2"),
     One("remote_tls_cert", "missing"), One("validate", "true")}

\* Configurations like the ones in contrib/examples
Backend == One("remote_addr", "hostport")
TcpTLS == [remote_addr |-> "hostport", server_tls_cert |-> "good", server_tls_key |-> "good"]
MutualTLS ==
    [remote_addr |-> "hostport", server_tls_cert |-> "good", server_tls_key |-> "good",
     server_tls_ca |-> "good", server_tls_verify |-> "true"]
Http == [remote_addr |-> "http", server_type |-> "http"]
Https ==
    [remote_addr |-> "https", server_type |-> "https", server_tls_cert |-> "good",
     server_tls_key |-> "good", server_tls_minversion |-> "1.2"]
Acme ==
    [remote_addr |-> "http", server_type |-> "https",
     server_tls_letsencrypt_enable |-> "true", server_tls_letsencrypt_domain |-> "valid"]
BackendMTLS ==
    [remote_addr |-> "hostport", remote_tls_cert |-> "good", remote_tls_key |-> "good",
     remote_tls_ca |-> "good"]
Examples == {Backend, TcpTLS, MutualTLS, Http, Https, Acme, BackendMTLS}

Good(set) == [yaml |-> TRUE, marker |-> TRUE, ok |-> TRUE, set |-> set]
Stray(set) == [Good(set) EXCEPT !.marker = FALSE]
Broken(set) == [Good(set) EXCEPT !.ok = FALSE]
Text(set) == [Good(set) EXCEPT !.yaml = FALSE]
D(entries) == [kind |-> "dir", entries |-> entries]
F(entry) == [kind |-> "file", entries |-> <<entry>>]
Missing == [kind |-> "missing", entries |-> <<>>]

\* Any example as a file, any one variable, any of the flags above
Combined ==
    {[cwd |-> c, paths |-> p, env |-> e, flags |-> f, args |-> "known"] :
       <<c, p>> \in UNION {{<<D(<<Good(x)>>), <<>>>>, <<D(<<>>), <<F(Stray(x))>>>>} : x \in Examples},
       e \in Singles, f \in Tops}

\* Directories with several files that set the same keys
Dirs ==
    {D(<<>>), Missing,
     D(<<Good(Backend), Stray(Http), Good(One("log_level", "debug"))>>),
     D(<<Good(Http), Broken(Backend), Good(One("server_type", "tcp"))>>),
     D(<<Text(Backend), Good(Https), Good(One("remote_addr", "hostport"))>>)}
Layered ==
    {[cwd |-> c, paths |-> p, env |-> e, flags |-> f, args |-> a] :
       c \in Dirs,
       p \in {<<>>, <<Missing>>} \cup {<<d>> : d \in Dirs} \cup {<<d, F(Stray(Http))>> : d \in Dirs}
             \cup {<<F(Text(Http)), d>> : d \in Dirs},
       e \in {None, One("server_type", "http"), One("log_level", "warning")},
       f \in {None, One("server_type", "tcp"), One("remote_addr", "https")},
       a \in {"known", "version", "unknown"}}

Environments == Combined \cup Layered

Addr(form, fam, host) == [form |-> form, fam |-> fam, host |-> host, port |-> 65535]
Ends ==
    {Addr("tcp", "v4", "a"), Addr("tcp", "mapped", "b"), Addr("tcp", "v6", "c"),
     Addr("text", "v4", "d"), Addr("other", "v4", "e")}
=============================================================================
