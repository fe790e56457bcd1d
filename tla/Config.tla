------------------------------ MODULE Config ------------------------------
(***************************************************************************)
(* The configuration: its keys and defaults (internal/config), what        *)
(* ValidateConfig accepts, and the TLS configurations built from it        *)
(* (internal/tls/server.go, remote.go, tls.go, versions.go).               *)
(*                                                                         *)
(* k maps a key (dots written as underscores) to its string value. Values  *)
(* are abstracted to what the code tells apart: a file name is "" or what  *)
(* is behind it ("good", "missing", "broken"), an address, duration or     *)
(* cipher list is "", "valid" or "bad", a Boolean is "true" or "false".    *)
(***************************************************************************)
EXTENDS Naturals, Sequences

Files == {"", "good", "missing", "broken"}
Bools == {"true", "false"}
Texts == {"", "valid", "bad"}
Versions == {"", "1.0", "1.1", "1.2", "1.3", "bad"}

DefaultConfig ==
    [server_addr |-> "valid", server_type |-> "tcp", server_http2 |-> "false",
     server_timeouts_read |-> "valid", server_timeouts_write |-> "valid",
     server_timeouts_idle |-> "valid", server_timeouts_handshake |-> "valid",
     server_tls_verify |-> "false", server_tls_require |-> "false",
     server_tls_autoreload |-> "false",
     server_tls_cert |-> "", server_tls_key |-> "", server_tls_ca |-> "",
     server_tls_sni |-> "", server_tls_minversion |-> "",
     server_tls_maxversion |-> "", server_tls_ciphersuites |-> "",
     server_tls_letsencrypt_enable |-> "false", server_tls_letsencrypt_domain |-> "",
     remote_addr |-> "", remote_proxyprotocol |-> "", remote_timeouts_dial |-> "valid",
     remote_tls_enable |-> "true", remote_tls_verify |-> "true",
     remote_tls_sysroots |-> "true",
     remote_tls_cert |-> "", remote_tls_key |-> "", remote_tls_ca |-> "",
     remote_tls_minversion |-> "", remote_tls_maxversion |-> "",
     remote_tls_ciphersuites |-> "",
     log_level |-> "info", log_destination |-> "stdout",
     validate |-> "false", metrics_enable |-> "false"]

Keys == DOMAIN DefaultConfig

\* What may be set for each key. remote.addr is a bare host:port or a URL, of which
\* its scheme is kept: http, https or another one.
Domain(key) ==
    CASE key = "server_type" -> {"", "tcp", "http", "https", "udp"}
      [] key = "remote_addr" -> {"", "hostport", "http", "https", "other"}
      [] key = "remote_proxyprotocol" -> {"", "v1", "v2", "v3"}
      [] key = "log_level" -> {"debug", "info", "warn", "warning", "error", "loud"}
      [] key = "log_destination" -> {"stdout", "file", "syslog"}
      [] key = "server_tls_sni" -> {"", "good", "bad"}
      [] key \in {"server_tls_cert", "server_tls_key", "server_tls_ca",
                  "remote_tls_cert", "remote_tls_key", "remote_tls_ca"} -> Files
      [] key \in {"server_tls_minversion", "server_tls_maxversion",
                  "remote_tls_minversion", "remote_tls_maxversion"} -> Versions
      [] key \in {"server_addr", "server_timeouts_read", "server_timeouts_write",
                  "server_timeouts_idle", "server_timeouts_handshake",
                  "remote_timeouts_dial", "server_tls_ciphersuites",
                  "remote_tls_ciphersuites", "server_tls_letsencrypt_domain"} -> Texts
      [] OTHER -> Bools

\* k.Load: what the layer sets replaces what was there.
Overlay(k, layer) ==
    [key \in Keys |-> IF key \in DOMAIN layer THEN layer[key] ELSE k[key]]

On(v) == v = "true"

----------------------------------------------------------------------------
(* ValidateConfig *)

\* An empty server.type counts as tcp, an empty server.addr as :9898.
ServerType(k) == IF k["server_type"] = "" THEN "tcp" ELSE k["server_type"]

AddressesValid(k) ==
    /\ ServerType(k) \in {"tcp", "http", "https"}
    /\ k["remote_addr"] # ""
    /\ k["server_addr"] # "bad"
    /\ ServerType(k) # "tcp" => k["remote_addr"] # "hostport"

\* Mutant: https is taken to mean TLS without looking for a certificate.
ServerTLSValid_NoHttpsCheck(k) ==
    /\ (k["server_tls_cert"] = "") = (k["server_tls_key"] = "")
    /\ On(k["server_tls_letsencrypt_enable"]) => k["server_tls_letsencrypt_domain"] # ""

ServerTLSValid(k) ==
    /\ (k["server_tls_cert"] = "") = (k["server_tls_key"] = "")
    /\ On(k["server_tls_letsencrypt_enable"]) => k["server_tls_letsencrypt_domain"] # ""
    /\ ServerType(k) = "https"
         => k["server_tls_cert"] # "" \/ On(k["server_tls_letsencrypt_enable"])

RemoteTLSValid(k) ==
    /\ (k["remote_tls_cert"] = "") = (k["remote_tls_key"] = "")
    /\ On(k["remote_tls_enable"])
         \/ \A f \in {"remote_tls_cert", "remote_tls_key", "remote_tls_ca"} : k[f] = ""

Durations ==
    {"server_timeouts_read", "server_timeouts_write", "server_timeouts_idle",
     "server_timeouts_handshake", "remote_timeouts_dial"}

DurationsValid(k) == \A key \in Durations : k[key] # "bad"

\* ParseTLSVersion: 0 stands for the default.
VersionOf(v) ==
    CASE v = "1.0" -> 10 [] v = "1.1" -> 11 [] v = "1.2" -> 12 [] v = "1.3" -> 13
      [] OTHER -> 0

\* ParseTLSVersion and ParseCipherSuites return no error.
OptionsParse(min, max, ciphers) == min # "bad" /\ max # "bad" /\ ciphers # "bad"

\* minversion must be <= maxversion, when both are set.
Ordered(min, max) == min # "" /\ max # "" => VersionOf(min) <= VersionOf(max)

OptionsValid(k) ==
    /\ OptionsParse(k["server_tls_minversion"], k["server_tls_maxversion"],
                    k["server_tls_ciphersuites"])
    /\ OptionsParse(k["remote_tls_minversion"], k["remote_tls_maxversion"],
                    k["remote_tls_ciphersuites"])
    /\ Ordered(k["server_tls_minversion"], k["server_tls_maxversion"])
    /\ Ordered(k["remote_tls_minversion"], k["remote_tls_maxversion"])

ModeValid(k) ==
    /\ On(k["server_http2"]) => ServerType(k) # "tcp"
    /\ k["remote_proxyprotocol"] \in {"", "v1", "v2"}
    /\ k["remote_proxyprotocol"] # "" => ServerType(k) = "tcp"

ValidateConfig(k) ==
    /\ AddressesValid(k) /\ ServerTLSValid(k) /\ RemoteTLSValid(k)
    /\ DurationsValid(k) /\ OptionsValid(k) /\ ModeValid(k)

\* The one change ValidateConfig makes
Normalized(k) == IF k["log_level"] = "warning" THEN [k EXCEPT !["log_level"] = "warn"] ELSE k

----------------------------------------------------------------------------
(* TLS configurations *)

\* kind: "none" (nil), "error" or "tls"; roots: what a peer is verified against,
\* where a nil pool means the system's roots.
NotTLS(kind) == [kind |-> kind, min |-> 0, max |-> 0, auth |-> "none", roots |-> {},
                 cert |-> "none", insecure |-> FALSE]
NoTLS == NotTLS("none")
TLSError == NotTLS("error")

MinVersion(v) == IF VersionOf(v) = 0 THEN 12 ELSE VersionOf(v)

TLSConfig(min, max, auth, cert, roots, insecure) ==
    [kind |-> "tls", min |-> MinVersion(min), max |-> VersionOf(max), auth |-> auth,
     roots |-> roots, cert |-> cert, insecure |-> insecure]

ClientAuth(k) ==
    IF On(k["server_tls_verify"]) THEN "verify"
    ELSE IF On(k["server_tls_require"]) THEN "require" ELSE "none"

\* The certificate files, the SNI entries and the CA all have to load.
ServerFilesLoad(k) ==
    /\ k["server_tls_cert"] = "good" /\ k["server_tls_key"] = "good"
    /\ k["server_tls_sni"] # "bad"
    /\ k["server_tls_ca"] \in {"", "good"}

\* Let's Encrypt wins over certificate files, and does not look at the CA.
GetServerConfig(k) ==
    LET conf(cert, roots) == TLSConfig(k["server_tls_minversion"], k["server_tls_maxversion"],
                                       ClientAuth(k), cert, roots, FALSE)
    IN  IF ~OptionsParse(k["server_tls_minversion"], k["server_tls_maxversion"],
                         k["server_tls_ciphersuites"]) THEN TLSError
        ELSE IF On(k["server_tls_letsencrypt_enable"]) THEN conf("acme", {"system"})
        ELSE IF k["server_tls_cert"] = "" /\ k["server_tls_key"] = "" THEN NoTLS
        ELSE IF ~ServerFilesLoad(k) THEN TLSError
        ELSE conf("store", IF k["server_tls_ca"] = "" THEN {"system"} ELSE {"ca"})

FileExists(f) == f \in {"good", "broken"}

ClientCert(k) == FileExists(k["remote_tls_cert"]) /\ FileExists(k["remote_tls_key"])

\* A client certificate with its CA: sys is whether the system's roots load.
ClientFilesLoad(k, sys) ==
    /\ k["remote_tls_cert"] = "good" /\ k["remote_tls_key"] = "good"
    /\ k["remote_tls_ca"] # "" \/ On(k["remote_tls_sysroots"])
    /\ On(k["remote_tls_sysroots"]) => sys
    /\ k["remote_tls_ca"] \in {"", "good"}

\* With verify and sysroots the pool is replaced by the system's.
RemoteRoots(k) ==
    IF ~ClientCert(k) \/ (On(k["remote_tls_verify"]) /\ On(k["remote_tls_sysroots"]))
    THEN {"system"}
    ELSE (IF On(k["remote_tls_sysroots"]) THEN {"system"} ELSE {})
           \cup (IF k["remote_tls_ca"] # "" THEN {"ca"} ELSE {})

ConfigRemote(k, sys) ==
    IF ~OptionsParse(k["remote_tls_minversion"], k["remote_tls_maxversion"],
                     k["remote_tls_ciphersuites"]) THEN TLSError
    ELSE IF ClientCert(k) /\ ~ClientFilesLoad(k, sys) THEN TLSError
    ELSE IF ~ClientCert(k) /\ ~On(k["remote_tls_enable"]) THEN NoTLS
    ELSE IF On(k["remote_tls_verify"]) /\ On(k["remote_tls_sysroots"]) /\ ~sys THEN TLSError
    ELSE TLSConfig(k["remote_tls_minversion"], k["remote_tls_maxversion"], "none",
                   IF ClientCert(k) THEN "client" ELSE "none", RemoteRoots(k),
                   ~On(k["remote_tls_verify"]))
=============================================================================
