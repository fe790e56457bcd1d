---------------------------- MODULE ProxyProto ----------------------------
(***************************************************************************)
(* The PROXY protocol header TCPProxy sends to the backend                 *)
(* (internal/proxy/proxyproto.go).                                         *)
(*                                                                         *)
(* An address is the form of its net.Addr ("tcp": *net.TCPAddr, "text":    *)
(* one that only prints as host:port, "other": one that does not), the     *)
(* family of its IP ("mapped" is an IPv4 address in its 16-byte form,      *)
(* which To4 accepts), a host and a port. A header is what goes over the   *)
(* wire: the two endpoints, and for v2 the declared length of the address  *)
(* block and the sizes of the fields appended to it.                       *)
(***************************************************************************)
EXTENDS Naturals, Sequences

Forms == {"tcp", "text", "other"}
Families == {"v4", "mapped", "v6"}

\* The IP and port of a, if there are any
tcpAddr(a) == a.form # "other"

To4(a) == a.fam \in {"v4", "mapped"}

\* Mutant: only the client's address decides.
Proto_SourceOnly(src, dst) ==
    IF ~tcpAddr(src) \/ ~tcpAddr(dst) THEN "UNKNOWN"
    ELSE IF To4(src) THEN "TCP4" ELSE "TCP6"

\* The branches both versions take: mixed families cannot be represented.
Proto(src, dst) ==
    IF ~tcpAddr(src) \/ ~tcpAddr(dst) \/ To4(src) # To4(dst) THEN "UNKNOWN"
    ELSE IF To4(src) THEN "TCP4" ELSE "TCP6"

Header(version, proto, src, dst, len, sizes) ==
    [version |-> version, proto |-> proto, src |-> src, dst |-> dst,
     len |-> len, sizes |-> sizes]
End(a, p) == [host |-> a.host, port |-> p]
Unknown(version) ==
    LET none == [host |-> "none", port |-> 0]
    IN  Header(version, "UNKNOWN", none, none, 0, <<>>)

\* Text: the ports are printed in decimal.
proxyHeaderV1(src, dst) ==
    IF Proto(src, dst) = "UNKNOWN" THEN Unknown("v1")
    ELSE Header("v1", Proto(src, dst), End(src, src.port), End(dst, dst.port), 0, <<>>)

Uint16 == 65536

\* Binary: the ports are converted to uint16, the length is a literal.
proxyHeaderV2(src, dst) ==
    LET p == Proto(src, dst)
        size == IF p = "TCP4" THEN 4 ELSE 16
    IN  IF p = "UNKNOWN" THEN Unknown("v2")
        ELSE Header("v2", p, End(src, src.port % Uint16), End(dst, dst.port % Uint16),
                    IF p = "TCP4" THEN 12 ELSE 36, <<size, size, 2, 2>>)

\* version is remote.proxyprotocol. No header, or an error for another version.
NoHeader == Unknown("none")
ProxyHeader(version, src, dst) ==
    IF version = "v1" THEN proxyHeaderV1(src, dst)
    ELSE IF version = "v2" THEN proxyHeaderV2(src, dst)
    ELSE IF version = "" THEN NoHeader ELSE Unknown("error")
=============================================================================
