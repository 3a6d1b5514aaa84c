------------------------------ MODULE Netguard ------------------------------
(***************************************************************************)
(* internal/netguard: which destinations the proxy is willing to reach.    *)
(* The denied prefixes are the set of addresses they cover.  A prefix      *)
(* contains no IPv6 address that has a zone, whatever its bits are.        *)
(***************************************************************************)
EXTENDS Integers

CONSTANTS
    DeniedAddrs,    \* addresses whose bits some denied prefix covers
    Zoned,          \* addresses with a zone
    Unmapped,       \* IPv4-mapped IPv6 address -> the IPv4 address it carries
    Literals,       \* hosts that are address literals
    LocalNames,     \* localhost and everything under .localhost
    AllowedPorts    \* {} allows every port

PortNumber(port) == port \in 1 .. 65535
CheckPort(port) == /\ PortNumber(port)
                   /\ AllowedPorts # {} => port \in AllowedPorts

CheckAddr(a) == (IF a \in DOMAIN Unmapped THEN Unmapped[a] ELSE a) \notin DeniedAddrs \ Zoned

\* A name passes unless it is local by definition; what it resolves to is
\* looked at once a connection exists.
CheckHost(host) == IF host \in Literals THEN CheckAddr(host)
                   ELSE host # "" /\ host \notin LocalNames

\* Faulty: trusts the check of the name.
FaultyCheckResolved(a) == TRUE

CheckResolved(a) == CheckAddr(a)
=============================================================================
