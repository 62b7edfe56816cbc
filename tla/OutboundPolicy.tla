--------------------------- MODULE OutboundPolicy ---------------------------
(***************************************************************************)
(* The outbound HTTP policy (apps/core/outbound_http.py) that every call   *)
(* to a tenant-configured URL passes: validate_outbound_url decides on the *)
(* URL and on the addresses its host resolves to at that moment.           *)
(*                                                                         *)
(* An address is the set of the ipaddress predicates that hold of it: they *)
(* overlap, 127.0.0.1 is loopback and private.  A URL is its scheme, host  *)
(* and whether it carries credentials.                                     *)
(***************************************************************************)
EXTENDS Naturals

CONSTANTS
  Hosts,            \* host names a URL may have
  NoHost,           \* the host of a URL without one
  PrivateHosts,     \* OUTBOUND_HTTP_ALLOWED_PRIVATE_HOSTS, lower-cased
  UnsafeHosts,      \* OUTBOUND_HTTP_ALLOWED_UNSAFE_HOSTS
  InsecureHosts,    \* OUTBOUND_HTTP_INSECURE_ALLOWED_HOSTS
  AllowInsecure     \* OUTBOUND_HTTP_ALLOW_INSECURE_HTTP

Flags == {"loopback", "link-local", "multicast", "unspecified", "private"}
Addresses == SUBSET Flags

\* The answer for a host that getaddrinfo cannot resolve; it never returns an
\* empty list otherwise.
Unresolvable == {}

Urls == [scheme : {"http", "https", "other"}, creds : BOOLEAN, host : Hosts \cup {NoHost}]

ASSUME PolicyAssumption ==
  /\ NoHost \notin Hosts
  /\ PrivateHosts \subseteq Hosts /\ UnsafeHosts \subseteq Hosts
  /\ InsecureHosts \subseteq Hosts
  /\ AllowInsecure \in BOOLEAN

-----------------------------------------------------------------------------
\* The order in which _classify_blocked asks.  Mutant: is_private is asked
\* first, although it also holds of loopback and link-local addresses.
PrecedencePrivateFirst ==
  [f \in Flags |-> CASE f = "private" -> 0 [] f = "loopback" -> 1
                     [] f = "link-local" -> 2 [] f = "multicast" -> 3 [] OTHER -> 4]

Precedence ==
  [f \in Flags |-> CASE f = "loopback" -> 0 [] f = "link-local" -> 1
                     [] f = "multicast" -> 2 [] f = "unspecified" -> 3 [] OTHER -> 4]

\* _classify_blocked: the first predicate that holds names the category.
ClassifyBlocked(ip) ==
  IF ip = {} THEN "none"
  ELSE CHOOSE f \in ip : \A g \in ip : Precedence[f] <= Precedence[g]

\* _is_private_allowlisted, with the tenant's AllowedOutboundHost rows.
IsPrivateAllowlisted(host, tenant) == host \in PrivateHosts \cup tenant

IsUnsafeAllowlisted(host) == host \in UnsafeHosts

IsHttpSchemeAllowed(host) == AllowInsecure \/ host \in InsecureHosts

\* One resolved address passes the loop of validate_outbound_url.
AddressAllowed(host, ip, tenant) ==
  \/ ClassifyBlocked(ip) = "none"
  \/ ClassifyBlocked(ip) = "private" /\ IsPrivateAllowlisted(host, tenant)
  \/ IsUnsafeAllowlisted(host)

\* validate_outbound_url does not raise: all addresses must pass, and a host
\* that does not resolve is refused.
ValidateOutboundUrl(url, addresses, tenant) ==
  /\ url.scheme \in {"http", "https"}
  /\ ~url.creds
  /\ url.host # NoHost
  /\ url.scheme = "http" => IsHttpSchemeAllowed(url.host)
  /\ addresses # Unresolvable
  /\ \A ip \in addresses : AddressAllowed(url.host, ip, tenant)
=============================================================================
