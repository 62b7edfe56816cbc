--------------------------- MODULE MCSourceFetch ---------------------------
(***************************************************************************)
(* SourceFetch for TLC: an API host that the deployment lists as private   *)
(* and an identity host that only the tenant may list; a two-step token    *)
(* provider whose second URL may turn into one that is refused, one that   *)
(* takes its token from the first of two steps, static and missing         *)
(* providers, and configurations that are refused.                         *)
(***************************************************************************)
EXTENDS SourceFetch

CONSTANTS api, idp, n1, n2

public == {}
internal == {"private"}
localhost == {"loopback", "private"}

DnsOfModel == {{public}, {internal, public}, {localhost}, Unresolvable}
InitialDnsOfModel ==
  {[h \in Hosts |-> IF h = api THEN {internal, public} ELSE {public}]}

Url(h) == [scheme |-> "https", creds |-> FALSE, host |-> h]
PlainUrl(h) == [scheme |-> "http", creds |-> FALSE, host |-> h]

Connection(kind, steps, final) ==
  [config |-> TRUE, url |-> Url(api), kind |-> kind, valid |-> TRUE,
   header |-> TRUE, steps |-> steps, final |-> final]

Obtain == [urls |-> {Url(idp)}, needs |-> {}, as |-> n1]
Exchange == [urls |-> {Url(idp), PlainUrl(api)}, needs |-> {n1}, as |-> n2]
Confirm == [urls |-> {PlainUrl(idp)}, needs |-> {n1}, as |-> NoName]

TokenEndpoint == Connection("token", <<Obtain>>, n1)

ConnectionsOfModel ==
  {Connection("token", <<Obtain, Exchange>>, n2),
   Connection("token", <<Obtain, Confirm>>, n1),
   Connection("token", <<Exchange>>, n2),
   Connection("token", <<Obtain>>, n2),
   Connection("static", <<>>, n1),
   Connection("none", <<>>, n1),
   Connection("unknown", <<>>, n1),
   [Connection("static", <<>>, n1) EXCEPT !.valid = FALSE],
   [TokenEndpoint EXCEPT !.valid = FALSE],
   [TokenEndpoint EXCEPT !.header = FALSE],
   [TokenEndpoint EXCEPT !.config = FALSE],
   [TokenEndpoint EXCEPT !.url = [@ EXCEPT !.creds = TRUE]],
   [TokenEndpoint EXCEPT !.url = PlainUrl(api)]}
=============================================================================
