SPECIFICATION Spec
CONSTANTS
  LastPage = 2  ShortLast = FALSE  RetainEmpty = FALSE  MaxPages = 2
  StartCursors = {0, 2}
  Hosts = {api, idp}  NoHost = NoHost
  PrivateHosts = {api}  UnsafeHosts = {}  InsecureHosts = {idp}  AllowInsecure = FALSE
  Names = {n1, n2}  NoName = NoName
  Connections <- ConnectionsOfModel
  DnsAnswers <- DnsOfModel
  InitialDns <- InitialDnsOfModel
  Lifetimes = {1, 3}  Margin = 1  Never = Never  NoToken = NoToken
  NoContact = NoContact  Unchecked = Unchecked
  MaxEvents = 3
  api = api  idp = idp  n1 = n1  n2 = n2
CHECK_DEADLOCK FALSE
INVARIANTS TypeOK StaleTokenNeverFatal OneReauthentication CachedTokenIsLive OnlyAllowedContacts
PROPERTIES TokenReused ImplementsPageStream
