------------------------- MODULE SourceFetchProofs -------------------------
(***************************************************************************)
(* Theorems about SourceFetch, for every source, set of connections, hosts *)
(* and allow-lists, any number of authentication steps and any number of   *)
(* changes of the surroundings.                                            *)
(***************************************************************************)
EXTENDS SourceFetch, TLAPS

-----------------------------------------------------------------------------
(* The policy: what AddressAllowed rules out.                              *)

Dangerous == {"loopback", "link-local", "multicast", "unspecified"}

\* The order in which _classify_blocked looks at an address's flags.
LEMMA PrecedenceValues ==
  /\ Precedence["loopback"] = 0 /\ Precedence["link-local"] = 1
  /\ Precedence["multicast"] = 2 /\ Precedence["unspecified"] = 3
  /\ Precedence["private"] = 4
BY DEF Precedence, Flags

\* The category of an address is one of its flags, and the private one only
\* where no other holds.
LEMMA Classification ==
  ASSUME NEW ip \in Addresses, ip # {}
  PROVE  /\ ClassifyBlocked(ip) \in ip
         /\ ip \cap Dangerous # {} => ClassifyBlocked(ip) # "private"
<1>. DEFINE Least(f) == \A g \in ip : Precedence[f] <= Precedence[g]
<1>1. ip \subseteq Flags
  BY DEF Addresses
<1>2. \E f \in ip : Least(f)
  <2>1. CASE "loopback" \in ip
    BY <1>1, <2>1, PrecedenceValues DEF Flags
  <2>2. CASE "loopback" \notin ip /\ "link-local" \in ip
    BY <1>1, <2>2, PrecedenceValues DEF Flags
  <2>3. CASE "loopback" \notin ip /\ "link-local" \notin ip /\ "multicast" \in ip
    BY <1>1, <2>3, PrecedenceValues DEF Flags
  <2>4. CASE ip \subseteq {"unspecified", "private"} /\ "unspecified" \in ip
    BY <1>1, <2>4, PrecedenceValues DEF Flags
  <2>5. CASE ip = {"private"}
    BY <2>5, PrecedenceValues
  <2> QED
    BY <1>1, <2>1, <2>2, <2>3, <2>4, <2>5 DEF Flags
<1>3. ClassifyBlocked(ip) = CHOOSE f \in ip : Least(f)
  BY DEF ClassifyBlocked
<1>4. ClassifyBlocked(ip) \in ip /\ Least(ClassifyBlocked(ip))
  BY <1>2, <1>3
<1> QED
  BY <1>1, <1>4, PrecedenceValues DEF Dangerous, Flags

\* What the loop of validate_outbound_url lets through.
LEMMA AllowedAddress ==
  ASSUME NEW host, NEW ip \in Addresses, NEW listed, AddressAllowed(host, ip, listed)
  PROVE  /\ ip \cap Dangerous # {} => host \in UnsafeHosts
         /\ "private" \in ip => host \in UnsafeHosts \cup PrivateHosts \cup listed
<1>1. CASE ip = {}
  BY <1>1
<1>2. CASE ip # {}
  <2>1. ClassifyBlocked(ip) \in ip /\ "none" \notin ip
    BY <1>2, Classification DEF Addresses, Flags
  <2>2. CASE IsUnsafeAllowlisted(host)
    BY <2>2 DEF IsUnsafeAllowlisted
  <2>3. CASE ~IsUnsafeAllowlisted(host)
    <3>1. ClassifyBlocked(ip) = "private" /\ IsPrivateAllowlisted(host, listed)
      BY <2>1, <2>3 DEF AddressAllowed
    <3> QED
      BY <1>2, <3>1, Classification DEF IsPrivateAllowlisted
  <2> QED
    BY <2>2, <2>3
<1> QED
  BY <1>1, <1>2

-----------------------------------------------------------------------------
(* Only allowed contacts.                                                  *)

\* The URL about to be contacted passed the policy with what was checked.
Admitted(url) ==
  /\ ValidateOutboundUrl(url, checked.addresses, checked.listed)
  /\ checked.addresses \subseteq Addresses

ContactInv ==
  /\ dns \in [Hosts -> SUBSET Addresses]
  /\ pc = "send" => Admitted(conn.url)
  /\ pc = "auth_send" => Admitted(checked.url)
  /\ OnlyAllowedContacts

\* A URL that guarded_send goes on with was admitted by what it checked.
LEMMA ChecksAdmits ==
  ASSUME ContactInv, NEW url, NEW next \in {"send", "auth_send"}, Checks(url, next)
  PROVE  /\ pc' = next \/ pc' = "end"
         /\ pc' = next => /\ ValidateOutboundUrl(url, checked'.addresses, checked'.listed)
                          /\ checked'.addresses \subseteq Addresses /\ checked'.url = url
<1>. DEFINE addresses == IF url.host \in Hosts THEN dns[url.host] ELSE Unresolvable
<1>1. addresses \subseteq Addresses
  BY DEF ContactInv, Unresolvable
<1>2. PICK listed \in {tenant, {}} :
        \/ /\ ValidateOutboundUrl(url, addresses, listed)
           /\ checked' = [url |-> url, addresses |-> addresses, listed |-> listed]
           /\ pc' = next
        \/ pc' = "end"
  BY DEF Checks, Fail
<1> QED
  BY <1>1, <1>2

\* Contacting an admitted URL reaches an allowed address, or a rebound one.
LEMMA ConnectsAllowed ==
  ASSUME NEW url, Admitted(url), Connects(url)
  PROVE  OnlyAllowedContacts'
<1>1. PICK ip \in dns[url.host] :
        contact' = [url |-> url, ip |-> ip, listed |-> checked.listed,
                    rebound |-> ip \notin checked.addresses]
  BY DEF Connects
<1>2. ~url.creds /\ (url.scheme = "https" \/ IsHttpSchemeAllowed(url.host))
  BY DEF Admitted, ValidateOutboundUrl
<1>3. ASSUME ip \in checked.addresses
      PROVE  /\ ip \cap Dangerous # {} => url.host \in UnsafeHosts
             /\ "private" \in ip
                  => url.host \in UnsafeHosts \cup PrivateHosts \cup checked.listed
  BY <1>3, AllowedAddress DEF Admitted, ValidateOutboundUrl
<1> QED
  BY <1>1, <1>2, <1>3 DEF OnlyAllowedContacts, Dangerous, IsHttpSchemeAllowed

\* Nothing has been contacted when fetch() begins.
LEMMA ContactInit == Init => ContactInv
BY FetchAssumption DEF Init, ContactInv, OnlyAllowedContacts

\* No step of the call or of its surroundings leads to a contact ruled out.
LEMMA ContactStep ==
  ASSUME ContactInv, [Next]_vars
  PROVE  ContactInv'
<1>. USE DEF worldVars, authVars, codeVars, countVars
<1>1. CASE Start \/ Prepare \/ AuthReceive \/ Resume
  BY <1>1 DEF ContactInv, OnlyAllowedContacts, Start, Prepare, AuthReceive, Resume, Inject, Fail
<1>2. CASE AuthValidate
  <2>1. ASSUME NEW url, Checks(url, "auth_send") PROVE ContactInv'
    BY <1>2, <2>1, ChecksAdmits DEF ContactInv, OnlyAllowedContacts, Admitted, AuthValidate
  <2> QED
    BY <1>2, <2>1 DEF ContactInv, OnlyAllowedContacts, AuthValidate, Fail
<1>3. CASE Validate
  BY <1>3, ChecksAdmits DEF ContactInv, OnlyAllowedContacts, Admitted, Validate
<1>4. CASE AuthSend
  <2>1. OnlyAllowedContacts'
    <3>1. CASE Connects(checked.url)
      BY <1>4, <3>1, ConnectsAllowed DEF ContactInv, AuthSend
    <3>2. CASE contact' = NoContact
      BY <3>2 DEF OnlyAllowedContacts
    <3> QED
      BY <1>4, <3>1, <3>2 DEF AuthSend
  <2>2. pc' \in {"auth_receive", "end"}
    BY <1>4 DEF AuthSend, AnswerBlocked, Fail
  <2> QED
    BY <1>4, <2>1, <2>2 DEF ContactInv, AuthSend
<1>5. CASE Send
  <2>1. OnlyAllowedContacts'
    <3>1. CASE Connects(conn.url)
      BY <1>5, <3>1, ConnectsAllowed DEF ContactInv, Send
    <3>2. CASE contact' = NoContact
      BY <3>2 DEF OnlyAllowedContacts
    <3> QED
      BY <1>5, <3>1, <3>2 DEF Send
  <2>2. pc' \in {"prepare", "yielded", "end"}
    BY <1>5 DEF Send, Refused, Delivered, Malformed, AnswerBlocked, Fail
  <2> QED
    BY <1>5, <2>1, <2>2 DEF ContactInv, Send
<1>6. CASE World
  <2>1. dns' \in [Hosts -> SUBSET Addresses]
    BY <1>6, FetchAssumption DEF ContactInv, World, Tick, Revoke, DnsChange, ListChange
  <2> QED
    BY <1>6, <2>1 DEF ContactInv, OnlyAllowedContacts, Admitted, World
<1>7. CASE UNCHANGED vars
  BY <1>7 DEF ContactInv, OnlyAllowedContacts, Admitted, vars
<1> QED
  BY <1>1, <1>2, <1>3, <1>4, <1>5, <1>6, <1>7 DEF Next, Progress

\* Whatever the connections, allow-lists and DNS answers, and however they change
\* during a call, guarded_send contacts nothing that the policy rules out.
THEOREM ContactsAreAllowed == Spec => []OnlyAllowedContacts
<1>1. ContactInv => OnlyAllowedContacts
  BY DEF ContactInv
<1> QED
  BY <1>1, ContactInit, ContactStep, PTL DEF Spec

-----------------------------------------------------------------------------
(* One re-authentication.                                                  *)

\* What the second attempt at a page adds to the bounds of the first.
Second == IF again THEN 1 ELSE 0

\* Requests and acquisitions of the page so far, by where the call is: an
\* acquisition is behind or under way from "auth" on, a request from "yielded" on.
ReauthInv ==
  /\ again \in BOOLEAN /\ sent \in Nat /\ acquired \in Nat
  /\ pc \in {"start", "prepare"} => acquired <= Second
  /\ pc \in {"auth", "auth_send", "auth_receive", "validate", "send"}
       => acquired <= Second + 1
  /\ pc \in {"start", "prepare", "auth", "auth_send", "auth_receive", "validate", "send"}
       => sent <= Second
  /\ OneReauthentication

\* No page has been requested when fetch() begins.
LEMMA ReauthInit == Init => ReauthInv
<1> SUFFICES ASSUME Init PROVE ReauthInv
  OBVIOUS
<1>1. again \in BOOLEAN /\ ~again
  BY DEF Init
<1>2. sent = 0 /\ acquired = 0
  BY DEF Init
<1> QED
  BY <1>1, <1>2 DEF ReauthInv, Second, OneReauthentication

\* Every step keeps within the bounds of where it leads.
LEMMA ReauthStep ==
  ASSUME ReauthInv, [Next]_vars
  PROVE  ReauthInv'
<1>. USE DEF ReauthInv, Second, OneReauthentication, worldVars, authVars, codeVars, countVars
<1>1. CASE Start
  BY <1>1 DEF Start, Fail
<1>2. CASE Prepare
  BY <1>2 DEF Prepare, Fail
<1>3. CASE AuthValidate
  BY <1>3 DEF AuthValidate, Checks, Fail
<1>4. CASE AuthSend
  BY <1>4 DEF AuthSend, AnswerBlocked, Fail
<1>5. CASE AuthReceive
  BY <1>5 DEF AuthReceive, Inject, Fail
<1>6. CASE Validate
  BY <1>6 DEF Validate, Checks, Fail
<1>7. CASE Send
  <2>1. sent' \in {sent, sent + 1} /\ acquired' = acquired
    BY <1>7 DEF Send
  <2>2. CASE ~again /\ again' = TRUE /\ pc' = "prepare"
    BY <1>7, <2>1, <2>2 DEF Send
  <2>3. CASE again' = again /\ pc' \in {"yielded", "end"}
    BY <1>7, <2>1, <2>3 DEF Send
  <2> QED
    BY <1>7, <2>2, <2>3 DEF Send, Refused, Delivered, Malformed, AnswerBlocked, Fail
<1>8. CASE Resume
  <2>1. CASE again' = FALSE /\ sent' = 0 /\ acquired' = 0
    <3>1. again' \in BOOLEAN /\ ~again'
      BY <2>1
    <3> QED
      BY <2>1, <3>1
  <2>2. CASE pc' = "end" /\ UNCHANGED <<again, sent, acquired>>
    BY <2>2
  <2> QED
    BY <1>8, <2>1, <2>2 DEF Resume
<1>9. CASE World
  BY <1>9 DEF World
<1>10. CASE UNCHANGED vars
  BY <1>10 DEF vars
<1> QED
  BY <1>1, <1>2, <1>3, <1>4, <1>5, <1>6, <1>7, <1>8, <1>9, <1>10 DEF Next, Progress

\* However short-lived or unwanted the tokens are, a page costs at most two
\* requests and two acquisitions (_send_with_auth_retry).
THEOREM ReauthenticatesOnce == Spec => []OneReauthentication
<1>1. ReauthInv => OneReauthentication
  BY DEF ReauthInv
<1> QED
  BY <1>1, ReauthInit, ReauthStep, PTL DEF Spec

-----------------------------------------------------------------------------
(* Stale tokens.                                                           *)

\* The token was asked for on behalf of the attempt that is being made.
Fresh(token) == token.page = page /\ token.again = again

\* Where the tokens of the call come from: the values of an acquisition are of
\* this attempt, and so are, in the second attempt at a page, the cached token
\* and the one in the request.
FreshInv ==
  /\ conn \in Connections /\ again \in BOOLEAN
  /\ context = [n \in Names |-> context[n]]
  /\ pc \notin {"auth", "auth_send", "auth_receive", "end"} => context = NoContext
  /\ pc \in {"auth", "auth_send", "auth_receive"}
       => conn.kind = "token" /\ \A n \in Names : context[n] # NoToken => Fresh(context[n])
  /\ pc = "auth_receive" => Fresh(reply.token)
  /\ again /\ cache # NoToken => Fresh(cache.token)
  /\ again /\ conn.kind = "token" /\ pc \in {"validate", "send"} => Fresh(header)
  /\ outcome = "denied" => pc = "end"
  /\ StaleTokenNeverFatal

\* There are no tokens when fetch() begins.
LEMMA FreshInit == Init => FreshInv
BY DEF Init, FreshInv, NoContext, StaleTokenNeverFatal

\* The values at the end of an iteration of _acquire are of this attempt.
LEMMA ExtractedFresh ==
  ASSUME FreshInv, pc = "auth_receive", NEW as
  PROVE  /\ Extracted(as) = [n \in Names |-> Extracted(as)[n]]
         /\ \A n \in Names : Extracted(as)[n] # NoToken => Fresh(Extracted(as)[n])
<1>1. CASE as = NoName
  BY <1>1 DEF FreshInv, Extracted
<1>2. CASE as # NoName
  <2>1. Extracted(as) = [context EXCEPT ![as] = reply.token]
    BY <1>2 DEF Extracted
  <2>2. Extracted(as) = [n \in Names |-> IF n = as THEN reply.token ELSE context[n]]
    BY <2>1 DEF FreshInv
  <2> QED
    BY <2>2 DEF FreshInv
<1> QED
  BY <1>1, <1>2

\* Every step keeps track of the attempt its tokens belong to.
LEMMA FreshStep ==
  ASSUME FreshInv, [Next]_vars
  PROVE  FreshInv'
<1>. USE DEF FreshInv, Fresh, StaleTokenNeverFatal, worldVars, authVars, codeVars, countVars
<1>1. CASE Start
  BY <1>1 DEF Start, Fail
<1>2. CASE Prepare
  BY <1>2 DEF Prepare, Fail, IsExpired, NoContext
<1>3. CASE AuthValidate
  BY <1>3 DEF AuthValidate, Checks, Fail
<1>4. CASE AuthSend
  BY <1>4 DEF AuthSend, AnswerBlocked, Fail, Token
<1>5. CASE AuthReceive
  <2>. DEFINE ctx == Extracted(conn.steps[step].as)
  <2>1. /\ ctx = [n \in Names |-> ctx[n]]
        /\ \A n \in Names : ctx[n] # NoToken => Fresh(ctx[n])
    BY <1>5, ExtractedFresh DEF AuthReceive
  <2>2. conn.final \in Names
    BY FetchAssumption DEF IsConnection
  <2>3. NoContext = [n \in Names |-> NoContext[n]]
    BY DEF NoContext
  <2>. HIDE DEF ctx
  <2>4. CASE step < LastStep /\ pc' = "auth" /\ context' = ctx
             /\ UNCHANGED <<outcome, page, yielded, again, header, cache>>
    BY <1>5, <2>1, <2>4 DEF AuthReceive
  <2>5. CASE Fail("auth") /\ context' = NoContext /\ UNCHANGED cache
    BY <1>5, <2>3, <2>5 DEF AuthReceive, Fail
  <2>6. CASE /\ ctx[conn.final] # NoToken
             /\ context' = NoContext
             /\ cache' = [token |-> ctx[conn.final],
                          deadline |-> ExtractExpiresAt(reply.life), got |-> clock]
             /\ Inject(ctx[conn.final])
    <3>1. Fresh(ctx[conn.final]) /\ cache'.token = ctx[conn.final]
      BY <2>1, <2>2, <2>6
    <3> QED
      BY <1>5, <2>3, <2>6, <3>1 DEF AuthReceive, Inject, Fail
  <2> QED
    BY <1>5, <2>4, <2>5, <2>6 DEF AuthReceive, ctx
<1>6. CASE Validate
  BY <1>6 DEF Validate, Checks, Fail
<1>7. CASE Send
  <2>1. UNCHANGED <<conn, context, page>> /\ context = NoContext /\ outcome # "denied"
    BY <1>7 DEF Send, Refused, Delivered, Malformed, AnswerBlocked, Fail
  <2>2. CASE Refused
    <3>1. CASE again' = TRUE /\ pc' = "prepare" /\ cache' = NoToken /\ UNCHANGED outcome
      BY <2>1, <3>1
    <3>2. CASE (conn.kind = "none" \/ again) /\ Fail("denied") /\ UNCHANGED cache
      BY <1>7, <2>1, <3>2 DEF Fail, Send
    <3> QED
      BY <2>2, <3>1, <3>2 DEF Refused
  <2>3. CASE /\ pc' \in {"yielded", "end"} /\ outcome' # "denied"
             /\ UNCHANGED <<cache, header, again>>
    BY <2>1, <2>3
  <2> QED
    BY <1>7, <2>1, <2>2, <2>3 DEF Send, Delivered, Malformed, AnswerBlocked, Fail
<1>8. CASE Resume
  <2>1. UNCHANGED <<conn, context, cache>> /\ context = NoContext /\ outcome # "denied"
    BY <1>8 DEF Resume
  <2>2. CASE again' = FALSE /\ pc' = "prepare" /\ UNCHANGED outcome
    <3>1. again' \in BOOLEAN /\ ~again'
      BY <2>2
    <3> QED
      BY <2>1, <2>2, <3>1
  <2>3. CASE pc' = "end" /\ outcome' # "denied" /\ UNCHANGED <<page, again, header>>
    BY <2>1, <2>3
  <2> QED
    BY <1>8, <2>2, <2>3 DEF Resume, AfterPage, AfterYield
<1>9. CASE World
  BY <1>9 DEF World
<1>10. CASE UNCHANGED vars
  BY <1>10 DEF vars
<1> QED
  BY <1>1, <1>2, <1>3, <1>4, <1>5, <1>6, <1>7, <1>8, <1>9, <1>10 DEF Next, Progress

\* A token that went stale, by time or by revocation, never fails a run: the
\* refusal that ends the call is of a token acquired for this page after the
\* page's first refusal (invalidate, _send_with_auth_retry).
THEOREM StaleTokensAreReplaced == Spec => []StaleTokenNeverFatal
<1>1. FreshInv => StaleTokenNeverFatal
  BY DEF FreshInv
<1> QED
  BY <1>1, FreshInit, FreshStep, PTL DEF Spec

-----------------------------------------------------------------------------
(* Types, and the age of a token.                                          *)

\* The cached token is older than its cache entry, which is not of the future;
\* a deadline is the safety margin before the end of the token's life, counted
\* from the moment the answer arrived.
Dated(c) ==
  /\ c.token # NoToken
  /\ c.token.issued <= c.got /\ c.got <= clock
  /\ c.deadline # Never =>
       LET life == c.token.dies - c.token.issued IN
       life \in Nat /\ c.deadline = c.got + (IF life > Margin THEN life - Margin ELSE 0)

\* The answer that has just been sent has the token's lifetime, if any.
Answered ==
  /\ reply \in Replies
  /\ reply.token.issued <= clock
  /\ reply.life # Never => reply.token.dies = reply.token.issued + reply.life

\* From the first page on there is a token to reuse, unless the source refused it.
HasToken ==
  /\ pc = "start" => yielded = 0
  /\ conn.kind = "token" =>
       /\ pc \in {"validate", "send", "yielded"} => cache # NoToken
       /\ pc = "prepare" /\ ~again /\ yielded # 0 => cache # NoToken

TokenInv ==
  /\ TypeOK /\ clock \in Nat /\ epoch \in Nat
  /\ pc = "auth_receive" => Answered
  /\ ExpiryIsTokens /\ cache # NoToken => Dated(cache)
  /\ HasToken

\* There is no token when fetch() begins.
LEMMA TokenInit == Init => TokenInv
<1> SUFFICES ASSUME Init PROVE TokenInv
  OBVIOUS
<1>1. page \in Pages
  BY FetchAssumption, SourceAssumption DEF Init, FirstPage, Cursors, None, Pages
<1>2. again \in BOOLEAN
  BY DEF Init
<1>3. context \in [Names -> Tokens \cup {NoToken}]
  BY DEF Init, NoContext
<1>4. dns \in [Hosts -> DnsAnswers] /\ tenant \subseteq Hosts
  BY FetchAssumption DEF Init
<1>5. TypeOK
  BY <1>1, <1>2, <1>3, <1>4 DEF Init, TypeOK, Categories
<1>6. pc = "start" /\ cache = NoToken /\ yielded = 0 /\ clock = 0 /\ epoch = 0
  BY DEF Init
<1> QED
  BY <1>5, <1>6 DEF TokenInv, HasToken

\* A token issued now, for a request of the call.
LEMMA TokenType ==
  ASSUME TokenInv, NEW life \in Nat
  PROVE  /\ Token(life) \in Tokens
         /\ Token(life).issued = clock /\ Token(life).dies = clock + life
BY DEF TokenInv, TypeOK, Token, Tokens

\* A failing step keeps the types.
LEMMA FailType ==
  ASSUME TokenInv, NEW category \in Categories \ {"open"}, Fail(category),
         UNCHANGED <<conn, dns, tenant, clock, epoch>>,
         cache' = NoToken \/ cache' \in CachedTokens,
         step' \in Nat, context' \in [Names -> Tokens \cup {NoToken}],
         reply' = NoToken \/ reply' \in Replies,
         ExpiryIsTokens /\ cache' # NoToken => Dated(cache)'
  PROVE  TokenInv'
<1>1. TypeOK'
  BY DEF Fail, TokenInv, TypeOK
<1> QED
  BY <1>1 DEF Fail, TokenInv, HasToken, ExpiryIsTokens, LastStep

\* The answer's value is the one that final_token_from names, when the last
\* step extracts it.
LEMMA FinalToken ==
  ASSUME conn \in Connections, context \in [Names -> Tokens \cup {NoToken}], ExpiryIsTokens,
         step = LastStep
  PROVE  Extracted(conn.steps[step].as)[conn.final] = reply.token
<1>1. conn.final \in Names /\ conn.final # NoName
  BY FetchAssumption DEF IsConnection
<1>2. conn.steps[step].as = conn.final
  BY DEF ExpiryIsTokens
<1> QED
  BY <1>1, <1>2 DEF Extracted

\* A step that leads on, with everything of the call but its tokens as it was.
LEMMA GoesOnType ==
  ASSUME TokenInv, pc # "end",
         pc' \in {"prepare", "auth", "auth_send", "auth_receive", "validate", "send", "yielded"},
         UNCHANGED <<outcome, page, conn, dns, tenant, clock, epoch>>,
         yielded' \in Nat, again' \in BOOLEAN, header' \in Tokens \cup {NoToken},
         cache' = NoToken \/ cache' \in CachedTokens,
         step' \in Nat, context' \in [Names -> Tokens \cup {NoToken}],
         reply' = NoToken \/ reply' \in Replies
  PROVE  TypeOK' /\ clock' \in Nat /\ epoch' \in Nat
BY DEF TokenInv, TypeOK

\* A cached token stays dated while time passes or stands still.
LEMMA DatedStays ==
  ASSUME TokenInv, clock' \in Nat, clock <= clock', UNCHANGED <<conn, cache>>
  PROVE  (ExpiryIsTokens /\ cache # NoToken => Dated(cache))'
<1> SUFFICES ASSUME ExpiryIsTokens, cache # NoToken PROVE Dated(cache)'
  BY DEF ExpiryIsTokens, LastStep
<1>1. Dated(cache) /\ cache \in CachedTokens
  BY DEF TokenInv, TypeOK
<1>2. cache.got \in Nat /\ cache.got <= clock'
  BY <1>1 DEF Dated, CachedTokens, TokenInv
<1> QED
  BY <1>1, <1>2 DEF Dated

\* A step of the call that ends it, or that leads to a request.
LEMMA CheckStep ==
  ASSUME TokenInv, NEW url, NEW next \in {"send", "auth_send"}, Checks(url, next),
         pc # "end", next = "send" => pc = "validate",
         UNCHANGED <<cache, authVars, worldVars>>
  PROVE  TokenInv'
<1>. USE DEF worldVars, authVars
<1>0. ExpiryIsTokens /\ cache' # NoToken => Dated(cache)'
  BY DatedStays DEF TokenInv, ExpiryIsTokens, LastStep
<1>1. CASE Fail("blocked")
  BY <1>0, <1>1, FailType DEF TokenInv, TypeOK, Categories
<1>2. CASE pc' = next /\ UNCHANGED <<outcome, page, yielded, again, header>>
  <2>1. TypeOK' /\ clock' \in Nat /\ epoch' \in Nat
    BY <1>2, GoesOnType DEF TokenInv, TypeOK
  <2>2. HasToken'
    BY <1>2 DEF TokenInv, HasToken
  <2>3. (ExpiryIsTokens /\ cache # NoToken => Dated(cache))'
    BY DatedStays DEF TokenInv
  <2> QED
    BY <1>2, <2>1, <2>2, <2>3 DEF TokenInv
<1> QED
  BY <1>1, <1>2 DEF Checks

\* Every step keeps the types, and the dates of the tokens it handles.
LEMMA TokenStep ==
  ASSUME TokenInv, FreshInv, [Next]_vars
  PROVE  TokenInv'
<1>. USE DEF worldVars, authVars, codeVars, countVars
<1>0. /\ TypeOK /\ clock \in Nat /\ epoch \in Nat /\ HasToken
      /\ ExpiryIsTokens /\ cache # NoToken => Dated(cache)
  BY DEF TokenInv
<1>1. ASSUME UNCHANGED <<conn, cache, clock>>
      PROVE  /\ (ExpiryIsTokens /\ cache # NoToken => Dated(cache))'
             /\ ExpiryIsTokens /\ cache' # NoToken => Dated(cache)'
  BY <1>0, <1>1, DatedStays DEF ExpiryIsTokens, LastStep
<1>2. ASSUME NEW category \in Categories \ {"open"}, Fail(category),
             UNCHANGED <<conn, cache, dns, tenant, clock, epoch>>,
             UNCHANGED <<step, context>>, reply' = reply \/ reply' = NoToken
      PROVE  TokenInv'
  BY <1>0, <1>1, <1>2, FailType DEF TypeOK
<1>3. CASE Start
  <2>1. CASE pc' = "prepare" /\ UNCHANGED <<outcome, page, yielded, again, header>>
    <3>1. TypeOK' /\ clock' \in Nat /\ epoch' \in Nat
      BY <1>0, <1>3, <2>1, GoesOnType DEF Start, TypeOK
    <3>2. HasToken'
      BY <1>0, <1>3, <2>1 DEF Start, HasToken
    <3> QED
      BY <1>1, <1>3, <2>1, <3>1, <3>2 DEF Start, TokenInv
  <2>2. CASE Fail("config") \/ Fail("unexpected")
    BY <1>2, <1>3, <2>2 DEF Start, Categories
  <2> QED
    BY <1>3, <2>1, <2>2 DEF Start
<1>4. CASE Prepare
  <2>1. UNCHANGED <<conn, cache, dns, tenant, clock, epoch>> /\ UNCHANGED authVars /\ pc = "prepare"
    BY <1>4 DEF Prepare
  <2>2. CASE Fail("auth") \/ Fail("config")
    BY <1>2, <2>1, <2>2 DEF Categories
  <2>3. CASE /\ UNCHANGED <<outcome, page, yielded, again>>
             /\ header' \in Tokens \cup {NoToken} /\ pc' \in {"validate", "auth"}
             /\ conn.kind = "token" /\ pc' = "validate" => cache # NoToken
    <3>1. TypeOK' /\ clock' \in Nat /\ epoch' \in Nat
      BY <1>0, <2>1, <2>3, GoesOnType DEF TypeOK
    <3>2. HasToken'
      BY <1>0, <2>1, <2>3 DEF HasToken
    <3> QED
      BY <1>1, <2>1, <2>3, <3>1, <3>2 DEF TokenInv
  <2>4. ~IsExpired(cache) => cache # NoToken /\ cache.token \in Tokens
    BY <1>0 DEF IsExpired, TypeOK, CachedTokens
  <2>5. header \in Tokens \cup {NoToken}
    BY <1>0 DEF TypeOK
  <2> QED
    BY <1>4, <2>2, <2>3, <2>4, <2>5 DEF Prepare
<1>5. CASE AuthValidate
  <2>1. CASE Fail("config")
    BY <1>2, <1>5, <2>1 DEF AuthValidate, Categories
  <2>2. ASSUME NEW url, Checks(url, "auth_send") PROVE TokenInv'
    BY <1>5, <2>2, CheckStep DEF AuthValidate
  <2> QED
    BY <1>5, <2>1, <2>2 DEF AuthValidate
<1>6. CASE Validate
  BY <1>6, CheckStep DEF Validate
<1>7. CASE AuthSend
  <2>1. UNCHANGED <<conn, cache, dns, tenant, clock, epoch, step, context>> /\ pc = "auth_send"
    BY <1>7 DEF AuthSend
  <2>2. CASE (Fail("auth") \/ AnswerBlocked) /\ UNCHANGED reply
    BY <1>2, <2>1, <2>2 DEF AnswerBlocked, Categories
  <2>3. ASSUME NEW life \in Lifetimes, NEW readable \in BOOLEAN,
               reply' = [token |-> Token(life), life |-> IF readable THEN life ELSE Never],
               pc' = "auth_receive", UNCHANGED <<outcome, page, yielded, again, header>>
        PROVE  TokenInv'
    <3>1. life \in Nat
      BY FetchAssumption
    <3>2. PICK token \in Tokens :
            token = Token(life) /\ token.issued = clock /\ token.dies = clock + life
      BY <3>1, TokenType
    <3>3. PICK n \in Nat \cup {Never} : n = (IF readable THEN life ELSE Never) /\ n \in {life, Never}
      BY <3>1
    <3>4. reply' = [token |-> token, life |-> n]
      BY <2>3, <3>2, <3>3
    <3>5. reply' \in Replies /\ reply'.token = token /\ reply'.life = n
      BY <3>4 DEF Replies
    <3>6. TypeOK' /\ clock' \in Nat /\ epoch' \in Nat
      BY <1>0, <2>1, <2>3, <3>5, GoesOnType DEF TypeOK
    <3>7. Answered'
      BY <1>0, <2>1, <3>1, <3>2, <3>3, <3>5 DEF Answered
    <3>8. HasToken'
      BY <2>3 DEF HasToken
    <3> QED
      BY <1>1, <2>1, <2>3, <3>6, <3>7, <3>8 DEF TokenInv
  <2> QED
    BY <1>7, <2>2, <2>3 DEF AuthSend
<1>8. CASE AuthReceive
  <2>. DEFINE ctx == Extracted(conn.steps[step].as)
  <2>1. UNCHANGED <<conn, dns, tenant, clock, epoch>> /\ pc = "auth_receive" /\ reply' = NoToken
    BY <1>8 DEF AuthReceive
  <2>2. Answered /\ reply.token \in Tokens
    BY <2>1 DEF TokenInv, Answered, Replies
  <2>3. ctx \in [Names -> Tokens \cup {NoToken}]
    BY <1>0, <2>2 DEF TypeOK, Extracted
  <2>4. NoContext \in [Names -> Tokens \cup {NoToken}] /\ conn.final \in Names
    BY <1>0, FetchAssumption DEF NoContext, TypeOK, IsConnection
  <2>5. ExpiryIsTokens /\ step = LastStep => ctx[conn.final] = reply.token
    BY <1>0, FinalToken DEF TypeOK
  <2>. HIDE DEF ctx
  <2>6. CASE /\ step' = step + 1 /\ context' = ctx /\ pc' = "auth"
             /\ UNCHANGED <<outcome, page, yielded, again, header, cache>>
    <3>1. TypeOK' /\ clock' \in Nat /\ epoch' \in Nat
      BY <1>0, <2>1, <2>3, <2>6, GoesOnType DEF TypeOK
    <3>2. HasToken'
      BY <2>6 DEF HasToken
    <3> QED
      BY <1>1, <2>1, <2>6, <3>1, <3>2 DEF TokenInv
  <2>7. CASE Fail("auth") /\ step' = 1 /\ context' = NoContext /\ UNCHANGED cache
    BY <1>0, <1>1, <2>1, <2>4, <2>7, FailType DEF TypeOK, Categories
  <2>8. CASE /\ step = LastStep /\ ctx[conn.final] # NoToken
             /\ step' = 1 /\ context' = NoContext
             /\ cache' = [token |-> ctx[conn.final], deadline |-> ExtractExpiresAt(reply.life),
                          got |-> clock]
             /\ Inject(ctx[conn.final])
    <3>1. PICK token \in Tokens : token = ctx[conn.final] /\ token # NoToken
      BY <2>3, <2>4, <2>8
    <3>2. reply.life \in Nat \cup {Never} /\ Margin \in Nat
      BY <2>2, FetchAssumption DEF Answered, Replies
    <3>3. PICK d \in Nat \cup {Never} : d = ExtractExpiresAt(reply.life)
      <4>1. PICK n : n = reply.life
        OBVIOUS
      <4>2. n # Never => clock + (IF n > Margin THEN n - Margin ELSE 0) \in Nat
        BY <1>0, <3>2, <4>1
      <4> QED
        BY <4>1, <4>2 DEF ExtractExpiresAt
    <3>4. cache' = [token |-> token, deadline |-> d, got |-> clock]
      BY <2>8, <3>1, <3>3
    <3>5. /\ cache' \in CachedTokens /\ cache' # NoToken
          /\ cache'.token = token /\ cache'.deadline = d /\ cache'.got = clock
      BY <1>0, <3>4, FetchAssumption DEF CachedTokens
    <3>6. ASSUME ExpiryIsTokens PROVE Dated(cache)'
      <4>1. token = reply.token
        BY <2>5, <2>8, <3>1, <3>6
      <4>2. token.issued <= clock /\ token.issued \in Nat /\ token.dies \in Nat
        BY <2>2, <4>1 DEF Answered, Tokens
      <4>3. ASSUME d # Never
            PROVE  LET life == token.dies - token.issued IN
                   life \in Nat /\ d = clock + (IF life > Margin THEN life - Margin ELSE 0)
        <5>1. reply.life # Never /\ reply.life \in Nat
          BY <3>2, <3>3, <4>3 DEF ExtractExpiresAt
        <5>2. token.dies = token.issued + reply.life
          BY <2>2, <4>1, <5>1 DEF Answered
        <5>3. token.dies - token.issued = reply.life
          BY <4>2, <5>1, <5>2
        <5> QED
          BY <3>3, <5>1, <5>3 DEF ExtractExpiresAt
      <4> QED
        BY <1>0, <2>1, <3>1, <3>5, <4>2, <4>3 DEF Dated
    <3>7. (ExpiryIsTokens => Dated(cache))' /\ (ExpiryIsTokens /\ cache' # NoToken => Dated(cache)')
      BY <2>1, <3>6 DEF ExpiryIsTokens, LastStep
    <3>8. CASE Fail("config")
      BY <1>0, <2>1, <2>4, <2>8, <3>5, <3>7, <3>8, FailType DEF Categories
    <3>9. CASE header' = ctx[conn.final] /\ pc' = "validate" /\ UNCHANGED <<outcome, page, yielded, again>>
      <4>1. TypeOK' /\ clock' \in Nat /\ epoch' \in Nat
        BY <1>0, <2>1, <2>4, <2>8, <3>1, <3>5, <3>9, GoesOnType DEF TypeOK
      <4>2. HasToken'
        BY <3>5, <3>9 DEF HasToken
      <4> QED
        BY <3>7, <3>9, <4>1, <4>2 DEF TokenInv
    <3> QED
      BY <2>8, <3>8, <3>9 DEF Inject
  <2> QED
    BY <1>8, <2>6, <2>7, <2>8 DEF AuthReceive, ctx
<1>9. CASE Send
  <2>1. UNCHANGED <<conn, dns, tenant, clock, epoch>> /\ UNCHANGED authVars /\ pc = "send"
    BY <1>9 DEF Send
  <2>2. ASSUME NEW category \in Categories \ {"open"}, Fail(category), UNCHANGED cache
        PROVE  TokenInv'
    BY <1>2, <2>1, <2>2
  <2>3. CASE /\ again' = TRUE /\ pc' = "prepare" /\ cache' = NoToken /\ header' = NoToken
             /\ UNCHANGED <<outcome, page, yielded>>
    <3>1. TypeOK' /\ clock' \in Nat /\ epoch' \in Nat
      BY <1>0, <2>1, <2>3, GoesOnType DEF TypeOK
    <3>2. HasToken'
      BY <2>3 DEF HasToken
    <3> QED
      BY <2>3, <3>1, <3>2 DEF TokenInv
  <2>4. CASE pc' = "yielded" /\ UNCHANGED <<outcome, page, yielded, again, header, cache>>
    <3>1. TypeOK' /\ clock' \in Nat /\ epoch' \in Nat
      BY <1>0, <2>1, <2>4, GoesOnType DEF TypeOK
    <3>2. HasToken'
      BY <1>0, <2>1, <2>4 DEF HasToken
    <3> QED
      BY <1>1, <2>1, <2>4, <3>1, <3>2 DEF TokenInv
  <2> QED
    BY <1>9, <2>2, <2>3, <2>4 DEF Send, Refused, Delivered, Malformed, AnswerBlocked, Categories
<1>10. CASE Resume
  <2>1. /\ UNCHANGED <<conn, dns, tenant, clock, epoch, cache>> /\ UNCHANGED authVars
        /\ pc = "yielded" /\ yielded' = yielded + 1 /\ yielded' \in Nat
    BY <1>0, <1>10 DEF Resume, TypeOK
  <2>2. CASE /\ AfterPage = "more" /\ page' = page + 1 /\ pc' = "prepare"
             /\ again' = FALSE /\ header' = NoToken /\ UNCHANGED outcome
    <3>1. page' \in Pages
      BY <1>0, <2>2, SourceAssumption
         DEF TypeOK, AfterPage, AfterYield, NextCursor, HasRecords, DataPages, Pages, None
    <3>2. again' \in BOOLEAN
      BY <2>2
    <3>3. TypeOK' /\ clock' \in Nat /\ epoch' \in Nat
      BY <1>0, <2>1, <2>2, <3>1, <3>2 DEF TypeOK
    <3>4. HasToken'
      BY <1>0, <2>1, <2>2 DEF HasToken
    <3> QED
      BY <1>1, <2>1, <2>2, <3>3, <3>4 DEF TokenInv
  <2>3. CASE AfterPage # "more" /\ outcome' = AfterPage /\ pc' = "end" /\ UNCHANGED <<page, again, header>>
    <3>1. outcome' \in Categories \ {"open"}
      BY <2>3 DEF AfterPage, AfterYield, Categories
    <3>2. TypeOK' /\ clock' \in Nat /\ epoch' \in Nat
      BY <1>0, <2>1, <2>3, <3>1 DEF TypeOK
    <3> QED
      BY <1>1, <2>1, <2>3, <3>2 DEF TokenInv, HasToken
  <2> QED
    BY <1>10, <2>2, <2>3 DEF Resume
<1>11. CASE World
  <2>1. /\ UNCHANGED <<conn, cursor>> /\ UNCHANGED codeVars /\ UNCHANGED authVars
        /\ clock' \in {clock, clock + 1} /\ epoch' \in {epoch, epoch + 1}
        /\ dns' \in [Hosts -> DnsAnswers] /\ tenant' \subseteq Hosts
    BY <1>0, <1>11 DEF World, Tick, Revoke, DnsChange, ListChange, TypeOK
  <2>2. TypeOK' /\ clock' \in Nat /\ epoch' \in Nat /\ clock <= clock'
    BY <1>0, <2>1 DEF TypeOK
  <2>3. (ExpiryIsTokens /\ cache # NoToken => Dated(cache))'
    BY <2>1, <2>2, DatedStays
  <2>4. (pc = "auth_receive" => Answered)'
    BY <1>0, <2>1, <2>2 DEF TokenInv, Answered, Replies, Tokens
  <2> QED
    BY <1>0, <2>1, <2>2, <2>3, <2>4 DEF TokenInv, HasToken
<1>12. CASE UNCHANGED vars
  BY <1>12 DEF vars, TokenInv, TypeOK, Answered, HasToken, Dated, ExpiryIsTokens, LastStep
<1> QED
  BY <1>3, <1>4, <1>5, <1>6, <1>7, <1>8, <1>9, <1>10, <1>11, <1>12 DEF Next, Progress

\* The invariant holds in every reachable state.
LEMMA TokenInvariant == Spec => [](TokenInv /\ FreshInv)
<1>1. Init => TokenInv /\ FreshInv
  BY TokenInit, FreshInit
<1>2. TokenInv /\ FreshInv /\ [Next]_vars => (TokenInv /\ FreshInv)'
  BY TokenStep, FreshStep
<1> QED
  BY <1>1, <1>2, PTL DEF Spec

\* The variables of the call have their types, and it is over exactly when it
\* has an outcome.
THEOREM FetchTypeCorrect == Spec => []TypeOK
<1>1. TokenInv /\ FreshInv => TypeOK
  BY DEF TokenInv
<1> QED
  BY <1>1, TokenInvariant, PTL

\* The safety margin covers the time an answer takes: a cached token whose
\* deadline has not passed is still honoured by its issuer, whatever lifetimes
\* it issues and however the clock runs between the steps, unless it revoked the
\* token or its answer took longer than the margin.
THEOREM CachedTokensAreLive == Spec => []CachedTokenIsLive
<1>1. TokenInv => CachedTokenIsLive
  <2> SUFFICES ASSUME TokenInv, ExpiryIsTokens, ~IsExpired(cache), cache.deadline # Never,
                      cache.token.epoch = epoch, cache.got <= cache.token.issued + Margin
               PROVE  Live(cache.token)
    BY DEF CachedTokenIsLive
  <2>1. cache # NoToken /\ ~(clock >= cache.deadline)
    BY DEF IsExpired
  <2>2. Dated(cache) /\ cache \in CachedTokens /\ clock \in Nat /\ Margin \in Nat
    BY <2>1, FetchAssumption DEF TokenInv, TypeOK
  <2>3. /\ cache.token.issued \in Nat /\ cache.token.dies \in Nat /\ cache.got \in Nat
        /\ cache.deadline \in Nat
    BY <2>2 DEF CachedTokens, Tokens
  <2>4. PICK life \in Nat :
          /\ cache.token.dies = cache.token.issued + life
          /\ cache.deadline = cache.got + (IF life > Margin THEN life - Margin ELSE 0)
    BY <2>2, <2>3 DEF Dated
  <2>5. clock < cache.token.dies
    BY <2>1, <2>2, <2>3, <2>4 DEF Dated
  <2> QED
    BY <2>2, <2>5 DEF Live, Dated
<1> QED
  BY <1>1, TokenInvariant, PTL

\* A token is acquired only for the first request, after a refusal, or when the
\* cached one is at most the safety margin away from its end.
THEOREM TokensAreReused == Spec => TokenReused
<1> DEFINE Needed == \/ yielded = 0 \/ again
                     \/ cache # NoToken /\ cache.token.dies <= clock + Margin
<1>1. TokenInv /\ [Next]_vars => [pc = "prepare" /\ pc' = "auth" /\ ExpiryIsTokens => Needed]_vars
  <2> SUFFICES ASSUME TokenInv, Next, pc = "prepare", pc' = "auth", ExpiryIsTokens, yielded # 0, ~again
               PROVE  cache # NoToken /\ cache.token.dies <= clock + Margin
    OBVIOUS
  <2>1. Prepare
    BY DEF Next, Progress, Start, AuthValidate, AuthSend, AuthReceive, Validate, Send, Resume,
       World, codeVars
  <2>2. IsExpired(cache)
    BY <2>1 DEF Prepare, Fail
  <2>3. cache # NoToken
    BY DEF TokenInv, HasToken, ExpiryIsTokens
  <2>4. /\ Dated(cache) /\ cache \in CachedTokens /\ clock \in Nat /\ Margin \in Nat
        /\ cache.deadline # Never /\ clock >= cache.deadline
    BY <2>2, <2>3, FetchAssumption DEF TokenInv, TypeOK, IsExpired
  <2>5. /\ cache.token.issued \in Nat /\ cache.token.dies \in Nat /\ cache.got \in Nat
        /\ cache.deadline \in Nat
    BY <2>4 DEF CachedTokens, Tokens
  <2>6. PICK life \in Nat :
          /\ cache.token.dies = cache.token.issued + life
          /\ cache.deadline = cache.got + (IF life > Margin THEN life - Margin ELSE 0)
    BY <2>4, <2>5 DEF Dated
  <2> QED
    BY <2>3, <2>4, <2>5, <2>6 DEF Dated
<1> QED
  BY <1>1, TokenInvariant, PTL DEF Spec, TokenReused

-----------------------------------------------------------------------------
(* The refinement.                                                         *)

\* The status that the caller sees.
Status ==
  IF pc = "yielded" THEN "yielded"
  ELSE IF outcome = "open" THEN "fetch"
  ELSE IF outcome \in {"done", "limit"} THEN outcome
  ELSE IF outcome \in Retryable THEN "retryable" ELSE "final"

\* The operators of the source are the same in both modules.
LEMMA SameSource ==
  /\ \A p : Stream!Yields(p) = Yields(p)
  /\ \A p : Stream!NextCursor(p) = NextCursor(p)
  /\ \A n, y : Stream!AfterYield(n, y) = AfterYield(n, y)
  /\ \A c : Stream!FirstPage(c) = FirstPage(c)
  /\ Stream!Cursors = Cursors
BY DEF Stream!Yields, Yields, Stream!NextCursor, NextCursor, Stream!AfterYield, AfterYield,
   Stream!FirstPage, FirstPage, Stream!Cursors, Cursors, Stream!HasRecords, HasRecords,
   Stream!DataPages, DataPages, Stream!None, None

\* fetch() begins as the stream does.
LEMMA StreamInit == Init => Stream!Init
<1> SUFFICES ASSUME Init PROVE Stream!Init
  OBVIOUS
<1>1. cursor \in Cursors /\ page = FirstPage(cursor) /\ yielded = 0 /\ Status = "fetch"
  BY FetchAssumption DEF Init, Status
<1> QED
  BY <1>1, SameSource DEF Stream!Init, Status

\* A failing step of a call that waits for a page is an error of the stream.
LEMMA StreamFails ==
  ASSUME TypeOK, pc \notin {"yielded", "end"}, NEW category \in Categories \ {"open", "done", "limit"},
         Fail(category), UNCHANGED cursor
  PROVE  Stream!Fail
<1>1. Status = "fetch"
  BY DEF Status, TypeOK
<1>2. Status' \in {"retryable", "final"} /\ UNCHANGED <<page, yielded>>
  BY DEF Status, Fail, Retryable
<1> QED
  BY <1>1, <1>2 DEF Stream!Fail, Stream!Errors, Status

\* A step between two requests is none of the stream.
LEMMA StreamStutters ==
  ASSUME TypeOK, pc \notin {"yielded", "end"}, pc' \notin {"yielded", "end"},
         UNCHANGED <<outcome, cursor, page, yielded>>
  PROVE  UNCHANGED Stream!streamVars
<1>1. Status = "fetch" /\ Status' = "fetch"
  BY DEF Status, TypeOK
<1> QED
  BY <1>1 DEF Stream!streamVars, Status

\* Every step of the call is one of the stream, or none.
LEMMA StreamStep ==
  ASSUME TypeOK, [Next]_vars
  PROVE  [Stream!Next]_(Stream!streamVars)
<1>. USE DEF worldVars, codeVars, countVars
<1>1. CASE Start
  BY <1>1, StreamFails, StreamStutters DEF Start, Categories, Stream!Next
<1>2. CASE Prepare
  BY <1>2, StreamFails, StreamStutters DEF Prepare, Categories, Stream!Next
<1>3. CASE AuthValidate
  BY <1>3, StreamFails, StreamStutters DEF AuthValidate, Checks, Categories, Stream!Next
<1>4. CASE AuthSend
  BY <1>4, StreamFails, StreamStutters DEF AuthSend, AnswerBlocked, Categories, Stream!Next
<1>5. CASE AuthReceive
  BY <1>5, StreamFails, StreamStutters DEF AuthReceive, Inject, Categories, Stream!Next
<1>6. CASE Validate
  BY <1>6, StreamFails, StreamStutters DEF Validate, Checks, Categories, Stream!Next
<1>7. CASE Send
  <2>1. UNCHANGED cursor /\ pc = "send" /\ Status = "fetch"
    BY <1>7 DEF Send, Status, TypeOK
  <2>2. ASSUME NEW category \in Categories \ {"open", "done", "limit"}, Fail(category)
        PROVE  Stream!Next
    BY <2>1, <2>2, StreamFails DEF Stream!Next
  <2>3. CASE Delivered
    <3>1. CASE Yields(page)
      <4>1. Status' = "yielded" /\ UNCHANGED <<page, yielded>>
        BY <2>3, <3>1 DEF Delivered, Status
      <4> QED
        BY <2>1, <3>1, <4>1, SameSource DEF Stream!Next, Stream!Fetch, Status
    <3>2. CASE ~Yields(page)
      <4>1. Status' = "done" /\ UNCHANGED <<page, yielded>>
        BY <2>3, <3>2 DEF Delivered, Fail, Status
      <4> QED
        BY <2>1, <3>2, <4>1, SameSource DEF Stream!Next, Stream!Fetch, Status
    <3> QED
      BY <3>1, <3>2
  <2>4. CASE pc' = "prepare" /\ UNCHANGED <<outcome, page, yielded>>
    BY <2>1, <2>4, StreamStutters
  <2> QED
    BY <1>7, <2>2, <2>3, <2>4 DEF Send, Refused, Malformed, AnswerBlocked, Categories
<1>8. CASE Resume
  <2>1. /\ UNCHANGED cursor /\ pc = "yielded" /\ Status = "yielded" /\ outcome = "open"
        /\ yielded' = yielded + 1
    BY <1>8 DEF Resume, Status, TypeOK
  <2>2. CASE AfterPage = "more" /\ page' = page + 1 /\ pc' = "prepare" /\ UNCHANGED outcome
    <3>1. Status' = "fetch"
      BY <2>1, <2>2 DEF Status
    <3> QED
      BY <2>1, <2>2, <3>1, SameSource DEF AfterPage, Stream!Next, Stream!Resume, Status
  <2>3. CASE AfterPage # "more" /\ outcome' = AfterPage /\ pc' = "end" /\ UNCHANGED page
    <3>1. AfterPage \in {"done", "limit"}
      BY <2>3 DEF AfterPage, AfterYield
    <3>2. Status' = AfterPage
      BY <2>3, <3>1 DEF Status
    <3> QED
      BY <2>1, <2>3, <3>2, SameSource DEF AfterPage, Stream!Next, Stream!Resume, Status
  <2> QED
    BY <1>8, <2>2, <2>3 DEF Resume
<1>9. CASE World
  <2>1. UNCHANGED <<cursor, page, yielded>> /\ Status' = Status
    BY <1>9 DEF World, Status
  <2> QED
    BY <2>1 DEF Stream!streamVars, Status
<1>10. CASE UNCHANGED vars
  <2>1. UNCHANGED <<cursor, page, yielded>> /\ Status' = Status
    BY <1>10 DEF vars, Status
  <2> QED
    BY <2>1 DEF Stream!streamVars, Status
<1> QED
  BY <1>1, <1>2, <1>3, <1>4, <1>5, <1>6, <1>7, <1>8, <1>9, <1>10 DEF Next, Progress

\* Tokens, policy and HTTP exchanges included, fetch() is the source that a run
\* steps through: pages one by one from the cursor on, each in the caller's hands
\* before the next is requested, and an end as PageStream allows it.
THEOREM FetchIsAStream == Spec => Stream!Safety
<1>1. TokenInv /\ FreshInv /\ [Next]_vars => [Stream!Next]_(Stream!streamVars)
  BY StreamStep DEF TokenInv
<1> QED
  BY <1>1, StreamInit, TokenInvariant, PTL DEF Spec, Stream!Safety
=============================================================================
