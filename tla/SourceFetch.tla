---------------------------- MODULE SourceFetch ----------------------------
(***************************************************************************)
(* One fetch() call of the REST source with its authentication provider    *)
(* and the outbound policy (connectors/sources/rest_api.py, authproviders, *)
(* core/outbound_http.py): page requests that carry a cached token, token  *)
(* acquisition in one or several HTTP steps, the single re-authentication  *)
(* after a 401 or 403, and the check of every URL before it is contacted.  *)
(*                                                                         *)
(* Around the call, time passes, the source revokes what it issued, DNS    *)
(* answers change and the tenant edits its allow-list, between any two     *)
(* steps.  A tick of the clock is the provider's safety margin divided by  *)
(* Margin.                                                                 *)
(***************************************************************************)
EXTENDS RestSource, OutboundPolicy, Sequences

CONSTANTS
  StartCursors,     \* cursors fetch() may be called with
  Connections,      \* configurations, of which one is used
  Names,            \* names of values extracted by authentication steps
  NoName,           \* a step without "extract"
  DnsAnswers,       \* what a host may resolve to
  InitialDns,       \* what the hosts resolve to at first
  Lifetimes,        \* expires_in of a token, in ticks
  Margin,           \* _EXPIRY_SAFETY_MARGIN_SECONDS, in ticks
  Never,            \* expires_at = None
  NoToken, NoContact, Unchecked,
  MaxEvents         \* bound: changes of the surroundings

\* No provider, one that sends a stored secret (api_key, basic, bearer), one that
\* acquires tokens (token_endpoint, multi_step_token), or none that is registered.
Kinds == {"none", "static", "token", "unknown"}

\* One authentication request: the URLs that its placeholders may turn into, the
\* names they refer to, and the name its value is extracted under.
Steps == [urls : SUBSET Urls \ {{}}, needs : SUBSET Names, as : Names \cup {NoName}]

\* A connection: whether _validate_config accepts it, its URL, and for the
\* provider its kind, whether the credential is well-formed, whether
\* inject_header is a header name, the steps and final_token_from.
IsConnection(c) ==
  /\ c.config \in BOOLEAN /\ c.url \in Urls /\ c.kind \in Kinds
  /\ c.valid \in BOOLEAN /\ c.header \in BOOLEAN
  /\ c.steps \in Seq(Steps) /\ c.final \in Names
  /\ c.kind = "token" /\ c.valid => Len(c.steps) \in 1 .. 5

\* A token as its issuer knows it: when it was issued and dies, in which epoch
\* of revocations, and for which request it was asked for.
Tokens ==
  [issued : Nat, dies : Nat, epoch : Nat, page : Pages, again : BOOLEAN]

\* CachedToken, with the moment it was cached.
CachedTokens == [token : Tokens, deadline : Nat \cup {Never}, got : Nat]

\* An authentication step's answer: the extracted value and expires_in.
Replies == [token : Tokens, life : Nat \cup {Never}]

ASSUME FetchAssumption ==
  /\ StartCursors \subseteq Cursors
  /\ \A c \in Connections : IsConnection(c)
  /\ NoName \notin Names
  /\ DnsAnswers \subseteq SUBSET Addresses
  /\ InitialDns \subseteq [Hosts -> DnsAnswers]
  /\ Lifetimes \subseteq Nat /\ Margin \in Nat
  /\ NoToken \notin CachedTokens
  /\ MaxEvents \in Nat

VARIABLES
  conn, cursor,   \* the connection's configuration and fetch()'s argument
  pc,         \* the code's next step
  outcome,    \* "open", or how the call ended
  page,       \* the page being requested
  yielded,    \* pages the caller is done with
  again,      \* the page is being requested a second time
  cache,      \* the provider's CachedToken, or NoToken
  header,     \* the token in the request, or NoToken
  step, context, reply,   \* _acquire: its loop, extracted values, last answer
  checked,    \* what validate_outbound_url went by, until the request is sent
  clock, epoch, dns, tenant, events,   \* the surroundings and their changes
  sent, acquired,         \* history: page requests and acquisitions for this page
  contact                 \* the connection made by the code's last step

codeVars == <<pc, outcome, page, yielded, again, cache, header>>
authVars == <<step, context, reply>>
worldVars == <<conn, cursor, clock, epoch, dns, tenant, events>>
countVars == <<sent, acquired>>
vars == <<codeVars, authVars, checked, worldVars, countVars, contact>>

Categories ==
  {"open", "done", "limit", "transient", "denied", "rejected", "malformed",
   "auth", "config", "blocked", "unexpected"}

\* FetchFailed(retryable=True); every other error of a fetch is final.
Retryable == {"transient"}

-----------------------------------------------------------------------------
(* Tokens.                                                                 *)

\* The token that the issuer hands out now.
Token(life) ==
  [issued |-> clock, dies |-> clock + life, epoch |-> epoch, page |-> page,
   again |-> again]

\* The source accepts the token.
Live(token) == token # NoToken /\ token.epoch = epoch /\ clock < token.dies

\* Mutant: a token without a deadline counts as expired.
IsExpiredWithoutDeadline(cached) ==
  cached # NoToken => IF cached.deadline = Never THEN TRUE ELSE clock >= cached.deadline

\* is_expired
IsExpired(cached) ==
  cached # NoToken => cached.deadline # Never /\ clock >= cached.deadline

\* Mutant: expires_in is taken as it is, without the safety margin.
ExtractExpiresAtNoMargin(life) == IF life = Never THEN Never ELSE clock + life

\* extract_expires_at, read when the answer has arrived.
ExtractExpiresAt(life) ==
  IF life = Never THEN Never
  ELSE clock + (IF life > Margin THEN life - Margin ELSE 0)

LastStep == Len(conn.steps)

\* The names that earlier steps of this acquisition have extracted.
Produced == {n \in Names : context[n] # NoToken}

NoContext == [n \in Names |-> NoToken]

\* _validate_config accepts the source's configuration.
ConfigValid == conn.config

\* The credential has the shape the provider requires: validate_credential_shape,
\* or the URL, method, timeout and extract checks of the token providers.
StaticValid == conn.valid
CredentialValid == conn.valid

\* validate_header_name accepts inject_header.
HeaderValid == conn.header

\* substitute_placeholders finds every name that the step refers to.
Resolves(s) == s.needs \subseteq Produced

\* The context with the value extracted from the step's answer.
Extracted(as) == IF as = NoName THEN context ELSE [context EXCEPT ![as] = reply.token]

-----------------------------------------------------------------------------
(* The call.                                                               *)

\* Mutant: the error is noted and the loop goes on.
FailGoesOn(category) ==
  /\ outcome' = category
  /\ pc' = "prepare"
  /\ UNCHANGED <<page, yielded, again, header>>

\* The call ends, with an error unless the category is "done".
Fail(category) ==
  /\ outcome' = category
  /\ pc' = "end"
  /\ UNCHANGED <<page, yielded, again, header>>

\* A redirect, or a body larger than the deployment allows.
AnswerBlocked == Fail("blocked")

\* _parse_json and _extract_records: not JSON, or no list of records.
Malformed == Fail("malformed")

\* fetch() begins: _validate_config and the provider's class.
Start ==
  /\ pc = "start"
  /\ \/ /\ ConfigValid /\ conn.kind # "unknown"
        /\ pc' = "prepare"
        /\ UNCHANGED <<outcome, page, yielded, again, header>>
     \/ ~ConfigValid /\ Fail("config")
     \/ ConfigValid /\ conn.kind = "unknown" /\ Fail("unexpected")
  /\ UNCHANGED <<cache, authVars, checked, worldVars, countVars>>
  /\ contact' = NoContact

\* The end of prepare_request: inject_header is validated, the token injected.
Inject(token) ==
  \/ /\ HeaderValid
     /\ header' = token
     /\ pc' = "validate"
     /\ UNCHANGED <<outcome, page, yielded, again>>
  \/ ~HeaderValid /\ Fail("config")

\* _build_request with prepare_request: no provider, a static one (whose
\* credential is validated each time), a cached token (inject_header passed when
\* it was first used), or the start of _acquire, which validates the credential
\* before its first request.
Prepare ==
  /\ pc = "prepare"
  /\ \/ /\ conn.kind = "none" \/ (conn.kind = "static" /\ StaticValid)
        /\ pc' = "validate"
        /\ header' = NoToken
        /\ UNCHANGED <<outcome, page, yielded, again, authVars, acquired>>
     \/ /\ conn.kind = "static" /\ ~StaticValid
        /\ Fail("auth")
        /\ UNCHANGED <<authVars, acquired>>
     \/ /\ conn.kind = "token" /\ ~IsExpired(cache)
        /\ header' = cache.token
        /\ pc' = "validate"
        /\ UNCHANGED <<outcome, page, yielded, again, authVars, acquired>>
     \/ /\ conn.kind = "token" /\ IsExpired(cache) /\ ~CredentialValid
        /\ Fail("config")
        /\ UNCHANGED <<authVars, acquired>>
     \/ /\ conn.kind = "token" /\ IsExpired(cache) /\ CredentialValid
        /\ pc' = "auth"
        /\ acquired' = acquired + 1
        /\ UNCHANGED <<authVars, outcome, page, yielded, again, header>>
  /\ contact' = NoContact
  /\ UNCHANGED <<cache, checked, worldVars, sent>>

\* validate_outbound_url at the head of guarded_send.  The tenant's list is
\* empty when it cannot be read.
Checks(url, next) ==
  \E listed \in {tenant, {}} :
    LET addresses == IF url.host \in Hosts THEN dns[url.host] ELSE Unresolvable IN
    \/ /\ ValidateOutboundUrl(url, addresses, listed)
       /\ checked' = [url |-> url, addresses |-> addresses, listed |-> listed]
       /\ pc' = next
       /\ UNCHANGED <<outcome, page, yielded, again, header>>
    \/ /\ ~ValidateOutboundUrl(url, addresses, listed)
       /\ Fail("blocked")
       /\ UNCHANGED checked

\* client.send: httpx resolves the host a second time.
Connects(url) ==
  \E ip \in dns[url.host] :
    contact' = [url |-> url, ip |-> ip, listed |-> checked.listed,
                rebound |-> ip \notin checked.addresses]

\* One iteration of _acquire up to its request: placeholders, in the URL too, and
\* then the policy.
AuthValidate ==
  LET s == conn.steps[step] IN
  /\ pc = "auth"
  /\ \/ Resolves(s) /\ \E url \in s.urls : Checks(url, "auth_send")
     \/ ~Resolves(s) /\ Fail("config") /\ UNCHANGED checked
  /\ UNCHANGED <<cache, authVars, worldVars, countVars>>
  /\ contact' = NoContact

\* The request is sent and answered: by a value with a lifetime that may be
\* unreadable, by an error or an answer without the value, or by a redirect or
\* an oversized body, which the policy refuses.  Every failure is final.
AuthSend ==
  /\ pc = "auth_send"
  /\ \/ /\ Connects(checked.url)
        /\ \/ /\ \E life \in Lifetimes, readable \in BOOLEAN :
                   reply' = [token |-> Token(life), life |-> IF readable THEN life ELSE Never]
              /\ pc' = "auth_receive"
              /\ UNCHANGED <<outcome, page, yielded, again, header>>
           \/ (Fail("auth") \/ AnswerBlocked) /\ UNCHANGED reply
     \/ Fail("auth") /\ contact' = NoContact /\ UNCHANGED reply
  /\ checked' = Unchecked
  /\ UNCHANGED <<cache, step, context, worldVars, sent, acquired>>

\* The answer arrives: the value joins the context under its name, in place of
\* an earlier one.  After the last step final_token_from names the token; its
\* expiry is that of the last answer.
AuthReceive ==
  LET ctx == Extracted(conn.steps[step].as) IN
  /\ pc = "auth_receive"
  /\ \/ /\ step < LastStep
        /\ step' = step + 1
        /\ context' = ctx
        /\ pc' = "auth"
        /\ UNCHANGED <<outcome, page, yielded, again, header, cache>>
     \/ /\ step = LastStep /\ ctx[conn.final] = NoToken
        /\ Fail("auth")
        /\ step' = 1 /\ context' = NoContext
        /\ UNCHANGED cache
     \/ /\ step = LastStep /\ ctx[conn.final] # NoToken
        /\ step' = 1 /\ context' = NoContext
        /\ cache' = [token |-> ctx[conn.final], deadline |-> ExtractExpiresAt(reply.life),
                     got |-> clock]
        /\ Inject(ctx[conn.final])
  /\ reply' = NoToken
  /\ UNCHANGED <<checked, worldVars, countVars>>
  /\ contact' = NoContact

Validate ==
  /\ pc = "validate"
  /\ Checks(conn.url, "send")
  /\ UNCHANGED <<cache, authVars, worldVars, countVars>>
  /\ contact' = NoContact

\* The page's records go to the caller, or an empty page ends the iteration.
Delivered ==
  IF Yields(page)
    THEN pc' = "yielded" /\ UNCHANGED <<outcome, page, yielded, again, header>>
    ELSE Fail("done")

\* Mutant: the refused token stays in the cache.
RefusedKeepsCache ==
  \/ /\ conn.kind # "none" /\ ~again
     /\ again' = TRUE
     /\ pc' = "prepare"
     /\ UNCHANGED <<outcome, page, yielded, header, cache>>
  \/ (conn.kind = "none" \/ again) /\ Fail("denied") /\ UNCHANGED cache

\* Mutant: every refusal is answered by another authentication.
RefusedLoops ==
  /\ again' = TRUE
  /\ pc' = "prepare"
  /\ cache' = NoToken
  /\ UNCHANGED <<outcome, page, yielded, header>>

\* A 401 or 403: with a provider, invalidate() and one more request for the same
\* page; static providers have nothing to invalidate.  Otherwise FetchFailed.
Refused ==
  \/ /\ conn.kind # "none" /\ ~again
     /\ again' = TRUE
     /\ pc' = "prepare"
     /\ cache' = NoToken /\ header' = NoToken
     /\ UNCHANGED <<outcome, page, yielded>>
  \/ (conn.kind = "none" \/ again) /\ Fail("denied") /\ UNCHANGED cache

\* _send and what _send_with_auth_retry and fetch() make of the answer.  A source
\* gives its records for a live token only; any other answer it may give to any.
Send ==
  /\ pc = "send"
  /\ \/ /\ Connects(conn.url)
        /\ sent' = sent + 1
        /\ \/ Refused
           \/ (conn.kind = "token" => Live(header)) /\ Delivered /\ UNCHANGED cache
           \/ /\ Malformed \/ Fail("rejected") \/ Fail("transient") \/ AnswerBlocked
              /\ UNCHANGED cache
     \/ Fail("transient") /\ contact' = NoContact /\ UNCHANGED <<cache, sent>>
  /\ checked' = Unchecked
  /\ UNCHANGED <<authVars, worldVars, acquired>>

\* Mutant: max_pages is compared before pages_yielded is incremented.
AfterPageCountsLate == AfterYield(NextCursor(page), yielded)

\* What follows the page in the caller's hands.
AfterPage == AfterYield(NextCursor(page), yielded + 1)

\* The caller, done with the page, resumes the generator.
Resume ==
  /\ pc = "yielded"
  /\ yielded' = yielded + 1
  /\ \/ /\ AfterPage = "more"
        /\ page' = page + 1
        /\ pc' = "prepare"
        /\ again' = FALSE /\ header' = NoToken
        /\ sent' = 0 /\ acquired' = 0
        /\ UNCHANGED outcome
     \/ /\ AfterPage # "more"
        /\ outcome' = AfterPage
        /\ pc' = "end"
        /\ UNCHANGED <<page, again, header, sent, acquired>>
  /\ contact' = NoContact
  /\ UNCHANGED <<cache, authVars, checked, worldVars>>

-----------------------------------------------------------------------------
(* The surroundings.                                                       *)

Tick ==
  /\ clock' = clock + 1
  /\ UNCHANGED <<epoch, dns, tenant>>

\* The source stops accepting what it has issued so far.
Revoke ==
  /\ epoch' = epoch + 1
  /\ UNCHANGED <<clock, dns, tenant>>

DnsChange ==
  /\ \E h \in Hosts, a \in DnsAnswers : dns' = [dns EXCEPT ![h] = a]
  /\ UNCHANGED <<clock, epoch, tenant>>

\* An AllowedOutboundHost row is added or removed.
ListChange ==
  /\ \E h \in Hosts :
       tenant' = IF h \in tenant THEN tenant \ {h} ELSE tenant \cup {h}
  /\ UNCHANGED <<clock, epoch, dns>>

World ==
  /\ outcome = "open"
  /\ events < MaxEvents
  /\ events' = events + 1
  /\ Tick \/ Revoke \/ DnsChange \/ ListChange
  /\ UNCHANGED <<conn, cursor, codeVars, authVars, checked, countVars, contact>>

Init ==
  /\ conn \in Connections /\ cursor \in StartCursors
  /\ pc = "start" /\ outcome = "open"
  /\ page = FirstPage(cursor) /\ yielded = 0 /\ again = FALSE
  /\ cache = NoToken /\ header = NoToken
  /\ step = 1 /\ context = NoContext /\ reply = NoToken
  /\ checked = Unchecked
  /\ clock = 0 /\ epoch = 0
  /\ dns \in InitialDns /\ tenant = {}
  /\ events = 0
  /\ sent = 0 /\ acquired = 0 /\ contact = NoContact

\* The worker and its HTTP peers.
Progress ==
  \/ Start \/ Prepare \/ AuthValidate \/ AuthSend \/ AuthReceive
  \/ Validate \/ Send \/ Resume

Next == Progress \/ World

\* Requests have timeouts and the caller resumes the generator or stops using
\* it; a call that is still in use goes on.
Spec == Init /\ [][Next]_vars /\ WF_vars(Progress)

-----------------------------------------------------------------------------
(* Properties.                                                             *)

\* The call's variables have their types, and it is over when it has an outcome.
TypeOK ==
  /\ conn \in Connections
  /\ pc \in {"start", "prepare", "auth", "auth_send", "auth_receive", "validate",
            "send", "yielded", "end"}
  /\ outcome \in Categories /\ (outcome = "open" <=> pc # "end")
  /\ page \in Pages /\ yielded \in Nat /\ again \in BOOLEAN
  /\ cache = NoToken \/ cache \in CachedTokens
  /\ header \in Tokens \cup {NoToken}
  /\ step \in Nat /\ context \in [Names -> Tokens \cup {NoToken}]
  /\ reply = NoToken \/ reply \in Replies
  /\ dns \in [Hosts -> DnsAnswers] /\ tenant \subseteq Hosts

\* A token that went stale, by time or by revocation, never fails a run: when
\* the source's refusal ends the call, the refused token was acquired for this
\* very page after the page's first refusal (_send_with_auth_retry, invalidate).
StaleTokenNeverFatal ==
  outcome = "denied" /\ conn.kind = "token" => header.page = page /\ header.again

\* However short-lived or unwanted the tokens are, a page costs at most two
\* requests and two acquisitions ("one re-auth-and-retry rather than looping
\* forever on a stale cached token", authproviders/base.py).
OneReauthentication == sent <= 2 /\ acquired <= 2

\* The token's value and its expiry come from the same answer.
ExpiryIsTokens == conn.kind = "token" /\ conn.steps[LastStep].as = conn.final

\* A cached token with a known expiry is not used beyond its life: while
\* is_expired says no, the issuer still honours it, unless it was revoked or its
\* answer took longer than the safety margin.
CachedTokenIsLive ==
  /\ ExpiryIsTokens
  /\ ~IsExpired(cache) /\ cache.deadline # Never
  /\ cache.token.epoch = epoch
  /\ cache.got <= cache.token.issued + Margin
  => Live(cache.token)

\* A token is reused across pages: a new one is acquired for the first request,
\* after a refusal, or when the cached one is at most the safety margin away
\* from its end.
TokenReused ==
  [][pc = "prepare" /\ pc' = "auth" /\ ExpiryIsTokens =>
       \/ yielded = 0 \/ again
       \/ cache # NoToken /\ cache.token.dies <= clock + Margin]_vars

\* Nothing is contacted that the policy rules out, authentication steps
\* included: no credentials in a URL, plain http only where it is permitted on
\* its own, an address of the dangerous kinds only for a host on the deployment's
\* unsafe list, a private one only for a listed host; the tenant's list counts as
\* it was when the URL was checked.  An answer of the second DNS lookup that the
\* check did not see is the documented exception.
OnlyAllowedContacts ==
  contact # NoContact =>
    LET host == contact.url.host IN
    /\ ~contact.url.creds
    /\ contact.url.scheme = "https" \/ IsHttpSchemeAllowed(host)
    /\ ~contact.rebound =>
         /\ contact.ip \cap {"loopback", "link-local", "multicast", "unspecified"} # {}
              => host \in UnsafeHosts
         /\ "private" \in contact.ip
              => host \in UnsafeHosts \cup PrivateHosts \cup contact.listed

\* The call, seen without tokens, policy and HTTP.
Stream == INSTANCE PageStream WITH
  status <- IF pc = "yielded" THEN "yielded"
            ELSE IF outcome = "open" THEN "fetch"
            ELSE IF outcome \in {"done", "limit"} THEN outcome
            ELSE IF outcome \in Retryable THEN "retryable" ELSE "final"

\* fetch() is the source that a run steps through: it implements PageStream,
\* its termination included.
ImplementsPageStream == Stream!Spec
=============================================================================
