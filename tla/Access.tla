------------------------------- MODULE Access -------------------------------
(***************************************************************************)
(* Who may do what: people who sign in at an OpenID Connect provider, the  *)
(* sessions they get, API tokens, and the access rules every request is    *)
(* judged by (agent/internal/api, agent/internal/oidc, store/access.go,    *)
(* store/tokens.go, pkg/api/signin.go).                                    *)
(*                                                                         *)
(* A sign-in redeems a code, has the ID token verified with the provider's *)
(* cached keys, uses up its nonce, reads the rules and only then stores a  *)
(* session.  A request looks its credential up, reads the rules again and  *)
(* is served or refused.  Admins change rules, tokens and sessions between *)
(* any two of those steps, the agent restarts, and the provider rotates    *)
(* its keys.  Time counts in ticks longer than a request to the provider   *)
(* may take (oidc.requestTimeout), so none passes while one is under way.  *)
(***************************************************************************)
EXTENDS Integers, Sequences, FiniteSets, SequencesExt

CONSTANTS
    Applications,   \* application names
    NameClaims,     \* the claims an operator may name people by
    NameOf,         \* [NameClaims -> names]: what the ID token says of the person
    DomainOf,       \* [names -> domain, or "" where the name is no address]
    Groups,         \* the groups the provider names for the person
    RuleChoices,    \* the rules an admin may write: [kind, subject, role, apps]
    TokenChoices,   \* what a token may be created with or changed to: [role, apps]
    TokenValues,    \* the values tokens are drawn from
    Codes,          \* sign-ins begun at the provider, each with its nonce
    SignIns,        \* sign-in requests that reach the agent
    Requests,       \* requests with a credential
    ProviderKeys,   \* the keys the provider may publish
    Templated,      \* whether the issuer is a provider's address for every tenant
    Tenants,        \* ids of tenants
    IDTokens,       \* what a token may claim: [iss, tid, aud, azp, age, life, nonce]
    MaxAge,         \* oidc.maxAge
    CacheFor,       \* oidc.cacheFor: how long fetched keys are used
    RefetchEvery,   \* oidc.keyRefetchEvery
    NonceKeptFor,   \* api.nonceKeptFor
    CodeLife,       \* how long the provider honours a code
    SessionLifetime,\* api.SessionLifetime
    SessionsKeptFor,\* store.sessionsKeptFor
    MaxRules,       \* api.MaxAccessRules
    FailedLimit,    \* api.failedAuthLimit
    FailedWindow,   \* api.failedAuthWindow, and rateLimitFor
    Budgets         \* the scenarios: how often each kind of event may happen, and
                    \* the configurations an operator chooses from

(* Keys and nonces are kept for some time, a nonce for as long as a code   *)
(* may be redeemed; an agent is restarted finitely often.                  *)
ASSUME AccessAssumption ==
    /\ ProviderKeys # {}
    /\ CacheFor \in Nat \ {0} /\ CodeLife \in Nat /\ NonceKeptFor \in Nat
    /\ CodeLife <= NonceKeptFor
    /\ \A b \in Budgets :
          /\ DOMAIN b = {"ticks", "rotations", "signins", "requests", "admin", "restarts",
                         "strict", "rules", "confs"}
          /\ b.restarts \in Nat /\ b.strict \subseteq BOOLEAN

VARIABLES
    now,       \* the agent's clock
    budget,    \* what is left of the scenario's events
    provider,  \* [keys, withdrawn, codes, strict]: the provider's own state
    cache,     \* [keys, at, refetched]: oidc.Provider's keys
    nonces,    \* signIn.nonces: when each nonce was used up, in memory
    limiter,   \* [fails, until]: rateLimiter, one address for every client
    conf,      \* [claim, tenants]: SHIPWICK_OIDC_NAME_CLAIM and _TENANTS, read
               \* when the agent starts
    rules,     \* the access_rules table, oldest first
    sessions,  \* the sessions table: every row ever, with its state and, in how
               \* many restarts were yet to come, the run that stored it
    tokens,    \* the tokens table, by value
    signin,    \* where each sign-in request is
    req,       \* where each request is
    told,      \* sessions whose holder was told they ended
    since      \* what the rules and rows gave each request since it arrived

accessVars == <<now, budget, provider, cache, nonces, limiter, conf, rules,
                sessions, tokens, signin, req, told, since>>

Never == -1
NoAccess == [role |-> "none", apps |-> {}]
Rank == [none |-> 0, read |-> 1, deploy |-> 2, admin |-> 3]
Covers(a, b) == Rank[a] >= Rank[b]
Grants == [role : {"read", "deploy", "admin"}, apps : SUBSET Applications]

-----------------------------------------------------------------------------
(* The rules.                                                              *)

GrantOf(r) == [role |-> r.role, apps |-> r.apps]

(* One group's rule joins what the groups before it gave: the higher role  *)
(* decides; at the same role the applications add up, and none is all.     *)
JoinGroup(best, r) ==
    LET g == GrantOf(r) IN
    CASE g.role # best.role -> IF Covers(g.role, best.role) THEN g ELSE best
      [] g.apps = {} \/ best.apps = {} -> [best EXCEPT !.apps = {}]
      [] OTHER -> [best EXCEPT !.apps = @ \cup g.apps]

(* A rule by name decides first, then one by address, the groups, the      *)
(* domain; rules by address and domain want a name that is an address.     *)
ResolveAccess(rs, name, groups) ==
    LET of(kind, who) == SelectSeq(rs, LAMBDA r : r.kind = kind /\ r.subject \in who)
        byName == of("name", {name})
        byEmail == of("email", IF DomainOf[name] = "" THEN {} ELSE {name})
        byGroup == of("group", groups)
        byDomain == of("domain", {DomainOf[name]} \ {""})
    IN CASE byName # <<>> -> GrantOf(Head(byName))
         [] byEmail # <<>> -> GrantOf(Last(byEmail))
         [] byGroup # <<>> -> FoldLeft(JoinGroup, GrantOf(Head(byGroup)), Tail(byGroup))
         [] byDomain # <<>> -> GrantOf(Last(byDomain))
         [] OTHER -> NoAccess

SameSubject(r, s) == r.kind = s.kind /\ r.subject = s.subject

(* A rule replaces the one for its subject where it stands; a new one is   *)
(* refused once MaxRules are stored.                                       *)
Granted(rs, r) ==
    IF \E i \in DOMAIN rs : SameSubject(rs[i], r)
    THEN [i \in DOMAIN rs |-> IF SameSubject(rs[i], r) THEN r ELSE rs[i]]
    ELSE IF Len(rs) >= MaxRules THEN rs ELSE Append(rs, r)

-----------------------------------------------------------------------------
(* The sessions table.                                                     *)

Live(s) == s \in DOMAIN sessions /\ sessions[s].state = "active"
Expired(s) == now >= sessions[s].expires

(* A session is stored, and rows long over are forgotten.                  *)
CreateSession(row) ==
    sessions' = Append([i \in DOMAIN sessions |->
                          IF sessions[i].expires < now - SessionsKeptFor
                          THEN [sessions[i] EXCEPT !.state = "gone"]
                          ELSE sessions[i]], row)

(* EndSession: the first reason stands.                                    *)
EndSession(ss, s) ==
    IF ss[s].state = "active" THEN [ss EXCEPT ![s].state = "ended"] ELSE ss

EndSessionsOf(ss, name) ==
    [s \in DOMAIN ss |->
        IF ss[s].name = name /\ ss[s].state = "active" /\ now < ss[s].expires
        THEN [ss[s] EXCEPT !.state = "ended"] ELSE ss[s]]

-----------------------------------------------------------------------------
(* The limiter of failed authentications.                                  *)

Limited == now < limiter.until

(* The failures still within the window.                                   *)
Recent == SelectSeq(limiter.fails, LAMBDA t : t > now - FailedWindow)

Failed ==
    LET fails == Append(Recent, now) IN
    IF Len(fails) >= FailedLimit
    THEN [fails |-> <<>>, until |-> now + FailedWindow]
    ELSE [limiter EXCEPT !.fails = fails]

-----------------------------------------------------------------------------
(* What the provider's ID token is believed with.                          *)

Fresh == cache.at # Never /\ now - cache.at < CacheFor

(* keysFor answers from memory while the set is fresh and the key known,   *)
(* or when an unknown key made it ask a moment ago.                        *)
CacheServes(k) ==
    Fresh /\ (k \in cache.keys \/ (cache.refetched # Never /\ now - cache.refetched < RefetchEvery))

(* firstUse: what is older than NonceKeptFor is forgotten before it looks. *)
FirstUse(n) == nonces[n] = Never \/ now - nonces[n] > NonceKeptFor

Used(n) == [c \in Codes |-> IF c = n THEN now
                            ELSE IF nonces[c] # Never /\ now - nonces[c] > NonceKeptFor
                                 THEN Never ELSE nonces[c]]

(* discover: a document for every tenant is taken only by an agent that is *)
(* told whose accounts may sign in.                                        *)
Discovers == Templated => conf.tenants # {}

(* Every tenant's tokens are issued in its own name.                       *)
issuedBy(t) ==
    IF Templated THEN t.tid \in Tenants /\ t.iss = t.tid ELSE t.iss = "own"

AnyTenant == "*" \in conf.tenants
TenantAllowed(tid) == conf.tenants = {} \/ AnyTenant \/ tid \in conf.tenants

(* Issued for this client alone, or to it; lately, and not over yet.       *)
believed(t) ==
    /\ issuedBy(t)
    /\ "client" \in t.aud
    /\ IF t.azp = "" THEN Cardinality(t.aud) = 1 ELSE t.azp = "client"
    /\ t.age \in 0 .. MaxAge /\ t.age < t.life
    /\ t.nonce

(* Where every tenant may sign in, a group is what the account's own       *)
(* tenant calls it, and no rule is met that way.                           *)
GroupsKept == IF AnyTenant THEN {} ELSE Groups

stillVouchedFor(row) == row.claim = conf.claim /\ TenantAllowed(row.tenant)

-----------------------------------------------------------------------------
(* What each request may be served with.                                   *)

(* Mutant: the session's row is taken at its word.                         *)
SessionVerdictTrusting(row) == "ok"

(* identifySession: what the rules give now, against what they gave when   *)
(* the session began.                                                      *)
SessionVerdict(row) ==
    LET grant == ResolveAccess(rules, row.name, row.groups) IN
    CASE ~stillVouchedFor(row) -> "ended"
      [] grant = NoAccess -> "ended"
      [] grant # row.grant -> "ended"
      [] OTHER -> "ok"

(* authorize: the role comes first; beyond reading, a limited caller has   *)
(* its role only for its applications.                                     *)
Authorized(who, need, app) ==
    /\ Covers(who.role, need)
    /\ \/ need = "read"
       \/ who.apps = {}
       \/ app \in who.apps

-----------------------------------------------------------------------------
NoSignIn == [phase |-> "idle", code |-> "", key |-> "", tid |-> "", ok |-> FALSE, signed |-> 0, grant |-> NoAccess, claim |-> ""]
NoReq == [phase |-> "idle", kind |-> "", cred |-> 0, row |-> NoAccess, who |-> NoAccess,
          app |-> "", need |-> "", late |-> FALSE]

AccessInit ==
    /\ now = 0
    /\ budget \in Budgets
    /\ \E strict \in budget.strict :
          provider = [keys |-> {CHOOSE k \in ProviderKeys : TRUE}, withdrawn |-> [j \in ProviderKeys |-> Never],
                      codes |-> [c \in Codes |-> [issued |-> Never, used |-> FALSE]],
                      strict |-> strict]
    /\ cache = [keys |-> {}, at |-> Never, refetched |-> Never]
    /\ nonces = [c \in Codes |-> Never]
    /\ limiter = [fails |-> <<>>, until |-> 0]
    /\ conf \in budget.confs
    /\ rules = budget.rules
    /\ sessions = <<>>
    /\ tokens = [v \in TokenValues |-> NoAccess]
    /\ signin = [a \in SignIns |-> NoSignIn]
    /\ req = [r \in Requests |-> NoReq]
    /\ told = {}
    /\ since = [r \in Requests |-> {}]

Spend(what) == budget[what] > 0 /\ budget' = [budget EXCEPT ![what] = @ - 1]

-----------------------------------------------------------------------------
(* The provider and the clock.                                             *)

Tick ==
    /\ Spend("ticks")
    /\ \A a \in SignIns : signin[a].phase # "redeemed"
    /\ now' = now + 1
    /\ UNCHANGED <<provider, cache, nonces, limiter, conf, rules, sessions, tokens, signin, req, told>>

(* A person signs in at the provider and the browser is sent back with a   *)
(* code.                                                                   *)
BeginSignIn(c) ==
    /\ provider.codes[c].issued = Never
    /\ provider' = [provider EXCEPT !.codes[c].issued = now]
    /\ UNCHANGED <<now, budget, cache, nonces, limiter, conf, rules, sessions, tokens, signin, req, told>>

(* The provider publishes another key in place of the one it signs with.   *)
RotateKeys(k) ==
    /\ Spend("rotations")
    /\ k \notin provider.keys /\ provider.withdrawn[k] = Never
    /\ provider' = [provider EXCEPT !.keys = {k},
                        !.withdrawn = [j \in ProviderKeys |-> IF j \in provider.keys THEN now ELSE @[j]]]
    /\ UNCHANGED <<now, cache, nonces, limiter, conf, rules, sessions, tokens, signin, req, told>>

(* The provider honours a code while it lives; a strict one only once.     *)
Redeems(c) ==
    /\ provider.codes[c].issued # Never
    /\ now - provider.codes[c].issued <= CodeLife
    /\ provider.strict => ~provider.codes[c].used

-----------------------------------------------------------------------------
(* handleSignIn.                                                           *)

Refuse(a, failure) ==
    /\ signin' = [signin EXCEPT ![a] = NoSignIn]
    /\ limiter' = IF failure THEN Failed ELSE limiter

(* The provider refuses the code, cannot be reached, or answers with a     *)
(* token: whatever its claims, signed by a key it publishes or, where a    *)
(* replica lags, published before.                                         *)
Exchange(a, c) ==
    \/ ~Discovers /\ Refuse(a, FALSE) /\ UNCHANGED provider
    \/ Discovers /\ ~Redeems(c) /\ Refuse(a, TRUE) /\ UNCHANGED provider
    \/ /\ Discovers /\ Redeems(c)
       /\ provider' = [provider EXCEPT !.codes[c].used = TRUE]
       /\ \/ Refuse(a, FALSE)
          \/ \E k \in provider.keys \cup {j \in ProviderKeys : provider.withdrawn[j] # Never}, t \in IDTokens :
                /\ signin' = [signin EXCEPT ![a] =
                       [NoSignIn EXCEPT !.phase = "redeemed", !.code = c, !.key = k, !.tid = t.tid, !.ok = believed(t)]]
                /\ UNCHANGED limiter

(* handleSignIn: the dashboard hands a code over.  An address that keeps   *)
(* failing costs the provider no further request.                          *)
handleSignIn(a, c) ==
    /\ signin[a].phase = "idle" /\ Spend("signins")
    /\ provider.codes[c].issued # Never
    /\ IF Limited THEN UNCHANGED <<signin, limiter, provider>> ELSE Exchange(a, c)
    /\ UNCHANGED <<now, cache, nonces, conf, rules, sessions, tokens, req, told>>

(* keysFor has to ask: the set is stored, or the provider does not answer  *)
(* and the sign-in fails as unavailable, which counts against nobody.      *)
FetchKeys(a) ==
    /\ signin[a].phase = "redeemed" /\ ~CacheServes(signin[a].key)
    /\ \/ /\ cache' = [keys |-> provider.keys, at |-> now, refetched |-> now]
          /\ UNCHANGED <<signin, limiter>>
       \/ /\ cache' = [cache EXCEPT !.refetched = now]
          /\ Refuse(a, FALSE)
    /\ UNCHANGED <<now, budget, provider, nonces, conf, rules, sessions, tokens, req, told>>

SignedBy(k) == k \in cache.keys

(* Verify and firstUse: a token by a key that is not in the set, one whose *)
(* claims are not to be believed, an account of a tenant that may not sign *)
(* in or a nonce used before fails the sign-in.                            *)
Verify(a) ==
    LET s == signin[a] IN
    /\ s.phase = "redeemed"
    /\ CacheServes(s.key)
    /\ IF SignedBy(s.key) /\ s.ok /\ TenantAllowed(s.tid) /\ FirstUse(s.code)
       THEN /\ nonces' = Used(s.code)
            /\ signin' = [signin EXCEPT ![a].phase = "verified", ![a].signed = now]
            /\ UNCHANGED limiter
       ELSE Refuse(a, TRUE) /\ UNCHANGED nonces
    /\ UNCHANGED <<now, budget, provider, cache, conf, rules, sessions, tokens, req, told>>

(* The claim in force names the person, unless it holds nothing a name may  *)
(* be made of.                                                              *)
personNamed == NameOf[conf.claim] # ""

(* The person is named and the rules are read: nobody they know is refused.*)
ReadRules(a) ==
    LET grant == IF personNamed THEN ResolveAccess(rules, NameOf[conf.claim], GroupsKept) ELSE NoAccess IN
    /\ signin[a].phase = "verified"
    /\ IF grant = NoAccess THEN Refuse(a, FALSE)
       ELSE /\ signin' = [signin EXCEPT ![a].phase = "resolved", ![a].grant = grant, ![a].claim = conf.claim]
            /\ UNCHANGED limiter
    /\ UNCHANGED <<now, budget, provider, cache, nonces, conf, rules, sessions, tokens, req, told>>

StoreSession(a) ==
    LET s == signin[a] IN
    /\ s.phase = "resolved"
    /\ CreateSession([code |-> s.code, name |-> NameOf[s.claim], claim |-> s.claim, tenant |-> s.tid, groups |-> GroupsKept,
                      grant |-> s.grant, expires |-> now + SessionLifetime, state |-> "active",
                      key |-> s.key, signed |-> s.signed, run |-> budget.restarts])
    /\ signin' = [signin EXCEPT ![a] = NoSignIn]
    /\ UNCHANGED <<now, budget, provider, cache, nonces, limiter, conf, rules, tokens, req, told>>

-----------------------------------------------------------------------------
(* A request with a credential.                                            *)

(* authenticate and identify: the credential is looked up.  An unknown one *)
(* counts as a failure; what was ended or has expired is told so.          *)
Present(r, kind, cred, app, need) ==
    /\ req[r].phase = "idle" /\ Spend("requests")
    /\ LET asked == [NoReq EXCEPT !.kind = kind, !.cred = cred, !.app = app, !.need = need,
                                  !.late = (kind = "session" /\ cred \in told)]
           row == IF kind = "session" THEN sessions[cred] ELSE NoAccess
       IN \/ /\ kind = "session" /\ row.state = "active" /\ ~Expired(cred)
             /\ req' = [req EXCEPT ![r] = [asked EXCEPT !.phase = "looked", !.row = row]]
             /\ UNCHANGED <<limiter, told>>
          \/ /\ kind = "session" /\ row.state # "gone"
             /\ row.state = "ended" \/ Expired(cred)
             /\ told' = IF row.state = "ended" THEN told \cup {cred} ELSE told
             /\ UNCHANGED <<req, limiter>>
          \/ /\ kind = "token" /\ tokens[cred] # NoAccess
             /\ req' = [req EXCEPT ![r] = [asked EXCEPT !.phase = "judged", !.who = tokens[cred]]]
             /\ UNCHANGED <<limiter, told>>
          \/ /\ IF kind = "session" THEN row.state = "gone" ELSE tokens[cred] = NoAccess
             /\ limiter' = IF Limited THEN limiter ELSE Failed
             /\ UNCHANGED <<req, told>>
    /\ UNCHANGED <<now, provider, cache, nonces, conf, rules, sessions, tokens, signin>>

(* The rest of identifySession: the rules are asked again.                 *)
Judge(r) ==
    /\ req[r].phase = "looked"
    /\ IF SessionVerdict(req[r].row) = "ok"
       THEN req' = [req EXCEPT ![r].phase = "judged", ![r].who = req[r].row.grant]
       ELSE req' = [req EXCEPT ![r].phase = "ending"]
    /\ UNCHANGED <<now, budget, provider, cache, nonces, limiter, conf, rules, sessions, tokens, signin, told>>

(* The session is ended in the table, then its holder is told.             *)
EndOne(r) ==
    /\ req[r].phase = "ending"
    /\ sessions' = EndSession(sessions, req[r].cred)
    /\ told' = told \cup {req[r].cred}
    /\ req' = [req EXCEPT ![r] = NoReq]
    /\ UNCHANGED <<now, budget, provider, cache, nonces, limiter, conf, rules, tokens, signin>>

(* A sign-out forgets the session the request was made with; a token has   *)
(* none to end.                                                            *)
handleSignOut(r) ==
    IF req[r].kind = "session"
    THEN sessions' = [sessions EXCEPT ![req[r].cred].state = "gone"]
    ELSE UNCHANGED sessions

(* serve: authorized or refused, and handled.                              *)
Serve(r) ==
    /\ req[r].phase = "judged"
    /\ \/ /\ ~Authorized(req[r].who, req[r].need, req[r].app)
             \/ (req[r].kind = "session" /\ now >= req[r].row.expires)
          /\ req' = [req EXCEPT ![r] = NoReq]
          /\ UNCHANGED sessions
       \/ /\ Authorized(req[r].who, req[r].need, req[r].app)
          /\ ~(req[r].kind = "session" /\ now >= req[r].row.expires)
          /\ req' = [req EXCEPT ![r].phase = "served"]
          /\ IF req[r].app = "signout" THEN handleSignOut(r) ELSE UNCHANGED sessions
    /\ UNCHANGED <<now, budget, provider, cache, nonces, limiter, conf, rules, tokens, signin, told>>

Answer(r) ==
    /\ req[r].phase = "served"
    /\ req' = [req EXCEPT ![r] = NoReq]
    /\ UNCHANGED <<now, budget, provider, cache, nonces, limiter, conf, rules, sessions, tokens, signin, told>>

-----------------------------------------------------------------------------
(* An admin, and the agent's own restarts.                                 *)

GrantAccess(r) ==
    /\ Spend("admin") /\ rules' = Granted(rules, r)
    /\ UNCHANGED <<now, provider, cache, nonces, limiter, conf, sessions, tokens, signin, req, told>>

RevokeAccess(i) ==
    /\ Spend("admin") /\ rules' = RemoveAt(rules, i)
    /\ UNCHANGED <<now, provider, cache, nonces, limiter, conf, sessions, tokens, signin, req, told>>

EndSessions(name) ==
    /\ Spend("admin") /\ sessions' = EndSessionsOf(sessions, name)
    /\ UNCHANGED <<now, provider, cache, nonces, limiter, conf, rules, tokens, signin, req, told>>

(* A token's name is free once its row is gone; a new row has a new value. *)
InsertToken(v, t) ==
    /\ \A w \in TokenValues : tokens[w] = NoAccess
    /\ tokens' = [tokens EXCEPT ![v] = t]

CreateToken(v, t) ==
    /\ Spend("admin") /\ InsertToken(v, t)
    /\ UNCHANGED <<now, provider, cache, nonces, limiter, conf, rules, sessions, signin, req, told>>

UpdateToken(v, t) ==
    /\ Spend("admin") /\ tokens[v] # NoAccess /\ tokens[v].role = t.role
    /\ tokens' = [tokens EXCEPT ![v] = t]
    /\ UNCHANGED <<now, provider, cache, nonces, limiter, conf, rules, sessions, signin, req, told>>

DeleteToken(v) ==
    /\ Spend("admin") /\ tokens[v] # NoAccess
    /\ tokens' = [tokens EXCEPT ![v] = NoAccess]
    /\ UNCHANGED <<now, provider, cache, nonces, limiter, conf, rules, sessions, signin, req, told>>

(* A restart forgets the keys, the nonces, the failures and every request, *)
(* and reads the configuration, which an operator may have changed.        *)
Restart ==
    /\ Spend("restarts")
    /\ conf' \in budget.confs
    /\ cache' = [keys |-> {}, at |-> Never, refetched |-> Never]
    /\ nonces' = [c \in Codes |-> Never]
    /\ limiter' = [fails |-> <<>>, until |-> 0]
    /\ signin' = [a \in SignIns |-> NoSignIn]
    /\ req' = [r \in Requests |-> NoReq]
    /\ UNCHANGED <<now, provider, rules, sessions, tokens, told>>

-----------------------------------------------------------------------------
(* What a request's credential stands for in this state: its row, and what *)
(* the rules give the person now.                                          *)
RowGives(r) ==
    IF req[r].kind = "token" THEN tokens[req[r].cred]
    ELSE IF Live(req[r].cred) /\ ~Expired(req[r].cred) THEN sessions[req[r].cred].grant ELSE NoAccess
RulesGive(r) ==
    IF req[r].kind = "token" THEN tokens[req[r].cred]
    ELSE LET row == sessions[req[r].cred] IN
         IF stillVouchedFor(row) THEN ResolveAccess(rules, row.name, row.groups) ELSE NoAccess

(* The history every step keeps for the properties.                        *)
Witnessed ==
    since' = [r \in Requests |->
        IF req'[r].phase = "idle" THEN {}
        ELSE since[r] \cup {[row |-> RowGives(r)', rules |-> RulesGive(r)']}]

AccessNext ==
    /\ \/ Tick
       \/ \E c \in Codes : BeginSignIn(c)
       \/ \E k \in ProviderKeys : RotateKeys(k)
       \/ \E a \in SignIns, c \in Codes : handleSignIn(a, c)
       \/ \E a \in SignIns : FetchKeys(a) \/ Verify(a) \/ ReadRules(a) \/ StoreSession(a)
       \/ \E r \in Requests, s \in DOMAIN sessions, need \in {"read", "deploy"},
             app \in Applications \cup {"signout"} :
             (app = "signout" => need = "read") /\ Present(r, "session", s, app, need)
       \/ \E r \in Requests, v \in TokenValues, need \in {"read", "deploy"}, app \in Applications :
             Present(r, "token", v, app, need)
       \/ \E r \in Requests : Judge(r) \/ EndOne(r) \/ Serve(r) \/ Answer(r)
       \/ \E x \in RuleChoices : GrantAccess(x)
       \/ \E i \in DOMAIN rules : RevokeAccess(i)
       \/ \E n \in NameClaims : EndSessions(NameOf[n])
       \/ \E v \in TokenValues, t \in TokenChoices : CreateToken(v, t) \/ UpdateToken(v, t)
       \/ \E v \in TokenValues : DeleteToken(v)
       \/ Restart
    /\ Witnessed

AccessSpec == AccessInit /\ [][AccessNext]_accessVars

-----------------------------------------------------------------------------
(* Properties.                                                             *)

(* A request is served with what its credential stood for while it was     *)
(* under way, never with what an earlier state gave: the row and the rules *)
(* (which give nothing to a session of a tenant taken off the list) each   *)
(* gave exactly this at some moment since it arrived, however rules,  *)
(* tokens and sessions were changed between its steps                      *)
(* (identify, identifySession, authorize).                                 *)
ServedAsGiven ==
    \A r \in Requests : req[r].phase = "served" =>
        /\ \E w \in since[r] : w.row = req[r].who
        /\ \E w \in since[r] : w.rules = req[r].who
        /\ req[r].need # "read" => req[r].who.apps = {} \/ req[r].app \in req[r].who.apps

(* A session whose holder was told that it ended is over for good: giving  *)
(* the person the same rule again does not bring it back (EndSession).     *)
EndedStays == \A r \in Requests : req[r].phase = "served" => ~req[r].late

(* A sign-in is completed once: two sessions from one code need a provider *)
(* that honours codes twice and an agent that lost its memory in between,  *)
(* so that each was stored in another of its runs (handleSignIn, firstUse).*)
OneSession ==
    \A s, t \in DOMAIN sessions :
        s # t /\ sessions[s].code = sessions[t].code =>
            ~provider.strict /\ sessions[s].run # sessions[t].run

(* A session rests on a key the provider published, at most CacheFor ago:  *)
(* a withdrawn key is believed no longer (keysFor).                        *)
KeyTrusted ==
    \A s \in DOMAIN sessions :
        LET w == provider.withdrawn[sessions[s].key] IN
        w # Never => sessions[s].signed - w < CacheFor

(* Who is served, from the sign-in to the last request of the session      *)
(* (handleSignIn, identify).                                               *)
AccessHolds == ServedAsGiven /\ EndedStays /\ OneSession /\ KeyTrusted
=============================================================================
