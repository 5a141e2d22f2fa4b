---------------------------- MODULE AccessProofs ----------------------------
(***************************************************************************)
(* Proofs about Access, for any number of sign-ins, requests, codes and    *)
(* keys, whatever rules, tokens and sessions are changed to between their  *)
(* steps: a request is served with what it was given since it arrived, a   *)
(* session that its holder was told ended stays over, a code makes one     *)
(* session in a run of the agent, and a key that was withdrawn is believed *)
(* for CacheFor at most.                                                   *)
(***************************************************************************)
EXTENDS Access, TLAPS

\* The fields of a session's row and of a scenario.
RowFields == {"code", "name", "claim", "tenant", "groups", "grant", "expires", "state", "key", "signed", "run"}
BudgetFields == {"ticks", "rotations", "signins", "requests", "admin", "restarts", "strict", "rules", "confs"}
Time == Nat \cup {Never}
SignInPhases == {"idle", "redeemed", "verified", "resolved"}
ReqPhases == {"idle", "looked", "judged", "ending", "served"}

\* A sequence, of whatever items.
IsSeq(s) == Len(s) \in Nat /\ s = [i \in 1 .. Len(s) |-> s[i]]

\* Two rows of one session, whatever its state.
SameSession(x, y) ==
    /\ x.code = y.code /\ x.name = y.name /\ x.claim = y.claim /\ x.tenant = y.tenant
    /\ x.groups = y.groups /\ x.grant = y.grant /\ x.key = y.key
    /\ x.signed = y.signed /\ x.run = y.run

\* The values the code can give its variables; of a row of the sessions table,
\* what the proofs use.
AccessTyped ==
    /\ now \in Nat
    /\ DOMAIN budget = BudgetFields /\ budget.restarts \in Nat
    /\ provider \in [keys : SUBSET ProviderKeys, withdrawn : [ProviderKeys -> Time],
                     codes : [Codes -> [issued : Time, used : BOOLEAN]], strict : BOOLEAN]
    /\ cache \in [keys : SUBSET ProviderKeys, at : Time, refetched : Time]
    /\ nonces \in [Codes -> Time]
    /\ signin = [a \in SignIns |-> signin[a]]
    /\ \A a \in SignIns :
          /\ DOMAIN signin[a] = DOMAIN NoSignIn /\ signin[a].phase \in SignInPhases
          /\ signin[a].phase # "idle" =>
                signin[a].code \in Codes /\ signin[a].key \in ProviderKeys /\ signin[a].signed \in Nat
    /\ req = [r \in Requests |-> req[r]]
    /\ \A r \in Requests : DOMAIN req[r] = DOMAIN NoReq /\ req[r].phase \in ReqPhases
    /\ since = [r \in Requests |-> since[r]]

SessionsTyped ==
    /\ IsSeq(sessions)
    /\ \A s \in DOMAIN sessions :
          /\ DOMAIN sessions[s] = RowFields
          /\ sessions[s].code \in Codes /\ sessions[s].key \in ProviderKeys
          /\ sessions[s].signed \in Nat /\ sessions[s].run \in Nat
          /\ sessions[s].run >= budget.restarts

-----------------------------------------------------------------------------
\* A function on 1 .. n is a sequence of length n.
LEMMA SeqOfItems ==
  ASSUME NEW n \in Nat, NEW s, s = [i \in 1 .. n |-> s[i]]
  PROVE  IsSeq(s) /\ Len(s) = n /\ DOMAIN s = 1 .. n
<1> DEFINE S == {s[i] : i \in 1 .. n}
<1>1. s \in [1 .. n -> S]
  OBVIOUS
<1>2. s \in Seq(S)
  BY <1>1
<1>3. DOMAIN s = 1 .. n
  BY <1>1
<1>4. Len(s) \in Nat /\ DOMAIN s = 1 .. Len(s)
  BY <1>2
<1>5. Len(s) = n
  BY <1>3, <1>4
<1> QED BY <1>3, <1>4, <1>5 DEF IsSeq

\* A sequence is one of its own items.
LEMMA ItemsOfSeq ==
  ASSUME NEW s, IsSeq(s)
  PROVE  s \in Seq({s[i] : i \in 1 .. Len(s)}) /\ DOMAIN s = 1 .. Len(s)
<1> DEFINE S == {s[i] : i \in 1 .. Len(s)}
<1>1. s \in [1 .. Len(s) -> S]
  BY DEF IsSeq
<1>2. s \in Seq(S)
  BY <1>1 DEF IsSeq
<1> QED BY <1>1, <1>2

\* Append keeps the items and adds one.
LEMMA AppendItem ==
  ASSUME NEW s, IsSeq(s), NEW x
  PROVE  /\ IsSeq(Append(s, x)) /\ DOMAIN Append(s, x) = DOMAIN s \cup {Len(s) + 1}
         /\ \A i \in DOMAIN s : Append(s, x)[i] = s[i]
         /\ Append(s, x)[Len(s) + 1] = x /\ Len(s) + 1 \notin DOMAIN s
<1> DEFINE S == {s[i] : i \in 1 .. Len(s)} \cup {x}  t == Append(s, x)
<1>1. s \in [1 .. Len(s) -> S] /\ Len(s) \in Nat
  BY DEF IsSeq
<1>2. s \in Seq(S) /\ x \in S
  BY <1>1
<1>3. t \in Seq(S) /\ Len(t) = Len(s) + 1
  BY <1>2
<1>4. \A i \in 1 .. Len(s) : t[i] = s[i]
  BY <1>2
<1>5. t[Len(s) + 1] = x
  BY <1>2
<1> HIDE DEF t, S
<1>6. DOMAIN s = 1 .. Len(s) /\ DOMAIN t = 1 .. Len(t) /\ t = [i \in 1 .. Len(t) |-> t[i]]
  BY <1>1, <1>3
<1> QED BY <1>1, <1>3, <1>4, <1>5, <1>6 DEF t, IsSeq
-----------------------------------------------------------------------------
\* A step is one of these, and keeps the history.
AccessStep ==
    \/ Tick \/ Restart
    \/ \E c \in Codes : BeginSignIn(c)
    \/ \E k \in ProviderKeys : RotateKeys(k)
    \/ \E a \in SignIns, c \in Codes : handleSignIn(a, c)
    \/ \E a \in SignIns : FetchKeys(a) \/ Verify(a) \/ ReadRules(a) \/ StoreSession(a)
    \/ \E r \in Requests, s \in DOMAIN sessions : \E app, need : Present(r, "session", s, app, need)
    \/ \E r \in Requests, v \in TokenValues : \E app, need : Present(r, "token", v, app, need)
    \/ \E r \in Requests : Judge(r) \/ EndOne(r) \/ Serve(r) \/ Answer(r)
    \/ \E x : GrantAccess(x)
    \/ \E i : RevokeAccess(i)
    \/ \E n : EndSessions(n)
    \/ \E v \in TokenValues : \E t : CreateToken(v, t) \/ UpdateToken(v, t)
    \/ \E v \in TokenValues : DeleteToken(v)

LEMMA StepsOfNext == AccessNext => AccessStep /\ Witnessed
  BY DEF AccessNext, AccessStep

\* The steps by what takes them.
SignInGoesOn == \E a \in SignIns : FetchKeys(a) \/ Verify(a) \/ ReadRules(a) \/ StoreSession(a)
RequestGoesOn ==
    \/ \E r \in Requests, s \in DOMAIN sessions : \E app, need : Present(r, "session", s, app, need)
    \/ \E r \in Requests, v \in TokenValues : \E app, need : Present(r, "token", v, app, need)
    \/ \E r \in Requests : Judge(r) \/ EndOne(r) \/ Serve(r) \/ Answer(r)
RulesChange ==
    \/ (\E x : GrantAccess(x)) \/ (\E i : RevokeAccess(i)) \/ (\E n : EndSessions(n))
    \/ \E v \in TokenValues : (\E t : CreateToken(v, t) \/ UpdateToken(v, t)) \/ DeleteToken(v)

LEMMA StepKinds ==
  ASSUME AccessStep
  PROVE  \/ Tick \/ Restart \/ (\E c \in Codes : BeginSignIn(c)) \/ (\E k \in ProviderKeys : RotateKeys(k))
         \/ (\E a \in SignIns, c \in Codes : handleSignIn(a, c)) \/ SignInGoesOn \/ RequestGoesOn \/ RulesChange
<1>1. CASE \/ Tick \/ Restart \/ (\E c \in Codes : BeginSignIn(c)) \/ (\E k \in ProviderKeys : RotateKeys(k))
           \/ (\E a \in SignIns, c \in Codes : handleSignIn(a, c))
  BY <1>1
<1>2. CASE SignInGoesOn
  BY <1>2
<1>3. CASE RequestGoesOn
  BY <1>3
<1>4. CASE RulesChange
  BY <1>4
<1> QED BY <1>1, <1>2, <1>3, <1>4 DEF AccessStep, SignInGoesOn, RequestGoesOn, RulesChange

\* The fields of a sign-in and of a request, and where they begin.
LEMMA NoSignInFields ==
    DOMAIN NoSignIn = {"phase", "code", "key", "tid", "ok", "signed", "grant", "claim"} /\ NoSignIn.phase = "idle"
  BY DEF NoSignIn

LEMMA NoReqFields ==
    /\ DOMAIN NoReq = {"phase", "kind", "cred", "row", "who", "app", "need", "late"}
    /\ NoReq.phase = "idle" /\ NoReq.late = FALSE
  BY DEF NoReq

\* What is left of the scenario only shrinks, restarts by restarting.
LEMMA BudgetStep ==
  ASSUME AccessTyped, AccessStep
  PROVE  /\ DOMAIN budget' = BudgetFields /\ budget'.restarts \in Nat
         /\ Restart => budget'.restarts < budget.restarts
         /\ ~Restart => budget'.restarts = budget.restarts
<1>1. DOMAIN budget = BudgetFields /\ budget.restarts \in Nat
  BY DEF AccessTyped
<1>2. ASSUME NEW what \in BudgetFields \ {"restarts"}, Spend(what)
      PROVE  DOMAIN budget' = BudgetFields /\ budget'.restarts = budget.restarts
  BY <1>1, <1>2 DEF Spend, BudgetFields
<1>3. ASSUME Restart PROVE DOMAIN budget' = BudgetFields /\ budget'.restarts = budget.restarts - 1 /\ budget.restarts > 0
  BY <1>1, <1>3 DEF Restart, Spend, BudgetFields
<1>4. CASE Restart
  BY <1>1, <1>3, <1>4
<1>5. CASE ~Restart
  <2>1. \/ budget' = budget
        \/ \E what \in BudgetFields \ {"restarts"} : Spend(what)
    <3>1. CASE \/ Tick \/ (\E c \in Codes : BeginSignIn(c)) \/ (\E k \in ProviderKeys : RotateKeys(k))
               \/ (\E a \in SignIns, c \in Codes : handleSignIn(a, c))
      BY <3>1 DEF BudgetFields, Tick, BeginSignIn, RotateKeys, handleSignIn
    <3>2. CASE SignInGoesOn
      BY <3>2 DEF SignInGoesOn, BudgetFields, FetchKeys, Verify, ReadRules, StoreSession
    <3>3. CASE RequestGoesOn
      BY <3>3 DEF RequestGoesOn, BudgetFields, Present, Judge, EndOne, Serve, Answer
    <3>4. CASE RulesChange
      BY <3>4 DEF RulesChange, BudgetFields, GrantAccess, RevokeAccess, EndSessions, CreateToken, UpdateToken, DeleteToken
    <3> QED BY <1>5, <3>1, <3>2, <3>3, <3>4, StepKinds
  <2> QED BY <1>1, <1>2, <1>5, <2>1
<1> QED BY <1>4, <1>5

\* A sign-in's record.
SignInOK(x) ==
    /\ DOMAIN x = DOMAIN NoSignIn /\ x.phase \in SignInPhases
    /\ x.phase # "idle" => x.code \in Codes /\ x.key \in ProviderKeys /\ x.signed \in Nat

\* Each step moves one sign-in at most, as its handler does.
LEMMA SignInMoves ==
  ASSUME AccessTyped, AccessStep
  PROVE  \/ UNCHANGED signin
         \/ \E a \in SignIns : signin' = [signin EXCEPT ![a] = NoSignIn]
         \/ Restart
         \/ \E a \in SignIns, c \in Codes : \E x :
                /\ Redeems(c) /\ provider' = [provider EXCEPT !.codes[c].used = TRUE]
                /\ signin' = [signin EXCEPT ![a] = x] /\ SignInOK(x) /\ x.phase = "redeemed" /\ x.code = c
                /\ UNCHANGED <<now, budget.restarts, cache, nonces, sessions>>
         \/ \E a \in SignIns : \E x :
                /\ Verify(a) /\ SignedBy(signin[a].key) /\ FirstUse(signin[a].code) /\ nonces' = Used(signin[a].code)
                /\ signin' = [signin EXCEPT ![a] = x] /\ SignInOK(x) /\ x.phase = "verified" 
                /\ x.code = signin[a].code /\ x.key = signin[a].key /\ x.signed = now
         \/ \E a \in SignIns : \E x :
                /\ ReadRules(a)
                /\ signin' = [signin EXCEPT ![a] = x] /\ SignInOK(x) /\ x.phase = "resolved" 
                /\ x.code = signin[a].code /\ x.key = signin[a].key /\ x.signed = signin[a].signed
<1> USE NoSignInFields
<1>1. ASSUME NEW a \in SignIns, NEW c \in Codes, handleSignIn(a, c)
      PROVE  \/ UNCHANGED signin
             \/ signin' = [signin EXCEPT ![a] = NoSignIn]
             \/ \E x :
                /\ Redeems(c) /\ provider' = [provider EXCEPT !.codes[c].used = TRUE]
                /\ signin' = [signin EXCEPT ![a] = x] /\ SignInOK(x) /\ x.phase = "redeemed" /\ x.code = c
                /\ UNCHANGED <<now, budget.restarts, cache, nonces, sessions>>
  <2>0. UNCHANGED <<now, budget.restarts, cache, nonces, sessions>>
    BY <1>1 DEF handleSignIn, Spend, AccessTyped, BudgetFields
  <2>1. CASE Limited
    BY <1>1, <2>1 DEF handleSignIn
  <2>2. CASE Exchange(a, c)
    <3>1. CASE \E b : Refuse(a, b)
      BY <3>1 DEF Refuse
    <3>2. CASE /\ Redeems(c) /\ provider' = [provider EXCEPT !.codes[c].used = TRUE]
               /\ \E k \in provider.keys \cup {j \in ProviderKeys : provider.withdrawn[j] # Never}, t \in IDTokens :
                    signin' = [signin EXCEPT ![a] =
                       [NoSignIn EXCEPT !.phase = "redeemed", !.code = c, !.key = k, !.tid = t.tid, !.ok = believed(t)]]
      <4>1. PICK k \in ProviderKeys, t \in IDTokens : signin' = [signin EXCEPT ![a] =
                       [NoSignIn EXCEPT !.phase = "redeemed", !.code = c, !.key = k, !.tid = t.tid, !.ok = believed(t)]]
        BY <3>2 DEF AccessTyped
      <4> DEFINE x == [NoSignIn EXCEPT !.phase = "redeemed", !.code = c, !.key = k, !.tid = t.tid, !.ok = believed(t)]
      <4>2. SignInOK(x) /\ x.phase = "redeemed" /\ x.code = c
        BY DEF SignInOK, SignInPhases, NoSignIn
      <4>3. signin' = [signin EXCEPT ![a] = x]
        BY <4>1
      <4> HIDE DEF x
      <4> QED BY <2>0, <3>2, <4>2, <4>3
    <3> QED BY <2>2, <3>1, <3>2 DEF Exchange
  <2> QED BY <1>1, <2>1, <2>2 DEF handleSignIn
<1>2. ASSUME NEW a \in SignIns, Verify(a)
      PROVE  \/ signin' = [signin EXCEPT ![a] = NoSignIn]
             \/ \E x : /\ SignedBy(signin[a].key) /\ FirstUse(signin[a].code) /\ nonces' = Used(signin[a].code)
                       /\ signin' = [signin EXCEPT ![a] = x] /\ SignInOK(x) /\ x.phase = "verified" 
                       /\ x.code = signin[a].code /\ x.key = signin[a].key /\ x.signed = now
  <2> DEFINE y == signin[a]  x == [y EXCEPT !.phase = "verified", !.signed = now]
  <2>1. DOMAIN y = DOMAIN NoSignIn /\ y.code \in Codes /\ y.key \in ProviderKeys /\ now \in Nat
    BY <1>2 DEF AccessTyped, Verify
  <2> HIDE DEF y
  <2>2. SignInOK(x) /\ x.phase = "verified" /\ x.code = y.code /\ x.key = y.key /\ x.signed = now
    BY <2>1 DEF SignInOK, SignInPhases
  <2>3. CASE signin' = [signin EXCEPT ![a].phase = "verified", ![a].signed = now]
             /\ SignedBy(signin[a].key) /\ FirstUse(signin[a].code) /\ nonces' = Used(signin[a].code)
    <3>1. signin' = [signin EXCEPT ![a] = x]
      BY <2>3 DEF AccessTyped, y
    <3> HIDE DEF x
    <3> QED BY <2>2, <2>3, <3>1 DEF y
  <2> QED BY <1>2, <2>3 DEF Verify, Refuse
<1>3. ASSUME NEW a \in SignIns, ReadRules(a)
      PROVE  \/ signin' = [signin EXCEPT ![a] = NoSignIn]
             \/ \E x : /\ signin' = [signin EXCEPT ![a] = x] /\ SignInOK(x) /\ x.phase = "resolved" 
                       /\ x.code = signin[a].code /\ x.key = signin[a].key /\ x.signed = signin[a].signed
  <2> DEFINE g == IF personNamed THEN ResolveAccess(rules, NameOf[conf.claim], GroupsKept) ELSE NoAccess
             y == signin[a]
             x == [y EXCEPT !.phase = "resolved", !.grant = g, !.claim = conf.claim]
  <2> HIDE DEF g
  <2>1. DOMAIN y = DOMAIN NoSignIn /\ y.code \in Codes /\ y.key \in ProviderKeys /\ y.signed \in Nat
    BY <1>3 DEF AccessTyped, ReadRules
  <2> HIDE DEF y
  <2>2. SignInOK(x) /\ x.phase = "resolved" /\ x.code = y.code /\ x.key = y.key /\ x.signed = y.signed
    BY <2>1 DEF SignInOK, SignInPhases
  <2>3. CASE signin' = [signin EXCEPT ![a].phase = "resolved", ![a].grant = g, ![a].claim = conf.claim]
    <3>1. signin' = [signin EXCEPT ![a] = x]
      BY <2>3 DEF AccessTyped, y
    <3> HIDE DEF x
    <3> QED BY <2>2, <2>3, <3>1 DEF y
  <2> QED BY <1>3, <2>3 DEF ReadRules, Refuse, g
<1>4. ASSUME NEW a \in SignIns, FetchKeys(a) \/ StoreSession(a)
      PROVE  UNCHANGED signin \/ signin' = [signin EXCEPT ![a] = NoSignIn]
  BY <1>4 DEF FetchKeys, StoreSession, Refuse
<1>5. CASE \E a \in SignIns, c \in Codes : handleSignIn(a, c)
  BY <1>5, <1>1
<1>6. CASE \E a \in SignIns : Verify(a)
  BY <1>6, <1>2
<1>7. CASE \E a \in SignIns : ReadRules(a)
  BY <1>7, <1>3
<1>8. CASE \E a \in SignIns : FetchKeys(a) \/ StoreSession(a)
  BY <1>8, <1>4
<1>9. CASE Restart
  BY <1>9
<1>10. CASE UNCHANGED signin
  BY <1>10
<1> QED BY <1>5, <1>6, <1>7, <1>8, <1>9, <1>10 DEF AccessStep, Tick, BeginSignIn, RotateKeys,
       Present, Judge, EndOne, Serve, Answer, GrantAccess, RevokeAccess, EndSessions,
       CreateToken, UpdateToken, DeleteToken

-----------------------------------------------------------------------------
\* Rows are never forgotten by the model, and change their state only; one
\* that is over stays over.
KeptRow(x, y) ==
    /\ DOMAIN y = RowFields /\ SameSession(x, y)
    /\ x.state # "active" => y.state # "active"

\* Ending or forgetting a session keeps the rest of its row.
LEMMA ChangedRow ==
  ASSUME NEW x, DOMAIN x = RowFields, NEW y, NEW st, st # "active",
         y = x \/ y = [x EXCEPT !.state = st]
  PROVE  KeptRow(x, y)
  BY DEF KeptRow, SameSession, RowFields

\* Every row is still there.
RowsKept ==
    \A s \in DOMAIN sessions : s \in DOMAIN sessions' /\ KeptRow(sessions[s], sessions'[s])

\* StoreSession's row, after all others.
NewRow(a) ==
    LET n == Len(sessions) + 1 IN
    /\ DOMAIN sessions' = DOMAIN sessions \cup {n} /\ n \notin DOMAIN sessions
    /\ DOMAIN sessions'[n] = RowFields
    /\ sessions'[n].code = signin[a].code /\ sessions'[n].key = signin[a].key
    /\ sessions'[n].signed = signin[a].signed /\ sessions'[n].run = budget.restarts

\* CreateSession adds a row; every other step only ends sessions or forgets
\* them (EndSession, EndSessionsOf, handleSignOut).
LEMMA SessionsMove ==
  ASSUME AccessTyped, SessionsTyped, AccessStep
  PROVE  /\ IsSeq(sessions)' /\ RowsKept
         /\ \/ DOMAIN sessions' = DOMAIN sessions
            \/ \E a \in SignIns : StoreSession(a) /\ NewRow(a)
<1> DEFINE n == Len(sessions)
<1>0. /\ n \in Nat /\ sessions = [i \in 1 .. n |-> sessions[i]] /\ DOMAIN sessions = 1 .. n
      /\ \A s \in DOMAIN sessions : DOMAIN sessions[s] = RowFields
  BY ItemsOfSeq DEF SessionsTyped, IsSeq
<1> HIDE DEF n
<1>1. ASSUME sessions' = [i \in DOMAIN sessions |-> sessions'[i]], \A s \in DOMAIN sessions : KeptRow(sessions[s], sessions'[s])
      PROVE  IsSeq(sessions)' /\ RowsKept /\ DOMAIN sessions' = DOMAIN sessions
  <2>1. sessions' = [i \in 1 .. n |-> sessions'[i]]
    BY <1>0, <1>1
  <2>2. IsSeq(sessions')
    BY <1>0, <2>1, SeqOfItems
  <2> QED BY <1>1, <2>1, <2>2, <1>0 DEF RowsKept, IsSeq
<1>2. ASSUME UNCHANGED sessions
      PROVE  IsSeq(sessions)' /\ RowsKept /\ DOMAIN sessions' = DOMAIN sessions
  BY <1>0, <1>2, <1>1, ChangedRow
<1>3. ASSUME NEW c, NEW st, st # "active", sessions' = [sessions EXCEPT ![c].state = st]
      PROVE  IsSeq(sessions)' /\ RowsKept /\ DOMAIN sessions' = DOMAIN sessions
  <2>1. \A s \in DOMAIN sessions : sessions'[s] = sessions[s] \/ sessions'[s] = [sessions[s] EXCEPT !.state = st]
    BY <1>3
  <2>2. sessions' = [i \in DOMAIN sessions |-> sessions'[i]]
    BY <1>3
  <2>3. \A s \in DOMAIN sessions : KeptRow(sessions[s], sessions'[s])
    <3> SUFFICES ASSUME NEW s \in DOMAIN sessions PROVE KeptRow(sessions[s], sessions'[s])
      OBVIOUS
    <3> DEFINE x == sessions[s]  y == sessions'[s]
    <3>1. DOMAIN x = RowFields /\ (y = x \/ y = [x EXCEPT !.state = st]) /\ st # "active"
      BY <1>0, <1>3, <2>1
    <3> HIDE DEF x, y
    <3>2. KeptRow(x, y)
      BY <3>1, ChangedRow
    <3> QED BY <3>2 DEF x, y
  <2> QED BY <2>2, <2>3, <1>1
<1>4. ASSUME NEW r \in Requests, EndOne(r)
      PROVE  IsSeq(sessions)' /\ RowsKept /\ DOMAIN sessions' = DOMAIN sessions
  BY <1>4, <1>2, <1>3 DEF EndOne, EndSession
<1>5. ASSUME NEW r \in Requests, Serve(r)
      PROVE  IsSeq(sessions)' /\ RowsKept /\ DOMAIN sessions' = DOMAIN sessions
  BY <1>5, <1>2, <1>3 DEF Serve, handleSignOut
<1>6. ASSUME NEW name, EndSessions(name)
      PROVE  IsSeq(sessions)' /\ RowsKept /\ DOMAIN sessions' = DOMAIN sessions
  <2>1. sessions' = EndSessionsOf(sessions, name)
    BY <1>6 DEF EndSessions
  <2>2. \A s \in DOMAIN sessions : sessions'[s] = sessions[s] \/ sessions'[s] = [sessions[s] EXCEPT !.state = "ended"]
    BY <2>1 DEF EndSessionsOf
  <2>3. sessions' = [i \in DOMAIN sessions |-> sessions'[i]]
    BY <2>1 DEF EndSessionsOf
  <2>4. \A s \in DOMAIN sessions : KeptRow(sessions[s], sessions'[s])
    <3> SUFFICES ASSUME NEW s \in DOMAIN sessions PROVE KeptRow(sessions[s], sessions'[s])
      OBVIOUS
    <3> DEFINE x == sessions[s]  y == sessions'[s]
    <3>1. DOMAIN x = RowFields /\ (y = x \/ y = [x EXCEPT !.state = "ended"]) /\ "ended" # "active"
      BY <1>0, <2>2
    <3> HIDE DEF x, y
    <3>2. KeptRow(x, y)
      BY <3>1, ChangedRow
    <3> QED BY <3>2 DEF x, y
  <2> QED BY <2>3, <2>4, <1>1
<1>7. ASSUME NEW a \in SignIns, StoreSession(a)
      PROVE  IsSeq(sessions)' /\ RowsKept /\ NewRow(a)
  <2> DEFINE old == [i \in DOMAIN sessions |->
                          IF sessions[i].expires < now - SessionsKeptFor
                          THEN [sessions[i] EXCEPT !.state = "gone"]
                          ELSE sessions[i]]
             row == [code |-> signin[a].code, name |-> NameOf[signin[a].claim], claim |-> signin[a].claim,
                     tenant |-> signin[a].tid, groups |-> GroupsKept,
                     grant |-> signin[a].grant, expires |-> now + SessionLifetime, state |-> "active",
                     key |-> signin[a].key, signed |-> signin[a].signed, run |-> budget.restarts]
  <2>1. sessions' = Append(old, row)
    BY <1>7 DEF StoreSession, CreateSession
  <2>2. \A s \in DOMAIN sessions : old[s] = sessions[s] \/ old[s] = [sessions[s] EXCEPT !.state = "gone"]
    OBVIOUS
  <2>3. old = [i \in 1 .. n |-> old[i]]
    BY <1>0
  <2>4. /\ DOMAIN row = RowFields /\ row.code = signin[a].code /\ row.key = signin[a].key
        /\ row.signed = signin[a].signed /\ row.run = budget.restarts
    BY DEF RowFields
  <2>5. DOMAIN old = DOMAIN sessions
    OBVIOUS
  <2> HIDE DEF old, row
  <2>6. \A s \in DOMAIN sessions : KeptRow(sessions[s], old[s])
    <3> SUFFICES ASSUME NEW s \in DOMAIN sessions PROVE KeptRow(sessions[s], old[s])
      OBVIOUS
    <3> DEFINE x == sessions[s]  y == old[s]
    <3>1. DOMAIN x = RowFields /\ (y = x \/ y = [x EXCEPT !.state = "gone"]) /\ "gone" # "active"
      BY <1>0, <2>2
    <3> HIDE DEF x, y
    <3>2. KeptRow(x, y)
      BY <3>1, ChangedRow
    <3> QED BY <3>2 DEF x, y
  <2>7. IsSeq(old) /\ Len(old) = n
    BY <1>0, <2>3, SeqOfItems
  <2>8. /\ IsSeq(sessions') /\ DOMAIN sessions' = DOMAIN old \cup {n + 1} /\ n + 1 \notin DOMAIN old
        /\ \A i \in DOMAIN old : sessions'[i] = old[i]
        /\ sessions'[n + 1] = row
    BY <2>1, <2>7, AppendItem
  <2>9. RowsKept
    BY <2>5, <2>6, <2>8 DEF RowsKept
  <2> QED BY <2>4, <2>5, <2>8, <2>9 DEF NewRow, IsSeq, n
<1>8. CASE \/ Tick \/ Restart \/ (\E c \in Codes : BeginSignIn(c)) \/ (\E k \in ProviderKeys : RotateKeys(k))
           \/ (\E a \in SignIns, c \in Codes : handleSignIn(a, c))
  <2>1. UNCHANGED sessions
    BY <1>8 DEF Tick, Restart, BeginSignIn, RotateKeys, handleSignIn
  <2> QED BY <1>2, <2>1
<1>9. CASE SignInGoesOn
  <2>1. UNCHANGED sessions \/ \E a \in SignIns : StoreSession(a)
    BY <1>9 DEF SignInGoesOn, FetchKeys, Verify, ReadRules
  <2> QED BY <1>2, <1>7, <2>1
<1>10. CASE RequestGoesOn
  <2>1. UNCHANGED sessions \/ \E r \in Requests : EndOne(r) \/ Serve(r)
    BY <1>10 DEF RequestGoesOn, Present, Judge, Answer
  <2> QED BY <1>2, <1>4, <1>5, <2>1
<1>11. CASE RulesChange
  <2>1. UNCHANGED sessions \/ \E x : EndSessions(x)
    BY <1>11 DEF RulesChange, GrantAccess, RevokeAccess, CreateToken, UpdateToken, DeleteToken
  <2> QED BY <1>2, <1>6, <2>1
<1> QED BY <1>8, <1>9, <1>10, <1>11, StepKinds

-----------------------------------------------------------------------------
\* A request that is looked up, judged and served keeps what it asked for.
SameAsked(x, y) ==
    /\ DOMAIN y = DOMAIN NoReq
    /\ y.kind = x.kind /\ y.cred = x.cred /\ y.row = x.row /\ y.late = x.late
    /\ y.need = x.need /\ y.app = x.app

\* A session was looked up, a token judged by itself.
BySession(x) ==
    /\ x.phase = "looked" /\ x.kind = "session" /\ x.cred \in DOMAIN sessions
    /\ x.row = sessions[x.cred] /\ x.row.state = "active" /\ ~Expired(x.cred)
    /\ x.cred \in told \/ x.late = FALSE

ByToken(x) == x.phase = "judged" /\ x.kind = "token" /\ x.who = tokens[x.cred] /\ x.late = FALSE

\* identifySession's verdict, and serving.
Judged(x, y) ==
    /\ x.phase = "looked" /\ SameAsked(x, y)
    /\ \/ y.phase = "judged" /\ y.who = x.row.grant /\ SessionVerdict(x.row) = "ok"
       \/ y.phase = "ending"

ServedNow(x, y) ==
    /\ x.phase = "judged" /\ SameAsked(x, y)
    /\ y.phase = "served" /\ y.who = x.who /\ Authorized(x.who, x.need, x.app)

\* Each step moves one request at most.
LEMMA RequestMoves ==
  ASSUME AccessTyped, AccessStep
  PROVE  \/ UNCHANGED req
         \/ Restart
         \/ \E r \in Requests : req' = [req EXCEPT ![r] = NoReq]
         \/ \E r \in Requests : \E x :
               /\ req' = [req EXCEPT ![r] = x] /\ DOMAIN x = DOMAIN NoReq
               /\ \/ /\ BySession(x) \/ ByToken(x)
                     /\ UNCHANGED <<now, conf, rules, sessions, tokens, told>>
                  \/ /\ Judged(req[r], x)
                     /\ UNCHANGED <<now, conf, rules, sessions, tokens, told>>
                  \/ ServedNow(req[r], x)
<1> USE NoReqFields
<1>1. ASSUME NEW r \in Requests, NEW kind \in {"session", "token"}, NEW c, NEW app, NEW need, Present(r, kind, c, app, need),
             kind = "session" => c \in DOMAIN sessions
      PROVE  \/ UNCHANGED req
             \/ \E x : /\ req' = [req EXCEPT ![r] = x] /\ DOMAIN x = DOMAIN NoReq
                       /\ BySession(x) \/ ByToken(x)
                       /\ UNCHANGED <<now, conf, rules, sessions, tokens, told>>
  <2> DEFINE late == kind = "session" /\ c \in told
             asked == [NoReq EXCEPT !.kind = kind, !.cred = c, !.app = app, !.need = need, !.late = late]
             x1 == [asked EXCEPT !.phase = "looked", !.row = sessions[c]]
             x2 == [asked EXCEPT !.phase = "judged", !.who = tokens[c]]
  <2>1. \/ UNCHANGED req
        \/ kind = "session" /\ sessions[c].state = "active" /\ ~Expired(c) /\ req' = [req EXCEPT ![r] = x1] /\ UNCHANGED told
        \/ kind = "token" /\ tokens[c] # NoAccess /\ req' = [req EXCEPT ![r] = x2] /\ UNCHANGED told
    BY <1>1 DEF Present
  <2>2. UNCHANGED <<now, conf, rules, sessions, tokens>>
    BY <1>1 DEF Present
  <2>8. late = FALSE \/ (kind = "session" /\ c \in told)
    OBVIOUS
  <2> HIDE DEF late
  <2>3. DOMAIN asked = DOMAIN NoReq /\ asked.kind = kind /\ asked.cred = c /\ asked.late = late
    OBVIOUS
  <2> HIDE DEF asked
  <2>4. /\ DOMAIN x1 = DOMAIN NoReq /\ x1.kind = kind /\ x1.cred = c /\ x1.late = asked.late
        /\ x1.phase = "looked" /\ x1.row = sessions[c]
    BY <2>3
  <2>5. /\ DOMAIN x2 = DOMAIN NoReq /\ x2.kind = kind /\ x2.cred = c /\ x2.late = asked.late
        /\ x2.phase = "judged" /\ x2.who = tokens[c]
    BY <2>3
  <2> HIDE DEF x1, x2
  <2>6. CASE kind = "session" /\ sessions[c].state = "active" /\ ~Expired(c) /\ req' = [req EXCEPT ![r] = x1] /\ UNCHANGED told
    <3>1. BySession(x1)
      BY <1>1, <2>3, <2>4, <2>6, <2>8 DEF BySession
    <3> QED BY <2>2, <2>4, <2>6, <3>1
  <2>7. CASE kind = "token" /\ tokens[c] # NoAccess /\ req' = [req EXCEPT ![r] = x2] /\ UNCHANGED told
    <3>1. ByToken(x2)
      BY <2>3, <2>5, <2>7, <2>8 DEF ByToken
    <3> QED BY <2>2, <2>5, <2>7, <3>1
  <2> QED BY <2>1, <2>6, <2>7
<1>2. ASSUME NEW r \in Requests, Judge(r)
      PROVE  \E x : /\ req' = [req EXCEPT ![r] = x] /\ DOMAIN x = DOMAIN NoReq
                    /\ Judged(req[r], x)
                    /\ UNCHANGED <<now, conf, rules, sessions, tokens, told>>
  <2> DEFINE y == req[r]
             x1 == [y EXCEPT !.phase = "judged", !.who = y.row.grant]
             x2 == [y EXCEPT !.phase = "ending"]
  <2>1. DOMAIN y = DOMAIN NoReq /\ y.phase = "looked" /\ UNCHANGED <<now, conf, rules, sessions, tokens, told>>
    BY <1>2 DEF Judge, AccessTyped
  <2>2. \/ SessionVerdict(y.row) = "ok" /\ req' = [req EXCEPT ![r].phase = "judged", ![r].who = y.row.grant]
        \/ req' = [req EXCEPT ![r].phase = "ending"]
    BY <1>2 DEF Judge
  <2>3. \/ SessionVerdict(y.row) = "ok" /\ req' = [req EXCEPT ![r] = x1]
        \/ req' = [req EXCEPT ![r] = x2]
    BY <2>2 DEF AccessTyped
  <2> HIDE DEF y
  <2>4. SameAsked(y, x1) /\ x1.phase = "judged" /\ x1.who = y.row.grant
    BY <2>1 DEF SameAsked
  <2>5. SameAsked(y, x2) /\ x2.phase = "ending"
    BY <2>1 DEF SameAsked
  <2> HIDE DEF x1, x2
  <2>6. SessionVerdict(y.row) = "ok" => Judged(y, x1)
    BY <2>1, <2>4 DEF Judged
  <2>7. Judged(y, x2)
    BY <2>1, <2>5 DEF Judged
  <2> QED BY <2>1, <2>3, <2>4, <2>5, <2>6, <2>7 DEF SameAsked, y
<1>3. ASSUME NEW r \in Requests, Serve(r)
      PROVE  \/ req' = [req EXCEPT ![r] = NoReq]
             \/ \E x : req' = [req EXCEPT ![r] = x] /\ DOMAIN x = DOMAIN NoReq /\ ServedNow(req[r], x)
  <2> DEFINE y == req[r]  x1 == [y EXCEPT !.phase = "served"]
  <2>1. DOMAIN y = DOMAIN NoReq /\ y.phase = "judged"
    BY <1>3 DEF Serve, AccessTyped
  <2>2. CASE req' = [req EXCEPT ![r].phase = "served"] /\ Authorized(y.who, y.need, y.app)
    <3>1. req' = [req EXCEPT ![r] = x1]
      BY <2>2 DEF AccessTyped
    <3> HIDE DEF y
    <3>2. ServedNow(y, x1)
      BY <2>1, <2>2 DEF ServedNow, SameAsked
    <3> HIDE DEF x1
    <3> QED BY <3>1, <3>2 DEF ServedNow, SameAsked, y
  <2> QED BY <1>3, <2>2 DEF Serve
<1>4. ASSUME NEW r \in Requests, EndOne(r) \/ Answer(r)
      PROVE  req' = [req EXCEPT ![r] = NoReq]
  BY <1>4 DEF EndOne, Answer
<1>5. CASE \E r \in Requests, s \in DOMAIN sessions : \E app, need : Present(r, "session", s, app, need)
  BY <1>5, <1>1
<1>6. CASE \E r \in Requests, v \in TokenValues : \E app, need : Present(r, "token", v, app, need)
  BY <1>6, <1>1
<1>7. CASE \E r \in Requests : Judge(r)
  BY <1>7, <1>2
<1>8. CASE \E r \in Requests : Serve(r)
  BY <1>8, <1>3
<1>9. CASE \E r \in Requests : EndOne(r) \/ Answer(r)
  BY <1>9, <1>4
<1> QED BY <1>5, <1>6, <1>7, <1>8, <1>9 DEF AccessStep, Tick, BeginSignIn, RotateKeys, handleSignIn, FetchKeys, Verify, ReadRules,
       StoreSession, GrantAccess, RevokeAccess, EndSessions, CreateToken, UpdateToken, DeleteToken, Restart

-----------------------------------------------------------------------------
\* The provider's state, the cached keys and the nonces keep their types, and
\* only the clock moves time.
LEMMA ProviderStep ==
  ASSUME AccessTyped, AccessStep
  PROVE  /\ now' \in Nat /\ (now' = now \/ Tick)
         /\ provider' \in [keys : SUBSET ProviderKeys, withdrawn : [ProviderKeys -> Time],
                           codes : [Codes -> [issued : Time, used : BOOLEAN]], strict : BOOLEAN]
         /\ cache' \in [keys : SUBSET ProviderKeys, at : Time, refetched : Time]
         /\ nonces' \in [Codes -> Time]
         /\ provider'.strict = provider.strict
<1>1. /\ now \in Nat
      /\ provider \in [keys : SUBSET ProviderKeys, withdrawn : [ProviderKeys -> Time],
                       codes : [Codes -> [issued : Time, used : BOOLEAN]], strict : BOOLEAN]
      /\ cache \in [keys : SUBSET ProviderKeys, at : Time, refetched : Time]
      /\ nonces \in [Codes -> Time]
  BY DEF AccessTyped
<1>2. now \in Time /\ Never \in Time
  BY <1>1 DEF Time
<1>3. now' \in Nat /\ (now' = now \/ Tick)
  <2>1. CASE Tick
    BY <1>1, <2>1 DEF Tick
  <2>2. CASE ~Tick
    <3>1. now' = now
      BY <2>2 DEF AccessStep, BeginSignIn, RotateKeys, handleSignIn, FetchKeys, Verify, ReadRules,
       StoreSession, Present, Judge, EndOne, Serve, Answer, GrantAccess, RevokeAccess, EndSessions,
       CreateToken, UpdateToken, DeleteToken, Restart
    <3> QED BY <1>1, <3>1
  <2> QED BY <2>1, <2>2
<1> DEFINE P == [keys : SUBSET ProviderKeys, withdrawn : [ProviderKeys -> Time],
                 codes : [Codes -> [issued : Time, used : BOOLEAN]], strict : BOOLEAN]
<1>11. ASSUME NEW cs \in [Codes -> [issued : Time, used : BOOLEAN]], provider' = [provider EXCEPT !.codes = cs]
       PROVE  provider' \in P /\ provider'.strict = provider.strict
  BY <1>1, <1>11
<1>12. ASSUME NEW c \in Codes, NEW x \in [issued : Time, used : BOOLEAN]
       PROVE  [provider.codes EXCEPT ![c] = x] \in [Codes -> [issued : Time, used : BOOLEAN]]
  BY <1>1
<1>4. CASE \E c \in Codes : BeginSignIn(c)
  <2>1. PICK c \in Codes : BeginSignIn(c)
    BY <1>4
  <2> DEFINE x == [provider.codes[c] EXCEPT !.issued = now]  cs == [provider.codes EXCEPT ![c] = x]
  <2>2. x \in [issued : Time, used : BOOLEAN]
    BY <1>1, <1>2
  <2>3. provider' = [provider EXCEPT !.codes = cs]
    BY <1>1, <2>1 DEF BeginSignIn
  <2> HIDE DEF x
  <2>4. cs \in [Codes -> [issued : Time, used : BOOLEAN]]
    BY <1>12, <2>2
  <2> HIDE DEF cs
  <2>5. provider' \in P /\ provider'.strict = provider.strict
    BY <1>11, <2>3, <2>4
  <2> QED BY <1>1, <1>3, <2>1, <2>5 DEF BeginSignIn
<1>5. CASE \E k \in ProviderKeys : RotateKeys(k)
  <2>1. PICK k \in ProviderKeys : RotateKeys(k)
    BY <1>5
  <2> DEFINE w == [j \in ProviderKeys |-> IF j \in provider.keys THEN now ELSE provider.withdrawn[j]]
  <2>2. w \in [ProviderKeys -> Time]
    BY <1>1, <1>2
  <2>3. provider' = [provider EXCEPT !.keys = {k}, !.withdrawn = w]
    BY <1>1, <2>1 DEF RotateKeys
  <2> HIDE DEF w
  <2>4. provider' \in P /\ provider'.strict = provider.strict
    BY <1>1, <2>2, <2>3
  <2> QED BY <1>1, <1>3, <2>1, <2>4 DEF RotateKeys
<1>6. CASE \E a \in SignIns, c \in Codes : handleSignIn(a, c)
  <2>1. PICK a \in SignIns, c \in Codes : handleSignIn(a, c)
    BY <1>6
  <2>2. provider' = provider \/ provider' = [provider EXCEPT !.codes[c].used = TRUE]
    BY <2>1 DEF handleSignIn, Exchange
  <2>3. UNCHANGED <<cache, nonces>>
    BY <2>1 DEF handleSignIn
  <2>4. CASE provider' = provider
    BY <1>1, <1>3, <2>3, <2>4
  <2>5. CASE provider' = [provider EXCEPT !.codes[c].used = TRUE]
    <3> DEFINE x == [provider.codes[c] EXCEPT !.used = TRUE]  cs == [provider.codes EXCEPT ![c] = x]
    <3>2. x \in [issued : Time, used : BOOLEAN]
      BY <1>1, <1>2
    <3>3. provider' = [provider EXCEPT !.codes = cs]
      BY <1>1, <2>5
    <3> HIDE DEF x
    <3>4. cs \in [Codes -> [issued : Time, used : BOOLEAN]]
      BY <1>12, <3>2
    <3> HIDE DEF cs
    <3>5. provider' \in P /\ provider'.strict = provider.strict
      BY <1>11, <3>3, <3>4
    <3> QED BY <1>1, <1>3, <2>3, <3>5
  <2> QED BY <2>2, <2>4, <2>5
<1>7. CASE \E a \in SignIns : FetchKeys(a)
  <2>1. PICK a \in SignIns : FetchKeys(a)
    BY <1>7
  <2>2. UNCHANGED <<provider, nonces>>
    BY <2>1 DEF FetchKeys
  <2>3. cache' = [keys |-> provider.keys, at |-> now, refetched |-> now] \/ cache' = [cache EXCEPT !.refetched = now]
    BY <2>1 DEF FetchKeys
  <2>4. cache' \in [keys : SUBSET ProviderKeys, at : Time, refetched : Time]
    BY <1>1, <1>2, <2>3
  <2> QED BY <1>1, <1>3, <2>2, <2>4
<1>8. CASE \E a \in SignIns : Verify(a)
  <2>1. PICK a \in SignIns : Verify(a)
    BY <1>8
  <2>2. nonces' = nonces \/ nonces' = Used(signin[a].code)
    BY <2>1 DEF Verify
  <2>3. Used(signin[a].code) \in [Codes -> Time]
    BY <1>1, <1>2 DEF Used
  <2> QED BY <1>1, <1>3, <2>1, <2>2, <2>3 DEF Verify
<1>9. CASE Restart
  BY <1>1, <1>2, <1>3, <1>9 DEF Restart
<1>10. CASE UNCHANGED <<provider, cache, nonces>>
  BY <1>1, <1>3, <1>10
<1> QED BY <1>4, <1>5, <1>6, <1>7, <1>8, <1>9, <1>10 DEF AccessStep, Tick, ReadRules,
       StoreSession, Present, Judge, EndOne, Serve, Answer, GrantAccess, RevokeAccess, EndSessions,
       CreateToken, UpdateToken, DeleteToken

\* Every step keeps the types.
LEMMA AccessTypedStep ==
  ASSUME AccessTyped, SessionsTyped, AccessStep, Witnessed
  PROVE  AccessTyped' /\ SessionsTyped'
<1>1. /\ signin' = [a \in SignIns |-> signin'[a]]
      /\ \A a \in SignIns : SignInOK(signin[a])'
  <2>1. \A a \in SignIns : SignInOK(signin[a])
    BY DEF AccessTyped, SignInOK
  <2>2. SignInOK(NoSignIn)
    BY DEF SignInOK, SignInPhases, NoSignIn
  <2>3. CASE UNCHANGED signin
    BY <2>1, <2>3 DEF AccessTyped, SignInOK
  <2>4. CASE Restart
    BY <2>2, <2>4 DEF Restart, SignInOK
  <2>5. CASE \E a \in SignIns : \E x : signin' = [signin EXCEPT ![a] = x] /\ SignInOK(x)
    BY <2>1, <2>5 DEF AccessTyped, SignInOK
  <2> QED BY <2>2, <2>3, <2>4, <2>5, SignInMoves
<1>2. /\ req' = [r \in Requests |-> req'[r]]
      /\ \A r \in Requests : DOMAIN req'[r] = DOMAIN NoReq /\ req'[r].phase \in ReqPhases
  <2>1. DOMAIN NoReq = DOMAIN NoReq /\ NoReq.phase \in ReqPhases
    BY DEF NoReq, ReqPhases
  <2>2. CASE UNCHANGED req
    BY <2>2 DEF AccessTyped
  <2>3. CASE Restart
    BY <2>1, <2>3 DEF Restart
  <2>4. CASE \E r \in Requests : \E x : req' = [req EXCEPT ![r] = x] /\ DOMAIN x = DOMAIN NoReq /\ x.phase \in ReqPhases
    BY <2>4 DEF AccessTyped
  <2>5. ASSUME NEW x, NEW y, BySession(x) \/ ByToken(x) \/ Judged(y, x) \/ ServedNow(y, x)
        PROVE x.phase \in ReqPhases
    BY <2>5 DEF BySession, ByToken, Judged, ServedNow, ReqPhases
  <2> QED BY <2>1, <2>2, <2>3, <2>4, <2>5, RequestMoves
<1>3. since' = [r \in Requests |-> since'[r]]
  BY DEF Witnessed
<1>4. AccessTyped'
  BY <1>1, <1>2, <1>3, BudgetStep, ProviderStep DEF AccessTyped, SignInOK
<1>5. budget'.restarts <= budget.restarts /\ budget'.restarts \in Nat /\ budget.restarts \in Nat
  BY BudgetStep DEF AccessTyped
<1>6. ASSUME NEW s \in DOMAIN sessions
      PROVE  /\ DOMAIN sessions'[s] = RowFields
             /\ sessions'[s].code \in Codes /\ sessions'[s].key \in ProviderKeys
             /\ sessions'[s].signed \in Nat /\ sessions'[s].run \in Nat
             /\ sessions'[s].run >= budget'.restarts
  <2>1. /\ sessions[s].code \in Codes /\ sessions[s].key \in ProviderKeys
        /\ sessions[s].signed \in Nat /\ sessions[s].run \in Nat
        /\ sessions[s].run >= budget.restarts
    BY DEF SessionsTyped
  <2>2. KeptRow(sessions[s], sessions'[s])
    BY SessionsMove DEF RowsKept
  <2> QED BY <1>5, <2>1, <2>2 DEF KeptRow, SameSession
<1>7. CASE DOMAIN sessions' = DOMAIN sessions
  <2>1. IsSeq(sessions)'
    BY SessionsMove
  <2> QED BY <1>4, <1>6, <1>7, <2>1 DEF SessionsTyped
<1>8. CASE \E a \in SignIns : StoreSession(a) /\ NewRow(a)
  <2>1. PICK a \in SignIns : StoreSession(a) /\ NewRow(a)
    BY <1>8
  <2>2. signin[a].code \in Codes /\ signin[a].key \in ProviderKeys /\ signin[a].signed \in Nat
    BY <2>1 DEF StoreSession, AccessTyped
  <2> DEFINE n == Len(sessions) + 1
  <2>3. /\ DOMAIN sessions' = DOMAIN sessions \cup {n} /\ DOMAIN sessions'[n] = RowFields
        /\ sessions'[n].code \in Codes /\ sessions'[n].key \in ProviderKeys
        /\ sessions'[n].signed \in Nat /\ sessions'[n].run = budget.restarts
    BY <2>1, <2>2 DEF NewRow
  <2> HIDE DEF n
  <2>4. IsSeq(sessions)'
    BY SessionsMove
  <2>5. sessions'[n].run \in Nat /\ sessions'[n].run >= budget'.restarts
    BY <1>5, <2>3
  <2> QED BY <1>4, <1>6, <2>3, <2>4, <2>5 DEF SessionsTyped
<1> QED BY <1>4, <1>7, <1>8, SessionsMove

-----------------------------------------------------------------------------
\* A session whose holder was told is over.
ToldOver == \A s \in told : s \in DOMAIN sessions /\ sessions[s].state # "active"

\* What is known of a request at each place: the row it was looked up with is
\* the session's, and what it has got so far was given since it arrived.
RequestOK(r) ==
    /\ req[r].phase # "idle" => req[r].late = FALSE
    /\ req[r].phase \in {"looked", "ending"} => req[r].kind = "session" /\ req[r].cred \in DOMAIN sessions
    /\ req[r].phase = "looked" =>
          SameSession(sessions[req[r].cred], req[r].row) /\ \E w \in since[r] : w.row = req[r].row.grant
    /\ req[r].phase \in {"judged", "served"} =>
          (\E w \in since[r] : w.row = req[r].who) /\ (\E w \in since[r] : w.rules = req[r].who)
    /\ req[r].phase = "served" /\ req[r].need # "read" =>
          req[r].who.apps = {} \/ req[r].app \in req[r].who.apps

RequestsInv == ToldOver /\ \A r \in Requests : RequestOK(r)

\* Whoever is told that a session ended is told of one that did: Present and
\* EndOne find it over, or end it first.
LEMMA ToldStep ==
  ASSUME AccessTyped, SessionsTyped, RequestsInv, AccessStep
  PROVE  ToldOver'
<1>1. \A s \in told : s \in DOMAIN sessions' /\ sessions'[s].state # "active"
  BY SessionsMove DEF RequestsInv, ToldOver, RowsKept, KeptRow
<1>2. CASE told' \subseteq told
  BY <1>1, <1>2 DEF ToldOver
<1>3. ASSUME NEW r \in Requests, NEW c \in DOMAIN sessions, NEW app, NEW need, Present(r, "session", c, app, need)
      PROVE  ToldOver'
  <2>1. UNCHANGED sessions /\ (told' = told \/ (told' = told \cup {c} /\ sessions[c].state = "ended"))
    BY <1>3 DEF Present
  <2> QED BY <1>1, <2>1 DEF ToldOver
<1>4. ASSUME NEW r \in Requests, EndOne(r)
      PROVE  ToldOver'
  <2> DEFINE c == req[r].cred
  <2>1. c \in DOMAIN sessions /\ DOMAIN sessions[c] = RowFields
    BY <1>4 DEF EndOne, RequestsInv, RequestOK, SessionsTyped
  <2>2. told' = told \cup {c} /\ sessions' = EndSession(sessions, c)
    BY <1>4 DEF EndOne
  <2> HIDE DEF c
  <2>3. c \in DOMAIN sessions' /\ sessions'[c].state # "active"
    BY <2>1, <2>2 DEF EndSession, RowFields
  <2> QED BY <1>1, <2>2, <2>3 DEF ToldOver
<1>5. ASSUME NEW r, NEW c, NEW app, NEW need, Present(r, "token", c, app, need)
      PROVE  told' = told
  BY <1>5 DEF Present
<1> QED BY <1>2, <1>3, <1>4, <1>5 DEF AccessStep, Tick, BeginSignIn, RotateKeys, handleSignIn, FetchKeys, Verify, ReadRules,
       StoreSession, Judge, Serve, Answer, GrantAccess, RevokeAccess, EndSessions, CreateToken, UpdateToken, DeleteToken, Restart

\* What a request stands for after a step is in its history.
LEMMA Witnesses ==
  ASSUME Witnessed, NEW r \in Requests, req'[r].phase # "idle"
  PROVE  /\ since[r] \subseteq since'[r]
         /\ \E w \in since'[r] : w.row = RowGives(r)' /\ w.rules = RulesGive(r)'
<1> DEFINE w == [row |-> RowGives(r)', rules |-> RulesGive(r)']
<1>1. since'[r] = since[r] \cup {w}
  BY DEF Witnessed
<1>2. w.row = RowGives(r)' /\ w.rules = RulesGive(r)'
  OBVIOUS
<1> QED BY <1>1, <1>2

\* Every step keeps what is known of each request: the lookup and the judgement
\* put what they gave into the history, and what is kept of them is still that.
LEMMA RequestsStep ==
  ASSUME AccessTyped, SessionsTyped, RequestsInv, AccessStep, Witnessed
  PROVE  RequestsInv'
<1>0. \A r \in Requests : RequestOK(r)
  BY DEF RequestsInv
<1>1. ASSUME NEW r \in Requests, req'[r] = req[r]
      PROVE  RequestOK(r)'
  <2>1. CASE req[r].phase = "idle"
    BY <1>1, <2>1 DEF RequestOK
  <2>2. CASE req[r].phase # "idle"
    <3>1. since[r] \subseteq since'[r]
      BY <1>1, <2>2, Witnesses
    <3>2. ASSUME NEW c \in DOMAIN sessions, NEW row, SameSession(sessions[c], row)
          PROVE  c \in DOMAIN sessions' /\ SameSession(sessions'[c], row)
      BY <3>2, SessionsMove DEF RowsKept, KeptRow, SameSession
    <3>3. \A c \in DOMAIN sessions : c \in DOMAIN sessions'
      BY SessionsMove DEF RowsKept
    <3> QED BY <1>0, <1>1, <3>1, <3>2, <3>3 DEF RequestOK
  <2> QED BY <2>1, <2>2
<1>2. ASSUME NEW r \in Requests, req'[r].phase = "idle"
      PROVE  RequestOK(r)'
  BY <1>2 DEF RequestOK
<1>3. ASSUME NEW r \in Requests, BySession(req'[r]), UNCHANGED <<now, conf, rules, sessions, tokens, told>>
      PROVE  RequestOK(r)'
  <2>1. PICK w \in since'[r] : w.row = RowGives(r)'
    BY <1>3, Witnesses DEF BySession
  <2>2. RowGives(r)' = req'[r].row.grant
    BY <1>3 DEF BySession, RowGives, Live, Expired
  <2>3. SameSession(sessions'[req'[r].cred], req'[r].row) /\ req'[r].cred \in DOMAIN sessions'
    BY <1>3 DEF BySession, SameSession
  <2>4. req'[r].late = FALSE
    BY <1>3 DEF BySession, RequestsInv, ToldOver
  <2> QED BY <1>3, <2>1, <2>2, <2>3, <2>4 DEF RequestOK, BySession
<1>4. ASSUME NEW r \in Requests, ByToken(req'[r]), UNCHANGED <<now, conf, rules, sessions, tokens, told>>
      PROVE  RequestOK(r)'
  <2>1. PICK w \in since'[r] : w.row = RowGives(r)' /\ w.rules = RulesGive(r)'
    BY <1>4, Witnesses DEF ByToken
  <2>2. RowGives(r)' = req'[r].who /\ RulesGive(r)' = req'[r].who
    BY <1>4 DEF ByToken, RowGives, RulesGive
  <2> QED BY <1>4, <2>1, <2>2 DEF RequestOK, ByToken
<1>5. ASSUME NEW r \in Requests, Judged(req[r], req'[r]), UNCHANGED <<now, conf, rules, sessions, tokens, told>>
      PROVE  RequestOK(r)'
  <2> DEFINE c == req[r].cred
  <2>1. /\ req[r].kind = "session" /\ c \in DOMAIN sessions /\ SameSession(sessions[c], req[r].row)
        /\ req[r].late = FALSE
        /\ \E w \in since[r] : w.row = req[r].row.grant
    BY <1>0, <1>5 DEF Judged, RequestOK
  <2>2. /\ req'[r].kind = "session" /\ req'[r].cred = c /\ req'[r].late = FALSE
    BY <1>5, <2>1 DEF Judged, SameAsked
  <2>3. CASE req'[r].phase = "ending"
    BY <1>5, <2>1, <2>2, <2>3 DEF RequestOK
  <2>4. CASE req'[r].phase = "judged" /\ req'[r].who = req[r].row.grant /\ SessionVerdict(req[r].row) = "ok"
    <3>1. PICK w \in since'[r] : w.rules = RulesGive(r)'
      BY <2>4, Witnesses
    <3>2. since[r] \subseteq since'[r]
      BY <2>4, Witnesses
    <3>3. /\ stillVouchedFor(req[r].row)
          /\ ResolveAccess(rules, req[r].row.name, req[r].row.groups) = req[r].row.grant
      BY <2>4 DEF SessionVerdict
    <3>4. stillVouchedFor(sessions[c])
      BY <2>1, <3>3 DEF stillVouchedFor, SameSession
    <3>5. sessions[c].name = req[r].row.name /\ sessions[c].groups = req[r].row.groups
      BY <2>1 DEF SameSession
    <3>6. RulesGive(r)' = ResolveAccess(rules', sessions'[c].name, sessions'[c].groups)
      BY <1>5, <2>2, <3>4 DEF RulesGive, stillVouchedFor, TenantAllowed, AnyTenant
    <3>7. ResolveAccess(rules', sessions'[c].name, sessions'[c].groups) = ResolveAccess(rules, sessions[c].name, sessions[c].groups)
      BY <1>5
    <3>8. RulesGive(r)' = req'[r].who
      BY <2>4, <3>3, <3>5, <3>6, <3>7
    <3> QED BY <2>1, <2>2, <2>4, <3>1, <3>2, <3>8 DEF RequestOK
  <2> QED BY <1>5, <2>3, <2>4 DEF Judged
<1>6. ASSUME NEW r \in Requests, ServedNow(req[r], req'[r])
      PROVE  RequestOK(r)'
  <2>1. since[r] \subseteq since'[r]
    BY <1>6, Witnesses DEF ServedNow
  <2>2. req'[r].late = FALSE /\ req'[r].phase = "served" /\ req'[r].who = req[r].who
        /\ req'[r].need = req[r].need /\ req'[r].app = req[r].app
    BY <1>0, <1>6 DEF ServedNow, SameAsked, RequestOK
  <2>3. req[r].need # "read" => req[r].who.apps = {} \/ req[r].app \in req[r].who.apps
    BY <1>6 DEF ServedNow, Authorized
  <2>4. (\E w \in since[r] : w.row = req[r].who) /\ (\E w \in since[r] : w.rules = req[r].who)
    BY <1>0, <1>6 DEF ServedNow, RequestOK
  <2> QED BY <2>1, <2>2, <2>3, <2>4 DEF RequestOK
<1>7. ASSUME NEW q \in Requests, NEW x, req' = [req EXCEPT ![q] = x], NEW r \in Requests, r # q
      PROVE  RequestOK(r)'
  BY <1>1, <1>7 DEF AccessTyped
<1>8. ASSUME NEW q \in Requests, NEW x, req' = [req EXCEPT ![q] = x] PROVE req'[q] = x
  BY <1>8 DEF AccessTyped
<1>9. \A r \in Requests : RequestOK(r)'
  <2>1. CASE UNCHANGED req
    BY <1>1, <2>1
  <2>2. CASE Restart
    <3>1. \A r \in Requests : req'[r].phase = "idle"
      BY <2>2, NoReqFields DEF Restart
    <3> QED BY <1>2, <3>1
  <2>3. ASSUME NEW q \in Requests, req' = [req EXCEPT ![q] = NoReq]
        PROVE  \A r \in Requests : RequestOK(r)'
    BY <1>2, <1>7, <1>8, <2>3, NoReqFields
  <2>4. ASSUME NEW q \in Requests, NEW x, req' = [req EXCEPT ![q] = x],
               \/ /\ BySession(x) \/ ByToken(x)
                  /\ UNCHANGED <<now, conf, rules, sessions, tokens, told>>
               \/ /\ Judged(req[q], x)
                  /\ UNCHANGED <<now, conf, rules, sessions, tokens, told>>
               \/ ServedNow(req[q], x)
        PROVE  \A r \in Requests : RequestOK(r)'
    BY <1>3, <1>4, <1>5, <1>6, <1>7, <1>8, <2>4
  <2> QED BY <2>1, <2>2, <2>3, <2>4, RequestMoves
<1> QED BY <1>9, ToldStep DEF RequestsInv

-----------------------------------------------------------------------------
\* One sign-in for a code, at a provider that honours it once.
OneRedeemed ==
    provider.strict =>
        /\ \A a \in SignIns : signin[a].phase # "idle" => provider.codes[signin[a].code].used
        /\ \A s \in DOMAIN sessions : provider.codes[sessions[s].code].used
        /\ \A a, b \in SignIns : a # b /\ signin[a].phase # "idle" /\ signin[b].phase # "idle" => signin[a].code # signin[b].code
        /\ \A a \in SignIns, s \in DOMAIN sessions : signin[a].phase # "idle" => signin[a].code # sessions[s].code
        /\ \A s, t \in DOMAIN sessions : s # t => sessions[s].code # sessions[t].code

\* What codes, nonces and the clock have to do with one another.
Shared ==
    /\ \A c \in Codes : provider.codes[c].issued # Never => provider.codes[c].issued <= now
    /\ \A c \in Codes : nonces[c] # Never =>
          provider.codes[c].issued # Never /\ provider.codes[c].issued <= nonces[c] /\ nonces[c] <= now
    /\ \A a \in SignIns : signin[a].phase = "redeemed" =>
          LET i == provider.codes[signin[a].code].issued IN i # Never /\ now - i <= CodeLife

\* The nonce of the code is remembered, or the code is too old to be redeemed.
Burnt == {c \in Codes :
    \/ nonces[c] # Never
    \/ provider.codes[c].issued # Never /\ now - provider.codes[c].issued > CodeLife}

\* Verify believed its token.
Accepted(a) == signin[a].phase \in {"verified", "resolved"}

\* One sign-in for a code in a run of the agent.
OneAccepted ==
    /\ \A a \in SignIns : Accepted(a) => signin[a].code \in Burnt
    /\ \A s \in DOMAIN sessions : sessions[s].run = budget.restarts => sessions[s].code \in Burnt
    /\ \A a, b \in SignIns : a # b /\ Accepted(a) /\ Accepted(b) => signin[a].code # signin[b].code
    /\ \A a \in SignIns, s \in DOMAIN sessions :
          Accepted(a) /\ sessions[s].run = budget.restarts => signin[a].code # sessions[s].code
    /\ \A s, t \in DOMAIN sessions :
          s # t /\ sessions[s].run = sessions[t].run => sessions[s].code # sessions[t].code

\* What a session and its sign-in rest on.
Trusted(key, signed) ==
    LET w == provider.withdrawn[key] IN w # Never => signed - w < CacheFor

\* The cached set is no older than what was withdrawn from it, and what was
\* accepted rests on a key that was withdrawn less than CacheFor before.
KeysInv ==
    /\ \A k \in ProviderKeys : provider.withdrawn[k] # Never => provider.withdrawn[k] <= now
    /\ \A k \in provider.keys : provider.withdrawn[k] = Never
    /\ cache.at # Never =>
          /\ cache.at <= now
          /\ \A k \in cache.keys : provider.withdrawn[k] # Never => cache.at <= provider.withdrawn[k]
    /\ \A a \in SignIns : Accepted(a) => signin[a].signed <= now /\ Trusted(signin[a].key, signin[a].signed)
    /\ \A s \in DOMAIN sessions : sessions[s].signed <= now /\ Trusted(sessions[s].key, sessions[s].signed)

\* What a step does to the provider's codes and keys.
LEMMA CodesStep ==
  ASSUME AccessTyped, AccessStep
  PROVE  \A c \in Codes :
            /\ \/ provider'.codes[c].issued = provider.codes[c].issued
               \/ provider.codes[c].issued = Never /\ provider'.codes[c].issued = now /\ now' = now /\ nonces' = nonces
            /\ provider.codes[c].used => provider'.codes[c].used
<1>1. /\ provider \in [keys : SUBSET ProviderKeys, withdrawn : [ProviderKeys -> Time],
                       codes : [Codes -> [issued : Time, used : BOOLEAN]], strict : BOOLEAN]
  BY DEF AccessTyped
<1>2. CASE \E c \in Codes : BeginSignIn(c)
  <2>1. PICK c \in Codes : BeginSignIn(c)
    BY <1>2
  <2>2. /\ provider.codes[c].issued = Never /\ provider' = [provider EXCEPT !.codes[c].issued = now]
        /\ UNCHANGED <<now, nonces>>
    BY <2>1 DEF BeginSignIn
  <2>3. provider'.codes[c].issued = now /\ provider'.codes[c].used = provider.codes[c].used
    BY <1>1, <2>2
  <2>4. \A d \in Codes : d # c => provider'.codes[d] = provider.codes[d]
    BY <1>1, <2>2
  <2> QED BY <2>2, <2>3, <2>4
<1>3. CASE \E a \in SignIns, c \in Codes : handleSignIn(a, c)
  <2>1. PICK a \in SignIns, c \in Codes : provider' = provider \/ provider' = [provider EXCEPT !.codes[c].used = TRUE]
    BY <1>3 DEF handleSignIn, Exchange
  <2>2. CASE provider' = provider
    BY <2>2
  <2>3. CASE provider' = [provider EXCEPT !.codes[c].used = TRUE]
    <3>1. provider'.codes[c].issued = provider.codes[c].issued /\ provider'.codes[c].used
      BY <1>1, <2>3
    <3>2. \A d \in Codes : d # c => provider'.codes[d] = provider.codes[d]
      BY <1>1, <2>3
    <3> QED BY <3>1, <3>2
  <2> QED BY <2>1, <2>2, <2>3
<1>4. CASE \E k \in ProviderKeys : RotateKeys(k)
  <2>1. provider'.codes = provider.codes
    BY <1>1, <1>4 DEF RotateKeys
  <2> QED BY <2>1
<1>5. CASE provider' = provider
  BY <1>5
<1>6. CASE Tick \/ Restart \/ SignInGoesOn
  BY <1>5, <1>6 DEF Tick, Restart, SignInGoesOn, FetchKeys, Verify, ReadRules, StoreSession
<1>7. CASE RequestGoesOn
  BY <1>5, <1>7 DEF RequestGoesOn, Present, Judge, EndOne, Serve, Answer
<1>8. CASE RulesChange
  BY <1>5, <1>8 DEF RulesChange, GrantAccess, RevokeAccess, EndSessions, CreateToken, UpdateToken, DeleteToken
<1> QED BY <1>2, <1>3, <1>4, <1>6, <1>7, <1>8, StepKinds

\* Time only passes, and between a redemption and its verification not at all.
LEMMA TimePasses ==
  ASSUME AccessTyped, AccessStep
  PROVE  /\ now <= now' /\ now' \in Nat /\ now \in Nat
         /\ now' # now => \A a \in SignIns : signin[a].phase # "redeemed"
         /\ now' # now => UNCHANGED <<provider, cache, nonces, signin, sessions>>
  BY ProviderStep DEF AccessTyped, Tick

\* A nonce is remembered until its code cannot be redeemed any more.
LEMMA NoncesStep ==
  ASSUME AccessTyped, AccessStep, Shared, ~Restart
  PROVE  /\ \A c \in Codes : c \in Burnt => c \in Burnt'
         /\ \A c \in Codes : nonces'[c] # Never =>
               nonces'[c] = nonces[c] \/ (nonces'[c] = now /\ now' = now /\ provider' = provider /\ provider.codes[c].issued # Never)
<1>1. /\ now \in Nat /\ nonces \in [Codes -> Time] /\ Never \notin Nat /\ Never \in Int
      /\ \A c \in Codes : provider.codes[c].issued \in Time
      /\ \A t \in Time : t # Never => t \in Nat
  BY DEF AccessTyped, Never, Time
<1>2. CASE nonces' = nonces
  <2>1. ASSUME NEW c \in Codes, c \in Burnt PROVE c \in Burnt'
    <3>1. CASE nonces[c] # Never
      BY <1>2, <3>1 DEF Burnt
    <3>2. CASE provider.codes[c].issued # Never /\ now - provider.codes[c].issued > CodeLife
      <4>1. provider'.codes[c].issued = provider.codes[c].issued
        BY <3>2, CodesStep
      <4>2. now' \in Nat /\ now <= now' /\ provider.codes[c].issued \in Nat
        BY <1>1, <3>2, TimePasses
      <4> QED BY <1>1, <3>2, <4>1, <4>2, AccessAssumption DEF Burnt
    <3> QED BY <2>1, <3>1, <3>2 DEF Burnt
  <2> QED BY <1>2, <2>1
<1>3. ASSUME NEW a \in SignIns, Verify(a), nonces' = Used(signin[a].code)
      PROVE  /\ \A c \in Codes : c \in Burnt => c \in Burnt'
             /\ \A c \in Codes : nonces'[c] # Never =>
               nonces'[c] = nonces[c] \/ (nonces'[c] = now /\ now' = now /\ provider' = provider /\ provider.codes[c].issued # Never)
  <2>1. /\ signin[a].phase = "redeemed" /\ signin[a].code \in Codes
        /\ UNCHANGED <<now, provider>> /\ provider.codes[signin[a].code].issued # Never
    BY <1>3 DEF Verify, AccessTyped, Shared
  <2>2. /\ nonces'[signin[a].code] = now
        /\ \A c \in Codes : c # signin[a].code =>
              \/ nonces'[c] = nonces[c]
              \/ nonces'[c] = Never /\ nonces[c] # Never /\ now - nonces[c] > NonceKeptFor
    BY <1>3, <2>1 DEF Used
  <2>3. ASSUME NEW c \in Codes, c \in Burnt PROVE c \in Burnt'
    <3>1. CASE c = signin[a].code
      BY <1>1, <2>2, <3>1 DEF Burnt
    <3>2. CASE c # signin[a].code /\ nonces'[c] = nonces[c]
      BY <2>1, <2>3, <3>2 DEF Burnt
    <3>3. CASE nonces'[c] = Never /\ nonces[c] # Never /\ now - nonces[c] > NonceKeptFor
      <4>1. provider.codes[c].issued # Never /\ provider.codes[c].issued <= nonces[c]
        BY <3>3 DEF Shared
      <4>2. provider.codes[c].issued \in Nat /\ nonces[c] \in Nat
        BY <1>1, <3>3, <4>1
      <4> QED BY <1>1, <2>1, <3>3, <4>1, <4>2, AccessAssumption DEF Burnt
    <3> QED BY <2>2, <3>1, <3>2, <3>3
  <2> QED BY <2>1, <2>2, <2>3
<1>4. CASE \E a \in SignIns : Verify(a)
  BY <1>2, <1>3, <1>4 DEF Verify
<1> QED BY <1>2, <1>4 DEF AccessStep, Tick, BeginSignIn, RotateKeys, handleSignIn, FetchKeys, ReadRules,
       StoreSession, Present, Judge, EndOne, Serve, Answer, GrantAccess, RevokeAccess, EndSessions,
       CreateToken, UpdateToken, DeleteToken

\* Codes, nonces and the clock agree: a nonce is used up after its code was
\* issued, and a code that is being verified could just be redeemed.
LEMMA SharedStep ==
  ASSUME AccessTyped, AccessStep, Shared
  PROVE  Shared'
<1>1. /\ now \in Nat /\ nonces \in [Codes -> Time] /\ Never \notin Nat /\ Never \in Int
      /\ \A c \in Codes : provider.codes[c].issued \in Time
      /\ \A t \in Time : t # Never => t \in Nat
  BY DEF AccessTyped, Never, Time
<1>2. now <= now' /\ now' \in Nat
  BY TimePasses
<1>3. ASSUME NEW c \in Codes, provider'.codes[c].issued # Never PROVE provider'.codes[c].issued <= now'
  <2>1. provider'.codes[c].issued \in Time
    BY ProviderStep
  <2> QED BY <1>1, <1>2, <1>3, <2>1, CodesStep DEF Shared
<1>4. ASSUME NEW c \in Codes, nonces'[c] # Never
      PROVE  provider'.codes[c].issued # Never /\ provider'.codes[c].issued <= nonces'[c] /\ nonces'[c] <= now'
  <2>1. ~Restart
    BY <1>4 DEF Restart
  <2>2. CASE nonces'[c] = nonces[c]
    <3>1. /\ nonces[c] \in Nat /\ provider.codes[c].issued # Never /\ provider.codes[c].issued <= nonces[c] /\ nonces[c] <= now
      BY <1>1, <1>4, <2>2 DEF Shared
    <3>2. provider'.codes[c].issued = provider.codes[c].issued
      BY <3>1, CodesStep
    <3> QED BY <1>1, <1>2, <2>2, <3>1, <3>2
  <2>3. CASE nonces'[c] = now /\ now' = now /\ provider' = provider /\ provider.codes[c].issued # Never
    BY <1>1, <2>3 DEF Shared
  <2> QED BY <1>4, <2>1, <2>2, <2>3, NoncesStep
<1>5. ASSUME NEW a \in SignIns, signin'[a].phase = "redeemed"
      PROVE  LET i == provider'.codes[signin'[a].code].issued IN i # Never /\ now' - i <= CodeLife
  <2>1. CASE signin'[a] = signin[a]
    <3>1. signin[a].code \in Codes /\ signin[a].phase = "redeemed"
      BY <1>5, <2>1 DEF AccessTyped
    <3>2. now' = now
      BY <3>1, TimePasses
    <3>3. provider'.codes[signin[a].code].issued = provider.codes[signin[a].code].issued
      BY <3>1, CodesStep DEF Shared
    <3> QED BY <2>1, <3>1, <3>2, <3>3 DEF Shared
  <2>2. ASSUME NEW c \in Codes, Redeems(c), signin'[a].code = c, now' = now
        PROVE  LET i == provider'.codes[signin'[a].code].issued IN i # Never /\ now' - i <= CodeLife
    <3>1. provider.codes[c].issued # Never /\ now - provider.codes[c].issued <= CodeLife
      BY <2>2 DEF Redeems
    <3>2. provider'.codes[c].issued = provider.codes[c].issued
      BY <3>1, CodesStep
    <3> QED BY <2>2, <3>1, <3>2
  <2>3. ASSUME NEW b \in SignIns, NEW x, signin' = [signin EXCEPT ![b] = x], x.phase # "redeemed"
        PROVE  signin'[a] = signin[a]
    BY <1>5, <2>3 DEF AccessTyped
  <2>4. ~Restart
    BY <1>5, NoSignInFields DEF Restart
  <2>5. CASE UNCHANGED signin
    BY <2>1, <2>5
  <2>6. CASE \E b \in SignIns, c \in Codes : \E x :
                /\ Redeems(c) /\ signin' = [signin EXCEPT ![b] = x] /\ x.code = c /\ UNCHANGED now
    BY <2>1, <2>2, <2>6 DEF AccessTyped
  <2>7. CASE \E b \in SignIns : \E x : signin' = [signin EXCEPT ![b] = x] /\ x.phase # "redeemed"
    BY <2>1, <2>3, <2>7
  <2> QED BY <2>4, <2>5, <2>6, <2>7, SignInMoves, NoSignInFields
<1> QED BY <1>3, <1>4, <1>5 DEF Shared

\* A sign-in is accepted by Verify alone, for a code whose nonce is new.
Verified(a) ==
    /\ Verify(a) /\ signin'[a].code \in Codes /\ signin'[a].code = signin[a].code
    /\ signin'[a].key = signin[a].key /\ signin'[a].signed = now
    /\ signin[a].code \notin Burnt /\ nonces'[signin[a].code] = now
    /\ SignedBy(signin[a].key)
    /\ \A b \in SignIns : b # a => signin'[b] = signin[b]

StaysAccepted(a) ==
    /\ Accepted(a) /\ signin'[a].code = signin[a].code
    /\ signin'[a].key = signin[a].key /\ signin'[a].signed = signin[a].signed

\* Either no sign-in is newly accepted, or Verify accepts one.
LEMMA AcceptedMoves ==
  ASSUME AccessTyped, AccessStep, Shared
  PROVE  \/ \A a \in SignIns : Accepted(a)' => StaysAccepted(a)
         \/ \E a \in SignIns : Verified(a)
<1>1. CASE UNCHANGED signin
  BY <1>1 DEF Accepted, StaysAccepted
<1>2. CASE Restart
  BY <1>2, NoSignInFields DEF Restart, Accepted
<1>3. ASSUME NEW a \in SignIns, NEW x, signin' = [signin EXCEPT ![a] = x],
             x.phase \in {"idle", "redeemed"}
      PROVE  \A b \in SignIns : Accepted(b)' => StaysAccepted(b)
  BY <1>3 DEF AccessTyped, Accepted, StaysAccepted
<1>4. ASSUME NEW a \in SignIns, NEW x, ReadRules(a), signin' = [signin EXCEPT ![a] = x],
             x.code = signin[a].code, x.key = signin[a].key, x.signed = signin[a].signed
      PROVE  \A b \in SignIns : Accepted(b)' => StaysAccepted(b)
  BY <1>4 DEF AccessTyped, Accepted, StaysAccepted, ReadRules
<1>5. ASSUME NEW a \in SignIns, NEW x,
             Verify(a), SignedBy(signin[a].key), FirstUse(signin[a].code), nonces' = Used(signin[a].code),
             signin' = [signin EXCEPT ![a] = x], SignInOK(x), x.phase = "verified",
             x.code = signin[a].code, x.key = signin[a].key, x.signed = now
      PROVE  Verified(a)
  <2> DEFINE c == signin[a].code
  <2>1. /\ signin'[a] = x /\ \A b \in SignIns : b # a => signin'[b] = signin[b]
    BY <1>5 DEF AccessTyped
  <2>2. c \in Codes /\ signin[a].phase = "redeemed"
    BY <1>5 DEF Verify, AccessTyped
  <2>3. nonces'[c] = now
    BY <1>5, <2>2 DEF Used
  <2>4. /\ provider.codes[c].issued # Never /\ now - provider.codes[c].issued <= CodeLife
    BY <2>2 DEF Shared
  <2>5. c \notin Burnt
    <3>1. now \in Nat /\ nonces[c] \in Time /\ provider.codes[c].issued \in Nat
      BY <2>2, <2>4 DEF AccessTyped, Time
    <3>2. CASE nonces[c] = Never
      BY <2>4, <3>1, <3>2, AccessAssumption DEF Burnt
    <3>3. CASE nonces[c] # Never
      <4>1. nonces[c] \in Nat /\ provider.codes[c].issued <= nonces[c] /\ now - nonces[c] > NonceKeptFor
        BY <1>5, <2>2, <3>1, <3>3 DEF FirstUse, Shared, Time
      <4> QED BY <2>4, <3>1, <4>1, AccessAssumption
    <3> QED BY <3>2, <3>3
  <2> QED BY <1>5, <2>1, <2>2, <2>3, <2>5 DEF Verified
<1> QED BY <1>1, <1>2, <1>3, <1>4, <1>5, SignInMoves, NoSignInFields

\* A code makes one session in a run: Verify finds the nonce of any other used
\* up, or the code too old to be redeemed.
LEMMA OneAcceptedStep ==
  ASSUME AccessTyped, SessionsTyped, AccessStep, Shared, OneAccepted
  PROVE  OneAccepted'
<1>1. /\ \A s \in DOMAIN sessions : s \in DOMAIN sessions' /\ sessions'[s].code = sessions[s].code /\ sessions'[s].run = sessions[s].run
  BY SessionsMove DEF RowsKept, KeptRow, SameSession
<1>2. /\ \A s \in DOMAIN sessions : sessions[s].code \in Codes /\ sessions[s].run \in Nat /\ sessions[s].run >= budget.restarts
      /\ budget.restarts \in Nat /\ budget'.restarts \in Nat
  BY BudgetStep DEF SessionsTyped, AccessTyped
<1>3. CASE Restart
  <2>1. UNCHANGED sessions /\ \A a \in SignIns : ~Accepted(a)'
    BY <1>3, NoSignInFields DEF Restart, Accepted
  <2>2. \A s \in DOMAIN sessions : sessions[s].run # budget'.restarts
    BY <1>2, <1>3, BudgetStep
  <2> QED BY <2>1, <2>2 DEF OneAccepted
<1>4. CASE ~Restart
  <2>1. budget'.restarts = budget.restarts /\ \A c \in Codes : c \in Burnt => c \in Burnt'
    BY <1>4, BudgetStep, NoncesStep
  <2>2. CASE DOMAIN sessions' = DOMAIN sessions /\ \A a \in SignIns : Accepted(a)' => StaysAccepted(a)
    <3>1. \A a \in SignIns : Accepted(a)' => signin'[a].code \in Codes /\ signin'[a].code \in Burnt'
      BY <2>1, <2>2 DEF StaysAccepted, OneAccepted, AccessTyped, Accepted
    <3>2. \A s \in DOMAIN sessions : sessions[s].run = budget.restarts => sessions[s].code \in Burnt'
      BY <1>2, <2>1 DEF OneAccepted
    <3> QED BY <1>1, <2>1, <2>2, <3>1, <3>2 DEF OneAccepted, StaysAccepted
  <2>3. CASE \E a \in SignIns : Verified(a)
    <3>1. PICK a \in SignIns : Verified(a)
      BY <2>3
    <3>2. UNCHANGED sessions
      BY <3>1 DEF Verified, Verify
    <3>3. /\ signin'[a].code = signin[a].code /\ signin[a].code \in Codes /\ signin[a].code \notin Burnt
          /\ \A b \in SignIns : b # a => signin'[b] = signin[b]
      BY <3>1 DEF Verified
    <3>4. signin'[a].code \in Burnt'
      <4>1. now \in Nat /\ now # Never
        BY DEF AccessTyped, Never
      <4> QED BY <3>1, <4>1 DEF Verified, Burnt
    <3>5. \A b \in SignIns : b # a /\ Accepted(b)' => Accepted(b) /\ signin'[b].code = signin[b].code /\ signin[b].code \in Codes
      BY <3>3 DEF Accepted, AccessTyped
    <3>6. \A b \in SignIns : b # a /\ Accepted(b)' => signin'[b].code \in Burnt' /\ signin'[b].code # signin'[a].code
      BY <2>1, <3>3, <3>5 DEF OneAccepted
    <3>7. \A s \in DOMAIN sessions : sessions[s].run = budget.restarts => sessions[s].code \in Burnt' /\ sessions[s].code # signin'[a].code
      BY <1>2, <2>1, <3>3 DEF OneAccepted
    <3>8. \A b, d \in SignIns : b # d /\ Accepted(b)' /\ Accepted(d)' => signin'[b].code # signin'[d].code
      BY <3>5, <3>6 DEF OneAccepted
    <3>9. \A b \in SignIns, s \in DOMAIN sessions :
             Accepted(b)' /\ sessions[s].run = budget.restarts => signin'[b].code # sessions[s].code
      BY <3>5, <3>7 DEF OneAccepted
    <3> QED BY <2>1, <3>2, <3>4, <3>6, <3>7, <3>8, <3>9 DEF OneAccepted
  <2>4. CASE \E a \in SignIns : StoreSession(a) /\ NewRow(a)
    <3>1. PICK a \in SignIns : StoreSession(a) /\ NewRow(a)
      BY <2>4
    <3> DEFINE n == Len(sessions) + 1
    <3>2. /\ DOMAIN sessions' = DOMAIN sessions \cup {n} /\ n \notin DOMAIN sessions
          /\ sessions'[n].code = signin[a].code /\ sessions'[n].run = budget.restarts
      BY <3>1 DEF NewRow
    <3> HIDE DEF n
    <3>3. /\ Accepted(a) /\ signin'[a].phase = "idle"
          /\ \A b \in SignIns : b # a => signin'[b] = signin[b]
      BY <3>1, NoSignInFields DEF StoreSession, Accepted, AccessTyped
    <3>4. \A b \in SignIns : Accepted(b)' => b # a /\ Accepted(b) /\ signin'[b].code = signin[b].code /\ signin[b].code \in Codes
      BY <3>3 DEF Accepted, AccessTyped
    <3>5. sessions'[n].code \in Burnt'
      BY <2>1, <3>2, <3>3 DEF OneAccepted, AccessTyped, Accepted
    <3>6. \A s \in DOMAIN sessions' : s # n => s \in DOMAIN sessions
      BY <3>2
    <3>7. \A b \in SignIns : Accepted(b)' => signin'[b].code \in Burnt'
      BY <2>1, <3>4 DEF OneAccepted
    <3>8. \A s \in DOMAIN sessions' : sessions'[s].run = budget.restarts => sessions'[s].code \in Burnt'
      BY <1>1, <1>2, <2>1, <3>5, <3>6 DEF OneAccepted
    <3>9. \A b, d \in SignIns : b # d /\ Accepted(b)' /\ Accepted(d)' => signin'[b].code # signin'[d].code
      BY <3>4 DEF OneAccepted
    <3>10. \A b \in SignIns, s \in DOMAIN sessions' :
             Accepted(b)' /\ sessions'[s].run = budget.restarts => signin'[b].code # sessions'[s].code
      BY <1>1, <3>2, <3>3, <3>4, <3>6 DEF OneAccepted
    <3>11. \A s, t \in DOMAIN sessions' : s # t /\ sessions'[s].run = sessions'[t].run => sessions'[s].code # sessions'[t].code
      BY <1>1, <3>2, <3>3, <3>6 DEF OneAccepted
    <3> QED BY <2>1, <3>7, <3>8, <3>9, <3>10, <3>11 DEF OneAccepted
  <2>5. (\E a \in SignIns : Verified(a)) => DOMAIN sessions' = DOMAIN sessions
    BY DEF Verified, Verify
  <2> QED BY <2>2, <2>3, <2>4, <2>5, SessionsMove, AcceptedMoves
<1> QED BY <1>3, <1>4

\* A sign-in begins by redeeming a code.
Redeemed(a) ==
    /\ signin'[a].code \in Codes /\ Redeems(signin'[a].code) /\ provider'.codes[signin'[a].code].used
    /\ \A b \in SignIns : b # a => signin'[b] = signin[b]
    /\ UNCHANGED sessions

\* A sign-in under way.
Busy(a) == signin[a].phase # "idle"
StaysBusy(a) == Busy(a) /\ signin'[a].code = signin[a].code /\ signin[a].code \in Codes

\* Either no sign-in begins, or one redeems its code.
LEMMA BusyMoves ==
  ASSUME AccessTyped, AccessStep
  PROVE  \/ \A a \in SignIns : Busy(a)' => StaysBusy(a)
         \/ \E a \in SignIns : Redeemed(a)
<1>1. CASE UNCHANGED signin
  BY <1>1 DEF Busy, StaysBusy, AccessTyped
<1>2. CASE Restart
  BY <1>2, NoSignInFields DEF Restart, Busy
<1>3. ASSUME NEW a \in SignIns, signin' = [signin EXCEPT ![a] = NoSignIn]
      PROVE  \A b \in SignIns : Busy(b)' => StaysBusy(b)
  BY <1>3, NoSignInFields DEF AccessTyped, Busy, StaysBusy
<1>4. ASSUME NEW a \in SignIns, NEW x, ReadRules(a) \/ Verify(a), signin' = [signin EXCEPT ![a] = x], x.code = signin[a].code
      PROVE  \A b \in SignIns : Busy(b)' => StaysBusy(b)
  BY <1>4 DEF AccessTyped, Busy, StaysBusy, ReadRules, Verify
<1>5. ASSUME NEW a \in SignIns, NEW c \in Codes, NEW x,
             Redeems(c), provider' = [provider EXCEPT !.codes[c].used = TRUE],
             signin' = [signin EXCEPT ![a] = x], x.code = c, UNCHANGED sessions
      PROVE  Redeemed(a)
  BY <1>5 DEF AccessTyped, Redeemed
<1> QED BY <1>1, <1>2, <1>3, <1>4, <1>5, SignInMoves

\* A provider that honours a code once lets one sign-in have it.
LEMMA OneRedeemedStep ==
  ASSUME AccessTyped, SessionsTyped, AccessStep, OneRedeemed
  PROVE  OneRedeemed'
<1> SUFFICES ASSUME provider.strict PROVE OneRedeemed'
  BY ProviderStep DEF OneRedeemed
<1>0. /\ \A a \in SignIns : Busy(a) => provider.codes[signin[a].code].used
      /\ \A s \in DOMAIN sessions : provider.codes[sessions[s].code].used
      /\ \A a, b \in SignIns : a # b /\ Busy(a) /\ Busy(b) => signin[a].code # signin[b].code
      /\ \A a \in SignIns, s \in DOMAIN sessions : Busy(a) => signin[a].code # sessions[s].code
      /\ \A s, t \in DOMAIN sessions : s # t => sessions[s].code # sessions[t].code
  BY DEF OneRedeemed, Busy
<1>1. \A s \in DOMAIN sessions : s \in DOMAIN sessions' /\ sessions'[s].code = sessions[s].code /\ sessions[s].code \in Codes
  BY SessionsMove DEF RowsKept, KeptRow, SameSession, SessionsTyped
<1>2. \A c \in Codes : provider.codes[c].used => provider'.codes[c].used
  BY CodesStep
<1>3. CASE DOMAIN sessions' = DOMAIN sessions /\ \A a \in SignIns : Busy(a)' => StaysBusy(a)
  BY <1>0, <1>1, <1>2, <1>3 DEF OneRedeemed, StaysBusy, Busy
<1>4. ASSUME NEW a \in SignIns, Redeemed(a) PROVE OneRedeemed'
  <2>1. /\ ~provider.codes[signin'[a].code].used
        /\ UNCHANGED sessions /\ provider'.codes[signin'[a].code].used /\ signin'[a].code \in Codes
        /\ \A b \in SignIns : b # a => signin'[b] = signin[b]
    BY <1>4 DEF Redeemed, Redeems
  <2>2. \A b \in SignIns : b # a /\ Busy(b)' => Busy(b) /\ signin'[b].code = signin[b].code /\ signin[b].code \in Codes
    BY <2>1 DEF Busy, AccessTyped
  <2>3. \A b \in SignIns : b # a /\ Busy(b)' => signin'[b].code # signin'[a].code /\ provider'.codes[signin'[b].code].used
    BY <1>0, <1>2, <2>1, <2>2
  <2>4. \A s \in DOMAIN sessions : sessions[s].code # signin'[a].code /\ provider'.codes[sessions[s].code].used
    BY <1>0, <1>1, <1>2, <2>1
  <2>5. \A b, d \in SignIns : b # d /\ Busy(b)' /\ Busy(d)' => signin'[b].code # signin'[d].code
    BY <1>0, <2>2, <2>3
  <2>6. \A b \in SignIns, s \in DOMAIN sessions : Busy(b)' => signin'[b].code # sessions[s].code
    BY <1>0, <2>2, <2>4
  <2> QED BY <1>0, <2>1, <2>3, <2>4, <2>5, <2>6 DEF OneRedeemed, Busy
<1>5. ASSUME NEW a \in SignIns, StoreSession(a), NewRow(a) PROVE OneRedeemed'
  <2> DEFINE n == Len(sessions) + 1
  <2>1. /\ DOMAIN sessions' = DOMAIN sessions \cup {n} /\ n \notin DOMAIN sessions
        /\ sessions'[n].code = signin[a].code
    BY <1>5 DEF NewRow
  <2> HIDE DEF n
  <2>2. /\ Busy(a) /\ signin'[a].phase = "idle" /\ signin[a].code \in Codes
        /\ \A b \in SignIns : b # a => signin'[b] = signin[b]
    BY <1>5, NoSignInFields DEF StoreSession, Busy, AccessTyped
  <2>3. \A b \in SignIns : Busy(b)' => b # a /\ Busy(b) /\ signin'[b].code = signin[b].code /\ signin[b].code \in Codes
    BY <2>2 DEF Busy, AccessTyped
  <2>4. \A s \in DOMAIN sessions' : s # n => s \in DOMAIN sessions
    BY <2>1
  <2>5. \A b \in SignIns : Busy(b)' => provider'.codes[signin'[b].code].used
    BY <1>0, <1>2, <2>3
  <2>6. \A s \in DOMAIN sessions' : provider'.codes[sessions'[s].code].used
    BY <1>0, <1>1, <1>2, <2>1, <2>2, <2>4
  <2>7. \A b, d \in SignIns : b # d /\ Busy(b)' /\ Busy(d)' => signin'[b].code # signin'[d].code
    BY <1>0, <2>3
  <2>8. \A b \in SignIns, s \in DOMAIN sessions' : Busy(b)' => signin'[b].code # sessions'[s].code
    BY <1>0, <1>1, <2>1, <2>2, <2>3, <2>4
  <2>9. \A s, t \in DOMAIN sessions' : s # t => sessions'[s].code # sessions'[t].code
    BY <1>0, <1>1, <2>1, <2>2, <2>4
  <2> QED BY <2>5, <2>6, <2>7, <2>8, <2>9 DEF OneRedeemed, Busy
<1>6. (\E a \in SignIns : StoreSession(a)) => \A a \in SignIns : Busy(a)' => StaysBusy(a)
  BY NoSignInFields DEF StoreSession, Busy, StaysBusy, AccessTyped
<1> QED BY <1>3, <1>4, <1>5, <1>6, BusyMoves, SessionsMove

\* A key is believed for less than CacheFor after it was withdrawn: the set it
\* was found in was fetched before.
LEMMA KeysStep ==
  ASSUME AccessTyped, SessionsTyped, AccessStep, Shared, KeysInv
  PROVE  KeysInv'
<1>1. /\ now \in Nat /\ Never \notin Nat /\ Never \in Int /\ CacheFor \in Nat /\ CacheFor > 0
      /\ provider.withdrawn \in [ProviderKeys -> Time] /\ provider.keys \subseteq ProviderKeys
      /\ cache \in [keys : SUBSET ProviderKeys, at : Time, refetched : Time]
      /\ \A t \in Time : t # Never => t \in Nat
      /\ \A a \in SignIns : Accepted(a) => signin[a].key \in ProviderKeys /\ signin[a].signed \in Nat
      /\ \A s \in DOMAIN sessions : sessions[s].key \in ProviderKeys /\ sessions[s].signed \in Nat
  BY AccessAssumption DEF AccessTyped, SessionsTyped, Never, Time, Accepted
<1>2. now <= now' /\ now' \in Nat
  BY TimePasses
\* A key that is trusted stays so: it is withdrawn now at the earliest.
<1>3. /\ \A k \in ProviderKeys : provider'.withdrawn[k] = provider.withdrawn[k] \/ provider'.withdrawn[k] = now
      /\ \A k \in provider'.keys : provider'.withdrawn[k] = Never
  <2>1. CASE \E k \in ProviderKeys : RotateKeys(k)
    <3>1. PICK k \in ProviderKeys : RotateKeys(k)
      BY <2>1
    <3>2. /\ provider'.keys = {k} /\ provider.withdrawn[k] = Never /\ k \notin provider.keys
          /\ \A j \in ProviderKeys : provider'.withdrawn[j] = IF j \in provider.keys THEN now ELSE provider.withdrawn[j]
      BY <3>1 DEF RotateKeys, AccessTyped
    <3> QED BY <3>2
  <2>2. CASE UNCHANGED provider
    BY <2>2 DEF KeysInv
  <2>3. CASE \E c \in Codes : BeginSignIn(c)
    <3>1. provider'.keys = provider.keys /\ provider'.withdrawn = provider.withdrawn
      BY <2>3 DEF BeginSignIn, AccessTyped
    <3> QED BY <3>1 DEF KeysInv
  <2>4. CASE \E a \in SignIns, c \in Codes : handleSignIn(a, c)
    <3>1. \E c \in Codes : provider' = provider \/ provider' = [provider EXCEPT !.codes[c].used = TRUE]
      BY <2>4 DEF handleSignIn, Exchange
    <3>2. provider'.keys = provider.keys /\ provider'.withdrawn = provider.withdrawn
      BY <3>1 DEF AccessTyped
    <3> QED BY <3>2 DEF KeysInv
  <2> QED BY <2>1, <2>2, <2>3, <2>4 DEF AccessStep, Tick, FetchKeys, Verify, ReadRules,
       StoreSession, Present, Judge, EndOne, Serve, Answer, GrantAccess, RevokeAccess, EndSessions,
       CreateToken, UpdateToken, DeleteToken, Restart
<1>4. ASSUME NEW k \in ProviderKeys, NEW t \in Nat, t <= now, Trusted(k, t)
      PROVE  LET w == provider'.withdrawn[k] IN w # Never => t - w < CacheFor
  <2>1. CASE provider'.withdrawn[k] = provider.withdrawn[k]
    BY <1>4, <2>1 DEF Trusted
  <2>2. CASE provider'.withdrawn[k] = now
    BY <1>1, <1>4, <2>2
  <2> QED BY <1>3, <2>1, <2>2
<1>5. \A k \in ProviderKeys : provider'.withdrawn[k] # Never => provider'.withdrawn[k] <= now'
  <2> SUFFICES ASSUME NEW k \in ProviderKeys, provider'.withdrawn[k] # Never PROVE provider'.withdrawn[k] <= now'
    OBVIOUS
  <2>1. provider.withdrawn[k] # Never => provider.withdrawn[k] \in Nat /\ provider.withdrawn[k] <= now
    BY <1>1 DEF KeysInv
  <2> QED BY <1>1, <1>2, <1>3, <2>1
<1>6. cache'.at # Never =>
          /\ cache'.at <= now'
          /\ \A k \in cache'.keys : provider'.withdrawn[k] # Never => cache'.at <= provider'.withdrawn[k]
  <2>1. CASE cache'.at = cache.at /\ cache'.keys = cache.keys
    <3> SUFFICES ASSUME cache.at # Never PROVE /\ cache.at <= now'
          /\ \A k \in cache.keys : provider'.withdrawn[k] # Never => cache.at <= provider'.withdrawn[k]
      BY <2>1
    <3>1. cache.at \in Nat /\ cache.at <= now /\ cache.keys \subseteq ProviderKeys
      BY <1>1 DEF KeysInv
    <3>2. \A k \in cache.keys : provider.withdrawn[k] # Never => cache.at <= provider.withdrawn[k]
      BY DEF KeysInv
    <3> QED BY <1>1, <1>2, <1>3, <3>1, <3>2
  <2>2. CASE cache' = [keys |-> provider.keys, at |-> now, refetched |-> now] /\ UNCHANGED provider
    BY <1>1, <1>2, <2>2 DEF KeysInv
  <2>3. CASE cache'.at = Never
    BY <2>3
  <2>4. CASE \E a \in SignIns : FetchKeys(a)
    <3>1. \/ cache' = [keys |-> provider.keys, at |-> now, refetched |-> now] /\ UNCHANGED provider
          \/ cache' = [cache EXCEPT !.refetched = now]
      BY <2>4 DEF FetchKeys
    <3>2. cache' = [cache EXCEPT !.refetched = now] => cache'.at = cache.at /\ cache'.keys = cache.keys
      BY <1>1
    <3> QED BY <2>1, <2>2, <3>1, <3>2
  <2>5. CASE Restart
    BY <2>3, <2>5 DEF Restart
  <2> QED BY <2>1, <2>4, <2>5 DEF AccessStep, Tick, BeginSignIn, RotateKeys, handleSignIn, Verify, ReadRules,
       StoreSession, Present, Judge, EndOne, Serve, Answer, GrantAccess, RevokeAccess, EndSessions,
       CreateToken, UpdateToken, DeleteToken
\* Verify believes a key of a set that was fetched less than CacheFor ago.
<1>7. \A a \in SignIns : Accepted(a)' =>
          /\ signin'[a].signed <= now'
          /\ LET w == provider'.withdrawn[signin'[a].key] IN w # Never => signin'[a].signed - w < CacheFor
  <2>1. ASSUME NEW a \in SignIns, StaysAccepted(a)
        PROVE  /\ signin'[a].signed <= now'
               /\ LET w == provider'.withdrawn[signin'[a].key] IN w # Never => signin'[a].signed - w < CacheFor
    <3>1. /\ signin'[a].key = signin[a].key /\ signin'[a].signed = signin[a].signed
          /\ signin[a].key \in ProviderKeys /\ signin[a].signed \in Nat /\ signin[a].signed <= now
          /\ Trusted(signin[a].key, signin[a].signed)
      BY <1>1, <2>1 DEF StaysAccepted, KeysInv
    <3>2. signin'[a].signed <= now'
      BY <1>1, <1>2, <3>1
    <3> QED BY <1>4, <3>1, <3>2
  <2>2. ASSUME NEW a \in SignIns, Verified(a)
        PROVE  /\ signin'[a].signed <= now'
               /\ LET w == provider'.withdrawn[signin'[a].key] IN w # Never => signin'[a].signed - w < CacheFor
    <3> DEFINE k == signin[a].key
    <3>1. /\ signin'[a].key = k /\ signin'[a].signed = now /\ k \in cache.keys
          /\ cache.at # Never /\ now - cache.at < CacheFor /\ UNCHANGED <<now, provider>>
      BY <2>2 DEF Verified, Verify, SignedBy, CacheServes, Fresh
    <3>2. cache.at \in Nat /\ k \in ProviderKeys /\ provider.withdrawn[k] \in Time
      BY <1>1, <3>1
    <3>3. provider.withdrawn[k] # Never => provider.withdrawn[k] \in Nat /\ cache.at <= provider.withdrawn[k]
      BY <1>1, <3>1, <3>2 DEF KeysInv
    <3> HIDE DEF k
    <3>4. provider.withdrawn[k] # Never => now - provider.withdrawn[k] < CacheFor
      BY <1>1, <3>1, <3>2, <3>3
    <3> QED BY <1>1, <3>1, <3>4
  <2>3. ASSUME NEW a \in SignIns, Verified(a), NEW b \in SignIns, b # a, Accepted(b)' PROVE StaysAccepted(b)
    BY <2>3 DEF Verified, Accepted, StaysAccepted
  <2> QED BY <2>1, <2>2, <2>3, AcceptedMoves
<1>8. \A s \in DOMAIN sessions' :
          /\ sessions'[s].signed <= now'
          /\ LET w == provider'.withdrawn[sessions'[s].key] IN w # Never => sessions'[s].signed - w < CacheFor
  <2>1. ASSUME NEW s \in DOMAIN sessions
        PROVE /\ sessions'[s].signed <= now'
              /\ LET w == provider'.withdrawn[sessions'[s].key] IN w # Never => sessions'[s].signed - w < CacheFor
    <3>1. /\ sessions'[s].key = sessions[s].key /\ sessions'[s].signed = sessions[s].signed
          /\ sessions[s].key \in ProviderKeys /\ sessions[s].signed \in Nat /\ sessions[s].signed <= now
          /\ Trusted(sessions[s].key, sessions[s].signed)
      BY <1>1, SessionsMove DEF KeysInv, RowsKept, KeptRow, SameSession
    <3>2. sessions'[s].signed <= now'
      BY <1>1, <1>2, <3>1
    <3> QED BY <1>4, <3>1, <3>2
  <2>2. ASSUME NEW a \in SignIns, StoreSession(a), NewRow(a), NEW s \in DOMAIN sessions', s \notin DOMAIN sessions
        PROVE /\ sessions'[s].signed <= now'
              /\ LET w == provider'.withdrawn[sessions'[s].key] IN w # Never => sessions'[s].signed - w < CacheFor
    <3>1. sessions'[s].key = signin[a].key /\ sessions'[s].signed = signin[a].signed
      BY <2>2 DEF NewRow
    <3>2. /\ signin[a].key \in ProviderKeys /\ signin[a].signed \in Nat /\ signin[a].signed <= now
          /\ Trusted(signin[a].key, signin[a].signed)
      BY <1>1, <2>2 DEF KeysInv, StoreSession, Accepted
    <3>3. sessions'[s].signed <= now'
      BY <1>1, <1>2, <3>1, <3>2
    <3> QED BY <1>4, <3>1, <3>2, <3>3
  <2> QED BY <2>1, <2>2, SessionsMove
<1> QED BY <1>3, <1>5, <1>6, <1>7, <1>8 DEF KeysInv, Trusted

-----------------------------------------------------------------------------
\* The inductive invariant.
AccessInv == AccessTyped /\ SessionsTyped /\ RequestsInv /\ OneRedeemed /\ Shared /\ OneAccepted /\ KeysInv

\* The inductive invariant holds at the start, is kept by every step, and gives
\* the property.
LEMMA AccessStarts == AccessInit => AccessInv
<1> SUFFICES ASSUME AccessInit PROVE AccessInv
  OBVIOUS
<1>1. /\ now = 0 /\ sessions = <<>> /\ told = {} /\ nonces = [c \in Codes |-> Never]
      /\ signin = [a \in SignIns |-> NoSignIn] /\ req = [r \in Requests |-> NoReq] /\ since = [r \in Requests |-> {}]
      /\ cache = [keys |-> {}, at |-> Never, refetched |-> Never]
  BY DEF AccessInit
<1>2. DOMAIN budget = BudgetFields /\ budget.restarts \in Nat
  BY AccessAssumption DEF AccessInit, BudgetFields
<1>3. PICK strict \in BOOLEAN, k0 \in ProviderKeys :
          provider = [keys |-> {k0}, withdrawn |-> [j \in ProviderKeys |-> Never],
                      codes |-> [c \in Codes |-> [issued |-> Never, used |-> FALSE]],
                      strict |-> strict]
  <2>1. (CHOOSE k \in ProviderKeys : TRUE) \in ProviderKeys
    BY AccessAssumption
  <2>2. budget.strict \subseteq BOOLEAN
    BY AccessAssumption DEF AccessInit
  <2> QED BY <2>1, <2>2 DEF AccessInit
<1>4. Never \in Time
  BY DEF Time
<1>5. provider \in [keys : SUBSET ProviderKeys, withdrawn : [ProviderKeys -> Time],
                    codes : [Codes -> [issued : Time, used : BOOLEAN]], strict : BOOLEAN]
  <2>1. [j \in ProviderKeys |-> Never] \in [ProviderKeys -> Time]
    BY <1>4
  <2>2. [c \in Codes |-> [issued |-> Never, used |-> FALSE]] \in [Codes -> [issued : Time, used : BOOLEAN]]
    BY <1>4
  <2> QED BY <1>3, <2>1, <2>2
<1>6. AccessTyped
  BY <1>1, <1>2, <1>4, <1>5 DEF AccessTyped, NoSignIn, NoReq, SignInPhases, ReqPhases
<1>7. IsSeq(sessions) /\ DOMAIN sessions = {}
  BY <1>1 DEF IsSeq
<1>8. (\A a \in SignIns : signin[a].phase = "idle") /\ (\A r \in Requests : req[r].phase = "idle")
  BY <1>1, NoSignInFields, NoReqFields
<1>9. /\ \A c \in Codes : provider.codes[c].issued = Never /\ nonces[c] = Never
      /\ \A k \in ProviderKeys : provider.withdrawn[k] = Never
      /\ provider.keys \subseteq ProviderKeys /\ cache.at = Never
  BY <1>1, <1>3
<1>10. RequestsInv
  BY <1>1, <1>8 DEF RequestsInv, ToldOver, RequestOK
<1>11. OneRedeemed
  BY <1>7, <1>8 DEF OneRedeemed
<1>12. Shared
  BY <1>8, <1>9 DEF Shared
<1>13. OneAccepted
  BY <1>7, <1>8 DEF OneAccepted, Accepted
<1>14. KeysInv
  BY <1>7, <1>8, <1>9 DEF KeysInv, Accepted
<1> QED BY <1>6, <1>7, <1>10, <1>11, <1>12, <1>13, <1>14 DEF AccessInv, SessionsTyped

LEMMA AccessSteps == AccessInv /\ [AccessNext]_accessVars => AccessInv'
<1>1. CASE AccessNext /\ AccessInv
  BY <1>1, StepsOfNext, AccessTypedStep, RequestsStep, OneRedeemedStep, SharedStep, OneAcceptedStep, KeysStep DEF AccessInv
<1>2. CASE UNCHANGED accessVars /\ AccessInv
  <2>1. AccessTyped' /\ SessionsTyped'
    BY <1>2 DEF accessVars, AccessInv, AccessTyped, SessionsTyped, IsSeq
  <2>2. RequestsInv'
    BY <1>2 DEF accessVars, AccessInv, RequestsInv, ToldOver, RequestOK, SameSession
  <2>3. OneRedeemed'
    BY <1>2 DEF accessVars, AccessInv, OneRedeemed
  <2>4. Shared'
    BY <1>2 DEF accessVars, AccessInv, Shared
  <2>5. OneAccepted'
    BY <1>2 DEF accessVars, AccessInv, OneAccepted, Accepted, Burnt
  <2>6. KeysInv'
    BY <1>2 DEF accessVars, AccessInv, KeysInv, Accepted, Trusted
  <2> QED BY <2>1, <2>2, <2>3, <2>4, <2>5, <2>6 DEF AccessInv
<1> QED BY <1>1, <1>2

LEMMA AccessImplied == AccessInv => AccessHolds
<1> SUFFICES ASSUME AccessInv PROVE AccessHolds
  OBVIOUS
<1>1. ServedAsGiven
  BY DEF AccessInv, RequestsInv, RequestOK, ServedAsGiven
<1>2. EndedStays
  BY DEF AccessInv, RequestsInv, RequestOK, EndedStays
<1>3. OneSession
  BY DEF AccessInv, OneRedeemed, OneAccepted, OneSession
<1>4. KeyTrusted
  BY DEF AccessInv, KeysInv, Trusted, KeyTrusted
<1> QED BY <1>1, <1>2, <1>3, <1>4 DEF AccessHolds

\* Who is served, from the sign-in to the last request of the session
\* (handleSignIn, identify, authorize).
THEOREM AccessIsHeld == AccessSpec => []AccessHolds
BY AccessStarts, AccessSteps, AccessImplied, PTL DEF AccessSpec
=============================================================================
