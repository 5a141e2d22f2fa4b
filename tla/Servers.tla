------------------------------ MODULE Servers -------------------------------
(***************************************************************************)
(* The servers a laptop knows and what it changes on them: the saved       *)
(* contexts and which token goes to which agent (cli/internal/cliconfig,   *)
(* commands/context.go, server.go login), `shipwick server install` and    *)
(* `shipwick server configure` over SSH (commands/serverinstall.go,        *)
(* serverconfigure.go).                                                    *)
(*                                                                         *)
(* A command reads the saved file, asks a person or works on the server,   *)
(* and saves.  The connection may be lost between any two steps, the       *)
(* installer's services may fail to start, and the agent may refuse its    *)
(* settings.  Tokens and hostnames are names; .env is one value per        *)
(* setting.                                                                *)
(***************************************************************************)
EXTENDS Integers, FiniteSets

CONSTANTS
    Hosts,          \* servers, by the address ssh is given
    Names,          \* names of contexts; a host's own name is one of them
    Hostnames,      \* what an API or a dashboard can be served at
    Typed,          \* tokens a person may type in at a login
    RootToken,      \* the token the installer makes, of every host
    Terminals,      \* processes of the command line client
    Overlapping,    \* whether two commands may run at a time
    ServerBudgets   \* the scenarios: [starts, cuts, old]

None == "none"
NoContext == [url |-> None, token |-> None]

ASSUME ServersAssumption ==
    /\ None \notin Hostnames
    /\ \A b \in ServerBudgets : b.old = NoContext \/ b.old.url # None

DefaultURL == "tunnel"
DefaultContext == "default"
AgentDomain == "agent"
DashboardDomain == "dashboard"
Other == "other"        \* any other setting of the agent
Keys == {AgentDomain, DashboardDomain, Other}
Unset == [k \in Keys |-> None]
URLs == {DefaultURL} \cup Hostnames

NoConfig == [current |-> None, contexts |-> <<>>, old |-> NoContext]
NoEnv == [token |-> None, settings |-> Unset]

VARIABLES
    config,     \* the saved file: [current, contexts, old], old the one server
                \* of a file from before contexts existed
    env,        \* every server's .env
    agent,      \* [up, settings] of every server's agent
    terminal,   \* where every command is
    paired,     \* the tokens and the URLs they were given for
    sent,       \* saved tokens that were sent, and to which URL
    serverLeft  \* what is left of the scenario's events

serverVars == <<config, env, agent, terminal, paired, sent, serverLeft>>

AtPrompt == [step |-> "ready", op |-> None, name |-> None, host |-> None, want |-> Unset, keys |-> {},
          copy |-> NoConfig, new |-> NoEnv, token |-> None, url |-> None, report |-> None]

-----------------------------------------------------------------------------
(* The saved file.                                                         *)

(* Config.Set makes the context the current one.                           *)
Set(file, name, ctx) ==
    [file EXCEPT !.current = name,
                 !.contexts = [n \in DOMAIN @ \cup {name} |-> IF n = name THEN ctx ELSE @[n]]]

(* Config.Remove guesses no other server for the one removed.              *)
Without(file, name) ==
    [file EXCEPT !.contexts = [n \in DOMAIN @ \ {name} |-> @[n]],
                 !.current = IF @ = name THEN None ELSE @]

(* A file from before contexts existed loads as the context "default".     *)
Load(file) ==
    LET now == [file EXCEPT !.old = NoContext] IN
    IF DOMAIN file.contexts = {} /\ file.old # NoContext
    THEN Set(now, DefaultContext, file.old)
    ELSE now

(* Saved under another name and renamed: a reader finds one or the other.  *)
Save(file) == config' = file

SavedURL(file, name) ==
    IF name \in DOMAIN file.contexts /\ file.contexts[name].url # None
    THEN file.contexts[name].url ELSE DefaultURL

(* --context or SHIPWICK_CONTEXT, or the current one.                      *)
ContextName(flag, file) == IF flag # None THEN flag ELSE file.current

(* Resolve: the URL a flag or a variable chose, or the context's; the      *)
(* saved token belongs to the saved URL.  {} is an unknown context.        *)
Resolve(flagURL, flagContext, file) ==
    LET name == ContextName(flagContext, file)
        url == IF flagURL # None THEN flagURL ELSE SavedURL(file, name) IN
    IF name # None /\ name \notin DOMAIN file.contexts THEN {}
    ELSE { [url |-> url,
            token |-> IF url = SavedURL(file, name) /\ name # None
                      THEN file.contexts[name].token ELSE None] }

-----------------------------------------------------------------------------
(* Commands.                                                               *)

(* installOptions.validate and parseEnvChanges check the two hostnames     *)
(* against each other where both are given, not against the file's.        *)
validHostnames(s) == s[AgentDomain] = None \/ s[AgentDomain] # s[DashboardDomain]

(* The agent refuses to start with one hostname for both.                  *)
Accepts(s) == s[AgentDomain] = None \/ s[AgentDomain] # s[DashboardDomain]

Values(k) == {None} \cup (IF k = Other THEN {"value"} ELSE Hostnames)
Given(keys) == {s \in [Keys -> UNION {Values(k) : k \in Keys}] :
                  \A k \in Keys : s[k] \in IF k \in keys THEN Values(k) ELSE {None}}

Free(t) ==
    /\ terminal[t].step = "ready"
    /\ Overlapping \/ \A u \in Terminals : terminal[u].step = "ready"
    /\ serverLeft.starts > 0
    /\ serverLeft' = [serverLeft EXCEPT !.starts = @ - 1]

Begin(t, cmd) == terminal' = [terminal EXCEPT ![t] = cmd]
AtStep(t, op, step) == terminal[t].op = op /\ terminal[t].step = step
Go(t, step) == terminal' = [terminal EXCEPT ![t].step = step]
End(t) == terminal' = [terminal EXCEPT ![t] = AtPrompt]

(* login, context use and context rm read the saved file first of all.     *)
StartLogin(t) ==
    /\ Free(t)
    /\ \E flag \in Names \cup {None} :
          LET file == Load(config)
              name == ContextName(flag, file) IN
          Begin(t, [AtPrompt EXCEPT !.op = "login", !.step = "asking", !.copy = file,
                    !.name = IF name = None THEN DefaultContext ELSE name])
    /\ UNCHANGED <<config, env, agent, paired, sent>>

(* A token is not empty.                                                   *)
readToken == Typed \ {None}

(* The URL of the context is proposed, another may be given; the token is  *)
(* given afresh.                                                           *)
AnswerLogin(t) ==
    /\ AtStep(t, "login", "asking")
    /\ \E token \in readToken, url \in URLs :
          /\ paired' = paired \cup {<<url, token>>}
          /\ terminal' = [terminal EXCEPT ![t].step = "asked", ![t].url = url, ![t].token = token]
    /\ UNCHANGED <<config, env, agent, sent, serverLeft>>

(* With --no-check, or once the agent accepted the token.                  *)
SaveLogin(t) ==
    /\ AtStep(t, "login", "asked")
    /\ Save(Set(terminal[t].copy, terminal[t].name, [url |-> terminal[t].url, token |-> terminal[t].token]))
    /\ End(t)
    /\ UNCHANGED <<env, agent, paired, sent, serverLeft>>

(* The agent does not answer, or rejected the token; nothing was saved.    *)
RefuseLogin(t) ==
    /\ AtStep(t, "login", "asked")
    /\ End(t)
    /\ UNCHANGED <<config, env, agent, paired, sent, serverLeft>>

StartContext(t) ==
    /\ Free(t)
    /\ LET file == Load(config) IN
       \E op \in {"use", "rm"}, name \in DOMAIN file.contexts :
          Begin(t, [AtPrompt EXCEPT !.op = op, !.step = "asking", !.copy = file, !.name = name])
    /\ UNCHANGED <<config, env, agent, paired, sent>>

contextUse(t) ==
    /\ AtStep(t, "use", "asking")
    /\ Save([terminal[t].copy EXCEPT !.current = terminal[t].name])
    /\ End(t)
    /\ UNCHANGED <<env, agent, paired, sent, serverLeft>>

contextRm(t) ==
    /\ AtStep(t, "rm", "asking")
    /\ \/ Save(Without(terminal[t].copy, terminal[t].name))
       \/ UNCHANGED config      \* cancelled
    /\ End(t)
    /\ UNCHANGED <<env, agent, paired, sent, serverLeft>>

(* Any command that talks to the agent: the file is read, and the saved    *)
(* token sent with every request.                                          *)
connect(t) ==
    /\ Free(t)
    /\ \E flagURL \in URLs \cup {None}, flag \in Names \cup {None} :
       \E target \in Resolve(flagURL, flag, Load(config)) :
          sent' = sent \cup {<<target.url, target.token>>}
    /\ UNCHANGED <<config, env, agent, terminal, paired>>

-----------------------------------------------------------------------------
(* server install.                                                         *)

StartInstall(t) ==
    /\ Free(t)
    /\ \E h \in Hosts, name \in Names, want \in Given({AgentDomain, DashboardDomain}) :
          /\ validHostnames(want)
          /\ Begin(t, [AtPrompt EXCEPT !.op = "install", !.step = "docker", !.host = h, !.name = name, !.want = want])
    /\ UNCHANGED <<config, env, agent, paired, sent>>

(* Docker is there, or is installed, and answers within its attempts.      *)
EnsureDocker(t) ==
    /\ AtStep(t, "install", "docker")
    /\ Go(t, "hostnames")
    /\ UNCHANGED <<config, env, agent, paired, sent, serverLeft>>

(* Two equal hostnames in the file are left out both.                      *)
savedHostnames(s) ==
    [k \in Keys |-> IF k = Other \/ ~validHostnames(s) THEN None ELSE s[k]]

(* Without the flags the server's hostnames are kept; a grep that did not  *)
(* get through leaves them unknown.                                        *)
ReadHostnames(t) ==
    /\ AtStep(t, "install", "hostnames")
    /\ LET c == terminal[t] IN
       IF c.want # Unset THEN Go(t, "write")
       ELSE \E s \in {savedHostnames(env[c.host].settings), Unset} :
               terminal' = [terminal EXCEPT ![t].step = "write", ![t].want = s]
    /\ UNCHANGED <<config, env, agent, paired, sent, serverLeft>>

(* write_env: an existing file is kept, and its token not printed again.   *)
WriteEnv(t) ==
    /\ AtStep(t, "install", "write")
    /\ LET c == terminal[t]
           fresh == env[c.host] = NoEnv IN
       /\ env' = IF fresh
                 THEN [env EXCEPT ![c.host] = [token |-> RootToken[c.host], settings |-> c.want]]
                 ELSE env
       /\ terminal' = [terminal EXCEPT ![t].step = "up",
                          ![t].token = IF fresh THEN RootToken[c.host] ELSE None]
    /\ UNCHANGED <<config, agent, paired, sent, serverLeft>>

(* Compose takes a setting from the installer's environment before .env's, *)
(* and installerRemoteCommand sends the ones it was given.                 *)
InstallerUp(t) ==
    /\ AtStep(t, "install", "up")
    /\ LET c == terminal[t]
           s == [k \in Keys |-> IF c.want[k] # None THEN c.want[k] ELSE env[c.host].settings[k]] IN
       agent' = [agent EXCEPT ![c.host] = [up |-> Accepts(s), settings |-> s]]
    /\ Go(t, "wait")
    /\ UNCHANGED <<config, env, paired, sent, serverLeft>>

(* The installer waits for a healthy agent, and prints a token it made.    *)
Installed(t) ==
    /\ AtStep(t, "install", "wait")
    /\ agent[terminal[t].host].up
    /\ Go(t, "save")
    /\ UNCHANGED <<config, env, agent, paired, sent, serverLeft>>

InstallURL(c) == IF c.want[AgentDomain] # None THEN c.want[AgentDomain] ELSE DefaultURL

(* saveInstalledContext: without a token to save, what the context held is *)
(* kept, unless it was another URL's.                                      *)
KeptContext(c, file) ==
    LET entry == [url |-> InstallURL(c), token |-> c.token] IN
    IF /\ c.token = None /\ c.name \in DOMAIN file.contexts
       /\ file.contexts[c.name].url = entry.url \/ c.want[AgentDomain] = None
    THEN file.contexts[c.name]
    ELSE entry

(* The file is read when the installer is done, not before.                *)
LoadInstalled(t) ==
    /\ AtStep(t, "install", "save")
    /\ terminal' = [terminal EXCEPT ![t].step = "saving", ![t].copy = Load(config)]
    /\ paired' = IF terminal[t].token = None THEN paired
                 ELSE paired \cup {<<InstallURL(terminal[t]), terminal[t].token>>}
    /\ UNCHANGED <<config, env, agent, sent, serverLeft>>

saveInstalledContext(t) ==
    /\ AtStep(t, "install", "saving")
    /\ LET c == terminal[t] IN Save(Set(c.copy, c.name, KeptContext(c, c.copy)))
    /\ End(t)
    /\ UNCHANGED <<env, agent, paired, sent, serverLeft>>

-----------------------------------------------------------------------------
(* server configure.                                                       *)

StartConfigure(t) ==
    /\ Free(t)
    /\ \E h \in Hosts, keys \in SUBSET Keys \ {{}} : \E want \in Given(keys) :
          /\ validHostnames(want)
          /\ Begin(t, [AtPrompt EXCEPT !.op = "configure", !.step = "read", !.host = h, !.keys = keys, !.want = want])
    /\ UNCHANGED <<config, env, agent, paired, sent>>

(* Mutant: a setting to be removed that the file holds stays in it.        *)
RewrittenKept(c) ==
    [k \in Keys |-> IF k \in c.keys /\ c.want[k] # None
                    THEN c.want[k] ELSE env[c.host].settings[k]]

(* The script's awk: the lines asked for are replaced, added or left out.  *)
Rewritten(c) ==
    [k \in Keys |-> IF k \in c.keys THEN c.want[k] ELSE env[c.host].settings[k]]

(* A line was changed, added or removed.                                   *)
Touched(c) == \E k \in c.keys : c.want[k] # env[c.host].settings[k]

(* The script reads .env and the changes into a new file; without an .env, *)
(* and where every line is as it was, it ends.                             *)
ReadEnv(t) ==
    /\ AtStep(t, "configure", "read")
    /\ LET c == terminal[t]
           old == env[c.host] IN
       CASE old = NoEnv -> End(t)
         [] ~Touched(c) -> terminal' = [terminal EXCEPT ![t].step = "done", ![t].report = "unchanged"]
         [] OTHER -> terminal' = [terminal EXCEPT ![t].step = "move",
                        ![t].new = [old EXCEPT !.settings = Rewritten(c)]]
    /\ UNCHANGED <<config, env, agent, paired, sent, serverLeft>>

MoveEnv(t) ==
    /\ AtStep(t, "configure", "move")
    /\ env' = [env EXCEPT ![terminal[t].host] = terminal[t].new]
    /\ Go(t, "up")
    /\ UNCHANGED <<config, agent, paired, sent, serverLeft>>

ConfigureUp(t) ==
    /\ AtStep(t, "configure", "up")
    /\ LET h == terminal[t].host IN
       agent' = [agent EXCEPT ![h] = [up |-> Accepts(env[h].settings), settings |-> env[h].settings]]
    /\ Go(t, "wait")
    /\ UNCHANGED <<config, env, paired, sent, serverLeft>>

(* The health check answers within a minute, or the command says where to  *)
(* look.                                                                   *)
Waited(t) ==
    /\ AtStep(t, "configure", "wait")
    /\ terminal' = [terminal EXCEPT ![t].step = "done",
                       ![t].report = IF agent[terminal[t].host].up THEN "healthy" ELSE "failed"]
    /\ UNCHANGED <<config, env, agent, paired, sent, serverLeft>>

printConfigured(t) ==
    /\ AtStep(t, "configure", "done")
    /\ End(t)
    /\ UNCHANGED <<config, env, agent, paired, sent, serverLeft>>

(* The installer found no healthy agent.                                   *)
InstallerDied(t) ==
    /\ AtStep(t, "install", "wait")
    /\ ~agent[terminal[t].host].up
    /\ End(t)
    /\ UNCHANGED <<config, env, agent, paired, sent, serverLeft>>

(* ssh ends with an error, Compose fails or the command is killed: what    *)
(* the step would have done is left undone.                                *)
CutShort(t) ==
    /\ serverLeft.cuts > 0
    /\ terminal[t].step \notin {"ready", "done"}
    /\ End(t)
    /\ serverLeft' = [serverLeft EXCEPT !.cuts = @ - 1]
    /\ UNCHANGED <<config, env, agent, paired, sent>>

-----------------------------------------------------------------------------
ServersInit ==
    /\ serverLeft \in ServerBudgets
    /\ config = [NoConfig EXCEPT !.old = serverLeft.old]
    /\ env = [h \in Hosts |-> NoEnv]
    /\ agent = [h \in Hosts |-> [up |-> FALSE, settings |-> Unset]]
    /\ terminal = [t \in Terminals |-> AtPrompt]
    /\ paired = IF serverLeft.old = NoContext THEN {}
                ELSE {<<serverLeft.old.url, serverLeft.old.token>>}
    /\ sent = {}

ServersNext ==
    \E t \in Terminals :
       \/ StartLogin(t) \/ AnswerLogin(t) \/ SaveLogin(t) \/ RefuseLogin(t)
       \/ StartContext(t) \/ contextUse(t) \/ contextRm(t) \/ connect(t)
       \/ StartInstall(t) \/ EnsureDocker(t) \/ ReadHostnames(t) \/ WriteEnv(t)
       \/ InstallerUp(t) \/ Installed(t) \/ InstallerDied(t)
       \/ LoadInstalled(t) \/ saveInstalledContext(t)
       \/ StartConfigure(t) \/ ReadEnv(t) \/ MoveEnv(t) \/ ConfigureUp(t)
       \/ Waited(t) \/ printConfigured(t)
       \/ CutShort(t)

ServersSpec == ServersInit /\ [][ServersNext]_serverVars

-----------------------------------------------------------------------------
(* A saved token is sent to the URL it was given for and to no other,      *)
(* whatever logins, installations and upgrades with other hostnames did to *)
(* the contexts since (cliconfig.Resolve, saveInstalledContext).           *)
SentWhereGiven == \A p \in sent : p[2] = None \/ p \in paired

(* A `server configure` that found the agent healthy left it running with  *)
(* every setting it was given, and left out every one it was to remove,    *)
(* through failed and repeated commands before it (remoteConfigure).       *)
ConfiguredRuns ==
    [][\A t \in Terminals :
          terminal[t].step = "wait" /\ terminal'[t].report = "healthy" =>
             \A k \in terminal[t].keys : agent[terminal[t].host].settings[k] = terminal[t].want[k]]_serverVars

(* The client's record of its servers, and the servers', say the truth:    *)
(* tokens go where they belong and a configured agent runs as configured.  *)
ServersKept == []SentWhereGiven /\ ConfiguredRuns
=============================================================================
