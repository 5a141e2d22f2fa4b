---------------------------- MODULE ClientProofs ----------------------------
(***************************************************************************)
(* The command line client, for any images, tags, servers and faults: an   *)
(* image that was sent can be started and moved nobody else's tag; saved   *)
(* tokens go where they were given for and a configured agent runs so;     *)
(* what is made of a release is what was proven to be the release's.       *)
(***************************************************************************)
EXTENDS SendImage, Servers, Release, TLAPS

----------------------------------------------------------------------------
(* An image that is sent.                                                  *)

SendTyped ==
    /\ DOMAIN tags = Tags /\ DOMAIN named = OtherTags
    /\ DOMAIN sender = {"pc", "byHand", "image", "refs", "omit", "before"}
    /\ sender.pc \in {"asking", "sending", "loading", "unpacked", "checking", "loaded", "failed"}
    /\ sender.refs \subseteq Tags

\* Only an image under a tag of the application is taken.
OwnTagOnly == sender.pc = "loaded" => sender.refs = {OwnTag}

\* From the reading of the tags to the check, what the archive's tags named
\* is remembered; every tag that did not go astray names that, or is moved.
Remembered == \A t \in OtherTags \ astray :
    /\ t \in sender.refs /\ sender.pc \in {"loading", "checking"} => sender.before[t] = named[t]
    /\ (t \in sender.refs /\ sender.pc \in {"unpacked", "checking"}) \/ tags[t] = named[t]

\* What was loaded is whole from then on.
Arrived ==
    sender.pc \in {"checking", "loaded"} =>
        \A t \in sender.refs \ OtherTags : tags[t] = sender.image /\ t \notin unusable

\* The inductive invariant.
SendInv == SendTyped /\ OwnTagOnly /\ Remembered /\ Arrived

LEMMA SendStep == SendInv /\ [SendNext]_sendVars => SendInv'
<1> SUFFICES ASSUME SendInv, [SendNext]_sendVars PROVE SendInv'
  OBVIOUS
<1> USE SendAssumption DEF SendInv, SendTyped, Tags
<1>1. CASE sendMissingLayers
  BY <1>1 DEF sendMissingLayers, OwnTagOnly, Remembered, Arrived
<1>2. CASE ListImages
  BY <1>2 DEF ListImages, OwnTagOnly, Remembered, Arrived
<1>3. CASE LoadImage
  <2>1. sender.pc = "loading" /\ UNCHANGED <<named, astray>>
    BY <1>3 DEF LoadImage
  <2>2. CASE sender' = Fails /\ UNCHANGED <<tags, unusable>>
    BY <2>1, <2>2 DEF Fails, OwnTagOnly, Remembered, Arrived
  <2>3. CASE /\ tags' = Retag(sender.refs, sender.image) /\ unusable' = unusable \ sender.refs
             /\ sender' = [sender EXCEPT !.pc = "checking"]
    BY <2>1, <2>3 DEF Retag, OwnTagOnly, Remembered, Arrived
  <2>4. CASE /\ tags' = Retag(sender.refs, sender.image)
             /\ sender' = [sender EXCEPT !.pc = "unpacked"]
    BY <2>1, <2>4 DEF Retag, OwnTagOnly, Remembered, Arrived
  <2> QED BY <1>3, <2>2, <2>3, <2>4 DEF LoadImage
<1>4. CASE LoadBreaks
  BY <1>4 DEF LoadBreaks, Retag, Fails, OwnTagOnly, Remembered, Arrived
<1>5. CASE DiscardUnpacked
  BY <1>5 DEF DiscardUnpacked, Foreign, Retag, Fails, OwnTagOnly, Remembered, Arrived
<1>6. CASE CheckLoaded
  <2>1. CASE sender.refs = {OwnTag}
    <3>1. UNCHANGED <<tags, unusable, named, astray>> /\ sender.pc = "checking"
      BY <1>6, <2>1 DEF CheckLoaded
    <3>2. CASE sender' = [sender EXCEPT !.pc = "loaded"]
      BY <2>1, <3>1, <3>2 DEF OwnTagOnly, Remembered, Arrived
    <3>3. CASE sender' = Fails
      BY <2>1, <3>1, <3>3 DEF Fails, OwnTagOnly, Remembered, Arrived
    <3> QED BY <1>6, <2>1, <3>2, <3>3 DEF CheckLoaded
  <2>2. CASE sender.refs # {OwnTag}
    BY <1>6, <2>2 DEF CheckLoaded, Foreign, undone, OwnTagOnly, Remembered, Arrived
  <2> QED BY <2>1, <2>2
<1>7. CASE SendFails
  BY <1>7 DEF SendFails, Fails, OwnTagOnly, Remembered, Arrived
<1>8. ASSUME NEW t \in OtherTags, RemoveImage(t) PROVE SendInv'
  BY <1>8 DEF RemoveImage, Foreign, OwnTagOnly, Remembered, Arrived
<1>9. CASE UNCHANGED sendVars
  BY <1>9 DEF sendVars, OwnTagOnly, Remembered, Arrived
<1> QED BY <1>1, <1>2, <1>3, <1>4, <1>5, <1>6, <1>7, <1>8, <1>9 DEF SendNext

\* An image the CLI is told was loaded is whole under its tag, whatever was
\* left out of the archive, removed meanwhile or lost on the way; and a
\* refused upload leaves every tag that is not its own as it found it,
\* unless its undo was not reached, failed or met a sweep.
THEOREM ImagesSentSafely == SendSpec => []SentSafely
<1>1. SendInit => SendInv
  BY SendAssumption DEF SendInit, SendInv, SendTyped, OwnTagOnly, Remembered, Arrived, Over, NewTag, Tags
<1>2. SendInv => SentSafely
  BY SendAssumption DEF SendInv, OwnTagOnly, Remembered, Arrived, SentSafely, LoadedIsWhole, OthersKeepTheirs
<1> QED BY <1>1, <1>2, SendStep, PTL DEF SendSpec

----------------------------------------------------------------------------
(* The servers a laptop knows.                                             *)

\* A context's token was given for the URL it is sent to.
Belongs(ctx) ==
    ctx.token # None => <<IF ctx.url # None THEN ctx.url ELSE DefaultURL, ctx.token>> \in paired

\* So are those of a file, on disk or in a command's hands.
FileOK(file) ==
    /\ DOMAIN file = {"current", "contexts", "old"}
    /\ \A n \in DOMAIN file.contexts : Belongs(file.contexts[n])
    /\ Belongs(file.old)

\* What a command has read, and what it is about to save.
CommandOK(c) ==
    /\ DOMAIN c = DOMAIN AtPrompt /\ FileOK(c.copy)
    /\ c.op = "login" /\ c.step = "asked" => Belongs([url |-> c.url, token |-> c.token])
    /\ c.op = "install" /\ c.step = "saving" => Belongs([url |-> InstallURL(c), token |-> c.token])

TokensInv ==
    /\ DOMAIN terminal = Terminals
    /\ FileOK(config) /\ \A t \in Terminals : CommandOK(terminal[t])
    /\ SentWhereGiven

\* A command that goes on has the file it read, or none, and nothing to save.
SameCopy(t, c) ==
    /\ DOMAIN c = DOMAIN AtPrompt /\ c.copy \in {AtPrompt.copy, terminal[t].copy}
    /\ c.step \notin {"asked", "saving"}

LEMMA PromptFields ==
    DOMAIN AtPrompt = {"step", "op", "name", "host", "want", "keys", "copy", "new", "token", "url", "report"}
BY DEF AtPrompt

\* Tokens stay given: what belonged before does so after.
LEMMA StillBelongs ==
  ASSUME paired \subseteq paired'
  PROVE  /\ \A ctx : Belongs(ctx) => Belongs(ctx)'
         /\ \A file : FileOK(file) => FileOK(file)'
         /\ \A c : CommandOK(c) => CommandOK(c)'
BY DEF Belongs, FileOK, CommandOK

LEMMA PromptIsOK == CommandOK(AtPrompt)
BY PromptFields DEF CommandOK, FileOK, AtPrompt, NoConfig, NoContext, Belongs

\* Loading, setting and removing put no token to another URL.
LEMMA FilesStayOK ==
  ASSUME NEW file, FileOK(file), NEW name
  PROVE  /\ FileOK(Load(file)) /\ FileOK(Without(file, name))
         /\ FileOK([file EXCEPT !.current = name])
         /\ \A ctx : Belongs(ctx) => FileOK(Set(file, name, ctx))
<1>0. Belongs(NoContext)
  BY DEF Belongs, NoContext
<1>1. ASSUME NEW f, FileOK(f), NEW n, NEW ctx, Belongs(ctx) PROVE FileOK(Set(f, n, ctx))
  BY <1>1 DEF FileOK, Set
<1>2. FileOK([file EXCEPT !.old = NoContext])
  BY <1>0 DEF FileOK
<1>3. FileOK(Load(file))
  BY <1>1, <1>2 DEF Load, FileOK
<1>4. FileOK(Without(file, name))
  BY DEF FileOK, Without
<1> QED BY <1>1, <1>3, <1>4 DEF FileOK

\* What a step does to one command only.
LEMMA OneCommand ==
  ASSUME TokensInv, NEW t \in Terminals, NEW c, paired \subseteq paired', CommandOK(c)',
         terminal' = [terminal EXCEPT ![t] = c], FileOK(config'), UNCHANGED sent
  PROVE  TokensInv'
<1>1. DOMAIN terminal' = Terminals /\ \A u \in Terminals : terminal'[u] = IF u = t THEN c ELSE terminal[u]
  BY DEF TokensInv
<1>2. SentWhereGiven'
  BY DEF TokensInv, SentWhereGiven
<1>3. FileOK(config)'
  BY DEF FileOK, Belongs
<1>4. \A u \in Terminals : CommandOK(terminal[u])'
  BY <1>1, StillBelongs DEF TokensInv
<1> QED BY <1>1, <1>2, <1>3, <1>4 DEF TokensInv

LEMMA TokensStep == TokensInv /\ [ServersNext]_serverVars => TokensInv'
<1> SUFFICES ASSUME TokensInv, [ServersNext]_serverVars PROVE TokensInv'
  OBVIOUS
<1>0. FileOK(config) /\ FileOK(Load(config)) /\ \A t \in Terminals : CommandOK(terminal[t])
  BY FilesStayOK DEF TokensInv
<1>1. ASSUME NEW t \in Terminals, paired' = paired, sent' = sent, FileOK(config'), End(t) PROVE TokensInv'
  BY <1>1, PromptIsOK, StillBelongs, OneCommand DEF End
<1>2. ASSUME NEW t \in Terminals, NEW c, paired' = paired, sent' = sent, config' = config, CommandOK(c),
             terminal' = [terminal EXCEPT ![t] = c] PROVE TokensInv'
  BY <1>0, <1>2, StillBelongs, OneCommand
<1>3. ASSUME NEW t \in Terminals, NEW s, paired' = paired, sent' = sent, config' = config, Go(t, s),
             s \notin {"asked", "saving"} PROVE TokensInv'
  <2> DEFINE c == [terminal[t] EXCEPT !.step = s]
  <2>1. CommandOK(c)
    BY <1>0, <1>3, PromptFields DEF CommandOK
  <2>2. terminal' = [terminal EXCEPT ![t] = c]
    BY <1>3 DEF Go, TokensInv
  <2> HIDE DEF c
  <2> QED BY <1>2, <1>3, <2>1, <2>2
<1>4. ASSUME NEW t \in Terminals, StartLogin(t) PROVE TokensInv'
  <2>1. PICK flag \in Names \cup {None} :
          LET name == ContextName(flag, Load(config)) IN
          Begin(t, [AtPrompt EXCEPT !.op = "login", !.step = "asking", !.copy = Load(config),
                    !.name = IF name = None THEN DefaultContext ELSE name])
    BY <1>4 DEF StartLogin
  <2> DEFINE name == ContextName(flag, Load(config))
             c == [AtPrompt EXCEPT !.op = "login", !.step = "asking", !.copy = Load(config),
                    !.name = IF name = None THEN DefaultContext ELSE name]
  <2>2. CommandOK(c)
    BY <1>0, PromptFields DEF CommandOK
  <2>3. terminal' = [terminal EXCEPT ![t] = c]
    BY <2>1 DEF Begin
  <2> HIDE DEF c
  <2> QED BY <1>2, <1>4, <2>2, <2>3 DEF StartLogin
<1>5. ASSUME NEW t \in Terminals, AnswerLogin(t) PROVE TokensInv'
  <2>1. PICK token \in readToken, url \in URLs :
          /\ paired' = paired \cup {<<url, token>>}
          /\ terminal' = [terminal EXCEPT ![t].step = "asked", ![t].url = url, ![t].token = token]
    BY <1>5 DEF AnswerLogin
  <2>0. PICK c : c = [terminal[t] EXCEPT !.step = "asked", !.url = url, !.token = token]
    OBVIOUS
  <2>2. url # None
    BY ServersAssumption DEF URLs, None, DefaultURL
  <2>3. DOMAIN c = DOMAIN AtPrompt /\ c.copy = terminal[t].copy /\ c.op = "login" /\ c.step = "asked"
        /\ c.url = url /\ c.token = token
    BY <1>0, <1>5, <2>0, PromptFields DEF CommandOK, AnswerLogin, AtStep
  <2>4. terminal' = [terminal EXCEPT ![t] = c]
    BY <2>0, <2>1 DEF TokensInv
  <2>5. paired \subseteq paired' /\ <<url, token>> \in paired' /\ config' = config /\ sent' = sent
    BY <1>5, <2>1 DEF AnswerLogin
  <2>6. FileOK(c.copy)'
    BY <1>0, <2>3, <2>5, StillBelongs DEF CommandOK
  <2>7. CommandOK(c)'
    BY <2>2, <2>3, <2>5, <2>6 DEF CommandOK, Belongs
  <2> QED BY <1>0, <2>4, <2>5, <2>7, OneCommand
<1>6. ASSUME NEW t \in Terminals, SaveLogin(t) PROVE TokensInv'
  <2>1. FileOK(Set(terminal[t].copy, terminal[t].name, [url |-> terminal[t].url, token |-> terminal[t].token]))
    BY <1>0, <1>6, FilesStayOK DEF SaveLogin, AtStep, CommandOK
  <2> QED BY <1>1, <1>6, <2>1 DEF SaveLogin, Save
<1>7. ASSUME NEW t \in Terminals, StartContext(t) PROVE TokensInv'
  <2>1. PICK op \in {"use", "rm"}, name \in DOMAIN Load(config).contexts :
          Begin(t, [AtPrompt EXCEPT !.op = op, !.step = "asking", !.copy = Load(config), !.name = name])
    BY <1>7 DEF StartContext
  <2> DEFINE c == [AtPrompt EXCEPT !.op = op, !.step = "asking", !.copy = Load(config), !.name = name]
  <2>2. CommandOK(c)
    BY <1>0, PromptFields DEF CommandOK
  <2>3. terminal' = [terminal EXCEPT ![t] = c]
    BY <2>1 DEF Begin
  <2> HIDE DEF c
  <2> QED BY <1>2, <1>7, <2>2, <2>3 DEF StartContext
<1>8. ASSUME NEW t \in Terminals, contextUse(t) \/ contextRm(t) PROVE TokensInv'
  <2>1. /\ FileOK([terminal[t].copy EXCEPT !.current = terminal[t].name])
        /\ FileOK(Without(terminal[t].copy, terminal[t].name))
    BY <1>0, FilesStayOK DEF CommandOK
  <2> QED BY <1>0, <1>1, <1>8, <2>1 DEF contextUse, contextRm, Save
<1>9. ASSUME NEW t \in Terminals, connect(t) PROVE TokensInv'
  <2> DEFINE file == Load(config)
  <2>1. PICK flagURL \in URLs \cup {None}, flag \in Names \cup {None} :
        \E target \in Resolve(flagURL, flag, file) : sent' = sent \cup {<<target.url, target.token>>}
    BY <1>9 DEF connect
  <2>2. FileOK(file)
    BY <1>0
  <2> HIDE DEF file
  <2>3. \A target \in Resolve(flagURL, flag, file) : target.token = None \/ <<target.url, target.token>> \in paired
    BY <2>2 DEF Resolve, SavedURL, FileOK, Belongs
  <2>4. UNCHANGED <<config, terminal, paired>>
    BY <1>9 DEF connect
  <2>5. SentWhereGiven'
    BY <2>1, <2>3, <2>4 DEF TokensInv, SentWhereGiven
  <2> QED BY <2>4, <2>5 DEF TokensInv, FileOK, Belongs, CommandOK
<1>10. ASSUME NEW t \in Terminals, NEW c, terminal' = [terminal EXCEPT ![t] = c],
              SameCopy(t, c),
              paired' = paired, sent' = sent, config' = config
       PROVE  TokensInv'
  <2>1. CommandOK(c)
    BY <1>0, <1>10, PromptIsOK DEF CommandOK, SameCopy
  <2> QED BY <1>2, <1>10, <2>1
<1>18. ASSUME NEW t \in Terminals, StartInstall(t) PROVE TokensInv'
  <2>1. PICK h, name, want : terminal' = [terminal EXCEPT ![t] =
           [AtPrompt EXCEPT !.op = "install", !.step = "docker", !.host = h, !.name = name, !.want = want]]
    BY <1>18 DEF StartInstall, Begin
  <2> DEFINE c == [AtPrompt EXCEPT !.op = "install", !.step = "docker", !.host = h, !.name = name, !.want = want]
  <2>2. terminal' = [terminal EXCEPT ![t] = c] /\ SameCopy(t, c)
    BY <2>1, PromptFields DEF SameCopy
  <2> HIDE DEF c
  <2> QED BY <1>10, <1>18, <2>2 DEF StartInstall
<1>19. ASSUME NEW t \in Terminals, StartConfigure(t) PROVE TokensInv'
  <2>1. PICK h, keys, want : terminal' = [terminal EXCEPT ![t] =
           [AtPrompt EXCEPT !.op = "configure", !.step = "read", !.host = h, !.keys = keys, !.want = want]]
    BY <1>19 DEF StartConfigure, Begin
  <2> DEFINE c == [AtPrompt EXCEPT !.op = "configure", !.step = "read", !.host = h, !.keys = keys, !.want = want]
  <2>2. terminal' = [terminal EXCEPT ![t] = c] /\ SameCopy(t, c)
    BY <2>1, PromptFields DEF SameCopy
  <2> HIDE DEF c
  <2> QED BY <1>10, <1>19, <2>2 DEF StartConfigure
<1>11. ASSUME NEW t \in Terminals, EnsureDocker(t) \/ InstallerUp(t) \/ Installed(t) \/ MoveEnv(t) \/ ConfigureUp(t)
       PROVE TokensInv'
  BY <1>3, <1>11 DEF EnsureDocker, InstallerUp, Installed, MoveEnv, ConfigureUp
<1>12. ASSUME NEW t \in Terminals, ReadHostnames(t) PROVE TokensInv'
  <2>1. CASE Go(t, "write")
    BY <1>3, <1>12, <2>1 DEF ReadHostnames
  <2>2. ASSUME NEW s, terminal' = [terminal EXCEPT ![t].step = "write", ![t].want = s] PROVE TokensInv'
    <3> DEFINE c == [terminal[t] EXCEPT !.step = "write", !.want = s]
    <3>1. terminal' = [terminal EXCEPT ![t] = c] /\ SameCopy(t, c)
      BY <1>0, <2>2, PromptFields DEF TokensInv, CommandOK, SameCopy
    <3> HIDE DEF c
    <3> QED BY <1>10, <1>12, <3>1 DEF ReadHostnames
  <2> QED BY <1>12, <2>1, <2>2 DEF ReadHostnames
<1>20. ASSUME NEW t \in Terminals, WriteEnv(t) PROVE TokensInv'
  <2>1. PICK k : terminal' = [terminal EXCEPT ![t].step = "up", ![t].token = k]
    BY <1>20 DEF WriteEnv
  <2> DEFINE c == [terminal[t] EXCEPT !.step = "up", !.token = k]
  <2>2. terminal' = [terminal EXCEPT ![t] = c] /\ SameCopy(t, c)
    BY <1>0, <2>1, PromptFields DEF TokensInv, CommandOK, SameCopy
  <2> HIDE DEF c
  <2> QED BY <1>10, <1>20, <2>2 DEF WriteEnv
<1>21. ASSUME NEW t \in Terminals, NEW s, s = "done", NEW x, paired' = paired, sent' = sent, config' = config,
              terminal' = [terminal EXCEPT ![t].step = s, ![t].report = x]
       PROVE  TokensInv'
  <2> DEFINE c == [terminal[t] EXCEPT !.step = s, !.report = x]
  <2>1. terminal' = [terminal EXCEPT ![t] = c] /\ SameCopy(t, c)
    BY <1>0, <1>21, PromptFields DEF TokensInv, CommandOK, SameCopy
  <2> HIDE DEF c
  <2> QED BY <1>10, <1>21, <2>1
<1>22. ASSUME NEW t \in Terminals, Waited(t) PROVE TokensInv'
  BY <1>21, <1>22 DEF Waited
<1>13. ASSUME NEW t \in Terminals, ReadEnv(t) PROVE TokensInv'
  <2>1. CASE End(t)
    BY <1>0, <1>1, <1>13, <2>1 DEF ReadEnv
  <2>2. CASE terminal' = [terminal EXCEPT ![t].step = "done", ![t].report = "unchanged"]
    BY <1>13, <1>21, <2>2 DEF ReadEnv
  <2>3. ASSUME NEW x, terminal' = [terminal EXCEPT ![t].step = "move", ![t].new = x] PROVE TokensInv'
    <3> DEFINE c == [terminal[t] EXCEPT !.step = "move", !.new = x]
    <3>1. terminal' = [terminal EXCEPT ![t] = c] /\ SameCopy(t, c)
      BY <1>0, <2>3, PromptFields DEF TokensInv, CommandOK, SameCopy
    <3> HIDE DEF c
    <3> QED BY <1>10, <1>13, <3>1 DEF ReadEnv
  <2> QED BY <1>13, <2>1, <2>2, <2>3 DEF ReadEnv
<1>14. ASSUME NEW t \in Terminals, LoadInstalled(t) PROVE TokensInv'
  <2>0. PICK c : c = [terminal[t] EXCEPT !.step = "saving", !.copy = Load(config)]
    OBVIOUS
  <2>1. /\ terminal' = [terminal EXCEPT ![t] = c] /\ DOMAIN c = DOMAIN AtPrompt /\ c.step = "saving"
        /\ c.copy = Load(config) /\ c.token = terminal[t].token /\ c.want = terminal[t].want
    BY <1>0, <1>14, <2>0, PromptFields DEF LoadInstalled, TokensInv, CommandOK
  <2>2. paired \subseteq paired' /\ config' = config /\ sent' = sent
    BY <1>14 DEF LoadInstalled
  <2>3. c.token # None => <<InstallURL(c), c.token>> \in paired'
    BY <1>14, <2>1 DEF LoadInstalled, InstallURL
  <2>4. InstallURL(c) # None
    BY DEF InstallURL, None, DefaultURL
  <2>5. FileOK(c.copy)'
    BY <1>0, <2>1, <2>2, StillBelongs
  <2>6. CommandOK(c)'
    BY <2>1, <2>3, <2>4, <2>5 DEF CommandOK, Belongs
  <2> QED BY <1>0, <2>1, <2>2, <2>6, OneCommand
<1>15. ASSUME NEW t \in Terminals, saveInstalledContext(t) PROVE TokensInv'
  <2> DEFINE c == terminal[t]
  <2>1. Belongs(KeptContext(c, c.copy)) /\ FileOK(c.copy)
    BY <1>0, <1>15 DEF CommandOK, KeptContext, FileOK, saveInstalledContext, AtStep
  <2>2. FileOK(Set(c.copy, c.name, KeptContext(c, c.copy)))
    BY <2>1, FilesStayOK
  <2> QED BY <1>1, <1>15, <2>2 DEF saveInstalledContext, Save
<1>16. ASSUME NEW t \in Terminals, RefuseLogin(t) \/ printConfigured(t) \/ InstallerDied(t) \/ CutShort(t)
       PROVE TokensInv'
  BY <1>0, <1>1, <1>16 DEF RefuseLogin, printConfigured, InstallerDied, CutShort
<1>17. CASE UNCHANGED serverVars
  BY <1>17 DEF serverVars, TokensInv, FileOK, Belongs, CommandOK, SentWhereGiven
<1> QED BY <1>4, <1>5, <1>6, <1>7, <1>8, <1>9, <1>11, <1>12, <1>13, <1>14, <1>15, <1>16, <1>17,
           <1>18, <1>19, <1>20, <1>22 DEF ServersNext

\* A saved token is sent to the URL it was given for and to no other, whatever
\* logins, installations, upgrades and removals did to the saved contexts, also
\* where commands overlap and save what they read before (cliconfig.Resolve,
\* saveInstalledContext).
THEOREM TokensGoWhereGiven == ServersSpec => []SentWhereGiven
<1>1. ServersInit => TokensInv
  <2> SUFFICES ASSUME ServersInit PROVE TokensInv
    OBVIOUS
  <2>1. FileOK(config)
    BY ServersAssumption DEF ServersInit, NoConfig, NoContext, FileOK, Belongs
  <2> QED BY <2>1, PromptIsOK DEF ServersInit, TokensInv, SentWhereGiven
<1>2. TokensInv => SentWhereGiven
  BY DEF TokensInv
<1> QED BY <1>1, <1>2, TokensStep, PTL DEF ServersSpec

\* How far a configuration has come: what the new file says, the file on the
\* server, and the agent.
Configuring(c) ==
    /\ DOMAIN c = DOMAIN AtPrompt
    /\ c.report = "healthy" => c.step = "done"
    /\ c.op = "configure" =>
        /\ c.host \in Hosts /\ c.keys \subseteq Keys
        /\ c.step = "move" => "settings" \in DOMAIN c.new /\ \A k \in c.keys : c.new.settings[k] = c.want[k]
        /\ c.step = "up" => \A k \in c.keys : env[c.host].settings[k] = c.want[k]
        /\ c.step = "wait" => \A k \in c.keys : agent[c.host].settings[k] = c.want[k]

\* One command runs at a time.
OneAtATime == \A t, u \in Terminals : terminal[t].step # "ready" /\ terminal[u].step # "ready" => t = u

EnvOK == DOMAIN env = Hosts /\ DOMAIN agent = Hosts /\ \A h \in Hosts : "settings" \in DOMAIN env[h]

ConfigureInv ==
    /\ DOMAIN terminal = Terminals /\ OneAtATime /\ EnvOK
    /\ \A t \in Terminals : Configuring(terminal[t])

\* Whoever acts does so alone, so that only its own command is to be looked at.
LEMMA ActsAlone ==
  ASSUME ConfigureInv, NEW t \in Terminals, NEW c, terminal' = [terminal EXCEPT ![t] = c],
         terminal[t].step # "ready" \/ \A u \in Terminals : terminal[u].step = "ready",
         EnvOK', Configuring(c)'
  PROVE  ConfigureInv'
<1>1. DOMAIN terminal' = Terminals /\ \A u \in Terminals : terminal'[u] = IF u = t THEN c ELSE terminal[u]
  BY DEF ConfigureInv
<1>2. \A u \in Terminals \ {t} : terminal[u].step = "ready"
  BY DEF ConfigureInv, OneAtATime
<1>3. OneAtATime'
  BY <1>1, <1>2 DEF OneAtATime
<1>4. \A u \in Terminals \ {t} : Configuring(terminal[u])'
  BY <1>1, <1>2 DEF ConfigureInv, Configuring
<1> QED BY <1>1, <1>3, <1>4 DEF ConfigureInv

LEMMA ConfigureStep ==
  ASSUME ~Overlapping, ConfigureInv, [ServersNext]_serverVars
  PROVE  ConfigureInv'
<1>0. EnvOK /\ DOMAIN terminal = Terminals /\ \A t \in Terminals : Configuring(terminal[t])
  BY DEF ConfigureInv
<1>a. Configuring(AtPrompt)'
  BY PromptFields DEF Configuring, AtPrompt, None
<1>1. ASSUME NEW t \in Terminals, terminal[t].step # "ready", UNCHANGED <<env, agent>>, End(t) PROVE ConfigureInv'
  BY <1>0, <1>1, <1>a, ActsAlone DEF End, EnvOK
<1>2. ASSUME NEW t \in Terminals, NEW c, terminal' = [terminal EXCEPT ![t] = c],
             terminal[t].step # "ready" \/ \A u \in Terminals : terminal[u].step = "ready",
             DOMAIN c = DOMAIN AtPrompt, c.op # "configure", c.report # "healthy", EnvOK'
      PROVE  ConfigureInv'
  BY <1>2, ActsAlone DEF Configuring
<1>3. ASSUME NEW t \in Terminals, NEW s, Go(t, s), terminal[t].op # "configure",
             terminal[t].step \notin {"ready", "done"}, EnvOK'
      PROVE  ConfigureInv'
  <2> DEFINE c == [terminal[t] EXCEPT !.step = s]
  <2>1. /\ terminal' = [terminal EXCEPT ![t] = c] /\ DOMAIN c = DOMAIN AtPrompt
        /\ c.op # "configure" /\ c.report # "healthy"
    BY <1>0, <1>3, PromptFields DEF Go, Configuring
  <2> HIDE DEF c
  <2> QED BY <1>2, <1>3, <2>1
<1>4. ASSUME NEW t \in Terminals, StartLogin(t) \/ StartContext(t) \/ StartInstall(t) PROVE ConfigureInv'
  <2>1. (\A u \in Terminals : terminal[u].step = "ready") /\ EnvOK'
    BY <1>0, <1>4 DEF StartLogin, StartContext, StartInstall, Free, EnvOK
  <2>2. ASSUME NEW op, NEW step, NEW copy, NEW name, op # "configure",
               Begin(t, [AtPrompt EXCEPT !.op = op, !.step = step, !.copy = copy, !.name = name])
        PROVE  ConfigureInv'
    <3> DEFINE c == [AtPrompt EXCEPT !.op = op, !.step = step, !.copy = copy, !.name = name]
    <3>1. /\ terminal' = [terminal EXCEPT ![t] = c] /\ DOMAIN c = DOMAIN AtPrompt
          /\ c.op # "configure" /\ c.report # "healthy"
      BY <2>2, PromptFields DEF Begin, AtPrompt, None
    <3> HIDE DEF c
    <3> QED BY <1>2, <2>1, <3>1
  <2>3. CASE StartLogin(t)
    BY <2>2, <2>3 DEF StartLogin
  <2>4. CASE StartContext(t)
    <3>1. PICK op \in {"use", "rm"}, name \in DOMAIN Load(config).contexts :
            Begin(t, [AtPrompt EXCEPT !.op = op, !.step = "asking", !.copy = Load(config), !.name = name])
      BY <2>4 DEF StartContext
    <3> QED BY <2>2, <3>1
  <2>5. CASE StartInstall(t)
    <3>1. PICK h, name, want : terminal' = [terminal EXCEPT ![t] =
             [AtPrompt EXCEPT !.op = "install", !.step = "docker", !.host = h, !.name = name, !.want = want]]
      BY <2>5 DEF StartInstall, Begin
    <3> DEFINE c == [AtPrompt EXCEPT !.op = "install", !.step = "docker", !.host = h, !.name = name, !.want = want]
    <3>2. /\ terminal' = [terminal EXCEPT ![t] = c] /\ DOMAIN c = DOMAIN AtPrompt
          /\ c.op # "configure" /\ c.report # "healthy"
      BY <3>1, PromptFields DEF AtPrompt, None
    <3> HIDE DEF c
    <3> QED BY <1>2, <2>1, <3>2
  <2> QED BY <1>4, <2>3, <2>4, <2>5
<1>5. ASSUME NEW t \in Terminals, AnswerLogin(t) PROVE ConfigureInv'
  <2>1. PICK token, url : terminal' = [terminal EXCEPT ![t].step = "asked", ![t].url = url, ![t].token = token]
    BY <1>5 DEF AnswerLogin
  <2> DEFINE c == [terminal[t] EXCEPT !.step = "asked", !.url = url, !.token = token]
  <2>2. /\ terminal' = [terminal EXCEPT ![t] = c] /\ DOMAIN c = DOMAIN AtPrompt
        /\ c.op # "configure" /\ c.report # "healthy" /\ terminal[t].step # "ready"
    BY <1>0, <1>5, <2>1, PromptFields DEF AnswerLogin, AtStep, Configuring
  <2> HIDE DEF c
  <2> QED BY <1>0, <1>2, <1>5, <2>2 DEF AnswerLogin, EnvOK
<1>6. ASSUME NEW t \in Terminals,
             SaveLogin(t) \/ RefuseLogin(t) \/ contextUse(t) \/ contextRm(t) \/ saveInstalledContext(t)
             \/ printConfigured(t) \/ InstallerDied(t) \/ CutShort(t)
      PROVE  ConfigureInv'
  BY <1>1, <1>6 DEF SaveLogin, RefuseLogin, contextUse, contextRm, saveInstalledContext, printConfigured,
                    InstallerDied, CutShort, AtStep
<1>7. ASSUME NEW t \in Terminals, connect(t) PROVE ConfigureInv'
  BY <1>7 DEF connect, ConfigureInv, OneAtATime, EnvOK, Configuring
<1>8. ASSUME NEW t \in Terminals, EnsureDocker(t) \/ Installed(t) PROVE ConfigureInv'
  BY <1>0, <1>3, <1>8 DEF EnsureDocker, Installed, AtStep, EnvOK
<1>9. ASSUME NEW t \in Terminals, ReadHostnames(t) PROVE ConfigureInv'
  <2>1. EnvOK' /\ terminal[t].step = "hostnames" /\ terminal[t].op = "install"
    BY <1>0, <1>9 DEF ReadHostnames, AtStep, EnvOK
  <2>2. CASE Go(t, "write")
    BY <1>3, <2>1, <2>2
  <2>3. ASSUME NEW s, terminal' = [terminal EXCEPT ![t].step = "write", ![t].want = s] PROVE ConfigureInv'
    <3> DEFINE c == [terminal[t] EXCEPT !.step = "write", !.want = s]
    <3>1. /\ terminal' = [terminal EXCEPT ![t] = c] /\ DOMAIN c = DOMAIN AtPrompt
          /\ c.op # "configure" /\ c.report # "healthy"
      BY <1>0, <2>1, <2>3, PromptFields DEF Configuring
    <3> HIDE DEF c
    <3> QED BY <1>2, <2>1, <3>1
  <2> QED BY <1>9, <2>2, <2>3 DEF ReadHostnames
<1>10. ASSUME NEW t \in Terminals, WriteEnv(t) PROVE ConfigureInv'
  <2>1. EnvOK' /\ terminal[t].step = "write" /\ terminal[t].op = "install"
    BY <1>0, <1>10 DEF WriteEnv, AtStep, EnvOK
  <2>2. PICK k : terminal' = [terminal EXCEPT ![t].step = "up", ![t].token = k]
    BY <1>10 DEF WriteEnv
  <2> DEFINE c == [terminal[t] EXCEPT !.step = "up", !.token = k]
  <2>3. /\ terminal' = [terminal EXCEPT ![t] = c] /\ DOMAIN c = DOMAIN AtPrompt
        /\ c.op # "configure" /\ c.report # "healthy"
    BY <1>0, <2>1, <2>2, PromptFields DEF Configuring
  <2> HIDE DEF c
  <2> QED BY <1>2, <2>1, <2>3
<1>11. ASSUME NEW t \in Terminals, InstallerUp(t) PROVE ConfigureInv'
  <2>1. EnvOK' /\ AtStep(t, "install", "up") /\ Go(t, "wait")
    BY <1>0, <1>11 DEF InstallerUp, EnvOK
  <2> QED BY <1>3, <2>1 DEF AtStep
<1>12. ASSUME NEW t \in Terminals, LoadInstalled(t) PROVE ConfigureInv'
  <2> DEFINE c == [terminal[t] EXCEPT !.step = "saving", !.copy = Load(config)]
  <2>1. /\ terminal' = [terminal EXCEPT ![t] = c] /\ DOMAIN c = DOMAIN AtPrompt
        /\ c.op # "configure" /\ c.report # "healthy" /\ terminal[t].step # "ready"
    BY <1>0, <1>12, PromptFields DEF LoadInstalled, AtStep, Configuring
  <2> HIDE DEF c
  <2> QED BY <1>0, <1>2, <1>12, <2>1 DEF LoadInstalled, EnvOK
<1>13. ASSUME NEW t \in Terminals, StartConfigure(t) PROVE ConfigureInv'
  <2>1. (\A u \in Terminals : terminal[u].step = "ready") /\ EnvOK'
    BY <1>0, <1>13 DEF StartConfigure, Free, EnvOK
  <2>2. PICK h \in Hosts, keys \in SUBSET Keys, want \in UNION {Given(k) : k \in SUBSET Keys} :
           terminal' = [terminal EXCEPT ![t] =
           [AtPrompt EXCEPT !.op = "configure", !.step = "read", !.host = h, !.keys = keys, !.want = want]]
    BY <1>13 DEF StartConfigure, Begin
  <2> DEFINE c == [AtPrompt EXCEPT !.op = "configure", !.step = "read", !.host = h, !.keys = keys, !.want = want]
  <2>3. /\ terminal' = [terminal EXCEPT ![t] = c] /\ DOMAIN c = DOMAIN AtPrompt /\ c.step = "read"
        /\ c.host \in Hosts /\ c.keys \subseteq Keys /\ c.report # "healthy"
    BY <2>2, PromptFields DEF AtPrompt, None
  <2> HIDE DEF c
  <2> QED BY <2>1, <2>3, ActsAlone DEF Configuring
<1>14. ASSUME NEW t \in Terminals, AtStep(t, "configure", "read") \/ AtStep(t, "configure", "wait"), NEW x,
              UNCHANGED <<env, agent>>, terminal' = [terminal EXCEPT ![t].step = "done", ![t].report = x]
       PROVE  ConfigureInv'
  <2>0. PICK c : c = [terminal[t] EXCEPT !.step = "done", !.report = x]
    OBVIOUS
  <2>1. /\ terminal' = [terminal EXCEPT ![t] = c] /\ DOMAIN c = DOMAIN AtPrompt /\ c.step = "done"
        /\ c.host \in Hosts /\ c.keys \subseteq Keys /\ terminal[t].step # "ready"
    BY <1>0, <1>14, <2>0, PromptFields DEF Configuring, AtStep
  <2> QED BY <1>0, <1>14, <2>1, ActsAlone DEF Configuring, EnvOK
<1>15. ASSUME NEW t \in Terminals, ReadEnv(t) PROVE ConfigureInv'
  <2>1. /\ AtStep(t, "configure", "read") /\ UNCHANGED <<env, agent>>
        /\ terminal[t].step # "ready" /\ terminal[t].step # "done"
    BY <1>15 DEF ReadEnv, AtStep
  <2>2. CASE End(t)
    BY <1>1, <2>1, <2>2
  <2>3. CASE terminal' = [terminal EXCEPT ![t].step = "done", ![t].report = "unchanged"]
    BY <1>14, <2>1, <2>3
  <2>4. ASSUME terminal' = [terminal EXCEPT ![t].step = "move",
                   ![t].new = [env[terminal[t].host] EXCEPT !.settings = Rewritten(terminal[t])]]
        PROVE  ConfigureInv'
    <3>0. PICK new : new = [env[terminal[t].host] EXCEPT !.settings = Rewritten(terminal[t])]
      OBVIOUS
    <3>1. terminal[t].host \in Hosts /\ terminal[t].keys \subseteq Keys /\ terminal[t].report # "healthy"
          /\ DOMAIN terminal[t] = DOMAIN AtPrompt
      BY <1>0, <2>1 DEF Configuring, AtStep
    <3>2. "settings" \in DOMAIN new /\ \A k \in terminal[t].keys : new.settings[k] = terminal[t].want[k]
      BY <1>0, <3>0, <3>1 DEF EnvOK, Rewritten
    <3>3. PICK c : c = [terminal[t] EXCEPT !.step = "move", !.new = new]
      OBVIOUS
    <3>4. /\ terminal' = [terminal EXCEPT ![t] = c] /\ DOMAIN c = DOMAIN AtPrompt /\ c.step = "move"
          /\ c.host = terminal[t].host /\ c.keys = terminal[t].keys /\ c.want = terminal[t].want
          /\ c.new = new /\ c.report # "healthy"
      BY <1>0, <2>4, <3>0, <3>1, <3>3, PromptFields
    <3>5. Configuring(c)'
      BY <3>1, <3>2, <3>4 DEF Configuring
    <3> QED BY <1>0, <2>1, <3>4, <3>5, ActsAlone DEF EnvOK
  <2> QED BY <1>15, <2>2, <2>3, <2>4 DEF ReadEnv
<1>16. ASSUME NEW t \in Terminals, MoveEnv(t) PROVE ConfigureInv'
  <2>0. PICK c : c = [terminal[t] EXCEPT !.step = "up"]
    OBVIOUS
  <2>1. /\ Configuring(terminal[t]) /\ terminal[t].op = "configure" /\ terminal[t].step = "move"
        /\ DOMAIN terminal[t] = DOMAIN AtPrompt
    BY <1>0, <1>16 DEF MoveEnv, AtStep, Configuring
  <2>2. /\ terminal' = [terminal EXCEPT ![t] = c] /\ DOMAIN c = DOMAIN AtPrompt /\ c.step = "up"
        /\ c.host = terminal[t].host /\ c.keys = terminal[t].keys /\ c.want = terminal[t].want
        /\ c.report = terminal[t].report
    BY <1>0, <1>16, <2>0, <2>1, PromptFields DEF MoveEnv, Go
  <2>3. EnvOK' /\ env'[c.host] = terminal[t].new
    BY <1>0, <1>16, <2>1, <2>2 DEF MoveEnv, EnvOK, Configuring
  <2>4. Configuring(c)'
    BY <2>1, <2>2, <2>3 DEF Configuring
  <2> QED BY <2>1, <2>2, <2>3, <2>4, ActsAlone
<1>17. ASSUME NEW t \in Terminals, ConfigureUp(t) PROVE ConfigureInv'
  <2>0. PICK c : c = [terminal[t] EXCEPT !.step = "wait"]
    OBVIOUS
  <2>1. /\ Configuring(terminal[t]) /\ terminal[t].op = "configure" /\ terminal[t].step = "up"
        /\ DOMAIN terminal[t] = DOMAIN AtPrompt
    BY <1>0, <1>17 DEF ConfigureUp, AtStep, Configuring
  <2>2. /\ terminal' = [terminal EXCEPT ![t] = c] /\ DOMAIN c = DOMAIN AtPrompt /\ c.step = "wait"
        /\ c.host = terminal[t].host /\ c.keys = terminal[t].keys /\ c.want = terminal[t].want
        /\ c.report = terminal[t].report
    BY <1>0, <1>17, <2>0, <2>1, PromptFields DEF ConfigureUp, Go
  <2>3. EnvOK' /\ agent'[c.host].settings = env[c.host].settings
    BY <1>0, <1>17, <2>1, <2>2 DEF ConfigureUp, EnvOK, Configuring
  <2>4. Configuring(c)'
    BY <2>1, <2>2, <2>3 DEF Configuring
  <2> QED BY <2>1, <2>2, <2>3, <2>4, ActsAlone
<1>18. ASSUME NEW t \in Terminals, Waited(t) PROVE ConfigureInv'
  BY <1>14, <1>18 DEF Waited
<1>19. CASE UNCHANGED serverVars
  BY <1>19 DEF serverVars, ConfigureInv, OneAtATime, EnvOK, Configuring
<1> QED BY <1>4, <1>5, <1>6, <1>7, <1>8, <1>9, <1>10, <1>11, <1>12, <1>13, <1>15, <1>16, <1>17, <1>18, <1>19
    DEF ServersNext

\* A command that is waiting for the agent and then says it is healthy is a
\* configuration that has come all the way.
LEMMA HealthyMeansConfigured ==
  ASSUME ConfigureInv, [ServersNext]_serverVars, NEW t \in Terminals,
         terminal[t].step = "wait", terminal'[t].report = "healthy"
  PROVE  \A k \in terminal[t].keys : agent[terminal[t].host].settings[k] = terminal[t].want[k]
<1>0. DOMAIN terminal = Terminals /\ Configuring(terminal[t]) /\ terminal[t].report # "healthy"
  BY DEF ConfigureInv, Configuring
<1>1. CASE terminal[t].op = "configure"
  BY <1>0, <1>1 DEF Configuring
<1>2. CASE terminal[t].op # "configure"
  <2>1. CASE terminal'[t] = terminal[t]
    BY <1>0, <2>1
  <2>2. ASSUME NEW u \in Terminals, u # t,
               (\E c : Begin(u, c)) \/ (\E x : Go(u, x)) \/ End(u)
        PROVE  terminal'[t] = terminal[t]
    BY <1>0, <2>2 DEF Begin, Go, End
  <2>3. ASSUME NEW u \in Terminals, u # t,
               AnswerLogin(u) \/ ReadHostnames(u) \/ WriteEnv(u) \/ LoadInstalled(u) \/ ReadEnv(u) \/ Waited(u)
        PROVE  terminal'[t] = terminal[t]
    BY <1>0, <2>2, <2>3 DEF AnswerLogin, ReadHostnames, WriteEnv, LoadInstalled, ReadEnv, Waited, Go, End
  <2>4. ASSUME NEW u \in Terminals, u # t,
               StartLogin(u) \/ StartContext(u) \/ StartInstall(u) \/ StartConfigure(u)
        PROVE  terminal'[t] = terminal[t]
    BY <1>0, <2>2, <2>4 DEF StartLogin, StartContext, StartInstall, StartConfigure
  <2>5. ASSUME NEW u \in Terminals, u # t,
               SaveLogin(u) \/ RefuseLogin(u) \/ contextUse(u) \/ contextRm(u) \/ saveInstalledContext(u)
               \/ printConfigured(u) \/ InstallerDied(u) \/ CutShort(u) \/ EnsureDocker(u) \/ InstallerUp(u)
               \/ Installed(u) \/ MoveEnv(u) \/ ConfigureUp(u)
        PROVE  terminal'[t] = terminal[t]
    BY <2>2, <2>5 DEF SaveLogin, RefuseLogin, contextUse, contextRm, saveInstalledContext, printConfigured,
                      InstallerDied, CutShort, EnsureDocker, InstallerUp, Installed, MoveEnv, ConfigureUp
  <2>6. ASSUME NEW u \in Terminals, connect(u) PROVE terminal'[t] = terminal[t]
    BY <2>6 DEF connect
  <2>7. CASE End(t)
    BY <1>0, <2>7 DEF End, AtPrompt, None
  <2>8. CASE Installed(t)
    BY <1>0, <2>8, PromptFields DEF Installed, Go, Configuring
  <2>9. CASE InstallerDied(t) \/ CutShort(t)
    BY <2>7, <2>9 DEF InstallerDied, CutShort
  <2>10. CASE UNCHANGED serverVars
    BY <2>1, <2>10 DEF serverVars
  <2>11. ~(StartLogin(t) \/ StartContext(t) \/ StartInstall(t) \/ StartConfigure(t))
    BY DEF StartLogin, StartContext, StartInstall, StartConfigure, Free
  <2>12. ~(AnswerLogin(t) \/ ReadHostnames(t) \/ WriteEnv(t) \/ LoadInstalled(t) \/ ReadEnv(t) \/ Waited(t)
           \/ SaveLogin(t) \/ RefuseLogin(t) \/ contextUse(t) \/ contextRm(t) \/ saveInstalledContext(t)
           \/ printConfigured(t) \/ EnsureDocker(t) \/ InstallerUp(t) \/ MoveEnv(t) \/ ConfigureUp(t))
    BY <1>2 DEF AnswerLogin, ReadHostnames, WriteEnv, LoadInstalled, ReadEnv, Waited, SaveLogin, RefuseLogin, contextUse,
             contextRm, saveInstalledContext, printConfigured, EnsureDocker, InstallerUp, MoveEnv, ConfigureUp, AtStep
  <2> QED BY <2>1, <2>3, <2>4, <2>5, <2>6, <2>8, <2>9, <2>10, <2>11, <2>12 DEF ServersNext
<1> QED BY <1>1, <1>2

\* Where one command runs at a time: tokens go where they were given for, and a
\* `server configure` that found the agent healthy left it running with every
\* setting it was given and without those it was to remove, whichever commands
\* failed half-way before (remoteConfigure).  Two that overlap may each report
\* the other's settings.
THEOREM ServersAreKept ==
  ASSUME ~Overlapping
  PROVE  ServersSpec => ServersKept
<1>1. ServersInit => ConfigureInv
  <2> SUFFICES ASSUME ServersInit PROVE ConfigureInv
    OBVIOUS
  <2>1. DOMAIN terminal = Terminals /\ \A t \in Terminals : terminal[t] = AtPrompt
    BY DEF ServersInit
  <2>2. EnvOK
    BY DEF ServersInit, EnvOK, NoEnv
  <2>3. OneAtATime
    BY <2>1 DEF OneAtATime, AtPrompt
  <2>4. Configuring(AtPrompt)
    BY PromptFields DEF Configuring, AtPrompt, None
  <2> QED BY <2>1, <2>2, <2>3, <2>4 DEF ConfigureInv
<1>2. ConfigureInv /\ [ServersNext]_serverVars => ConfigureInv'
  BY ConfigureStep
<1>3. ConfigureInv /\ [ServersNext]_serverVars =>
        [\A t \in Terminals :
          terminal[t].step = "wait" /\ terminal'[t].report = "healthy" =>
             \A k \in terminal[t].keys : agent[terminal[t].host].settings[k] = terminal[t].want[k]]_serverVars
  BY HealthyMeansConfigured
<1> QED BY <1>1, <1>2, <1>3, TokensGoWhereGiven, PTL DEF ServersSpec, ServersKept, ConfiguredRuns

----------------------------------------------------------------------------
(* What is made of a release.                                              *)

\* The blocks, processes and names there are.
Marks ==
    [kind : {"none", "upgrade", "bundle"}, tag : Releases \cup {Dev, machine.version},
     what : {"", machine.native, machine.built} \cup DOMAIN ImageArchives, ok : BOOLEAN]
Cmds ==
    [phase : {"idle", "open", "sums", "gather", "pack", "write", "aside", "renamed", "failed"},
     kind : {"", "upgrade", "bundle"}, tag : Releases \cup {Dev}, pull : BOOLEAN,
     file : Nat, at : Nat, good : BOOLEAN, content : Marks]
NameSet == {"exe", "staged", "old", "out", "partial"}

ReleaseTyped ==
    /\ machine.windows \in BOOLEAN
    /\ files \in Seq([1..Blocks -> Marks])
    /\ names \in [NameSet -> Nat] /\ \A x \in NameSet : names[x] <= Len(files)
    /\ process \in [Commands -> Cmds]

\* One command at a time, and no file with two names.
OneBusy == \A c, d \in Commands : c # d => At(c, "idle") \/ At(d, "idle")
Linked == \A x, y \in NameSet : x # y /\ names[x] # 0 => names[x] # names[y]

\* A release that may be believed, an archive that loads it.
TrustedTag(tag) ==
    \/ tag = machine.version \/ ~machine.cosign
    \/ site.rel[tag].signature = "own"
    \/ site.rel[tag].signature = "none" /\ Before(tag, FirstSigned)

Loads(n) ==
    LET a == ImageArchives[n]
        unpacked == Range(DiffIDs[Own.config]) \subseteq a.has
    IN /\ \A k \in a.manifestJson : k = Own.config /\ (unpacked \/ served(a))
       /\ \A d \in a.indexJson :
             LET m == IF d = Own.index THEN Own.manifest ELSE d IN
             m \in a.has /\ ManifestConfig[m] = Own.config /\ Range(ManifestLayers[m]) \subseteq a.has

\* A whole build, and where one stands.
RunsAt(i) == i # 0 /\ Whole(files[i]) /\ files[i][1].ok /\ TrustedTag(files[i][1].tag)
Standing == RunsAt(names.exe) \/ (machine.windows /\ names.exe = 0 /\ RunsAt(names.old))
Bundled ==
    names.out # 0 => Whole(files[names.out]) /\ (files[names.out][1].ok => Loads(files[names.out][1].what))

\* What was found about what is written next.
Proven(kind, m) ==
    /\ m.kind # "none"
    /\ kind = "upgrade" => m.ok /\ TrustedTag(m.tag)
    /\ kind = "bundle" => (m.ok => Loads(m.what))

\* Where each command is: the file it writes is the staged one, and holds
\* what was proven as far as it was written.
Working(c) ==
    LET cmd == process[c] IN
    /\ cmd.phase # "idle" => cmd.kind \in {"upgrade", "bundle"}
    /\ cmd.phase \in {"open", "sums", "gather", "pack", "write"} => names.exe # 0
    /\ cmd.phase \in {"open", "aside"} => cmd.kind = "upgrade"
    /\ cmd.phase \in {"gather", "pack"} => cmd.kind = "bundle"
    /\ cmd.phase = "write" \/ (cmd.phase = "sums" /\ cmd.kind = "upgrade") =>
          cmd.file # 0 /\ cmd.file = names[Staging(cmd.kind)]
    /\ cmd.phase \in {"pack", "write"} => Proven(cmd.kind, cmd.content)
    /\ cmd.phase = "pack" => cmd.at = 0
    /\ cmd.phase = "write" =>
          cmd.at <= Blocks /\ (cmd.good => \A b \in 1..Blocks : b <= cmd.at => files[cmd.file][b] = cmd.content)
    /\ cmd.phase = "aside" => machine.windows /\ names.exe = 0 /\ RunsAt(names.staged) /\ RunsAt(names.old)
    /\ cmd.phase = "gather" => cmd.at = 0 /\ cmd.content.kind = "bundle"
    /\ cmd.phase = "idle" => cmd = Idle

ReleaseInv == ReleaseTyped /\ OneBusy /\ Linked /\ Standing /\ Bundled /\ \A c \in Commands : Working(c)

LEMMA HoleIs == Hole \in Marks /\ Hole.kind = "none" /\ Empty \in [1..Blocks -> Marks]
  BY DEF Hole, Marks, Empty

LEMMA IdleIs ==
    Idle \in Cmds /\ Idle.phase = "idle" /\ Idle.kind = "" /\ Idle.good = TRUE /\ Idle.at = 0 /\ Idle.file = 0
  BY HoleIs DEF Idle, Cmds

\* The site and the machine stay what they are, and what is said of them.
LEMMA Fixed ==
  ASSUME UNCHANGED <<site, machine>>
  PROVE  Marks' = Marks /\ Cmds' = Cmds
  BY DEF Marks, Cmds

LEMMA FixedStep == ReleaseNext => UNCHANGED <<site, machine>>
<1> SUFFICES ASSUME NEW c \in Commands,
                    \/ \E kind \in {"upgrade", "bundle"}, tag \in Releases, pinned, pull \in BOOLEAN : Start(c, kind, tag, pinned, pull)
                    \/ OpenStaged(c) \/ FetchSums(c) \/ Gather(c) \/ OpenPartial(c) \/ WriteBlock(c)
                    \/ Replace(c) \/ MoveIn(c) \/ Finish(c) \/ BreakOff(c) \/ Kill(c)
             PROVE  UNCHANGED <<site, machine>>
  BY DEF ReleaseNext
<1>1. CASE FetchSums(c) \/ Gather(c) \/ BreakOff(c)
  BY <1>1 DEF FetchSums, Gather, BreakOff, Fail
<1>2. CASE Replace(c)
  BY <1>2 DEF Replace, Fail
<1> QED BY <1>1, <1>2 DEF Start, OpenStaged, OpenPartial, WriteBlock, MoveIn, Finish, Kill

\* What a step of one command leaves of the others, which are idle.
LEMMA Others ==
  ASSUME ReleaseInv, NEW c \in Commands, ~At(c, "idle") \/ (\A d \in Commands : At(d, "idle")),
         UNCHANGED <<site, machine>>,
         process' \in [Commands -> Cmds], \A d \in Commands : d # c => process'[d] = process[d]
  PROVE  OneBusy' /\ \A d \in Commands : d # c => Working(d)'
<1>1. \A d \in Commands : d # c => process[d] = Idle
  <2>1. \A d \in Commands : d # c => At(d, "idle")
    BY DEF ReleaseInv, OneBusy
  <2> QED BY <2>1 DEF ReleaseInv, Working, At
<1>2. \A d \in Commands : d # c => process'[d] = Idle
  BY <1>1
<1>3. OneBusy'
  BY <1>2, IdleIs DEF OneBusy, At
<1>4. ASSUME NEW d \in Commands, d # c PROVE Working(d)'
  <2>1. process'[d] = Idle
    BY <1>2, <1>4
  <2>2. Idle' = Idle
    BY DEF Idle, Hole
  <2> QED BY <2>1, <2>2, IdleIs DEF Working
<1> QED BY <1>3, <1>4

\* The binary's names and files are not touched, nor the bundle's.
LEMMA StandingKept ==
  ASSUME Standing, UNCHANGED <<site, machine>>, names'.exe = names.exe, names'.old = names.old,
         names.exe # 0 => files'[names.exe] = files[names.exe],
         names.old # 0 => files'[names.old] = files[names.old]
  PROVE  Standing'
<1> DEFINE e == files[names.exe]  o == files[names.old]
<1>1. machine' = machine /\ site' = site
  OBVIOUS
<1>2. CASE RunsAt(names.exe)
  <2>1. names.exe # 0 /\ Whole(e) /\ e[1].ok /\ TrustedTag(e[1].tag)
    BY <1>2 DEF RunsAt
  <2>2. names'.exe # 0 /\ files'[names'.exe] = e
    BY <2>1
  <2> HIDE DEF e
  <2>3. Whole(e)' /\ files'[names'.exe][1].ok
    BY <2>1, <2>2 DEF Whole, e
  <2>4. TrustedTag(files[names.exe][1].tag)'
    BY <1>1, <2>1, <2>2 DEF TrustedTag, Before, Parses
  <2> QED BY <2>2, <2>3, <2>4 DEF e, Standing, RunsAt
<1>3. CASE machine.windows /\ names.exe = 0 /\ RunsAt(names.old)
  <2>1. names.old # 0 /\ Whole(o) /\ o[1].ok /\ TrustedTag(o[1].tag)
    BY <1>3 DEF RunsAt
  <2>2. names'.exe = 0 /\ names'.old # 0 /\ files'[names'.old] = o
    BY <1>3, <2>1
  <2> HIDE DEF o
  <2>3. Whole(o)' /\ files'[names'.old][1].ok
    BY <2>1, <2>2 DEF Whole, o
  <2>4. TrustedTag(files[names.old][1].tag)'
    BY <1>1, <2>1, <2>2 DEF TrustedTag, Before, Parses
  <2> QED BY <1>1, <1>3, <2>2, <2>3, <2>4 DEF o, Standing, RunsAt
<1> QED BY <1>2, <1>3 DEF Standing

LEMMA BundledKept ==
  ASSUME Bundled, names'.out = names.out, names.out # 0 => files'[names.out] = files[names.out]
  PROVE  Bundled'
<1>1. CASE names.out # 0
  <2> DEFINE e == files[names.out]
  <2>1. Whole(e) /\ (e[1].ok => Loads(e[1].what)) /\ files'[names'.out] = e
    BY <1>1 DEF Bundled
  <2> HIDE DEF e
  <2> QED BY <2>1 DEF Bundled, Whole, Loads, served
<1>2. CASE names.out = 0
  BY <1>2 DEF Bundled
<1> QED BY <1>1, <1>2

LEMMA Untouched ==
  ASSUME ReleaseInv, UNCHANGED <<site, machine>>,
         \A x \in {"exe", "old", "out"} : names'[x] = names[x] /\ (names[x] # 0 => files'[names[x]] = files[names[x]])
  PROVE  Standing' /\ Bundled'
<1>1. /\ names'.exe = names.exe /\ names'.old = names.old /\ names'.out = names.out
      /\ names.exe # 0 => files'[names.exe] = files[names.exe]
      /\ names.old # 0 => files'[names.old] = files[names.old]
      /\ names.out # 0 => files'[names.out] = files[names.out]
  OBVIOUS
<1>2. Standing /\ Bundled
  BY DEF ReleaseInv
<1> QED BY <1>1, <1>2, StandingKept, BundledKept

\* Where no file is written.
LEMMA TypedKept ==
  ASSUME ReleaseInv, UNCHANGED <<site, machine, files>>, process' \in [Commands -> Cmds],
         names' \in [NameSet -> Nat], \A x \in NameSet : names'[x] <= Len(files)
  PROVE  ReleaseTyped'
<1>1. Marks' = Marks /\ Cmds' = Cmds
  BY Fixed
<1>2. files \in Seq([1..Blocks -> Marks]) /\ machine.windows \in BOOLEAN
  BY DEF ReleaseInv, ReleaseTyped
<1>3. files' \in Seq([1..Blocks -> Marks']) /\ process' \in [Commands -> Cmds']
  BY <1>1, <1>2
<1>4. machine'.windows \in BOOLEAN /\ \A x \in NameSet : names'[x] <= Len(files')
  BY <1>2
<1> QED BY <1>3, <1>4 DEF ReleaseTyped

LEMMA Bounded == ReleaseInv => Len(files) \in Nat /\ \A x \in NameSet : names[x] <= Len(files)
  BY DEF ReleaseInv, ReleaseTyped

\* Where names are only removed.
LEMMA StillBounded ==
  ASSUME ReleaseInv, \A x \in NameSet : names'[x] \in {names[x], 0}
  PROVE  \A x \in NameSet : names'[x] <= Len(files)
  BY Bounded

LEMMA LinkedKept ==
  ASSUME Linked, \A x \in NameSet : names'[x] \in {names[x], 0}
  PROVE  Linked'
  BY DEF Linked

LEMMA RunsKept ==
  ASSUME UNCHANGED <<site, machine, files>>, NEW x \in NameSet, RunsAt(names'[x])
  PROVE  RunsAt(names[x])'
<1>1. site' = site /\ machine' = machine /\ files' = files
  OBVIOUS
<1> QED BY <1>1 DEF RunsAt, TrustedTag

LEMMA ProvenKept ==
  ASSUME UNCHANGED <<site, machine>>, NEW c \in Commands, Proven(process[c].kind, process[c].content),
         process'[c].kind = process[c].kind, process'[c].content = process[c].content
  PROVE  Proven(process[c].kind, process[c].content)'
<1> DEFINE m == process[c].content  k == process[c].kind
<1>1. site' = site /\ machine' = machine /\ m' = m /\ k' = k
  OBVIOUS
<1>2. /\ m.kind # "none"
      /\ k = "upgrade" => m.ok /\ TrustedTag(m.tag)
      /\ k = "bundle" => (m.ok => Loads(m.what))
  BY DEF Proven
<1> HIDE DEF m, k
<1>3. m'.kind # "none" /\ (k' = "upgrade" => m'.ok)
  BY <1>1, <1>2
<1>4. k' = "upgrade" => TrustedTag(m.tag)'
  BY <1>1, <1>2 DEF TrustedTag
<1>5. k' = "bundle" => (m'.ok => Loads(m.what)')
  BY <1>1, <1>2 DEF Loads
<1>6. Proven(k, m)'
  BY <1>3, <1>4, <1>5 DEF Proven
<1> QED BY <1>6 DEF m, k

\* A command that fails.
LEMMA FailStep ==
  ASSUME ReleaseInv, NEW c \in Commands, ~At(c, "idle"), ~At(c, "aside"), Fail(c)
  PROVE  ReleaseInv'
<1>t. /\ files \in Seq([1..Blocks -> Marks]) /\ names \in [NameSet -> Nat] /\ (\A x \in NameSet : names[x] <= Len(files))
      /\ process \in [Commands -> Cmds] /\ machine.windows \in BOOLEAN /\ Linked
  BY DEF ReleaseInv, ReleaseTyped
<1>1. /\ UNCHANGED <<site, machine, files>> /\ process' = [process EXCEPT ![c] = Idle]
      /\ \/ names' = names
         \/ \E x \in {"staged", "partial"} : names' = [names EXCEPT ![x] = 0]
  BY DEF Fail, Staging
<1>f. Marks' = Marks /\ Cmds' = Cmds
  BY <1>1, Fixed
<1>2. process' \in [Commands -> Cmds] /\ process'[c] = Idle /\ \A d \in Commands : d # c => process'[d] = process[d]
  BY <1>1, <1>t, IdleIs
<1>3. /\ names' \in [NameSet -> Nat] /\ (\A x \in NameSet : names'[x] \in {names[x], 0})
      /\ \A x \in {"exe", "old", "out"} : names'[x] = names[x]
  BY <1>1, <1>t DEF NameSet
<1>4. ReleaseTyped'
  <2>1. \A x \in NameSet : names'[x] <= Len(files)
    BY <1>3, StillBounded
  <2> QED BY <1>1, <1>2, <1>3, <2>1, TypedKept
<1>5. Linked'
  BY <1>t, <1>3, LinkedKept
<1>6. Standing' /\ Bundled'
  BY <1>1, <1>3, Untouched
<1>7. OneBusy' /\ \A d \in Commands : d # c => Working(d)'
  BY <1>1, <1>2, Others
<1>8. Working(c)'
  <2>1. Idle' = Idle
    BY DEF Idle, Hole
  <2> QED BY <1>2, <2>1, IdleIs DEF Working
<1> QED BY <1>4, <1>5, <1>6, <1>7, <1>8 DEF ReleaseInv

\* The staged name gets a file that is nobody else's.
LEMMA OpenedStep ==
  ASSUME ReleaseInv, NEW c \in Commands, At(c, "open") \/ At(c, "pack"), Opened(c), UNCHANGED <<site, machine>>
  PROVE  ReleaseInv'
<1> USE ReleaseAssumption
<1>t. /\ files \in Seq([1..Blocks -> Marks]) /\ names \in [NameSet -> Nat] /\ (\A x \in NameSet : names[x] <= Len(files))
      /\ process \in [Commands -> Cmds] /\ machine.windows \in BOOLEAN /\ Linked /\ Working(c)
  BY DEF ReleaseInv, ReleaseTyped
<1>f. Marks' = Marks /\ Cmds' = Cmds
  BY Fixed
<1>w. process[c] \in Cmds /\ process[c].phase \in {"open", "pack"} /\ process[c].kind \in {"upgrade", "bundle"}
  BY <1>t DEF At, Working
<1> DEFINE name == Staging(process[c].kind)
           i == IF names[name] # 0 THEN names[name] ELSE Len(files) + 1
           ph == IF process[c].phase = "open" THEN "sums" ELSE "write"
<1>1. name \in {"staged", "partial"} /\ name \in NameSet /\ (process[c].kind = "upgrade" => name = "staged")
  BY DEF Staging, NameSet
<1>2. i \in Nat /\ i # 0 /\ i <= Len(files) + 1 /\ Len(files) \in Nat
  BY <1>t, <1>1
<1>3. \A x \in NameSet : x # name /\ names[x] # 0 => names[x] # i
  BY <1>t, <1>1, <1>2 DEF Linked
<1>4. /\ files' = IF i > Len(files) THEN Append(files, Empty) ELSE [files EXCEPT ![i] = Empty]
      /\ names' = [names EXCEPT ![name] = i]
      /\ process' = [process EXCEPT ![c].file = i, ![c].phase = ph]
  <2>1. process' = [process EXCEPT ![c].file = i, ![c].phase = IF @ = "open" THEN "sums" ELSE "write"]
    BY DEF Opened
  <2> QED BY <2>1, <1>t, <1>w DEF Opened
<1>p. ph \in {"sums", "write"} /\ (process[c].phase = "open" <=> ph = "sums")
  BY <1>w
<1> HIDE DEF i, name, ph
<1>5. /\ files' \in Seq([1..Blocks -> Marks]) /\ i <= Len(files') /\ Len(files) <= Len(files')
      /\ \A j \in 1..Len(files) : j # i => files'[j] = files[j]
  <2> DEFINE S == [1..Blocks -> Marks]
  <2>1. files \in Seq(S) /\ Empty \in S
    BY <1>t, HoleIs
  <2> HIDE DEF S
  <2>2. CASE i > Len(files)
    <3>1. files' = Append(files, Empty)
      BY <1>4, <2>2
    <3> QED BY <1>2, <2>1, <2>2, <3>1 DEF S
  <2>3. CASE ~(i > Len(files))
    <3>1. files' = [files EXCEPT ![i] = Empty] /\ i \in 1..Len(files)
      BY <1>2, <1>4, <2>3
    <3> QED BY <1>2, <2>1, <3>1 DEF S
  <2> QED BY <2>2, <2>3
<1>6. /\ process' \in [Commands -> Cmds] /\ \A d \in Commands : d # c => process'[d] = process[d]
      /\ process'[c].file = i /\ process'[c].phase = ph /\ process'[c].kind = process[c].kind
      /\ process'[c].at = process[c].at /\ process'[c].content = process[c].content
  BY <1>4, <1>t, <1>2, <1>p, <1>w DEF Cmds
<1>7. names' \in [NameSet -> Nat] /\ names'[name] = i /\ \A x \in NameSet : x # name => names'[x] = names[x]
  BY <1>1, <1>2, <1>4, <1>t
<1>8. ReleaseTyped'
  <2>1. Len(files') \in Nat /\ \A x \in NameSet : names'[x] <= Len(files')
    <3>1. Len(files') \in Nat
      BY <1>5
    <3>2. Len(files') >= Len(files) /\ i <= Len(files')
      BY <1>2, <1>5, <1>t
    <3>3. ASSUME NEW x \in NameSet PROVE names'[x] <= Len(files')
      <4>1. CASE x = name
        BY <1>7, <3>2, <4>1
      <4>2. CASE x # name
        <5>1. names'[x] = names[x] /\ names[x] \in Nat /\ names[x] <= Len(files) /\ Len(files) \in Nat
          BY <1>7, <1>t, <3>3, <4>2
        <5> QED BY <3>1, <3>2, <5>1
      <4> QED BY <4>1, <4>2
    <3> QED BY <3>1, <3>3
  <2>2. process' \in [Commands -> Cmds'] /\ files' \in Seq([1..Blocks -> Marks'])
    BY <1>5, <1>6, <1>f
  <2>3. machine'.windows \in BOOLEAN
    BY <1>t
  <2> QED BY <2>1, <2>2, <2>3, <1>7 DEF ReleaseTyped
<1>9. Linked'
  BY <1>3, <1>7, <1>t DEF Linked
<1>10. Standing' /\ Bundled'
  <2>1. \A x \in {"exe", "old", "out"} : x \in NameSet /\ x # name
    BY <1>1 DEF NameSet
  <2>2. \A x \in {"exe", "old", "out"} : names'[x] = names[x] /\ (names[x] # 0 => files'[names[x]] = files[names[x]])
    <3> SUFFICES ASSUME NEW x \in {"exe", "old", "out"}
                 PROVE  names'[x] = names[x] /\ (names[x] # 0 => files'[names[x]] = files[names[x]])
      OBVIOUS
    <3>1. x \in NameSet /\ x # name
      BY <2>1
    <3>2. names'[x] = names[x] /\ names[x] \in Nat /\ names[x] <= Len(files)
      BY <1>7, <1>t, <3>1
    <3>3. ASSUME names[x] # 0 PROVE files'[names[x]] = files[names[x]]
      <4>1. names[x] \in 1..Len(files) /\ names[x] # i
        BY <1>2, <1>3, <3>1, <3>2, <3>3
      <4> QED BY <1>5, <4>1
    <3> QED BY <3>2, <3>3
  <2> QED BY <2>2, Untouched
<1>11. OneBusy' /\ \A d \in Commands : d # c => Working(d)'
  BY <1>6, <1>w, Others DEF At
<1>12. Working(c)'
  <2>1. process[c].phase = "open" => process[c].kind = "upgrade"
    BY <1>t DEF Working
  <2>2. process[c].phase = "pack" => Proven(process[c].kind, process[c].content) /\ process[c].at = 0
    BY <1>t DEF Working
  <2>3. ph = "write" => Proven(process[c].kind, process[c].content)'
    <3>1. ASSUME ph = "write" PROVE Proven(process[c].kind, process[c].content)
      BY <2>2, <1>p, <1>w, <3>1
    <3> QED BY <3>1, <1>6, ProvenKept
  <2>4. names'[Staging(process'[c].kind)] = i
    BY <1>6, <1>7 DEF name
  <2>5. 0 <= Blocks /\ \A b \in 1..Blocks : ~(b <= 0)
    OBVIOUS
  <2>6. names'.exe # 0
    <3>1. names.exe # 0
      BY <1>t, <1>w DEF Working
    <3> QED BY <3>1, <1>1, <1>7 DEF NameSet
  <2> QED BY <2>1, <2>2, <2>3, <2>4, <2>5, <2>6, <1>2, <1>6, <1>p, <1>w DEF Working
<1> QED BY <1>8, <1>9, <1>10, <1>11, <1>12 DEF ReleaseInv

\* A step that moves a command and no file.
LEMMA ProcessOnly ==
  ASSUME ReleaseInv, NEW c \in Commands, ~At(c, "idle"),
         UNCHANGED <<site, machine, files, names>>,
         process' \in [Commands -> Cmds], \A d \in Commands : d # c => process'[d] = process[d],
         Working(c)'
  PROVE  ReleaseInv'
<1>t. /\ files \in Seq([1..Blocks -> Marks]) /\ names \in [NameSet -> Nat] /\ (\A x \in NameSet : names[x] <= Len(files))
      /\ machine.windows \in BOOLEAN /\ Linked
  BY DEF ReleaseInv, ReleaseTyped
<1>f. Marks' = Marks /\ Cmds' = Cmds
  BY Fixed
<1>1. ReleaseTyped'
  BY <1>t, <1>f DEF ReleaseTyped
<1>2. Linked'
  BY <1>t DEF Linked
<1>3. Standing' /\ Bundled'
  BY Untouched
<1>4. OneBusy' /\ \A d \in Commands : d # c => Working(d)'
  BY Others
<1> QED BY <1>1, <1>2, <1>3, <1>4 DEF ReleaseInv

\* A file that is verified loads the release's image.
LEMMA VerifiedLoads ==
  ASSUME NEW a \in DOMAIN ImageArchives, verify(ImageArchives[a])
  PROVE  Loads(a)
<1> DEFINE x == ImageArchives[a]
<1> USE ReleaseAssumption
<1>1. ASSUME NEW k \in x.manifestJson PROVE k = Own.config /\ (Range(DiffIDs[Own.config]) \subseteq x.has \/ served(x))
  BY <1>1 DEF verify
<1>2. ASSUME NEW d \in x.indexJson
      PROVE  LET m == IF d = Own.index THEN Own.manifest ELSE d IN
             m \in x.has /\ ManifestConfig[m] = Own.config /\ Range(ManifestLayers[m]) \subseteq x.has
  <2>1. CASE d = Own.index /\ served(x)
    BY <2>1 DEF served
  <2>2. CASE follows(x, d)
    <3>1. CASE d = Own.manifest
      BY <2>2, <3>1 DEF follows, served
    <3>2. CASE d # Own.manifest
      BY <2>2, <3>2 DEF follows
    <3> QED BY <3>1, <3>2
  <2> QED BY <1>2, <2>1, <2>2 DEF verify
<1> QED BY <1>1, <1>2 DEF Loads

\* A release whose signature was checked may be believed.
LEMMA CheckedIsTrusted == ASSUME NEW tag, checkSignature(tag) PROVE TrustedTag(tag)
  BY DEF checkSignature, TrustedTag

LEMMA FetchSumsStep ==
  ASSUME ReleaseInv, NEW c \in Commands, FetchSums(c)
  PROVE  ReleaseInv'
<1>t. process \in [Commands -> Cmds] /\ Working(c) /\ process[c] \in Cmds /\ process[c].phase = "sums"
  BY DEF ReleaseInv, ReleaseTyped, FetchSums, At
<1>k. process[c].kind \in {"upgrade", "bundle"} /\ process[c].tag \in Releases \cup {Dev}
  BY <1>t DEF Working, Cmds
<1>b. 0 <= Blocks /\ \A b \in 1..Blocks : ~(b <= 0)
  BY ReleaseAssumption
<1>1. CASE Fail(c)
  BY <1>1, <1>t, FailStep DEF At
<1>2. CASE ~Fail(c)
  <2> DEFINE upgrade == process[c].kind = "upgrade"
             ph == IF upgrade THEN "write" ELSE "gather"
  <2>1. PICK a \in IF upgrade THEN Asset(process[c].tag) ELSE {""} :
           /\ checkSignature(process[c].tag)
           /\ UNCHANGED <<site, machine, files, names>>
           /\ process' = [process EXCEPT ![c].phase = ph, ![c].at = 0,
                            ![c].content = [kind |-> process[c].kind, tag |-> process[c].tag, what |-> a, ok |-> TRUE]]
    BY <1>2 DEF FetchSums
  <2> DEFINE m == [kind |-> process[c].kind, tag |-> process[c].tag, what |-> a, ok |-> TRUE]
  <2>2. a \in {"", machine.native, machine.built}
    BY <2>1 DEF Asset
  <2>3. m \in Marks /\ m.kind = process[c].kind /\ m.tag = process[c].tag /\ m.ok = TRUE
    BY <2>2, <1>k DEF Marks
  <2>4. process' = [process EXCEPT ![c].phase = ph, ![c].at = 0, ![c].content = m]
    BY <2>1
  <2>5. ph \in {"write", "gather"} /\ (ph = "write" <=> upgrade)
    OBVIOUS
  <2> HIDE DEF m, ph
  <2>6. /\ process' \in [Commands -> Cmds] /\ \A d \in Commands : d # c => process'[d] = process[d]
        /\ process'[c].phase = ph /\ process'[c].at = 0 /\ process'[c].content = m
        /\ process'[c].kind = process[c].kind /\ process'[c].file = process[c].file
    BY <1>t, <2>3, <2>4, <2>5 DEF Cmds
  <2>7. TrustedTag(process[c].tag)
    BY <2>1, CheckedIsTrusted
  <2>8. ph = "write" => Proven(process[c].kind, process[c].content)'
    <3>1. TrustedTag(process[c].content.tag)'
      <4>1. site' = site /\ machine' = machine /\ process'[c].content.tag = process[c].tag
        BY <2>1, <2>3, <2>6
      <4> QED BY <2>7, <4>1 DEF TrustedTag
    <3> QED BY <3>1, <2>3, <2>5, <2>6, <1>k DEF Proven
  <2>e. names'.exe # 0
    BY <1>t, <2>1 DEF Working
  <2>9. Working(c)'
    <3>2. ph = "write" => process[c].file # 0 /\ process[c].file = names[Staging(process[c].kind)]
      <4>1. upgrade => process[c].file # 0 /\ process[c].file = names[Staging(process[c].kind)]
        BY <1>t DEF Working
      <4> QED BY <4>1, <2>5
    <3>4. CASE ph = "write"
      <4>1. process'[c].file # 0 /\ process'[c].file = names'[Staging(process'[c].kind)]
        BY <2>1, <2>6, <3>2, <3>4
      <4> QED BY <1>k, <2>6, <2>8, <2>e, <1>b, <3>4, <4>1 DEF Working
    <3>5. CASE ph = "gather"
      BY <1>k, <2>3, <2>5, <2>6, <2>e, <3>5 DEF Working
    <3> QED BY <2>5, <3>4, <3>5
  <2> QED BY <1>t, <2>1, <2>6, <2>9, ProcessOnly DEF At
<1> QED BY <1>1, <1>2

LEMMA GatherStep ==
  ASSUME ReleaseInv, NEW c \in Commands, Gather(c)
  PROVE  ReleaseInv'
<1>t. process \in [Commands -> Cmds] /\ Working(c) /\ process[c] \in Cmds /\ process[c].phase = "gather"
  BY DEF ReleaseInv, ReleaseTyped, Gather, At
<1>k. process[c].kind = "bundle" /\ process[c].at = 0 /\ process[c].content.kind = "bundle" /\ process[c].content \in Marks
  BY <1>t DEF Working, Cmds
<1>1. CASE Fail(c)
  BY <1>1, <1>t, FailStep DEF At
<1>2. CASE ~Fail(c)
  <2> DEFINE digests == process[c].pull /\ "digests" \in site.rel[process[c].tag].lists
  <2>1. PICK a \in DOMAIN ImageArchives :
           /\ digests => verify(ImageArchives[a])
           /\ UNCHANGED <<site, machine, files, names>>
           /\ process' = [process EXCEPT ![c].phase = "pack", ![c].content.what = a, ![c].content.ok = digests]
    BY <1>2 DEF Gather, Saved
  <2> DEFINE m == [process[c].content EXCEPT !.what = a, !.ok = digests]
  <2>d. digests \in BOOLEAN
    OBVIOUS
  <2>v. digests => Loads(a)
    BY <2>1, VerifiedLoads
  <2> HIDE DEF digests
  <2>3. m \in Marks /\ m.kind = "bundle" /\ m.ok = digests /\ m.what = a
    BY <2>d, <1>k DEF Marks
  <2>4. process' = [process EXCEPT ![c].phase = "pack", ![c].content = m]
    BY <1>t, <2>1 DEF Cmds
  <2> HIDE DEF m
  <2>6. /\ process' \in [Commands -> Cmds] /\ \A d \in Commands : d # c => process'[d] = process[d]
        /\ process'[c].phase = "pack" /\ process'[c].at = 0 /\ process'[c].content = m
        /\ process'[c].kind = "bundle"
    BY <1>t, <1>k, <2>3, <2>4 DEF Cmds
  <2>8. Proven(process[c].kind, process[c].content)'
    BY <2>3, <2>6, <2>v DEF Proven, Loads, served
  <2>9. Working(c)'
    <3>1. names'.exe # 0
      BY <1>t, <2>1 DEF Working
    <3> QED BY <2>6, <2>8, <3>1 DEF Working
  <2> QED BY <1>t, <2>1, <2>6, <2>9, ProcessOnly DEF At
<1> QED BY <1>1, <1>2

LEMMA WriteStep ==
  ASSUME ReleaseInv, NEW c \in Commands, WriteBlock(c)
  PROVE  ReleaseInv'
<1> USE ReleaseAssumption
<1>t. /\ files \in Seq([1..Blocks -> Marks]) /\ names \in [NameSet -> Nat] /\ (\A x \in NameSet : names[x] <= Len(files))
      /\ process \in [Commands -> Cmds] /\ machine.windows \in BOOLEAN /\ Linked /\ Working(c)
      /\ process[c].phase = "write" /\ process[c] \in Cmds
  BY DEF ReleaseInv, ReleaseTyped, WriteBlock, At
<1> DEFINE cmd == process[c]
           f == cmd.file
           k == cmd.at + 1
           name == Staging(cmd.kind)
<1>w. /\ cmd.kind \in {"upgrade", "bundle"} /\ f # 0 /\ f = names[name] /\ cmd.at \in Nat /\ cmd.at < Blocks
      /\ Proven(cmd.kind, cmd.content) /\ cmd.content \in Marks
      /\ cmd.good => \A b \in 1..Blocks : b <= cmd.at => files[f][b] = cmd.content
  BY <1>t DEF Working, WriteBlock, Cmds
<1>n. name \in {"staged", "partial"} /\ name \in NameSet
  BY DEF Staging, NameSet
<1>1. PICK bad \in BOOLEAN :
        /\ files' = [files EXCEPT ![f][k] = [cmd.content EXCEPT !.ok = IF bad THEN FALSE ELSE @]]
        /\ process' = [process EXCEPT ![c].at = @ + 1, ![c].good = @ /\ ~bad]
        /\ UNCHANGED <<site, machine, names>>
  BY DEF WriteBlock
<1> DEFINE m == [cmd.content EXCEPT !.ok = IF bad THEN FALSE ELSE @]
<1>2. m \in Marks /\ (~bad => m = cmd.content)
  BY <1>w DEF Marks
<1>3. f \in 1..Len(files) /\ Len(files) \in Nat /\ k \in 1..Blocks /\ k \in Nat
  BY <1>t, <1>w, <1>n
<1>4. /\ files' = [files EXCEPT ![f] = [files[f] EXCEPT ![k] = m]]
  BY <1>1
<1> DEFINE g == [files[f] EXCEPT ![k] = m]
<1>5. files[f] \in [1..Blocks -> Marks]
  <2> DEFINE S == [1..Blocks -> Marks]
  <2>1. files \in Seq(S)
    BY <1>t
  <2> HIDE DEF S
  <2>2. files[f] \in S
    BY <2>1, <1>3
  <2> QED BY <2>2 DEF S
<1>6. g \in [1..Blocks -> Marks] /\ g[k] = m /\ \A b \in 1..Blocks : b # k => g[b] = files[f][b]
  BY <1>2, <1>3, <1>5
<1>7. files' = [files EXCEPT ![f] = g]
  BY <1>4
<1> DEFINE good == cmd.good /\ ~bad
<1>8. process' = [process EXCEPT ![c].at = k, ![c].good = good] /\ good \in BOOLEAN
  BY <1>1, <1>t
<1> HIDE DEF m, g, k, f, name, good
<1>9. /\ files' \in Seq([1..Blocks -> Marks]) /\ Len(files') = Len(files) /\ files'[f] = g
      /\ \A j \in 1..Len(files) : j # f => files'[j] = files[j]
  <2> DEFINE S == [1..Blocks -> Marks]
  <2>1. files \in Seq(S) /\ g \in S
    BY <1>t, <1>6
  <2> HIDE DEF S
  <2> QED BY <2>1, <1>3, <1>7 DEF S
<1>10. /\ process' \in [Commands -> Cmds] /\ \A d \in Commands : d # c => process'[d] = process[d]
       /\ process'[c].phase = "write" /\ process'[c].at = k /\ process'[c].content = cmd.content
       /\ process'[c].kind = cmd.kind /\ process'[c].file = f /\ process'[c].good = good
  BY <1>t, <1>3, <1>8 DEF Cmds, f
<1>f. Marks' = Marks /\ Cmds' = Cmds
  BY <1>1, Fixed
<1>11. ReleaseTyped'
  <2>1. \A x \in NameSet : names'[x] <= Len(files')
    BY <1>1, <1>9, <1>t
  <2>2. process' \in [Commands -> Cmds'] /\ files' \in Seq([1..Blocks -> Marks'])
    BY <1>9, <1>10, <1>f
  <2> QED BY <1>1, <1>t, <2>1, <2>2 DEF ReleaseTyped
<1>12. Linked'
  BY <1>1, <1>t DEF Linked
<1>13. Standing' /\ Bundled'
  <2>1. \A x \in {"exe", "old", "out"} : x \in NameSet /\ x # name
    BY <1>n DEF NameSet
  <2>2. \A x \in {"exe", "old", "out"} : names'[x] = names[x] /\ (names[x] # 0 => files'[names[x]] = files[names[x]])
    BY <2>1, <1>1, <1>9, <1>n, <1>t, <1>w DEF Linked
  <2> QED BY <2>2, <1>1, Untouched
<1>14. OneBusy' /\ \A d \in Commands : d # c => Working(d)'
  BY <1>1, <1>10, <1>t, Others DEF At
<1>15. Working(c)'
  <2>1. Proven(process[c].kind, process[c].content)'
    BY <1>1, <1>10, <1>w, ProvenKept
  <2>2. good => \A b \in 1..Blocks : b <= k => g[b] = cmd.content
    <3>1. good => cmd.good /\ ~bad
      BY DEF good
    <3>2. k = cmd.at + 1
      BY DEF k
    <3> QED BY <3>1, <3>2, <1>2, <1>6, <1>w
  <2>3. k <= Blocks /\ k \in Nat /\ names'[Staging(process'[c].kind)] = f
    BY <1>1, <1>3, <1>10, <1>w DEF name
  <2>4. names'.exe # 0
    BY <1>1, <1>t DEF Working
  <2> QED BY <2>1, <2>2, <2>3, <2>4, <1>9, <1>10, <1>w DEF Working
<1> QED BY <1>11, <1>12, <1>13, <1>14, <1>15 DEF ReleaseInv

\* A whole file that was proven stands wherever it is put.
LEMMA WrittenStands ==
  ASSUME ReleaseInv, NEW c \in Commands, process[c].phase = "write", process[c].at = Blocks, process[c].good
  PROVE  LET name == Staging(process[c].kind)  f == names[name] IN
         /\ f # 0 /\ Whole(files[f]) /\ files[f][1] = process[c].content
         /\ Proven(process[c].kind, process[c].content)
         /\ process[c].kind = "upgrade" => RunsAt(f)
<1> USE ReleaseAssumption
<1> DEFINE f == names[Staging(process[c].kind)]
<1>1. /\ f # 0 /\ Proven(process[c].kind, process[c].content)
      /\ \A b \in 1..Blocks : files[f][b] = process[c].content
  BY DEF ReleaseInv, Working
<1>2. 1 \in 1..Blocks /\ files[f][1] = process[c].content
  BY <1>1
<1>3. process[c].content # Hole
  BY <1>1, HoleIs DEF Proven
<1>4. Whole(files[f])
  BY <1>1, <1>2, <1>3 DEF Whole
<1>5. process[c].kind = "upgrade" => RunsAt(f)
  BY <1>1, <1>2, <1>4 DEF RunsAt, Proven
<1> QED BY <1>1, <1>2, <1>4, <1>5

LEMMA ReplaceStep ==
  ASSUME ReleaseInv, NEW c \in Commands, Replace(c)
  PROVE  ReleaseInv'
<1> USE ReleaseAssumption
<1>t. /\ files \in Seq([1..Blocks -> Marks]) /\ names \in [NameSet -> Nat] /\ (\A x \in NameSet : names[x] <= Len(files))
      /\ process \in [Commands -> Cmds] /\ machine.windows \in BOOLEAN /\ Linked /\ Working(c)
      /\ process[c].phase = "write" /\ process[c].at = Blocks /\ process[c] \in Cmds /\ Standing /\ Bundled
  BY DEF ReleaseInv, ReleaseTyped, Replace, At
<1>k. process[c].kind \in {"upgrade", "bundle"}
  BY <1>t DEF Working
<1>1. CASE Fail(c)
  BY <1>1, <1>t, FailStep DEF At
<1>2. CASE ~Fail(c)
  <2> DEFINE name == Staging(process[c].kind)
             target == Target(process[c].kind)
             f == names[name]
             aside == process[c].kind = "upgrade" /\ machine.windows
             ph == IF aside THEN "aside" ELSE "renamed"
  <2>1. /\ process[c].good /\ UNCHANGED <<site, machine, files>> /\ To(c, ph)
        /\ names' = IF aside THEN [names EXCEPT !.old = names.exe, !.exe = 0]
                    ELSE [names EXCEPT ![name] = 0, ![target] = names[name]]
    BY <1>2 DEF Replace, Matches
  <2>2. /\ f # 0 /\ Whole(files[f]) /\ files[f][1] = process[c].content
        /\ Proven(process[c].kind, process[c].content)
        /\ process[c].kind = "upgrade" => RunsAt(f)
    BY <1>t, <2>1, WrittenStands
  <2>3. ph \in {"aside", "renamed"} /\ process' = [process EXCEPT ![c].phase = ph]
    BY <2>1 DEF To
  <2>p. ph = "aside" <=> aside
    OBVIOUS
  <2> HIDE DEF ph
  <2>4. /\ process' \in [Commands -> Cmds] /\ \A d \in Commands : d # c => process'[d] = process[d]
        /\ process'[c].phase = ph /\ process'[c].kind = process[c].kind
    BY <1>t, <2>3 DEF Cmds
  <2>5. OneBusy' /\ \A d \in Commands : d # c => Working(d)'
    BY <1>t, <2>1, <2>4, Others DEF At
  <2>f. Marks' = Marks /\ Cmds' = Cmds
    BY <2>1, Fixed
  <2>6. CASE aside
    <3>1. names' = [names EXCEPT !.old = names.exe, !.exe = 0] /\ machine.windows /\ process[c].kind = "upgrade" /\ name = "staged"
      BY <2>1, <2>6 DEF Staging
    <3>2. /\ names' \in [NameSet -> Nat] /\ names'["old"] = names["exe"] /\ names'["exe"] = 0
          /\ \A x \in {"staged", "out", "partial"} : names'[x] = names[x]
      BY <1>t, <3>1 DEF NameSet
    <3>3. Linked'
      BY <1>t, <3>2 DEF Linked, NameSet
    <3>4. ReleaseTyped'
      <4>1. ASSUME NEW x \in NameSet PROVE names'[x] <= Len(files)
        BY <1>t, <3>2 DEF NameSet
      <4> QED BY <2>1, <2>4, <3>2, <4>1, TypedKept
    <3>5. names.exe # 0 /\ RunsAt(names.exe)
      BY <1>t DEF Standing, Working
    <3>6. RunsAt(names.old)' /\ RunsAt(names.staged)'
      <4>1. names'.old = names.exe /\ names'.staged = names.staged /\ RunsAt(names.staged)
        BY <2>2, <3>1, <3>2
      <4>2. RunsAt(names'["old"]) /\ RunsAt(names'["staged"])
        BY <3>5, <4>1
      <4>3. RunsAt(names["old"])' /\ RunsAt(names["staged"])'
        BY <2>1, <4>2, RunsKept DEF NameSet
      <4> QED BY <4>3
    <3>7. names'.exe = 0 /\ names'.out = names.out /\ machine'.windows
      BY <2>1, <3>1, <3>2
    <3>8. Standing'
      BY <3>6, <3>7 DEF Standing
    <3>9. Bundled'
      <4>1. files' = files /\ names'.out = names.out
        BY <2>1, <3>7
      <4> QED BY <1>t, <4>1 DEF Bundled, Loads
    <3>10. Working(c)'
      BY <2>4, <2>6, <2>p, <3>1, <3>6, <3>7 DEF Working
    <3> QED BY <2>5, <3>3, <3>4, <3>8, <3>9, <3>10 DEF ReleaseInv
  <2>7. CASE ~aside
    <3>1. names' = [names EXCEPT ![name] = 0, ![target] = f]
      BY <2>1, <2>7
    <3>2. \/ name = "staged" /\ target = "exe" /\ process[c].kind = "upgrade"
          \/ name = "partial" /\ target = "out" /\ process[c].kind = "bundle"
      BY <1>k DEF Staging, Target
    <3>3. /\ names' \in [NameSet -> Nat] /\ names'[name] = 0 /\ names'[target] = f
          /\ \A x \in NameSet : x # name /\ x # target => names'[x] = names[x]
          /\ name \in NameSet /\ target \in NameSet /\ f \in Nat /\ f <= Len(files)
      BY <1>t, <3>1, <3>2 DEF NameSet
    <3>4. Linked'
      <4>1. \A x \in NameSet : x # name /\ names[x] # 0 => names[x] # f
        BY <1>t, <2>2, <3>3 DEF Linked
      <4> QED BY <1>t, <2>2, <3>3, <4>1 DEF Linked
    <3>5. ReleaseTyped'
      <4>1. ASSUME NEW x \in NameSet PROVE names'[x] <= Len(files)
        <5>1. names'[x] \in {names[x], 0, f}
          BY <3>3, <4>1
        <5> QED BY <5>1, <3>3, Bounded
      <4> QED BY <2>1, <2>4, <3>3, <4>1, TypedKept
    <3>6. ASSUME process[c].kind = "upgrade" PROVE Standing' /\ Bundled'
      <4>1. names'.exe = f /\ names'.out = names.out
        BY <3>2, <3>3, <3>6 DEF NameSet
      <4>2. RunsAt(names.exe)'
        <5>1. RunsAt(names'["exe"])
          BY <2>2, <3>6, <4>1
        <5> QED BY <2>1, <5>1, RunsKept DEF NameSet
      <4>3. Standing'
        BY <4>2 DEF Standing
      <4>4. Bundled'
        BY <1>t, <2>1, <4>1, BundledKept
      <4> QED BY <4>3, <4>4
    <3>7. ASSUME process[c].kind = "bundle" PROVE Standing' /\ Bundled'
      <4>1. names'.out = f /\ names'.exe = names.exe /\ names'.old = names.old
        BY <3>2, <3>3, <3>7 DEF NameSet
      <4>2. Standing'
        BY <1>t, <2>1, <4>1, StandingKept
      <4>3. Whole(files[f]) /\ (files[f][1].ok => Loads(files[f][1].what))
        BY <2>2, <3>7 DEF Proven
      <4>4. Bundled'
        <5> DEFINE e == files[f]
        <5>1. files'[names'.out] = e /\ Whole(e) /\ (e[1].ok => Loads(e[1].what))
          BY <2>1, <4>1, <4>3
        <5> HIDE DEF e
        <5> QED BY <5>1 DEF Bundled, Whole, Loads, served
      <4> QED BY <4>2, <4>4
    <3>8. Working(c)'
      BY <1>k, <2>3, <2>4, <2>7, <2>p DEF Working
    <3> QED BY <1>k, <2>5, <3>4, <3>5, <3>6, <3>7, <3>8 DEF ReleaseInv
  <2> QED BY <2>6, <2>7
<1> QED BY <1>1, <1>2

LEMMA MoveInStep ==
  ASSUME ReleaseInv, NEW c \in Commands, MoveIn(c)
  PROVE  ReleaseInv'
<1>t. /\ files \in Seq([1..Blocks -> Marks]) /\ names \in [NameSet -> Nat] /\ (\A x \in NameSet : names[x] <= Len(files))
      /\ process \in [Commands -> Cmds] /\ machine.windows \in BOOLEAN /\ Linked /\ Working(c)
      /\ process[c].phase = "aside" /\ process[c] \in Cmds /\ Bundled
  BY DEF ReleaseInv, ReleaseTyped, MoveIn, At
<1>k. process[c].kind = "upgrade" /\ names.exe = 0 /\ RunsAt(names.staged) /\ RunsAt(names.old)
  BY <1>t DEF Working
<1>1. PICK x \in {"staged", "old"}, ph \in {"renamed", "failed"} :
        names' = [names EXCEPT !.exe = names[x], ![x] = 0] /\ process' = [process EXCEPT ![c].phase = ph]
  BY DEF MoveIn, To
<1>2. UNCHANGED <<site, machine, files>>
  BY DEF MoveIn
<1>3. /\ process' \in [Commands -> Cmds] /\ \A d \in Commands : d # c => process'[d] = process[d]
      /\ process'[c].phase = ph /\ process'[c].kind = process[c].kind
  BY <1>t, <1>1 DEF Cmds
<1>4. /\ names' \in [NameSet -> Nat] /\ names'["exe"] = names[x] /\ names'[x] = 0
      /\ \A y \in NameSet : y # x /\ y # "exe" => names'[y] = names[y]
      /\ x \in NameSet /\ "exe" \in NameSet /\ "out" \in NameSet
  BY <1>t, <1>1 DEF NameSet
<1>5. OneBusy' /\ \A d \in Commands : d # c => Working(d)'
  BY <1>t, <1>2, <1>3, Others DEF At
<1>6. Linked'
  BY <1>t, <1>4 DEF Linked
<1>f. Marks' = Marks /\ Cmds' = Cmds
  BY <1>2, Fixed
<1>7. ReleaseTyped'
  <2>1. \A y \in NameSet : names'[y] <= Len(files)
    BY <1>t, <1>4
  <2> QED BY <1>t, <1>2, <1>3, <1>f, <1>4, <2>1 DEF ReleaseTyped
<1>8. names'.exe = names[x] /\ names'.out = names.out /\ RunsAt(names[x])
  BY <1>k, <1>4
<1>9. Standing'
  <2>1. RunsAt(names.exe)'
    BY <1>2, <1>8 DEF RunsAt, Whole, TrustedTag, Before, Parses
  <2> QED BY <2>1 DEF Standing
<1>10. Bundled'
  BY <1>t, <1>2, <1>8 DEF Bundled, Whole, Loads, served
<1>11. Working(c)'
  BY <1>1, <1>3, <1>k DEF Working
<1> QED BY <1>5, <1>6, <1>7, <1>9, <1>10, <1>11 DEF ReleaseInv

\* A command starts only where none is at work, and ends with what it staged gone.
LEMMA StartStep ==
  ASSUME ~Overlap, ReleaseInv, NEW c \in Commands, NEW kind \in {"upgrade", "bundle"}, NEW tag \in Releases,
         NEW pinned \in BOOLEAN, NEW pull \in BOOLEAN, Start(c, kind, tag, pinned, pull)
  PROVE  ReleaseInv'
<1>t. /\ files \in Seq([1..Blocks -> Marks]) /\ names \in [NameSet -> Nat] /\ (\A x \in NameSet : names[x] <= Len(files))
      /\ process \in [Commands -> Cmds] /\ machine.windows \in BOOLEAN /\ Linked /\ Standing /\ Bundled
  BY DEF ReleaseInv, ReleaseTyped
<1> DEFINE ph == IF kind = "upgrade" THEN "open" ELSE "sums"
           p == [Idle EXCEPT !.phase = ph, !.kind = kind, !.tag = tag, !.pull = pull]
<1>1. /\ \A d \in Commands : At(d, "idle")
      /\ names.exe # 0 /\ UNCHANGED <<site, machine, files>>
      /\ names' = IF machine.windows THEN [names EXCEPT !.old = 0] ELSE names
      /\ process' = [process EXCEPT ![c] = p]
  BY DEF Start
<1>2. ph \in {"open", "sums"} /\ (ph = "open" <=> kind = "upgrade")
  OBVIOUS
<1> HIDE DEF ph
<1>3. p \in Cmds /\ p.phase = ph /\ p.kind = kind
  BY <1>2, IdleIs DEF Cmds
<1> HIDE DEF p
<1>4. process' \in [Commands -> Cmds] /\ process'[c] = p /\ \A d \in Commands : d # c => process'[d] = process[d]
  BY <1>1, <1>3, <1>t
<1>5. OneBusy' /\ \A d \in Commands : d # c => Working(d)'
  BY <1>1, <1>4, Others
<1>6. names' \in [NameSet -> Nat] /\ \A x \in NameSet : names'[x] \in {names[x], 0} /\ (x # "old" => names'[x] = names[x])
  BY <1>1, <1>t DEF NameSet
<1>f. Marks' = Marks /\ Cmds' = Cmds
  BY <1>1, Fixed
<1>7. ReleaseTyped'
  <2>1. \A x \in NameSet : names'[x] <= Len(files)
    BY <1>6, StillBounded
  <2>2. process' \in [Commands -> Cmds'] /\ files' \in Seq([1..Blocks -> Marks'])
    BY <1>t, <1>1, <1>4, <1>f
  <2> QED BY <1>1, <1>4, <1>6, <2>1, TypedKept
<1>8. Linked'
  BY <1>t, <1>6, LinkedKept
<1>9. names'.exe = names.exe /\ names'.out = names.out /\ RunsAt(names.exe)
  BY <1>t, <1>1, <1>6 DEF NameSet, Standing
<1>10. Standing'
  <2>1. RunsAt(names.exe)'
    <3>1. RunsAt(names'["exe"])
      BY <1>9
    <3> QED BY <1>1, <3>1, RunsKept DEF NameSet
  <2> QED BY <2>1 DEF Standing
<1>11. Bundled'
  BY <1>t, <1>1, <1>9, BundledKept
<1>12. Working(c)'
  BY <1>1, <1>2, <1>3, <1>4, <1>9 DEF Working
<1> QED BY <1>5, <1>7, <1>8, <1>10, <1>11, <1>12 DEF ReleaseInv

LEMMA EndStep ==
  ASSUME ReleaseInv, NEW c \in Commands, Finish(c) \/ Kill(c)
  PROVE  ReleaseInv'
<1>t. /\ files \in Seq([1..Blocks -> Marks]) /\ names \in [NameSet -> Nat] /\ (\A x \in NameSet : names[x] <= Len(files))
      /\ process \in [Commands -> Cmds] /\ machine.windows \in BOOLEAN /\ Linked
  BY DEF ReleaseInv, ReleaseTyped
<1>1. /\ UNCHANGED <<site, machine, files>> /\ process' = [process EXCEPT ![c] = Idle] /\ ~At(c, "idle")
      /\ names' = names \/ names' = [names EXCEPT !.staged = 0]
  BY DEF Finish, Kill, At
<1>2. process' \in [Commands -> Cmds] /\ process'[c] = Idle /\ \A d \in Commands : d # c => process'[d] = process[d]
  BY <1>1, <1>t, IdleIs
<1>3. /\ names' \in [NameSet -> Nat] /\ (\A x \in NameSet : names'[x] \in {names[x], 0})
      /\ \A x \in {"exe", "old", "out"} : names'[x] = names[x]
  BY <1>1, <1>t DEF NameSet
<1>f. Marks' = Marks /\ Cmds' = Cmds
  BY <1>1, Fixed
<1>4. ReleaseTyped'
  <2>1. \A x \in NameSet : names'[x] <= Len(files)
    BY <1>3, StillBounded
  <2> QED BY <1>1, <1>2, <1>3, <2>1, TypedKept
<1>5. Linked'
  BY <1>t, <1>3, LinkedKept
<1>6. Standing' /\ Bundled'
  BY <1>1, <1>3, Untouched
<1>7. OneBusy' /\ \A d \in Commands : d # c => Working(d)'
  BY <1>1, <1>2, Others
<1>8. Working(c)'
  <2>1. Idle' = Idle
    BY DEF Idle, Hole
  <2> QED BY <1>2, <2>1, IdleIs DEF Working
<1> QED BY <1>4, <1>5, <1>6, <1>7, <1>8 DEF ReleaseInv

LEMMA ReleaseStarts == ReleaseInit => ReleaseInv
<1> USE ReleaseAssumption
<1> SUFFICES ASSUME ReleaseInit PROVE ReleaseInv
  OBVIOUS
<1> DEFINE m == [kind |-> "upgrade", tag |-> machine.version, what |-> machine.built, ok |-> TRUE]
           f == [b \in 1..Blocks |-> m]
<1>1. /\ files = <<f>> /\ process = [c \in Commands |-> Idle] /\ machine.windows \in BOOLEAN
      /\ names = [exe |-> 1, staged |-> 0, old |-> 0, out |-> 0, partial |-> 0]
  BY DEF ReleaseInit
<1>2. m \in Marks /\ m # Hole /\ m.ok = TRUE /\ m.tag = machine.version
  <2>1. m.kind # Hole.kind
    BY HoleIs
  <2> QED BY <2>1 DEF Marks
<1> HIDE DEF m
<1>3. f \in [1..Blocks -> Marks] /\ f[1] = m /\ Whole(f)
  BY <1>2 DEF Whole
<1> HIDE DEF f
<1>4. files \in Seq([1..Blocks -> Marks]) /\ Len(files) = 1 /\ files[1] = f
  <2> DEFINE S == [1..Blocks -> Marks]
  <2>1. f \in S
    BY <1>3
  <2> HIDE DEF S
  <2>2. files \in Seq(S) /\ Len(files) = 1 /\ files[1] = f
    BY <1>1, <2>1
  <2> QED BY <2>2 DEF S
<1>5. names \in [NameSet -> Nat] /\ names.exe = 1 /\ names.out = 0 /\ \A x \in NameSet : x # "exe" => names[x] = 0
  BY <1>1 DEF NameSet
<1>6. ReleaseTyped
  <2>1. process \in [Commands -> Cmds]
    BY <1>1, IdleIs
  <2>2. \A x \in NameSet : names[x] <= Len(files)
    BY <1>4, <1>5
  <2> QED BY <1>1, <1>4, <1>5, <2>1, <2>2 DEF ReleaseTyped
<1>7. OneBusy /\ Linked
  BY <1>1, <1>5, IdleIs DEF OneBusy, Linked, At
<1>8. Standing /\ Bundled
  BY <1>2, <1>3, <1>4, <1>5 DEF Standing, Bundled, RunsAt, TrustedTag
<1>9. ASSUME NEW c \in Commands PROVE Working(c)
  BY <1>1, IdleIs DEF Working
<1> QED BY <1>6, <1>7, <1>8, <1>9 DEF ReleaseInv

LEMMA ReleaseSteps == ASSUME ~Overlap PROVE ReleaseInv /\ [ReleaseNext]_releaseVars => ReleaseInv'
<1> SUFFICES ASSUME ReleaseInv, [ReleaseNext]_releaseVars PROVE ReleaseInv'
  OBVIOUS
<1>1. CASE ReleaseNext
  <2>1. PICK c \in Commands :
          \/ \E kind \in {"upgrade", "bundle"}, tag \in Releases, pinned, pull \in BOOLEAN : Start(c, kind, tag, pinned, pull)
          \/ OpenStaged(c) \/ FetchSums(c) \/ Gather(c) \/ OpenPartial(c) \/ WriteBlock(c)
          \/ Replace(c) \/ MoveIn(c) \/ Finish(c) \/ BreakOff(c) \/ Kill(c)
    BY <1>1 DEF ReleaseNext
  <2>2. CASE OpenStaged(c) \/ OpenPartial(c)
    BY <2>2, OpenedStep DEF OpenStaged, OpenPartial
  <2>3. CASE BreakOff(c)
    BY <2>3, FailStep DEF BreakOff, At
  <2> QED BY <2>1, <2>2, <2>3, StartStep, FetchSumsStep, GatherStep, WriteStep, ReplaceStep, MoveInStep, EndStep
<1>2. CASE UNCHANGED releaseVars
  <2>1. UNCHANGED <<site, machine, files, names, process>>
    BY <1>2 DEF releaseVars
  <2>f. Marks' = Marks /\ Cmds' = Cmds
    BY <2>1, Fixed
  <2>2. ReleaseTyped' /\ OneBusy' /\ Linked'
    BY <2>1, <2>f DEF ReleaseInv, ReleaseTyped, OneBusy, Linked, At
  <2>3. Standing' /\ Bundled'
    BY <2>1, Untouched
  <2>4. ASSUME NEW c \in Commands PROVE Working(c)'
    <3>1. Working(c) /\ process' = process /\ names' = names /\ files' = files /\ machine' = machine
      BY <2>1, <2>4 DEF ReleaseInv
    <3>2. process[c].phase \in {"pack", "write"} => Proven(process[c].kind, process[c].content)'
      BY <2>1, <2>4, <3>1, ProvenKept DEF Working
    <3>3. \A x \in {"staged", "old"} : RunsAt(names[x]) => RunsAt(names[x])'
      BY <2>1, <3>1, RunsKept DEF NameSet
    <3>4. Idle' = Idle
      BY DEF Idle, Hole
    <3> QED BY <3>1, <3>2, <3>3, <3>4 DEF Working
  <2> QED BY <2>2, <2>3, <2>4 DEF ReleaseInv
<1> QED BY <1>1, <1>2

\* Where one command runs at a time, what is run and what is loaded is whole
\* and verified, whatever breaks off and whoever is killed; two that overlap
\* may write to one staging file (replaceBinary, writeBundle).
THEOREM NothingUnverifiedRuns ==
  ASSUME ~Overlap
  PROVE  ReleaseSpec => []NothingUnverified
<1>1. ReleaseInv => NothingUnverified
  <2> SUFFICES ASSUME ReleaseInv PROVE NothingUnverified
    OBVIOUS
  <2>1. Standing /\ Bundled
    BY DEF ReleaseInv
  <2>2. AlwaysRunnable
    BY <2>1 DEF AlwaysRunnable, Standing, RunsAt, TrustedTag
  <2>3. BundleLoads
    BY <2>1 DEF BundleLoads, Bundled, Loads
  <2> QED BY <2>2, <2>3 DEF NothingUnverified
<1> QED BY <1>1, ReleaseStarts, ReleaseSteps, PTL DEF ReleaseSpec

=============================================================================
