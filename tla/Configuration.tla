--------------------------- MODULE Configuration ---------------------------
(* What a deploy.yaml says and what runs: the CLI fills in ${NAME} from    *)
(* its environment (cli/internal/commands/expand.go), the agent fills in   *)
(* the rest of the secret values from the stored secrets                   *)
(* (deploy/secrets.go), records the values and, next to them, what the     *)
(* document had in their place (deploy/config.go, store/references.go),    *)
(* and gives the document back (spec/document.go) to be deployed again.    *)
(*                                                                         *)
(* A text is a sequence of pieces.  A piece with no dollars is a word; one *)
(* with d dollars is d times "$" before {word}: 1 is a placeholder, more   *)
(* is an escaped one, as spec.Placeholder matches them.                    *)
EXTENDS Naturals, FiniteSets, SequencesExt

CONSTANTS Vars,           \* the variables of the env block
          SecretNames,          \* the names placeholders refer to
          Files,          \* the documents people write
          SecretTexts,    \* the values people store as secrets
          Environments,   \* what the CLI's environment and --env-file may know
          MaxSecrets,     \* api.MaxSecrets
          MaxVersions,    \* bound: deployments of the application
          MaxSets         \* bound: secrets stored and removed

Scopes == {"server", "app"}
Word(w) == [word |-> w, dollars |-> 0]
Nothing == <<>>

VARIABLES secrets,     \* the rows of the table: [scope, name] of a secret to its text
          versions,    \* the deployments of the application, the last is active
          held,        \* the document somebody asked for, and how it was spelled
          sets         \* how many secrets were stored or removed

configVars == <<secrets, versions, held, sets>>

Mask == <<Word("mask")>>
NoDocument == [document |-> [env |-> [v \in Vars |-> Nothing], password |-> Nothing, command |-> Nothing],
               plain |-> {}, escape |-> FALSE]

Active == versions[Len(versions)]
HasActive == versions # <<>>

-----------------------------------------------------------------------------
(* Texts.                                                                  *)

Pieces(text) == {text[i] : i \in DOMAIN text}
PlaceholderNames(text) == {p.word : p \in {q \in Pieces(text) : q.dollars = 1}}
HasPlaceholder(text) == PlaceholderNames(text) # {}

Unescaped(piece) == [piece EXCEPT !.dollars = @ - 1]

(* "$" before every match: how a literal ${NAME} is written.               *)
Escaped(text) == [i \in DOMAIN text |->
    IF text[i].dollars = 0 THEN text[i] ELSE [text[i] EXCEPT !.dollars = @ + 1]]

(* Every placeholder with a known value replaced, every escape taken off   *)
(* where unescape says so; all at once, a value filled in is not read.     *)
Replaced(text, known, unescape) == FlattenSeq([i \in DOMAIN text |->
    IF text[i].dollars = 1 /\ text[i].word \in DOMAIN known THEN known[text[i].word]
    ELSE IF text[i].dollars > 1 /\ unescape THEN <<Unescaped(text[i])>>
    ELSE <<text[i]>>])

(* ValidatePassword, its lengths abstracted to a word that is too short.   *)
ValidatePassword(text) == text # <<Word("short")>>

-----------------------------------------------------------------------------
(* The CLI: expand.                                                        *)

(* In secret values a name that is not known, and an escape, are the       *)
(* agent's; anywhere else a name must be known.                            *)
walk(text, environment, env) == Replaced(text, environment, ~env)

(* The variables whose value is sent as the file wrote it.                 *)
walkEnv(doc, environment) ==
    {v \in Vars : PlaceholderNames(doc.env[v]) \cap DOMAIN environment = {}}

expand(doc, environment) ==
    [env      |-> [v \in Vars |-> walk(doc.env[v], environment, TRUE)],
     password |-> walk(doc.password, environment, TRUE),
     command  |-> walk(doc.command, environment, FALSE)]

ExpandRefuses(doc, environment) == ~(PlaceholderNames(doc.command) \subseteq DOMAIN environment)

(* spec.Parse on both sides: a literal password is judged as it is.        *)
ParseRefuses(doc) == ~HasPlaceholder(doc.password) /\ ~ValidatePassword(doc.password)

-----------------------------------------------------------------------------
(* The agent: secrets and references.                                      *)

(* The application's own secret first, the server's otherwise.             *)
Stored(name) == {s \in DOMAIN secrets : s.name = name}
OwnerOf(name) == IF [scope |-> "app", name |-> name] \in DOMAIN secrets THEN "app" ELSE "server"
GetSecrets(names) == [n \in {m \in names : Stored(m) # {}} |-> secrets[[scope |-> OwnerOf(n), name |-> n]]]

SecretFields(doc) == {doc.env[v] : v \in Vars} \union {doc.password}
NamesIn(doc) == UNION {PlaceholderNames(t) : t \in SecretFields(doc)}

fill(text, known) == Replaced(text, known, TRUE)

MaskedFields(doc) == {v \in Vars : doc.env[v] = Mask} \union (IF doc.password = Mask THEN {"password"} ELSE {})

(* What resolveSecrets answers: an error, or the filled-in document.       *)
Missing(doc) == NamesIn(doc) \ DOMAIN GetSecrets(NamesIn(doc))
Unusable(doc) == /\ HasPlaceholder(doc.password)
                 /\ ~ValidatePassword(fill(doc.password, GetSecrets(NamesIn(doc))))
ResolveRefuses(doc) == MaskedFields(doc) # {} \/ Missing(doc) # {} \/ Unusable(doc)
resolveSecrets(doc) ==
    LET known == GetSecrets(NamesIn(doc)) IN
    [env      |-> [v \in Vars |-> fill(doc.env[v], known)],
     password |-> fill(doc.password, known),
     command  |-> doc.command]

NoReferences == [env |-> [v \in Vars |-> Nothing], password |-> Nothing, plain |-> {}, scoped |-> {}]
IfReference(text) == IF HasPlaceholder(text) THEN text ELSE Nothing

ReferencesOf(doc) == [NoReferences EXCEPT !.env = [v \in Vars |-> IfReference(doc.env[v])],
                                          !.password = IfReference(doc.password)]

(* Every variable and account here exists in every document: what For      *)
(* drops is a text that refers to nothing, a statement about a reference,  *)
(* and a scope nothing refers to.                                          *)
For(refs) ==
    [env |-> [v \in Vars |-> IfReference(refs.env[v])], password |-> IfReference(refs.password),
     plain |-> {v \in refs.plain : ~HasPlaceholder(refs.env[v])},
     scoped |-> refs.scoped \cap UNION {PlaceholderNames(t) : t \in SecretFields(refs)}]

(* The row of deployment_references, written with the record: its texts    *)
(* are the document's, not the values'.                                    *)
CreateDeploymentWith(spec, refs, with) == [spec |-> spec, refs |-> For(refs), with |-> with]

-----------------------------------------------------------------------------
(* The document, given back.                                               *)

secret(reference) == IF HasPlaceholder(reference) THEN reference ELSE Mask

(* Mutant: a literal ${NAME} of a plain value is written without escape.   *)
plainValueAsIs(text) == text

plainValue(text) == Escaped(text)

literal(text, escape) == IF escape THEN Escaped(text) ELSE text

DocumentEnv(env, refs) == [v \in Vars |-> IF v \in refs.plain THEN plainValue(env[v]) ELSE secret(refs.env[v])]

(* The command stands for every value that is not a secret, the password   *)
(* for the credentials of logging.options too.                             *)
Document(version, escape) ==
    LET refs == For(version.refs) IN
    [env |-> DocumentEnv(version.spec.env, refs),
     password |-> secret(refs.password),
     command |-> literal(version.spec.command, escape)]

PlainFields(version) == For(version.refs).plain

(* An export carries the references; an import holds them to what the      *)
(* configuration could have said.                                          *)
ExportedReferences(version) == For(version.refs)
ImportRefuses(carried) ==
    \/ {v \in Vars : carried.env[v] # Nothing} # {v \in Vars : For(carried).env[v] # Nothing}
    \/ (carried.password # Nothing) # (For(carried).password # Nothing)
    \/ carried.plain # For(carried).plain

-----------------------------------------------------------------------------
(* What people do.                                                         *)

ConfigInit == secrets = <<>> /\ versions = <<>> /\ held = NoDocument /\ sets = 0

Row(scope, name) == [scope |-> scope, name |-> name]

SetSecret(scope, name, text) ==
    /\ sets < MaxSets
    /\ Cardinality(DOMAIN secrets \ {Row(scope, name)}) < MaxSecrets
    /\ secrets' = [r \in DOMAIN secrets \union {Row(scope, name)} |->
                       IF r = Row(scope, name) THEN text ELSE secrets[r]]
    /\ sets' = sets + 1
    /\ UNCHANGED <<versions, held>>

DeleteSecret(scope, name) ==
    /\ sets < MaxSets
    /\ Row(scope, name) \in DOMAIN secrets
    /\ secrets' = [r \in DOMAIN secrets \ {Row(scope, name)} |-> secrets[r]]
    /\ sets' = sets + 1
    /\ UNCHANGED <<versions, held>>

(* Engine.DeployWith: nothing is recorded when the document is refused.    *)
DeployWith(doc, plain) ==
    /\ Len(versions) < MaxVersions
    /\ ~ParseRefuses(doc) /\ ~ResolveRefuses(doc)
    /\ LET known == GetSecrets(NamesIn(doc))
           refs == [ReferencesOf(doc) EXCEPT !.plain = plain,
                                             !.scoped = {n \in NamesIn(doc) : OwnerOf(n) = "app"}] IN
       versions' = Append(versions, CreateDeploymentWith(resolveSecrets(doc), For(refs), known))
    /\ UNCHANGED <<secrets, held, sets>>

(* shipwick deploy, of a file and in an environment.                       *)
DeployFile(doc, environment) ==
    /\ ~ExpandRefuses(doc, environment)
    /\ DeployWith(expand(doc, environment), walkEnv(doc, environment))

(* GET config: as a file for the CLI, or as the dashboard asks for it.     *)
Config(escape) ==
    /\ HasActive
    /\ held' = [document |-> Document(Active, escape), plain |-> PlainFields(Active), escape |-> escape]
    /\ UNCHANGED <<secrets, versions, sets>>

(* The masks of a document replaced by what its owner types.               *)
Typed(doc) == LET give(text) == IF text = Mask THEN <<Word("typed")>> ELSE text IN
    [doc EXCEPT !.env = [v \in Vars |-> give(doc.env[v])], !.password = give(doc.password)]

(* The document that was given back, deployed by whoever asked for it: the *)
(* dashboard vouches only for what it was told is plain.                   *)
DeployHeld(environment) ==
    /\ held # NoDocument
    /\ \/ held.escape /\ DeployFile(Typed(held.document), environment)
       \/ ~held.escape /\ DeployWith(Typed(held.document), held.plain)

(* RedeployConfig and RollbackConfig: an earlier spec, and the references it came with.*)
DeployEarlier(version) == CreateDeploymentWith(version.spec, version.refs, version.with)

RedeployConfig ==
    /\ HasActive /\ Len(versions) < MaxVersions
    /\ versions' = Append(versions, DeployEarlier(Active))
    /\ UNCHANGED <<secrets, held, sets>>

RollbackConfig(i) ==
    /\ Len(versions) < MaxVersions /\ i < Len(versions)
    /\ versions' = Append(versions, DeployEarlier(versions[i]))
    /\ UNCHANGED <<secrets, held, sets>>

ConfigNext ==
    \/ \E scope \in Scopes, name \in SecretNames :
          DeleteSecret(scope, name) \/ \E text \in SecretTexts : SetSecret(scope, name, text)
    \/ \E doc \in Files, environment \in Environments : DeployFile(doc, environment)
    \/ \E environment \in Environments : DeployHeld(environment)
    \/ \E escape \in BOOLEAN : Config(escape)
    \/ RedeployConfig
    \/ \E i \in DOMAIN versions : RollbackConfig(i)

-----------------------------------------------------------------------------
(* Properties.                                                             *)

(* A document without masks, deployed again the way it was asked for,      *)
(* gives the configuration it describes and keeps saying so: the same      *)
(* references, the same plain values, and, where the secrets it refers to  *)
(* have not changed since, the same values (docs/api.md, GET config).  The *)
(* references an export carries are never refused by the import.           *)
SameAgain == HasActive =>
    LET v == Active
        none == [n \in {} |-> Nothing]
        Again(escape) ==
            LET doc == Document(v, escape)
                sent == IF escape THEN expand(doc, none) ELSE doc
                plain == IF escape THEN walkEnv(doc, none) ELSE PlainFields(v) IN
            MaskedFields(doc) = {} /\ ~(escape /\ ExpandRefuses(doc, none)) /\ ~ResolveRefuses(sent) =>
                /\ sent.command = v.spec.command
                /\ For([ReferencesOf(sent) EXCEPT !.plain = plain]).env = v.refs.env
                /\ For([ReferencesOf(sent) EXCEPT !.plain = plain]).plain = v.refs.plain
                /\ GetSecrets(NamesIn(sent)) = v.with => resolveSecrets(sent) = v.spec IN
    Again(TRUE) /\ Again(FALSE) /\ ~ImportRefuses(ExportedReferences(v))

(* What the agent filled in is in no document, and what the CLI filled in  *)
(* is in one only as the text around a reference, wherever the document    *)
(* has been deployed from since (docs/architecture.md, "The document,      *)
(* given back").                                                           *)
ValuesStayHere == HasActive => \A escape \in BOOLEAN :
    LET doc == Document(Active, escape) IN
    \A text \in SecretFields(doc) :
        /\ \A s \in SecretTexts : Pieces(s) \cap Pieces(text) = {}
        /\ ~HasPlaceholder(text) => \A e \in Environments, n \in SecretNames :
               n \in DOMAIN e => Pieces(e[n]) \cap Pieces(text) = {}

(* The document that is given back is the one that was deployed, without   *)
(* the values that were filled in (Document, For).                         *)
DocumentKept == SameAgain /\ ValuesStayHere
=============================================================================
