------------------------------- MODULE Setup --------------------------------
(***************************************************************************)
(* The setup wizard of internal/setup, the two files it writes (config.yaml  *)
(* and .env), and how a later process reads them (cmd/botreaper/main.go).   *)
(* An action is one answer and all the wizard does before its next prompt.  *)
(*                                                                          *)
(* Of config.yaml the keys provider, model, terminal_backend and             *)
(* terminal_ssh_host are kept, of .env the providers' API keys and the      *)
(* platforms' tokens; prompts for anything else, a base URL say, change      *)
(* nothing that is kept, and only their saves appear.  A model, a host, a    *)
(* key or a token is there or not.  An answer that is asked again because it *)
(* does not parse changes nothing.                                          *)
(***************************************************************************)
EXTENDS Naturals, Sequences

CONSTANTS
  Providers,   \* registry providers that the picker offers
  Backends,    \* terminal backends that the picker offers
  Homes,       \* config.yaml and .env as earlier processes left them, and
               \* what those had confirmed
  Environs,    \* secrets that the environment of a process may hold
  NoBackup,
  MaxRuns,     \* processes that run the wizard
  MaxHitches   \* file operations that fail

Keyless == {"ollama", "opencode-free"}

Platforms == {"telegram", "discord"}

Secrets == (Providers \ Keyless) \cup Platforms

Unset == "unset"
Configs == [provider : Providers \cup {"custom", Unset},
            model : {"model", Unset},
            backend : Backends \cup {Unset},
            host : BOOLEAN]

NoConfig == [provider |-> Unset, model |-> Unset, backend |-> Unset, host |-> FALSE]

ASSUME SetupAssumption ==
  /\ "nous" \in Providers /\ "local" \in Backends
  /\ Unset \notin Providers \cup Backends
  /\ Homes \subseteq [config : Configs, env : SUBSET Secrets,
                      said : Providers \cup {"custom", Unset}, saidBackend : Backends \cup {Unset}]
  /\ Environs \subseteq SUBSET Secrets
  /\ NoBackup \notin Configs
  /\ MaxRuns \in Nat /\ MaxHitches \in Nat

VARIABLES
  config,       \* config.yaml
  env,          \* the secrets in .env
  raw,          \* State.raw: config.yaml as loaded, with what is staged
  blind,        \* it could not be loaded, and began empty
  backup,       \* what Backup copied
  environ,      \* the secrets in the environment of the process
  prompt,       \* the prompt that waits for an answer, or where the wizard is
  plan,         \* what the wizard does after the section of the prompt
  picked,       \* the provider, backend or platform the section is about
  eof,          \* standard input has ended: every answer is the default
  runs,
  hitches,
  old,          \* history: config.yaml when the process began
  said,         \* history: the provider that was confirmed last
  asked,        \* history: those that were staged since, and not confirmed
  saidBackend,  \* history: where commands run by the backend confirmed last
  askedBackend, \* history: and by those that were staged since
  unread,       \* history: keys of config.yaml written over without being read
  excused       \* history: secrets that .env need not hold: the user cleared
                \* them, they were kept from the environment, or .env was
                \* written over without being read

files == <<config, env>>
staged == <<raw, blind>>
told == <<said, asked, saidBackend, askedBackend, unread, excused>>
process == <<backup, environ, eof, runs, old>>
setupVars == <<files, staged, prompt, plan, picked, process, hitches, told>>

Kept == {"provider", "model", "backend"}

(* "gone": no process runs; "next": no section does; "over": Run returns. *)
SetupTypeOK ==
  /\ config \in Configs /\ raw \in Configs /\ old \in Configs
  /\ env \subseteq Secrets /\ excused \subseteq Secrets /\ environ \in Environs
  /\ backup \in Configs \cup {NoBackup}
  /\ eof \in BOOLEAN /\ blind \in BOOLEAN
  /\ said \in Providers \cup {"custom", Unset} /\ asked \subseteq Providers \cup {"custom"}
  /\ saidBackend \in Backends \cup {Unset} /\ askedBackend \subseteq Backends
  /\ unread \subseteq Kept
  /\ runs \in 0 .. MaxRuns /\ hitches \in 0 .. MaxHitches

SetupInit ==
  /\ \E h \in Homes : /\ config = h.config /\ env = h.env
                      /\ said = h.said /\ saidBackend = h.saidBackend
  /\ asked = {} /\ askedBackend = {} /\ unread = {} /\ excused = {}
  /\ raw = config /\ blind = FALSE /\ old = config /\ backup = NoBackup
  /\ environ \in Environs
  /\ prompt = "gone" /\ plan = << >> /\ picked = Unset /\ eof = FALSE
  /\ runs = 0 /\ hitches = 0

-----------------------------------------------------------------------------
(* How a process reads the files: config.Load and main's run. *)

(* The key that the registry names first for a provider, and the one that   *)
(* main reads for it.  Keys are named after the provider they belong to.    *)
FirstEnv(p) == IF p \in Keyless THEN Unset ELSE p

EnvFor(p) ==
  CASE p \in {"openai", "openrouter", "anthropic", "opencode-zen", "opencode-go"} -> p
    [] p = "opencode-free" -> Unset
    [] OTHER -> "nous"

(* nous is the default, and stands in for a name the registry does not have. *)
Profile(c) == IF c.provider \in Providers THEN c.provider ELSE "nous"

(* Only the keyless providers have a client without a key; e is what .env and *)
(* the environment hold.                                                      *)
Live(c, e) == Profile(c) \in Keyless \/ EnvFor(Profile(c)) \in e

(* The clouds are not wired, and ssh needs a host. *)
RunsOn(c) ==
  IF c.backend \in {"docker", "singularity"} \/ (c.backend = "ssh" /\ c.host)
  THEN c.backend ELSE "local"

-----------------------------------------------------------------------------
(* Files are replaced by a rename: a file is the old one or the new one. *)
Hitch == hitches < MaxHitches /\ hitches' = hitches + 1

(* Save writes all of raw, also what an earlier section staged and failed to *)
(* save; a key that was not read goes, unless it has been staged since.      *)
Saved(next) ==
  /\ config' = raw'
  /\ unread' = {k \in IF blind THEN Kept ELSE unread : raw'[k] = Unset}
  /\ prompt' = next /\ UNCHANGED hitches

NotSaved(next) ==
  /\ UNCHANGED <<config, unread>>
  /\ prompt' = next /\ Hitch

Save(next, fallback) == Saved(next) \/ NotSaved(fallback)

(* An error reading .env is ignored: the file is then the new entry alone. *)
SetSecret(k, next) ==
  \/ /\ env' = env \cup {k} /\ excused' = excused \ {k}
     /\ prompt' = next /\ UNCHANGED hitches
  \/ /\ env' = {k} /\ excused' = (excused \cup env) \ {k}
     /\ prompt' = next /\ Hitch
  \/ /\ UNCHANGED <<env, excused>>
     /\ prompt' = "next" /\ Hitch

(* LoadSecret looks into .env and then into the environment; when .env cannot *)
(* be read, only there.                                                       *)
Finds(k) == k \in env \cup environ /\ UNCHANGED hitches

Lacks(k) == k \notin environ /\ IF k \in env THEN Hitch ELSE UNCHANGED hitches

(* A prompt that is answered with its default, or, while there is input, not. *)
Default(p) == prompt = p

Answer(p) == prompt = p /\ ~eof

Goto(p) == prompt' = p /\ UNCHANGED hitches

-----------------------------------------------------------------------------
(* Run: load, back up, reset, and choose what to do.  An error reading        *)
(* config.yaml is ignored: raw is empty then, and Save will write that.       *)
Begin ==
  /\ prompt = "gone" /\ runs < MaxRuns
  /\ runs' = runs + 1
  /\ environ' \in Environs
  /\ prompt' \in {"reset", "start"}
  /\ \/ raw' = config /\ blind' = FALSE /\ backup' = config /\ UNCHANGED hitches
     \/ raw' = config /\ blind' = FALSE /\ backup' = NoBackup /\ Hitch
     \/ raw' = NoConfig /\ blind' = TRUE /\ backup' \in {config, NoBackup} /\ Hitch
  /\ UNCHANGED <<files, plan, picked, eof, old, told>>

Defaults ==
  [provider |-> "nous", model |-> "model", backend |-> Unset, host |-> FALSE]

(* The state is loaded again after a reset, the backup is not made again. *)
KeptBackup_Again == backup' = config'
KeptBackup == UNCHANGED backup

Reset ==
  /\ prompt = "reset"
  /\ \/ /\ config' = Defaults
        /\ said' = Unset /\ saidBackend' = Unset
        /\ asked' = {} /\ askedBackend' = {} /\ unread' = {}
        /\ prompt' = "start"
        /\ \/ raw' = Defaults /\ blind' = FALSE /\ UNCHANGED hitches
           \/ raw' = NoConfig /\ blind' = TRUE /\ Hitch
     \/ /\ UNCHANGED <<config, staged, said, saidBackend, asked, askedBackend, unread>>
        /\ prompt' = "over" /\ Hitch
  /\ KeptBackup
  /\ UNCHANGED <<env, plan, picked, environ, eof, runs, old, excused>>

Do(section) ==
  IF section = "gateway" THEN <<<<"configure", "telegram">>, <<"configure", "discord">>>>
                         ELSE <<<<section, Unset>>>>

Section(s) == Do(s) \o Do("save")

Full == Do("model") \o Do("terminal") \o Do("gateway") \o Do("tools") \o Do("agent") \o Do("save")

Guided == Do("model") \o Do("local") \o Do("which") \o Do("save")

BlankSlate == Do("model") \o Do("terminal") \o Do("save")

(* A section and --quick come from the command line, the rest from the state  *)
(* and, on a fresh install, from a first answer.  A run without a terminal    *)
(* and a quick one with nothing to fill in do nothing.                        *)
Dispatch ==
  /\ prompt = "start"
  /\ \/ plan' \in {Section(s) : s \in {"model", "terminal", "gateway", "tools", "agent"}}
     \/ plan' = << >>
     \/ raw.provider # Unset /\ plan' = Full
     \/ raw.provider # Unset /\ raw.model = Unset /\ plan' = Section("model")
     \/ raw.provider = Unset /\ plan' = Guided
     \/ raw.provider = Unset /\ ~eof /\ plan' \in {Full, BlankSlate}
  /\ Goto("next")
  /\ UNCHANGED <<files, staged, picked, process, told>>

Proceed ==
  /\ prompt = "next"
  /\ IF plan = << >>
     THEN prompt' = "over" /\ UNCHANGED <<plan, picked>>
     ELSE prompt' = Head(plan)[1] /\ picked' = Head(plan)[2] /\ plan' = Tail(plan)
  /\ UNCHANGED <<files, staged, process, hitches, told>>

(* A save that fails at the end of the plan, or in a guided setup, ends Run. *)
(* The guided setup stages the local backend, whatever was there, and asks   *)
(* nobody.                                                                   *)
SaveAll ==
  /\ \/ prompt = "save" /\ UNCHANGED <<raw, askedBackend>>
     \/ /\ prompt = "local"
        /\ raw' = [raw EXCEPT !.backend = "local"]
        /\ askedBackend' = askedBackend \cup {RunsOn(raw')}
  /\ Save("next", "over")
  /\ UNCHANGED <<env, blind, plan, picked, process, said, asked, saidBackend, excused>>

-----------------------------------------------------------------------------
(* Section 1: provider, key, base URL, model.  Nothing is staged before the   *)
(* URL is asked for.                                                          *)
DefaultProvider == IF raw.provider \in Providers THEN raw.provider ELSE "nous"

AfterProvider(p) ==
  \/ p = "custom" /\ Goto("custom url")
  \/ p # "custom" /\ FirstEnv(p) = Unset /\ Goto("url")
  \/ p # "custom" /\ FirstEnv(p) # Unset /\ Finds(FirstEnv(p)) /\ prompt' = "keep key"
  \/ p # "custom" /\ FirstEnv(p) # Unset /\ Lacks(FirstEnv(p)) /\ prompt' = "new key"

StagedByPick_AtOnce(p) == [raw EXCEPT !.provider = p]
StagedByPick(p) == raw

PickProvider ==
  /\ \E p \in Providers \cup {"custom"} :
       /\ Answer("model") \/ (Default("model") /\ p = DefaultProvider)
       /\ picked' = p
       /\ raw' = StagedByPick(p)
       /\ AfterProvider(p)
  /\ UNCHANGED <<files, blind, plan, process, told>>

LeaveUnchanged ==
  /\ Answer("model") \/ Default("new key") \/ Default("replace key")
  /\ Goto("next")
  /\ UNCHANGED <<files, staged, plan, picked, process, told>>

(* A new key, or one that replaces the old one. *)
GiveKey ==
  /\ Answer("new key") \/ Answer("replace key")
  /\ SetSecret(FirstEnv(picked), "url")
  /\ UNCHANGED <<config, staged, plan, picked, process, said, asked, saidBackend, askedBackend, unread>>

(* The key that is kept may be in the environment, and in no file. *)
KeepKey ==
  /\ Default("keep key")
  /\ Goto("url")
  /\ excused' = IF FirstEnv(picked) \in env THEN excused ELSE excused \cup {FirstEnv(picked)}
  /\ UNCHANGED <<files, staged, plan, picked, process, said, asked, saidBackend, askedBackend, unread>>

ReplaceKey ==
  /\ Answer("keep key")
  /\ Goto("replace key")
  /\ UNCHANGED <<files, staged, plan, picked, process, told>>

(* The error of ClearSecret is ignored. *)
ClearKey ==
  /\ Answer("keep key")
  /\ prompt' = "next"
  /\ \/ /\ env' = env \ {FirstEnv(picked)}
        /\ excused' = excused \cup {FirstEnv(picked)}
        /\ UNCHANGED hitches
     \/ UNCHANGED <<env, excused>> /\ Hitch
  /\ UNCHANGED <<config, staged, plan, picked, process, said, asked, saidBackend, askedBackend, unread>>

AskURL ==
  /\ Default("url")
  /\ Goto("name model")
  /\ UNCHANGED <<files, staged, plan, picked, process, told>>

(* The confirmation comes after the save.  What could not be saved stays      *)
(* staged, and so does a custom endpoint, which was saved before.             *)
NameModel ==
  /\ \/ Default("name model") /\ raw.model # Unset
     \/ Answer("name model")
  /\ raw' = [raw EXCEPT !.provider = picked, !.model = "model"]
  /\ \/ Saved("next") /\ said' = picked /\ asked' = {}
     \/ NotSaved("next") /\ said' = said /\ asked' = asked \cup {picked}
  /\ UNCHANGED <<env, blind, plan, picked, process, saidBackend, askedBackend, excused>>

NoModel ==
  /\ Default("name model") /\ raw.model = Unset
  /\ Goto("next")
  /\ UNCHANGED <<files, staged, plan, picked, process, told>>

(* By default the URL that config.yaml has, if it has one; without a valid   *)
(* URL the section ends.                                                     *)
CustomURL ==
  /\ Default("custom url")
  /\ Goto("custom key") \/ Goto("next")
  /\ UNCHANGED <<files, staged, plan, picked, process, told>>

CustomKey ==
  /\ \/ /\ Default("custom key")
        /\ raw' = [raw EXCEPT !.provider = picked]
        /\ Save("name model", "next")
        /\ asked' = asked \cup {picked}
     \/ /\ Answer("custom key")
        /\ prompt' = "next" /\ Hitch
        /\ UNCHANGED <<config, raw, asked, unread>>
  /\ UNCHANGED <<env, blind, plan, picked, process, said, saidBackend, askedBackend, excused>>

-----------------------------------------------------------------------------
(* Section 2: where commands run. *)
DefaultBackend == IF raw.backend \in Backends THEN raw.backend ELSE "local"

PickBackend ==
  /\ \E b \in Backends :
       /\ Answer("terminal") \/ (Default("terminal") /\ b = DefaultBackend)
       /\ picked' = b
  /\ Goto("backend")
  /\ UNCHANGED <<files, staged, plan, process, told>>

KeepBackend ==
  /\ Answer("terminal")
  /\ Goto("next")
  /\ UNCHANGED <<files, staged, plan, picked, process, told>>

(* The questions about the backend; without a host, or without a token for a *)
(* cloud, it is set all the same, and commands will run locally.             *)
SetBackend ==
  /\ \/ Default("backend")
        /\ raw' = [raw EXCEPT !.backend = picked]
     \/ Answer("backend") /\ picked = "ssh"
        /\ raw' = [raw EXCEPT !.backend = picked, !.host = TRUE]
  /\ \/ Saved("next") /\ saidBackend' = RunsOn(raw') /\ askedBackend' = {}
     \/ NotSaved("next") /\ saidBackend' = saidBackend
        /\ askedBackend' = askedBackend \cup {RunsOn(raw')}
  /\ UNCHANGED <<env, blind, plan, picked, process, said, asked, excused>>

-----------------------------------------------------------------------------
(* Section 3: the platforms; a guided setup asks which first. *)
Platform(p) == <<<<"platform", p>>>>

Which ==
  /\ \E ps \in {<< >>, Platform("telegram"), Platform("discord"),
                Platform("telegram") \o Platform("discord")} :
       /\ Answer("which") \/ (Default("which") /\ ps = Platform("telegram"))
       /\ plan' = ps \o plan
  /\ Goto("next")
  /\ UNCHANGED <<files, staged, picked, process, told>>

Configure ==
  /\ \/ Answer("configure") /\ Goto("platform")
     \/ Answer("configure") /\ Goto("next")
     \/ Default("configure") /\ Lacks(picked) /\ prompt' = "platform"
     \/ Default("configure") /\ Finds(picked) /\ prompt' = "next"
  /\ UNCHANGED <<files, staged, plan, picked, process, told>>

Reconfigure ==
  /\ \/ Answer("platform") /\ Goto("token")
     \/ Default("platform") /\ Lacks(picked) /\ prompt' = "token"
     \/ Default("platform") /\ Finds(picked) /\ prompt' = "users"
  /\ UNCHANGED <<files, staged, plan, picked, process, told>>

(* A token of the wrong form is asked for again, none is the end of it. *)
AfterNoToken_Again == "token"
AfterNoToken == "next"

NoToken ==
  /\ Default("token")
  /\ Goto(AfterNoToken)
  /\ UNCHANGED <<files, staged, plan, picked, process, told>>

GiveToken ==
  /\ Answer("token")
  /\ SetSecret(picked, "users")
  /\ UNCHANGED <<config, staged, plan, picked, process, said, asked, saidBackend, askedBackend, unread>>

(* The allowlist and the home channel. *)
Users ==
  /\ Default("users")
  /\ Goto("next")
  /\ UNCHANGED <<files, staged, plan, picked, process, told>>

(* These two, the key of a custom endpoint, that of the search and the tokens *)
(* of a cloud go to .env under names that are not kept here; but an error     *)
(* reading .env is ignored for them, too.                                     *)
OtherSecret ==
  /\ \/ \E p \in {"users", "custom key", "tools"} : Answer(p)
     \/ Answer("backend") /\ picked \in {"modal", "daytona"}
  /\ env' = {} /\ excused' = excused \cup env /\ Hitch
  /\ UNCHANGED <<config, staged, prompt, plan, picked, process, said, asked, saidBackend, askedBackend, unread>>

-----------------------------------------------------------------------------
(* Sections 4 and 5: whatever is answered about the search, it is saved,     *)
(* unless its key could not be; a number of iterations that is no number, or *)
(* none, is not.                                                             *)
Tools ==
  /\ prompt = "tools"
  /\ UNCHANGED raw
  /\ \/ Save("next", "next")
     \/ Answer("tools") /\ prompt' = "next" /\ Hitch /\ UNCHANGED <<config, unread>>
  /\ UNCHANGED <<env, blind, plan, picked, process, said, asked, saidBackend, askedBackend, excused>>

Agent ==
  /\ prompt = "agent"
  /\ UNCHANGED raw
  /\ \/ Answer("agent") /\ Save("next", "next")
     \/ Goto("next") /\ UNCHANGED <<config, unread>>
  /\ UNCHANGED <<env, blind, plan, picked, process, said, asked, saidBackend, askedBackend, excused>>

-----------------------------------------------------------------------------
Wizard ==
  \/ Reset \/ Dispatch \/ Proceed \/ SaveAll
  \/ PickProvider \/ LeaveUnchanged \/ GiveKey \/ KeepKey \/ ReplaceKey \/ ClearKey
  \/ AskURL \/ NameModel \/ NoModel \/ CustomURL \/ CustomKey
  \/ PickBackend \/ KeepBackend \/ SetBackend
  \/ Which \/ Configure \/ Reconfigure \/ NoToken \/ GiveToken \/ Users \/ OtherSecret
  \/ Tools \/ Agent

Running == prompt \notin {"gone", "over"}

EndOfInput ==
  /\ Running /\ ~eof
  /\ eof' = TRUE
  /\ UNCHANGED <<files, staged, prompt, plan, picked, backup, environ, runs, old, hitches, told>>

(* The files are what is left of a process, and nothing of what it staged. *)
Leave ==
  /\ prompt' = "gone"
  /\ raw' = config /\ blind' = FALSE /\ old' = config /\ backup' = NoBackup
  /\ plan' = << >> /\ picked' = Unset /\ eof' = FALSE
  /\ asked' = asked \cap {config.provider}
  /\ askedBackend' = askedBackend \cap {RunsOn(config)}
  /\ UNCHANGED <<files, environ, runs, hitches, said, saidBackend, unread, excused>>

(* The process is killed.  ctrl+c does not do it: main has asked for that    *)
(* signal, and the wizard does not look at the context.                      *)
Kill ==
  /\ Running
  /\ Leave

SetupNext == Wizard \/ EndOfInput \/ Kill

-----------------------------------------------------------------------------
(* main reads another key than the wizard stores for gemini, and takes a     *)
(* custom endpoint for nous.                                                 *)
Misread == {p \in Providers \ Keyless : EnvFor(p) # FirstEnv(p)} \cup {"custom"}

ProviderHolds(c, keys, providers, missing) ==
  /\ c.provider \in providers \/ (c.provider = Unset /\ "provider" \in missing)
  /\ c.model # Unset \/ "model" \in missing
  /\ c.provider \in Providers \ Misread => Live(c, keys)

BackendHolds(c, backends, missing) ==
  RunsOn(c) \in backends \/ (c.backend = Unset /\ "backend" \in missing)

(* What an earlier process had confirmed held when it ended. *)
ASSUME HomesHold ==
  \A h \in Homes :
    /\ h.said # Unset => ProviderHolds(h.config, h.env, {h.said}, {})
    /\ h.saidBackend # Unset => BackendHolds(h.config, {h.saidBackend}, {})

(* What the wizard has confirmed is what the next process runs with, wherever *)
(* a write fails, the wizard is killed, or a section is cancelled, and        *)
(* whatever sections follow in this run or another: the provider, with a      *)
(* model and its key, and the place where commands run.  In its stead the     *)
(* process may run with one that was staged since, and was not confirmed: its *)
(* save failed, and a later section's did not; it is a custom endpoint, saved *)
(* before its model is named; or it is the local backend of a guided setup.   *)
(* A reset ends it all.  Not promised are the key of a provider in Misread, a *)
(* key that the user cleared or that was in the environment and not in .env,  *)
(* and whatever was written over because an error reading it was ignored.     *)
ConfirmedIsLoaded ==
  /\ said # Unset =>
       ProviderHolds(config, env \cup excused, {said} \cup asked, unread)
  /\ saidBackend # Unset =>
       BackendHolds(config, {saidBackend} \cup askedBackend, unread)

(* Once the wizard has changed config.yaml, what was there before is in the  *)
(* backup, also when it has been reset; unless the copy failed, which nobody *)
(* is told.                                                                  *)
OldConfigIsKept ==
  prompt # "gone" /\ config # old => backup \in {old, NoBackup}

(* When the input ends, so does the wizard: no prompt is repeated for ever. *)
EndOfInputEndsRun == eof ~> ~Running
=============================================================================
