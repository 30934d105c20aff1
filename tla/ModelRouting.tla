---------------------------- MODULE ModelRouting ----------------------------
(***************************************************************************)
(* Which model is asked, where and with which key: the routing file        *)
(* config/llm_config.json and the runtime secrets beside it, which the     *)
(* supervisor writes and every agent reads at each call, and run_llm.      *)
(*                                                                         *)
(* Writing is load, change, replace.  For POST /config/llm the load is the *)
(* GET of the page some time before; for PUT /settings and for             *)
(* POST /config/llm/secrets it is in the handler, where another process    *)
(* that shares the directory may come between.                             *)
(***************************************************************************)
EXTENDS Integers, SequencesExt

CONSTANTS
    Providers,      \* SUPPORTED_PROVIDERS
    Pooled,         \* those whose clients are kept: gapgpt
    Agents,         \* KNOWN_AGENTS
    Models,
    Urls,           \* base URLs; "/" is one, and "" is what remains of it
    Keys,
    Prefix,         \* the first eight characters of each key
    Names,          \* names of keys: environment variables, runtime secrets
    Cleaned,        \* _validate_secret_name: each name in capitals; None if refused
    Fallbacks,      \* names that _api_key tries at last, for each provider
    DefaultConfig,  \* DEFAULT_LLM_CONFIG
    EnvKey,         \* key of each name in the environment, or NoKey
    EnvUrl,         \* base URL of each provider in the environment, or None
    Writers,        \* browsers and handlers that change the files
    Callers,        \* analyses, reports, connection tests of one process
    Edits,          \* changes that a writer may make
    Rings,          \* what a writer may save of keys, NoKey where left blank
    Retries,        \* values of LLM_MAX_RETRIES
    Missing,        \* no file yet
    NotLoaded,      \* nothing in a writer's hands
    MaxSaves,       \* bound: writes
    MaxCalls        \* bound: calls begun

None == "none"
NoKey == "no key"
NoRoute == [provider |-> None, model |-> None]
Route == [provider : Providers, model : Models]

Config == [providers : Seq(Providers),                   \* in order
           models    : [Providers -> Seq(Models)],
           url       : [Providers -> Urls \cup {None}],
           name      : [Providers -> Names \cup {None}],  \* api_key_env
           main      : [Providers -> Models \cup {None}], \* default_model
           agents    : [Agents -> Route \cup {NoRoute}]]

Edit == [kind : {"route"}, agent : Agents, provider : Providers, model : Models]
        \cup [kind : {"withdraw"}, left : Seq(Providers)]
        \cup [kind : {"enable"}, provider : Providers, models : Seq(Models)]
        \cup [kind : {"url"}, provider : Providers, url : Urls]
        \cup [kind : {"name"}, provider : Providers, name : Names]

ASSUME RoutingAssumption ==
    /\ Pooled \subseteq Providers
    /\ None \notin Providers /\ None \notin Models /\ None \notin Names
    /\ {"/", ""} \subseteq Urls
    /\ DOMAIN Prefix = Keys /\ NoKey \notin Keys
    /\ Cleaned \in [Names -> Names \cup {None}]
    /\ Fallbacks \in [Providers -> Seq(Names)]
    /\ EnvKey \in [Names -> Keys \cup {NoKey}]
    /\ EnvUrl \in [Providers -> Urls \cup {None}]
    /\ DefaultConfig \in Config /\ Missing \notin Config
    /\ Edits \subseteq Edit
    /\ Rings \subseteq [Names -> Keys \cup {NoKey}]
    /\ Retries \subseteq Int
    /\ MaxSaves \in Nat /\ MaxCalls \in Nat

VARIABLES
    file,      \* llm_config.json, or Missing
    secrets,   \* llm_runtime_secrets.json: the key of each name, NoKey if none
    view,      \* what each writer has loaded of the first
    ring,      \* and of the second
    kept,      \* _gapgpt_client_cache: [id, key, url], and as history whether
               \* the URL changed between id and client (torn)
    call,      \* each caller's analysis or call
    chosen,    \* history variable: the routes that operators were told last
    told,      \* history variable: the keys that operators were told are saved
    clash,     \* history variable: files written from an outdated view
    saves, calls

files == <<file, secrets>>
writing == <<view, ring, chosen, told, clash, saves>>
vars == <<file, secrets, view, ring, kept, call, chosen, told, clash, saves, calls>>

-----------------------------------------------------------------------------
(* validate_llm_config.                                                    *)

Enabled(c) == ToSet(c.providers)

\* rstrip('/')
Stripped(url) == IF url = "/" THEN "" ELSE url

\* LLMConfigError otherwise.
Valid(c) ==
    /\ c.providers # <<>>
    /\ \A p \in Enabled(c) : c.models[p] # <<>> /\ c.url[p] # ""
    /\ \A a \in Agents : c.agents[a] # NoRoute =>
         c.agents[a].provider \in Enabled(c)
         /\ c.agents[a].model \in ToSet(c.models[c.agents[a].provider])

\* DEFAULT_LLM_CONFIG is valid; PROVIDER_DEFAULTS has proper base URLs and names.
ASSUME DefaultsAssumption ==
    /\ Valid(DefaultConfig)
    /\ \A p \in Providers : /\ DefaultConfig.url[p] \in Urls \ {"/", "", None}
                            /\ DefaultConfig.name[p] \in Names

\* Of each model the first mention.
Noted(seen, m) == IF m \in ToSet(seen) THEN seen ELSE Append(seen, m)
Deduped(s) ==
    LET deduped[n \in 0 .. Len(s)] == IF n = 0 THEN <<>> ELSE Noted(deduped[n - 1], s[n])
    IN deduped[Len(s)]

\* An agent without a route gets its default one, as far as that is there.
DefaultRoute_Anyhow(c, a) == DefaultConfig.agents[a]
DefaultRoute(c, a) ==
    LET d == DefaultConfig.agents[a]
        p == IF d.provider \in Enabled(c) THEN d.provider ELSE Head(c.providers)
    IN [provider |-> p,
        model |-> IF d.model \in ToSet(c.models[p]) THEN d.model ELSE Head(c.models[p])]

Routes_Reset(c) == [a \in Agents |-> DefaultRoute(c, a)]
Routes(c) == [a \in Agents |-> IF c.agents[a] = NoRoute THEN DefaultRoute(c, a) ELSE c.agents[a]]

\* What is kept of a valid configuration: only what belongs to an enabled
\* provider, and a main model among its models.
Normal(c) ==
    LET main(p) == IF c.main[p] = None THEN DefaultConfig.main[p] ELSE c.main[p]
    IN [providers |-> c.providers,
        models |-> [p \in Providers |-> IF p \in Enabled(c) THEN Deduped(c.models[p]) ELSE <<>>],
        url |-> [p \in Providers |->
                   IF p \notin Enabled(c) THEN None
                   ELSE IF c.url[p] = None THEN DefaultConfig.url[p] ELSE Stripped(c.url[p])],
        name |-> [p \in Providers |->
                   IF p \notin Enabled(c) THEN None
                   ELSE IF c.name[p] = None THEN DefaultConfig.name[p] ELSE c.name[p]],
        main |-> [p \in Providers |->
                   IF p \notin Enabled(c) THEN None
                   ELSE IF main(p) \in ToSet(c.models[p]) THEN main(p) ELSE Head(c.models[p])],
        agents |-> Routes(c)]

\* load_llm_config
Loads(f) == f # Missing => Valid(f)
Loaded(f) == IF f = Missing THEN Normal(DefaultConfig) ELSE Normal(f)

\* What the page, or PUT /settings, makes of the configuration it has loaded.
Edited(c, e) ==
    CASE e.kind = "route" ->
           [c EXCEPT !.agents[e.agent] = [provider |-> e.provider, model |-> e.model]]
      [] e.kind = "withdraw" ->
           [c EXCEPT !.providers = e.left,
                     !.agents = [a \in Agents |-> IF @[a].provider \in ToSet(e.left)
                                                  THEN @[a] ELSE NoRoute]]
      [] e.kind = "enable" ->
           [c EXCEPT !.providers = IF e.provider \in ToSet(@) THEN @ ELSE Append(@, e.provider),
                     !.models[e.provider] = e.models]
      [] e.kind = "url" -> [c EXCEPT !.url[e.provider] = e.url]
      [] e.kind = "name" -> [c EXCEPT !.name[e.provider] = e.name]
-----------------------------------------------------------------------------
(* Keys and clients.                                                       *)

\* get_provider_settings(p), where it does not raise.
Readable(p) == Loads(file) /\ p \in Enabled(Loaded(file))

\* _api_key_env
NameOf(p) == IF Readable(p) THEN Loaded(file).name[p] ELSE DefaultConfig.name[p]

\* The key of the first of these names that has one in the environment.
FirstInEnv(names) ==
    LET set == {i \in DOMAIN names : EnvKey[names[i]] # NoKey}
    IN IF set = {} THEN NoKey
       ELSE EnvKey[names[CHOOSE i \in set : \A j \in set : i <= j]]

\* _api_key: the name's key in the environment, then in the runtime secrets, then
\* what the provider's own variables have.
KeyOf(p, name, ring_) ==
    IF EnvKey[name] # NoKey THEN EnvKey[name]
    ELSE IF Cleaned[name] # None /\ ring_[Cleaned[name]] # NoKey THEN ring_[Cleaned[name]]
    ELSE FirstInEnv(Fallbacks[p])

\* _base_url: the environment's, then what is configured, then the default.
FixedUrl(p) == EnvUrl[p] \notin {None, ""}
BaseUrl(p) ==
    IF FixedUrl(p) THEN Stripped(EnvUrl[p])
    ELSE IF Readable(p) /\ Loaded(file).url[p] # "" THEN Loaded(file).url[p]
    ELSE IF EnvUrl[p] = "" THEN "" ELSE DefaultConfig.url[p]

\* cache_key
ClientId_NoUrl(p, k, url) == <<p, Prefix[k], "">>
ClientId(p, k, url) == <<p, Prefix[k], url>>

-----------------------------------------------------------------------------
\* pc: idle; chosen (get_agent_llm_config has answered); named, keyed (run_llm has
\* the name, the key); trying; making (no client is kept); ended.
\* settings, withdrawn: history, see Reconfigured.
Setting == [url : Urls, name : Names]
Call == [pc : {"idle", "chosen", "named", "keyed", "trying", "making", "ended"},
         provider : Providers \cup {None}, name : Names \cup {None},
         key : Keys \cup {NoKey}, url : Urls \cup {None}, from : Urls \cup {None},
         n : Nat, max : Int,
         used : Keys \cup {NoKey}, at : Urls \cup {None}, torn : BOOLEAN,
         want : Keys \cup {NoKey}, settings : SUBSET Setting, withdrawn : BOOLEAN]
NoCall == [pc |-> "idle", provider |-> None, name |-> None, key |-> NoKey, url |-> None,
           from |-> None, n |-> 0, max |-> 0, used |-> NoKey, at |-> None, torn |-> FALSE,
           want |-> NoKey, settings |-> {}, withdrawn |-> FALSE]

Init ==
    /\ file = Missing
    /\ secrets = [n \in Names |-> NoKey]
    /\ view = [w \in Writers |-> NotLoaded]
    /\ ring = [w \in Writers |-> NotLoaded]
    /\ kept = {}
    /\ call = [c \in Callers |-> NoCall]
    /\ chosen = Normal(DefaultConfig).agents
    /\ told = secrets
    /\ clash = {}
    /\ saves = 0 /\ calls = 0

\* A view of what is no longer there.
Outdated(v, now) == v # NotLoaded /\ v # now

\* GET /config/llm, or the load in PUT /settings.
LoadConfig(w) ==
    /\ saves < MaxSaves
    /\ Loads(file)
    /\ view[w] = NotLoaded /\ ring[w] = NotLoaded
    /\ view' = [view EXCEPT ![w] = Loaded(file)]
    /\ UNCHANGED <<files, ring, kept, call, chosen, told, clash, saves, calls>>

\* What a call may be told of its provider from now on.
SettingIn(f, p) == [url |-> Loaded(f).url[p], name |-> Loaded(f).name[p]]
Reconfigured(f) ==
    [c \in Callers |->
       IF call[c].pc \in {"idle", "ended"} THEN call[c]
       ELSE IF Loads(f) /\ call[c].provider \in Enabled(Loaded(f))
            THEN [call[c] EXCEPT !.settings = @ \cup {SettingIn(f, call[c].provider)}]
            ELSE [call[c] EXCEPT !.withdrawn = TRUE]]

\* save_llm_config; an invalid configuration is refused with 422 and the writer
\* keeps what it has.
Concerns(c, e) == {a \in Agents : \/ e.kind = "route" /\ a = e.agent
                                  \/ e.kind = "withdraw" /\ c.agents[a].provider \notin ToSet(e.left)}
SaveConfig(w, e) ==
    /\ saves < MaxSaves
    /\ view[w] # NotLoaded
    /\ LET payload == Edited(view[w], e) IN
         /\ Valid(payload)
         /\ file' = Normal(payload)
         /\ chosen' = [a \in Agents |-> IF a \in Concerns(view[w], e)
                                        THEN file'.agents[a] ELSE chosen[a]]
    /\ clash' = IF Loads(file) /\ view[w] = Loaded(file) THEN clash ELSE clash \cup {"config"}
    /\ call' = Reconfigured(file')
    /\ view' = [view EXCEPT ![w] = NotLoaded]
    /\ saves' = saves + 1
    /\ UNCHANGED <<secrets, ring, kept, told, calls>>

\* save_runtime_secrets: blank values are skipped, names are cleaned (an improper
\* one is refused with 422).
LoadSecrets(w) ==
    /\ saves < MaxSaves
    /\ view[w] = NotLoaded /\ ring[w] = NotLoaded
    /\ ring' = [ring EXCEPT ![w] = secrets]
    /\ UNCHANGED <<files, view, kept, call, chosen, told, clash, saves, calls>>
Updated(old, new) == [n \in Names |-> IF new[n] = NoKey THEN old[n] ELSE new[n]]
SaveSecrets(w, new) ==
    /\ saves < MaxSaves
    /\ ring[w] # NotLoaded
    /\ \A n \in Names : new[n] # NoKey => Cleaned[n] = n
    /\ secrets' = Updated(ring[w], new)
    /\ told' = Updated(told, new)
    /\ clash' = IF Outdated(ring[w], secrets) THEN clash \cup {"secrets"} ELSE clash
    /\ ring' = [ring EXCEPT ![w] = NotLoaded]
    /\ saves' = saves + 1
    /\ UNCHANGED <<file, view, kept, call, chosen, calls>>

-----------------------------------------------------------------------------
(* A call.  Writers of other processes may come between any two reads of   *)
(* the files; coroutines of this process only where run_llm awaits.        *)

Undisturbed(c) == \A d \in Callers \ {c} : call[d].pc \notin {"named", "keyed", "making"}

\* get_agent_llm_config; without a readable file the request fails.
Select(c, a) ==
    /\ calls < MaxCalls
    /\ call[c].pc \in {"idle", "ended"}
    /\ Undisturbed(c)
    /\ calls' = calls + 1
    /\ LET p == Loaded(file).agents[a].provider IN
         call' = [call EXCEPT ![c] =
                    IF ~Loads(file) THEN [NoCall EXCEPT !.pc = "ended"]
                    ELSE [NoCall EXCEPT !.pc = "chosen", !.provider = p,
                                        !.settings = {SettingIn(file, p)}]]
    /\ UNCHANGED <<files, writing, kept>>

\* run_llm reads the name of the key, the key, the number of attempts and the URL
\* once.
Begin(c, max) ==
    /\ call[c].pc = "chosen"
    /\ Undisturbed(c)
    /\ call' = [call EXCEPT ![c].pc = "named", ![c].name = NameOf(call[c].provider),
                            ![c].max = max]
    /\ UNCHANGED <<files, writing, kept, calls>>

FindKey(c) ==
    /\ call[c].pc = "named"
    /\ LET key == KeyOf(call[c].provider, call[c].name, secrets) IN
         call' = [call EXCEPT ![c].pc = IF key = NoKey THEN "ended" ELSE "keyed", ![c].key = key,
                              ![c].want = KeyOf(call[c].provider, call[c].name, told)]
    /\ UNCHANGED <<files, writing, kept, calls>>

FindUrl(c) ==
    /\ call[c].pc = "keyed"
    /\ call' = [call EXCEPT ![c].pc = "trying", ![c].url = BaseUrl(call[c].provider)]
    /\ UNCHANGED <<files, writing, kept, calls>>

\* range(max(1, attempts)), one attempt; the answer is a completion or an error
\* that is not worth another attempt, or one that is.
Attempts(c) == IF call[c].max > 1 THEN call[c].max ELSE 1
Again_Inclusive(c) == call[c].n + 1 <= Attempts(c)
Again(c) == call[c].n + 1 < Attempts(c)
Ask(c, key, url, torn, again) ==
    call' = [call EXCEPT ![c].n = @ + 1, ![c].used = key, ![c].at = url, ![c].torn = torn,
                         ![c].from = None,
                         ![c].pc = IF again /\ Again(c) THEN "trying" ELSE "ended"]

\* A provider whose clients are not kept has a client for each call.
Attempt(c, again) ==
    /\ call[c].pc = "trying"
    /\ call[c].provider \notin Pooled
    /\ Undisturbed(c)
    /\ Ask(c, call[c].key, call[c].url, FALSE, again)
    /\ UNCHANGED <<files, writing, kept, calls>>

\* _run_gapgpt uses the client that there is for the key's prefix and the URL of
\* this moment ...
KeptFor(c) == {k \in kept : k.id = ClientId(call[c].provider, call[c].key, BaseUrl(call[c].provider))}
UseKept(c, again) ==
    /\ call[c].pc = "trying"
    /\ call[c].provider \in Pooled
    /\ Undisturbed(c)
    /\ \E k \in KeptFor(c) : Ask(c, k.key, k.url, k.torn, again)
    /\ UNCHANGED <<files, writing, kept, calls>>

\* ... or makes one: it has the URL for the id, and reads it again for the client.
MissKept(c) ==
    /\ call[c].pc = "trying"
    /\ call[c].provider \in Pooled
    /\ Undisturbed(c)
    /\ KeptFor(c) = {}
    /\ call' = [call EXCEPT ![c].pc = "making", ![c].from = BaseUrl(call[c].provider)]
    /\ UNCHANGED <<files, writing, kept, calls>>
Make(c, again) ==
    LET url == BaseUrl(call[c].provider)
        torn == url # call[c].from
    IN
    /\ call[c].pc = "making"
    /\ kept' = kept \cup {[id |-> ClientId(call[c].provider, call[c].key, call[c].from),
                           key |-> call[c].key, url |-> url, torn |-> torn]}
    /\ Ask(c, call[c].key, url, torn, again)
    /\ UNCHANGED <<files, writing, calls>>

-----------------------------------------------------------------------------
Next ==
    \/ \E w \in Writers :
         \/ LoadConfig(w) \/ \E e \in Edits : SaveConfig(w, e)
         \/ LoadSecrets(w) \/ \E new \in Rings : SaveSecrets(w, new)
    \/ \E c \in Callers :
         \/ \E a \in Agents : Select(c, a)
         \/ \E max \in Retries : Begin(c, max)
         \/ FindKey(c) \/ FindUrl(c) \/ MissKept(c)
         \/ \E again \in BOOLEAN : Attempt(c, again) \/ UseKept(c, again) \/ Make(c, again)

Spec == Init /\ [][Next]_vars

-----------------------------------------------------------------------------
(* Properties.                                                             *)

\* Every variable has its shape, and a call makes no more attempts than allowed.
TypeOK ==
    /\ file \in Config \cup {Missing}
    /\ secrets \in [Names -> Keys \cup {NoKey}]
    /\ view \in [Writers -> Config \cup {NotLoaded}]
    /\ ring \in [Writers -> [Names -> Keys \cup {NoKey}] \cup {NotLoaded}]
    /\ \A k \in kept : k.key \in Keys /\ k.url \in Urls /\ k.torn \in BOOLEAN
    /\ call \in [Callers -> Call]
    /\ \A c \in Callers : call[c].n <= Attempts(c)
    /\ chosen \in [Agents -> Route]
    /\ told \in [Names -> Keys \cup {NoKey}]
    /\ clash \subseteq {"config", "secrets"}
    /\ saves \in 0 .. MaxSaves /\ calls \in 0 .. MaxCalls

\* A configuration that was accepted can be read again, as it was written, and
\* routes every agent to a model of an enabled provider.  (One with a base URL of
\* nothing but slashes is accepted and cannot be read.)
SavedConfigLoads ==
    file # Missing /\ (\A p \in Providers : file.url[p] # "") =>
        /\ Valid(file) /\ Normal(file) = file
        /\ \A a \in Agents : file.agents[a] \in Route
                             /\ file.agents[a].provider \in Enabled(file)

\* A route that an operator has set stays until that route is changed, whatever
\* else is saved, unless a configuration was written over a newer one.
RoutesKept == "config" \notin clash /\ file # Missing => file.agents = chosen

\* A call is made with the key that its name stands for when it is looked up:
\* the environment's, or the newest that an operator has saved under that name,
\* blank fields keeping the older ones, or that of the provider's own variables.
\* The exceptions: two saves of secrets crossed, or a client is kept of another
\* key with the same prefix.  The name is one that its provider was configured
\* with at some time since the route was chosen, unless the provider was
\* withdrawn meanwhile (or the configuration became unreadable).
\* It goes to the environment's URL if there is one, whatever is configured, and
\* else to one that was configured in the same time; the further exception is a
\* client that was made while the URL changed, which is kept under another URL.
CalledAsConfigured ==
    \A c \in Callers :
      LET x == call[c] IN
      x.used # NoKey =>
        /\ \/ x.used = x.want
           \/ "secrets" \in clash
           \/ x.provider \in Pooled /\ Prefix[x.used] = Prefix[x.want]
        /\ x.withdrawn \/ \E s \in x.settings : s.name = x.name
        /\ IF FixedUrl(x.provider) THEN x.at = Stripped(EnvUrl[x.provider])
           ELSE x.withdrawn \/ x.torn \/ \E s \in x.settings : s.url = x.at
=============================================================================
