------------------------------ MODULE AiConfig ------------------------------
(***************************************************************************)
(* The configuration of the AI providers: the file ingestion_config.json,  *)
(* the sealed store of the Anthropic key and the master key that opens it, *)
(* the environment, the services that run with what was loaded, and the    *)
(* calls they make with retries and counters.                              *)
(*                                                                         *)
(* A file of an older release holds the key in the clear; the first load   *)
(* moves it into the sealed store.  A crash may fall between any two       *)
(* writes, and a write may fail.                                           *)
(***************************************************************************)
EXTENDS Integers, FiniteSets

CONSTANTS
    UserKey,      \* API keys a user may enter
    LegacyKey,    \* the key in the file of an older release
    EnvKey,       \* ANTHROPIC_API_KEY
    EnvEnabled,   \* INGESTION_ENABLED
    NoApiKey,        \* the empty key
    Redacted,     \* the placeholder ***configured***
    Saver,        \* requests to save the configuration
    Requested,    \* the configurations users ask for
    MaxRetries,   \* attempts of one call
    MaxCalls,     \* bound on calls of a model
    MaxAiRestarts,   \* bound on restarts
    MaxFaults     \* bound on failing writes

ASSUME AiKeyAssumption ==
    /\ NoApiKey \notin UserKey \cup {LegacyKey, Redacted}
    /\ Redacted \notin UserKey \cup {LegacyKey, EnvKey}
ASSUME AiRequestAssumption ==
    Requested \subseteq [provider : {"anthropic", "ollama"}, key : UserKey \cup {NoApiKey, Redacted},
                         enabled : {"yes", "no"}, chat : {"none", "anthropic", "ollama"}]
ASSUME AiBoundAssumption ==
    {MaxRetries, MaxCalls, MaxAiRestarts, MaxFaults} \subseteq Nat /\ EnvEnabled \in BOOLEAN

VARIABLES
    cfgFile,      \* ingestion_config.json
    sealed,       \* the key store, with the master key it is sealed under
    master,       \* the master key: 0 when there is none
    aiService,    \* the configuration the ingestion service runs with
    llmService,   \* the configuration the query service runs with
    booted,       \* services started: first ingestion, then queries
    loader,       \* a load under way
    saver,        \* saver[s]: a save under way
    call,         \* a call of a model
    metrics,      \* calls and errors counted
    given,        \* history: the last key that was accepted
    dropped,      \* history: a key went with a file that was never migrated
    aiFaults      \* crashes and failing writes so far

aiVars == <<cfgFile, sealed, master, aiService, llmService, booted, loader, saver, call, metrics,
            given, dropped, aiFaults>>

-----------------------------------------------------------------------------
(* Roles, and what each of them resolves to.                               *)

AIProvider == {"anthropic", "ollama"}
Role == {"IngestionText", "SmartFolder", "DiscoveryInterests", "MutationAgent", "QueryChat",
         "Vision", "Ocr"}
NoOverride == "none"

is_text_capable(role) == role \notin {"Vision", "Ocr"}
default_anthropic_model(role) == IF role = "QueryChat" THEN "sonnet" ELSE "haiku"
default_generation_params(role) ==
    CASE role \in {"SmartFolder", "DiscoveryInterests", "Ocr"} -> "deterministic"
      [] role \in {"IngestionText", "MutationAgent"}           -> "focused"
      [] role = "Vision"                                       -> "vision"
      [] role = "QueryChat"                                    -> "creative"

\* An override is a provider for the query role.
UseCaseOverride == AIProvider \cup {NoOverride}
is_set(o) == o # NoOverride

\* normalize: the legacy field query is read as the override of QueryChat.
normalize(saved) ==
    IF is_set(saved.query) /\ ~ is_set(saved.chat)
    THEN [saved EXCEPT !.chat = saved.query, !.query = NoOverride] ELSE saved

\* prepare_for_save: and written back for an older binary.
prepare_for_save(saved) == [saved EXCEPT !.query = saved.chat]

\* is_override_active and resolve: provider, model, key and parameters of a
\* role.
is_override_active(config, role) == role = "QueryChat" /\ is_set(config.chat)

resolve(config, role) ==
    LET provider == CASE is_override_active(config, role) -> config.chat
                      [] role = "Vision"                  -> config.vision
                      [] role = "Ocr"                     -> "ollama"
                      [] OTHER                            -> config.provider
    IN  [provider |-> provider, key |-> config.key, params |-> default_generation_params(role),
         model |-> IF provider = "ollama" THEN "ollama" ELSE default_anthropic_model(role)]

\* AnthropicConfig::validate, OllamaConfig::validate: models and addresses
\* have defaults, a key has none.
BackendValid(resolved) == resolved.provider = "ollama" \/ resolved.key # NoApiKey

\* build_backend: no backend, or one whose calls are counted.
build_backend(config, role) == IF BackendValid(resolve(config, role)) THEN "metered" ELSE "none"

\* role_info_from_config: what the roles page says.
role_info_from_config(config, role) ==
    IF resolve(config, role).provider = "anthropic" /\ config.key = NoApiKey
    THEN "missing_api_key" ELSE "ok"

\* validate, is_ready, redacted.
validate(config) == BackendValid([provider |-> config.provider, key |-> config.key])
is_ready(config) == config.enabled /\ validate(config)
redacted(config) == [config EXCEPT !.key = IF @ = NoApiKey THEN NoApiKey ELSE Redacted]

-----------------------------------------------------------------------------
(* Secrets at rest.                                                        *)

NoSecret == [key |-> NoApiKey, under |-> 0]
NoFile == [provider |-> "anthropic", key |-> NoApiKey, vision |-> "ollama", enabled |-> "unset",
           query |-> NoOverride, chat |-> NoOverride, there |-> FALSE]

\* get_master_key, encrypt_and_write, read_and_decrypt: nothing is sealed or
\* opened without the master key, and none is made up for it.
CanSeal == master # 0
CanOpen == sealed = NoSecret \/ sealed.under = master

\* anthropic_key_store::load: an absent file is no key.
StoredKey == sealed.key

\* A write of the store or of the file replaces the whole or fails.
Faulty == aiFaults.faults < MaxFaults
Failed == aiFaults' = [aiFaults EXCEPT !.faults = @ + 1]

-----------------------------------------------------------------------------
(* Loading.                                                                *)

DefaultAiConfig == [provider |-> "anthropic", key |-> NoApiKey, vision |-> "ollama",
                  enabled |-> FALSE, chat |-> NoOverride]
NoService == [DefaultAiConfig EXCEPT !.provider = "none"]

\* load_from_file: the placeholder is no key, and the file is normalised.
load_from_file(file) ==
    normalize(IF file.key = Redacted THEN [file EXCEPT !.key = NoApiKey] ELSE file)

\* The environment fills in a key only where the user did not opt out.
EnvFallback(enabled, key) == IF enabled # "no" /\ key = NoApiKey THEN EnvKey ELSE key

env_bool(enabled) == IF enabled = "unset" THEN EnvEnabled ELSE enabled = "yes"

\* What load returns from a file and the key found for it.
Loaded(saved, key) ==
    [provider |-> saved.provider, key |-> EnvFallback(saved.enabled, key), vision |-> saved.vision,
     enabled |-> env_bool(saved.enabled), chat |-> saved.chat]

IdleLoader == [pc |-> "idle", saved |-> NoFile, key |-> NoApiKey]

\* A load begins for each service at start-up, and later in every handler
\* that reads the configuration.
BeginLoad ==
    /\ loader.pc = "idle"
    /\ loader' = [IdleLoader EXCEPT !.pc = "read", !.saved = load_from_file(cfgFile)]
    /\ UNCHANGED <<cfgFile, sealed, master, aiService, llmService, booted, saver, call, metrics, given, dropped, aiFaults>>

\* Faulty variant: a key found in the store ends the matter.
StoreEndsIt(saved, stored) == IF stored # NoApiKey THEN "loaded" ELSE "strip"

\* With a key in the store, a stranded plaintext is stripped; without one, a
\* plaintext is sealed first.
AfterStore(saved, stored) == IF saved.key # NoApiKey THEN "strip" ELSE "loaded"

LoadKey ==
    /\ loader.pc = "read"
    /\ \/ /\ CanOpen
          /\ \/ StoredKey # NoApiKey
             \/ loader.saved.key = NoApiKey
          /\ LET key == StoredKey
             IN  loader' = [loader EXCEPT !.pc = AfterStore(loader.saved, StoredKey), !.key = key]
          /\ UNCHANGED <<sealed, aiFaults>>
       \/ /\ CanOpen /\ CanSeal
          /\ StoredKey = NoApiKey /\ loader.saved.key # NoApiKey
          /\ sealed' = [key |-> loader.saved.key, under |-> master]
          /\ loader' = [loader EXCEPT !.pc = "strip", !.key = loader.saved.key]
          /\ UNCHANGED aiFaults
       \/ /\ ~ CanOpen \/ ~ CanSeal
          /\ loader' = [loader EXCEPT !.pc = "failed"]
          /\ UNCHANGED <<sealed, aiFaults>>
       \/ /\ Faulty /\ Failed
          /\ loader' = [loader EXCEPT !.pc = "failed"]
          /\ UNCHANGED sealed
    /\ UNCHANGED <<cfgFile, master, aiService, llmService, booted, saver, call, metrics, given, dropped>>

\* strip_legacy_api_key_from_disk: the file as loaded, without the key.
strip_legacy_api_key_from_disk ==
    /\ loader.pc = "strip"
    /\ \/ /\ cfgFile' = [loader.saved EXCEPT !.key = NoApiKey]
          /\ loader' = [loader EXCEPT !.pc = "loaded"]
          /\ UNCHANGED aiFaults
       \/ /\ Faulty /\ Failed
          /\ loader' = [loader EXCEPT !.pc = "failed"]
          /\ UNCHANGED cfgFile
    /\ UNCHANGED <<sealed, master, aiService, llmService, booted, saver, call, metrics, given, dropped>>

\* from_config_dir: no ingestion service unless the load succeeds and is
\* valid; the query service runs with load_or_default.
LoadEnds ==
    /\ loader.pc \in {"loaded", "failed"}
    /\ LET config == Loaded(loader.saved, loader.key)
           ok == loader.pc = "loaded"
       IN  /\ aiService' = IF booted = 0 /\ ok /\ validate(config) THEN config ELSE aiService
           /\ llmService' = IF booted # 1 THEN llmService ELSE IF ok THEN config ELSE DefaultAiConfig
    /\ booted' = IF booted < 2 THEN booted + 1 ELSE booted
    /\ loader' = IdleLoader
    /\ UNCHANGED <<cfgFile, sealed, master, saver, call, metrics, given, dropped, aiFaults>>

-----------------------------------------------------------------------------
(* Saving.                                                                 *)

IdleSave == [pc |-> "idle", request |-> NoFile, loaded |-> NoService]
DoneSave == [IdleSave EXCEPT !.pc = "done"]

\* Faulty variant: the placeholder is taken for a key.
KeepsEmptyOnly(key) == key = NoApiKey

KeepsKey(key) == key \in {NoApiKey, Redacted}

Request == [NoFile EXCEPT !.there = TRUE]
Requests ==
    {[Request EXCEPT !.provider = r.provider, !.key = r.key, !.enabled = r.enabled, !.chat = r.chat] :
        r \in Requested}

\* validate_key: a new Anthropic key is probed first.  A refusal ends the
\* request; a probe that could not tell does not.
validate_key(request) ==
    IF request.provider = "anthropic" /\ ~ KeepsKey(request.key)
    THEN {"ok", "invalid", "transient"} ELSE {"ok"}

save_ingestion_config(s) ==
    /\ booted = 2 /\ saver[s].pc = "idle"
    /\ \E request \in Requests : \E probe \in validate_key(request) :
          /\ probe # "invalid"
          /\ saver' = [saver EXCEPT ![s] = [IdleSave EXCEPT !.pc = "file", !.request = request]]
    /\ UNCHANGED <<cfgFile, sealed, master, aiService, llmService, booted, loader, call, metrics, given, dropped, aiFaults>>

\* save_to_file, first write: the file without any key.
save_to_file(s) ==
    /\ saver[s].pc = "file"
    /\ \/ /\ cfgFile' = prepare_for_save([saver[s].request EXCEPT !.key = NoApiKey])
          /\ dropped' = (dropped \/ (cfgFile.key # NoApiKey /\ sealed = NoSecret))
          /\ saver' = [saver EXCEPT ![s].pc = "key"]
          /\ UNCHANGED aiFaults
       \/ /\ Faulty /\ Failed
          /\ saver' = [saver EXCEPT ![s] = DoneSave]
          /\ UNCHANGED <<cfgFile, dropped>>
    /\ UNCHANGED <<sealed, master, aiService, llmService, booted, loader, call, metrics, given>>

\* save_to_file, second write: a new key goes to the store, or the request
\* fails with the file already written.
SaveKey(s) ==
    LET key == saver[s].request.key
    IN  /\ saver[s].pc = "key"
        /\ \/ /\ KeepsKey(key)
              /\ saver' = [saver EXCEPT ![s].pc = "reload"]
              /\ UNCHANGED <<sealed, given, aiFaults>>
           \/ /\ ~ KeepsKey(key) /\ CanSeal
              /\ sealed' = [key |-> key, under |-> master]
              /\ given' = IF key \in UserKey THEN key ELSE given
              /\ saver' = [saver EXCEPT ![s].pc = "reload"]
              /\ UNCHANGED aiFaults
           \/ /\ ~ KeepsKey(key) /\ (~ CanSeal \/ Faulty)
              /\ saver' = [saver EXCEPT ![s] = DoneSave]
              /\ aiFaults' = IF CanSeal THEN [aiFaults EXCEPT !.faults = @ + 1] ELSE aiFaults
              /\ UNCHANGED <<sealed, given>>
        /\ UNCHANGED <<cfgFile, master, aiService, llmService, booted, loader, call, metrics, dropped>>

\* The request reloads both services from disk.  The file has no plaintext
\* now, so the load writes nothing.
load_or_default ==
    IF CanOpen THEN Loaded(load_from_file(cfgFile), StoredKey) ELSE DefaultAiConfig

ReloadConfig(s) ==
    /\ saver[s].pc = "reload" /\ cfgFile.key = NoApiKey
    /\ saver' = [saver EXCEPT ![s].pc = "service", ![s].loaded = load_or_default]
    /\ UNCHANGED <<cfgFile, sealed, master, aiService, llmService, booted, loader, call, metrics, given, dropped, aiFaults>>

ReplaceService(s) ==
    /\ saver[s].pc = "service"
    /\ aiService' = saver[s].loaded
    /\ saver' = [saver EXCEPT ![s].pc = "query"]
    /\ UNCHANGED <<cfgFile, sealed, master, llmService, booted, loader, call, metrics, given, dropped, aiFaults>>

\* LlmQueryState::reload.
reload(s) ==
    /\ saver[s].pc = "query"
    /\ llmService' = load_or_default
    /\ saver' = [saver EXCEPT ![s] = DoneSave]
    /\ UNCHANGED <<cfgFile, sealed, master, aiService, booted, loader, call, metrics, given, dropped, aiFaults>>

-----------------------------------------------------------------------------
(* Calling a model.                                                        *)

\* make_request and classify_llm_error, classify_transport_error.
classify_llm_error(status) ==
    CASE status = 401        -> "authentication"
      [] status = 429        -> "rate_limit"
      [] status \in 500..599 -> "connection"
      [] OTHER               -> "configuration"
classify_transport_error(timed_out) == IF timed_out THEN "timeout" ELSE "connection"

make_request ==
    {"response"} \cup {classify_llm_error(s) : s \in {401, 402, 404, 429, 500}}
                 \cup {classify_transport_error(b) : b \in BOOLEAN}

IdleCall == [pc |-> "idle", attempt |-> 0, slept |-> 0]

\* With no attempts allowed a call fails at once.
StartCall ==
    /\ call.pc = "idle" /\ metrics.calls < MaxCalls
    /\ aiService # NoService /\ build_backend(aiService, "IngestionText") # "none"
    /\ call' = IF MaxRetries = 0 THEN [IdleCall EXCEPT !.pc = "error"]
               ELSE [IdleCall EXCEPT !.pc = "calling", !.attempt = 1]
    /\ UNCHANGED <<cfgFile, sealed, master, aiService, llmService, booted, loader, saver, metrics, given, dropped, aiFaults>>

\* call_with_retries: every error is retried, after 2^(attempt - 1) seconds,
\* until the attempts are used up.
call_with_retries ==
    /\ call.pc = "calling"
    /\ \E answer \in make_request :
          call' = IF answer = "response" THEN [call EXCEPT !.pc = "ok"]
                  ELSE IF call.attempt < MaxRetries
                  THEN [call EXCEPT !.attempt = @ + 1, !.slept = @ + 2^(call.attempt - 1)]
                  ELSE [call EXCEPT !.pc = "error"]
    /\ UNCHANGED <<cfgFile, sealed, master, aiService, llmService, booted, loader, saver, metrics, given, dropped, aiFaults>>

\* MeteredBackend::call with RoleMetrics::record: one count for a call,
\* whatever its attempts.
record_call ==
    /\ call.pc \in {"ok", "error"}
    /\ metrics' = [calls |-> metrics.calls + 1,
                   errors |-> metrics.errors + IF call.pc = "error" THEN 1 ELSE 0]
    /\ call' = IdleCall
    /\ UNCHANGED <<cfgFile, sealed, master, aiService, llmService, booted, loader, saver, given, dropped, aiFaults>>

-----------------------------------------------------------------------------
\* A restart: tasks and services are gone, what is on disk stays.
AiRestart ==
    /\ aiFaults.crashes < MaxAiRestarts
    /\ aiFaults' = [aiFaults EXCEPT !.crashes = @ + 1]
    /\ aiService' = NoService /\ llmService' = NoService /\ booted' = 0
    /\ loader' = IdleLoader
    /\ saver' = [s \in Saver |-> IF saver[s].pc = "idle" THEN IdleSave ELSE DoneSave]
    /\ call' = IdleCall /\ metrics' = [calls |-> 0, errors |-> 0]
    /\ UNCHANGED <<cfgFile, sealed, master, given, dropped>>

\* initialize_master_key, and a keychain that was emptied meanwhile.
initialize_master_key ==
    /\ master = 0
    /\ master' = 1
    /\ UNCHANGED <<cfgFile, sealed, aiService, llmService, booted, loader, saver, call, metrics, given, dropped, aiFaults>>

AiInit ==
    /\ cfgFile \in {NoFile,
                    [NoFile EXCEPT !.there = TRUE, !.key = LegacyKey, !.query = "ollama"],
                    [NoFile EXCEPT !.there = TRUE, !.enabled = "no"]}
    /\ sealed = NoSecret /\ master \in {0, 1}
    /\ aiService = NoService /\ llmService = NoService /\ booted = 0
    /\ loader = IdleLoader /\ saver = [s \in Saver |-> IdleSave]
    /\ call = IdleCall /\ metrics = [calls |-> 0, errors |-> 0]
    /\ given = cfgFile.key /\ dropped = FALSE
    /\ aiFaults = [crashes |-> 0, faults |-> 0]

LoadNext ==
    \/ BeginLoad \/ LoadKey \/ strip_legacy_api_key_from_disk \/ LoadEnds
    \/ AiRestart \/ initialize_master_key
SaveNext ==
    \E s \in Saver : \/ save_ingestion_config(s) \/ save_to_file(s) \/ SaveKey(s)
                     \/ ReloadConfig(s) \/ ReplaceService(s) \/ reload(s)
CallNext == StartCall \/ call_with_retries \/ record_call

AiNext == LoadNext \/ SaveNext \/ CallNext

AiSpec == AiInit /\ [][AiNext]_aiVars

-----------------------------------------------------------------------------
AiTypeOK ==
    /\ cfgFile.key \in UserKey \cup {NoApiKey, LegacyKey}
    /\ sealed.key \in UserKey \cup {NoApiKey, LegacyKey}
    /\ booted \in 0..2
    /\ call.attempt \in 0..MaxRetries
    /\ metrics.errors <= metrics.calls

(* After a load that succeeded no key is left in the clear in              *)
(* ingestion_config.json (IngestionConfig::load), even if an earlier start *)
(* sealed the key and died before it rewrote the file.                     *)
PlaintextCleared == loader.pc = "loaded" => cfgFile.key = NoApiKey

(* A key that was accepted stays on disk, sealed or in the clear,          *)
(* through migrations, saves that keep it, failing writes and restarts; it *)
(* goes only with a file that was never migrated                           *)
(* (IngestionConfig::save_to_file, strip_legacy_api_key_from_disk).        *)
KeyKept == given \in {NoApiKey, sealed.key, cfgFile.key} \/ dropped
=============================================================================
