---------------------------- MODULE MCComponents ----------------------------
(* Settings, Accounts, DemoSeed (with PromptChains) and PluginModals for TLC. *)
(* Their states do not touch, and one run checks their behaviours side by     *)
(* side: focus says which of them moves.                                      *)
EXTENDS Settings, DemoSeed, PluginModals, MCAccounts

VARIABLE focus

MCModelsOf == ("ollama" :> <<"bge", "llama">>) @@ ("openai" :> <<"gpt">>)
MCDefaultModel ==
    [p \in Providers |-> [t \in {"simple", "primary"} |->
        IF p = "ollama" THEN "llama" ELSE "gpt"]]
MCScore == [t \in {"simple", "primary"} |-> [m \in {"bge", "llama", "gpt"} |-> 3]]

MCSameName == [c \in ChainNames |-> IF c = "Intro" THEN "intro" ELSE c]

Unset == [provider |-> "", model |-> FALSE, url |-> FALSE, token |-> FALSE]
OpenAI == [provider |-> "openai", model |-> TRUE, url |-> FALSE, token |-> TRUE]

\* The second one asks every kind of model, one of them through the fallback.
Silent == [optimizer |-> [OpenAI EXCEPT !.token = FALSE], compression |-> Unset,
           test |-> Unset, safety |-> OpenAI, fallback |-> TRUE, safetyOn |-> FALSE,
           heuristicOnly |-> FALSE, rewrite |-> TRUE]
Asking == [Silent EXCEPT !.optimizer = OpenAI, !.safetyOn = TRUE,
               !.test = [Unset EXCEPT !.provider = "ollama"],
               !.compression = [OpenAI EXCEPT !.provider = "other", !.url = TRUE]]
MCLLMSettings == {Silent, Asking}

MCReplies == {[text |-> TRUE, broken |-> FALSE, level |-> 3, severity |-> 3],
              [text |-> FALSE, broken |-> FALSE, level |-> 0, severity |-> 0],
              [text |-> TRUE, broken |-> TRUE, level |-> 0, severity |-> 0]}

ComponentsInit ==
    /\ focus \in {"settings", "accounts", "seed", "chains", "runs", "modals", "hooks"}
    /\ SettingsInit /\ AccountsInit /\ DemoSeedInit /\ ModalInit
    /\ focus # "runs" => llm = Silent

componentVars == <<settingsVars, accountVars, allSeedVars, sessionVars, focus>>

Configure ==
    /\ focus = "settings" /\ SettingsNext
    /\ UNCHANGED <<accountVars, allSeedVars, sessionVars>>

Manage ==
    /\ focus = "accounts" /\ AccountsNext
    /\ UNCHANGED <<settingsVars, allSeedVars, sessionVars>>

Seed ==
    /\ focus = "seed" /\ DemoSeedNext
    /\ UNCHANGED <<settingsVars, accountVars, sessionVars>>

\* Requests on the chains that are called alike.
WriteChains ==
    /\ focus = "chains"
    /\ \E q \in ChainRequests :
        ChainStep(q) /\ chainRequest'[q].chain # SyntheticChain
    /\ UNCHANGED <<seedVars, settingsVars, accountVars, sessionVars>>

\* Test runs and previews of the first version of a chain.
RunChains ==
    /\ focus = "runs"
    /\ \/ ChangeLLMSettings
       \/ \E q \in ChainRequests :
            \/ RunStep(q)
            \/ /\ CheckNewChain(q) \/ InsertChain(q)
               /\ ~chain[DemoChain].exists
               /\ chainRequest'[q].chain \in {DemoChain, Nobody}
    /\ UNCHANGED <<seedVars, settingsVars, accountVars, sessionVars>>

\* Sessions and hooks share only the plugin.
ServePlugins ==
    /\ \/ focus = "modals" /\ ModalNext
       \/ focus = "hooks" /\ HookNext
    /\ UNCHANGED <<settingsVars, accountVars, allSeedVars>>

ComponentsNext ==
    /\ UNCHANGED focus
    /\ \/ Configure \/ Manage \/ Seed \/ WriteChains \/ RunChains
       \/ ServePlugins

ComponentsSpec == ComponentsInit /\ [][ComponentsNext]_componentVars
=============================================================================
