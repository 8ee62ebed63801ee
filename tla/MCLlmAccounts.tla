--------------------------- MODULE MCLlmAccounts ---------------------------
\* A small instance of LlmAccounts for TLC.
EXTENDS LlmAccounts, TLC

CONSTANTS worker, api

MCProcs == {worker, api}

\* One key stands in two families' slots.
MCFamilies == <<"gemini", "openai">>
MCKeys == [gemini |-> <<"k1", "k2">>, openai |-> <<"k1", "k2">>]
MCDefaultModel == [analyst |-> "gemini", critic |-> "gemini", flagship |-> "gemini"]

MCFlavorOf == [codex |-> "openai", gateway |-> "openai"]
MCKindOf == [codex |-> "cli_oauth", gateway |-> "cli_oauth", openai |-> "api_key"]
MCKnownOAuth == <<"codex">>
MCProfiles == <<<<"codex", "cli_oauth">>, <<"gateway", "cli_oauth">>, <<"openai", "api_key">>>>
MCAdc == <<"work">>

MCMine == <<"gateway", "default">>
MCOthers == {<<"codex", "default">>}

\* The operator has routed the critic to the gateway and then switched its profile off;
\* the flagship has the login that `use` may give an invalid account.
Off == [NewProfile("cli_oauth", "gateway", "default") EXCEPT !.enabled = FALSE]
MCSettings ==
    {[routes |->
        [critic |-> [model |-> "openai", profile |-> <<"gateway", "cli_oauth">>],
         flagship |-> [model |-> "openai", profile |-> <<"codex", "cli_oauth">>]],
      profiles |-> <<"gateway", "cli_oauth">> :> Off
                   @@ <<"codex", "cli_oauth">> :> NewProfile("cli_oauth", "codex", "default")]}

Choice(role, through, model, account) ==
    [role |-> role, provider |-> through, model |-> model, account |-> account]
MCUseArgs ==
    {Choice("analyst", "gateway", "openai", "default"),
     Choice("critic", "codex", "openai", "Invalid")}

\* A new first key for OpenAI, which leads the pool from now on.
MCWizardArgs == {[role |-> "analyst", family |-> "openai", model |-> "openai", keys |-> <<"k3">>]}
=============================================================================
