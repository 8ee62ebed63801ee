---------------------------- MODULE LlmAccounts ----------------------------
(***************************************************************************)
(* The accounts behind the LLM calls: `rtrade auth use` and the setup      *)
(* wizard write the settings and the API keys, `login` and `logout` the    *)
(* token store, and every process builds its pool once, from what it finds *)
(* when it first needs it, and then refreshes the logins it holds.         *)
(* OAuthTokens has the file of one login, Mine; other stores do not change.*)
(***************************************************************************)
EXTENDS OAuthTokens, PoolBuilding

CONSTANTS
    InitialSettings,    \* what the operator has written by hand
    Mine,               \* the store of OAuthTokens, <<provider, account>>
    Others,             \* other stores with a token
    UseArgs,            \* arguments of `use`: role, provider, model, account
    InitialKeys,        \* family -> the keys in its slots of .env
    WizardArgs,         \* answers to the wizard: role or "skip", family, model, keys
    MaxUses             \* bound on the calls of `use` and the wizard

ASSUME AccountAssumption ==
    /\ \A choice \in UseArgs : choice.provider \in DOMAIN KindOf
    /\ \A answer \in WizardArgs : answer.family \in DOMAIN KindOf
    /\ "default" \in ValidAccounts

VARIABLES
    settings,   \* llm.model_routes and llm.auth_profiles
    keys,       \* the API keys of .env
    uses,       \* calls of `use` and the wizard
    pool        \* _SCAN_POOL_CACHE of each process

accountvars == <<settings, keys, uses, pool>>
vars == <<tokenvars, accountvars>>

Unbuilt == <<>>

\* list_accounts looks at the names of files, not into them.
Stored == Others \cup IF file.at = "absent" THEN {} ELSE {Mine}

Init ==
    /\ TokenInit
    /\ settings \in InitialSettings
    /\ keys = InitialKeys
    /\ uses = 0
    /\ pool = [p \in Procs |-> Unbuilt]

-----------------------------------------------------------------------------
\* The command line is used while the processes are stopped.
Stopped == uses < MaxUses /\ \A p \in Procs : pool[p] = Unbuilt

\* `rtrade auth use`: the account's name is not checked.
Use(choice) ==
    /\ Stopped
    /\ settings' = Routed(settings, choice.role, choice.provider, choice.model, choice.account)
    /\ uses' = uses + 1
    /\ UNCHANGED <<tokenvars, keys, pool>>

\* The wizard with an API-key provider: the keys first, then the role, if one is given.
\* With a login it is a login and a `use`.
Wizard(answer) ==
    /\ Stopped
    /\ keys' = [keys EXCEPT ![answer.family] = Filled(@, answer.keys)]
    /\ settings' = IF answer.role = "skip" THEN settings
                   ELSE Routed(settings, answer.role, answer.family, answer.model, "default")
    /\ uses' = uses + 1
    /\ UNCHANGED <<tokenvars, pool>>

\* The first scan that needs a model.  A ValueError leaves the process without a pool,
\* and so does a ConfigError when there is no credential at all.
Build(p) ==
    /\ pool[p] = Unbuilt
    /\ \A n \in DOMAIN Roles : ~Raises(settings, Roles[n])
    /\ pool' = [pool EXCEPT ![p] = BuildPool(settings, keys, Stored)]
    /\ UNCHANGED <<tokenvars, settings, keys, uses>>

Holds(p, store) == \E i \in DOMAIN pool[p] : pool[p][i].from = store

\* A call that comes to the login's entry resolves it.
ResolvesMine(p) == Holds(p, Mine) /\ Expired(p) /\ UNCHANGED accountvars

Refreshes(p) == Refresh(p) /\ UNCHANGED accountvars

\* The process ends: its pool goes with it.
Restart(p) ==
    /\ pool[p] # Unbuilt
    /\ pool' = [pool EXCEPT ![p] = Unbuilt]
    /\ IF user[p].at = "idle" THEN UNCHANGED tokenvars ELSE Crash(p)
    /\ UNCHANGED <<settings, keys, uses>>

Logins == LoginStep /\ UNCHANGED accountvars
Surroundings == Environment /\ UNCHANGED accountvars

Next ==
    \/ Logins \/ Surroundings
    \/ \E choice \in UseArgs : Use(choice)
    \/ \E answer \in WizardArgs : Wizard(answer)
    \/ \E p \in Procs : Build(p) \/ ResolvesMine(p) \/ Refreshes(p) \/ Restart(p)

Spec == Init /\ [][Next]_vars

\* Requests have a timeout and a file is written at once; nothing makes a person log
\* in or a scan ask for a model.
FairSpec == Spec /\ WF_vars(Logins) /\ \A p \in Procs : WF_vars(Refreshes(p))

-----------------------------------------------------------------------------
\* routing.py:54, "so that the route does not dangle": the role that `use` or the wizard
\* points somewhere resolves, and every role that resolved before still does.  The
\* exceptions are the operator's own api_key_secret, and a `use` with an account name
\* that is not valid, which breaks the roles on that login's profile and no other.
RoutesResolve ==
    [][\A n \in DOMAIN Roles :
        LET role == Roles[n] IN
            /\ role \in DOMAIN settings'.routes
            /\ \/ Resolves(settings, role)
               \/ role \notin DOMAIN settings.routes
               \/ settings'.routes[role] # settings.routes[role]
            => \/ Resolves(settings', role)
               \/ RouteProfile(settings', role).secret # "none"
               \/ \E choice \in UseArgs :
                    /\ Use(choice) /\ choice.account \notin ValidAccounts
                    /\ settings'.routes[role].profile = <<choice.provider, "cli_oauth">>]_vars

\* routing.py:54 and cli/auth.py:289: `use` leaves the role with a route that resolves.
UseResolves ==
    [][\A choice \in UseArgs : Use(choice) => Resolves(settings', choice.role)]_vars
=============================================================================
