---------------------------- MODULE PoolBuilding ----------------------------
(***************************************************************************)
(* How a process comes to its credential pool: set_model_route writes the  *)
(* routes and profiles of settings.yaml, resolve_model_auth turns a role's *)
(* route into a credential, and build_scan_pool lines up the API keys, the *)
(* routes, the accounts of the token store and Google's, without repeats.  *)
(*                                                                         *)
(* A model is known by its flavor, the provider prefix of its name.  An    *)
(* auth profile is named after the provider and the kind of credential.    *)
(***************************************************************************)
EXTENDS Integers, Sequences, SequencesExt

CONSTANTS
    Families,       \* families of API keys, in the order of build_scan_pool
    DefaultModel,   \* role -> the model of the settings' old fields
    Profiles,       \* names of auth profiles, in the order yaml.dump leaves them
    FlavorOf,       \* provider -> _FLAVOR_BY_PROVIDER_ID
    KnownOAuth,     \* _KNOWN_OAUTH_PROVIDERS, in order
    KindOf,         \* provider -> auth_mode of the manifest, as set_model_route sorts it
    ValidAccounts,  \* account names that _ACCOUNT_RE accepts
    AdcAccounts,    \* Google accounts with an ADC file, a sequence
    HasVertex       \* llm.vertex_project is set

ASSUME KindAssumption ==
    \A provider \in DOMAIN KindOf : KindOf[provider] \in {"api_key", "cli_oauth", "vertex"}

Roles == <<"analyst", "critic", "flagship">>
NoSettings == [routes |-> <<>>, profiles |-> <<>>]

\* What the wizard writes to .env: keys take the slots from the first, the keys in
\* later slots stay.
Filled(slots, new) == new \o SubSeq(slots, Len(new) + 1, Len(slots))

\* A profile: secret says what api_key_secret names.
NewProfile(kind, provider, account) ==
    [type |-> kind, enabled |-> TRUE, provider |-> provider, account |-> account,
     secret |-> "none"]

-----------------------------------------------------------------------------
\* A dict with one entry added or replaced.
Updated(dict, key, value) ==
    [k \in DOMAIN dict \cup {key} |-> IF k = key THEN value ELSE dict[k]]

\* Mutant of Routed: a disabled profile that is there already stays disabled.
Routed_StaysOff(settings, role, provider, model, account) ==
    LET name == <<provider, KindOf[provider]>>
        entry == NewProfile(KindOf[provider], provider, account)
        kept == IF name \in DOMAIN settings.profiles
                THEN [entry EXCEPT !.secret = settings.profiles[name].secret,
                                   !.enabled = settings.profiles[name].enabled]
                ELSE entry
    IN [routes |-> Updated(settings.routes, role, [model |-> model, profile |-> name]),
        profiles |-> Updated(settings.profiles, name, kept)]

\* set_model_route: the entry is updated, its other keys are kept.  The account of an
\* API key or of Vertex is not written.
Routed(settings, role, provider, model, account) ==
    LET name == <<provider, KindOf[provider]>>
        entry == NewProfile(KindOf[provider], provider, account)
        kept == IF name \in DOMAIN settings.profiles
                THEN [entry EXCEPT !.secret = settings.profiles[name].secret]
                ELSE entry
    IN [routes |-> Updated(settings.routes, role, [model |-> model, profile |-> name]),
        profiles |-> Updated(settings.profiles, name, kept)]

-----------------------------------------------------------------------------
\* resolve_role_model.
RoleModel(settings, role) ==
    IF role \in DOMAIN settings.routes THEN settings.routes[role].model ELSE DefaultModel[role]

RouteProfile(settings, role) == settings.profiles[settings.routes[role].profile]

\* The conditions under which resolve_model_auth raises ConfigError.
Dangles(settings, role) ==
    /\ role \in DOMAIN settings.routes
    /\ \/ settings.routes[role].profile \notin DOMAIN settings.profiles
       \/ LET profile == RouteProfile(settings, role) IN
           \/ profile.type = "cli_oauth" /\ ~profile.enabled
           \/ profile.secret = "literal"
           \/ profile.type = "api_key" /\ profile.secret = "empty"
           \/ profile.type \notin {"api_key", "cli_oauth", "vertex"}

\* account_store_id's ValueError, which build_scan_pool does not catch.
Raises(settings, role) ==
    /\ role \in DOMAIN settings.routes /\ ~Dangles(settings, role)
    /\ RouteProfile(settings, role).type = "cli_oauth"
    /\ RouteProfile(settings, role).account \notin ValidAccounts

\* resolve_model_auth returns a credential for the role's route.
Resolves(settings, role) ==
    role \in DOMAIN settings.routes /\ ~Dangles(settings, role) /\ ~Raises(settings, role)

\* A role without a route, and one whose route dangles, brings no entry: the keys do.
HasRouteEntry(settings, role) ==
    /\ role \in DOMAIN settings.routes /\ ~Dangles(settings, role)
    /\ RouteProfile(settings, role).type # "api_key"

-----------------------------------------------------------------------------
\* The entries whose field (their id, or where the credential is from) was not seen before.
KeepFirst(entries, field) ==
    FoldLeft(LAMBDA kept, e : IF \E i \in DOMAIN kept : kept[i][field] = e[field]
                              THEN kept ELSE Append(kept, e),
             <<>>, entries)

Entry(id, flavor, from) == [id |-> id, flavor |-> flavor, from |-> from]

\* The analyst's family comes first; the others keep their order (a stable sort).
FamilyOrder(settings) ==
    SelectSeq(Families, LAMBDA f : f = RoleModel(settings, "analyst"))
    \o SelectSeq(Families, LAMBDA f : f # RoleModel(settings, "analyst"))

KeyEntries(settings, keys) ==
    FlattenSeq([n \in DOMAIN Families |->
        LET f == FamilyOrder(settings)[n]
        IN [i \in DOMAIN keys[f] |-> Entry(<<"key", f, i>>, f, <<"key", keys[f][i]>>)]])

\* A route's credential: a login's file, or the Google default.
RouteEntries(settings) ==
    LET Routable == SelectSeq(Roles, LAMBDA role : HasRouteEntry(settings, role))
    IN [n \in DOMAIN Routable |->
         LET route == settings.routes[Routable[n]]
             profile == settings.profiles[route.profile]
         IN Entry(<<"route">> \o route.profile, route.model,
                  IF profile.type = "cli_oauth" THEN <<profile.provider, profile.account>>
                  ELSE <<"adc", "default">>)]

\* The accounts of one provider, and under which name its entries go.
AccountsOf(provider, name, stored) ==
    LET accounts == SetToSeq({store \in stored : store[1] = provider})
    IN [n \in DOMAIN accounts |->
         Entry(Append(name, accounts[n][2]), FlavorOf[provider], accounts[n])]

AccountEntries(settings, stored) ==
    LET Enabled == SelectSeq(Profiles, LAMBDA name :
            /\ name \in DOMAIN settings.profiles
            /\ settings.profiles[name].type = "cli_oauth" /\ settings.profiles[name].enabled)
    IN FlattenSeq([n \in DOMAIN Enabled |->
                    AccountsOf(settings.profiles[Enabled[n]].provider, Enabled[n], stored)])
       \o FlattenSeq([n \in DOMAIN KnownOAuth |-> AccountsOf(KnownOAuth[n], <<KnownOAuth[n]>>, stored)])

AdcEntries ==
    IF HasVertex
    THEN [n \in DOMAIN AdcAccounts |->
            Entry(<<"vertex", AdcAccounts[n]>>, "vertex_ai", <<"adc", AdcAccounts[n]>>)]
    ELSE <<>>

\* build_scan_pool, with the keys of .env and the stores of the token directory.
BuildPool(settings, keys, stored) ==
    KeepFirst(KeepFirst(KeyEntries(settings, keys), "from")
              \o RouteEntries(settings)
              \o KeepFirst(AccountEntries(settings, stored), "from")
              \o AdcEntries, "id")
=============================================================================
