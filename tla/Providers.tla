----------------------------- MODULE Providers -----------------------------
(***************************************************************************)
(* The list of configured agents, as the handlers of a session and the     *)
(* command line change it (session/handler.go, agents/store.go) and the    *)
(* terminal UI shows it: a sequence of records with at least the fields    *)
(* name and enabled.                                                       *)
(***************************************************************************)
EXTENDS Naturals, Sequences

CONSTANTS
    Names,  \* of agents
    None    \* no agent, or no name yet

\* Is there a provider of this name?
Has(providers, name) == \E i \in DOMAIN providers : providers[i].name = name

\* Where the loops over the list stop: at the first provider of that name.
First(providers, name) ==
    CHOOSE i \in DOMAIN providers :
        /\ providers[i].name = name
        /\ \A j \in 1 .. i - 1 : providers[j].name # name

SetEnabled(providers, name, enabled) ==
    [providers EXCEPT ![First(providers, name)].enabled = enabled]

\* A provider replaces the one of its name, or goes to the end.
Upsert(providers, provider) ==
    IF Has(providers, provider.name)
    THEN [providers EXCEPT ![First(providers, provider.name)] = provider]
    ELSE Append(providers, provider)

\* The providers among the first i that have another name.
KeptOf(providers, name) ==
    LET kept[i \in 0 .. Len(providers)] ==
            IF i = 0 THEN << >>
            ELSE IF providers[i].name = name THEN kept[i - 1]
            ELSE Append(kept[i - 1], providers[i])
    IN kept

Without(providers, name) == KeptOf(providers, name)[Len(providers)]
=============================================================================
