----------------------------- MODULE Providers -----------------------------
(***************************************************************************)
(* The registry of the providers of components and of their components     *)
(* (manager/service/provider_manager.py), two tables that requests write   *)
(* one row after the other.                                                *)
(***************************************************************************)
CONSTANTS
    Clerks,   \* the requests that register or delete, one call each
    Names,    \* the names of providers
    Lists(_)  \* the lists of components with which a provider may be registered

VARIABLES
    providers,   \* the rows of ProviderInfo
    components,  \* the rows of ComponentInfo: which provider offers what
    work,        \* what each request has yet to write
    owed,        \* history: the components it was registered with since it was deleted
    clash        \* history: providers of which two requests met, or one was cut short

providerVars == <<providers, components, work, owed, clash>>

Offers(p) == UNION Lists(p)
Idle == [at |-> "off", name |-> "none", todo |-> {}]
Busy(p) == {c \in Clerks : work[c].name = p /\ work[c].at \notin {"off", "done"}}
Offered == {<<p, v>> : p \in Names, v \in UNION {Offers(q) : q \in Names}}

\* register_default_providers, when the server starts.
ProvidersInit(default) ==
    /\ providers = default
    /\ owed \in [Names -> SUBSET UNION {Offers(p) : p \in Names}]
    /\ \A p \in Names : IF p \in default THEN owed[p] \in Lists(p) ELSE owed[p] = {}
    /\ components = {x \in Offered : x[2] \in owed[x[1]]}
    /\ work = [c \in Clerks |-> Idle]
    /\ clash = {}

\* A request comes: to register with a list, that of the request or of the package of the
\* provider, or to delete.
Ask(c, p, kind) ==
    /\ work[c].at = "off"
    /\ \E list \in IF kind = "register" THEN Lists(p) ELSE {{}} :
          work' = [work EXCEPT ![c] = [at |-> kind, name |-> p, todo |-> list]]
    /\ clash' = IF Busy(p) = {} THEN clash ELSE clash \cup {p}
    /\ UNCHANGED <<providers, components, owed>>

\* register_provider: the provider's row, made or written over ...
SaveProvider(c) ==
    /\ work[c].at = "register"
    /\ providers' = providers \cup {work[c].name}
    /\ owed' = [owed EXCEPT ![work[c].name] = @ \cup work[c].todo]
    /\ work' = [work EXCEPT ![c].at = IF work[c].todo = {} THEN "done" ELSE "save"]
    /\ UNCHANGED <<components, clash>>

\* ... and one for each of the components listed.  Those of an earlier list stay.
SaveComponent(c) ==
    /\ work[c].at = "save"
    /\ \E v \in work[c].todo :
          /\ components' = components \cup {<<work[c].name, v>>}
          /\ work' = [work EXCEPT ![c].todo = @ \ {v},
                                  ![c].at = IF work[c].todo = {v} THEN "done" ELSE @]
    /\ UNCHANGED <<providers, owed, clash>>

\* The package of the provider cannot be loaded, or a row not be written: the provider's
\* row is there, and the components, or some of them, are not.
RegisterFails(c) ==
    /\ work[c].at = "save"
    /\ work' = [work EXCEPT ![c].at = "done"]
    /\ clash' = clash \cup {work[c].name}
    /\ UNCHANGED <<providers, components, owed>>

\* delete_provider: the row of the provider, then those of its components.
DeleteProvider(c) ==
    /\ work[c].at = "delete"
    /\ providers' = providers \ {work[c].name}
    /\ owed' = [owed EXCEPT ![work[c].name] = {}]
    /\ work' = [work EXCEPT ![c].at = "forget"]
    /\ UNCHANGED <<components, clash>>

DeleteComponents(c) ==
    /\ work[c].at = "forget"
    /\ components' = {x \in components : x[1] # work[c].name}
    /\ work' = [work EXCEPT ![c].at = "done"]
    /\ UNCHANGED <<providers, owed, clash>>

\* A server dies in the middle of a request.
ClerkDies(c) ==
    /\ work[c].at \notin {"off", "done"}
    /\ work' = [work EXCEPT ![c].at = "done"]
    /\ clash' = clash \cup {work[c].name}
    /\ UNCHANGED <<providers, components, owed>>

ProviderStep ==
    \E c \in Clerks :
        SaveProvider(c) \/ SaveComponent(c) \/ DeleteProvider(c) \/ DeleteComponents(c)

\* get_all_components and get_flow_components.
Registered == {x[2] : x \in components}
OfferedBy(p) == {x[2] : x \in {y \in components : y[1] = p}}

\* A provider is listed with all the components it was registered with since it was last
\* deleted, by however many requests one after the other, or not at all, once nobody works
\* on it: unless two requests worked on it at once, or one failed or was cut short.
WholeOrGone ==
    \A p \in Names \ clash :
        Busy(p) = {} => /\ OfferedBy(p) = owed[p]
                        /\ p \notin providers => owed[p] = {}
=============================================================================
