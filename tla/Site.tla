-------------------------------- MODULE Site --------------------------------
(***************************************************************************)
(* A site at work: its administrators grade apps and grant components      *)
(* (Permissions), providers come and go (Providers), and another party's   *)
(* job is let in (utils/permission_utils.py) and inherits from an earlier  *)
(* one (JobInheritance).  What happens from outside, and what fails, is    *)
(* bounded by Budgets; each request then goes on by itself.                *)
(***************************************************************************)
EXTENDS JobInheritance

CONSTANTS
    Callers, Servers, Boss, Apps,
    Clerks, Names, Lists(_),
    Flow,       \* the provider fate_flow, whose components everybody may run
    Wanted,     \* the components of the job that asks to be let in
    Budgets     \* bounds: how many events of each topic there are in a behaviour

VARIABLES
    rows, known, roleLoad, apps, call, granted, held, grantLoad, excused,  \* Permissions
    providers, components, work, owed, clash,                              \* Providers
    desk,     \* the server at which the job asks
    needs,    \* the components of the job to be checked, by the registry of that moment
    todo,     \* those not checked yet
    seen,     \* history: what was granted at some moment since the job asked
    budget    \* the events there may yet be, of each topic

permissionVars ==
    <<rows, known, roleLoad, apps, call, granted, held, grantLoad, excused>>
providerVars == <<providers, components, work, owed, clash>>
letInVars == <<desk, needs, todo, seen>>
siteVars == <<inheritanceVars, permissionVars, providerVars, letInVars, budget>>

\* Nobody grades the super_client, and the job has a thread of its own.
ASSUME SiteAssumption == Boss \notin Apps /\ "job" \notin Callers

Catalog == INSTANCE Providers
Rights == INSTANCE Permissions WITH Components <- UNION {Catalog!Offers(p) : p \in Names}

SiteInit ==
    /\ InheritanceInit
    /\ Rights!PermissionInit
    /\ Catalog!ProvidersInit(Names)
    /\ desk \in Servers /\ needs = {} /\ todo = {} /\ seen = {}
    /\ budget \in Budgets

Event(topic) == budget[topic] > 0 /\ budget' = [budget EXCEPT ![topic] = @ - 1]
-----------------------------------------------------------------------------
\* Requests about apps and permissions, each at one of the servers.
Roles(c, s) ==
    \/ \E a \in Apps, by \in {"admin", Boss} :
          \/ \E r \in Rights!Grades : Rights!Grant(c, s, by, a, r) \/ Rights!DeleteRole(c, s, by, a, r)
          \/ Rights!DeleteApp(c, s, by, a)
    \/ Rights!Authenticate(c, s)

Grants(c, s) ==
    LET all == Catalog!Registered
    IN \E kind \in {"give", "take", "takeAll"}, values \in {{v} : v \in all} \cup {all} :
          Rights!Change(c, s, kind, values, all)

\* A server dies, and if the job is being checked there, so does its request.
Dies(s) ==
    IF desk = s /\ target.job = "asked"
    THEN Rights!ServerDies(s, {Rights!Job}) /\ Refuse
    ELSE Rights!ServerDies(s, {}) /\ UNCHANGED inheritanceVars

Administer ==
    /\ \/ \E s \in Servers, c \in Callers :
             /\ (Event("roles") /\ Roles(c, s)) \/ (Event("grants") /\ Grants(c, s))
             /\ UNCHANGED inheritanceVars
       \/ Event("crash") /\ \E s \in Servers : Dies(s)
       \/ Rights!PermissionStep /\ UNCHANGED <<inheritanceVars, budget>>
    /\ seen' = IF target.job = "asked" THEN seen \cup granted' ELSE seen
    /\ UNCHANGED <<providerVars, desk, needs, todo>>

Provide ==
    /\ \/ /\ Event("providers")
          /\ \E c \in Clerks :
                \/ \E p \in Names, kind \in {"register", "delete"} : Catalog!Ask(c, p, kind)
                \/ Catalog!RegisterFails(c) \/ Catalog!ClerkDies(c)
       \/ Catalog!ProviderStep /\ UNCHANGED budget
    /\ UNCHANGED <<inheritanceVars, permissionVars, letInVars>>
-----------------------------------------------------------------------------
(* The job: it is checked and submitted, asks each party, and is let in *)

\* get_permission_parameters leaves out the components of fate_flow registered now.
Ask ==
    /\ Event("job") /\ Submit
    /\ needs' = Wanted \ Catalog!OfferedBy(Flow)
    /\ todo' = needs'
    /\ seen' = granted \cup UNION {grantLoad[c].copy : c \in Callers}
    /\ UNCHANGED <<permissionVars, providerVars, desk>>

\* enforce loads the rules for each component.
LoadRules ==
    /\ target.job = "asked" /\ todo # {}
    /\ Rights!GrantRules!Load(Rights!Job, desk)
    /\ UNCHANGED <<inheritanceVars, rows, known, roleLoad, apps, call, excused, providerVars,
                   letInVars, budget>>

\* check_component: one after the other, each against what the memory shows then.
CheckComponent(v) ==
    /\ target.job = "asked" /\ v \in todo
    /\ Rights!GrantRules!Read(Rights!Job)
    /\ \/ v \in held[desk] /\ todo' = todo \ {v} /\ UNCHANGED inheritanceVars
       \/ v \notin held[desk] /\ Refuse /\ UNCHANGED todo
    /\ UNCHANGED <<rows, known, roleLoad, apps, call, granted, held, excused, providerVars,
                   desk, needs, seen, budget>>

LetIn ==
    /\ todo = {}
    /\ Create
    /\ UNCHANGED <<permissionVars, providerVars, letInVars, budget>>

\* The command to start comes once; more calls of it are retries.
First(l) == \A m \in Loaders : load[m].at = "off"

Inherit ==
    /\ \/ /\ Event("source")
          /\ \/ Rerun
             \/ \E j \in {"source", "target"} : CleanStart(j)
             \/ \E l \in Loaders : LoadFails(l) \/ (~First(l) /\ Start(l))
             \/ PartyDies
       \/ /\ \E l \in Loaders : First(l) /\ Start(l)
          /\ UNCHANGED budget
       \/ InheritanceStep /\ UNCHANGED budget
    /\ UNCHANGED <<permissionVars, providerVars, letInVars>>

SiteNext ==
    \/ Administer \/ Provide
    \/ Ask \/ LoadRules \/ LetIn \/ \E v \in Wanted : CheckComponent(v)
    \/ Inherit

SiteSpec == SiteInit /\ [][SiteNext]_siteVars
-----------------------------------------------------------------------------
\* A job is let in only if each of its components was granted at some moment since it
\* asked, though the permissions change between the checks and other threads fill the memory
\* that is asked: or was in the rows that another thread had selected and not yet put into
\* memory when it asked.  The moments may differ: the other party need never have held them
\* all at once.
AllowedSinceAsked == target.job \notin {"none", "asked", "refused"} => needs \subseteq seen

\* What the requests of administrators, spread over servers with a memory of their own,
\* leave behind: apps keep a role, providers are whole or gone, and nobody's job is let
\* in without permission.
AccessInv ==
    /\ Rights!PermissionTypeOK
    /\ Rights!KeepsARole
    /\ Catalog!WholeOrGone
    /\ AllowedSinceAsked
=============================================================================
