---------------------------- MODULE Permissions ----------------------------
(***************************************************************************)
(* Who may do what at a site (controller/permission.py).  The roles of the *)
(* client apps and the components that another party may run are rules of  *)
(* two enforcers (Enforcer).  A request is worked on by a thread of one of *)
(* the servers; it loads the rules before each check, and acts on what the *)
(* memory of its server, which others fill as well, then shows.            *)
(***************************************************************************)
EXTENDS FiniteSets

CONSTANTS
    Callers,   \* the requests to the interface for permissions, one call each
    Servers,
    Boss,      \* an app with the role super_client that nobody grades anew
    Apps,      \* the apps that are graded, of type client
    Components \* what there is to be granted to the other party

Grades == {"client", "super_client", "site"}

\* A request: where it is, at which server, whose, about which app, the role it grants
\* ("none" for a deletion) and what it has yet to delete or to grant.
Off == [at |-> "off", server |-> "none", by |-> "none", app |-> "none", role |-> "none",
        todo |-> {}]
Over == [Off EXCEPT !.at = "done"]

\* The thread of another party's request to create a job.
Job == "job"
Threads == Callers \cup {Job}

VARIABLES
    rows,      \* the rows of FlowCasbinRule: which app has which role
    known,     \* per server: those in the memory of its enforcer
    roleLoad,  \* per thread: its load of them
    apps,      \* the rows of AppInfo
    call,      \* where each request is
    granted,   \* the rows of PermissionCasbinRule: the components
    held,      \* per server: those in the memory of its enforcer
    grantLoad, \* per thread: its load of them
    excused    \* history: apps whose role was deleted, or whose grading was cut short or misled

ruleVars == <<rows, known, roleLoad>>
grantVars == <<granted, held, grantLoad>>
permissionVars == <<ruleVars, apps, call, grantVars, excused>>

RoleRules == INSTANCE Enforcer WITH table <- rows, memory <- known, load <- roleLoad
GrantRules == INSTANCE Enforcer WITH table <- granted, memory <- held, load <- grantLoad

BossRule == <<Boss, "super_client">>
RolesOf(a, rules) == {r \in Grades : <<a, r>> \in rules}

PermissionInit ==
    /\ \E f \in [Apps -> {"client", "super_client"}] :
          rows = {BossRule} \cup {<<a, f[a]>> : a \in Apps}
    /\ known = [s \in Servers |-> rows]
    /\ roleLoad = [t \in Threads |-> RoleRules!Idle]
    /\ apps = Apps
    /\ call = [c \in Callers |-> Off]
    /\ granted = {}
    /\ held = [s \in Servers |-> {}]
    /\ grantLoad = [t \in Threads |-> GrantRules!Idle]
    /\ excused = {}

\* Where a request goes on, and those at a server that grade an app.
Goto(c, place) ==
    call' = [call EXCEPT ![c] = IF place = "done" THEN Over ELSE [@ EXCEPT !.at = place]]
Grading(s) == {c \in Callers : /\ call[c].server = s /\ call[c].role # "none"
                               /\ call[c].at \in {"roles", "check", "delete", "allow", "add"}}

\* check_app_type: a super_client is a client.
TypeFits(role) == role # "site"
-----------------------------------------------------------------------------
(* The rules of roles in the memory of a server *)

\* A request that has cleared the memory, or is about to add, and finds there a role that
\* the app has not (any more), or not the role of who asks.
Misled(c, rules) ==
    LET a == call[c].app
    IN \/ /\ roleLoad[c].at = "filling" /\ call[c].at \in {"check", "allow"}
          /\ \/ RolesOf(a, rules) \ RolesOf(a, rows) # {}
             \/ call[c].by # "admin" /\ BossRule \notin rules \cup roleLoad[c].copy
       \/ call[c].at = "add" /\ call[c].role \in RolesOf(a, rules) \ RolesOf(a, rows)

\* A request loads the rules for what it does next, and may mislead others at its server.
LoadRoles(c) ==
    /\ call[c].at \in {"roles", "check", "allow", "drop", "look"}
    /\ RoleRules!Load(c, call[c].server)
    /\ excused' = excused \cup {call[d].app : d \in
                     {e \in Grading(call[c].server) \ {c} : Misled(e, known'[call[c].server])}}
    /\ UNCHANGED <<apps, call, grantVars>>

\* check_permission: the interface is open to admin and to who has the role super_client,
\* and for an app that there is.
MayAsk(c) ==
    /\ call[c].app \in apps
    /\ call[c].by # "admin" => BossRule \in known[call[c].server]

Shown(c) == RolesOf(call[c].app, known[call[c].server])
-----------------------------------------------------------------------------
(* Requests about the roles of apps *)

Comes(c, s, place, by, a, role, todo) ==
    /\ call[c].at = "off"
    /\ call' = [call EXCEPT ![c] = [at |-> place, server |-> s, by |-> by, app |-> a,
                                   role |-> role, todo |-> todo]]

Grant(c, s, by, a, role) ==
    /\ Comes(c, s, "roles", by, a, role, {})
    /\ UNCHANGED <<ruleVars, apps, grantVars, excused>>

DeleteRole(c, s, by, a, role) ==
    /\ Comes(c, s, "check", by, a, "none", {role})
    /\ excused' = excused \cup {a}
    /\ UNCHANGED <<ruleVars, apps, grantVars>>

\* grant: the roles of the app, each to be deleted first.
GetRoles(c) ==
    /\ call[c].at = "roles" /\ RoleRules!Read(c)
    /\ call' = [call EXCEPT ![c] =
                   IF MayAsk(c)
                   THEN [@ EXCEPT !.todo = Shown(c),
                                  !.at = IF Shown(c) = {} THEN "allow" ELSE "check"]
                   ELSE Over]
    /\ UNCHANGED <<rows, known, apps, grantVars, excused>>

\* check_permission for operate "delete": who is not admin grades clients only, and
\* makes nobody a super_client.
MayDelete(c) ==
    /\ MayAsk(c)
    /\ call[c].by # "admin" => "super_client" \notin Shown(c) \cup {call[c].role}

\* Mutant: whether the new role fits is left to the second half, where it is added.
M_CheckDelete(c) ==
    /\ call[c].at = "check" /\ RoleRules!Read(c)
    /\ Goto(c, IF MayDelete(c) THEN "delete" ELSE "done")
    /\ UNCHANGED <<rows, known, apps, grantVars, excused>>

\* delete_role_for_user is refused before it deletes anything: to who may not, and for a
\* new role that does not fit the app's type.
CheckDelete(c) ==
    /\ call[c].at = "check" /\ RoleRules!Read(c)
    /\ Goto(c, IF MayDelete(c) /\ TypeFits(call[c].role) THEN "delete" ELSE "done")
    /\ UNCHANGED <<rows, known, apps, grantVars, excused>>

Delete(c) ==
    /\ call[c].at = "delete"
    /\ \E r \in call[c].todo :
          /\ RoleRules!RemoveRule(call[c].server, <<call[c].app, r>>)
          /\ call' = [call EXCEPT ![c] =
                         IF call[c].todo = {r} /\ call[c].role = "none" THEN Over
                         ELSE [call[c] EXCEPT !.todo = @ \ {r},
                                        !.at = IF call[c].todo = {r} THEN "allow" ELSE "check"]]
    /\ UNCHANGED <<roleLoad, apps, grantVars, excused>>

\* add_role_for_user: who is not admin adds to an app without a role, never super_client.
CheckAdd(c) ==
    /\ call[c].at = "allow" /\ RoleRules!Read(c)
    /\ LET may == /\ MayAsk(c) /\ TypeFits(call[c].role)
                  /\ call[c].by # "admin" => Shown(c) = {} /\ call[c].role # "super_client"
       IN Goto(c, IF may THEN "add" ELSE "done")
    /\ UNCHANGED <<rows, known, apps, grantVars, excused>>

Add(c) ==
    /\ call[c].at = "add"
    /\ RoleRules!AddRule(call[c].server, <<call[c].app, call[c].role>>)
    /\ Goto(c, "done")
    /\ UNCHANGED <<roleLoad, apps, grantVars, excused>>

\* delete_app: the row goes, the roles stay.
DeleteApp(c, s, by, a) ==
    /\ Comes(c, s, "drop", by, a, "none", {})
    /\ UNCHANGED <<ruleVars, apps, grantVars, excused>>

DropApp(c) ==
    /\ call[c].at = "drop" /\ RoleRules!Read(c)
    /\ LET may == MayAsk(c) /\ (call[c].by # "admin" => "super_client" \notin Shown(c))
       IN apps' = IF may THEN apps \ {call[c].app} ELSE apps
    /\ Goto(c, "done")
    /\ UNCHANGED <<rows, known, grantVars, excused>>

\* Any other request of a client: who asks is authenticated by the rules, loaded anew.
Authenticate(c, s) ==
    /\ Comes(c, s, "look", "none", "none", "none", {})
    /\ UNCHANGED <<ruleVars, apps, grantVars, excused>>

Authenticated(c) ==
    /\ call[c].at = "look" /\ RoleRules!Read(c) /\ Goto(c, "done")
    /\ UNCHANGED <<rows, known, apps, grantVars, excused>>
-----------------------------------------------------------------------------
(* Requests about the components that the other party may run *)

\* grant_or_delete of a list of values, all registered when it comes, or of "*", which to
\* grant is all that are registered, and to delete a call of its own.
Change(c, s, kind, values, registered) ==
    /\ values \subseteq registered /\ values # {}
    /\ Comes(c, s, kind, "none", "none", "none", values)
    /\ UNCHANGED <<ruleVars, apps, grantVars, excused>>

Done(c, v) ==
    call' = [call EXCEPT ![c] = IF call[c].todo = {v} THEN Over ELSE [call[c] EXCEPT !.todo = @ \ {v}]]

\* Every operation of PermissionCasbin loads the rules first.
LoadGrants(c) ==
    /\ call[c].at \in {"give", "take", "takeAll"}
    /\ GrantRules!Load(c, call[c].server)
    /\ UNCHANGED <<ruleVars, apps, call, excused>>

GrantComponent(c) ==
    /\ call[c].at = "give" /\ GrantRules!Read(c)
    /\ \E v \in call[c].todo : GrantRules!AddRule(call[c].server, v) /\ Done(c, v)
    /\ UNCHANGED <<ruleVars, apps, excused>>

RevokeComponent(c) ==
    /\ call[c].at = "take" /\ GrantRules!Read(c)
    /\ \E v \in call[c].todo : GrantRules!RemoveRule(call[c].server, v) /\ Done(c, v)
    /\ UNCHANGED <<ruleVars, apps, excused>>

\* delete_all: only the memory forgets them, since the adapter does not delete by a
\* filter, and the next operation loads them again.
RevokeAll(c) ==
    /\ call[c].at = "takeAll" /\ GrantRules!Read(c)
    /\ GrantRules!RemoveAll(call[c].server)
    /\ Goto(c, "done")
    /\ UNCHANGED <<ruleVars, apps, excused>>
-----------------------------------------------------------------------------
\* A server dies with its requests, and loads the rules when it starts again.
ServerDies(s, threads) ==
    LET here == threads \cup {c \in Callers : call[c].server = s}
    IN /\ excused' = excused \cup {call[c].app : c \in Grading(s)}
       /\ call' = [c \in Callers |-> IF c \in here THEN Over ELSE call[c]]
       /\ RoleRules!Restart(s, here) /\ GrantRules!Restart(s, here)
       /\ UNCHANGED apps

PermissionStep ==
    \E c \in Callers :
        \/ LoadRoles(c) \/ GetRoles(c) \/ CheckDelete(c) \/ Delete(c) \/ CheckAdd(c) \/ Add(c)
        \/ DropApp(c) \/ Authenticated(c)
        \/ LoadGrants(c) \/ GrantComponent(c) \/ RevokeComponent(c) \/ RevokeAll(c)

PermissionTypeOK ==
    /\ rows \subseteq ({Boss} \cup Apps) \X Grades
    /\ known \in [Servers -> SUBSET (({Boss} \cup Apps) \X Grades)]
    /\ granted \subseteq Components /\ held \in [Servers -> SUBSET Components]
    /\ apps \subseteq Apps /\ excused \subseteq Apps

\* An app that has been graded anew, by however many requests at however many servers,
\* is left with a role: a request that deletes one adds one, and another's copy in memory
\* does not make it believe that there is nothing to write.  Excused are apps whose role
\* was deleted as such, whose grading a crash cut short, or of which another thread's load
\* gave the memory of the server a wrong picture while they were graded there.
KeepsARole ==
    \A a \in apps \ excused :
        RolesOf(a, rows) # {} \/ \E s \in Servers, c \in Callers : c \in Grading(s) /\ call[c].app = a
=============================================================================
