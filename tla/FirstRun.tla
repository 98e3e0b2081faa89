------------------------------- MODULE FirstRun -------------------------------
(***************************************************************************)
(* The setup wizard of a fresh installation: backend/app/api/setup.py, the *)
(* migration thread of services/setup_migrations.py, the roles of services *)
(* /bootstrap.py and reconfigure_engine of core/database.py.               *)
(*                                                                         *)
(* The thread works on the database the settings name, requests on the one *)
(* the engine was built for; a rename parts the two until it has ended.    *)
(* Sessions are READ COMMITTED, and an insert waits for one of the same    *)
(* unique key that is not committed yet.                                   *)
(***************************************************************************)
EXTENDS Backend

CONSTANTS
    Databases,  \* names the wizard may be given
    Configured, \* the one in the configuration
    WizardTabs,  \* requests that may be served at a time
    Emails,     \* addresses of the first administrators
    MaxVisits   \* bound of the requests

ASSUME FirstRunAssumption ==
    Configured \in Databases /\ Nil \notin Databases \cup Emails /\ MaxVisits \in Nat

VARIABLES
    databases, \* databases[d]: is it there, is its schema at head, has it roles,
               \* how many organizations, and whose are its super admins
    chosen,    \* settings.db_database, and DB_DATABASE in .env
    engineOn,  \* the database the engine's sessions are on
    status,    \* _state["status"]
    thread,    \* the migration thread
    visits,    \* visits[v]: the request v serves
    visitCount

firstVars == <<databases, chosen, engineOn, status, thread, visits, visitCount>>

NoVisit == [stage |-> "none", on |-> Nil, email |-> Nil, sawRoles |-> FALSE,
            newRoles |-> FALSE, newOrg |-> FALSE]
NoMigration == [stage |-> "none", name |-> Nil, renamed |-> FALSE]

FirstRunTypeOK ==
    /\ databases \in [Databases -> [there : BOOLEAN, head : BOOLEAN, roles : BOOLEAN,
                                    orgs : 0..MaxVisits, admins : SUBSET Emails]]
    /\ {chosen, engineOn} \subseteq Databases
    /\ status \in {"idle", "running", "done", "failed"}
    /\ thread \in [stage : {"none", "rename", "ensure", "upgrade", "reconnect"},
                   name : Databases \cup {Nil}, renamed : BOOLEAN]
    /\ DOMAIN visits = WizardTabs
    /\ visitCount \in 0..MaxVisits

NotThere == [there |-> FALSE, head |-> FALSE, roles |-> FALSE, orgs |-> 0, admins |-> {}]

FirstRunInit ==
    /\ databases = [d \in Databases |-> NotThere]
    /\ chosen = Configured /\ engineOn = Configured
    /\ status = "idle" /\ thread = NoMigration
    /\ visits = [v \in WizardTabs |-> NoVisit]
    /\ visitCount = 0

Visit(v, visit) ==
    /\ visits[v].stage = "none" /\ visitCount < MaxVisits
    /\ visits' = [visits EXCEPT ![v] = visit]
    /\ visitCount' = visitCount + 1

Leaves(v) == visits' = [visits EXCEPT ![v] = NoVisit]

-----------------------------------------------------------------------------
(* POST /setup/database *)

\* _admin_exists_safe: an unusable database has no admin.
AdminExists(d) == databases[d].head /\ databases[d].admins # {}

\* start_database_setup looks at the database the settings name, and for
\* the admin where the engine is.
AskMigration(v, name) ==
    /\ ~(databases[chosen].head /\ AdminExists(engineOn))
    /\ Visit(v, [NoVisit EXCEPT !.stage = "allowed", !.on = name])
    /\ UNCHANGED <<databases, chosen, engineOn, status, thread>>

\* start_migration, under the lock: one thread at a time.
StartMigration(v) ==
    /\ visits[v].stage = "allowed"
    /\ IF status = "running" THEN UNCHANGED <<status, thread>>
       ELSE /\ status' = "running"
            /\ thread' = [NoMigration EXCEPT !.stage = "rename", !.name = visits[v].on]
    /\ Leaves(v)
    /\ UNCHANGED <<databases, chosen, engineOn, visitCount>>

Rename ==
    LET renamed == thread.name # Nil /\ thread.name # chosen IN
    /\ thread.stage = "rename"
    /\ chosen' = IF renamed THEN thread.name ELSE chosen
    /\ thread' = [thread EXCEPT !.stage = "ensure", !.renamed = renamed]
    /\ UNCHANGED <<databases, engineOn, status, visits, visitCount>>

EnsureDatabase ==
    /\ thread.stage = "ensure"
    /\ databases' = [databases EXCEPT ![chosen].there = TRUE]
    /\ thread' = [thread EXCEPT !.stage = "upgrade"]
    /\ UNCHANGED <<chosen, engineOn, status, visits, visitCount>>

Upgrade ==
    /\ thread.stage = "upgrade"
    /\ databases' = [databases EXCEPT ![chosen].head = TRUE]
    /\ thread' = [thread EXCEPT !.stage = "reconnect"]
    /\ UNCHANGED <<chosen, engineOn, status, visits, visitCount>>

\* reconfigure_engine, of a database that was renamed only.
Reconnect ==
    /\ thread.stage = "reconnect"
    /\ engineOn' = IF thread.renamed THEN chosen ELSE engineOn
    /\ status' = "done" /\ thread' = NoMigration
    /\ UNCHANGED <<databases, chosen, visits, visitCount>>

\* Variant: an error ends the thread and nothing else.
MigrationVanishes ==
    /\ thread.stage # "none"
    /\ thread' = NoMigration
    /\ UNCHANGED <<databases, chosen, engineOn, status, visits, visitCount>>

\* Whatever is raised ends the attempt; the name stays changed.
MigrationFails ==
    /\ thread.stage # "none"
    /\ status' = "failed" /\ thread' = NoMigration
    /\ UNCHANGED <<databases, chosen, engineOn, visits, visitCount>>

Migrate == Rename \/ EnsureDatabase \/ Upgrade \/ Reconnect \/ MigrationFails

-----------------------------------------------------------------------------
(* POST /setup: run_setup and ensure_roles_and_permissions *)

\* The session is opened and super_admin_exists asked.
BeginSetup(v, email) ==
    /\ databases[engineOn].head /\ ~AdminExists(engineOn)
    /\ Visit(v, [NoVisit EXCEPT !.stage = "begun", !.on = engineOn, !.email = email])
    /\ UNCHANGED <<databases, chosen, engineOn, status, thread>>

ReadRoles(v) ==
    /\ visits[v].stage = "begun"
    /\ visits' = [visits EXCEPT ![v].stage = "read",
                                ![v].sawRoles = databases[visits[v].on].roles]
    /\ UNCHANGED <<databases, chosen, engineOn, status, thread, visitCount>>

\* Variant: the roles of another setup are taken as found when they are inserted.
InsertRolesIfMissing(v) ==
    /\ visits[v].stage = "read"
    /\ visits' = [visits EXCEPT ![v].stage = "roles", ![v].newRoles = ~visits[v].sawRoles]
    /\ UNCHANGED <<databases, chosen, engineOn, status, thread, visitCount>>

\* Role names and addresses are unique: the insert waits for whoever is
\* inserting them too, and fails if they are there by then.
InsertRoles(v) ==
    LET visit == visits[v] IN
    /\ visit.stage = "read"
    /\ visit.sawRoles \/ (/\ ~databases[visit.on].roles
                          /\ \A u \in WizardTabs : visits[u].on = visit.on => ~visits[u].newRoles)
    /\ visits' = [visits EXCEPT ![v].stage = "roles", ![v].newRoles = ~visit.sawRoles]
    /\ UNCHANGED <<databases, chosen, engineOn, status, thread, visitCount>>

InsertAdmin(v) ==
    LET visit == visits[v] IN
    /\ visit.stage = "roles"
    /\ visit.email \notin databases[visit.on].admins
    /\ \A u \in WizardTabs : visits[u].on = visit.on /\ visits[u].email = visit.email
                              => visits[u].stage # "admin"
    /\ visits' = [visits EXCEPT ![v].stage = "admin", ![v].newOrg = (databases[visit.on].orgs = 0)]
    /\ UNCHANGED <<databases, chosen, engineOn, status, thread, visitCount>>

CommitSetup(v) ==
    LET visit == visits[v] IN
    /\ visit.stage = "admin"
    /\ databases' = [databases EXCEPT ![visit.on].roles = TRUE,
                                      ![visit.on].orgs = IF visit.newOrg THEN @ + 1 ELSE @,
                                      ![visit.on].admins = @ \cup {visit.email}]
    /\ Leaves(v)
    /\ UNCHANGED <<chosen, engineOn, status, thread, visitCount>>

\* A conflict, a pool that was disposed, or any other error: rolled back.
AbortVisit(v) ==
    /\ visits[v].stage # "none"
    /\ Leaves(v)
    /\ UNCHANGED <<databases, chosen, engineOn, status, thread, visitCount>>

\* The process starts again, on the database .env names.
RestartBackend ==
    /\ thread # NoMigration \/ engineOn # chosen
    /\ engineOn' = chosen
    /\ status' = "idle" /\ thread' = NoMigration
    /\ visits' = [v \in WizardTabs |-> NoVisit]
    /\ UNCHANGED <<databases, chosen, visitCount>>

FirstRunNext ==
    \/ \E v \in WizardTabs, name \in Databases \cup {Nil} : AskMigration(v, name)
    \/ \E v \in WizardTabs, email \in Emails : BeginSetup(v, email)
    \/ \E v \in WizardTabs : \/ StartMigration(v)
                            \/ ReadRoles(v)
                            \/ InsertRoles(v)
                            \/ InsertAdmin(v)
                            \/ CommitSetup(v)
                            \/ AbortVisit(v)
    \/ Migrate
    \/ RestartBackend

\* The thread runs until it returns or raises.
FirstRunFairness == WF_firstVars(Migrate)
FirstRunSpec == FirstRunInit /\ [][FirstRunNext]_firstVars /\ FirstRunFairness

-----------------------------------------------------------------------------
(* What is claimed *)

\* However setups overlap, are aborted or are parted by a rename and a restart, they
\* leave a database with one organization at most, and with that one as soon as it
\* has a super admin: "single-org deployments rely on there being exactly one".  No
\* lock says so; the unique names of the roles, inserted before the organization is
\* looked for, let one first setup through at a time (run_setup).
OneOrganization ==
    \A d \in Databases :
        /\ databases[d].orgs <= 1
        /\ databases[d].admins # {} => databases[d].orgs = 1

\* A migration that fails at any point does not leave the wizard running for
\* ever, refusing to start another one (setup_migrations.py, _run).
MigrationSettles == (status = "running") ~> (status # "running")
=============================================================================
