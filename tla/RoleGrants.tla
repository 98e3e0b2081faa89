----------------------------- MODULE RoleGrants ------------------------------
(***************************************************************************)
(* The roles of api/users.py, their permissions and who has them (models   *)
(* /user.py, role_permission and role_user).  The super admin's role is    *)
(* AccountSessions'.                                                       *)
(*                                                                         *)
(* A handler loads what the tables link, and its commit inserts and        *)
(* deletes the links that differ from what it loaded; a link to insert     *)
(* that is there, or one to delete that is not, fails it.  A role that is  *)
(* deleted takes its links along.                                          *)
(***************************************************************************)
EXTENDS Backend

CONSTANTS
    Roles,        \* roles that may be made, each once
    Permissions,  \* permissions
    RoleUsers,    \* users
    RoleForms,    \* requests that may be served at a time
    MaxRoleForms  \* bound of the requests

ASSUME RoleAssumption == Nil \notin Roles \cup RoleUsers /\ MaxRoleForms \in Nat

VARIABLES
    roles,      \* "unborn", "there" or "gone"
    permitted,  \* permitted[r]: the permissions of role r
    granted,    \* granted[u]: the roles of user u
    forms,      \* forms[f]: the request f serves
    meant,      \* history: the permissions that were last asked for r
    muddled,    \* history: roles that two requests defined at once, and none alone since
    formCount

roleVars == <<roles, permitted, granted, forms, meant, muddled, formCount>>

NoForm == [op |-> "none", role |-> Nil, user |-> Nil, to |-> {}, seen |-> {},
           alone |-> TRUE]

RoleTypeOK ==
    /\ roles \in [Roles -> {"unborn", "there", "gone"}]
    /\ permitted \in [Roles -> SUBSET Permissions]
    /\ granted \in [RoleUsers -> SUBSET Roles]
    /\ \A f \in RoleForms : /\ forms[f].op \in {"none", "create", "update", "delete", "grant"}
                            /\ forms[f].role \in Roles \cup {Nil}
                            /\ forms[f].user \in RoleUsers \cup {Nil}
    /\ meant \in [Roles -> SUBSET Permissions]
    /\ muddled \subseteq Roles
    /\ formCount \in 0..MaxRoleForms

RoleInit ==
    /\ roles = [r \in Roles |-> "unborn"]
    /\ permitted = [r \in Roles |-> {}] /\ meant = permitted
    /\ granted = [u \in RoleUsers |-> {}]
    /\ forms = [f \in RoleForms |-> NoForm]
    /\ muddled = {} /\ formCount = 0

BeginForm(f, form) ==
    LET rivals == {g \in RoleForms : form.op = "update" /\ forms[g].op = "update"
                                     /\ forms[g].role = form.role} IN
    /\ forms[f] = NoForm /\ formCount < MaxRoleForms
    /\ forms' = [g \in RoleForms |->
                    IF g = f THEN [form EXCEPT !.alone = (rivals = {})]
                    ELSE [forms[g] EXCEPT !.alone = @ /\ g \notin rivals]]
    /\ formCount' = formCount + 1
    /\ UNCHANGED <<roles, permitted, granted, meant, muddled>>

FormEnds(f) == forms' = [forms EXCEPT ![f] = NoForm]

-----------------------------------------------------------------------------
(* The links that a commit writes: to is asked for, seen was loaded         *)

Fits(now, form) == form.seen \ form.to \subseteq now /\ (form.to \ form.seen) \cap now = {}

\* Variant: what is no longer asked for stays.
LinkedMore(now, form) == now \cup (form.to \ form.seen)

Linked(now, form) == (now \ (form.seen \ form.to)) \cup (form.to \ form.seen)

-----------------------------------------------------------------------------
(* create_role, update_role *)

AskDefine(f, r, to) ==
    /\ roles[r] \in {"unborn", "there"}
    /\ BeginForm(f, [NoForm EXCEPT !.op = IF roles[r] = "there" THEN "update" ELSE "create",
                                   !.role = r, !.to = to, !.seen = permitted[r]])

\* The name is unique; a link to a role that is gone fails.
CommitDefine(f) ==
    LET form == forms[f]  r == form.role IN
    /\ form.op \in {"create", "update"}
    /\ form.op = "create" => roles[r] = "unborn"
    /\ form.op = "update" /\ form.to # form.seen => roles[r] = "there"
    /\ Fits(permitted[r], form)
    /\ roles' = IF form.op = "create" THEN [roles EXCEPT ![r] = "there"] ELSE roles
    /\ permitted' = [permitted EXCEPT ![r] = Linked(@, form)]
    /\ meant' = IF roles'[r] = "there" THEN [meant EXCEPT ![r] = form.to] ELSE meant
    /\ muddled' = IF form.alone THEN muddled \ {r} ELSE muddled \cup {r}
    /\ FormEnds(f)
    /\ UNCHANGED <<granted, formCount>>

-----------------------------------------------------------------------------
(* update_user: the roles of a user *)

\* _load_roles: a role that is not there is refused.
AskGrant(f, u, to) ==
    /\ \A r \in to : roles[r] = "there"
    /\ BeginForm(f, [NoForm EXCEPT !.op = "grant", !.user = u, !.to = to, !.seen = granted[u]])

CommitGrant(f) ==
    LET form == forms[f]  u == form.user IN
    /\ form.op = "grant"
    /\ Fits(granted[u], form)
    /\ \A r \in form.to \ form.seen : roles[r] = "there"
    /\ granted' = [granted EXCEPT ![u] = Linked(@, form)]
    /\ FormEnds(f)
    /\ UNCHANGED <<roles, permitted, meant, muddled, formCount>>

-----------------------------------------------------------------------------
(* delete_role *)

\* Who has the role, as the deletion counts them.
UsersOf(r) == {u \in RoleUsers : r \in granted[u]}

AskDeleteRole(f, r) ==
    /\ roles[r] = "there" /\ UsersOf(r) = {}
    /\ BeginForm(f, [NoForm EXCEPT !.op = "delete", !.role = r, !.seen = permitted[r]])

\* The permissions that were loaded are unlinked; the grants there are by now
\* go with the role (ON DELETE CASCADE).
CommitDeleteRole(f) ==
    LET form == forms[f]  r == form.role IN
    /\ form.op = "delete" /\ roles[r] = "there"
    /\ form.seen \subseteq permitted[r]
    /\ roles' = [roles EXCEPT ![r] = "gone"]
    /\ permitted' = [permitted EXCEPT ![r] = {}]
    /\ meant' = [meant EXCEPT ![r] = {}]
    /\ granted' = [u \in RoleUsers |-> granted[u] \ {r}]
    /\ FormEnds(f)
    /\ UNCHANGED <<muddled, formCount>>

\* A conflict, or a failed commit.
FormFails(f) ==
    /\ forms[f] # NoForm
    /\ FormEnds(f)
    /\ UNCHANGED <<roles, permitted, granted, meant, muddled, formCount>>

RoleNext ==
    \E f \in RoleForms :
        \/ \E r \in Roles : AskDeleteRole(f, r) \/ \E to \in SUBSET Permissions : AskDefine(f, r, to)
        \/ \E u \in RoleUsers, to \in SUBSET Roles : AskGrant(f, u, to)
        \/ CommitDefine(f) \/ CommitGrant(f) \/ CommitDeleteRole(f) \/ FormFails(f)

RoleSpec == RoleInit /\ [][RoleNext]_roleVars

-----------------------------------------------------------------------------
(* What is claimed *)

\* A role permits what was last asked for it, unless two requests defined it
\* at once and none alone has since: what two update_role merge is a role that
\* nobody asked for.  A role that is gone permits nothing and nobody has it,
\* whatever was under way when delete_role committed.
RolesAreMeant ==
    /\ \A r \in Roles \ muddled : permitted[r] = meant[r]
    /\ \A r \in Roles : roles[r] = "gone" =>
          permitted[r] = {} /\ \A u \in RoleUsers : r \notin granted[u]
=============================================================================
