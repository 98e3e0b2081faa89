-------------------------- MODULE OrganizationTree --------------------------
(***************************************************************************)
(* The organization tree and who is placed in it:                          *)
(* backend/app/services/organization_service.py and the directory of       *)
(* backend/app/api/employees.py, with the walks of middleware/tenant.py.   *)
(*                                                                         *)
(* The rows of organizations form a tree by parent_id; a row without a     *)
(* parent is a company.  An employee is placed on any node, a location     *)
(* belongs to a company.  A handler reads and decides (Begin...), and      *)
(* writes later, when others may have committed; foreign keys are checked  *)
(* at the write.  A root of a node never changes while the node exists,    *)
(* so the reads of one handler are taken together.                         *)
(***************************************************************************)
EXTENDS Backend

CONSTANTS
    Admins,       \* sessions of the handlers
    SuperAdmins,  \* those of a super admin
    Granted,      \* Granted[a]: the nodes the user of session a is assigned
    Rosters,      \* which operations the sessions are asked for, as functions of the session
    Nodes,        \* ids of organizations; an id is used once
    Staff,        \* ids of employees; an id is used once
    Places,       \* ids of locations; an id is used once
    MaxGone,      \* bound of the deletions: none begins when as many rows are gone
    FirstTrees    \* trees to begin with: parents of the rows

Ops == {"none", "create", "move", "delete", "hire", "edit", "open", "close"}

ASSUME TreeAssumption ==
    /\ SuperAdmins \subseteq Admins
    /\ MaxGone \in Nat
    /\ Granted \in [Admins -> SUBSET Nodes]
    /\ Rosters \subseteq [Admins -> SUBSET Ops]
    /\ Nil \notin Nodes \cup Staff \cup Places
    /\ \A n \in Nodes : Nil # {n}
    /\ \A t \in FirstTrees :
          /\ t.units \subseteq Nodes
          /\ t.parent \in [Nodes -> t.units \cup {Nil}]
          /\ \A S \in SUBSET t.units :
                S # {} => \E n \in S : t.parent[n] \notin S

VARIABLES
    roster,    \* the roster of this run; it never changes
    units,     \* ids of the rows of organizations
    parent,    \* parent[n]: parent_id
    gone,      \* ids of deleted rows, of nodes, employees and locations
    unit,      \* unit[e]: organization_id of an employee, Nil if there is no row
    place,     \* place[e]: location_id of an employee
    company,   \* company[l]: organization_id of a location, Nil if there is no row
    request,   \* request[a]: what the handler of session a has decided
    newcomers  \* auxiliary: newcomers[a]: those placed since the handler of a read

treeVars == <<roster, units, parent, gone, unit, place, company, request, newcomers>>

-----------------------------------------------------------------------------
(* Walks over the tree (middleware/tenant.py) *)

\* What node_id reaches by parent_id downwards, with itself.
Under(top) ==
    LET closed == {S \in SUBSET units : top \in S /\ \A m \in units : parent[m] \in S => m \in S}
    IN {n \in units : top \in units /\ \A S \in closed : n \in S}

UnderAny(tops) == UNION {Under(n) : n \in tops}

Companies == {n \in units : parent[n] = Nil}

\* The company a node belongs to; Nil when there is no such row, or no root above it.
RootOf(n) ==
    LET above == {r \in Companies : n \in Under(r)}
    IN IF above = {} THEN Nil ELSE CHOOSE r \in above : TRUE

Children(n) == {m \in units : parent[m] = n}
MembersOf(ns) == {e \in Staff : unit[e] \in ns}

-----------------------------------------------------------------------------
(* Whom a request acts for (core/dependencies.py) *)

Everywhere == Nil   \* the scope None of a super admin

\* The one company a write acts in.  The header may choose among several.
Tenants(a) ==
    IF a \in SuperAdmins
    THEN Companies \cup (IF Cardinality(Companies) = 1 THEN {} ELSE {Everywhere})
    ELSE {RootOf(n) : n \in Granted[a] \cap units} \ {Nil}

\* The nodes whose sub-trees bound the directory.
NodeScopes(a) ==
    IF a \in SuperAdmins
    THEN {{r} : r \in Companies}
            \cup (IF Cardinality(Companies) = 1 THEN {} ELSE {Everywhere})
    ELSE IF Granted[a] \cap units = {} THEN {}
    ELSE {Granted[a]} \cup {Granted[a] \cap Under(r) : r \in Tenants(a)}

InTenant(n, org) == n \in units /\ (org = Everywhere \/ RootOf(n) = org)
InScope(n, scope) == n \in UnderAny(IF scope = Everywhere THEN Companies ELSE scope)

\* Variant: the bound of a global super admin is left out.
MayMoveAnywhere(n, scope, root) == InScope(n, scope)

\* Where an employee may be moved: a global super admin stays in the company.
MayMoveTo(n, scope, root) ==
    InScope(n, IF scope = Everywhere THEN {root} ELSE scope)

-----------------------------------------------------------------------------
Unset == "unset"   \* a field the body of a PUT does not carry

NoRequest == [op |-> "none", node |-> Nil, to |-> Nil, emp |-> Nil,
              place |-> Nil, barred |-> {}, locks |-> Nil]

Requests ==
    [op : Ops, node : Nodes \cup {Nil}, to : Nodes \cup {Nil, Unset},
     emp : Staff \cup {Nil}, place : Places \cup {Nil, Unset},
     barred : SUBSET Nodes, locks : Nodes \cup {Nil}]

TreeTypeOK ==
    /\ roster \in Rosters
    /\ units \subseteq Nodes
    /\ parent \in [Nodes -> Nodes \cup {Nil}]
    /\ gone \subseteq Nodes \cup Staff \cup Places
    /\ unit \in [Staff -> Nodes \cup {Nil}]
    /\ place \in [Staff -> Places \cup {Nil}]
    /\ company \in [Places -> Nodes \cup {Nil}]
    /\ request \in [Admins -> Requests]
    /\ newcomers \in [Admins -> SUBSET Staff]

TreeInit ==
    /\ \E t \in FirstTrees : units = t.units /\ parent = t.parent
    /\ roster \in Rosters
    /\ gone = {}
    /\ unit = [e \in Staff |-> Nil]
    /\ place = [e \in Staff |-> Nil]
    /\ company = [l \in Places |-> Nil]
    /\ request = [a \in Admins |-> NoRequest]
    /\ newcomers = [a \in Admins |-> {}]

Free(a) == request[a].op = "none"
May(a, op) == Free(a) /\ op \in roster[a]

Begin(a, fields) ==
    /\ request' = [request EXCEPT ![a] = fields]
    /\ newcomers' = [newcomers EXCEPT ![a] = {}]

Done(a) == request' = [request EXCEPT ![a] = NoRequest]

rows == <<roster, units, parent, gone, unit, place, company>>

-----------------------------------------------------------------------------
(* Companies and nodes *)

\* The unique code of the new row is checked by the database.
CreateOrganization(a, n) ==
    /\ May(a, "create") /\ a \in SuperAdmins
    /\ n \in Nodes \ (units \cup gone)
    /\ units' = units \cup {n}
    /\ parent' = [parent EXCEPT ![n] = Nil]
    /\ UNCHANGED <<roster, gone, unit, place, company, request, newcomers>>

BeginCreate(a, n, to) ==
    /\ May(a, "create")
    /\ n \in Nodes \ (units \cup gone)
    /\ \E org \in Tenants(a) : InTenant(to, org)
    /\ Begin(a, [NoRequest EXCEPT !.op = "create", !.node = n, !.to = to])
    /\ UNCHANGED rows

\* The foreign key refuses a parent that is gone.
Create(a) ==
    LET r == request[a] IN
    /\ r.op = "create"
    /\ r.to \in units /\ r.node \notin units \cup gone
    /\ units' = units \cup {r.node}
    /\ parent' = [parent EXCEPT ![r.node] = r.to]
    /\ Done(a)
    /\ UNCHANGED <<roster, gone, unit, place, company, newcomers>>

BeginMove(a, n, to) ==
    /\ May(a, "move")
    /\ parent[n] # Nil /\ to # parent[n]
    /\ \E org \in Tenants(a) : InTenant(n, org) /\ InTenant(to, org)
    /\ RootOf(to) = RootOf(n)
    /\ Begin(a, [NoRequest EXCEPT !.op = "move", !.node = n, !.to = to])
    /\ UNCHANGED rows

\* Variant: the guard is read without waiting for the lock.
LockNothing(a) ==
    LET r == request[a] IN
    /\ r.op = "move" /\ r.locks = Nil
    /\ r.to \notin Under(r.node)
    /\ request' = [request EXCEPT ![a] =
                     [@ EXCEPT !.locks = RootOf(r.node), !.barred = Under(r.node)]]
    /\ UNCHANGED <<rows, newcomers>>

\* The root's row lock, and the cycle guard that is read under it.
LockForMove(a) ==
    LET r == request[a]
        root == RootOf(r.node)
    IN
    /\ r.op = "move" /\ r.locks = Nil
    /\ \A b \in Admins : request[b].locks = Nil \/ request[b].locks # root
    /\ r.to \notin Under(r.node)
    /\ request' = [request EXCEPT ![a] =
                     [@ EXCEPT !.locks = root, !.barred = Under(r.node)]]
    /\ UNCHANGED <<rows, newcomers>>

\* A row that is gone is not updated, a parent that is gone is refused.
Move(a) ==
    LET r == request[a] IN
    /\ r.op = "move" /\ r.locks # Nil
    /\ {r.node, r.to} \subseteq units
    /\ r.to \notin r.barred
    /\ parent' = [parent EXCEPT ![r.node] = r.to]
    /\ Done(a)
    /\ UNCHANGED <<roster, units, gone, unit, place, company, newcomers>>

\* Variant: only sub-units are counted.
BeginDeleteUncounted(a, n) ==
    /\ May(a, "delete")
    /\ Cardinality(gone) < MaxGone
    /\ Children(n) = {}
    /\ Begin(a, [NoRequest EXCEPT !.op = "delete", !.node = n])
    /\ UNCHANGED rows

\* The counts of delete_node and of delete_organization.
BeginDelete(a, n) ==
    /\ May(a, "delete")
    /\ Cardinality(gone) < MaxGone
    /\ Children(n) = {} /\ MembersOf({n}) = {}
    /\ \/ parent[n] # Nil /\ \E org \in Tenants(a) : InTenant(n, org)
       \/ n \in Companies /\ a \in SuperAdmins
    /\ Begin(a, [NoRequest EXCEPT !.op = "delete", !.node = n])
    /\ UNCHANGED rows

\* Children make the database refuse; employees and locations go with the node,
\* and who stood on such a location has none.
Delete(a) ==
    LET n == request[a].node
        lost == MembersOf({n})
        closed == {l \in Places : company[l] = n}
    IN
    /\ request[a].op = "delete"
    /\ n \in units /\ Children(n) = {}
    /\ units' = units \ {n}
    /\ parent' = [parent EXCEPT ![n] = Nil]
    /\ gone' = gone \cup {n} \cup lost \cup closed
    /\ unit' = [e \in Staff |-> IF e \in lost THEN Nil ELSE unit[e]]
    /\ place' = [e \in Staff |->
                   IF e \in lost \/ place[e] \in closed THEN Nil ELSE place[e]]
    /\ company' = [l \in Places |-> IF l \in closed THEN Nil ELSE company[l]]
    /\ Done(a)
    /\ UNCHANGED <<roster, newcomers>>

-----------------------------------------------------------------------------
(* Locations *)

BeginOpen(a, l, n) ==
    /\ May(a, "open")
    /\ l \in Places \ gone /\ company[l] = Nil
    /\ \E org \in Tenants(a) :
          IF org = Everywhere THEN n \in Companies ELSE n = org
    /\ Begin(a, [NoRequest EXCEPT !.op = "open", !.place = l, !.to = n])
    /\ UNCHANGED rows

Open(a) ==
    LET r == request[a] IN
    /\ r.op = "open"
    /\ r.to \in units /\ company[r.place] = Nil /\ r.place \notin gone
    /\ company' = [company EXCEPT ![r.place] = r.to]
    /\ Done(a)
    /\ UNCHANGED <<roster, units, parent, gone, unit, place, newcomers>>

BeginClose(a, l) ==
    /\ May(a, "close")
    /\ company[l] # Nil
    /\ Cardinality(gone) < MaxGone
    /\ Tenants(a) \cap {company[l], Everywhere} # {}
    /\ \A e \in Staff : place[e] # l
    /\ Begin(a, [NoRequest EXCEPT !.op = "close", !.place = l])
    /\ UNCHANGED rows

Close(a) ==
    LET l == request[a].place IN
    /\ request[a].op = "close"
    /\ company[l] # Nil
    /\ company' = [company EXCEPT ![l] = Nil]
    /\ gone' = gone \cup {l}
    /\ place' = [e \in Staff |-> IF place[e] = l THEN Nil ELSE place[e]]
    /\ Done(a)
    /\ UNCHANGED <<roster, units, parent, unit, newcomers>>

-----------------------------------------------------------------------------
(* The directory *)

PlaceIn(l, root) == l \in Places => company[l] = root

BeginHire(a, e, n, l) ==
    /\ May(a, "hire")
    /\ e \in Staff \ gone /\ unit[e] = Nil
    /\ \E org \in Tenants(a) : InTenant(n, org)
    /\ \E scope \in NodeScopes(a) : InScope(n, scope)
    /\ PlaceIn(l, RootOf(n))
    /\ Begin(a, [NoRequest EXCEPT !.op = "hire", !.emp = e, !.to = n, !.place = l])
    /\ UNCHANGED rows

\* A PUT of organization_id, of location_id, or of both.  Only a location that the
\* body names is looked up, in the company the employee will be in.
BeginEdit(a, e, n, l) ==
    /\ May(a, "edit")
    /\ unit[e] # Nil
    /\ \E scope \in NodeScopes(a) :
          /\ InScope(unit[e], scope)
          /\ n # Unset => n \in units /\ MayMoveTo(n, scope, RootOf(unit[e]))
    /\ l # Unset => PlaceIn(l, RootOf(IF n = Unset THEN unit[e] ELSE n))
    /\ Begin(a, [NoRequest EXCEPT !.op = "edit", !.emp = e, !.to = n, !.place = l])
    /\ UNCHANGED rows

Placed(a, e, n, l) ==
    /\ n \in units
    /\ l \in Places => company[l] # Nil
    /\ unit' = [unit EXCEPT ![e] = n]
    /\ place' = [place EXCEPT ![e] = l]
    /\ newcomers' = [b \in Admins |->
                       IF request[b].op = "delete" THEN newcomers[b] \cup {e} ELSE {}]
    /\ Done(a)
    /\ UNCHANGED <<roster, units, parent, gone, company>>

Hire(a) ==
    LET r == request[a] IN
    /\ r.op = "hire"
    /\ unit[r.emp] = Nil /\ r.emp \notin gone
    /\ Placed(a, r.emp, r.to, r.place)

\* The UPDATE names the changed columns only, and needs the row.
Edit(a) ==
    LET r == request[a] IN
    /\ r.op = "edit"
    /\ unit[r.emp] # Nil
    /\ Placed(a, r.emp,
              IF r.to = Unset THEN unit[r.emp] ELSE r.to,
              IF r.place = Unset THEN place[r.emp] ELSE r.place)

\* The handler raises, its client is gone, or its commit fails.
Drop(a) ==
    /\ ~Free(a)
    /\ Done(a)
    /\ UNCHANGED <<rows, newcomers>>

TreeNext ==
    \E a \in Admins :
        \/ \E n \in Nodes : CreateOrganization(a, n) \/ BeginDelete(a, n)
        \/ \E n, to \in Nodes : BeginCreate(a, n, to) \/ BeginMove(a, n, to)
        \/ \E l \in Places : BeginClose(a, l) \/ \E n \in Nodes : BeginOpen(a, l, n)
        \/ \E e \in Staff, n \in Nodes, l \in Places \cup {Nil} : BeginHire(a, e, n, l)
        \/ \E e \in Staff, n \in Nodes \cup {Unset}, l \in Places \cup {Nil, Unset} :
              BeginEdit(a, e, n, l)
        \/ LockForMove(a)
        \/ Create(a) \/ Move(a) \/ Delete(a) \/ Open(a) \/ Close(a)
        \/ Hire(a) \/ Edit(a) \/ Drop(a)

TreeSpec == TreeInit /\ [][TreeNext]_treeVars

-----------------------------------------------------------------------------
(* Properties *)

\* No node is above itself: two moves that are each fine against the tree they read
\* are ordered by the lock of their company (move_node, 396-410).
NoCycle ==
    \A S \in SUBSET units : S # {} => \E n \in S : parent[n] \notin S

\* Deleting a node deletes only employees who were placed there after the deletion
\* had counted the members (delete_node, 434-440): the count bounds the cascade.
OnlyNewcomersAreLost ==
    [][\A e \in Staff : unit[e] # Nil /\ unit'[e] = Nil =>
          \E a \in Admins : request[a].op = "delete" /\ e \in newcomers[a]]_treeVars

\* An employee stands on a location of the company that employs them, however edits
\* of the unit and of the location overlap (employees.py 179-206), as long as no
\* user is granted nodes of two companies.
PlacesFitCompanies ==
    \A e \in Staff : place[e] # Nil => company[place[e]] = RootOf(unit[e])
===============================================================================
