------------------------------ MODULE DutyRules ------------------------------
(***************************************************************************)
(* What a company's attendance is judged by: the policies and the holidays *)
(* of services/shift_service.py and api/shifts.py.                         *)
(*                                                                         *)
(* _get_policy (services/attendance_service.py) takes the default policy,  *)
(* the first that comes when there are two.  Shifts and leave requests are *)
(* left out: no shift can be assigned and no leave asked for through the   *)
(* API, whose handlers hand the text of a date to a DATE column.           *)
(***************************************************************************)
EXTENDS Backend

CONSTANTS
    Policies,      \* policies of the company
    RuleCalls,     \* requests that may be served at a time
    Branches,      \* locations of the company
    MaxRuleCalls   \* bound of the requests

ASSUME DutyAssumption == Nil \notin Policies \cup Branches \cup BOOLEAN /\ MaxRuleCalls \in Nat

VARIABLES
    policies,     \* policies[p]: is it there, is it the default
    ruleCalls,    \* ruleCalls[c]: the request c serves
    bothDefault,  \* history: two requests chose a default at once, and none alone since
    holidays,     \* holidays[b]: rows of one date for branch b; Nil for the company
    branches,     \* the branches that are there
    ruleCount

dutyVars == <<policies, ruleCalls, bothDefault, holidays, branches, ruleCount>>

NoRuleCall == [op |-> "none", stage |-> "none", policy |-> Nil, default |-> Nil,
               seen |-> FALSE, others |-> {}, alone |-> TRUE]

DutyTypeOK ==
    /\ policies \in [Policies -> [there : BOOLEAN, default : BOOLEAN]]
    /\ ruleCalls \in [RuleCalls -> [op : {"none", "create", "update"}, stage : {"none", "read", "cleared"},
                                    policy : Policies \cup {Nil}, default : BOOLEAN \cup {Nil},
                                    seen : BOOLEAN, others : SUBSET Policies, alone : BOOLEAN]]
    /\ bothDefault \in BOOLEAN
    /\ holidays \in [Branches \cup {Nil} -> 0..2]
    /\ branches \subseteq Branches
    /\ ruleCount \in 0..MaxRuleCalls

DutyInit ==
    /\ policies = [p \in Policies |-> [there |-> FALSE, default |-> FALSE]]
    /\ ruleCalls = [c \in RuleCalls |-> NoRuleCall]
    /\ bothDefault = FALSE
    /\ holidays = [b \in Branches \cup {Nil} |-> 0]
    /\ branches = Branches
    /\ ruleCount = 0

-----------------------------------------------------------------------------
(* create_policy and update_policy *)

\* Requests that choose a default.
Chooses(call) == call.default = TRUE

\* An update reads its row; what is not sent is Nil and stays.
BeginPolicy(c, op, p, default) ==
    LET call == [NoRuleCall EXCEPT !.op = op, !.stage = "read", !.policy = p,
                                   !.default = default, !.seen = policies[p].default]
        rivals == {d \in RuleCalls : Chooses(ruleCalls[d]) /\ Chooses(call)}
    IN
    /\ ruleCalls[c] = NoRuleCall /\ ruleCount < MaxRuleCalls
    /\ policies[p].there = (op = "update")
    /\ op = "create" => default # Nil /\ \A d \in RuleCalls : ruleCalls[d].policy # p
    /\ ruleCalls' = [d \in RuleCalls |->
                        IF d = c THEN [call EXCEPT !.alone = (rivals = {})]
                        ELSE [ruleCalls[d] EXCEPT !.alone = @ /\ d \notin rivals]]
    /\ ruleCount' = ruleCount + 1
    /\ UNCHANGED <<policies, bothDefault, holidays, branches>>

\* Variant: an update leaves the other defaults to the next one who creates.
DefaultsOfCreate(p, op) == IF op = "update" THEN {} ELSE {q \in Policies : policies[q].default}

\* _clear_default_policies: the defaults that are committed, but for the policy
\* that is updated.
OtherDefaults(p, op) ==
    {q \in Policies : policies[q].default /\ ~(op = "update" /\ q = p)}

ClearDefaults(c) ==
    LET call == ruleCalls[c] IN
    /\ call.stage = "read" /\ Chooses(call)
    /\ ruleCalls' = [ruleCalls EXCEPT ![c].stage = "cleared",
                                      ![c].others = OtherDefaults(call.policy, call.op)]
    /\ UNCHANGED <<policies, bothDefault, holidays, branches, ruleCount>>

\* The others that were read as defaults lose it; the policy's own column is
\* written if it differs from what was read.
CommitPolicy(c) ==
    LET call == ruleCalls[c]
        own == IF call.op = "create" THEN call.default
               ELSE IF call.default \in {Nil, call.seen} THEN policies[call.policy].default
               ELSE call.default
    IN
    /\ call.stage = (IF Chooses(call) THEN "cleared" ELSE "read") /\ call.op # "none"
    /\ policies' = [q \in Policies |->
                       IF q = call.policy THEN [there |-> TRUE, default |-> own]
                       ELSE [policies[q] EXCEPT !.default = @ /\ q \notin call.others]]
    /\ bothDefault' = IF Chooses(call) THEN ~call.alone ELSE bothDefault
    /\ ruleCalls' = [ruleCalls EXCEPT ![c] = NoRuleCall]
    /\ UNCHANGED <<holidays, branches, ruleCount>>

\* Two requests that wait for each other, or a failed commit.
AbortPolicy(c) ==
    /\ ruleCalls[c] # NoRuleCall
    /\ ruleCalls' = [ruleCalls EXCEPT ![c] = NoRuleCall]
    /\ UNCHANGED <<policies, bothDefault, holidays, branches, ruleCount>>

-----------------------------------------------------------------------------
(* Holidays of one date *)

\* Variant: one index on the three columns, to which two NULLs are distinct.
UniqueHolidayWithNulls(h) == \A b \in Branches : h[b] <= 1

\* The two partial unique indexes: one row for the company, one for a branch.
UniqueHoliday(h) == \A b \in DOMAIN h : h[b] <= 1

\* create_holiday: a second one fails, and waits for the first if it must.
CreateHoliday(b) ==
    LET h == [holidays EXCEPT ![b] = @ + 1] IN
    /\ b \in branches \cup {Nil} /\ holidays[b] < 2 /\ UniqueHoliday(h)
    /\ holidays' = h
    /\ UNCHANGED <<policies, ruleCalls, bothDefault, branches, ruleCount>>

\* delete_location: its holidays become the company's (ON DELETE SET NULL);
\* the deletion fails where the company has one on that date.
DeleteBranch(b) ==
    LET h == [holidays EXCEPT ![Nil] = @ + holidays[b], ![b] = 0] IN
    /\ b \in branches /\ h[Nil] <= 2 /\ UniqueHoliday(h)
    /\ holidays' = h
    /\ branches' = branches \ {b}
    /\ UNCHANGED <<policies, ruleCalls, bothDefault, ruleCount>>

DutyNext ==
    \/ \E c \in RuleCalls, op \in {"create", "update"}, p \in Policies,
          default \in BOOLEAN \cup {Nil} : BeginPolicy(c, op, p, default)
    \/ \E c \in RuleCalls : ClearDefaults(c) \/ CommitPolicy(c) \/ AbortPolicy(c)
    \/ \E b \in Branches \cup {Nil} : CreateHoliday(b)
    \/ \E b \in Branches : DeleteBranch(b)

DutySpec == DutyInit /\ [][DutyNext]_dutyVars

-----------------------------------------------------------------------------
(* What is claimed *)

\* A check-in is judged by one policy and a date has one holiday for the
\* company: there are never two defaults for _get_policy to choose from
\* unless two requests set one at once, and one request alone mends that;
\* nor two holidays, however branches that had one are deleted.
RulesAreUnambiguous ==
    /\ bothDefault \/ Cardinality({p \in Policies : policies[p].default}) <= 1
    /\ \A b \in DOMAIN holidays : holidays[b] <= 1
=============================================================================
