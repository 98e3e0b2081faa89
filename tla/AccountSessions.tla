---------------------------- MODULE AccountSessions ----------------------------
(***************************************************************************)
(* User accounts and their tokens: backend/app/api/auth.py, the accounts   *)
(* of backend/app/api/users.py, get_current_user and require_permission of *)
(* core/dependencies.py.                                                   *)
(*                                                                         *)
(* A token is not stored: it carries the second of the last password       *)
(* change its login read, and a request compares that with the row.  A     *)
(* login and a password change let a thread verify and hash between the    *)
(* read of the row and the commit; every handler decides by the row it     *)
(* read.  A change takes its second in the handler, after the hashing, and *)
(* commits when the handler has returned: two changes may commit in the    *)
(* other order than their seconds.  A password is the number of changes    *)
(* before it; a role is the strongest permission it gives.                 *)
(***************************************************************************)
EXTENDS Backend

CONSTANTS
    Accounts,     \* users
    Root,         \* the super admin the setup creates
    Consoles,     \* sessions of the handlers
    LastSecond,   \* bound of the clock
    LastPassword, \* bound of the changes of a password
    MaxLogons     \* bound of the handlers

Ranks == {"super", "manager", "plain"}   \* super_admin; users.manage; neither
AdminOps == {"create", "reset", "deactivate", "activate", "rank"}

ASSUME AccountAssumption ==
    /\ Root \in Accounts
    /\ LastSecond \in Nat \ {0} /\ LastPassword \in Nat /\ MaxLogons \in Nat
    /\ Nil \notin Ranks

VARIABLES
    second,    \* the clock
    accounts,  \* the row of each user; no rank: there is none
    tokens,    \* tokens issued
    changes,   \* auxiliary: changes[a]: password changes of a committed
    hasty,     \* auxiliary: accounts with a change whose second is not after that of the one before
    consoles,  \* consoles[c]: what the handler in session c has read
    logons,    \* handlers begun
    meddled    \* auxiliary: two administrators acted at the same time

accountVars == <<second, accounts, tokens, changes, hasty, consoles, logons, meddled>>

Absent == [rank |-> Nil, active |-> FALSE, password |-> 0, stamp |-> 0, legacy |-> FALSE]
NoConsole == [op |-> "none", actor |-> Nil, target |-> Nil, row |-> Absent, rank |-> Nil,
              epoch |-> 0, stamp |-> 0]

AccountRows == [rank : Ranks \cup {Nil}, active : BOOLEAN, password : 0..LastPassword,
                stamp : 0..LastSecond, legacy : BOOLEAN]

AccountTypeOK ==
    /\ second \in 0..LastSecond
    /\ accounts \in [Accounts -> AccountRows]
    /\ tokens \subseteq [who : Accounts, stamp : 0..LastSecond, epoch : 0..LastPassword]
    /\ changes \in [Accounts -> 0..LastPassword]
    /\ hasty \subseteq Accounts
    /\ \A c \in Consoles : consoles[c].op \in AdminOps \cup {"none", "login", "change"}
                           /\ consoles[c].row \in AccountRows
                           /\ consoles[c].stamp \in 0..LastSecond
    /\ logons \in 0..MaxLogons
    /\ meddled \in BOOLEAN

\* The setup creates the super admin; accounts of an older release have a bcrypt hash.
AccountInit ==
    /\ second = 1
    /\ \E legacy \in BOOLEAN :
          accounts = [a \in Accounts |->
              IF a = Root THEN [Absent EXCEPT !.rank = "super", !.active = TRUE, !.legacy = legacy]
              ELSE Absent]
    /\ tokens = {}
    /\ changes = [a \in Accounts |-> 0]
    /\ hasty = {}
    /\ consoles = [c \in Consoles |-> NoConsole]
    /\ logons = 0
    /\ meddled = FALSE

-----------------------------------------------------------------------------
\* get_current_user.
Accepted(t) == accounts[t.who].active /\ t.stamp >= accounts[t.who].stamp

SignedIn(a) == \E t \in tokens : t.who = a /\ Accepted(t)

Busy(c) == consoles[c].op # "none"

\* Two administrators are in the middle of an update.
Meddling(c) == \E e \in Consoles \ {c} : consoles[e].op \in AdminOps

OpenConsole(c, k) ==
    /\ ~Busy(c)
    /\ logons < MaxLogons
    /\ logons' = logons + 1
    /\ consoles' = [consoles EXCEPT ![c] = k]
    /\ UNCHANGED <<second, accounts, tokens, changes, hasty>>

Shut(c) == consoles' = [consoles EXCEPT ![c] = NoConsole]

\* login reads the row; the password it is given is the one of that row.
Login(c, a) ==
    /\ accounts[a].active
    /\ OpenConsole(c, [NoConsole EXCEPT !.op = "login", !.actor = a, !.target = a,
                                 !.row = accounts[a], !.epoch = changes[a]])
    /\ UNCHANGED meddled

\* register: an account without permissions, and its token at once.
RegisterAccount(c, a) ==
    /\ accounts[a].rank = Nil /\ ~Busy(c)
    /\ logons < MaxLogons
    /\ logons' = logons + 1
    /\ accounts' = [accounts EXCEPT ![a] = [Absent EXCEPT !.rank = "plain", !.active = TRUE]]
    /\ tokens' = tokens \cup {[who |-> a, stamp |-> 0, epoch |-> 0]}
    /\ UNCHANGED <<second, changes, hasty, consoles, meddled>>

\* The token carries the stamp of the row as read; a legacy hash is replaced by a new one
\* of the same password.
IssueToken(c) ==
    LET k == consoles[c] IN
    /\ k.op = "login"
    /\ tokens' = tokens \cup {[who |-> k.actor, stamp |-> k.row.stamp, epoch |-> k.epoch]}
    /\ accounts' = IF k.row.legacy
                   THEN [accounts EXCEPT ![k.actor].password = k.row.password,
                                         ![k.actor].legacy = FALSE]
                   ELSE accounts
    /\ Shut(c)
    /\ UNCHANGED <<second, changes, hasty, logons, meddled>>

ChangePassword(c, a) ==
    /\ SignedIn(a)
    /\ OpenConsole(c, [NoConsole EXCEPT !.op = "change", !.actor = a, !.target = a, !.row = accounts[a]])
    /\ UNCHANGED meddled

\* The handler has hashed the new password and takes the second of the change.
StampPassword(c) ==
    /\ consoles[c].op \in {"change", "reset"} /\ consoles[c].stamp = 0
    /\ consoles' = [consoles EXCEPT ![c].stamp = second]
    /\ UNCHANGED <<second, accounts, tokens, changes, hasty, logons, meddled>>

\* Variant: a reset leaves the stamp alone.
StampedNever(row, a, stamp) == [row EXCEPT !.password = changes[a] + 1, !.legacy = FALSE]

\* The new hash, and the second of the change.
Stamped(row, a, stamp) ==
    [row EXCEPT !.password = changes[a] + 1, !.legacy = FALSE, !.stamp = stamp]

\* The commit of change_password and of a reset by an administrator, with the second that
\* the handler took; neither looks at the row again.
CommitPassword(c) ==
    LET k == consoles[c]
        a == k.target
    IN
    /\ k.op \in {"change", "reset"} /\ k.stamp # 0
    /\ changes[a] < LastPassword
    /\ accounts' = [accounts EXCEPT ![a] = Stamped(@, a, k.stamp)]
    /\ changes' = [changes EXCEPT ![a] = @ + 1]
    /\ hasty' = IF k.stamp <= accounts[a].stamp THEN hasty \cup {a} ELSE hasty
    /\ Shut(c)
    /\ UNCHANGED <<second, tokens, logons, meddled>>

-----------------------------------------------------------------------------
(* Administration of accounts *)

\* Variant: an administrator may give up the own role.
KeepsOwnRankNot(op, actor, target, row, rank) == op = "deactivate" => target # actor

\* Nobody deactivates the own account or gives up the own super admin role.
KeepsOwnRank(op, actor, target, row, rank) ==
    /\ op = "deactivate" => target # actor
    /\ op = "rank" /\ target = actor /\ row.rank = "super" => rank = "super"

\* Only a super admin grants or revokes the role, and modifies who has it.
OnlySuper(actor, row, rank) ==
    accounts[actor].rank = "super" \/ (row.rank # "super" /\ rank # "super")

Administer(c, op, actor, target, rank) ==
    LET row == accounts[target] IN
    /\ SignedIn(actor) /\ accounts[actor].rank \in {"super", "manager"}
    /\ (op = "create") <=> (row.rank = Nil)
    /\ op \in {"create", "rank"} \/ rank = "plain"
    /\ op = "deactivate" => row.active
    /\ op = "activate" => ~row.active
    /\ OnlySuper(actor, row, rank)
    /\ KeepsOwnRank(op, actor, target, row, rank)
    /\ OpenConsole(c, [NoConsole EXCEPT !.op = op, !.actor = actor, !.target = target,
                                 !.row = row, !.rank = rank])
    /\ meddled' = (meddled \/ Meddling(c))

CreateUser(c, actor, target, rank) == Administer(c, "create", actor, target, rank)

UpdateUser(c, op, actor, target, rank) ==
    op # "create" /\ Administer(c, op, actor, target, rank)

\* The commit of create_user: the email is unique.
CommitUser(c) ==
    LET k == consoles[c] IN
    /\ k.op = "create" /\ accounts[k.target].rank = Nil
    /\ accounts' = [accounts EXCEPT ![k.target] = [Absent EXCEPT !.rank = k.rank, !.active = TRUE]]
    /\ Shut(c)
    /\ UNCHANGED <<second, tokens, changes, hasty, logons, meddled>>

\* The commit of update_user.
CommitUpdate(c) ==
    LET k == consoles[c]
        a == k.target
    IN
    /\ \/ k.op = "rank" /\ accounts' = [accounts EXCEPT ![a].rank = k.rank]
       \/ k.op = "deactivate" /\ accounts' = [accounts EXCEPT ![a].active = FALSE]
       \/ k.op = "activate" /\ accounts' = [accounts EXCEPT ![a].active = TRUE]
    /\ Shut(c)
    /\ UNCHANGED <<second, tokens, changes, hasty, logons, meddled>>

ConsoleFails(c) ==
    /\ Busy(c)
    /\ Shut(c)
    /\ UNCHANGED <<second, accounts, tokens, changes, hasty, logons, meddled>>

SecondPasses ==
    /\ second < LastSecond
    /\ second' = second + 1
    /\ UNCHANGED <<accounts, tokens, changes, hasty, consoles, logons, meddled>>

AccountNext ==
    \/ \E c \in Consoles :
          \/ \E a \in Accounts :
                \/ Login(c, a) \/ RegisterAccount(c, a) \/ ChangePassword(c, a)
                \/ \E b \in Accounts, rank \in Ranks :
                      CreateUser(c, a, b, rank) \/ \E op \in AdminOps : UpdateUser(c, op, a, b, rank)
          \/ IssueToken(c) \/ StampPassword(c) \/ CommitPassword(c)
          \/ CommitUser(c) \/ CommitUpdate(c) \/ ConsoleFails(c)
    \/ SecondPasses

AccountSpec == AccountInit /\ [][AccountNext]_accountVars

-----------------------------------------------------------------------------
(* Properties *)

\* A token whose login read the account before the latest password change or reset is
\* refused, also when the login was answered after the change.  The exception is an account
\* of which two changes took one second - stamps are compared in whole seconds - or were
\* committed in the other order than they took theirs, which nothing in the handlers
\* prevents (issue_token, get_current_user, change_password, update_user).
TokensEndWithPassword ==
    \A t \in tokens :
        Accepted(t) => t.epoch = changes[t.who] \/ t.who \in hasty

\* However administrators promote, demote and deactivate each other one after the other,
\* an active super admin remains (update_user). Two at the same time may demote each other.
SuperAdminRemains ==
    meddled \/ \E a \in Accounts : accounts[a].active /\ accounts[a].rank = "super"
===============================================================================
