----------------------------- MODULE TokenRoles -----------------------------
(***************************************************************************)
(* Roles in the auth service: the tables roles and user_roles, the         *)
(* requests that change them, and the two places their names are copied    *)
(* to: the payload of a user that Redis keeps for the next refresh, and    *)
(* the access tokens, which nobody can take back. Redis keeps a payload as *)
(* long as an access token lives.                                          *)
(*                                                                         *)
(* The changes of the roles themselves are one statement each, and the     *)
(* checks before it decide which error is answered. An assignment is read  *)
(* and written in two, and between them another thread may write it too.   *)
(* The unique index of the model classes is in no migration, so that the   *)
(* table may hold one assignment twice.                                    *)
(* Which refresh tokens are accepted is left to AuthSessions: here every   *)
(* user may refresh at any time.                                           *)
(***************************************************************************)
EXTENDS Naturals, FiniteSets

CONSTANTS
    Members,        \* users
    Names,          \* names of roles
    Accepted,       \* the names that jwt_accept_roles lets pass: admin and root
    RoleIds,        \* ids of roles, used once each
    FirstMember,    \* the user that the command line makes an admin,
    FirstId,        \* the id of the role admin and
    FirstName,      \* its name
    Unused, Deleted,  \* names of ids without a role: before, and after it
    Lifetime,       \* of an access token and of a payload
    Workers,        \* threads of flask
    NoRequest       \* "no request"

ASSUME RolesAssumption ==
    /\ FirstMember \in Members /\ FirstId \in RoleIds
    /\ FirstName \in Accepted /\ Accepted \subseteq Names
    /\ Unused \notin Names /\ Deleted \notin Names /\ Unused # Deleted
    /\ Lifetime \in Nat \ {0}

VARIABLES
    roleName,       \* roleName[r]: the name of the role r
    assigned,       \* the table user_roles: the assignments that it holds,
    doubled,        \* and those that it holds in more than one row
    cached,         \* cached[u]: the payload of u, its names and the time it has left
    token,          \* token[u][x]: the time left to the last access token of u with x
    request,        \* request[t]: what the thread t does
    age,            \* history: age[u][x]: the time since u lost the name x
    raced           \* history: assignments that two grants wrote having read none

rolesVars == <<roleName, assigned, doubled, cached, token, request, age, raced>>

\* An age that no property tells from greater ones.
Never == 2 * Lifetime + 1

\* A login has read the user; a change of an assignment has read the roles of
\* the user, had and many tell whether r was among them, once or more often, and
\* met whether the assignment was as asked for at some time of the request.
Request ==
    [op : {"login"}, u : Members, names : SUBSET Names]
    \cup [op : {"grant", "revoke"}, u : Members, r : RoleIds, had : BOOLEAN,
          many : BOOLEAN, met : BOOLEAN, answered : BOOLEAN]

\* Every copy of a name is bounded in time, every request is one of the kinds
\* that the threads serve.
RolesTypeOK ==
    /\ roleName \in [RoleIds -> Names \cup {Unused, Deleted}]
    /\ assigned \subseteq Members \X RoleIds /\ doubled \subseteq assigned
    /\ cached \in [Members -> [names : SUBSET Names, left : 0 .. Lifetime]]
    /\ token \in [Members -> [Names -> 0 .. Lifetime]]
    /\ request \in [Workers -> Request \cup {NoRequest}]
    /\ age \in [Members -> [Names -> 0 .. Never]]
    /\ raced \subseteq Members \X RoleIds

\* insert_roles and insert_fake_users: the role admin and a user who has it.
RolesInit ==
    /\ roleName = [r \in RoleIds |-> IF r = FirstId THEN FirstName ELSE Unused]
    /\ assigned = {<<FirstMember, FirstId>>} /\ doubled = {}
    /\ cached = [u \in Members |-> [names |-> {}, left |-> 0]]
    /\ token = [u \in Members |-> [x \in Names |-> 0]]
    /\ request = [t \in Workers |-> NoRequest]
    /\ age = [u \in Members |-> [x \in Names |->
                IF u = FirstMember /\ x = FirstName THEN 0 ELSE Never]]
    /\ raced = {}

Exists(r) == roleName[r] \in Names
Taken == {roleName[r] : r \in RoleIds} \cap Names

\* user.roles_list()
NamesOf(u) == {roleName[r] : r \in {s \in RoleIds : <<u, s>> \in assigned}}

\* jwt_accept_roles looks at the names in the token, not at the database.
Authorised == \E u \in Members, x \in Accepted : token[u][x] > 0

Changing(t) == request[t] # NoRequest /\ request[t].op \in {"grant", "revoke"}
Pair(q) == <<q.u, q.r>>
AsAsked(q, table) == (Pair(q) \in table) <=> (q.op = "grant")

\* A grant that has read the roles of u without r and has not written yet.
Granting(u, r) ==
    \E t \in Workers : /\ Changing(t) /\ request[t].op = "grant" /\ Pair(request[t]) = <<u, r>>
                      /\ ~request[t].had /\ ~request[t].answered

\* The table becomes what it is now; the requests notice.
Notice(threads) ==
    request' = [t \in Workers |->
        IF threads[t] # NoRequest /\ threads[t].op \in {"grant", "revoke"}
        THEN [threads[t] EXCEPT !.met = @ \/ AsAsked(threads[t], assigned')]
        ELSE threads[t]]

Ages ==
    age' = [u \in Members |-> [x \in Names |-> IF x \in NamesOf(u)' THEN 0 ELSE age[u][x]]]

-----------------------------------------------------------------------------
\* add_role: the check and the unique name.
AddRole(r, x) ==
    /\ Authorised
    /\ roleName[r] = Unused /\ x \notin Taken
    /\ roleName' = [roleName EXCEPT ![r] = x]
    /\ UNCHANGED <<assigned, doubled, cached, token, request, age, raced>>

\* update_role: the unique name keeps another role's name out.
UpdateRole(r, x) ==
    /\ Authorised
    /\ Exists(r) /\ x \notin Taken
    /\ roleName' = [roleName EXCEPT ![r] = x]
    /\ UNCHANGED <<assigned, doubled, cached, token, request, raced>>
    /\ Ages

\* delete_role: its assignments go with it (ondelete CASCADE).
DeleteRole(r) ==
    /\ Authorised
    /\ Exists(r)
    /\ roleName' = [roleName EXCEPT ![r] = Deleted]
    /\ assigned' = {p \in assigned : p[2] # r}
    /\ doubled' = {p \in doubled : p[2] # r}
    /\ Notice(request)
    /\ Ages
    /\ UNCHANGED <<cached, token, raced>>

\* add_user_role and delete_user_role up to the change of user.roles, which
\* loads the list; without the role the request ends in 404 or 500. remove
\* raises when the role is not in the list. Of several equal rows the list may
\* hold one entry or all: that is the loader's affair.
LoadRoles(t, u, r, op) ==
    /\ Authorised
    /\ request[t] = NoRequest /\ Exists(r)
    /\ op = "revoke" => <<u, r>> \in assigned
    /\ \E many \in BOOLEAN :
         /\ many => op = "revoke" /\ <<u, r>> \in doubled
         /\ LET q == [op |-> op, u |-> u, r |-> r, had |-> <<u, r>> \in assigned,
                      many |-> many, met |-> FALSE, answered |-> FALSE]
            IN request' = [request EXCEPT ![t] = [q EXCEPT !.met = AsAsked(q, assigned)]]
    /\ raced' = IF op = "grant" /\ <<u, r>> \notin assigned /\ Granting(u, r)
                THEN raced \cup {<<u, r>>} ELSE raced
    /\ UNCHANGED <<roleName, assigned, doubled, cached, token, age>>

\* The commit. A role that was in the list already is not inserted again.
\* Otherwise the foreign key lets the insert pass or not, whatever rows there
\* are. A delete must match one row (StaleDataError); when one of several equal
\* entries was removed from the list, there is nothing to delete.
Granted(q) == q.had \/ Exists(q.r)
Revoked(q) == q.many \/ Pair(q) \in assigned \ doubled
\* Slip: the commit of an insert is forgotten.
TableUncommitted(q) == IF q.op = "grant" THEN assigned ELSE assigned \ {Pair(q)}
NothingToWrite(q) == IF q.op = "grant" THEN q.had ELSE q.many
Table(q) ==
    IF NothingToWrite(q) THEN assigned
    ELSE IF q.op = "grant" THEN assigned \cup {Pair(q)} ELSE assigned \ {Pair(q)}
Doubles(q) ==
    IF q.op = "grant" /\ ~q.had /\ Pair(q) \in assigned THEN doubled \cup {Pair(q)} ELSE doubled

CommitRoles(t) ==
    /\ Changing(t) /\ ~request[t].answered
    /\ IF request[t].op = "grant" THEN Granted(request[t]) ELSE Revoked(request[t])
    /\ assigned' = Table(request[t])
    /\ doubled' = Doubles(request[t])
    /\ Notice([request EXCEPT ![t].answered = TRUE])
    /\ UNCHANGED <<roleName, cached, token, raced>>
    /\ Ages

\* 500: the transaction is rolled back.
CommitFails(t) ==
    /\ Changing(t) /\ ~request[t].answered
    /\ ~(IF request[t].op = "grant" THEN Granted(request[t]) ELSE Revoked(request[t]))
    /\ request' = [request EXCEPT ![t] = NoRequest]
    /\ UNCHANGED <<roleName, assigned, doubled, cached, token, age, raced>>

\* 201 or 200 with the roles of the user.
RolesAnswer(t) ==
    /\ Changing(t) /\ request[t].answered
    /\ request' = [request EXCEPT ![t] = NoRequest]
    /\ UNCHANGED <<roleName, assigned, doubled, cached, token, age, raced>>

-----------------------------------------------------------------------------
\* Slip: the new token lives on from the end of the last one.
IssueAfter(u, names) ==
    token' = [token EXCEPT ![u] = [x \in Names |-> IF x \in names THEN @[x] + Lifetime ELSE @[x]]]
\* new_tokens: an access token for u with these names. Older ones live on.
Issue(u, names) ==
    token' = [token EXCEPT ![u] = [x \in Names |-> IF x \in names THEN Lifetime ELSE @[x]]]

\* A login, or a refresh that finds no payload: the user with the roles is read ...
ReadUser(t, u) ==
    /\ request[t] = NoRequest
    /\ request' = [request EXCEPT ![t] = [op |-> "login", u |-> u, names |-> NamesOf(u)]]
    /\ UNCHANGED <<roleName, assigned, doubled, cached, token, age, raced>>

\* ... and set_token_payload and the new tokens take what was read.
SetPayload(t) ==
    /\ request[t] # NoRequest /\ request[t].op = "login"
    /\ LET q == request[t]
       IN /\ cached' = [cached EXCEPT ![q.u] = [names |-> q.names, left |-> Lifetime]]
          /\ Issue(q.u, q.names)
    /\ request' = [request EXCEPT ![t] = NoRequest]
    /\ UNCHANGED <<roleName, assigned, doubled, age, raced>>

\* Slip: a refresh keeps the payload for another lifetime.
KeptLonger(u) == [cached EXCEPT ![u].left = Lifetime]
Kept(u) == cached

\* A refresh that finds the payload does not ask the database.
RefreshCached(u) ==
    /\ cached[u].left > 0
    /\ Issue(u, cached[u].names)
    /\ cached' = Kept(u)
    /\ UNCHANGED <<roleName, assigned, doubled, request, age, raced>>

\* Time passes; a request takes less than a unit of it. A payload that expires
\* is gone.
HourPasses ==
    /\ \A t \in Workers : request[t] = NoRequest
    /\ cached' = [u \in Members |->
                    IF cached[u].left > 1 THEN [cached[u] EXCEPT !.left = @ - 1]
                                          ELSE [names |-> {}, left |-> 0]]
    /\ token' = [u \in Members |-> [x \in Names |->
                    IF token[u][x] > 0 THEN token[u][x] - 1 ELSE 0]]
    /\ age' = [u \in Members |-> [x \in Names |->
                    IF x \in NamesOf(u) THEN 0
                    ELSE IF age[u][x] < Never THEN age[u][x] + 1 ELSE Never]]
    /\ UNCHANGED <<roleName, assigned, doubled, request, raced>>

-----------------------------------------------------------------------------
RolesNext ==
    \/ \E r \in RoleIds : DeleteRole(r) \/ \E x \in Names : AddRole(r, x) \/ UpdateRole(r, x)
    \/ \E t \in Workers :
         \/ \E u \in Members, r \in RoleIds, op \in {"grant", "revoke"} : LoadRoles(t, u, r, op)
         \/ CommitRoles(t) \/ CommitFails(t) \/ RolesAnswer(t)
         \/ \E u \in Members : ReadUser(t, u)
         \/ SetPayload(t)
    \/ \E u \in Members : RefreshCached(u)
    \/ HourPasses

RolesSpec == RolesInit /\ [][RolesNext]_rolesVars

-----------------------------------------------------------------------------
\* A role that was taken away, renamed or deleted, or whose user lost it, is in
\* no living access token two lifetimes later: a payload is used for one, and
\* the token made from it at the end lives for another. (token_service.py:28,
\* token_service.py:38-50, storage.py:107-109)
RevokedRolesFade ==
    \A u \in Members, x \in Names :
        token[u][x] > 0 => age[u][x] + token[u][x] < 2 * Lifetime

\* An answer that an assignment was made or taken away was true at some time of
\* the request, whatever other threads did to the same assignment or its role:
\* except of a revoke, once two grants of the assignment have overlapped and may
\* have stored it twice. Then remove takes one of the equal entries from the list,
\* nothing is deleted, and the answer is 200.
\* (role_service.py:70-89, database.py:401-421, 524c15620232:53-62)
AnswersTrue ==
    \A t \in Workers : Changing(t) /\ request[t].answered =>
        \/ request[t].met
        \/ request[t].op = "revoke" /\ Pair(request[t]) \in raced

=============================================================================
