-------------------------- MODULE TokenRolesProofs --------------------------
(***************************************************************************)
(* Proofs about TokenRoles for all users, names, roles and threads, and    *)
(* for every lifetime of the tokens.                                       *)
(*                                                                         *)
(* A name can be in a token long after the user lost it, because it was    *)
(* copied twice. The inductive invariant bounds the age of each copy: a    *)
(* name of the database has the age 0, and so has one that a request in    *)
(* flight has read, since no time passes meanwhile; one in a payload is    *)
(* not older than the payload; one in a token is not older than a payload  *)
(* and the token together.                                                 *)
(***************************************************************************)
EXTENDS TokenRoles, TLAPS

\* An assigned role exists: ondelete CASCADE and the foreign key.
Alive == \A p \in assigned : Exists(p[2])

HeldNow == \A u \in Members, x \in Names : x \in NamesOf(u) => age[u][x] = 0

ReadNow ==
    \A t \in Workers : request[t] # NoRequest /\ request[t].op = "login" =>
        \A x \in request[t].names : age[request[t].u][x] = 0

CachedSince ==
    \A u \in Members : \A x \in cached[u].names :
        cached[u].left > 0 => age[u][x] + cached[u].left <= Lifetime

RolesInv == RolesTypeOK /\ Alive /\ HeldNow /\ ReadNow /\ CachedSince /\ RevokedRolesFade

USE RolesAssumption

-----------------------------------------------------------------------------
LEMMA RolesInitInv == RolesInit => RolesInv
<1> SUFFICES ASSUME RolesInit PROVE RolesInv
  OBVIOUS
<1>1. RolesTypeOK
  BY DEF RolesInit, RolesTypeOK, Never
<1>2. Alive /\ HeldNow
  BY DEF RolesInit, Alive, Exists, HeldNow, NamesOf
<1>3. ReadNow /\ CachedSince /\ RevokedRolesFade
  BY DEF RolesInit, ReadNow, CachedSince, RevokedRolesFade
<1> QED
  BY <1>1, <1>2, <1>3 DEF RolesInv

\* The names of a user are names of roles that exist.
LEMMA NamesAreNames ==
    ASSUME RolesTypeOK, Alive, NEW u \in Members
    PROVE  NamesOf(u) \subseteq Names
BY DEF RolesTypeOK, Alive, NamesOf, Exists

\* The requests keep their kinds when they notice a change of the table.
LEMMA NoticeTyped ==
    ASSUME NEW threads \in [Workers -> Request \cup {NoRequest}], Notice(threads)
    PROVE  /\ request' \in [Workers -> Request \cup {NoRequest}]
           /\ \A t \in Workers : request'[t] # NoRequest /\ request'[t].op = "login"
                => request'[t] = threads[t]
<1>1. ASSUME NEW t \in Workers, threads[t] # NoRequest, threads[t].op \in {"grant", "revoke"}
      PROVE  /\ request'[t] \in Request
             /\ request'[t].op # "login"
  <2> DEFINE q == threads[t]
             b == AsAsked(q, assigned')
  <2>1. q \in [op : {"grant", "revoke"}, u : Members, r : RoleIds, had : BOOLEAN,
               many : BOOLEAN, met : BOOLEAN, answered : BOOLEAN]
    BY <1>1 DEF Request
  <2>2. b \in BOOLEAN
    BY DEF AsAsked
  <2>3. request'[t] = [q EXCEPT !.met = @ \/ b]
    BY <1>1 DEF Notice
  <2> QED
    BY <2>1, <2>2, <2>3 DEF Request
<1>2. ASSUME NEW t \in Workers, ~(threads[t] # NoRequest /\ threads[t].op \in {"grant", "revoke"})
      PROVE  request'[t] = threads[t]
  BY <1>2 DEF Notice
<1>3. request' = [t \in Workers |-> request'[t]]
  BY DEF Notice
<1> QED
  BY <1>1, <1>2, <1>3

-----------------------------------------------------------------------------
\* Every action keeps the types and gives assignments to existing roles only.
LEMMA StepTyped ==
    ASSUME RolesTypeOK, Alive, [RolesNext]_rolesVars
    PROVE  RolesTypeOK' /\ Alive'
<1> USE DEF RolesTypeOK, Alive, Exists
<1>1. ASSUME NEW r \in RoleIds, DeleteRole(r) PROVE RolesTypeOK' /\ Alive'
  <2>1. roleName' \in [RoleIds -> Names \cup {Unused, Deleted}]
    BY <1>1 DEF DeleteRole
  <2>2. /\ assigned' \subseteq Members \X RoleIds /\ doubled' \subseteq assigned'
        /\ UNCHANGED <<cached, token, raced>>
    BY <1>1 DEF DeleteRole
  <2>3. request' \in [Workers -> Request \cup {NoRequest}]
    BY <1>1, NoticeTyped DEF DeleteRole
  <2>4. age' \in [Members -> [Names -> 0 .. Never]]
    BY <1>1 DEF DeleteRole, Ages, Never
  <2>5. Alive'
    BY <1>1 DEF DeleteRole
  <2> QED
    BY <2>1, <2>2, <2>3, <2>4, <2>5
<1>2. ASSUME NEW r \in RoleIds, NEW x \in Names, AddRole(r, x) PROVE RolesTypeOK' /\ Alive'
  BY <1>2 DEF AddRole
<1>3. ASSUME NEW r \in RoleIds, NEW x \in Names, UpdateRole(r, x) PROVE RolesTypeOK' /\ Alive'
  <2>1. age' \in [Members -> [Names -> 0 .. Never]]
    BY <1>3 DEF UpdateRole, Ages, Never
  <2> QED
    BY <1>3, <2>1 DEF UpdateRole
<1>4. ASSUME NEW t \in Workers, NEW u \in Members, NEW r \in RoleIds,
             NEW op \in {"grant", "revoke"}, LoadRoles(t, u, r, op)
      PROVE  RolesTypeOK' /\ Alive'
  <2>a. PICK many \in BOOLEAN :
           /\ many => op = "revoke" /\ <<u, r>> \in doubled
           /\ LET q == [op |-> op, u |-> u, r |-> r, had |-> <<u, r>> \in assigned,
                        many |-> many, met |-> FALSE, answered |-> FALSE]
              IN request' = [request EXCEPT ![t] = [q EXCEPT !.met = AsAsked(q, assigned)]]
    BY <1>4 DEF LoadRoles
  <2> DEFINE q == [op |-> op, u |-> u, r |-> r, had |-> <<u, r>> \in assigned,
                   many |-> many, met |-> FALSE, answered |-> FALSE]
  <2>1. AsAsked(q, assigned) \in BOOLEAN /\ (<<u, r>> \in assigned) \in BOOLEAN
    BY DEF AsAsked
  <2>2. [q EXCEPT !.met = AsAsked(q, assigned)] \in Request
    BY <2>1 DEF Request
  <2>3. request' = [request EXCEPT ![t] = [q EXCEPT !.met = AsAsked(q, assigned)]]
    BY <2>a
  <2>4. request' \in [Workers -> Request \cup {NoRequest}]
    BY <2>2, <2>3
  <2>5. raced' \subseteq Members \X RoleIds
    BY <1>4 DEF LoadRoles
  <2> QED
    BY <1>4, <2>4, <2>5 DEF LoadRoles
<1>5. ASSUME NEW t \in Workers, CommitRoles(t) PROVE RolesTypeOK' /\ Alive'
  <2> DEFINE q == request[t]
  <2>1. q \in [op : {"grant", "revoke"}, u : Members, r : RoleIds, had : BOOLEAN,
               many : BOOLEAN, met : BOOLEAN, answered : BOOLEAN]
    BY <1>5 DEF CommitRoles, Changing, Request
  <2>2. assigned' \subseteq Members \X RoleIds /\ doubled' \subseteq assigned'
    <3>1. q.op = "revoke" /\ ~q.many => Pair(q) \notin doubled
      BY <1>5 DEF CommitRoles, Revoked
    <3>2. doubled' \subseteq assigned'
      BY <1>5, <2>1, <3>1 DEF CommitRoles, Table, Doubles, NothingToWrite
    <3> QED
      BY <1>5, <2>1, <3>2 DEF CommitRoles, Table, Pair
  <2>3. request' \in [Workers -> Request \cup {NoRequest}]
    <3>1. [request EXCEPT ![t].answered = TRUE] \in [Workers -> Request \cup {NoRequest}]
      BY <2>1 DEF Request
    <3> QED
      BY <1>5, <3>1, NoticeTyped DEF CommitRoles
  <2>4. age' \in [Members -> [Names -> 0 .. Never]]
    BY <1>5 DEF CommitRoles, Ages, Never
  <2>5. Alive'
    BY <1>5, <2>1 DEF CommitRoles, Table, NothingToWrite, Granted, Pair
  <2> QED
    BY <1>5, <2>2, <2>3, <2>4, <2>5 DEF CommitRoles
<1>6. ASSUME NEW t \in Workers, CommitFails(t) \/ RolesAnswer(t) PROVE RolesTypeOK' /\ Alive'
  BY <1>6 DEF CommitFails, RolesAnswer
<1>7. ASSUME NEW t \in Workers, NEW u \in Members, ReadUser(t, u) PROVE RolesTypeOK' /\ Alive'
  <2>1. NamesOf(u) \subseteq Names
    BY NamesAreNames
  <2>2. request' \in [Workers -> Request \cup {NoRequest}]
    BY <1>7, <2>1 DEF ReadUser, Request
  <2> QED
    BY <1>7, <2>2 DEF ReadUser
<1>8. ASSUME NEW t \in Workers, SetPayload(t) PROVE RolesTypeOK' /\ Alive'
  <2> DEFINE q == request[t]
  <2>1. q.u \in Members /\ q.names \subseteq Names
    BY <1>8 DEF SetPayload, Request
  <2>2. token' \in [Members -> [Names -> 0 .. Lifetime]]
    BY <1>8, <2>1 DEF SetPayload, Issue
  <2>3. cached' \in [Members -> [names : SUBSET Names, left : 0 .. Lifetime]]
    BY <1>8, <2>1 DEF SetPayload
  <2> QED
    BY <1>8, <2>2, <2>3 DEF SetPayload
<1>9. ASSUME NEW u \in Members, RefreshCached(u) PROVE RolesTypeOK' /\ Alive'
  BY <1>9 DEF RefreshCached, Issue, Kept
<1>10. ASSUME HourPasses PROVE RolesTypeOK' /\ Alive'
  <2>1. cached' \in [Members -> [names : SUBSET Names, left : 0 .. Lifetime]]
    <3>1. ASSUME NEW u \in Members, cached[u].left > 1
          PROVE  [cached[u] EXCEPT !.left = @ - 1] \in [names : SUBSET Names, left : 0 .. Lifetime]
      <4>1. cached[u] \in [names : SUBSET Names, left : 0 .. Lifetime]
        OBVIOUS
      <4>2. cached[u].left - 1 \in 0 .. Lifetime
        BY <3>1, <4>1
      <4> QED
        BY <4>1, <4>2
    <3>2. [names |-> {}, left |-> 0] \in [names : SUBSET Names, left : 0 .. Lifetime]
      OBVIOUS
    <3> QED
      BY <1>10, <3>1, <3>2 DEF HourPasses
  <2>2. token' \in [Members -> [Names -> 0 .. Lifetime]]
    BY <1>10 DEF HourPasses
  <2>3. age' \in [Members -> [Names -> 0 .. Never]]
    BY <1>10 DEF HourPasses, Never
  <2> QED
    BY <1>10, <2>1, <2>2, <2>3 DEF HourPasses
<1>11. CASE UNCHANGED rolesVars
  BY <1>11 DEF rolesVars
<1> QED
  BY <1>1, <1>2, <1>3, <1>4, <1>5, <1>6, <1>7, <1>8, <1>9, <1>10, <1>11 DEF RolesNext

-----------------------------------------------------------------------------
\* A change of the tables makes no name older, and copies none.
LEMMA TablesAge ==
    ASSUME RolesInv, RolesTypeOK', Ages, UNCHANGED <<cached, token>>,
           \A t \in Workers : request'[t] # NoRequest /\ request'[t].op = "login"
                              => request'[t] = request[t]
    PROVE  HeldNow' /\ ReadNow' /\ CachedSince' /\ RevokedRolesFade'
<1>1. \A u \in Members, x \in Names : age'[u][x] \in {0, age[u][x]}
  BY DEF Ages
<1>2. HeldNow'
  BY DEF Ages, HeldNow
<1>3. ReadNow'
  <2>1. ASSUME NEW t \in Workers, request'[t] # NoRequest, request'[t].op = "login",
               NEW x \in request'[t].names
        PROVE  age'[request'[t].u][x] = 0
    <3>1. request'[t] = request[t]
      BY <2>1
    <3>2. request[t] # NoRequest /\ request[t].op = "login" /\ x \in request[t].names
      BY <2>1, <3>1
    <3>3. age[request[t].u][x] = 0
      BY <3>2 DEF RolesInv, ReadNow
    <3>4. request[t].u \in Members /\ x \in Names
      BY <3>2 DEF RolesInv, RolesTypeOK, Request
    <3> QED
      BY <1>1, <3>1, <3>3, <3>4
  <2> QED
    BY <2>1 DEF ReadNow
<1>a. /\ age \in [Members -> [Names -> 0 .. Never]]
      /\ cached \in [Members -> [names : SUBSET Names, left : 0 .. Lifetime]]
      /\ token \in [Members -> [Names -> 0 .. Lifetime]]
  BY DEF RolesInv, RolesTypeOK
<1>4. CachedSince'
  <2>1. CachedSince /\ cached' = cached
    BY DEF RolesInv
  <2>2. ASSUME NEW u \in Members, NEW x \in cached[u].names, cached[u].left > 0
        PROVE  age'[u][x] + cached[u].left <= Lifetime
    <3>1. x \in Names /\ cached[u].left \in 0 .. Lifetime
      BY <1>a
    <3>2. age[u][x] + cached[u].left <= Lifetime
      BY <2>1, <2>2 DEF CachedSince
    <3>3. age[u][x] \in Nat /\ age'[u][x] \in {0, age[u][x]}
      BY <1>1, <1>a, <3>1 DEF Never
    <3> QED
      BY <3>1, <3>2, <3>3
  <2> QED
    BY <2>1, <2>2 DEF CachedSince
<1>5. RevokedRolesFade'
  <2>1. ASSUME NEW u \in Members, NEW x \in Names, token'[u][x] > 0
        PROVE  age'[u][x] + token'[u][x] < 2 * Lifetime
    <3>1. token[u][x] \in 1 .. Lifetime /\ token'[u][x] = token[u][x]
      BY <1>a, <2>1
    <3>a. age[u][x] \in Nat /\ RevokedRolesFade
      BY <1>a DEF RolesInv, Never
    <3>2. age[u][x] \in Nat /\ age[u][x] + token[u][x] < 2 * Lifetime
      BY <3>1, <3>a DEF RevokedRolesFade
    <3>3. age'[u][x] = 0 \/ age'[u][x] = age[u][x]
      BY <1>1
    <3> QED
      BY <3>1, <3>2, <3>3
  <2> QED
    BY <2>1 DEF RevokedRolesFade
<1> QED
  BY <1>2, <1>3, <1>4, <1>5

\* Every action keeps the ages of the copies in their bounds.
LEMMA StepAged ==
    ASSUME RolesInv, RolesTypeOK', Alive', [RolesNext]_rolesVars
    PROVE  HeldNow' /\ ReadNow' /\ CachedSince' /\ RevokedRolesFade'
<1> DEFINE Aged == HeldNow' /\ ReadNow' /\ CachedSince' /\ RevokedRolesFade'
<1>0. RolesTypeOK /\ Alive
  BY DEF RolesInv
<1>1. ASSUME NEW r \in RoleIds, DeleteRole(r) PROVE Aged
  <2>1. request \in [Workers -> Request \cup {NoRequest}]
    BY <1>0 DEF RolesTypeOK
  <2> QED
    BY <1>1, <2>1, NoticeTyped, TablesAge DEF DeleteRole
<1>2. ASSUME NEW r \in RoleIds, NEW x \in Names, AddRole(r, x) PROVE Aged
  <2>1. \A u \in Members : NamesOf(u)' \subseteq NamesOf(u)
    <3>1. \A p \in assigned : p[2] # r
      BY <1>0, <1>2 DEF AddRole, Alive, Exists
    <3>2. \A s \in RoleIds : s # r => roleName'[s] = roleName[s]
      BY <1>0, <1>2 DEF AddRole, RolesTypeOK
    <3> QED
      BY <1>2, <3>1, <3>2 DEF AddRole, NamesOf
  <2> QED
    BY <1>2, <2>1 DEF AddRole, RolesInv, HeldNow, ReadNow, CachedSince, RevokedRolesFade
<1>3. ASSUME NEW r \in RoleIds, NEW x \in Names, UpdateRole(r, x) PROVE Aged
  BY <1>3, TablesAge DEF UpdateRole
<1>4. ASSUME NEW t \in Workers, CommitRoles(t) PROVE Aged
  <2>0. request[t] \in [op : {"grant", "revoke"}, u : Members, r : RoleIds, had : BOOLEAN,
                        many : BOOLEAN, met : BOOLEAN, answered : BOOLEAN]
    BY <1>0, <1>4 DEF RolesTypeOK, CommitRoles, Changing, Request
  <2>1. [request EXCEPT ![t].answered = TRUE] \in [Workers -> Request \cup {NoRequest}]
    BY <1>0, <2>0 DEF RolesTypeOK, Request
  <2>2. \A s \in Workers : request'[s] # NoRequest /\ request'[s].op = "login"
                           => request'[s] = [request EXCEPT ![t].answered = TRUE][s]
    BY <1>4, <2>1, NoticeTyped DEF CommitRoles
  <2>3. [request EXCEPT ![t].answered = TRUE][t].op # "login"
    BY <1>0, <1>4 DEF RolesTypeOK, CommitRoles, Changing, Request
  <2>4. \A s \in Workers : request'[s] # NoRequest /\ request'[s].op = "login"
                           => request'[s] = request[s]
    BY <1>0, <2>2, <2>3 DEF RolesTypeOK
  <2> QED
    BY <1>4, <2>4, TablesAge DEF CommitRoles
<1>5. ASSUME NEW t \in Workers, UNCHANGED <<roleName, assigned, cached, token, age>>,
             request' = [request EXCEPT ![t] = request'[t]],
             request'[t] = NoRequest \/ request'[t].op # "login"
      PROVE  Aged
  <2>1. HeldNow' /\ CachedSince' /\ RevokedRolesFade'
    BY <1>5 DEF RolesInv, HeldNow, CachedSince, RevokedRolesFade, NamesOf
  <2>2. \A s \in Workers : s # t => request'[s] = request[s]
    BY <1>0, <1>5 DEF RolesTypeOK
  <2>3. ReadNow'
    BY <1>5, <2>2 DEF RolesInv, ReadNow
  <2> QED
    BY <2>1, <2>3
<1>6. ASSUME NEW t \in Workers, NEW u \in Members, NEW r \in RoleIds,
             NEW op \in {"grant", "revoke"}, LoadRoles(t, u, r, op)
      PROVE  Aged
  <2>1. PICK many \in BOOLEAN :
           LET q == [op |-> op, u |-> u, r |-> r, had |-> <<u, r>> \in assigned,
                     many |-> many, met |-> FALSE, answered |-> FALSE]
           IN request' = [request EXCEPT ![t] = [q EXCEPT !.met = AsAsked(q, assigned)]]
    BY <1>6 DEF LoadRoles
  <2>2. request' = [request EXCEPT ![t] = request'[t]] /\ request'[t].op = op
    BY <1>0, <2>1 DEF RolesTypeOK
  <2>3. UNCHANGED <<roleName, assigned, cached, token, age>>
    BY <1>6 DEF LoadRoles
  <2> QED
    BY <1>5, <2>2, <2>3
<1>7. ASSUME NEW t \in Workers, CommitFails(t) \/ RolesAnswer(t) PROVE Aged
  BY <1>0, <1>5, <1>7 DEF CommitFails, RolesAnswer, RolesTypeOK
<1>8. ASSUME NEW t \in Workers, NEW u \in Members, ReadUser(t, u) PROVE Aged
  <2>1. HeldNow' /\ CachedSince' /\ RevokedRolesFade'
    BY <1>8 DEF ReadUser, RolesInv, HeldNow, CachedSince, RevokedRolesFade, NamesOf
  <2>2. NamesOf(u) \subseteq Names
    BY <1>0, NamesAreNames
  <2>3. ReadNow'
    BY <1>0, <1>8, <2>2 DEF ReadUser, RolesInv, ReadNow, HeldNow, RolesTypeOK
  <2> QED
    BY <2>1, <2>3
<1>9. ASSUME NEW t \in Workers, SetPayload(t) PROVE Aged
  <2> DEFINE q == request[t]
  <2>1. /\ q.u \in Members /\ q.names \subseteq Names
        /\ \A x \in q.names : age[q.u][x] = 0
    BY <1>0, <1>9 DEF SetPayload, Request, RolesTypeOK, RolesInv, ReadNow
  <2>2. HeldNow' /\ ReadNow'
    <3>1. HeldNow'
      BY <1>9 DEF SetPayload, RolesInv, HeldNow, NamesOf
    <3>2. \A s \in Workers : request'[s] = NoRequest \/ request'[s] = request[s]
      BY <1>0, <1>9 DEF SetPayload, RolesTypeOK
    <3>3. ReadNow'
      BY <1>9, <3>2 DEF SetPayload, RolesInv, ReadNow
    <3> QED
      BY <3>1, <3>3
  <2>3. CachedSince'
    BY <1>0, <1>9, <2>1 DEF SetPayload, RolesInv, CachedSince, RolesTypeOK
  <2>4. RevokedRolesFade'
    BY <1>0, <1>9, <2>1 DEF SetPayload, Issue, RolesInv, RevokedRolesFade, RolesTypeOK
  <2> QED
    BY <2>2, <2>3, <2>4
<1>10. ASSUME NEW u \in Members, RefreshCached(u) PROVE Aged
  <2>1. HeldNow' /\ ReadNow' /\ CachedSince'
    BY <1>10 DEF RefreshCached, Kept, RolesInv, HeldNow, ReadNow, CachedSince, NamesOf
  <2>2. \A x \in cached[u].names : age[u][x] + cached[u].left <= Lifetime
    BY <1>10 DEF RefreshCached, RolesInv, CachedSince
  <2>3. RevokedRolesFade'
    BY <1>0, <1>10, <2>2 DEF RefreshCached, Issue, RolesInv, RevokedRolesFade, RolesTypeOK
  <2> QED
    BY <2>1, <2>3
<1>11. ASSUME HourPasses PROVE Aged
  <2>1. HeldNow' /\ ReadNow'
    BY <1>11 DEF HourPasses, HeldNow, ReadNow, NamesOf
  <2>2. \A u \in Members, x \in Names : age'[u][x] <= age[u][x] + 1
    BY <1>0, <1>11 DEF HourPasses, RolesTypeOK, Never
  <2>3. CachedSince'
    <3>1. ASSUME NEW u \in Members, NEW x \in cached'[u].names, cached'[u].left > 0
          PROVE  age'[u][x] + cached'[u].left <= Lifetime
      <4>1. cached[u].left > 1 /\ cached'[u] = [cached[u] EXCEPT !.left = @ - 1]
        BY <1>11, <3>1 DEF HourPasses
      <4>2. cached[u] \in [names : SUBSET Names, left : 0 .. Lifetime]
        BY <1>0 DEF RolesTypeOK
      <4>3. x \in cached[u].names /\ cached'[u].left = cached[u].left - 1
        BY <4>1, <4>2, <3>1
      <4>4. age[u][x] + cached[u].left <= Lifetime
        BY <4>1, <4>2, <4>3 DEF RolesInv, CachedSince
      <4> QED
        BY <1>0, <2>2, <4>1, <4>2, <4>3, <4>4 DEF RolesTypeOK
    <3> QED
      BY <3>1 DEF CachedSince
  <2>4. RevokedRolesFade'
    BY <1>0, <1>11, <2>2 DEF HourPasses, RolesInv, RevokedRolesFade, RolesTypeOK
  <2> QED
    BY <2>1, <2>3, <2>4
<1>12. CASE UNCHANGED rolesVars
  BY <1>12 DEF rolesVars, RolesInv, HeldNow, ReadNow, CachedSince, RevokedRolesFade, NamesOf
<1> QED
  BY <1>1, <1>2, <1>3, <1>4, <1>6, <1>7, <1>8, <1>9, <1>10, <1>11, <1>12 DEF RolesNext

-----------------------------------------------------------------------------
\* The inductive invariant of the roles and their copies. (token_service.py,
\* role_service.py)
THEOREM RolesInvariant == RolesSpec => []RolesInv
<1>1. RolesInv /\ [RolesNext]_rolesVars => RolesInv'
  BY StepTyped, StepAged DEF RolesInv
<1> QED
  BY RolesInitInv, <1>1, PTL DEF RolesSpec

\* Every copy of a name is bounded in time. (storage.py:107-114)
THEOREM RolesTyped == RolesSpec => []RolesTypeOK
<1>1. RolesInv => RolesTypeOK
  BY DEF RolesInv
<1> QED
  BY RolesInvariant, <1>1, PTL

\* A role that was taken away is in no living token two lifetimes later.
\* (token_service.py:28, token_service.py:38-50)
THEOREM RevokedRolesFadeAlways == RolesSpec => []RevokedRolesFade
<1>1. RolesInv => RevokedRolesFade
  BY DEF RolesInv
<1> QED
  BY RolesInvariant, <1>1, PTL

-----------------------------------------------------------------------------
\* An assignment that a grant found has been as asked for.
HadIsMet == \A t \in Workers : Changing(t) /\ request[t].op = "grant" /\ request[t].had
                               => request[t].met

\* Requests only ever learn that their assignment is as asked for.
LEMMA NoticeKeeps ==
    ASSUME NEW threads \in [Workers -> Request \cup {NoRequest}], Notice(threads),
           NEW t \in Workers, Changing(t)'
    PROVE  /\ threads[t] # NoRequest /\ threads[t].op \in {"grant", "revoke"}
           /\ request'[t].op = threads[t].op /\ request'[t].had = threads[t].had
           /\ request'[t].u = threads[t].u /\ request'[t].r = threads[t].r
           /\ request'[t].many = threads[t].many
           /\ request'[t].answered = threads[t].answered
           /\ request'[t].met <=> (threads[t].met \/ AsAsked(threads[t], assigned'))
<1>1. request'[t] # NoRequest /\ request'[t].op \in {"grant", "revoke"}
  BY DEF Changing
<1>2. threads[t] # NoRequest /\ threads[t].op \in {"grant", "revoke"}
  BY <1>1 DEF Notice
<1>3. request'[t] = [threads[t] EXCEPT !.met = @ \/ AsAsked(threads[t], assigned')]
  BY <1>2 DEF Notice
<1>4. threads[t] \in [op : {"grant", "revoke"}, u : Members, r : RoleIds, had : BOOLEAN,
                      many : BOOLEAN, met : BOOLEAN, answered : BOOLEAN]
  BY <1>2 DEF Request
<1> QED
  BY <1>2, <1>3, <1>4

\* A grant that has read that the user has not got the role, and will insert it.
Inserts(t) == Changing(t) /\ request[t].op = "grant" /\ ~request[t].had /\ ~request[t].answered

\* An assignment is stored twice only if two grants of it have overlapped.
RaceInv ==
    /\ doubled \subseteq raced
    /\ \A t, s \in Workers : /\ t # s /\ Inserts(t) /\ Inserts(s)
                             /\ Pair(request[t]) = Pair(request[s])
                             => Pair(request[t]) \in raced
    /\ \A t \in Workers : Inserts(t) /\ Pair(request[t]) \in assigned => Pair(request[t]) \in raced
    /\ \A t \in Workers : Changing(t) /\ request[t].many => Pair(request[t]) \in raced

\* The requests of the others only learn that their assignment is as asked for.
Others(t) ==
    \A s \in Workers : s # t /\ Changing(s)' =>
        /\ Changing(s)
        /\ request'[s].op = request[s].op /\ request'[s].had = request[s].had
        /\ request'[s].many = request[s].many /\ request'[s].answered = request[s].answered
        /\ Pair(request'[s]) = Pair(request[s])
        /\ request[s].met => request'[s].met

LEMMA OthersStand ==
    ASSUME RolesTypeOK, NEW t \in Workers, request' = [request EXCEPT ![t] = request'[t]]
    PROVE  Others(t)
<1>1. \A s \in Workers : s # t => request'[s] = request[s]
  BY DEF RolesTypeOK
<1> QED
  BY <1>1 DEF Others, Changing, Pair

\* A step of t that leaves the table alone.
LEMMA TableStands ==
    ASSUME RaceInv, NEW t \in Workers, Others(t),
           assigned' \subseteq assigned, doubled' \subseteq doubled, raced \subseteq raced',
           Changing(t)' /\ request'[t].many => Pair(request'[t]) \in raced',
           Inserts(t)' => /\ Pair(request'[t]) \in assigned' => Pair(request'[t]) \in raced'
                          /\ \A s \in Workers : /\ s # t /\ Inserts(s)
                                                /\ Pair(request[s]) = Pair(request'[t])
                                                => Pair(request'[t]) \in raced'
    PROVE  RaceInv'
<1>1. \A s \in Workers : s # t /\ Inserts(s)' => Inserts(s) /\ Pair(request'[s]) = Pair(request[s])
  BY DEF Others, Inserts
<1>2. ASSUME NEW s \in Workers, NEW q \in Workers, s # q, Inserts(s)', Inserts(q)',
             Pair(request'[s]) = Pair(request'[q])
      PROVE  Pair(request'[s]) \in raced'
  <2>1. CASE s # t /\ q # t
    BY <1>1, <1>2, <2>1 DEF RaceInv
  <2>2. CASE s = t
    BY <1>1, <1>2, <2>2
  <2>3. CASE q = t
    BY <1>1, <1>2, <2>3
  <2> QED
    BY <2>1, <2>2, <2>3
<1>3. ASSUME NEW s \in Workers, Inserts(s)', Pair(request'[s]) \in assigned'
      PROVE  Pair(request'[s]) \in raced'
  BY <1>1, <1>3 DEF RaceInv
<1>4. ASSUME NEW s \in Workers, Changing(s)', request'[s].many
      PROVE  Pair(request'[s]) \in raced'
  BY <1>4 DEF RaceInv, Others
<1>5. doubled' \subseteq raced'
  BY DEF RaceInv
<1>6. \A s, q \in Workers : /\ s # q /\ Inserts(s)' /\ Inserts(q)'
                            /\ Pair(request'[s]) = Pair(request'[q])
                            => Pair(request'[s]) \in raced'
  BY <1>2
<1>7. \A s \in Workers : Inserts(s)' /\ Pair(request'[s]) \in assigned' => Pair(request'[s]) \in raced'
  BY <1>3
<1>8. \A s \in Workers : Changing(s)' /\ request'[s].many => Pair(request'[s]) \in raced'
  BY <1>4
<1> QED
  BY <1>5, <1>6, <1>7, <1>8 DEF RaceInv

TrueInv == HadIsMet /\ AnswersTrue /\ RaceInv

\* A step of t that the others, the answers and the history do not suffer from.
LEMMA AnswersStand ==
    ASSUME TrueInv, NEW t \in Workers, Others(t), raced \subseteq raced',
           Changing(t)' /\ request'[t].op = "grant" /\ request'[t].had => request'[t].met,
           Changing(t)' /\ request'[t].answered =>
               request'[t].met \/ (request'[t].op = "revoke" /\ Pair(request'[t]) \in raced')
    PROVE  HadIsMet' /\ AnswersTrue'
<1>1. HadIsMet'
  BY DEF TrueInv, HadIsMet, Others
<1>2. ASSUME NEW s \in Workers, Changing(s)', request'[s].answered
      PROVE  request'[s].met \/ (request'[s].op = "revoke" /\ Pair(request'[s]) \in raced')
  <2>1. CASE s = t
    BY <1>2, <2>1
  <2>2. CASE s # t
    BY <1>2, <2>2 DEF TrueInv, AnswersTrue, Others
  <2> QED
    BY <2>1, <2>2
<1>3. AnswersTrue'
  BY <1>2 DEF AnswersTrue
<1> QED
  BY <1>1, <1>3

\* Every action keeps the answers true.
LEMMA StepTrue ==
    ASSUME RolesTypeOK, TrueInv, [RolesNext]_rolesVars
    PROVE  TrueInv'
<1>1. ASSUME NEW r \in RoleIds, DeleteRole(r) PROVE TrueInv'
  <2>1. request \in [Workers -> Request \cup {NoRequest}] /\ Notice(request)
    BY <1>1 DEF RolesTypeOK, DeleteRole
  <2>2. ASSUME NEW t \in Workers, Changing(t)'
        PROVE  /\ Changing(t)
               /\ request'[t].op = request[t].op /\ request'[t].had = request[t].had
               /\ request'[t].many = request[t].many
               /\ request'[t].answered = request[t].answered
               /\ Pair(request'[t]) = Pair(request[t])
               /\ request[t].met => request'[t].met
    BY <2>1, <2>2, NoticeKeeps DEF Changing, Pair
  <2>3. assigned' \subseteq assigned /\ doubled' \subseteq doubled /\ raced' = raced
    BY <1>1 DEF DeleteRole
  <2>4. \A t \in Workers : Inserts(t)' => Inserts(t) /\ Pair(request'[t]) = Pair(request[t])
    BY <2>2 DEF Inserts
  <2>5. RaceInv'
    <3>1. doubled' \subseteq raced'
      BY <2>3 DEF TrueInv, RaceInv
    <3>2. \A s, q \in Workers : /\ s # q /\ Inserts(s)' /\ Inserts(q)'
                                /\ Pair(request'[s]) = Pair(request'[q])
                                => Pair(request'[s]) \in raced'
      BY <2>3, <2>4 DEF TrueInv, RaceInv
    <3>3. \A s \in Workers : Inserts(s)' /\ Pair(request'[s]) \in assigned'
                             => Pair(request'[s]) \in raced'
      BY <2>3, <2>4 DEF TrueInv, RaceInv
    <3>4. \A s \in Workers : Changing(s)' /\ request'[s].many => Pair(request'[s]) \in raced'
      BY <2>2, <2>3 DEF TrueInv, RaceInv
    <3> QED
      BY <3>1, <3>2, <3>3, <3>4 DEF RaceInv
  <2> QED
    BY <2>2, <2>3, <2>5 DEF TrueInv, HadIsMet, AnswersTrue
<1>2. ASSUME UNCHANGED <<request, assigned, doubled, raced>> PROVE TrueInv'
  BY <1>2 DEF TrueInv, HadIsMet, AnswersTrue, RaceInv, Inserts, Changing, Pair
<1>3. ASSUME NEW t \in Workers, request' = [request EXCEPT ![t] = request'[t]],
             request'[t] = NoRequest \/ request'[t].op = "login",
             UNCHANGED <<assigned, doubled, raced>>
      PROVE  TrueInv'
  <2>1. Others(t)
    BY <1>3, OthersStand
  <2>2. ~Changing(t)' /\ ~Inserts(t)'
    BY <1>3 DEF Changing, Inserts
  <2>3. RaceInv'
    BY <1>3, <2>1, <2>2, TableStands DEF TrueInv
  <2> QED
    BY <1>3, <2>1, <2>2, <2>3, AnswersStand DEF TrueInv
<1>4. ASSUME NEW t \in Workers, NEW u \in Members, NEW r \in RoleIds,
             NEW op \in {"grant", "revoke"}, LoadRoles(t, u, r, op)
      PROVE  TrueInv'
  <2>a. PICK many \in BOOLEAN :
           /\ many => op = "revoke" /\ <<u, r>> \in doubled
           /\ LET q == [op |-> op, u |-> u, r |-> r, had |-> <<u, r>> \in assigned,
                        many |-> many, met |-> FALSE, answered |-> FALSE]
              IN request' = [request EXCEPT ![t] = [q EXCEPT !.met = AsAsked(q, assigned)]]
    BY <1>4 DEF LoadRoles
  <2> DEFINE q == [op |-> op, u |-> u, r |-> r, had |-> <<u, r>> \in assigned,
                   many |-> many, met |-> FALSE, answered |-> FALSE]
  <2>1. request' = [request EXCEPT ![t] = [q EXCEPT !.met = AsAsked(q, assigned)]]
    BY <2>a
  <2>2. request'[t] = [q EXCEPT !.met = AsAsked(q, assigned)]
    BY <2>1 DEF RolesTypeOK
  <2>3. /\ ~request'[t].answered /\ request'[t].op = op /\ Pair(request'[t]) = <<u, r>>
        /\ (request'[t].had <=> <<u, r>> \in assigned) /\ request'[t].many = many
    BY <2>2 DEF Pair
  <2>4. request'[t].op = "grant" /\ request'[t].had => request'[t].met
    BY <2>2 DEF AsAsked, Pair
  <2> HIDE DEF q
  <2>5. Others(t)
    BY <2>1, <2>2, OthersStand
  <2>6. UNCHANGED <<assigned, doubled>> /\ raced \subseteq raced'
    BY <1>4 DEF LoadRoles
  <2>7. Inserts(t)' => op = "grant" /\ <<u, r>> \notin assigned
    BY <2>3 DEF Inserts
  <2>8. ASSUME Inserts(t)', NEW s \in Workers, s # t, Inserts(s), Pair(request[s]) = <<u, r>>
        PROVE  <<u, r>> \in raced'
    <3>1. Granting(u, r)
      BY <2>8 DEF Inserts, Granting
    <3> QED
      BY <1>4, <2>7, <2>8, <3>1 DEF LoadRoles
  <2>9. request'[t].many => <<u, r>> \in raced'
    BY <2>a, <2>3, <2>6 DEF TrueInv, RaceInv
  <2>10. RaceInv'
    BY <2>3, <2>5, <2>6, <2>7, <2>8, <2>9, TableStands DEF TrueInv
  <2> QED
    BY <2>3, <2>4, <2>5, <2>6, <2>10, AnswersStand DEF TrueInv
<1>5. ASSUME NEW t \in Workers, CommitRoles(t) PROVE TrueInv'
  <2> DEFINE q == request[t]
             threads == [request EXCEPT ![t].answered = TRUE]
  <2>1. q \in [op : {"grant", "revoke"}, u : Members, r : RoleIds, had : BOOLEAN,
               many : BOOLEAN, met : BOOLEAN, answered : BOOLEAN]
    BY <1>5 DEF RolesTypeOK, CommitRoles, Changing, Request
  <2>2. threads \in [Workers -> Request \cup {NoRequest}] /\ Notice(threads)
    BY <1>5, <2>1 DEF RolesTypeOK, CommitRoles, Request
  <2>3. threads[t] = [q EXCEPT !.answered = TRUE]
    BY <1>5, <2>1 DEF RolesTypeOK
  <2>4. Others(t)
    <3>1. ASSUME NEW s \in Workers, s # t, Changing(s)'
          PROVE  /\ Changing(s)
                 /\ request'[s].op = request[s].op /\ request'[s].had = request[s].had
                 /\ request'[s].many = request[s].many
                 /\ request'[s].answered = request[s].answered
                 /\ Pair(request'[s]) = Pair(request[s])
                 /\ request[s].met => request'[s].met
      <4>1. threads[s] = request[s]
        BY <3>1 DEF RolesTypeOK
      <4> HIDE DEF threads
      <4> QED
        BY <2>2, <3>1, <4>1, NoticeKeeps DEF Changing, Pair
    <3> QED
      BY <3>1 DEF Others
  <2>5. threads[t].op = q.op /\ threads[t].u = q.u /\ threads[t].r = q.r
        /\ threads[t].had = q.had /\ threads[t].many = q.many /\ threads[t].met = q.met
        /\ threads[t].answered
    BY <2>1, <2>3
  <2>6. Changing(t)' => /\ request'[t].op = q.op /\ Pair(request'[t]) = Pair(q)
                        /\ request'[t].had = q.had /\ request'[t].many = q.many
                        /\ request'[t].answered
                        /\ request'[t].met <=> (q.met \/ AsAsked(q, assigned'))
    <3>1. AsAsked(threads[t], assigned') <=> AsAsked(q, assigned')
      BY <2>5 DEF AsAsked, Pair
    <3> HIDE DEF threads
    <3> QED
      BY <2>2, <2>5, <3>1, NoticeKeeps DEF Pair
  <2>7. Changing(t) /\ ~q.answered /\ raced' = raced /\ assigned' = Table(q) /\ doubled' = Doubles(q)
    BY <1>5 DEF CommitRoles
  <2> HIDE DEF threads, q
  <2>8. ~Inserts(t)'
    BY <2>6 DEF Inserts
  <2>9. q.op = "grant" /\ ~q.had => Inserts(t)
    BY <2>7 DEF Inserts, q
  <2>10. \A s \in Workers : s # t /\ Inserts(s)' => Inserts(s) /\ Pair(request'[s]) = Pair(request[s])
    BY <2>4 DEF Others, Inserts
  <2>11. RaceInv'
    <3>1. doubled' \subseteq raced'
      BY <2>7, <2>9 DEF TrueInv, RaceInv, Doubles, q
    <3>2. \A s, w \in Workers : /\ s # w /\ Inserts(s)' /\ Inserts(w)'
                                /\ Pair(request'[s]) = Pair(request'[w])
                                => Pair(request'[s]) \in raced'
      BY <2>7, <2>8, <2>10 DEF TrueInv, RaceInv
    <3>3. ASSUME NEW s \in Workers, Inserts(s)', Pair(request'[s]) \in assigned'
          PROVE  Pair(request'[s]) \in raced'
      <4>1. s # t /\ Inserts(s) /\ Pair(request'[s]) = Pair(request[s])
        BY <2>8, <2>10, <3>3
      <4>2. CASE Pair(request[s]) \in assigned
        BY <2>7, <4>1, <4>2 DEF TrueInv, RaceInv
      <4>3. CASE Pair(request[s]) \notin assigned
        <5>1. q.op = "grant" /\ ~q.had /\ Pair(request[s]) = Pair(q)
          BY <2>7, <3>3, <4>1, <4>3 DEF Table, NothingToWrite
        <5> QED
          BY <2>7, <2>9, <4>1, <5>1 DEF TrueInv, RaceInv, q
      <4> QED
        BY <4>2, <4>3
    <3>4. ASSUME NEW s \in Workers, Changing(s)', request'[s].many
          PROVE  Pair(request'[s]) \in raced'
      <4>1. CASE s = t
        BY <2>6, <2>7, <3>4, <4>1 DEF TrueInv, RaceInv, q
      <4>2. CASE s # t
        BY <2>4, <2>7, <3>4, <4>2 DEF TrueInv, RaceInv, Others
      <4> QED
        BY <4>1, <4>2
    <3> QED
      BY <3>1, <3>2, <3>3, <3>4 DEF RaceInv
  <2>12. Changing(t)' => request'[t].met \/ (q.op = "revoke" /\ Pair(q) \in raced')
    <3>1. CASE q.op = "grant" /\ q.had
      BY <2>6, <2>7, <3>1 DEF TrueInv, HadIsMet, q
    <3>2. CASE q.op = "grant" /\ ~q.had
      <4>1. Pair(q) \in assigned'
        BY <2>7, <3>2 DEF Table, NothingToWrite
      <4> QED
        BY <2>6, <3>2, <4>1 DEF AsAsked
    <3>3. CASE q.op = "revoke" /\ q.many
      BY <2>7, <3>3 DEF TrueInv, RaceInv, q
    <3>4. CASE q.op = "revoke" /\ ~q.many
      <4>1. Pair(q) \notin assigned'
        BY <2>7, <3>4 DEF Table, NothingToWrite
      <4> QED
        BY <2>6, <3>4, <4>1 DEF AsAsked
    <3> QED
      BY <2>1, <3>1, <3>2, <3>3, <3>4
  <2>13. Changing(t)' /\ request'[t].op = "grant" /\ request'[t].had => request'[t].met
    BY <2>6, <2>12
  <2> QED
    BY <2>4, <2>6, <2>7, <2>11, <2>12, <2>13, AnswersStand DEF TrueInv
<1>6. ASSUME NEW t \in Workers, CommitFails(t) \/ RolesAnswer(t) PROVE TrueInv'
  <2>1. request' = [request EXCEPT ![t] = NoRequest] /\ UNCHANGED <<assigned, doubled, raced>>
    BY <1>6 DEF CommitFails, RolesAnswer
  <2> QED
    BY <1>3, <2>1 DEF RolesTypeOK
<1>7. ASSUME NEW t \in Workers, NEW u \in Members, ReadUser(t, u) PROVE TrueInv'
  BY <1>3, <1>7 DEF ReadUser, RolesTypeOK
<1>8. ASSUME NEW t \in Workers, SetPayload(t) PROVE TrueInv'
  <2>1. request' = [request EXCEPT ![t] = NoRequest] /\ UNCHANGED <<assigned, doubled, raced>>
    BY <1>8 DEF SetPayload
  <2> QED
    BY <1>3, <2>1 DEF RolesTypeOK
<1>9. CASE UNCHANGED rolesVars
  BY <1>2, <1>9 DEF rolesVars
<1> QED
  BY <1>1, <1>2, <1>4, <1>5, <1>6, <1>7, <1>8, <1>9
  DEF RolesNext, AddRole, UpdateRole, RefreshCached, HourPasses

\* An answer that an assignment was made or taken away was true at some time of
\* its request; a revoke may be wrong only about an assignment that two grants
\* stored at the same time. (role_service.py:70-89, database.py:401-421)
THEOREM AnswersAreTrue == RolesSpec => []AnswersTrue
<1>1. RolesInit => TrueInv
  BY DEF RolesInit, TrueInv, HadIsMet, AnswersTrue, RaceInv, Inserts, Changing
<1>2. RolesTypeOK /\ TrueInv /\ [RolesNext]_rolesVars => TrueInv'
  BY StepTrue
<1>3. TrueInv => AnswersTrue
  BY DEF TrueInv
<1> QED
  BY RolesTyped, <1>1, <1>2, <1>3, PTL DEF RolesSpec

=============================================================================
