------------------------------ MODULE Accounts ------------------------------
(***************************************************************************)
(* Users of the auth service and the social accounts linked to them: the   *)
(* registration, the login by a social network, which makes a user and     *)
(* the link in two commits, the removal of a link, the change of a         *)
(* password, and flask createsuperuser, which makes a user, the role ROOT  *)
(* and the assignment in three commits. Administrators may delete, rename, *)
(* grant and revoke the role ROOT like any other at the same time.         *)
(*                                                                         *)
(* A user is named by the login: an email, or the own id when there is no  *)
(* email. Logins never change and users are never deleted. Every insert    *)
(* checks first; the unique columns decide, and the checks only choose     *)
(* between 409 and 500, so that check and insert are one step wherever     *)
(* nothing else depends on the check.                                      *)
(***************************************************************************)
EXTENDS Naturals, FiniteSets

CONSTANTS
    Emails,         \* emails, in the spelling of the requests; the social networks'
                    \* ones are turned to lower case
    OwnIds,         \* logins of users without an email
    Socials,        \* accounts of a social network
    OfYandex,       \* those of Yandex; the others are of VK
    MailOf,         \* MailOf[s]: the email that the provider tells
    NoEmail,        \* it tells none
    NoneText,       \* the text "none"
    Nobody,         \* "no user"
    Threads,        \* threads of flask and runs of its command line
    NoJob,          \* "no request"
    MaxDeaths       \* bound of the requests that die

ASSUME AccountsAssumption ==
    /\ Emails \cap OwnIds = {} /\ NoEmail \notin Emails
    /\ Nobody \notin Emails \cup OwnIds
    /\ OfYandex \subseteq Socials /\ NoneText \in Emails
    /\ MailOf \in [Socials -> Emails \cup {NoEmail}]
    /\ MaxDeaths \in Nat

VARIABLES
    origin,         \* origin[u]: how the row of u was made; "none": no row
    link,           \* link[s]: the user of the social account
    rootRole,       \* there is a role named ROOT
    roots,          \* superusers who have it; nothing depends on the others' roles
    known,          \* users whose password somebody knows
    job,            \* job[t]: what the thread t does
    deaths,         \* requests that died
    \* the history
    hurt,           \* users who lost a link, or whose request failed, died or met
                    \* another role than ROOT after it made them
    stripped,       \* superusers who had the role ROOT and lost it
    went            \* went[s]: where the logins of s led since it was unlinked last

accountsVars == <<origin, link, rootRole, roots, known, job, deaths, hurt, stripped,
                  went>>

Logins == Emails \cup OwnIds
Users == {u \in Logins : origin[u] # "none"}
\* Those that createsuperuser made.
SuperUsers == {u \in Users : origin[u] = "super"}

\* A login by a social account: what is left to do, for whom, whether this
\* request made the user, and whether the account stayed linked or unlinked
\* since it began. A run of createsuperuser, and whether the role that it has
\* found or made still is ROOT.
Job ==
    [op : {"social"}, s : Socials, u : Logins, at : {"create", "link", "answer"},
     new : BOOLEAN, valid : BOOLEAN]
    \cup [op : {"super"}, u : Emails, at : {"find", "role", "assign"}, found : BOOLEAN]

ASSUME NoJobAssumption == NoJob \notin Job

\* Links and roles belong to users, and requests are of the kinds above.
AccountsTypeOK ==
    /\ origin \in [Logins -> {"none", "registered", "social", "super"}]
    /\ link \in [Socials -> Users \cup {Nobody}]
    /\ rootRole \in BOOLEAN
    /\ roots \subseteq SuperUsers /\ known \subseteq Users
    /\ job \in [Threads -> Job \cup {NoJob}]
    /\ deaths \in 0 .. MaxDeaths
    /\ hurt \subseteq Users /\ stripped \subseteq SuperUsers
    /\ roots # {} => rootRole
    /\ went \in [Socials -> SUBSET Users]

AccountsInit ==
    /\ origin = [u \in Logins |-> "none"]
    /\ link = [s \in Socials |-> Nobody]
    /\ rootRole = FALSE /\ roots = {} /\ known = {}
    /\ job = [t \in Threads |-> NoJob]
    /\ deaths = 0
    /\ hurt = {} /\ stripped = {}
    /\ went = [s \in Socials |-> {}]

Social(t, at) == job[t] # NoJob /\ job[t].op = "social" /\ job[t].at = at
Super(t, at) == job[t] # NoJob /\ job[t].op = "super" /\ job[t].at = at
Goto(t, at) == job' = [job EXCEPT ![t].at = at]
End(t) == job' = [job EXCEPT ![t] = NoJob]

\* Users that a request is still busy with.
InWork == {job[t].u : t \in {x \in Threads : job[x] # NoJob}}

-----------------------------------------------------------------------------
\* add_user: the check and the unique email.
NewUser(u, how) ==
    /\ origin[u] = "none"
    /\ origin' = [origin EXCEPT ![u] = how]

\* new_user, or an administrator's POST /users.
Register(u) ==
    /\ NewUser(u, "registered")
    /\ known' = known \cup {u}
    /\ UNCHANGED <<link, rootRole, roots, job, deaths, hurt, stripped, went>>

\* PATCH /users/me, or an administrator's.
ChangePassword(u) ==
    /\ u \in Users
    /\ known' = known \cup {u}
    /\ UNCHANGED <<origin, link, rootRole, roots, job, deaths, hurt, stripped, went>>

\* delete_user_social: the row of that id goes.
Unlink(s) ==
    /\ link[s] # Nobody
    /\ link' = [link EXCEPT ![s] = Nobody]

\* DELETE /users/me/socials/<id>
DelSocial(s) ==
    /\ Unlink(s)
    /\ hurt' = hurt \cup {link[s]}
    /\ went' = [went EXCEPT ![s] = {}]
    /\ job' = [t \in Threads |->
                 IF job[t] # NoJob /\ job[t].op = "social" /\ job[t].s = s
                 THEN [job[t] EXCEPT !.valid = FALSE] ELSE job[t]]
    /\ UNCHANGED <<origin, rootRole, roots, known, deaths, stripped>>

-----------------------------------------------------------------------------
\* YandexSignIn.callback: str(None).lower() is an email like any other.
YandexEmail(s) == IF MailOf[s] = NoEmail THEN NoneText ELSE MailOf[s]
\* VKSignIn.callback: no email is the empty one.
VkEmail(s) == MailOf[s]
EmailOf(s) == IF s \in OfYandex THEN YandexEmail(s) ELSE VkEmail(s)

\* Logins that a new user by this social account can get.
NewLogins(s) == IF EmailOf(s) = NoEmail THEN OwnIds \ (Users \cup InWork) ELSE {EmailOf(s)}

Login(s, u, at) ==
    [op |-> "social", s |-> s, u |-> u, at |-> at, new |-> FALSE, valid |-> TRUE]

\* Slip: the social account of a new user is added before the user.
FirstStepLink(s) ==
    IF link[s] # Nobody THEN {Login(s, link[s], "answer")}
    ELSE {Login(s, u, "link") : u \in NewLogins(s)}
\* login_by_social: the user of the link; else the one with the email, who gets
\* the link; else a new one, whose login is the email or the own id.
FirstStep(s) ==
    IF link[s] # Nobody THEN {Login(s, link[s], "answer")}
    ELSE IF EmailOf(s) \in Users THEN {Login(s, EmailOf(s), "link")}
    ELSE {Login(s, u, "create") : u \in NewLogins(s)}

LoginBySocial(t, s) ==
    /\ job[t] = NoJob
    /\ \E q \in FirstStep(s) : job' = [job EXCEPT ![t] = q]
    /\ UNCHANGED <<origin, link, rootRole, roots, known, deaths, hurt, stripped, went>>

\* add_new_user: the first commit ...
AddUser(t) ==
    /\ Social(t, "create") /\ NewUser(job[t].u, "social")
    /\ job' = [job EXCEPT ![t].at = "link", ![t].new = TRUE]
    /\ UNCHANGED <<link, rootRole, roots, known, deaths, hurt, stripped, went>>

\* ... or another request made that user since: 500.
AddUserFails(t) ==
    /\ Social(t, "create") /\ origin[job[t].u] # "none"
    /\ End(t)
    /\ UNCHANGED <<origin, link, rootRole, roots, known, deaths, hurt, stripped, went>>

\* Slip: social_pk is missing and the last link counts.
FreeAnyway(s) == TRUE
\* social_pk: one row for a social account.
Free(s) == link[s] = Nobody

\* add_social: the second commit ...
AddSocial(t) ==
    /\ Social(t, "link") /\ Free(job[t].s)
    /\ link' = [link EXCEPT ![job[t].s] = job[t].u]
    /\ Goto(t, "answer")
    /\ UNCHANGED <<origin, rootRole, roots, known, deaths, hurt, stripped, went>>

\* ... or the account was linked since: 500, and a new user stays without a link.
AddSocialFails(t) ==
    /\ Social(t, "link") /\ ~Free(job[t].s)
    /\ hurt' = IF job[t].new THEN hurt \cup {job[t].u} ELSE hurt
    /\ End(t)
    /\ UNCHANGED <<origin, link, rootRole, roots, known, deaths, stripped, went>>

\* The answer shows the login and the password of a new user.
AnswerSocial(t) ==
    /\ Social(t, "answer")
    /\ known' = IF job[t].new THEN known \cup {job[t].u} ELSE known
    /\ went' = IF job[t].valid THEN [went EXCEPT ![job[t].s] = @ \cup {job[t].u}] ELSE went
    /\ End(t)
    /\ UNCHANGED <<origin, link, rootRole, roots, deaths, hurt, stripped>>

-----------------------------------------------------------------------------
\* createsuperuser: the user, unless the email is taken ...
CreateSuperUser(t, u) ==
    /\ job[t] = NoJob /\ NewUser(u, "super")
    /\ known' = known \cup {u}
    /\ job' = [job EXCEPT ![t] = [op |-> "super", u |-> u, at |-> "find", found |-> FALSE]]
    /\ UNCHANGED <<link, rootRole, roots, deaths, hurt, stripped, went>>

\* ... the look for the role ...
FindRootRole(t) ==
    /\ Super(t, "find")
    /\ job' = [job EXCEPT ![t].at = IF rootRole THEN "assign" ELSE "role", ![t].found = rootRole]
    /\ UNCHANGED <<origin, link, rootRole, roots, known, deaths, hurt, stripped, went>>

\* ... its creation, when it was not found ...
AddRootRole(t) ==
    /\ Super(t, "role") /\ ~rootRole
    /\ rootRole' = TRUE
    /\ job' = [job EXCEPT ![t].at = "assign", ![t].found = TRUE]
    /\ UNCHANGED <<origin, link, roots, known, deaths, hurt, stripped, went>>

\* ... and was not made by another run since, whose role raises here ...
AddRootRoleFails(t) ==
    /\ Super(t, "role") /\ rootRole
    /\ hurt' = hurt \cup {job[t].u}
    /\ End(t)
    /\ UNCHANGED <<origin, link, rootRole, roots, known, deaths, stripped, went>>

\* Slip: the assignment is left to a later run.
AssignedLater(u) == roots
Assigned(u) == roots \cup {u}

\* ... and the assignment ...
AssignRoot(t) ==
    /\ Super(t, "assign") /\ job[t].found
    /\ roots' = Assigned(job[t].u)
    /\ stripped' = stripped \ roots'
    /\ End(t)
    /\ UNCHANGED <<origin, link, rootRole, known, deaths, hurt, went>>

\* ... which fails when the role was deleted since (404), and gives another role
\* when it was renamed.
AssignRootFails(t) ==
    /\ Super(t, "assign") /\ ~job[t].found
    /\ hurt' = hurt \cup {job[t].u}
    /\ End(t)
    /\ UNCHANGED <<origin, link, rootRole, roots, known, deaths, stripped, went>>

-----------------------------------------------------------------------------
(* What administrators do to the role ROOT.                                *)

\* The runs for which it matters that the role they found is ROOT, or is not.
Found(threads, found) ==
    job' = [t \in Threads |-> IF t \in threads THEN [job[t] EXCEPT !.found = found] ELSE job[t]]
Assigning == {t \in Threads : Super(t, "assign")}

\* DELETE /roles/<id>, with its assignments, or PUT /roles/<id> with another name.
LoseRootRole ==
    /\ rootRole
    /\ rootRole' = FALSE
    /\ roots' = {} /\ stripped' = stripped \cup roots
    /\ Found(Assigning, FALSE)
    /\ UNCHANGED <<origin, link, known, deaths, hurt, went>>

\* POST /roles with the name ROOT; or PUT of another role, whose users get ROOT,
\* and which may be one that was ROOT before.
NameRootRole ==
    /\ ~rootRole
    /\ rootRole' = TRUE
    /\ \E threads \in SUBSET Assigning : Found(threads, TRUE)
    /\ roots' \in SUBSET SuperUsers /\ stripped' = stripped \ roots'
    /\ UNCHANGED <<origin, link, known, deaths, hurt, went>>

\* POST /users/<id>/roles/<id>
GrantRoot(u) ==
    /\ rootRole /\ u \in SuperUsers
    /\ roots' = roots \cup {u} /\ stripped' = stripped \ roots'
    /\ UNCHANGED <<origin, link, rootRole, known, job, deaths, hurt, went>>

\* DELETE /users/<id>/roles/<id>
RevokeRoot(u) ==
    /\ u \in roots
    /\ roots' = roots \ {u} /\ stripped' = stripped \cup {u}
    /\ UNCHANGED <<origin, link, rootRole, known, job, deaths, hurt, went>>

-----------------------------------------------------------------------------
\* The process dies, or PostgreSQL or Redis fails.
Dies(t) ==
    /\ job[t] # NoJob /\ deaths < MaxDeaths
    /\ deaths' = deaths + 1
    /\ hurt' = IF job[t].op = "super" \/ job[t].new THEN hurt \cup {job[t].u} ELSE hurt
    /\ End(t)
    /\ UNCHANGED <<origin, link, rootRole, roots, known, stripped, went>>

AccountsNext ==
    \/ \E u \in Emails : Register(u)
    \/ \E u \in Logins : ChangePassword(u) \/ GrantRoot(u) \/ RevokeRoot(u)
    \/ LoseRootRole \/ NameRootRole
    \/ \E s \in Socials : DelSocial(s)
    \/ \E t \in Threads :
         \/ \E s \in Socials : LoginBySocial(t, s)
         \/ AddUser(t) \/ AddUserFails(t) \/ AddSocial(t) \/ AddSocialFails(t) \/ AnswerSocial(t)
         \/ \E u \in Emails : CreateSuperUser(t, u)
         \/ FindRootRole(t) \/ AddRootRole(t) \/ AddRootRoleFails(t)
         \/ AssignRoot(t) \/ AssignRootFails(t)
         \/ Dies(t)

AccountsSpec == AccountsInit /\ [][AccountsNext]_accountsVars

-----------------------------------------------------------------------------
\* A user is half made, by a social login with neither a link nor a password
\* that somebody knows, or by createsuperuser without the role ROOT, only while
\* the request is busy, when it failed or died between its commits, when a link
\* was removed, or, the superuser, when somebody took the role ROOT, which the
\* superuser had, away. No race of logins, registrations, runs of the command
\* line and changes of the role does it behind the back of all of them.
\* (oauth_service.py:41-55, oauth_service.py:65-76, flask_cli.py:31-39)
HalfMade == {u \in Users \ known : \A s \in Socials : link[s] # u}
Powerless == SuperUsers \ roots
HalfMadeNeedsFailure ==
    HalfMade \subseteq InWork \cup hurt /\ Powerless \subseteq InWork \cup hurt \cup stripped

\* As long as a social account stays linked, all its logins lead to one user,
\* also those that race to make the user, and whoever registers the same email
\* meanwhile. (oauth_service.py:57-76, db_models.py:137)
OneUserPerSocial == \A s \in Socials : Cardinality(went[s]) <= 1

=============================================================================
