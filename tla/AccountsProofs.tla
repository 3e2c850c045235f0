--------------------------- MODULE AccountsProofs ---------------------------
(***************************************************************************)
(* Proofs about Accounts for any users, social accounts and threads: its   *)
(* type, that a social account leads to one user, and what leaves a user   *)
(* half made.                                                              *)
(***************************************************************************)
EXTENDS Accounts, FiniteSetTheorems, TLAPS

SocialJob ==
    [op : {"social"}, s : Socials, u : Logins, at : {"create", "link", "answer"},
     new : BOOLEAN, valid : BOOLEAN]
SuperJob == [op : {"super"}, u : Emails, at : {"find", "role", "assign"}, found : BOOLEAN]

\* The user of a request exists, unless the request has yet to make it; only
\* then can the request be one that made its user. The user of createsuperuser
\* is one that it made, and a role that it knows to be ROOT is there.
JobsNameUsers ==
    \A t \in Threads : job[t] # NoJob =>
        /\ job[t].at # "create" => job[t].u \in Users
        /\ job[t].at = "create" => ~job[t].new
        /\ job[t].op = "super" =>
             job[t].u \in SuperUsers /\ (job[t].at = "assign" /\ job[t].found => rootRole)

\* A login that is about to answer has the user of the link, unless the account
\* was unlinked since; no login has led to anyone else.
LoginsLeadToLink ==
    /\ \A t \in Threads : Social(t, "answer") /\ job[t].valid => link[job[t].s] = job[t].u
    /\ \A s \in Socials : went[s] \subseteq {link[s]} \ {Nobody}

\* A request that made u, or a run of createsuperuser for u, is still alive.
Maker(u) == \E t \in Threads :
    job[t] # NoJob /\ job[t].u = u /\ job[t].op = "social" /\ job[t].new
SuperMaker(u) == \E t \in Threads : job[t] # NoJob /\ job[t].u = u /\ job[t].op = "super"

\* Half made users have a request that will complete them, or they are hurt, or
\* they are superusers who lost the role.
HalfMadeHaveMakers ==
    /\ \A u \in Users : u \notin known /\ (\A s \in Socials : link[s] # u) => u \in hurt \/ Maker(u)
    /\ \A u \in Users : origin[u] = "super" /\ u \notin roots =>
         u \in hurt \cup stripped \/ SuperMaker(u)

AccountsInv == AccountsTypeOK /\ JobsNameUsers /\ LoginsLeadToLink /\ HalfMadeHaveMakers

-----------------------------------------------------------------------------
LEMMA JobsAreOfTwoKinds ==
    ASSUME AccountsTypeOK, NEW t \in Threads, job[t] # NoJob
    PROVE  /\ job[t].op = "social" => job[t] \in SocialJob
           /\ job[t].op = "super" => job[t] \in SuperJob
           /\ job[t] \in SocialJob \/ job[t] \in SuperJob
<1>1. job[t] \in SocialJob \cup SuperJob
  BY DEF AccountsTypeOK, Job, SocialJob, SuperJob
<1>2. \A q \in SocialJob : q.op = "social"
  BY DEF SocialJob
<1>3. \A q \in SuperJob : q.op = "super"
  BY DEF SuperJob
<1> QED
  BY <1>1, <1>2, <1>3

LEMMA EmailsAreLogins ==
    ASSUME NEW s \in Socials, EmailOf(s) # NoEmail
    PROVE  EmailOf(s) \in Emails
BY AccountsAssumption DEF EmailOf, YandexEmail, VkEmail

LEMMA UsersAreLogins == Users \subseteq Logins /\ Nobody \notin Logins
BY AccountsAssumption DEF Users, Logins

\* What a request starts with.
LEMMA FirstSteps ==
    ASSUME AccountsTypeOK, NEW s \in Socials, NEW q \in FirstStep(s)
    PROVE  /\ q \in SocialJob /\ q.s = s /\ ~q.new /\ q.valid
           /\ q.at # "create" => q.u \in Users
           /\ q.at = "answer" => link[s] = q.u
<1>1. ASSUME NEW u \in Logins, NEW at \in {"create", "link", "answer"}, q = Login(s, u, at)
      PROVE  q \in SocialJob /\ q.s = s /\ ~q.new /\ q.valid /\ q.u = u /\ q.at = at
  BY <1>1 DEF SocialJob, Login
<1>2. CASE link[s] # Nobody
  <2>1. q = Login(s, link[s], "answer") /\ link[s] \in Users
    BY <1>2 DEF FirstStep, AccountsTypeOK
  <2> QED
    BY <1>1, <2>1, UsersAreLogins
<1>3. CASE link[s] = Nobody /\ EmailOf(s) \in Users
  <2>1. q = Login(s, EmailOf(s), "link")
    BY <1>3 DEF FirstStep
  <2> QED
    BY <1>1, <1>3, <2>1, UsersAreLogins
<1>4. CASE link[s] = Nobody /\ EmailOf(s) \notin Users
  <2>1. PICK u \in NewLogins(s) : q = Login(s, u, "create")
    BY <1>4 DEF FirstStep
  <2>2. u \in Logins
    BY <2>1, EmailsAreLogins DEF NewLogins, Logins
  <2> QED
    BY <1>1, <2>1, <2>2
<1> QED
  BY <1>2, <1>3, <1>4

\* Making a user adds it to the users and nothing else.
LEMMA NewUserAdds ==
    ASSUME AccountsTypeOK, NEW u \in Logins, NEW how \in {"registered", "social", "super"},
           NewUser(u, how)
    PROVE  /\ u \notin Users /\ Users' = Users \cup {u}
           /\ origin' \in [Logins -> {"none", "registered", "social", "super"}]
           /\ origin'[u] = how
           /\ \A v \in Logins \ {u} : origin'[v] = origin[v]
           /\ SuperUsers \subseteq SuperUsers' /\ (how = "super" => u \in SuperUsers')
BY DEF AccountsTypeOK, NewUser, Users, SuperUsers

\* When no user appears, the users and how they were made stay.
LEMMA SameUsers == origin' = origin => Users' = Users /\ SuperUsers' = SuperUsers
BY DEF Users, SuperUsers

\* A request that is changed to a fitting job keeps the type of all.
LEMMA JobsStay ==
    ASSUME AccountsTypeOK, JobsNameUsers, Users \subseteq Users',
           SuperUsers \subseteq SuperUsers', rootRole => rootRole',
           NEW t \in Threads, NEW q \in Job \cup {NoJob},
           job' = [job EXCEPT ![t] = q],
           q # NoJob => /\ q.at # "create" => q.u \in Users'
                        /\ q.at = "create" => ~q.new
                        /\ q.op = "super" => /\ q.u \in SuperUsers'
                                             /\ q.at = "assign" /\ q.found => rootRole'
    PROVE  /\ job' \in [Threads -> Job \cup {NoJob}] /\ JobsNameUsers'
           /\ job'[t] = q /\ \A x \in Threads \ {t} : job'[x] = job[x]
<1>1. /\ job' \in [Threads -> Job \cup {NoJob}]
      /\ job'[t] = q /\ \A x \in Threads \ {t} : job'[x] = job[x]
  BY DEF AccountsTypeOK
<1>2. ASSUME NEW x \in Threads, job'[x] # NoJob
      PROVE  /\ job'[x].at # "create" => job'[x].u \in Users'
             /\ job'[x].at = "create" => ~job'[x].new
             /\ job'[x].op = "super" =>
                  job'[x].u \in SuperUsers' /\ (job'[x].at = "assign" /\ job'[x].found => rootRole')
  <2>1. CASE x = t
    BY <1>1, <1>2, <2>1
  <2>2. CASE x # t
    BY <1>1, <1>2, <2>2 DEF JobsNameUsers
  <2> QED
    BY <2>1, <2>2
<1> QED
  BY <1>1, <1>2 DEF JobsNameUsers

LEMMA InitInv == AccountsInit => AccountsInv
<1> SUFFICES ASSUME AccountsInit PROVE AccountsInv
  OBVIOUS
<1>1. Users = {}
  BY DEF AccountsInit, Users
<1>2. AccountsTypeOK
  <2>1. deaths \in 0 .. MaxDeaths
    BY AccountsAssumption DEF AccountsInit
  <2>2. /\ origin \in [Logins -> {"none", "registered", "social", "super"}]
        /\ link \in [Socials -> Users \cup {Nobody}]
        /\ job \in [Threads -> Job \cup {NoJob}]
        /\ went \in [Socials -> SUBSET Users]
    BY DEF AccountsInit
  <2> QED
    BY <2>1, <2>2 DEF AccountsInit, AccountsTypeOK
<1>3. JobsNameUsers /\ LoginsLeadToLink /\ HalfMadeHaveMakers
  BY <1>1 DEF AccountsInit, JobsNameUsers, LoginsLeadToLink, HalfMadeHaveMakers, Social
<1> QED
  BY <1>2, <1>3 DEF AccountsInv

\* How each step of a request changes its job.
LEMMA JobSteps ==
    ASSUME AccountsTypeOK, JobsNameUsers, NEW t \in Threads
    PROVE  /\ AddUser(t) =>
                /\ job' = [job EXCEPT ![t] = [job[t] EXCEPT !.at = "link", !.new = TRUE]]
                /\ [job[t] EXCEPT !.at = "link", !.new = TRUE] \in SocialJob
           /\ AddSocial(t) =>
                /\ job' = [job EXCEPT ![t] = [job[t] EXCEPT !.at = "answer"]]
                /\ [job[t] EXCEPT !.at = "answer"] \in SocialJob
           /\ AddRootRole(t) =>
                /\ job' = [job EXCEPT ![t] = [job[t] EXCEPT !.at = "assign", !.found = TRUE]]
                /\ [job[t] EXCEPT !.at = "assign", !.found = TRUE] \in SuperJob
           /\ FindRootRole(t) =>
                \E at \in {"role", "assign"} :
                   /\ job' = [job EXCEPT ![t] = [job[t] EXCEPT !.at = at, !.found = rootRole]]
                   /\ [job[t] EXCEPT !.at = at, !.found = rootRole] \in SuperJob
<1>1. ASSUME AddUser(t)
      PROVE  /\ job' = [job EXCEPT ![t] = [job[t] EXCEPT !.at = "link", !.new = TRUE]]
             /\ [job[t] EXCEPT !.at = "link", !.new = TRUE] \in SocialJob
  <2>1. job[t] \in SocialJob
    BY <1>1, JobsAreOfTwoKinds DEF AddUser, Social
  <2>2. [job[t] EXCEPT !.at = "link", !.new = TRUE] \in SocialJob
    BY <2>1 DEF SocialJob
  <2>3. job' = [job EXCEPT ![t] = [job[t] EXCEPT !.at = "link", !.new = TRUE]]
    BY <1>1 DEF AddUser, AccountsTypeOK
  <2> QED
    BY <2>2, <2>3
<1>2. ASSUME AddSocial(t)
      PROVE  /\ job' = [job EXCEPT ![t] = [job[t] EXCEPT !.at = "answer"]]
             /\ [job[t] EXCEPT !.at = "answer"] \in SocialJob
  <2>1. job[t] \in SocialJob
    BY <1>2, JobsAreOfTwoKinds DEF AddSocial, Social
  <2>2. [job[t] EXCEPT !.at = "answer"] \in SocialJob
    BY <2>1 DEF SocialJob
  <2> QED
    BY <1>2, <2>2 DEF AddSocial, Goto
<1>3. ASSUME AddRootRole(t)
      PROVE  /\ job' = [job EXCEPT ![t] = [job[t] EXCEPT !.at = "assign", !.found = TRUE]]
             /\ [job[t] EXCEPT !.at = "assign", !.found = TRUE] \in SuperJob
  <2>1. job[t] \in SuperJob
    BY <1>3, JobsAreOfTwoKinds DEF AddRootRole, Super
  <2>2. [job[t] EXCEPT !.at = "assign", !.found = TRUE] \in SuperJob
    BY <2>1 DEF SuperJob
  <2>3. job' = [job EXCEPT ![t] = [job[t] EXCEPT !.at = "assign", !.found = TRUE]]
    BY <1>3 DEF AddRootRole, AccountsTypeOK
  <2> QED
    BY <2>2, <2>3
<1>4. ASSUME FindRootRole(t)
      PROVE  \E at \in {"role", "assign"} :
                /\ job' = [job EXCEPT ![t] = [job[t] EXCEPT !.at = at, !.found = rootRole]]
                /\ [job[t] EXCEPT !.at = at, !.found = rootRole] \in SuperJob
  <2> DEFINE at == IF rootRole THEN "assign" ELSE "role"
  <2>1. job[t] \in SuperJob /\ rootRole \in BOOLEAN
    BY <1>4, JobsAreOfTwoKinds DEF FindRootRole, Super, AccountsTypeOK
  <2>2. at \in {"role", "assign"}
    OBVIOUS
  <2>3. job' = [job EXCEPT ![t] = [job[t] EXCEPT !.at = at, !.found = rootRole]]
    BY <1>4 DEF FindRootRole, AccountsTypeOK
  <2> HIDE DEF at
  <2>4. [job[t] EXCEPT !.at = at, !.found = rootRole] \in SuperJob
    BY <2>1, <2>2 DEF SuperJob
  <2> QED
    BY <2>2, <2>3, <2>4
<1> QED
  BY <1>1, <1>2, <1>3, <1>4

\* A job that ends leaves the others as they are.
LEMMA JobEnds ==
    ASSUME AccountsTypeOK, JobsNameUsers, Users \subseteq Users',
           SuperUsers \subseteq SuperUsers', rootRole => rootRole', NEW t \in Threads, End(t)
    PROVE  /\ job' \in [Threads -> Job \cup {NoJob}] /\ JobsNameUsers'
           /\ job'[t] = NoJob /\ \A x \in Threads \ {t} : job'[x] = job[x]
BY JobsStay DEF End

\* What a change of the role ROOT does to the requests.
LEMMA JobsAfterFound ==
    ASSUME AccountsTypeOK, NEW threads \in SUBSET Assigning, NEW found \in BOOLEAN,
           Found(threads, found)
    PROVE  /\ job' \in [Threads -> Job \cup {NoJob}]
           /\ \A t \in Threads :
                /\ job'[t] = NoJob <=> job[t] = NoJob
                /\ job[t] # NoJob =>
                     /\ job'[t].op = job[t].op /\ job'[t].u = job[t].u /\ job'[t].at = job[t].at
                     /\ job[t].op = "social" => job'[t] = job[t]
                     /\ job[t].op = "super" =>
                          job'[t].found = IF t \in threads THEN found ELSE job[t].found
<1>1. ASSUME NEW t \in Threads
      PROVE  /\ job'[t] \in Job \cup {NoJob}
             /\ job'[t] = NoJob <=> job[t] = NoJob
             /\ job[t] # NoJob =>
                  /\ job'[t].op = job[t].op /\ job'[t].u = job[t].u /\ job'[t].at = job[t].at
                  /\ job[t].op = "social" => job'[t] = job[t]
                  /\ job[t].op = "super" =>
                       job'[t].found = IF t \in threads THEN found ELSE job[t].found
  <2>1. CASE t \notin threads
    BY <2>1 DEF Found, AccountsTypeOK
  <2>2. CASE t \in threads
    <3>1. job[t] # NoJob /\ job[t].op = "super" /\ job[t] \in SuperJob
      BY <2>2, JobsAreOfTwoKinds DEF Assigning, Super
    <3>2. job'[t] = [job[t] EXCEPT !.found = found]
      BY <2>2 DEF Found
    <3>3. /\ job'[t] \in SuperJob /\ job'[t].op = "super" /\ job'[t].u = job[t].u
          /\ job'[t].at = job[t].at /\ job'[t].found = found
      BY <3>1, <3>2 DEF SuperJob
    <3>4. SuperJob \subseteq Job
      BY DEF SuperJob, Job
    <3> QED
      BY <2>2, <3>1, <3>3, <3>4, NoJobAssumption
  <2> QED
    BY <2>1, <2>2
<1>2. job' = [t \in Threads |-> job'[t]]
  BY DEF Found
<1> QED
  BY <1>1, <1>2

\* Every action keeps the type, and the users of the requests.
LEMMA StepTyped ==
    ASSUME AccountsTypeOK, JobsNameUsers, AccountsNext
    PROVE  AccountsTypeOK' /\ JobsNameUsers'
<1>1. ASSUME NEW u \in Emails, Register(u) PROVE AccountsTypeOK' /\ JobsNameUsers'
  <2>1. u \in Logins
    BY DEF Logins
  <2>2. /\ Users' = Users \cup {u} /\ SuperUsers \subseteq SuperUsers'
        /\ origin' \in [Logins -> {"none", "registered", "social", "super"}]
    BY <1>1, <2>1, NewUserAdds DEF Register
  <2>3. JobsNameUsers'
    BY <1>1, <2>2 DEF Register, JobsNameUsers
  <2>4. /\ link' \in [Socials -> Users' \cup {Nobody}]
        /\ went' \in [Socials -> SUBSET Users']
    BY <1>1, <2>2 DEF Register, AccountsTypeOK
  <2> QED
    BY <1>1, <2>2, <2>3, <2>4 DEF Register, AccountsTypeOK
<1>2. ASSUME NEW u \in Logins, ChangePassword(u) PROVE AccountsTypeOK' /\ JobsNameUsers'
  BY <1>2, SameUsers DEF ChangePassword, AccountsTypeOK, JobsNameUsers
<1>3. ASSUME NEW s \in Socials, DelSocial(s) PROVE AccountsTypeOK' /\ JobsNameUsers'
  <2> DEFINE busy(t) == job[t] # NoJob /\ job[t].op = "social" /\ job[t].s = s
  <2>1. Users' = Users /\ SuperUsers' = SuperUsers
    BY <1>3, SameUsers DEF DelSocial
  <2>2. ASSUME NEW t \in Threads
        PROVE  /\ job'[t] = IF busy(t) THEN [job[t] EXCEPT !.valid = FALSE] ELSE job[t]
               /\ job'[t] \in Job \cup {NoJob}
               /\ job'[t] # NoJob => /\ job[t] # NoJob /\ job'[t].at = job[t].at
                                     /\ job'[t].u = job[t].u /\ job'[t].op = job[t].op
                                     /\ job[t].op = "super" => job'[t] = job[t]
                                     /\ job[t].at = "create" => job'[t].new = job[t].new
    <3>1. job'[t] = IF busy(t) THEN [job[t] EXCEPT !.valid = FALSE] ELSE job[t]
      BY <1>3 DEF DelSocial
    <3>2. CASE ~busy(t)
      BY <3>1, <3>2 DEF AccountsTypeOK
    <3>3. CASE busy(t)
      <4>1. job[t] \in SocialJob
        BY <3>3, JobsAreOfTwoKinds
      <4>2. job'[t] = [job[t] EXCEPT !.valid = FALSE]
        BY <3>1, <3>3
      <4>3. /\ job'[t] \in SocialJob /\ job'[t].at = job[t].at /\ job'[t].u = job[t].u
            /\ job'[t].new = job[t].new /\ job'[t].op = "social"
        BY <4>1, <4>2 DEF SocialJob
      <4> QED
        BY <3>1, <3>3, <4>3 DEF SocialJob, Job
    <3> QED
      BY <3>2, <3>3
  <2>3. job' \in [Threads -> Job \cup {NoJob}]
    <3>1. job' = [t \in Threads |-> job'[t]]
      BY <1>3 DEF DelSocial
    <3> QED
      BY <2>2, <3>1
  <2>4. JobsNameUsers'
    BY <1>3, <2>1, <2>2 DEF DelSocial, JobsNameUsers
  <2>5. link[s] \in Users /\ link' \in [Socials -> Users \cup {Nobody}]
    BY <1>3 DEF DelSocial, Unlink, AccountsTypeOK
  <2>6. went' \in [Socials -> SUBSET Users]
    BY <1>3 DEF DelSocial, AccountsTypeOK
  <2> QED
    BY <1>3, <2>1, <2>3, <2>4, <2>5, <2>6 DEF DelSocial, AccountsTypeOK
<1>4. ASSUME NEW t \in Threads, NEW s \in Socials, LoginBySocial(t, s)
      PROVE  AccountsTypeOK' /\ JobsNameUsers'
  <2>1. PICK q \in FirstStep(s) : job' = [job EXCEPT ![t] = q]
    BY <1>4 DEF LoginBySocial
  <2>2. Users' = Users /\ SuperUsers' = SuperUsers
    BY <1>4, SameUsers DEF LoginBySocial
  <2>3. q \in Job /\ (q.at # "create" => q.u \in Users) /\ ~q.new /\ q.op = "social"
    BY FirstSteps DEF Job, SocialJob
  <2>4. job' \in [Threads -> Job \cup {NoJob}] /\ JobsNameUsers'
    BY <1>4, <2>1, <2>2, <2>3, JobsStay DEF LoginBySocial
  <2> QED
    BY <1>4, <2>2, <2>4 DEF LoginBySocial, AccountsTypeOK
<1>5. ASSUME NEW t \in Threads, AddUser(t) PROVE AccountsTypeOK' /\ JobsNameUsers'
  <2> DEFINE q == [job[t] EXCEPT !.at = "link", !.new = TRUE]
  <2>1. job[t] \in SocialJob /\ job[t].u \in Logins
    BY <1>5, JobsAreOfTwoKinds DEF AddUser, Social, SocialJob
  <2>2. /\ Users' = Users \cup {job[t].u} /\ SuperUsers \subseteq SuperUsers'
        /\ origin' \in [Logins -> {"none", "registered", "social", "super"}]
    BY <1>5, <2>1, NewUserAdds DEF AddUser
  <2>3. job' = [job EXCEPT ![t] = q] /\ q \in SocialJob
    BY <1>5, JobSteps
  <2>4. q.at = "link" /\ q.u = job[t].u /\ q.op = "social" /\ rootRole' = rootRole
    BY <1>5, <2>1 DEF SocialJob, AddUser
  <2>5. job' \in [Threads -> Job \cup {NoJob}] /\ JobsNameUsers'
    <3>1. q \in Job
      BY <2>3 DEF SocialJob, Job
    <3> HIDE DEF q
    <3> QED
      BY <2>2, <2>3, <2>4, <3>1, JobsStay
  <2>6. /\ link' \in [Socials -> Users' \cup {Nobody}]
        /\ went' \in [Socials -> SUBSET Users']
    BY <1>5, <2>2 DEF AddUser, AccountsTypeOK
  <2> QED
    BY <1>5, <2>2, <2>5, <2>6 DEF AddUser, AccountsTypeOK
<1>6. ASSUME NEW t \in Threads, AddUserFails(t) PROVE AccountsTypeOK' /\ JobsNameUsers'
  BY <1>6, SameUsers, JobEnds DEF AddUserFails, AccountsTypeOK
<1>7. ASSUME NEW t \in Threads, AddSocial(t) PROVE AccountsTypeOK' /\ JobsNameUsers'
  <2> DEFINE q == [job[t] EXCEPT !.at = "answer"]
  <2>1. job[t] \in SocialJob /\ job[t].u \in Users /\ job[t].s \in Socials
    BY <1>7, JobsAreOfTwoKinds DEF AddSocial, Social, SocialJob, JobsNameUsers
  <2>2. Users' = Users /\ SuperUsers' = SuperUsers
    BY <1>7, SameUsers DEF AddSocial
  <2>3. job' = [job EXCEPT ![t] = q] /\ q \in SocialJob
    BY <1>7, JobSteps
  <2>4. q.at = "answer" /\ q.u = job[t].u /\ q.op = "social" /\ rootRole' = rootRole
    BY <1>7, <2>1 DEF SocialJob, AddSocial
  <2>5. job' \in [Threads -> Job \cup {NoJob}] /\ JobsNameUsers'
    <3>1. q \in Job
      BY <2>3 DEF SocialJob, Job
    <3> HIDE DEF q
    <3> QED
      BY <2>1, <2>2, <2>3, <2>4, <3>1, JobsStay
  <2>6. link' \in [Socials -> Users \cup {Nobody}]
    BY <1>7, <2>1 DEF AddSocial, AccountsTypeOK
  <2> QED
    BY <1>7, <2>2, <2>5, <2>6 DEF AddSocial, AccountsTypeOK
<1>8. ASSUME NEW t \in Threads, AddSocialFails(t) PROVE AccountsTypeOK' /\ JobsNameUsers'
  <2>1. job[t].u \in Users
    BY <1>8 DEF AddSocialFails, Social, JobsNameUsers
  <2> QED
    BY <1>8, <2>1, SameUsers, JobEnds DEF AddSocialFails, AccountsTypeOK
<1>9. ASSUME NEW t \in Threads, AnswerSocial(t) PROVE AccountsTypeOK' /\ JobsNameUsers'
  <2>1. job[t].u \in Users /\ job[t].s \in Socials
    BY <1>9, JobsAreOfTwoKinds DEF AnswerSocial, Social, SocialJob, JobsNameUsers
  <2>2. Users' = Users /\ SuperUsers' = SuperUsers /\ known' \subseteq Users
    BY <1>9, <2>1, SameUsers DEF AnswerSocial, AccountsTypeOK
  <2>3. went' \in [Socials -> SUBSET Users]
    BY <1>9, <2>1 DEF AnswerSocial, AccountsTypeOK
  <2>4. job' \in [Threads -> Job \cup {NoJob}] /\ JobsNameUsers'
    BY <1>9, <2>2, JobEnds DEF AnswerSocial
  <2> QED
    BY <1>9, <2>2, <2>3, <2>4 DEF AnswerSocial, AccountsTypeOK
<1>10. ASSUME NEW t \in Threads, NEW u \in Emails, CreateSuperUser(t, u)
       PROVE  AccountsTypeOK' /\ JobsNameUsers'
  <2> DEFINE q == [op |-> "super", u |-> u, at |-> "find", found |-> FALSE]
  <2>1. u \in Logins
    BY DEF Logins
  <2>2. /\ Users' = Users \cup {u} /\ SuperUsers \subseteq SuperUsers' /\ u \in SuperUsers'
        /\ origin' \in [Logins -> {"none", "registered", "social", "super"}]
    BY <1>10, <2>1, NewUserAdds DEF CreateSuperUser
  <2>3. q \in Job /\ q.at = "find" /\ q.u = u
    BY DEF Job
  <2>4. job' = [job EXCEPT ![t] = q] /\ rootRole' = rootRole
    BY <1>10 DEF CreateSuperUser
  <2>5. job' \in [Threads -> Job \cup {NoJob}] /\ JobsNameUsers'
    <3> HIDE DEF q
    <3> QED
      BY <2>2, <2>3, <2>4, JobsStay
  <2>6. /\ link' \in [Socials -> Users' \cup {Nobody}]
        /\ went' \in [Socials -> SUBSET Users']
    BY <1>10, <2>2 DEF CreateSuperUser, AccountsTypeOK
  <2> QED
    BY <1>10, <2>2, <2>5, <2>6 DEF CreateSuperUser, AccountsTypeOK
<1>11. ASSUME NEW t \in Threads, AddRootRole(t) PROVE AccountsTypeOK' /\ JobsNameUsers'
  <2> DEFINE q == [job[t] EXCEPT !.at = "assign", !.found = TRUE]
  <2>1. job[t] \in SuperJob /\ job[t].u \in SuperUsers
    BY <1>11, JobsAreOfTwoKinds DEF AddRootRole, Super, SuperJob, JobsNameUsers
  <2>2. Users' = Users /\ SuperUsers' = SuperUsers /\ rootRole' = TRUE
    BY <1>11, SameUsers DEF AddRootRole
  <2>3. job' = [job EXCEPT ![t] = q] /\ q \in SuperJob
    BY <1>11, JobSteps
  <2>4. q.at = "assign" /\ q.u = job[t].u /\ q.u \in Users
    BY <2>1 DEF SuperJob, SuperUsers
  <2>5. job' \in [Threads -> Job \cup {NoJob}] /\ JobsNameUsers'
    <3>1. q \in Job
      BY <2>3 DEF SuperJob, Job
    <3> HIDE DEF q
    <3> QED
      BY <2>1, <2>2, <2>3, <2>4, <3>1, JobsStay
  <2> QED
    BY <1>11, <2>2, <2>5 DEF AddRootRole, AccountsTypeOK
<1>12. ASSUME NEW t \in Threads, AddRootRoleFails(t) \/ AssignRootFails(t)
       PROVE  AccountsTypeOK' /\ JobsNameUsers'
  <2>1. job[t].u \in Users
    BY <1>12 DEF AddRootRoleFails, AssignRootFails, Super, JobsNameUsers
  <2> QED
    BY <1>12, <2>1, SameUsers, JobEnds DEF AddRootRoleFails, AssignRootFails, AccountsTypeOK
<1>13. ASSUME NEW t \in Threads, AssignRoot(t) PROVE AccountsTypeOK' /\ JobsNameUsers'
  <2>1. job[t].u \in SuperUsers /\ rootRole
    BY <1>13 DEF AssignRoot, Super, JobsNameUsers
  <2>2. Users' = Users /\ SuperUsers' = SuperUsers /\ rootRole' = rootRole
    BY <1>13, SameUsers DEF AssignRoot
  <2>3. job' \in [Threads -> Job \cup {NoJob}] /\ JobsNameUsers'
    BY <1>13, <2>2, JobEnds DEF AssignRoot
  <2>4. roots' \subseteq SuperUsers /\ stripped' \subseteq SuperUsers
    BY <1>13, <2>1 DEF AssignRoot, Assigned, AccountsTypeOK
  <2> QED
    BY <1>13, <2>1, <2>2, <2>3, <2>4 DEF AssignRoot, AccountsTypeOK
<1>14. ASSUME NEW t \in Threads, Dies(t) PROVE AccountsTypeOK' /\ JobsNameUsers'
  <2>1. job[t].op = "super" \/ job[t].new => job[t].u \in Users
    BY <1>14, JobsAreOfTwoKinds DEF Dies, JobsNameUsers, SuperUsers, SocialJob
  <2>2. Users' = Users /\ SuperUsers' = SuperUsers /\ hurt' \subseteq Users
    BY <1>14, <2>1, SameUsers DEF Dies, AccountsTypeOK
  <2>3. deaths' \in 0 .. MaxDeaths
    BY <1>14, AccountsAssumption DEF Dies, AccountsTypeOK
  <2>4. job' \in [Threads -> Job \cup {NoJob}] /\ JobsNameUsers'
    BY <1>14, <2>2, JobEnds DEF Dies
  <2> QED
    BY <1>14, <2>2, <2>3, <2>4 DEF Dies, AccountsTypeOK
<1>15. ASSUME NEW t \in Threads, FindRootRole(t) PROVE AccountsTypeOK' /\ JobsNameUsers'
  <2>1. job[t] \in SuperJob /\ job[t].u \in SuperUsers
    BY <1>15, JobsAreOfTwoKinds DEF FindRootRole, Super, SuperJob, JobsNameUsers
  <2>2. Users' = Users /\ SuperUsers' = SuperUsers /\ rootRole' = rootRole
    BY <1>15, SameUsers DEF FindRootRole
  <2>3. PICK at \in {"role", "assign"} :
          /\ job' = [job EXCEPT ![t] = [job[t] EXCEPT !.at = at, !.found = rootRole]]
          /\ [job[t] EXCEPT !.at = at, !.found = rootRole] \in SuperJob
    BY <1>15, JobSteps
  <2> DEFINE q == [job[t] EXCEPT !.at = at, !.found = rootRole]
  <2>4. q.at = at /\ q.u = job[t].u /\ q.u \in Users /\ q.found = rootRole
    BY <2>1 DEF SuperJob, SuperUsers
  <2>5. job' \in [Threads -> Job \cup {NoJob}] /\ JobsNameUsers'
    <3>1. q \in Job /\ job' = [job EXCEPT ![t] = q]
      BY <2>3 DEF SuperJob, Job
    <3> HIDE DEF q
    <3> QED
      BY <2>1, <2>2, <2>4, <3>1, JobsStay
  <2> QED
    BY <1>15, <2>2, <2>5 DEF FindRootRole, AccountsTypeOK
<1>16. ASSUME LoseRootRole \/ NameRootRole PROVE AccountsTypeOK' /\ JobsNameUsers'
  <2>1. PICK threads \in SUBSET Assigning :
          Found(threads, rootRole') /\ (LoseRootRole => threads = Assigning)
    BY <1>16 DEF LoseRootRole, NameRootRole
  <2>2. Users' = Users /\ SuperUsers' = SuperUsers /\ rootRole' \in BOOLEAN
    BY <1>16, SameUsers DEF LoseRootRole, NameRootRole
  <2>3. job' \in [Threads -> Job \cup {NoJob}]
    BY <2>1, <2>2, JobsAfterFound
  <2>4. JobsNameUsers'
    <3> SUFFICES ASSUME NEW t \in Threads, job'[t] # NoJob
                 PROVE  /\ job'[t].at # "create" => job'[t].u \in Users
                        /\ job'[t].at = "create" => ~job'[t].new
                        /\ job'[t].op = "super" => /\ job'[t].u \in SuperUsers
                                                   /\ job'[t].at = "assign" /\ job'[t].found => rootRole'
      BY <2>2 DEF JobsNameUsers
    <3>1. /\ job[t] # NoJob /\ job'[t].op = job[t].op /\ job'[t].u = job[t].u
          /\ job'[t].at = job[t].at
          /\ job[t].op = "social" => job'[t] = job[t]
          /\ job[t].op = "super" => job'[t].found = IF t \in threads THEN rootRole' ELSE job[t].found
      BY <2>1, <2>2, JobsAfterFound
    <3>2. job[t].at = "create" => job[t].op = "social"
      <4>1. job[t] \in SocialJob \/ job[t] \in SuperJob
        BY <3>1, JobsAreOfTwoKinds
      <4> QED
        BY <4>1 DEF SocialJob, SuperJob
    <3>3. job[t].op = "super" /\ job[t].at = "assign" => t \in Assigning
      BY <3>1 DEF Assigning, Super
    <3>4. NameRootRole => rootRole'
      BY DEF NameRootRole
    <3> QED
      BY <1>16, <2>1, <3>1, <3>2, <3>3, <3>4 DEF JobsNameUsers
  <2>5. roots' \subseteq SuperUsers /\ stripped' \subseteq SuperUsers /\ (roots' # {} => rootRole')
    BY <1>16 DEF LoseRootRole, NameRootRole, AccountsTypeOK
  <2> QED
    BY <1>16, <2>2, <2>3, <2>4, <2>5 DEF LoseRootRole, NameRootRole, AccountsTypeOK
<1>17. ASSUME NEW u \in Logins, GrantRoot(u) \/ RevokeRoot(u)
       PROVE  AccountsTypeOK' /\ JobsNameUsers'
  <2>1. Users' = Users /\ SuperUsers' = SuperUsers
    BY <1>17, SameUsers DEF GrantRoot, RevokeRoot
  <2>2. roots' \subseteq SuperUsers /\ stripped' \subseteq SuperUsers /\ (roots' # {} => rootRole')
    BY <1>17 DEF GrantRoot, RevokeRoot, AccountsTypeOK
  <2> QED
    BY <1>17, <2>1, <2>2 DEF GrantRoot, RevokeRoot, AccountsTypeOK, JobsNameUsers
<1> QED
  BY <1>1, <1>2, <1>3, <1>4, <1>5, <1>6, <1>7, <1>8, <1>9, <1>10, <1>11, <1>12, <1>13,
     <1>14, <1>15, <1>16, <1>17 DEF AccountsNext

\* What a step does to the job of its thread, and to no other.
LEMMA JobAfter ==
    ASSUME AccountsTypeOK, JobsNameUsers, NEW t \in Threads
    PROVE  /\ AddUser(t) => /\ job'[t] \in SocialJob /\ job'[t].at = "link" /\ job'[t].new
                            /\ job'[t].u = job[t].u /\ ~job[t].new
                            /\ \A x \in Threads \ {t} : job'[x] = job[x]
           /\ AddSocial(t) => /\ job'[t] \in SocialJob /\ job'[t].at = "answer"
                              /\ job'[t].new = job[t].new /\ job'[t].s = job[t].s
                              /\ job'[t].u = job[t].u
                              /\ \A x \in Threads \ {t} : job'[x] = job[x]
           /\ AddRootRole(t) \/ FindRootRole(t) =>
                              /\ job'[t] \in SuperJob /\ job'[t].u = job[t].u
                              /\ \A x \in Threads \ {t} : job'[x] = job[x]
           /\ End(t) => job'[t] = NoJob /\ \A x \in Threads \ {t} : job'[x] = job[x]
<1>1. ASSUME NEW q, job' = [job EXCEPT ![t] = q]
      PROVE  job'[t] = q /\ \A x \in Threads \ {t} : job'[x] = job[x]
  BY <1>1 DEF AccountsTypeOK
<1>2. ASSUME AddUser(t)
      PROVE  /\ job'[t] \in SocialJob /\ job'[t].at = "link" /\ job'[t].new
             /\ job'[t].u = job[t].u /\ ~job[t].new
             /\ \A x \in Threads \ {t} : job'[x] = job[x]
  <2> DEFINE q == [job[t] EXCEPT !.at = "link", !.new = TRUE]
  <2>1. job[t] \in SocialJob /\ ~job[t].new
    BY <1>2, JobsAreOfTwoKinds DEF AddUser, Social, JobsNameUsers
  <2>2. job' = [job EXCEPT ![t] = q] /\ q \in SocialJob
    BY <1>2, JobSteps
  <2>3. q.at = "link" /\ q.new /\ q.u = job[t].u
    BY <2>1 DEF SocialJob
  <2> HIDE DEF q
  <2> QED
    BY <1>1, <2>1, <2>2, <2>3
<1>3. ASSUME AddSocial(t)
      PROVE  /\ job'[t] \in SocialJob /\ job'[t].at = "answer"
             /\ job'[t].new = job[t].new /\ job'[t].s = job[t].s
             /\ job'[t].u = job[t].u
             /\ \A x \in Threads \ {t} : job'[x] = job[x]
  <2> DEFINE q == [job[t] EXCEPT !.at = "answer"]
  <2>1. job[t] \in SocialJob
    BY <1>3, JobsAreOfTwoKinds DEF AddSocial, Social
  <2>2. job' = [job EXCEPT ![t] = q] /\ q \in SocialJob
    BY <1>3, JobSteps
  <2>3. q.at = "answer" /\ q.u = job[t].u /\ q.s = job[t].s /\ q.new = job[t].new
    BY <2>1 DEF SocialJob
  <2> HIDE DEF q
  <2> QED
    BY <1>1, <2>2, <2>3
<1>4. ASSUME AddRootRole(t) \/ FindRootRole(t)
      PROVE  /\ job'[t] \in SuperJob /\ job'[t].u = job[t].u
             /\ \A x \in Threads \ {t} : job'[x] = job[x]
  <2>1. job[t] \in SuperJob
    BY <1>4, JobsAreOfTwoKinds DEF AddRootRole, FindRootRole, Super
  <2>2. PICK at \in {"role", "assign"}, found \in {rootRole, TRUE} :
          /\ job' = [job EXCEPT ![t] = [job[t] EXCEPT !.at = at, !.found = found]]
          /\ [job[t] EXCEPT !.at = at, !.found = found] \in SuperJob
    BY <1>4, JobSteps
  <2> DEFINE q == [job[t] EXCEPT !.at = at, !.found = found]
  <2>3. q.u = job[t].u
    BY <2>1 DEF SuperJob
  <2>4. job' = [job EXCEPT ![t] = q] /\ q \in SuperJob
    BY <2>2
  <2> HIDE DEF q
  <2> QED
    BY <1>1, <2>3, <2>4
<1> QED
  BY <1>1, <1>2, <1>3, <1>4 DEF End

\* What unlinking does to the requests.
LEMMA JobsAfterDelSocial ==
    ASSUME AccountsTypeOK, NEW s \in Socials, DelSocial(s), NEW t \in Threads
    PROVE  /\ job'[t] = NoJob <=> job[t] = NoJob
           /\ job[t] # NoJob =>
                /\ job'[t].op = job[t].op /\ job'[t].u = job[t].u /\ job'[t].at = job[t].at
                /\ job[t].op = "social" =>
                     /\ job'[t].new = job[t].new /\ job'[t].s = job[t].s
                     /\ job'[t].valid => job[t].valid /\ job[t].s # s
<1> DEFINE busy == job[t] # NoJob /\ job[t].op = "social" /\ job[t].s = s
<1>1. job'[t] = IF busy THEN [job[t] EXCEPT !.valid = FALSE] ELSE job[t]
  BY DEF DelSocial
<1>2. CASE ~busy
  BY <1>1, <1>2
<1>3. CASE busy
  <2>1. job[t] \in SocialJob
    BY <1>3, JobsAreOfTwoKinds
  <2>2. job'[t] = [job[t] EXCEPT !.valid = FALSE]
    BY <1>1, <1>3
  <2>3. /\ job'[t] \in SocialJob /\ job'[t].op = job[t].op /\ job'[t].u = job[t].u
        /\ job'[t].at = job[t].at /\ job'[t].new = job[t].new /\ job'[t].s = job[t].s
        /\ ~job'[t].valid
    BY <2>1, <2>2 DEF SocialJob
  <2>4. job'[t] # NoJob
    BY <2>3, NoJobAssumption DEF SocialJob, Job
  <2> QED
    BY <1>3, <2>3, <2>4
<1> QED
  BY <1>2, <1>3

-----------------------------------------------------------------------------
LEMMA StepLeads ==
    ASSUME AccountsTypeOK, JobsNameUsers, LoginsLeadToLink, AccountsNext
    PROVE  LoginsLeadToLink'
<1>1. ASSUME UNCHANGED <<link, went>>, NEW t \in Threads,
             \A x \in Threads \ {t} : job'[x] = job[x],
             \/ job'[t] = NoJob
             \/ job'[t].op # "social"
             \/ job'[t].at # "answer"
             \/ link[job'[t].s] = job'[t].u
      PROVE  LoginsLeadToLink'
  BY <1>1 DEF LoginsLeadToLink, Social
<1>2. ASSUME UNCHANGED <<link, went, job>> PROVE LoginsLeadToLink'
  BY <1>2 DEF LoginsLeadToLink, Social
<1>3. ASSUME NEW s \in Socials, DelSocial(s) PROVE LoginsLeadToLink'
  <2>1. /\ link'[s] = Nobody /\ went'[s] = {}
        /\ \A x \in Socials \ {s} : link'[x] = link[x] /\ went'[x] = went[x]
    BY <1>3 DEF DelSocial, Unlink, AccountsTypeOK
  <2>2. ASSUME NEW t \in Threads, Social(t, "answer")', job'[t].valid
        PROVE  link'[job'[t].s] = job'[t].u
    <3>1. /\ Social(t, "answer") /\ job[t].valid /\ job[t].s # s
          /\ job'[t].s = job[t].s /\ job'[t].u = job[t].u
      BY <1>3, <2>2, JobsAfterDelSocial DEF Social
    <3>2. job[t].s \in Socials
      BY <3>1, JobsAreOfTwoKinds DEF Social, SocialJob
    <3> QED
      BY <2>1, <3>1, <3>2 DEF LoginsLeadToLink
  <2> QED
    BY <2>1, <2>2 DEF LoginsLeadToLink
<1>4. ASSUME NEW t \in Threads, NEW s \in Socials, LoginBySocial(t, s) PROVE LoginsLeadToLink'
  <2>1. PICK q \in FirstStep(s) : job' = [job EXCEPT ![t] = q]
    BY <1>4 DEF LoginBySocial
  <2>2. q.s = s /\ (q.at = "answer" => link[s] = q.u)
    BY FirstSteps
  <2>3. job'[t] = q /\ \A x \in Threads \ {t} : job'[x] = job[x]
    BY <2>1 DEF AccountsTypeOK
  <2> QED
    BY <1>1, <1>4, <2>2, <2>3 DEF LoginBySocial
<1>5. ASSUME NEW t \in Threads, AddUser(t) PROVE LoginsLeadToLink'
  BY <1>1, <1>5, JobAfter DEF AddUser
<1>6. ASSUME NEW t \in Threads, AddSocial(t) PROVE LoginsLeadToLink'
  <2> DEFINE s == job[t].s
  <2>1. s \in Socials /\ link[s] = Nobody
    BY <1>6, JobsAreOfTwoKinds DEF AddSocial, Social, Free, SocialJob
  <2>2. /\ link'[s] = job[t].u /\ went' = went
        /\ \A x \in Socials \ {s} : link'[x] = link[x]
    BY <1>6, <2>1 DEF AddSocial, AccountsTypeOK
  <2>3. went[s] = {}
    BY <2>1 DEF LoginsLeadToLink
  <2>4. ASSUME NEW x \in Threads, Social(x, "answer")', job'[x].valid
        PROVE  link'[job'[x].s] = job'[x].u
    <3>1. CASE x = t
      BY <1>6, <2>2, <3>1, JobAfter
    <3>2. CASE x # t
      <4>1. job'[x] = job[x]
        BY <1>6, <3>2, JobAfter
      <4>2. /\ Social(x, "answer") /\ job[x].valid /\ job[x].s \in Socials
            /\ job[x].u \in Users
        BY <2>4, <4>1, JobsAreOfTwoKinds DEF Social, SocialJob, JobsNameUsers
      <4>3. job[x].s # s
        BY <2>1, <4>2, UsersAreLogins DEF LoginsLeadToLink
      <4> QED
        BY <2>2, <4>1, <4>2, <4>3 DEF LoginsLeadToLink
    <3> QED
      BY <3>1, <3>2
  <2>5. \A x \in Socials : went'[x] \subseteq {link'[x]} \ {Nobody}
    BY <2>2, <2>3 DEF LoginsLeadToLink
  <2> QED
    BY <2>4, <2>5 DEF LoginsLeadToLink
<1>7. ASSUME NEW t \in Threads, AnswerSocial(t) PROVE LoginsLeadToLink'
  <2>1. /\ job[t].s \in Socials /\ job[t].u \in Users
        /\ job[t].valid => link[job[t].s] = job[t].u
    BY <1>7, JobsAreOfTwoKinds DEF AnswerSocial, Social, SocialJob, JobsNameUsers, LoginsLeadToLink
  <2>2. job'[t] = NoJob /\ \A x \in Threads \ {t} : job'[x] = job[x]
    BY <1>7, JobAfter DEF AnswerSocial
  <2>3. ASSUME NEW x \in Socials PROVE went'[x] \subseteq {link'[x]} \ {Nobody}
    BY <1>7, <2>1, UsersAreLogins DEF AnswerSocial, AccountsTypeOK, LoginsLeadToLink
  <2> QED
    BY <1>7, <2>2, <2>3 DEF AnswerSocial, LoginsLeadToLink, Social
<1>8. ASSUME NEW t \in Threads, NEW u \in Emails, CreateSuperUser(t, u) PROVE LoginsLeadToLink'
  <2> DEFINE q == [op |-> "super", u |-> u, at |-> "find", found |-> FALSE]
  <2>1. job' = [job EXCEPT ![t] = q] /\ q.op = "super"
    BY <1>8 DEF CreateSuperUser
  <2> HIDE DEF q
  <2>2. job'[t] = q /\ \A x \in Threads \ {t} : job'[x] = job[x]
    BY <2>1 DEF AccountsTypeOK
  <2> QED
    BY <1>1, <1>8, <2>1, <2>2 DEF CreateSuperUser
<1>9. ASSUME NEW t \in Threads, AddRootRole(t) \/ FindRootRole(t) PROVE LoginsLeadToLink'
  <2>1. job'[t].op = "super"
    BY <1>9, JobAfter DEF SuperJob
  <2> QED
    BY <1>1, <1>9, <2>1, JobAfter DEF AddRootRole, FindRootRole
<1>10. ASSUME NEW t \in Threads,
              \/ AddUserFails(t) \/ AddSocialFails(t) \/ Dies(t)
              \/ AddRootRoleFails(t) \/ AssignRoot(t) \/ AssignRootFails(t)
       PROVE  LoginsLeadToLink'
  BY <1>1, <1>10, JobAfter
  DEF AddUserFails, AddSocialFails, AddRootRoleFails, AssignRoot, AssignRootFails, Dies
<1>11. ASSUME LoseRootRole \/ NameRootRole PROVE LoginsLeadToLink'
  <2>1. PICK threads \in SUBSET Assigning : Found(threads, rootRole') /\ rootRole' \in BOOLEAN
    BY <1>11 DEF LoseRootRole, NameRootRole
  <2>2. \A t \in Threads : Social(t, "answer")' => Social(t, "answer") /\ job'[t] = job[t]
    BY <2>1, JobsAfterFound DEF Social
  <2> QED
    BY <1>11, <2>2 DEF LoseRootRole, NameRootRole, LoginsLeadToLink
<1>12. ASSUME NEW u \in Logins, GrantRoot(u) \/ RevokeRoot(u) PROVE LoginsLeadToLink'
  BY <1>2, <1>12 DEF GrantRoot, RevokeRoot
<1> QED
  BY <1>2, <1>3, <1>4, <1>5, <1>6, <1>7, <1>8, <1>9, <1>10, <1>11, <1>12
  DEF AccountsNext, Register, ChangePassword

\* u is linked after the step.
LinkedNext(u) == \E s \in Socials : link'[s] = u

\* Who was whole or had a maker keeps it, when each request that goes leaves its
\* user whole or hurt, and new users have makers.
LEMMA HalvesKept ==
    ASSUME HalfMadeHaveMakers, Users \subseteq Users',
           known \subseteq known', hurt \subseteq hurt',
           roots \cup stripped \subseteq roots' \cup stripped',
           \A u \in Users : origin'[u] = origin[u],
           \A s \in Socials : link[s] \in Users =>
                LinkedNext(link[s]) \/ link[s] \in hurt',
           \A t \in Threads : job[t] # NoJob /\ job[t].op = "social" /\ job[t].new =>
                \/ job[t].u \in hurt' \cup known'
                \/ LinkedNext(job[t].u)
                \/ job'[t] # NoJob /\ job'[t].op = "social" /\ job'[t].new /\ job'[t].u = job[t].u,
           \A t \in Threads : job[t] # NoJob /\ job[t].op = "super" =>
                \/ job[t].u \in hurt' \cup roots'
                \/ job'[t] # NoJob /\ job'[t].op = "super" /\ job'[t].u = job[t].u,
           \A u \in Users' \ Users :
                /\ u \in known' \/ Maker(u)'
                /\ origin'[u] = "super" => SuperMaker(u)'
    PROVE  HalfMadeHaveMakers'
<1>1. ASSUME NEW u \in Users', u \notin known', \A s \in Socials : link'[s] # u, u \notin hurt'
      PROVE  Maker(u)'
  <2>1. CASE u \notin Users
    BY <1>1, <2>1
  <2>2. CASE u \in Users
    <3>1. \A s \in Socials : link[s] # u
      BY <1>1, <2>2 DEF LinkedNext
    <3>2. Maker(u)
      BY <1>1, <2>2, <3>1 DEF HalfMadeHaveMakers
    <3>3. PICK t \in Threads : job[t] # NoJob /\ job[t].u = u /\ job[t].op = "social" /\ job[t].new
      BY <3>2 DEF Maker
    <3>4. job'[t] # NoJob /\ job'[t].op = "social" /\ job'[t].new /\ job'[t].u = u
      BY <1>1, <3>3 DEF LinkedNext
    <3> QED
      BY <3>4 DEF Maker
  <2> QED
    BY <2>1, <2>2
<1>2. ASSUME NEW u \in Users', origin'[u] = "super", u \notin roots', u \notin hurt' \cup stripped'
      PROVE  SuperMaker(u)'
  <2>1. CASE u \notin Users
    BY <1>2, <2>1
  <2>2. CASE u \in Users
    <3>1. SuperMaker(u)
      BY <1>2, <2>2 DEF HalfMadeHaveMakers
    <3>2. PICK t \in Threads : job[t] # NoJob /\ job[t].u = u /\ job[t].op = "super"
      BY <3>1 DEF SuperMaker
    <3>3. job'[t] # NoJob /\ job'[t].op = "super" /\ job'[t].u = u
      BY <1>2, <3>2
    <3> QED
      BY <3>3 DEF SuperMaker
  <2> QED
    BY <2>1, <2>2
<1> QED
  BY <1>1, <1>2 DEF HalfMadeHaveMakers

\* The same for a step of one thread that makes no user.
LEMMA HalvesKeptByThread ==
    ASSUME AccountsTypeOK, HalfMadeHaveMakers, origin' = origin,
           known \subseteq known', hurt \subseteq hurt',
           roots \cup stripped \subseteq roots' \cup stripped',
           \A s \in Socials : link[s] \in Users => link'[s] = link[s],
           NEW t \in Threads, \A x \in Threads \ {t} : job'[x] = job[x],
           job[t] # NoJob /\ job[t].op = "social" /\ job[t].new =>
                \/ job[t].u \in hurt' \cup known'
                \/ LinkedNext(job[t].u)
                \/ job'[t] # NoJob /\ job'[t].op = "social" /\ job'[t].new /\ job'[t].u = job[t].u,
           job[t] # NoJob /\ job[t].op = "super" =>
                \/ job[t].u \in hurt' \cup roots'
                \/ job'[t] # NoJob /\ job'[t].op = "super" /\ job'[t].u = job[t].u
    PROVE  HalfMadeHaveMakers'
<1>1. Users' = Users
  BY SameUsers
<1>2. \A s \in Socials : link[s] \in Users => LinkedNext(link[s])
  BY DEF LinkedNext
<1>3. \A x \in Threads : job[x] # NoJob /\ job[x].op = "social" /\ job[x].new =>
        \/ job[x].u \in hurt' \cup known'
        \/ LinkedNext(job[x].u)
        \/ job'[x] # NoJob /\ job'[x].op = "social" /\ job'[x].new /\ job'[x].u = job[x].u
  OBVIOUS
<1>4. \A x \in Threads : job[x] # NoJob /\ job[x].op = "super" =>
        \/ job[x].u \in hurt' \cup roots'
        \/ job'[x] # NoJob /\ job'[x].op = "super" /\ job'[x].u = job[x].u
  OBVIOUS
<1> QED
  BY <1>1, <1>2, <1>3, <1>4, HalvesKept

LEMMA JobsAreNotNoJob == (\A q \in SocialJob : q # NoJob /\ q.op = "social")
                         /\ (\A q \in SuperJob : q # NoJob /\ q.op = "super")
BY NoJobAssumption DEF SocialJob, SuperJob, Job

\* Every action keeps the half made users in somebody's hands.
LEMMA StepHalves ==
    ASSUME AccountsTypeOK, JobsNameUsers, HalfMadeHaveMakers, AccountsNext
    PROVE  HalfMadeHaveMakers'
<1>1. ASSUME NEW u \in Emails, Register(u) PROVE HalfMadeHaveMakers'
  <2>1. /\ Users' = Users \cup {u} /\ origin'[u] = "registered"
        /\ \A v \in Users : origin'[v] = origin[v]
    BY <1>1, NewUserAdds, UsersAreLogins DEF Register, Logins
  <2>2. UNCHANGED <<link, job, roots, stripped, hurt>> /\ known' = known \cup {u}
    BY <1>1 DEF Register
  <2> QED
    BY <2>1, <2>2, HalvesKept DEF LinkedNext
<1>2. ASSUME NEW u \in Logins, ChangePassword(u) PROVE HalfMadeHaveMakers'
  <2>1. Users' = Users
    BY <1>2, SameUsers DEF ChangePassword
  <2> QED
    BY <1>2, <2>1 DEF ChangePassword, HalfMadeHaveMakers, Maker, SuperMaker
<1>3. ASSUME NEW s \in Socials, DelSocial(s) PROVE HalfMadeHaveMakers'
  <2>1. Users' = Users /\ UNCHANGED <<origin, roots, stripped, known>> /\ hurt' = hurt \cup {link[s]}
    BY <1>3, SameUsers DEF DelSocial
  <2>2. \A x \in Socials \ {s} : link'[x] = link[x]
    BY <1>3 DEF DelSocial, Unlink, AccountsTypeOK
  <2>3. \A x \in Socials : link[x] \in Users => LinkedNext(link[x]) \/ link[x] \in hurt'
    BY <2>1, <2>2 DEF LinkedNext
  <2> QED
    BY <1>3, <2>1, <2>3, JobsAfterDelSocial, HalvesKept
<1>4. ASSUME NEW t \in Threads, NEW s \in Socials, LoginBySocial(t, s) PROVE HalfMadeHaveMakers'
  <2>1. \A x \in Threads \ {t} : job'[x] = job[x]
    BY <1>4 DEF LoginBySocial, AccountsTypeOK
  <2> QED
    BY <1>4, <2>1, HalvesKeptByThread DEF LoginBySocial
<1>5. ASSUME NEW t \in Threads, AddUser(t) PROVE HalfMadeHaveMakers'
  <2> DEFINE u == job[t].u
  <2>1. job[t] \in SocialJob /\ u \in Logins
    BY <1>5, JobsAreOfTwoKinds DEF AddUser, Social, SocialJob
  <2>2. /\ Users' = Users \cup {u} /\ origin'[u] = "social"
        /\ \A v \in Users : origin'[v] = origin[v]
    BY <1>5, <2>1, NewUserAdds, UsersAreLogins DEF AddUser
  <2>3. /\ job'[t] # NoJob /\ job'[t].op = "social" /\ job'[t].new /\ job'[t].u = u
        /\ \A x \in Threads \ {t} : job'[x] = job[x]
    BY <1>5, <2>1, JobAfter, JobsAreNotNoJob
  <2>4. UNCHANGED <<link, roots, stripped, known, hurt>>
    BY <1>5 DEF AddUser
  <2>5. Maker(u)'
    BY <2>3 DEF Maker
  <2>6. job[t].op = "social"
    BY <2>1 DEF SocialJob
  <2>7. \A x \in Socials : link[x] \in Users => LinkedNext(link[x])
    BY <2>4 DEF LinkedNext
  <2> HIDE DEF u
  <2> QED
    BY <2>2, <2>3, <2>4, <2>5, <2>6, <2>7, HalvesKept DEF u
<1>6. ASSUME NEW t \in Threads, AddUserFails(t) PROVE HalfMadeHaveMakers'
  <2>1. job[t].op = "social" /\ ~job[t].new
    BY <1>6, JobsAreOfTwoKinds DEF AddUserFails, Social, JobsNameUsers
  <2> QED
    BY <1>6, <2>1, JobAfter, HalvesKeptByThread DEF AddUserFails
<1>7. ASSUME NEW t \in Threads, AddSocial(t) PROVE HalfMadeHaveMakers'
  <2>1. job[t] \in SocialJob /\ job[t].op = "social" /\ job[t].s \in Socials
    BY <1>7, JobsAreOfTwoKinds DEF AddSocial, Social, SocialJob
  <2>2. /\ job'[t] # NoJob /\ job'[t].op = "social" /\ job'[t].new = job[t].new
        /\ job'[t].u = job[t].u /\ \A x \in Threads \ {t} : job'[x] = job[x]
    BY <1>7, <2>1, JobAfter, JobsAreNotNoJob
  <2>3. \A s \in Socials : link[s] \in Users => link'[s] = link[s]
    BY <1>7, <2>1, UsersAreLogins DEF AddSocial, Free, AccountsTypeOK
  <2> QED
    BY <1>7, <2>1, <2>2, <2>3, HalvesKeptByThread DEF AddSocial
<1>8. ASSUME NEW t \in Threads, AddSocialFails(t) PROVE HalfMadeHaveMakers'
  <2>1. job[t].op = "social" /\ (job[t].new => job[t].u \in hurt') /\ hurt \subseteq hurt'
    BY <1>8 DEF AddSocialFails, Social
  <2> QED
    BY <1>8, <2>1, JobAfter, HalvesKeptByThread DEF AddSocialFails
<1>9. ASSUME NEW t \in Threads, AnswerSocial(t) PROVE HalfMadeHaveMakers'
  <2>1. job[t].op = "social" /\ (job[t].new => job[t].u \in known') /\ known \subseteq known'
    BY <1>9 DEF AnswerSocial, Social
  <2> QED
    BY <1>9, <2>1, JobAfter, HalvesKeptByThread DEF AnswerSocial
<1>10. ASSUME NEW t \in Threads, NEW u \in Emails, CreateSuperUser(t, u) PROVE HalfMadeHaveMakers'
  <2> DEFINE q == [op |-> "super", u |-> u, at |-> "find", found |-> FALSE]
  <2>1. /\ Users' = Users \cup {u}
        /\ \A v \in Users : origin'[v] = origin[v]
    BY <1>10, NewUserAdds, UsersAreLogins DEF CreateSuperUser, Logins
  <2>2. job' = [job EXCEPT ![t] = q] /\ q \in SuperJob /\ q.u = u
    BY <1>10 DEF CreateSuperUser, SuperJob
  <2> HIDE DEF q
  <2>3. job'[t] = q /\ (\A x \in Threads \ {t} : job'[x] = job[x]) /\ job[t] = NoJob
    BY <1>10, <2>2 DEF AccountsTypeOK, CreateSuperUser
  <2>4. SuperMaker(u)'
    BY <2>2, <2>3, JobsAreNotNoJob DEF SuperMaker
  <2>5. UNCHANGED <<link, roots, stripped, hurt>> /\ known' = known \cup {u}
    BY <1>10 DEF CreateSuperUser
  <2>6. \A x \in Socials : link[x] \in Users => LinkedNext(link[x])
    BY <2>5 DEF LinkedNext
  <2> QED
    BY <2>1, <2>3, <2>4, <2>5, <2>6, HalvesKept
<1>11. ASSUME NEW t \in Threads, AddRootRole(t) \/ FindRootRole(t) PROVE HalfMadeHaveMakers'
  <2>1. job[t].op = "super" /\ UNCHANGED <<origin, link, roots, stripped, known, hurt>>
    BY <1>11 DEF AddRootRole, FindRootRole, Super
  <2>2. job'[t] # NoJob /\ job'[t].op = "super" /\ job'[t].u = job[t].u
    BY <1>11, JobAfter, JobsAreNotNoJob
  <2> QED
    BY <1>11, <2>1, <2>2, JobAfter, HalvesKeptByThread
<1>12. ASSUME NEW t \in Threads, AddRootRoleFails(t) \/ AssignRoot(t) \/ AssignRootFails(t)
       PROVE  HalfMadeHaveMakers'
  <2>1. /\ job[t].op = "super" /\ job[t].u \in hurt' \cup roots' /\ End(t)
        /\ hurt \subseteq hurt' /\ roots \cup stripped \subseteq roots' \cup stripped'
        /\ UNCHANGED <<origin, link, known>>
    BY <1>12 DEF AddRootRoleFails, AssignRoot, AssignRootFails, Assigned, Super
  <2> QED
    BY <2>1, JobAfter, HalvesKeptByThread
<1>13. ASSUME NEW t \in Threads, Dies(t) PROVE HalfMadeHaveMakers'
  <2>1. /\ job[t].op = "super" => job[t].u \in hurt'
        /\ job[t].op = "social" /\ job[t].new => job[t].u \in hurt'
        /\ hurt \subseteq hurt' /\ UNCHANGED <<origin, link, known, roots, stripped>> /\ End(t)
    BY <1>13 DEF Dies
  <2> QED
    BY <2>1, JobAfter, HalvesKeptByThread
<1>14. ASSUME LoseRootRole \/ NameRootRole \/ \E u \in Logins : GrantRoot(u) \/ RevokeRoot(u)
       PROVE  HalfMadeHaveMakers'
  <2>1. \/ UNCHANGED job
        \/ \E threads \in SUBSET Assigning : Found(threads, rootRole') /\ rootRole' \in BOOLEAN
    BY <1>14 DEF LoseRootRole, NameRootRole, GrantRoot, RevokeRoot
  <2>2. \A t \in Threads : job[t] # NoJob =>
          /\ job'[t] # NoJob /\ job'[t].op = job[t].op /\ job'[t].u = job[t].u
          /\ job[t].op = "social" => job'[t] = job[t]
    BY <2>1, JobsAfterFound
  <2>3. roots \cup stripped \subseteq roots' \cup stripped'
    BY <1>14 DEF LoseRootRole, NameRootRole, GrantRoot, RevokeRoot, AccountsTypeOK
  <2>4. Users' = Users /\ UNCHANGED <<origin, link, known, hurt>>
    BY <1>14, SameUsers DEF LoseRootRole, NameRootRole, GrantRoot, RevokeRoot
  <2>5. \A x \in Socials : link[x] \in Users => LinkedNext(link[x])
    BY <2>4 DEF LinkedNext
  <2> QED
    BY <2>2, <2>3, <2>4, <2>5, HalvesKept
<1> QED
  BY <1>1, <1>2, <1>3, <1>4, <1>5, <1>6, <1>7, <1>8, <1>9, <1>10, <1>11, <1>12, <1>13, <1>14
  DEF AccountsNext

-----------------------------------------------------------------------------
\* The inductive invariant behind the three properties of Accounts.
\* (oauth_service.py:41-76, flask_cli.py:31-40)
THEOREM AccountsInvariant == AccountsSpec => []AccountsInv
<1>1. AccountsInit => AccountsInv
  BY InitInv
<1>2. AccountsInv /\ [AccountsNext]_accountsVars => AccountsInv'
  <2>1. ASSUME AccountsInv, AccountsNext PROVE AccountsInv'
    BY <2>1, StepTyped, StepLeads, StepHalves DEF AccountsInv
  <2>2. ASSUME AccountsInv, UNCHANGED accountsVars PROVE AccountsInv'
    <3>1. Users' = Users /\ SuperUsers' = SuperUsers
      BY <2>2, SameUsers DEF accountsVars
    <3> QED
      BY <2>2, <3>1 DEF AccountsInv, accountsVars, AccountsTypeOK, JobsNameUsers,
         LoginsLeadToLink, Social, HalfMadeHaveMakers, Maker, SuperMaker
  <2> QED
    BY <2>1, <2>2
<1> QED
  BY <1>1, <1>2, PTL DEF AccountsSpec

\* Links, roles and requests are of existing users. (db_models.py:128-142)
THEOREM AccountsTyped == AccountsSpec => []AccountsTypeOK
<1>1. AccountsInv => AccountsTypeOK
  BY DEF AccountsInv
<1> QED
  BY AccountsInvariant, <1>1, PTL

\* A social account leads to one user as long as it is linked.
\* (oauth_service.py:57-76)
THEOREM SocialLeadsToOne == AccountsSpec => []OneUserPerSocial
<1>1. AccountsInv => OneUserPerSocial
  <2> SUFFICES ASSUME AccountsInv, NEW s \in Socials PROVE Cardinality(went[s]) <= 1
    BY DEF OneUserPerSocial
  <2>1. went[s] \subseteq {link[s]}
    BY DEF AccountsInv, LoginsLeadToLink
  <2>2. went[s] = {} \/ went[s] = {link[s]}
    BY <2>1
  <2>3. Cardinality({}) = 0 /\ Cardinality({link[s]}) = 1
    BY FS_EmptySet, FS_Singleton
  <2> QED
    BY <2>2, <2>3
<1> QED
  BY AccountsInvariant, <1>1, PTL

\* A user of a social login is half made only while the login runs, after it
\* failed, or after a link was removed; a superuser is without the role ROOT only
\* while createsuperuser runs, after it failed or met another role, or after the
\* role was taken from the user that had it.
\* (oauth_service.py:41-55, flask_cli.py:31-39, role_routes.py:35-64)
THEOREM NobodyIsHalfMade == AccountsSpec => []HalfMadeNeedsFailure
<1>1. AccountsInv => HalfMadeNeedsFailure
  <2> SUFFICES ASSUME AccountsInv
               PROVE  /\ \A u \in HalfMade : u \in InWork \cup hurt
                      /\ \A u \in Powerless : u \in InWork \cup hurt \cup stripped
    BY DEF HalfMadeNeedsFailure
  <2>1. \A u \in HalfMade : u \in hurt \/ Maker(u)
    BY DEF HalfMade, AccountsInv, HalfMadeHaveMakers
  <2>2. \A u \in Powerless : u \in hurt \cup stripped \/ SuperMaker(u)
    BY DEF Powerless, SuperUsers, AccountsInv, HalfMadeHaveMakers
  <2>3. \A u : Maker(u) \/ SuperMaker(u) => u \in InWork
    BY DEF Maker, SuperMaker, InWork
  <2> QED
    BY <2>1, <2>2, <2>3
<1> QED
  BY AccountsInvariant, <1>1, PTL

=============================================================================
