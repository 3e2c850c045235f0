----------------------------- MODULE MCServices -----------------------------
(***************************************************************************)
(* An instance of three parts of the project that share no variable and    *)
(* that no property relates: the schedule of the notifications with the    *)
(* publish API, the roles and the accounts of the auth service. A          *)
(* behaviour runs one of them; the interleavings of all three would only   *)
(* multiply their states.                                                  *)
(***************************************************************************)
EXTENDS NoticeSchedule, TokenRoles, Accounts

VARIABLE part       \* the part that this behaviour runs

\* Two social accounts without an email: s1 of Yandex, s2 of VK.
MCMailOf == [s \in Socials |-> NoEmail]

Init ==
    /\ part \in {"schedule", "roles", "accounts"}
    /\ ScheduleInit /\ RolesInit /\ AccountsInit

Next ==
    \/ part = "schedule" /\ ScheduleNext /\ UNCHANGED <<part, rolesVars, accountsVars>>
    \/ part = "roles" /\ RolesNext /\ UNCHANGED <<part, allScheduleVars, accountsVars>>
    \/ part = "accounts" /\ AccountsNext /\ UNCHANGED <<part, allScheduleVars, rolesVars>>

Spec ==
    /\ Init
    /\ [][Next]_<<part, allScheduleVars, rolesVars, accountsVars>>
    /\ ScheduleFairness

=============================================================================
