SPECIFICATION Spec
CONSTANTS
  Notices = {n1}
  Callers = {w1, w2}
  NoNotice = noNotice
  Absent = absent
  MaxFaults = 1
  MaxKills = 1
  MaxTime = 1
  MaxEdits = 1
  MaxBacklog = 1
  Members = {u1}
  Names = {admin, editor}
  Accepted = {admin}
  RoleIds = {r1, r2}
  FirstMember = u1
  FirstId = r1
  FirstName = admin
  Unused = unused
  Deleted = deleted
  Lifetime = 2
  Workers = {t1, t2}
  NoRequest = noRequest
  Emails = {none}
  OwnIds = {a1, a2}
  Socials = {s1, s2}
  OfYandex = {s1}
  MailOf <- MCMailOf
  NoneText = none
  NoEmail = noEmail
  Nobody = nobody
  Threads = {t1, t2}
  NoJob = noJob
  MaxDeaths = 1
INVARIANTS
  ScheduleTypeOK RepeatsExplained DoneIsQueued FailedNeedsOutage EditsStay
  RolesTypeOK RevokedRolesFade AnswersTrue
  AccountsTypeOK HalfMadeNeedsFailure OneUserPerSocial
PROPERTIES DueIsServed
