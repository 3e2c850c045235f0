---------------------------- MODULE MCNoticeEtl ----------------------------
(***************************************************************************)
(* Instances of NoticeEtl for TLC. The users: u1 has an email address and  *)
(* a phone, u2 rejects the notice n2, u3 has neither address nor phone, u4 *)
(* is unknown to the auth service.                                         *)
(***************************************************************************)
EXTENDS NoticeEtl

CONSTANTS n1, n2, u1, u2, u3, u4

MCUsers == {u1, u2, u3, u4}

\* The value of a function on Notices: a at n1, b at n2.
PerNotice(a, b) == [n \in Notices |-> IF n = n1 THEN a ELSE b]

\* n1 is an email to three recipients in two batches; n2 goes by websocket.
MCRecipients == PerNotice(<<u1, u2, u3>>, <<u2, u1>>)
\* n1 to one recipient who gets a message and one who has no address.
ShortRecipients == PerNotice(<<u1, u3>>, <<u2, u1>>)
\* n1 has an unknown recipient; n2 lists u1 in both of its batches.
RepeatedRecipients == PerNotice(<<u3, u4>>, <<u1, u2, u1>>)
MCTransport == PerNotice("email", "websocket")
SmsTransport == PerNotice("sms", "websocket")
MCExpire == PerNotice(3, 1)
MCKnown == {u1, u2, u3}
MCWithEmail == {u1, u2}
MCWithPhone == {u1}
MCRejecting == PerNotice({}, {u2})

=============================================================================
