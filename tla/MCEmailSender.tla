--------------------------- MODULE MCEmailSender ---------------------------
(***************************************************************************)
(* Instances of EmailSender for TLC: the message a has a low priority and  *)
(* b a high one; b expires first, and x cannot be parsed.                  *)
(***************************************************************************)
EXTENDS EmailSender

CONSTANTS a, b, x

MCPriority == [m \in Messages |-> IF m = a THEN 0 ELSE 5]
MCExpire == [m \in Messages |-> IF m = a THEN 2 ELSE 1]

=============================================================================
