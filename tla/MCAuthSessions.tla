--------------------------- MODULE MCAuthSessions ---------------------------
(***************************************************************************)
(* An instance of AuthSessions for TLC: devices and threads are model      *)
(* values that can be exchanged.                                           *)
(***************************************************************************)
EXTENDS AuthSessions, TLC

Symmetry == Permutations(Devices) \cup Permutations(Requests)

=============================================================================
