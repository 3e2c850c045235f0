---------------------------- MODULE MCSendWindow ----------------------------
(***************************************************************************)
(* SendWindow with the window of config.py, from 9:00 to 21:00, and clocks *)
(* that are put forward or back by an hour.                                *)
(***************************************************************************)
EXTENDS SendWindow

MCShifts == {-60, 60}

=============================================================================
