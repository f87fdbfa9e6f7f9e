---------------------------- MODULE MCReminders ----------------------------
(***************************************************************************)
(* Two runs of the reminder job, one event with two offsets and one move of  *)
(* its start.                                                                *)
(***************************************************************************)
EXTENDS Reminders, TLC
============================================================================
