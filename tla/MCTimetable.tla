---------------------------- MODULE MCTimetable ----------------------------
(* A range of instants short enough to overflow at both ends. *)
EXTENDS Timetable

MCFirstInstant == -5
=============================================================================
