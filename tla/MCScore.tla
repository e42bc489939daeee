------------------------------ MODULE MCScore ------------------------------
(***************************************************************************)
(* Scores on, around and between the ends of every strike's band, the two  *)
(* ends of the type, and strikes whose band rounds away or overflows.      *)
(***************************************************************************)
EXTENDS ScoreCases

MCStrikes == {-3, 2, 21, 40, 480}
MCScores == {-512, -21, -2, 0, 2, 5, 11, 17, 18, 19, 20, 21, 22, 24, 27, 33, 39, 40, 41, 46, 47, 79, 80,
             400, 480, 511}
=============================================================================
