----------------------------- MODULE Lifecycle -----------------------------
(***************************************************************************)
(* The market program against the transition table of market-core.         *)
(*                                                                         *)
(* The program never calls the table and stores no event for the end of    *)
(* the cooldown or for the betting deadline: both are read off the clock.  *)
(* `phase` is the state the table would be in.  Read literally, the status *)
(* field is not: it goes from Open to Snapshotted without ever being       *)
(* Locked.                                                                 *)
(***************************************************************************)
EXTENDS Market

phase ==
  IF status \notin {"Created", "Open"} THEN status
  ELSE IF ~Exists \/ now < open_at     THEN "Created"
  ELSE IF now < lock_at(timetable)     THEN "Open"
  ELSE "Locked"

Table == INSTANCE MarketState WITH state <- phase

(* Every instruction and every tick moves the phase along the table of     *)
(* MarketState::apply, or leaves it: no phase is skipped or revisited.     *)
FollowsTable == Table!Spec

Stored == INSTANCE MarketState WITH state <- status

(* The same of the status field itself, as "Mirrors MarketState" says.     *)
StatusMirrorsTable == Stored!Spec

(* No cause for `void` comes about once the settlement instant has passed, *)
(* as the comment in `void` says of every cause it derives.                *)
NoLateVoidCause ==
  [][Exists /\ now >= settle_at /\ DueCause = "None" => DueCause' = "None"]_vars

=============================================================================
