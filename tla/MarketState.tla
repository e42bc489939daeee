---------------------------- MODULE MarketState ----------------------------
(***************************************************************************)
(* The life of a market as market-core states it: the transition table of  *)
(* crates/market-core/src/state.rs and nothing else, no time and no money. *)
(* It is the abstract specification that Lifecycle shows Market to meet.   *)
(***************************************************************************)

VARIABLE state

States == {"Created", "Open", "Locked", "Snapshotted", "Resolved", "Void"}
Events == {"CooldownElapsed", "Locked_", "SnapshotTaken", "Resolved_", "Voided"}

(* MarketState::apply: the moves it does not refuse. *)
Transitions ==
  {<<"Created",     "CooldownElapsed", "Open">>,
   <<"Open",        "Locked_",         "Locked">>,
   <<"Locked",      "SnapshotTaken",   "Snapshotted">>,
   <<"Snapshotted", "Resolved_",       "Resolved">>}
  \cup {<<s, "Voided", "Void">> : s \in {"Created", "Open", "Locked", "Snapshotted"}}

Apply(event) == \E target \in States :
  <<state, event, target>> \in Transitions /\ state' = target

Init == state = "Created"
Next == \E event \in Events : Apply(event)
Spec == Init /\ [][Next]_state

=============================================================================
