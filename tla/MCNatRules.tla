----------------------------- MODULE MCNatRules -----------------------------
EXTENDS NatRules, TLC

(* The requests to apply the rules are alike. *)
Symmetry == Permutations(Http)

(* What behaviours and properties depend on: whether a row is enabled, and,  *)
(* once two calls have overlapped, of the history variables only the copies  *)
(* of rules of others.                                                       *)
View ==
  <<enabled, EnabledRows, table, up, manager, pc, frame, overlapped,
    IF overlapped THEN misjudged \cap Foreign ELSE <<misjudged, lost, fresh>> >>

==============================================================================
