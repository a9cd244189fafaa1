-------------------------- MODULE MCWindowManager --------------------------
(* Window-rule decisions for the small instances of WindowManager. *)
EXTENDS WindowManager

Rule(pin, noFocus, noActivate, noInitialFocus, target) ==
  [pin |-> pin, noFocus |-> noFocus, noActivate |-> noActivate,
   noInitialFocus |-> noInitialFocus, target |-> target]

Inherit == [kind |-> "inherit"]
Plain == Rule(FALSE, FALSE, FALSE, FALSE, Inherit)
Pin == Rule(TRUE, FALSE, FALSE, FALSE, Inherit)
Unfocusable == Rule(FALSE, TRUE, FALSE, FALSE, Inherit)
Quiet == Rule(FALSE, FALSE, FALSE, TRUE, Inherit)
Reticent == Rule(FALSE, FALSE, TRUE, FALSE, Inherit)

OnWorkspace(w, silent) ==
  Rule(FALSE, FALSE, FALSE, FALSE, [kind |-> "numbered", to |-> w, silent |-> silent])
OnSpecial(s, silent) ==
  Rule(FALSE, FALSE, FALSE, FALSE, [kind |-> "special", to |-> s, silent |-> silent])

\* No rule matches.
PlainOnly == {Plain}

\* Every kind of placement.
Placements ==
  {OnWorkspace(1, silent) : silent \in BOOLEAN}
    \cup {OnSpecial(s, silent) : s \in SpecialNames, silent \in BOOLEAN}

\* Placement, and windows that decline the keyboard.
PlacingRules == {Plain, Unfocusable} \cup Placements

\* Placement, pinning and activation.
PinningRules == {Plain, Pin, Quiet, Reticent} \cup Placements
=============================================================================
