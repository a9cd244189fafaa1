---------------------------- MODULE LockContract ----------------------------
(***************************************************************************)
(* What the session lock promises, seen from outside: from the lockers,    *)
(* by the events they are sent, and from the chair in front of the         *)
(* screens. No frames, no damage, no queue of confirmations.               *)
(*   - a session has at most one owner; a request while it lives is        *)
(*     answered `finished` and changes nothing;                            *)
(*   - the owner is told `locked` once, when no screen shows the desktop,  *)
(*     and from then on none does;                                         *)
(*   - only an owner that was told `locked` opens the session again: its   *)
(*     death does not.                                                     *)
(***************************************************************************)
CONSTANTS Lockers, None

VARIABLES
    phase,    \* "open", "closing", "closed"
    owner,    \* the locker whose lock is in force, if any
    told,     \* the last word each locker has had
    exposed   \* does some screen show the desktop?

contractVars == <<phase, owner, told, exposed>>

Dead(l) == told[l] = "dead"

\* A session recovering from a crash starts closing, without an owner.
ContractInit ==
    /\ phase \in {"open", "closing"}
    /\ owner = None
    /\ told = [l \in Lockers |-> "idle"]
    /\ exposed = FALSE

Vacant == owner = None \/ Dead(owner)

Ask(l) ==
    /\ told[l] = "idle"
    /\ IF phase = "open" \/ Vacant
       THEN phase' = "closing" /\ owner' = l /\ told' = [told EXCEPT ![l] = "waiting"]
       ELSE UNCHANGED <<phase, owner>> /\ told' = [told EXCEPT ![l] = "finished"]
    /\ UNCHANGED exposed

\* The screens change by themselves, but never open a closed session.
Screens ==
    /\ exposed' \in BOOLEAN
    /\ phase = "closed" => ~exposed'
    /\ UNCHANGED <<phase, owner, told>>

\* A dead owner is confirmed to nobody.
Confirm ==
    /\ phase = "closing" /\ owner # None
    /\ ~exposed'
    /\ phase' = "closed"
    /\ told' = IF Dead(owner) THEN told ELSE [told EXCEPT ![owner] = "locked"]
    /\ UNCHANGED owner

Release(l) ==
    /\ told[l] = "locked" /\ owner = l
    /\ phase' = "open" /\ owner' = None
    /\ told' = [told EXCEPT ![l] = "idle"]
    /\ UNCHANGED exposed

Die(l) ==
    /\ told[l] \notin {"idle", "dead"}
    /\ told' = [told EXCEPT ![l] = "dead"]
    /\ UNCHANGED <<phase, owner, exposed>>

\* A locker that was refused, or died, may come back with a new object.
Return(l) ==
    /\ told[l] = "finished" \/ (Dead(l) /\ owner # l)
    /\ told' = [told EXCEPT ![l] = "idle"]
    /\ UNCHANGED <<phase, owner, exposed>>

ContractNext ==
    \/ Screens
    \/ Confirm
    \/ \E l \in Lockers : Ask(l) \/ Release(l) \/ Die(l) \/ Return(l)

ContractSpec == ContractInit /\ [][ContractNext]_contractVars
=============================================================================
