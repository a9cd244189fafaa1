---------------------------- MODULE SessionLock ----------------------------
(***************************************************************************)
(* The session lock (crates/wm-wayland/src/lock.rs) on top of the frame    *)
(* pipeline: the lock machine, the holder, the confirmation owed, and the  *)
(* dispatch pass that draws the locked scene and sends `locked` once it    *)
(* has been presented on every screen.                                     *)
(*                                                                         *)
(* A locker stands for one client at a time: it asks with one lock object, *)
(* and may come back with a new one when that is over. `told` is the       *)
(* client's side: the last event it was sent on that object.               *)
(***************************************************************************)
EXTENDS KmsFrames

CONSTANTS
    Lockers,  \* clients that may ask for the lock
    None,
    Moves     \* bound: which of "power", "park" and "seat" happen in a run

ASSUME LockerAssumption == None \notin Lockers
ASSUME MovesAssumption == Moves \subseteq {"power", "park", "seat"}

VARIABLES
    machine,  \* LockMachine
    holder,   \* SessionLock::holder
    ack,      \* SessionLock::pending_ack
    told      \* "idle": no lock object; "waiting", "locked", "finished"; "dead"

lockVars == <<machine, holder, ack, told>>
vars == <<screen, damage, active, faults, machine, holder, ack, told>>

LockTypeOK ==
    /\ machine \in {"Unlocked", "Locking", "Locked"}
    /\ holder \in Lockers \cup {None}
    /\ ack \in Lockers \cup {None}
    /\ told \in [Lockers -> {"idle", "waiting", "locked", "finished", "dead"}]

\* The screens, the lock machine and the lockers' side are what they are said
\* to be. (session.rs, SessionOutput; lock.rs, SessionLock and LockMachine)
TypeOK == KmsTypeOK /\ LockTypeOK

\* A session recovered from a crash starts in the locked domain, with no
\* holder: begin_crash_recovery_lock.
Init ==
    /\ KmsInit
    /\ machine \in {"Unlocked", "Locking"}
    /\ holder = None
    /\ ack = None
    /\ told = [l \in Lockers |-> "idle"]

locked == machine # "Unlocked"
Alive(l) == l # None /\ told[l] # "dead"
Scene == IF locked THEN "locked" ELSE "desktop"

-----------------------------------------------------------------------------
(***************************************************************************)
(* The lockers' requests.                                                  *)
(***************************************************************************)

HolderIgnored == machine \in {"Unlocked", "Locked"}        \* mutant

\* LockMachine::request_lock: nobody holds the lock, or its holder is gone.
AcceptsLock == machine = "Unlocked" \/ ~Alive(holder)

\* SessionLockHandler::lock with enter_lock_domain: the scene branches into the
\* locked one and is damaged. Replacing an unconfirmed ack sends its locker,
\* which is dead, a `finished` nobody reads.
Lock(l) ==
    /\ told[l] = "idle"
    /\ IF AcceptsLock
       THEN /\ machine' = "Locking"
            /\ holder' = l
            /\ ack' = l
            /\ told' = [told EXCEPT ![l] = "waiting"]
            /\ damage' = TRUE
       ELSE /\ told' = [told EXCEPT ![l] = "finished"]
            /\ UNCHANGED <<machine, holder, ack, damage>>
    /\ UNCHANGED <<screen, active, faults>>

AnyHolderUnlocks(l) == machine # "Unlocked" /\ holder = l  \* mutant

\* LockMachine::request_unlock.
AcceptsUnlock(l) == machine = "Locked" /\ holder = l

\* SessionLockHandler::unlock.
Unlock(l) ==
    /\ machine' = "Unlocked"
    /\ holder' = None
    /\ ack' = None
    /\ told' = [told EXCEPT ![l] = "idle"]
    /\ damage' = TRUE

\* unlock_and_destroy: let through, or answered with the protocol error that
\* disconnects the caller.
UnlockAndDestroy(l) ==
    /\ told[l] \in {"waiting", "locked", "finished"}
    /\ IF AcceptsUnlock(l)
       THEN Unlock(l)
       ELSE /\ told' = [told EXCEPT ![l] = "dead"]
            /\ UNCHANGED <<machine, holder, ack, damage>>
    /\ UNCHANGED <<screen, active, faults>>

\* The locker's connection ends. Nothing of the lock moves.
LockerDies(l) ==
    /\ told[l] \notin {"idle", "dead"}
    /\ told' = [told EXCEPT ![l] = "dead"]
    /\ UNCHANGED <<machine, holder, ack, kmsVars>>

\* A refused locker destroys its object, or a dead one is started again.
LockerReturns(l) ==
    /\ \/ told[l] = "finished"
       \/ told[l] = "dead" /\ l \notin {holder, ack}
    /\ told' = [told EXCEPT ![l] = "idle"]
    /\ UNCHANGED <<machine, holder, ack, kmsVars>>

-----------------------------------------------------------------------------
(***************************************************************************)
(* dispatch_pending: render, then confirm_after_frame. A pass with nothing *)
(* damaged and nothing pending does neither.                               *)
(***************************************************************************)

\* confirm_after_frame, of the frames the pass leaves: the damage is taken and
\* no lit output is dirty or waits for its flip.
Presented == ~damage' /\ ~RedrawPending

ConfirmAfterFrame ==
    IF ack # None /\ locked /\ Presented /\ machine = "Locking"
    THEN /\ machine' = "Locked"
         /\ ack' = None
         /\ told' = IF Alive(ack) THEN [told EXCEPT ![ack] = "locked"] ELSE told
         /\ UNCHANGED holder
    ELSE UNCHANGED lockVars

Pass(watchdog, drawn, empty, refused) ==
    /\ Render(Scene, watchdog, drawn, empty, refused)
    /\ ConfirmAfterFrame

DispatchPass ==
    \E watchdog \in BOOLEAN, drawn \in SUBSET Outputs :
        \E empty, refused \in SUBSET drawn : Pass(watchdog, drawn, empty, refused)

-----------------------------------------------------------------------------
\* What the compositor and the hardware owe.
Progress ==
    \/ DispatchPass
    \/ \E o \in Outputs : (FlipCompletes(o) \/ VBlank(o)) /\ UNCHANGED lockVars

\* What comes from outside: clients, the user, the seat, faults.
SceneMoves ==
    \/ Damage
    \/ "seat" \in Moves /\ (PauseSession \/ ActivateSession)
    \/ \E o \in Outputs : "power" \in Moves /\ (PowerOff(o) \/ PowerOn(o))
    \/ \E o \in Outputs : "park" \in Moves /\ (Park(o) \/ Unpark(o))

Next ==
    \/ Progress
    \/ SceneMoves /\ UNCHANGED lockVars
    \/ \E o \in Outputs : FlipStalls(o) /\ UNCHANGED lockVars
    \/ \E l \in Lockers : Lock(l) \/ UnlockAndDestroy(l) \/ LockerDies(l) \/ LockerReturns(l)

Spec == Init /\ [][Next]_vars

(***************************************************************************)
(* Fairness. The hardware completes every flip it has not lost, and does   *)
(* so in one refresh: the watchdog's resets, which take a flip away, are   *)
(* five seconds apart, so they cannot always come first (SF). Calloop      *)
(* delivers every completion; the loop wakes at least every 100 ms and     *)
(* runs a pass, which draws an output once its render deadline has come,   *)
(* and asks the watchdog's question in every one: completions of the other *)
(* screens come between, but cannot always come first (SF). Clients, the   *)
(* user and the seat owe nothing.                                          *)
(***************************************************************************)
PlainPass == Pass(FALSE, {}, {}, {})

DrawingPass(o) ==
    \E drawn \in SUBSET Outputs : \E empty \in SUBSET drawn :
        o \in drawn /\ Pass(FALSE, drawn, empty, {})

WatchdogPass ==
    \E drawn \in SUBSET Outputs : \E empty \in SUBSET drawn :
        Pass(TRUE, drawn, empty, {})

Fairness ==
    /\ WF_vars(PlainPass)
    /\ SF_vars(WatchdogPass)
    /\ \A o \in Outputs :
           /\ WF_vars(DrawingPass(o))
           /\ SF_vars(FlipCompletes(o) /\ UNCHANGED lockVars)
           /\ WF_vars(VBlank(o) /\ UNCHANGED lockVars)

FairSpec == Spec /\ Fairness

-----------------------------------------------------------------------------
(***************************************************************************)
(* Safety.                                                                 *)
(***************************************************************************)

\* The desktop can be seen on a screen of this session.
Exposed == active /\ \E o \in Outputs : Lit(o) /\ screen[o].shown = "desktop"

\* ... and the kernel has not even been handed the locked frame that will
\* replace it.
Uncovered ==
    active /\ \E o \in Outputs :
        Lit(o) /\ screen[o].shown = "desktop" /\ screen[o].flip # "locked"

\* Once `locked` has gone out, a lit screen that still shows the desktop has the
\* locked frame in the kernel's hands: whatever power, parking, VT switches,
\* refused commits and late flips did meanwhile. That it is on its way is all
\* that holds of every run: see LockedIsPresented.
\* (lock.rs:628-643, confirm_after_frame; session.rs, render_frame_session)
ScreensCovered == machine = "Locked" => ~Uncovered

\* What the module documentation says of the same moment: `locked' goes out
\* when no screen shows the desktop any more. A completion taken for that of a
\* newer flip breaks it. (lock.rs:36-40; session.rs:2098-2209, 3119-3124)
LockedIsPresented ==
    [][\A l \in Lockers : told[l] = "waiting" /\ told'[l] = "locked" => ~Exposed']_vars

\* An output with nothing left to do shows, or is about to show, the scene in
\* force: no frame is forgotten. A frame the damage tracker believes shown and
\* the kernel never had is the "dirty-but-never-flipped" output of
\* session.rs:3962-3975.
QuietScreensAreCurrent ==
    \A o \in Outputs :
        LET s == screen[o]
        IN  Lit(o) /\ active /\ ~damage /\ ~s.dirty /\ ~s.pending =>
                IF s.flip = "none" THEN s.shown = Scene ELSE s.flip = Scene

\* The confirmation is owed exactly while a holder waits for it, and the holder
\* has had it exactly when the machine says so: a locker is never told `locked`
\* twice or behind another's back, and never waits for a confirmation nobody
\* holds. (lock.rs, SessionLock::pending_ack, LockMachine::frame_presented)
ConfirmationOwed ==
    /\ machine = "Locking" /\ holder # None <=> ack # None
    /\ ack # None => ack = holder
    /\ \A l \in Lockers :
           /\ told[l] = "waiting" <=> ack = l /\ Alive(l)
           /\ told[l] = "locked" <=> machine = "Locked" /\ holder = l /\ Alive(l)

\* The whole promise, as the lockers and the person in front of the screens see
\* it: told `locked` when no screen shows the desktop, and none does until the
\* holder unlocks. The pipeline keeps it as long as no completion is taken for
\* that of another flip: without late flips and without switching an output
\* off, or parking it, while a completion of its own is unread.
\* (LockContract; lock.rs module documentation, 15-60)
Contract == INSTANCE LockContract WITH
    phase <- CASE machine = "Unlocked" -> "open"
               [] machine = "Locking" -> "closing"
               [] machine = "Locked" -> "closed",
    owner <- holder,
    exposed <- Exposed
ContractHolds == Contract!ContractSpec

-----------------------------------------------------------------------------
(***************************************************************************)
(* Liveness.                                                               *)
(***************************************************************************)

\* The completion awaited for this screen will never come, and every frame drawn
\* for it is held back until it does: recover_output leaves the frame awaited
\* as it is, and so does a VT switch.
Wedged(o) ==
    LET s == screen[o]
    IN  Lit(o) /\ s.awaiting # "none" /\ s.flip = "none" /\ s.events = 0

\* A locker that was admitted is told `locked`, unless it dies, the seat stays
\* away, a lost flip wedges a screen, or the scene never settles: the
\* confirmation waits for one pass that finds no damage and no flip pending on
\* any screen, so a scene damaged for ever may put it off for ever.
\* (lock.rs:628-643)
LockIsConfirmed ==
    \/ []<><<SceneMoves \/ \E l \in Lockers : Lock(l)>>_vars
    \/ \A l \in Lockers :
           told[l] = "waiting" ~> \/ told[l] # "waiting" \/ ~active
                                  \/ \E o \in Outputs : Wedged(o)

\* A screen that is lit and blank, as every screen is after the watchdog's
\* reset, gets a frame again, unless the flip that was lost is its own: the
\* resets for one wedged screen, which blank them all, do not keep its
\* neighbours dark. (session.rs:3017-3086, 3098-3140)
BlankScreensComeBack ==
    \A o \in Outputs :
        Lit(o) /\ active /\ screen[o].shown = "blank"
            ~> ~Lit(o) \/ ~active \/ screen[o].shown # "blank" \/ Wedged(o)
=============================================================================
