------------------------ MODULE SessionLock_proofs ------------------------
(***************************************************************************)
(* Theorems about SessionLock, for any set of lockers and of screens: the  *)
(* type invariant, the confirmation owed, that its screens are covered     *)
(* under a single fault, that the lock implements LockContract as long as  *)
(* no confirmed lock leaves the desktop on a screen, and when the pipeline *)
(* sees to that. Every step changes the lock through one of five handlers  *)
(* or not at all; the pipeline decides what the screens show, and when     *)
(* ConfirmAfterFrame finds the locked frame presented.                     *)
(***************************************************************************)
EXTENDS SessionLock, FiniteSetTheorems, TLAPS

\* A holder is given up only by an unlock, so outside "Unlocked" it is nobody
\* only before the first locker of a recovered session; an open session has
\* none.
HolderFits == machine = "Unlocked" => holder = None

LockInv == LockTypeOK /\ HolderFits /\ ConfirmationOwed

-----------------------------------------------------------------------------
(***************************************************************************)
(* One lemma per handler.                                                  *)
(***************************************************************************)

LEMMA InitLock == Init => LockInv
  BY LockerAssumption DEF Init, LockInv, LockTypeOK, HolderFits, ConfirmationOwed, Alive

LEMMA LockStep ==
  ASSUME LockInv, NEW l \in Lockers, Lock(l)
  PROVE  LockInv'
  BY LockerAssumption
  DEF Lock, AcceptsLock, Alive, LockInv, LockTypeOK, HolderFits, ConfirmationOwed

LEMMA UnlockStep ==
  ASSUME LockInv, NEW l \in Lockers, UnlockAndDestroy(l)
  PROVE  LockInv'
  BY LockerAssumption
  DEF UnlockAndDestroy, Unlock, AcceptsUnlock, Alive, LockInv, LockTypeOK, HolderFits, ConfirmationOwed

LEMMA DeathStep ==
  ASSUME LockInv, NEW l \in Lockers, LockerDies(l)
  PROVE  LockInv'
  BY LockerAssumption
  DEF LockerDies, Alive, LockInv, LockTypeOK, HolderFits, ConfirmationOwed

LEMMA ReturnStep ==
  ASSUME LockInv, NEW l \in Lockers, LockerReturns(l)
  PROVE  LockInv'
  BY LockerAssumption
  DEF LockerReturns, Alive, LockInv, LockTypeOK, HolderFits, ConfirmationOwed

LEMMA ConfirmStep ==
  ASSUME LockInv, ConfirmAfterFrame
  PROVE  LockInv'
  BY LockerAssumption
  DEF ConfirmAfterFrame, lockVars, locked, Alive, LockInv, LockTypeOK, HolderFits, ConfirmationOwed

LEMMA IdleStep ==
  ASSUME LockInv, UNCHANGED lockVars
  PROVE  LockInv'
  BY DEF lockVars, Alive, LockInv, LockTypeOK, HolderFits, ConfirmationOwed

LEMMA NextLock == LockInv /\ [Next]_vars => LockInv'
<1> SUFFICES ASSUME LockInv, [Next]_vars PROVE LockInv'
  OBVIOUS
<1>1. CASE Progress
  BY <1>1, ConfirmStep, IdleStep DEF Progress, DispatchPass, Pass
<1>2. CASE SceneMoves /\ UNCHANGED lockVars
  BY <1>2, IdleStep
<1>3. CASE \E o \in Outputs : FlipStalls(o) /\ UNCHANGED lockVars
  BY <1>3, IdleStep
<1>4. CASE \E l \in Lockers : Lock(l) \/ UnlockAndDestroy(l) \/ LockerDies(l) \/ LockerReturns(l)
  BY <1>4, LockStep, UnlockStep, DeathStep, ReturnStep
<1>5. CASE UNCHANGED vars
  BY <1>5, IdleStep DEF vars, lockVars
<1> QED
  BY <1>1, <1>2, <1>3, <1>4, <1>5 DEF Next

-----------------------------------------------------------------------------
(***************************************************************************)
(* The screens stay well typed: what each operation on one output returns, *)
(* then one lemma per action.                                              *)
(***************************************************************************)

LEMMA DisableType ==
  ASSUME NEW s \in Screen, HasRoom(s)
  PROVE  Disable(s) \in Screen
<1> DEFINE done == IF s.flip # "none" /\ s.fate # "lost" THEN 1 ELSE 0
           events == s.events + done
<1>1. events \in 0 .. MaxUnread
  <2>1. s.events \in Nat /\ done \in 0 .. 1
    BY KmsAssumption DEF Screen
  <2> QED
    BY <2>1, KmsAssumption DEF HasRoom
<1>2. [s EXCEPT !.flip = "none", !.fate = "due", !.shown = "blank",
                !.events = events] \in Screen
  <2> HIDE DEF events
  <2> QED BY <1>1 DEF Screen
<1> QED
  BY <1>2 DEF Disable

LEMMA ClearedType ==
  ASSUME NEW s \in Screen, HasRoom(s)
  PROVE  Cleared(s) \in Screen
<1> DEFINE t == Disable(s)
<1>1. t \in Screen
  BY DisableType
<1>2. [t EXCEPT !.awaiting = "none", !.queued = "none", !.believed = "none",
                !.pending = FALSE] \in Screen
  <2> HIDE DEF t
  <2> QED BY <1>1, ZenonT(60) DEF Screen
<1> QED
  BY <1>2 DEF Cleared

LEMMA RecoveredType ==
  ASSUME NEW s \in Screen, HasRoom(s)
  PROVE  Recovered(s) \in Screen
<1> DEFINE t == Disable(s)
<1>1. t \in Screen
  BY DisableType
<1>2. [t EXCEPT !.pending = FALSE, !.believed = "none", !.dirty = TRUE] \in Screen
  <2> HIDE DEF t
  <2> QED BY <1>1 DEF Screen
<1> QED
  BY <1>2 DEF Recovered

LEMMA DirtiedType ==
  ASSUME NEW s \in Screen
  PROVE  Dirtied(s) \in Screen /\ Dirtied(s).events = s.events
  BY DEF Dirtied, Screen

LEMMA FrameTypes ==
  ASSUME NEW s \in Screen, NEW scene \in Scenes
  PROVE  /\ Prepared(s, scene) \in Screen
         /\ Commit(s, scene) \in Screen
         /\ Queue(s, scene) \in Screen
         /\ Refused(s) \in Screen
         /\ Empty(s) \in Screen
<1>1. Prepared(s, scene) \in Screen /\ Refused(s) \in Screen /\ Empty(s) \in Screen
  BY DEF Prepared, Refused, Empty, Screen
<1>2. ASSUME NEW t \in Screen PROVE Commit(t, scene) \in Screen
  BY DEF Commit, Screen
<1>3. Queue(s, scene) \in Screen
  <2> DEFINE sent == [s EXCEPT !.pending = TRUE, !.dirty = FALSE]
  <2>1. sent \in Screen
    BY DEF Screen
  <2>2. [sent EXCEPT !.queued = scene] \in Screen
    <3> HIDE DEF sent
    <3> QED BY <2>1 DEF Screen
  <2>3. Commit(sent, scene) \in Screen
    <3> HIDE DEF sent
    <3> QED BY <1>2, <2>1
  <2> QED
    BY <2>2, <2>3 DEF Queue
<1> QED
  BY <1>1, <1>2, <1>3

LEMMA OneScreen ==
  ASSUME KmsTypeOK, NEW o \in Outputs, NEW s \in Screen,
         screen' = [screen EXCEPT ![o] = s]
  PROVE  screen' \in [Outputs -> Screen]
  BY DEF KmsTypeOK

LEMMA RenderType ==
  ASSUME KmsTypeOK, NEW scene \in Scenes, NEW watchdog \in BOOLEAN,
         NEW drawn \in SUBSET Outputs, NEW empty \in SUBSET drawn, NEW refused \in SUBSET drawn,
         Render(scene, watchdog, drawn, empty, refused)
  PROVE  KmsTypeOK'
<1> DEFINE first(o) == LET s == Dirtied(screen[o])
                       IN  IF watchdog /\ Listed(s) THEN Recovered(s) ELSE s
           start == [o \in Outputs |-> first(o)]
<1>1. ASSUME NEW o \in Outputs PROVE start[o] \in Screen
  <2>1. Dirtied(screen[o]) \in Screen /\ Dirtied(screen[o]).events = screen[o].events
    BY DirtiedType DEF KmsTypeOK
  <2>2. watchdog => screen[o].events = 0
    BY DEF Render, WatchdogFires
  <2>3. watchdog => HasRoom(Dirtied(screen[o]))
    BY <2>1, <2>2, KmsAssumption DEF HasRoom
  <2> QED
    BY <2>1, <2>3, RecoveredType
<1>2. screen' = [o \in Outputs |->
         LET s == start[o]
             frame == Prepared(s, scene)
             busy == s.awaiting = "none" /\ ~KernelFree(s)
         IN  CASE o \notin drawn -> s
               [] o \in empty -> Empty(s)
               [] o \in refused \/ (o \in drawn \ empty /\ busy) -> Refused(frame)
               [] OTHER -> Queue(frame, scene)]
  BY DEF Render
<1>3. ASSUME NEW o \in Outputs PROVE screen'[o] \in Screen
  <2> HIDE DEF start
  <2>1. start[o] \in Screen
    BY <1>1
  <2>2. Prepared(start[o], scene) \in Screen /\ Empty(start[o]) \in Screen
    BY <2>1, FrameTypes
  <2>3. /\ Refused(Prepared(start[o], scene)) \in Screen
        /\ Queue(Prepared(start[o], scene), scene) \in Screen
    BY <2>2, FrameTypes
  <2> QED
    BY <1>2, <2>1, <2>2, <2>3
<1>4. screen' \in [Outputs -> Screen]
  BY <1>2, <1>3
<1>5. faults' \in 0 .. MaxFaults
  <2>1. IsFiniteSet(refused)
    BY KmsAssumption, FS_Subset
  <2>2. Cardinality(refused) \in Nat
    BY <2>1, FS_CardinalityType
  <2> QED
    BY <2>2, KmsAssumption DEF Render, KmsTypeOK
<1> QED
  BY <1>4, <1>5 DEF Render, KmsTypeOK

LEMMA HardwareType ==
  ASSUME KmsTypeOK, NEW o \in Outputs, FlipCompletes(o) \/ FlipStalls(o) \/ VBlank(o)
  PROVE  KmsTypeOK'
<1> screen[o] \in Screen
  BY DEF KmsTypeOK
<1>1. CASE FlipCompletes(o)
  <2> DEFINE events == screen[o].events + 1
             s == [screen[o] EXCEPT !.shown = screen[o].flip, !.flip = "none", !.fate = "due",
                                    !.events = events]
  <2>a. events \in 0 .. MaxUnread
    BY <1>1, KmsAssumption DEF FlipCompletes, HasRoom, Screen
  <2>b. screen[o].flip \in Scenes
    BY <1>1 DEF FlipCompletes, Screen
  <2>1. s \in Screen
    <3> HIDE DEF events
    <3> QED BY <2>a, <2>b DEF Screen
  <2> QED
    BY <1>1, <2>1, OneScreen DEF FlipCompletes, KmsTypeOK
<1>2. CASE FlipStalls(o)
  <2>1. PICK fate \in {"late", "lost"} : screen' = [screen EXCEPT ![o].fate = fate]
    BY <1>2, KmsAssumption DEF FlipStalls
  <2>2. [screen[o] EXCEPT !.fate = fate] \in Screen
    BY DEF Screen
  <2>3. screen' = [screen EXCEPT ![o] = [screen[o] EXCEPT !.fate = fate]]
    BY <2>1 DEF KmsTypeOK
  <2>4. screen' \in [Outputs -> Screen]
    BY <2>2, <2>3, OneScreen
  <2> QED
    BY <1>2, <2>4, KmsAssumption DEF FlipStalls, KmsTypeOK
<1>3. CASE VBlank(o)
  <2> DEFINE s == screen[o]
             read == [s EXCEPT !.events = @ - 1]
             retired == [read EXCEPT !.pending = FALSE, !.awaiting = "none"]
             taken == [retired EXCEPT !.queued = "none"]
  <2>1. s.events > 0 /\ s.events - 1 \in 0 .. MaxUnread
    BY <1>3, KmsAssumption DEF VBlank, Screen
  <2>2. read \in Screen
    BY <2>1 DEF Screen
  <2>3. retired \in Screen
    <3> HIDE DEF read
    <3> QED BY <2>2, ZenonT(60) DEF Screen
  <2>4. taken \in Screen
    <3> HIDE DEF retired
    <3> QED BY <2>3 DEF Screen
  <2>5. s.queued # "none" => Commit(taken, s.queued) \in Screen
    <3>1. s.queued # "none" => s.queued \in Scenes
      BY DEF Screen
    <3> HIDE DEF taken, s
    <3> QED BY <2>4, <3>1, FrameTypes
  <2>6. \E t \in Screen : screen' = [screen EXCEPT ![o] = t]
    <3> HIDE DEF taken, retired, read
    <3> QED BY <1>3, <2>2, <2>3, <2>4, <2>5 DEF VBlank, taken, retired, read
  <2>7. screen' \in [Outputs -> Screen]
    BY <2>6, OneScreen
  <2>8. faults' \in 0 .. MaxFaults
    BY <1>3, KmsAssumption DEF VBlank, KmsTypeOK
  <2> QED
    BY <1>3, <2>7, <2>8 DEF VBlank, KmsTypeOK
<1> QED
  BY <1>1, <1>2, <1>3

LEMMA MoveType ==
  ASSUME KmsTypeOK, SceneMoves
  PROVE  KmsTypeOK'
<1> USE DEF KmsTypeOK
<1>1. ASSUME NEW o \in Outputs, PowerOff(o) \/ Park(o) PROVE KmsTypeOK'
  <2>1. HasRoom(screen[o])
    BY <1>1 DEF PowerOff, Park
  <2> DEFINE t == Cleared(screen[o])
  <2>2. t \in Screen
    BY <2>1, ClearedType
  <2>3. /\ [t EXCEPT !.status = "off", !.dirty = FALSE] \in Screen
        /\ [t EXCEPT !.status = "parked", !.dirty = FALSE] \in Screen
    <3> HIDE DEF t
    <3> QED BY <2>2 DEF Screen
  <2> QED
    BY <1>1, <2>3, OneScreen DEF PowerOff, Park
<1>2. ASSUME NEW o \in Outputs, PowerOn(o) \/ Unpark(o) PROVE KmsTypeOK'
  <2>1. Relit(screen[o]) \in Screen
    BY DEF Relit, Screen
  <2> QED
    BY <1>2, <2>1, OneScreen DEF PowerOn, Unpark
<1>3. CASE PauseSession
  <2>1. ASSUME NEW o \in Outputs PROVE screen'[o] \in Screen
    <3>1. [screen[o] EXCEPT !.pending = FALSE] \in Screen
      BY DEF Screen
    <3> QED
      BY <1>3, <3>1 DEF PauseSession
  <2> QED
    BY <1>3, <2>1 DEF PauseSession
<1>4. CASE ActivateSession
  <2>1. ASSUME NEW o \in Outputs PROVE screen'[o] \in Screen
    <3>0. screen[o] \in Screen
      OBVIOUS
    <3>1. HasRoom(screen[o])
      <4>1. screen[o].events = 0
        BY <1>4 DEF ActivateSession
      <4> QED
        BY <4>1, KmsAssumption DEF HasRoom
    <3>2. Cleared(screen[o]) \in Screen
      BY <3>0, <3>1, ClearedType
    <3> DEFINE t == Disable(screen[o])
    <3>3. t \in Screen
      BY <3>0, <3>1, DisableType
    <3>4. [t EXCEPT !.pending = FALSE, !.believed = "none"] \in Screen
      <4> HIDE DEF t
      <4> QED BY <3>3 DEF Screen
    <3> QED
      BY <1>4, <3>2, <3>4 DEF ActivateSession
  <2> QED
    BY <1>4, <2>1 DEF ActivateSession
<1>5. CASE Damage
  BY <1>5 DEF Damage
<1> QED
  BY <1>1, <1>2, <1>3, <1>4, <1>5 DEF SceneMoves

LEMMA InitScreens == Init => KmsTypeOK
  BY KmsAssumption DEF Init, KmsInit, FreshScreen, KmsTypeOK, Screen, Scenes

LEMMA NextScreens == KmsTypeOK /\ [Next]_vars => KmsTypeOK'
<1> SUFFICES ASSUME KmsTypeOK, [Next]_vars PROVE KmsTypeOK'
  OBVIOUS
<1>1. CASE DispatchPass
  <2>1. PICK watchdog \in BOOLEAN, drawn \in SUBSET Outputs :
          \E empty, refused \in SUBSET drawn : Pass(watchdog, drawn, empty, refused)
    BY <1>1 DEF DispatchPass
  <2>2. PICK empty \in SUBSET drawn, refused \in SUBSET drawn :
          Render(Scene, watchdog, drawn, empty, refused)
    BY <2>1 DEF Pass
  <2>3. Scene \in Scenes
    BY DEF Scene, Scenes
  <2> QED
    BY <2>2, <2>3, RenderType
<1>2. CASE \E o \in Outputs : (FlipCompletes(o) \/ VBlank(o)) /\ UNCHANGED lockVars
  BY <1>2, HardwareType
<1>3. CASE SceneMoves
  BY <1>3, MoveType
<1>4. CASE \E o \in Outputs : FlipStalls(o) /\ UNCHANGED lockVars
  BY <1>4, HardwareType
<1>5. CASE \E l \in Lockers : Lock(l) \/ UnlockAndDestroy(l) \/ LockerDies(l) \/ LockerReturns(l)
  <2>1. damage' \in BOOLEAN /\ UNCHANGED <<screen, active, faults>>
    BY <1>5 DEF KmsTypeOK, Lock, UnlockAndDestroy, Unlock, LockerDies, LockerReturns, kmsVars
  <2> QED
    BY <2>1 DEF KmsTypeOK
<1>6. CASE UNCHANGED vars
  BY <1>6 DEF vars, KmsTypeOK
<1> QED
  BY <1>1, <1>2, <1>3, <1>4, <1>5, <1>6 DEF Next, Progress

-----------------------------------------------------------------------------

\* For any number of screens and lockers, any budget of faults and any bound on
\* unread completions, the records of a screen stay what they are said to be: no
\* completion is read that was not reported, no frame is in flight that is not a
\* scene. (session.rs, SessionOutput; lock.rs, LockMachine)
THEOREM TypeSafety == Spec => []TypeOK
<1>1. KmsTypeOK /\ LockInv => TypeOK
  BY DEF TypeOK, LockInv
<1> QED
  BY <1>1, InitLock, InitScreens, NextLock, NextScreens, PTL DEF Spec

\* Whatever the screens do and however many lockers ask, die and come back, the
\* confirmation is owed to the holder and to nobody else, and a locker has been
\* told `locked` exactly when the lock is in force and its own.
\* (lock.rs, SessionLockHandler, confirm_after_frame)
THEOREM ConfirmationSafety == Spec => []ConfirmationOwed
<1>1. LockInv => ConfirmationOwed
  BY DEF LockInv
<1> QED
  BY <1>1, InitLock, NextLock, PTL DEF Spec

-----------------------------------------------------------------------------
(***************************************************************************)
(* The screens are covered, under a single fault. What is true of one      *)
(* screen is true whatever the others do, but for the fault they share: a  *)
(* screen that bears the marks of a fault is the only one that ever will.  *)
(***************************************************************************)

\* One late flip, lost flip or refused commit per behaviour.
SingleFault == MaxFaults <= 1

\* The frame a screen will end on.
Latest(s) ==
    IF s.queued # "none" THEN s.queued ELSE IF s.flip # "none" THEN s.flip ELSE s.shown

\* A dark screen keeps nothing.
DarkIsEmpty(s) ==
    s.status # "on" =>
        /\ s.awaiting = "none" /\ s.queued = "none" /\ s.flip = "none"
        /\ s.shown = "blank" /\ ~s.pending

\* What is waited for, or held back, waits for a completion.
Awaited(s) == s.pending \/ s.queued # "none" => s.awaiting # "none"

\* What no screen looks like before the fault: a stall; a completion awaited of
\* no flip; a frame held back, and the reset that makes one possible.
Marked(s) ==
    \/ s.fate # "due"
    \/ s.queued # "none"
    \/ s.awaiting # "none" /\ s.flip = "none" /\ s.events = 0
    \/ s.awaiting # "none" /\ active /\ ~s.pending
MarkedOnce(s) == Marked(s) => faults >= 1

\* The kernel is free by the time a frame held back is handed over.
InStep(s) ==
    active /\ (s.queued # "none" \/ (s.awaiting # "none" /\ ~s.pending))
        => s.events = 0 \/ (s.flip = "none" /\ s.events = 1)

\* A screen that owes no frame ends on the scene in force, and the damage tracker
\* believes in nothing else.
Clean(s) == ~s.dirty /\ ~damage
Current(s) ==
    /\ Clean(s) /\ s.queued # "none" => s.queued = Scene
    /\ active /\ s.status = "on" =>
           /\ s.believed \in {"none", Latest(s)}
           /\ Clean(s) => Latest(s) = Scene
           /\ s.queued # "none" /\ ~s.pending => s.believed = "none" /\ ~Clean(s)

InPipeline(s) == DarkIsEmpty(s) /\ Awaited(s) /\ MarkedOnce(s) /\ InStep(s) /\ Current(s)

\* Once `locked` is out, no frame of the desktop is left on its way.
Safe(s) ==
    /\ s.queued # "desktop"
    /\ active /\ s.status = "on" =>
           s.flip # "desktop" /\ (s.shown = "desktop" => s.flip = "locked")
Covered(s) == machine = "Locked" => Safe(s)

Fits(s) == InPipeline(s) /\ Covered(s)

ScreenInv == \A o \in Outputs : Fits(screen[o])

LEMMA ScreenInvCovers ==
  ASSUME ScreenInv, KmsTypeOK
  PROVE  ScreensCovered /\ QuietScreensAreCurrent
  BY
  DEF ScreenInv, Fits, InPipeline, Covered, Safe, Current, Clean, Latest, ScreensCovered,
      Uncovered, Lit, QuietScreensAreCurrent, KmsTypeOK, Screen, Scenes, Scene, locked

LEMMA InitFits == Init => ScreenInv
  BY
  DEF Init, KmsInit, FreshScreen, ScreenInv, Fits, InPipeline, DarkIsEmpty, Awaited, Marked,
      MarkedOnce, InStep, Clean, Current, Latest, Covered, Safe

\* A screen that a step leaves alone.
LEMMA Bystander ==
  ASSUME KmsTypeOK, KmsTypeOK', NEW o \in Outputs, Fits(screen[o]),
         screen'[o] = screen[o], active' = active, faults <= faults',
         damage => damage', Scene' = Scene \/ damage', machine' = "Locked" => machine = "Locked"
  PROVE  Fits(screen[o])'
  BY
  DEF KmsTypeOK, Screen, Fits, InPipeline, DarkIsEmpty, Awaited, Marked, MarkedOnce, InStep,
      Clean, Current, Latest, Covered, Safe

\* A step of one screen.
LEMMA Alone ==
  ASSUME KmsTypeOK, KmsTypeOK', ScreenInv, NEW o \in Outputs, Fits(screen[o])',
         \A other \in Outputs \ {o} : screen'[other] = screen[other],
         active' = active, faults <= faults', damage => damage', UNCHANGED lockVars
  PROVE  ScreenInv'
<1>1. Scene' = Scene /\ machine' = machine
  BY DEF lockVars, Scene, locked
<1>2. ASSUME NEW other \in Outputs \ {o} PROVE Fits(screen[other])'
  BY <1>1, <1>2, Bystander DEF ScreenInv
<1> QED
  BY <1>2 DEF ScreenInv

LEMMA FlipCompletesFits ==
  ASSUME KmsTypeOK, KmsTypeOK', ScreenInv, NEW o \in Outputs,
         FlipCompletes(o), UNCHANGED lockVars
  PROVE  ScreenInv'
<1> DEFINE s == screen[o]
<1>1. s \in Screen /\ Fits(s)
  BY DEF ScreenInv, KmsTypeOK
<1>2. /\ s.flip # "none" /\ s.fate # "lost" /\ HasRoom(s)
      /\ screen'[o] = [s EXCEPT !.shown = s.flip, !.flip = "none", !.fate = "due",
                                !.events = @ + 1]
      /\ \A other \in Outputs \ {o} : screen'[other] = screen[other]
      /\ UNCHANGED <<damage, active, faults>>
  BY DEF FlipCompletes, KmsTypeOK
<1>3. Scene' = Scene /\ machine' = machine /\ Scene \in Scenes
  BY DEF lockVars, Scene, Scenes, locked
<1>4. Fits(screen[o])'
  <2> HIDE DEF s
  <2>0. screen'[o] \in Screen /\ s.events \in Nat
    BY <1>1, KmsAssumption DEF KmsTypeOK, Screen
  <2>1. DarkIsEmpty(screen[o])' /\ Awaited(screen[o])'
    BY <1>1, <1>2 DEF Screen, Fits, InPipeline, DarkIsEmpty, Awaited
  <2>2. MarkedOnce(screen[o])'
    BY <1>1, <1>2, <2>0 DEF Screen, Fits, InPipeline, MarkedOnce, Marked
  <2>3. InStep(screen[o])'
    BY <1>1, <1>2, <2>0 DEF Screen, Fits, InPipeline, InStep
  <2>4. Current(screen[o])'
    BY <1>1, <1>2, <1>3 DEF Screen, Scenes, Fits, InPipeline, Current, Clean, Latest
  <2>5. Covered(screen[o])'
    BY <1>1, <1>2, <1>3 DEF Screen, Scenes, Fits, InPipeline, Covered, Safe
  <2> QED
    BY <2>1, <2>2, <2>3, <2>4, <2>5 DEF Fits, InPipeline
<1> QED
  <2>1. faults <= faults'
    BY <1>2, KmsAssumption DEF KmsTypeOK
  <2> QED
    BY <1>2, <1>4, <2>1, Alone

LEMMA FlipStallsFits ==
  ASSUME KmsTypeOK, KmsTypeOK', ScreenInv, NEW o \in Outputs,
         FlipStalls(o), UNCHANGED lockVars
  PROVE  ScreenInv'
<1> DEFINE s == screen[o]
<1>1. s \in Screen /\ Fits(s) /\ faults \in Nat
  BY KmsAssumption DEF ScreenInv, KmsTypeOK
<1>2. PICK fate \in {"late", "lost"} : screen' = [screen EXCEPT ![o].fate = fate]
  BY KmsAssumption DEF FlipStalls
<1>3. /\ screen'[o] = [s EXCEPT !.fate = fate]
      /\ s.flip # "none"
      /\ \A other \in Outputs \ {o} : screen'[other] = screen[other]
      /\ faults' = faults + 1
      /\ UNCHANGED <<damage, active>>
  BY <1>2 DEF FlipStalls, KmsTypeOK
<1>4. Scene' = Scene /\ machine' = machine
  BY DEF lockVars, Scene, locked
<1>5. Fits(screen[o])'
  <2> HIDE DEF s
  <2>1. DarkIsEmpty(screen[o])' /\ Awaited(screen[o])' /\ MarkedOnce(screen[o])'
    BY <1>1, <1>3 DEF Screen, Fits, InPipeline, DarkIsEmpty, Awaited, MarkedOnce
  <2>2. InStep(screen[o])' /\ Current(screen[o])' /\ Covered(screen[o])'
    BY <1>1, <1>3, <1>4
    DEF Screen, Fits, InPipeline, InStep, Current, Clean, Latest, Covered, Safe
  <2> QED
    BY <2>1, <2>2 DEF Fits, InPipeline
<1>6. faults <= faults'
  BY <1>1, <1>3
<1> QED
  BY <1>3, <1>5, <1>6, Alone

LEMMA VBlankFits ==
  ASSUME SingleFault, KmsTypeOK, KmsTypeOK', ScreenInv, NEW o \in Outputs,
         VBlank(o), UNCHANGED lockVars
  PROVE  ScreenInv'
<1> DEFINE s == screen[o]
           read == [s EXCEPT !.events = @ - 1]
           retired == [read EXCEPT !.pending = FALSE, !.awaiting = "none"]
           taken == [retired EXCEPT !.queued = "none"]
           submits == Listed(s) /\ s.awaiting # "none" /\ s.queued # "none"
<1>1. s \in Screen /\ Fits(s) /\ faults \in Nat /\ s.events \in Nat
  BY KmsAssumption DEF ScreenInv, KmsTypeOK, Screen
<1>2. /\ \A other \in Outputs \ {o} : screen'[other] = screen[other]
      /\ UNCHANGED <<damage, active>>
      /\ s.events > 0
  <2>1. \E t : screen' = [screen EXCEPT ![o] = t]
    <3> HIDE DEF taken, retired, read
    <3> QED BY DEF VBlank, taken, retired, read
  <2>2. screen \in [Outputs -> Screen]
    BY DEF KmsTypeOK
  <2> QED
    BY <2>1, <2>2 DEF VBlank
<1>3. Scene' = Scene /\ machine' = machine /\ Scene \in Scenes
  BY DEF lockVars, Scene, Scenes, locked
<1>4. \/ ~Listed(s) /\ screen'[o] = read /\ faults' = faults
      \/ Listed(s) /\ ~submits /\ screen'[o] = retired /\ faults' = faults
      \/ submits /\ active /\ KernelFree(s) /\ screen'[o] = Commit(taken, s.queued) /\ faults' = faults
      \/ submits /\ ~active /\ screen'[o] = taken /\ faults' = faults
  <2>1. submits => (s.events = 1 /\ KernelFree(s)) \/ ~active
    BY <1>1, <1>2 DEF Fits, InPipeline, InStep, KernelFree
  <2>2. submits => faults >= 1
    BY <1>1 DEF Fits, InPipeline, MarkedOnce, Marked
  <2>3. submits => ~(faults < MaxFaults)
    BY <1>1, <2>2, KmsAssumption DEF SingleFault
  <2> QED
    BY <2>1, <2>3 DEF VBlank, KmsTypeOK
<1>5. faults <= faults'
  BY <1>1, <1>4
<1>6. Fits(screen[o])'
  <2>0. screen'[o] \in Screen
    BY DEF KmsTypeOK
  <2>1. CASE ~Listed(s) /\ screen'[o] = read /\ faults' = faults
    BY <1>1, <1>2, <1>3, <2>1
    DEF Listed, Screen, Fits, InPipeline, DarkIsEmpty, Awaited, Marked, MarkedOnce, InStep,
        Current, Clean, Latest, Covered, Safe
  <2>2. CASE Listed(s) /\ ~submits /\ screen'[o] = retired /\ faults' = faults
    BY <1>1, <1>2, <1>3, <2>2
    DEF Listed, Screen, Fits, InPipeline, DarkIsEmpty, Awaited, Marked, MarkedOnce, InStep,
        Current, Clean, Latest, Covered, Safe
  <2>3. CASE submits /\ active /\ KernelFree(s) /\ screen'[o] = Commit(taken, s.queued) /\ faults' = faults
    BY <1>1, <1>2, <1>3, <2>3
    DEF Commit, KernelFree, Listed, Screen, Fits, InPipeline, DarkIsEmpty, Awaited, Marked,
        MarkedOnce, InStep, Current, Clean, Latest, Covered, Safe
  <2>4. CASE submits /\ ~active /\ screen'[o] = taken /\ faults' = faults
    BY <1>1, <1>2, <1>3, <2>4
    DEF Listed, Screen, Fits, InPipeline, DarkIsEmpty, Awaited, Marked, MarkedOnce, InStep,
        Current, Clean, Latest, Covered, Safe
  <2> QED
    BY <1>4, <2>1, <2>2, <2>3, <2>4
<1> QED
  BY <1>2, <1>5, <1>6, Alone

\* Power, parking, and a scene change.
LEMMA PowerFits ==
  ASSUME KmsTypeOK, KmsTypeOK', ScreenInv, NEW o \in Outputs,
         PowerOff(o) \/ PowerOn(o) \/ Park(o) \/ Unpark(o), UNCHANGED lockVars
  PROVE  ScreenInv'
<1> DEFINE s == screen[o]
<1>1. s \in Screen /\ Fits(s) /\ faults \in Nat
  BY KmsAssumption DEF ScreenInv, KmsTypeOK
<1>2. Scene' = Scene /\ machine' = machine /\ Scene \in Scenes
  BY DEF lockVars, Scene, Scenes, locked
<1>3. CASE PowerOff(o) \/ Park(o)
  <2>1. PICK status \in {"off", "parked"} :
          screen' = [screen EXCEPT ![o] = [Cleared(s) EXCEPT !.status = status, !.dirty = FALSE]]
    BY <1>3 DEF PowerOff, Park
  <2>2. /\ screen'[o] = [Cleared(s) EXCEPT !.status = status, !.dirty = FALSE]
        /\ \A other \in Outputs \ {o} : screen'[other] = screen[other]
        /\ active /\ active' = active /\ damage' /\ faults' = faults
    BY <1>3, <2>1 DEF PowerOff, Park, KmsTypeOK
  <2>3. /\ screen'[o].status # "on" /\ ~screen'[o].pending /\ screen'[o].awaiting = "none"
        /\ screen'[o].queued = "none" /\ screen'[o].flip = "none" /\ screen'[o].fate = "due"
        /\ screen'[o].shown = "blank"
    BY <1>1, <2>2 DEF Cleared, Disable, Screen
  <2>4. Fits(screen[o])'
    BY <1>2, <2>2, <2>3
    DEF Fits, InPipeline, DarkIsEmpty, Awaited, Marked, MarkedOnce, InStep, Current, Clean,
        Covered, Safe
  <2> QED
    BY <1>1, <2>2, <2>4, Alone
<1>4. CASE PowerOn(o) \/ Unpark(o)
  <2>1. /\ screen'[o] = [s EXCEPT !.status = "on", !.dirty = TRUE, !.believed = "none"]
        /\ s.status # "on"
        /\ \A other \in Outputs \ {o} : screen'[other] = screen[other]
        /\ active' = active /\ damage' /\ faults' = faults
    BY <1>4 DEF PowerOn, Unpark, Relit, KmsTypeOK
  <2>2. Fits(screen[o])'
    BY <1>1, <1>2, <2>1
    DEF Screen, Fits, InPipeline, DarkIsEmpty, Awaited, Marked, MarkedOnce, InStep, Current,
        Clean, Covered, Safe
  <2> QED
    BY <1>1, <2>1, <2>2, Alone
<1> QED
  BY <1>3, <1>4

LEMMA DamageFits ==
  ASSUME KmsTypeOK, KmsTypeOK', ScreenInv, Damage, UNCHANGED lockVars
  PROVE  ScreenInv'
<1>1. /\ UNCHANGED <<screen, active, faults>> /\ damage' /\ faults \in Nat
      /\ Scene' = Scene /\ machine' = machine
  BY KmsAssumption DEF Damage, lockVars, Scene, locked, KmsTypeOK
<1> QED
  BY <1>1, Bystander DEF ScreenInv

\* The seat goes away: the flips queued are forgotten, what was awaited is not.
LEMMA PauseFits ==
  ASSUME KmsTypeOK, KmsTypeOK', ScreenInv, PauseSession, UNCHANGED lockVars
  PROVE  ScreenInv'
<1> SUFFICES ASSUME NEW o \in Outputs PROVE Fits(screen[o])'
  BY DEF ScreenInv
<1> DEFINE s == screen[o]
<1>1. s \in Screen /\ Fits(s) /\ faults \in Nat
  BY KmsAssumption DEF ScreenInv, KmsTypeOK
<1>2. Scene' = Scene /\ machine' = machine
  BY DEF lockVars, Scene, locked
<1>3. /\ screen'[o] = IF Listed(s) THEN [s EXCEPT !.pending = FALSE] ELSE s
      /\ active /\ ~active' /\ UNCHANGED <<damage, faults>>
  BY DEF PauseSession
<1> HIDE DEF s
<1>4. /\ ~screen'[o].pending
      /\ \A field \in {"status", "dirty", "awaiting", "queued", "believed", "flip", "fate",
                          "events", "shown"} :
             screen'[o][field] = s[field]
  BY <1>1, <1>3 DEF Listed, Screen, Fits, InPipeline, DarkIsEmpty
<1> QED
  BY <1>1, <1>2, <1>3, <1>4
  DEF Fits, InPipeline, DarkIsEmpty, Awaited, Marked, MarkedOnce, InStep, Current, Clean,
      Covered, Safe

\* The seat comes back: every panel is blank, every frame is owed, and a flip
\* that has not completed by now was a stalled one.
LEMMA ActivateFits ==
  ASSUME KmsTypeOK, KmsTypeOK', ScreenInv, ActivateSession, UNCHANGED lockVars
  PROVE  ScreenInv'
<1> SUFFICES ASSUME NEW o \in Outputs PROVE Fits(screen[o])'
  BY DEF ScreenInv
<1> DEFINE s == screen[o]
<1>1. s \in Screen /\ Fits(s) /\ faults \in Nat /\ screen'[o] \in Screen
  BY KmsAssumption DEF ScreenInv, KmsTypeOK
<1>2. Scene' = Scene /\ machine' = machine /\ Scene \in Scenes
  BY DEF lockVars, Scene, Scenes, locked
<1>3. /\ screen'[o] = IF s.status = "on"
                      THEN [Disable(s) EXCEPT !.pending = FALSE, !.believed = "none"]
                      ELSE Cleared(s)
      /\ ~active /\ active' /\ damage' /\ faults' = faults
      /\ s.events = 0 /\ (s.fate = "due" => s.flip = "none")
  BY DEF ActivateSession
<1> HIDE DEF s
<1>4. CASE s.status # "on"
  <2>1. /\ screen'[o].status # "on" /\ ~screen'[o].pending /\ screen'[o].awaiting = "none"
        /\ screen'[o].queued = "none" /\ screen'[o].flip = "none" /\ screen'[o].fate = "due"
        /\ screen'[o].shown = "blank"
    BY <1>1, <1>3, <1>4 DEF Cleared, Disable, Screen
  <2> QED
    BY <1>2, <1>3, <2>1
    DEF Fits, InPipeline, DarkIsEmpty, Awaited, Marked, MarkedOnce, InStep, Current, Clean,
        Covered, Safe
<1>5. CASE s.status = "on"
  <2>1. /\ ~screen'[o].pending /\ screen'[o].believed = "none"
        /\ screen'[o].flip = "none" /\ screen'[o].fate = "due" /\ screen'[o].shown = "blank"
        /\ screen'[o].status = "on" /\ screen'[o].awaiting = s.awaiting
        /\ screen'[o].queued = s.queued
    BY <1>1, <1>3, <1>5 DEF Disable, Screen
  <2>2. screen'[o].events = IF s.flip # "none" /\ s.fate # "lost" THEN 1 ELSE 0
    BY <1>1, <1>3, <1>5, KmsAssumption DEF Disable, Screen
  <2>3. screen'[o].awaiting # "none" => faults' >= 1
    BY <1>1, <1>3, <2>1 DEF Fits, InPipeline, MarkedOnce, Marked
  <2>4. screen'[o].queued # "none" => screen'[o].awaiting # "none"
    BY <1>1, <2>1 DEF Fits, InPipeline, Awaited
  <2> QED
    BY <1>1, <1>2, <1>3, <2>1, <2>2, <2>3, <2>4
    DEF Fits, InPipeline, DarkIsEmpty, Awaited, Marked, MarkedOnce, InStep, Current, Clean, Covered, Safe
<1> QED
  BY <1>4, <1>5

\* A locker touches no screen: the scene it changes is damaged, and only a
\* confirmation makes the lock one.
LEMMA LockerFits ==
  ASSUME KmsTypeOK, KmsTypeOK', LockInv, ScreenInv, NEW l \in Lockers,
         Lock(l) \/ UnlockAndDestroy(l) \/ LockerDies(l) \/ LockerReturns(l)
  PROVE  ScreenInv'
<1>1. UNCHANGED <<screen, active, faults>> /\ faults \in Nat
  BY KmsAssumption
  DEF KmsTypeOK, Lock, UnlockAndDestroy, Unlock, LockerDies, LockerReturns, kmsVars
<1>2. damage => damage'
  BY DEF Lock, UnlockAndDestroy, Unlock, LockerDies, LockerReturns, kmsVars
<1>3. Scene' = Scene \/ damage'
  BY DEF Lock, UnlockAndDestroy, Unlock, LockerDies, LockerReturns, kmsVars, Scene, locked
<1>4. machine' = "Locked" => machine = "Locked"
  BY DEF Lock, UnlockAndDestroy, Unlock, LockerDies, LockerReturns
<1> QED
  BY <1>1, <1>2, <1>3, <1>4, Bystander DEF ScreenInv

-----------------------------------------------------------------------------
\* The render pass. Every output starts from its record with the damage taken
\* in and, when the watchdog fired, the reset.
Start(s, watchdog) ==
    IF watchdog /\ Listed(Dirtied(s)) THEN Recovered(Dirtied(s)) ELSE Dirtied(s)

\* What a pass does to the context the outputs are judged in.
InPass ==
    /\ KmsTypeOK /\ KmsTypeOK' /\ faults <= faults'
    /\ ~damage' /\ active' = active /\ Scene' = Scene

\* The watchdog finds a flip that is overdue, and no flip is overdue before the
\* fault.
LEMMA WatchdogWasRight ==
  ASSUME KmsTypeOK, ScreenInv, WatchdogFires
  PROVE  faults >= 1
<1>1. PICK o \in Outputs : Overdue(screen[o]) /\ screen[o].events = 0
  BY DEF WatchdogFires
<1> QED
  BY <1>1 DEF Overdue, ScreenInv, Fits, InPipeline, Awaited, Marked, MarkedOnce, KmsTypeOK, Screen

LEMMA StartFits ==
  ASSUME InPass, ScreenInv, NEW o \in Outputs, NEW watchdog \in BOOLEAN,
         watchdog => WatchdogFires, NEW t, t = Start(screen[o], watchdog)
  PROVE  t \in Screen /\ InPipeline(t)' /\ (machine = "Locked" => Safe(t)')
<1> DEFINE s == screen[o]
<1>1. /\ s \in Screen /\ Fits(s) /\ faults \in Nat /\ faults' \in Nat /\ faults <= faults'
      /\ ~damage' /\ active' = active /\ Scene' = Scene
  BY KmsAssumption DEF InPass, ScreenInv, KmsTypeOK
<1>2. CASE ~Listed(s)
  <2>1. t = s
    BY <1>2 DEF Start, Dirtied, Listed
  <2> QED
    BY <1>1, <1>2, <2>1
    DEF Listed, Screen, Fits, InPipeline, DarkIsEmpty, Awaited, Marked, MarkedOnce, InStep,
        Current, Clean, Latest, Covered, Safe
<1>3. CASE Listed(s) /\ ~watchdog
  <2>1. t = IF damage THEN [s EXCEPT !.dirty = TRUE] ELSE s
    BY <1>3 DEF Start, Dirtied
  <2> HIDE DEF s
  <2>2. t \in Screen
    BY <1>1, <2>1 DEF Screen
  <2> QED
    BY <1>1, <2>1, <2>2 DEF Screen, Fits, InPipeline, DarkIsEmpty, Awaited, Marked, MarkedOnce,
       InStep, Current, Clean, Latest, Covered, Safe
<1>4. CASE Listed(s) /\ watchdog
  <2>1. faults' >= 1 /\ s.events = 0
    BY <1>1, <1>4, WatchdogWasRight DEF InPass, WatchdogFires
  <2>2. Dirtied(s) \in Screen /\ HasRoom(Dirtied(s)) /\ Listed(Dirtied(s))
    BY <1>1, <1>4, <2>1, DirtiedType, KmsAssumption DEF HasRoom, Dirtied, Listed, Screen
  <2>3. t = Recovered(Dirtied(s)) /\ t \in Screen
    BY <1>4, <2>2, RecoveredType DEF Start
  <2>4. /\ t.dirty /\ ~t.pending /\ t.believed = "none" /\ t.flip = "none" /\ t.fate = "due"
        /\ t.shown = "blank" /\ t.status = s.status /\ t.awaiting = s.awaiting /\ t.queued = s.queued
    BY <1>1, <2>3 DEF Recovered, Disable, Dirtied, Screen
  <2>5. t.events \in {0, 1}
    BY <1>1, <2>1, <2>3 DEF Recovered, Disable, Dirtied, Screen
  <2> HIDE DEF s
  <2> QED
    BY <1>1, <2>1, <2>3, <2>4, <2>5
    DEF Fits, InPipeline, DarkIsEmpty, Awaited, Marked, MarkedOnce, InStep, Current, Clean,
        Covered, Safe
<1> QED
  BY <1>2, <1>3, <1>4

\* What the pass makes of an output: left alone, found unchanged, refused, held
\* back, or committed.
LEMMA DrawFits ==
  ASSUME InPass, NEW t \in Screen, InPipeline(t)', machine = "Locked" => Safe(t)',
         NEW u \in Screen,
         \/ u = t
         \/ Due(t) /\ t.believed = Scene /\ u = Empty(t)
         \/ Due(t) /\ u = Refused(Prepared(t, Scene))
         \/ Due(t) /\ t.awaiting # "none" /\ u = Queue(Prepared(t, Scene), Scene)
         \/ Due(t) /\ t.awaiting = "none" /\ KernelFree(t) /\ u = Queue(Prepared(t, Scene), Scene)
  PROVE  InPipeline(u)' /\ (machine = "Locked" => Safe(u)')
<1> USE DEF Screen, InPipeline, DarkIsEmpty, Awaited, Marked, MarkedOnce, InStep, Current, Clean,
            Latest, Safe, InPass
<1>1. Scene \in Scenes /\ (machine = "Locked" => Scene = "locked") /\ faults' \in Nat
  BY KmsAssumption DEF Scene, Scenes, locked, KmsTypeOK
<1>2. CASE u = t
  BY <1>2
<1>3. CASE Due(t) /\ t.believed = Scene /\ u = Empty(t)
  BY <1>1, <1>3 DEF Due, Empty, Scenes
<1>4. CASE Due(t) /\ u = Refused(Prepared(t, Scene))
  BY <1>1, <1>4 DEF Due, Refused, Prepared
<1>5. CASE Due(t) /\ t.awaiting # "none" /\ u = Queue(Prepared(t, Scene), Scene)
  <2>1. /\ u.believed = Scene /\ u.pending /\ ~u.dirty /\ u.queued = Scene
        /\ u.status = "on" /\ u.awaiting = t.awaiting /\ u.flip = t.flip /\ u.fate = t.fate
        /\ u.events = t.events /\ u.shown = t.shown
        /\ active /\ ~t.pending /\ t.status = "on" /\ t.awaiting # "none"
    BY <1>5 DEF Due, Queue, Prepared
  <2>2. faults' >= 1
    BY <2>1
  <2> QED
    BY <1>1, <2>1, <2>2 DEF Scenes
<1>6. CASE Due(t) /\ t.awaiting = "none" /\ KernelFree(t) /\ u = Queue(Prepared(t, Scene), Scene)
  <2>1. /\ u.believed = Scene /\ u.pending /\ ~u.dirty /\ u.flip = Scene /\ u.awaiting = Scene
        /\ u.status = "on" /\ u.queued = t.queued /\ u.fate = t.fate
        /\ u.events = t.events /\ u.shown = t.shown
        /\ active /\ ~t.pending /\ t.status = "on" /\ t.awaiting = "none"
    BY <1>6 DEF Due, Queue, Prepared, Commit, KernelFree
  <2>2. u.queued = "none"
    BY <2>1
  <2> QED
    BY <1>1, <2>1, <2>2 DEF Scenes
<1> QED
  BY <1>2, <1>3, <1>4, <1>5, <1>6

\* A pass that confirms the lock leaves every lit screen clean and no flip to
\* wait for: each ends on the locked scene.
LEMMA ConfirmedIsSafe ==
  ASSUME KmsTypeOK', NEW o \in Outputs, InPipeline(screen[o])', Presented, machine' = "Locked"
  PROVE  Safe(screen[o])'
<1>1. /\ ~damage' /\ screen'[o] \in Screen
      /\ screen'[o].status = "on" => ~screen'[o].dirty /\ ~screen'[o].pending
  BY DEF Presented, RedrawPending, KmsTypeOK
<1>2. Scene' = "locked"
  BY DEF Scene, locked
<1> QED
  BY <1>1, <1>2 DEF InPipeline, DarkIsEmpty, Awaited, Current, Clean, Latest, Safe, Screen

LEMMA PassFits ==
  ASSUME KmsTypeOK, KmsTypeOK', ScreenInv, DispatchPass
  PROVE  ScreenInv'
<1>1. PICK watchdog \in BOOLEAN, drawn \in SUBSET Outputs :
        \E empty, refused \in SUBSET drawn : Pass(watchdog, drawn, empty, refused)
  BY DEF DispatchPass
<1>2. PICK empty \in SUBSET drawn, refused \in SUBSET drawn :
        Render(Scene, watchdog, drawn, empty, refused) /\ ConfirmAfterFrame
  BY <1>1 DEF Pass
<1>3. InPass
  <2>1. Cardinality(refused) \in Nat
    BY KmsAssumption, FS_Subset, FS_CardinalityType
  <2>2. faults <= faults'
    BY <1>2, <2>1, KmsAssumption DEF Render, KmsTypeOK
  <2>3. Scene' = Scene
    BY <1>2 DEF ConfirmAfterFrame, Scene, locked, lockVars
  <2> QED
    BY <1>2, <2>2, <2>3 DEF InPass, Render
<1>4. ASSUME NEW o \in Outputs
      PROVE  InPipeline(screen[o])' /\ (machine = "Locked" => Safe(screen[o])')
  <2> DEFINE start == [p \in Outputs |-> Start(screen[p], watchdog)]
  <2>1. PICK t : t = start[o]
    OBVIOUS
  <2> DEFINE frame == Prepared(t, Scene)
  <2>2. /\ watchdog => WatchdogFires
        /\ drawn \subseteq {p \in Outputs : Due(start[p])}
        /\ \A p \in empty : start[p].believed = Scene
        /\ screen'[o] = CASE o \notin drawn -> t
                          [] o \in empty -> Empty(t)
                          [] o \in refused \/ (o \in drawn \ empty /\ t.awaiting = "none" /\ ~KernelFree(t))
                               -> Refused(frame)
                          [] OTHER -> Queue(frame, Scene)
    BY <1>2, <2>1 DEF Render, Start
  <2>3. t = Start(screen[o], watchdog)
    BY <2>1
  <2>4. t \in Screen /\ InPipeline(t)' /\ (machine = "Locked" => Safe(t)')
    BY <1>3, <2>2, <2>3, StartFits
  <2>5. PICK u : u = screen'[o]
    OBVIOUS
  <2>6. u \in Screen
    BY <2>5 DEF KmsTypeOK
  <2> HIDE DEF start
  <2>7. (o \in drawn => Due(t)) /\ (o \in empty => t.believed = Scene)
    BY <2>1, <2>2
  <2>8. \/ u = t
        \/ Due(t) /\ t.believed = Scene /\ u = Empty(t)
        \/ Due(t) /\ u = Refused(frame)
        \/ Due(t) /\ t.awaiting # "none" /\ u = Queue(frame, Scene)
        \/ Due(t) /\ t.awaiting = "none" /\ KernelFree(t) /\ u = Queue(frame, Scene)
    <3> HIDE DEF frame
    <3> QED BY <2>2, <2>5, <2>7
  <2>9. InPipeline(u)' /\ (machine = "Locked" => Safe(u)')
    BY <1>3, <2>4, <2>6, <2>8, DrawFits
  <2> QED
    BY <2>5, <2>9
    DEF InPipeline, DarkIsEmpty, Awaited, Marked, MarkedOnce, InStep, Current, Clean, Latest,
        Safe
<1>5. ASSUME NEW o \in Outputs, machine' = "Locked", machine # "Locked" PROVE Safe(screen[o])'
  <2>1. Presented
    BY <1>2, <1>5 DEF ConfirmAfterFrame, lockVars
  <2> QED
    BY <1>4, <1>5, <2>1, ConfirmedIsSafe
<1> QED
  BY <1>4, <1>5 DEF ScreenInv, Fits, Covered

LEMMA NextFits ==
  ASSUME SingleFault, KmsTypeOK, LockInv, ScreenInv, [Next]_vars
  PROVE  ScreenInv'
<1>0. KmsTypeOK'
  BY NextScreens
<1>1. CASE DispatchPass
  BY <1>0, <1>1, PassFits
<1>2. CASE \E o \in Outputs : (FlipCompletes(o) \/ VBlank(o)) /\ UNCHANGED lockVars
  BY <1>0, <1>2, FlipCompletesFits, VBlankFits
<1>3. CASE SceneMoves /\ UNCHANGED lockVars
  BY <1>0, <1>3, DamageFits, PauseFits, ActivateFits, PowerFits DEF SceneMoves
<1>4. CASE \E o \in Outputs : FlipStalls(o) /\ UNCHANGED lockVars
  BY <1>0, <1>4, FlipStallsFits
<1>5. CASE \E l \in Lockers : Lock(l) \/ UnlockAndDestroy(l) \/ LockerDies(l) \/ LockerReturns(l)
  BY <1>0, <1>5, LockerFits
<1>6. CASE UNCHANGED vars
  <2>1. /\ UNCHANGED <<screen, active, faults, damage>> /\ faults \in Nat
        /\ Scene' = Scene /\ machine' = machine
    BY <1>6, KmsAssumption DEF vars, KmsTypeOK, Scene, locked
  <2> QED
    BY <1>0, <2>1, Bystander DEF ScreenInv
<1> QED
  BY <1>1, <1>2, <1>3, <1>4, <1>5, <1>6 DEF Next, Progress

\* Under a single fault every screen fits the scene and the lock: what each of
\* its flips carries, what it shows and what it will be asked to draw agree.
\* (session.rs, render_frame_session, recover_output; lock.rs, confirm_after_frame)
THEOREM ScreensFit == ASSUME SingleFault PROVE Spec => [](KmsTypeOK /\ ScreenInv)
<1>1. KmsTypeOK /\ LockInv /\ ScreenInv /\ [Next]_vars => ScreenInv'
  BY NextFits
<1> QED
  BY <1>1, InitScreens, InitLock, InitFits, NextScreens, NextLock, PTL DEF Spec

\* With at most one late flip, lost flip or refused commit, and whatever lock,
\* power, parking, VT switches and the watchdog do, on any number of screens:
\* once `locked` has gone out, a lit screen that still shows the desktop has the
\* locked frame in the kernel's hands. That it shows the desktop no more is said
\* by LockKeepsItsContract, under stronger assumptions.
\* (lock.rs, confirm_after_frame; session.rs, render_frame_session)
THEOREM CoverSafety == ASSUME SingleFault PROVE Spec => []ScreensCovered
<1>1. KmsTypeOK /\ ScreenInv => ScreensCovered
  BY ScreenInvCovers
<1> QED
  BY <1>1, ScreensFit, PTL

\* Under the same single fault, no frame is forgotten: an output with nothing
\* left to do shows, or is about to show, the scene in force, and the damage
\* tracker never takes a frame for shown that the kernel never had.
\* (session.rs:3962-3975, render_frame_session, recover_output)
THEOREM QuietSafety == ASSUME SingleFault PROVE Spec => []QuietScreensAreCurrent
<1>1. KmsTypeOK /\ ScreenInv => QuietScreensAreCurrent
  BY ScreenInvCovers
<1> QED
  BY <1>1, ScreensFit, PTL

-----------------------------------------------------------------------------
(***************************************************************************)
(* The desktop is gone when `locked` goes out. That needs every completion *)
(* to be taken for the flip it is of, which holds as long as no flip is    *)
(* abandoned and no crtc is disabled with a completion unread: no stalled  *)
(* flip, no power switch, no parking. Refused commits and VT switches may  *)
(* be as many as they like.                                                *)
(***************************************************************************)

InOrder == Fates = {} /\ Moves \subseteq {"seat"}

DesktopUnseen == machine = "Locked" => ~Exposed

\* One flip at a time, awaited until its completion is read.
Paired(s) ==
    /\ s.status = "on" /\ s.fate = "due" /\ s.queued = "none"
    /\ s.awaiting = "none" => s.flip = "none" /\ s.events = 0 /\ ~s.pending
    /\ s.awaiting # "none" => /\ \/ s.flip # "none" /\ s.events = 0
                                 \/ s.flip = "none" /\ s.events = 1
                              /\ active => s.pending

Shows(s) == IF s.flip # "none" THEN s.flip ELSE s.shown

\* What is shown, or about to be, is what the damage tracker believes, if it
\* believes in anything, and the scene in force unless a frame is owed.
Faithful(s) ==
    active => s.believed \in {"none", Shows(s)} /\ (Clean(s) => Shows(s) = Scene)

DesktopGone(s) ==
    machine = "Locked" /\ active => s.flip # "desktop" /\ s.shown # "desktop"

Orderly(s) == Paired(s) /\ Faithful(s) /\ DesktopGone(s)

OrderlyInv == \A o \in Outputs : Orderly(screen[o])

LEMMA InitOrderly == Init => OrderlyInv
  BY DEF Init, KmsInit, FreshScreen, OrderlyInv, Orderly, Paired, Faithful, DesktopGone, Clean, Shows

LEMMA OrderlyUnseen ==
  ASSUME OrderlyInv
  PROVE  DesktopUnseen
  BY DEF OrderlyInv, Orderly, DesktopGone, DesktopUnseen, Exposed

\* A screen that a step leaves alone.
LEMMA OrderlyBystander ==
  ASSUME NEW o \in Outputs, Orderly(screen[o]), screen'[o] = screen[o],
         active' = active, damage => damage', Scene' = Scene \/ damage',
         machine' = "Locked" => machine = "Locked"
  PROVE  Orderly(screen[o])'
  BY DEF Orderly, Paired, Faithful, DesktopGone, Clean, Shows

LEMMA HardwareOrderly ==
  ASSUME KmsTypeOK, OrderlyInv, NEW o \in Outputs,
         FlipCompletes(o) \/ VBlank(o), UNCHANGED lockVars
  PROVE  OrderlyInv'
<1> DEFINE s == screen[o]
<1>1. s \in Screen /\ Orderly(s) /\ s.events \in Nat
  BY KmsAssumption DEF OrderlyInv, KmsTypeOK, Screen
<1>2. Scene' = Scene /\ machine' = machine /\ Scene \in Scenes /\ UNCHANGED <<damage, active>>
  BY DEF lockVars, Scene, Scenes, locked, FlipCompletes, VBlank
<1>3. CASE FlipCompletes(o)
  <2>1. /\ s.flip # "none"
        /\ screen' = [screen EXCEPT ![o] =
               [s EXCEPT !.shown = s.flip, !.flip = "none", !.fate = "due", !.events = @ + 1]]
    BY <1>3 DEF FlipCompletes
  <2>2. /\ screen'[o] = [s EXCEPT !.shown = s.flip, !.flip = "none", !.fate = "due", !.events = @ + 1]
        /\ \A other \in Outputs \ {o} : screen'[other] = screen[other]
    BY <2>1 DEF KmsTypeOK
  <2>3. Orderly(screen[o])'
    <3> HIDE DEF s
    <3>1. s.events = 0 /\ s.awaiting # "none"
      BY <1>1, <2>1 DEF Orderly, Paired
    <3>2. PICK u : u = screen'[o]
      OBVIOUS
    <3>3. /\ u.shown = s.flip /\ u.flip = "none" /\ u.fate = "due" /\ u.events = 1
          /\ u.status = s.status /\ u.dirty = s.dirty /\ u.pending = s.pending
          /\ u.awaiting = s.awaiting /\ u.queued = s.queued /\ u.believed = s.believed
      BY <1>1, <2>2, <3>1, <3>2 DEF Screen
    <3>4. Paired(u)'
      BY <1>1, <1>2, <3>1, <3>3 DEF Orderly, Paired
    <3>5. Faithful(u)' /\ DesktopGone(u)'
      BY <1>1, <1>2, <2>1, <3>3 DEF Orderly, Faithful, DesktopGone, Clean, Shows
    <3> QED
      BY <3>2, <3>4, <3>5 DEF Orderly, Paired, Faithful, DesktopGone, Clean, Shows
  <2> QED
    BY <1>2, <2>2, <2>3, OrderlyBystander DEF OrderlyInv
<1>4. CASE VBlank(o)
  <2> DEFINE read == [s EXCEPT !.events = @ - 1]
             retired == [read EXCEPT !.pending = FALSE, !.awaiting = "none"]
  <2>1. s.queued = "none" /\ Listed(s) /\ s.events > 0
    BY <1>1, <1>4 DEF Orderly, Paired, Listed, VBlank
  <2>2. screen' = [screen EXCEPT ![o] = retired]
    <3> HIDE DEF retired
    <3> QED BY <1>4, <2>1 DEF VBlank, retired
  <2>3. /\ screen'[o] = retired
        /\ \A other \in Outputs \ {o} : screen'[other] = screen[other]
    BY <2>2 DEF KmsTypeOK
  <2>4. Orderly(screen[o])'
    BY <1>1, <1>2, <2>1, <2>3
    DEF Orderly, Paired, Faithful, DesktopGone, Clean, Shows, Screen, Scenes
  <2> QED
    BY <1>2, <2>3, <2>4, OrderlyBystander DEF OrderlyInv
<1> QED
  BY <1>3, <1>4

LEMMA SeatOrderly ==
  ASSUME KmsTypeOK, OrderlyInv, Damage \/ PauseSession \/ ActivateSession, UNCHANGED lockVars
  PROVE  OrderlyInv'
<1> SUFFICES ASSUME NEW o \in Outputs PROVE Orderly(screen[o])'
  BY DEF OrderlyInv
<1> DEFINE s == screen[o]
<1>1. s \in Screen /\ Orderly(s)
  BY DEF OrderlyInv, KmsTypeOK
<1>2. Scene' = Scene /\ machine' = machine
  BY DEF lockVars, Scene, locked
<1>3. CASE Damage
  BY <1>1, <1>2, <1>3, OrderlyBystander DEF Damage
<1>4. CASE PauseSession
  <2>1. screen'[o] = [s EXCEPT !.pending = FALSE] /\ ~active'
    BY <1>1, <1>4 DEF PauseSession, Listed, Orderly, Paired
  <2> HIDE DEF s
  <2> QED
    BY <1>1, <2>1 DEF Orderly, Paired, Faithful, DesktopGone, Screen
<1>5. CASE ActivateSession
  <2>0. s.events = 0 /\ (s.fate = "due" => s.flip = "none") /\ damage'
    BY <1>5 DEF ActivateSession
  <2>1. s.events = 0 /\ s.flip = "none" /\ s.awaiting = "none" /\ damage'
    <3> HIDE DEF s
    <3> QED BY <1>1, <2>0 DEF Orderly, Paired
  <2>2. screen'[o] = [Disable(s) EXCEPT !.pending = FALSE, !.believed = "none"]
    BY <1>1, <1>5 DEF ActivateSession, Orderly, Paired
  <2>3. /\ screen'[o].status = "on" /\ screen'[o].fate = "due" /\ screen'[o].queued = "none"
        /\ screen'[o].awaiting = "none" /\ screen'[o].flip = "none" /\ screen'[o].events = 0
        /\ ~screen'[o].pending /\ screen'[o].believed = "none" /\ screen'[o].shown = "blank"
    <3> HIDE DEF s
    <3> QED BY <1>1, <2>1, <2>2 DEF Disable, Screen, Orderly, Paired
  <2> QED
    BY <2>1, <2>3 DEF Orderly, Paired, Faithful, DesktopGone, Clean, Shows
<1> QED
  BY <1>3, <1>4, <1>5

LEMMA LockerOrderly ==
  ASSUME OrderlyInv, NEW l \in Lockers,
         Lock(l) \/ UnlockAndDestroy(l) \/ LockerDies(l) \/ LockerReturns(l)
  PROVE  OrderlyInv'
<1>1. UNCHANGED <<screen, active>> /\ (damage => damage')
  BY DEF Lock, UnlockAndDestroy, Unlock, LockerDies, LockerReturns, kmsVars
<1>2. Scene' = Scene \/ damage'
  BY DEF Lock, UnlockAndDestroy, Unlock, LockerDies, LockerReturns, kmsVars, Scene, locked
<1>3. machine' = "Locked" => machine = "Locked"
  BY DEF Lock, UnlockAndDestroy, Unlock, LockerDies, LockerReturns
<1> QED
  BY <1>1, <1>2, <1>3, OrderlyBystander DEF OrderlyInv

\* In order, no flip is ever overdue: the watchdog has nothing to do, no frame
\* is held back, and no commit finds the kernel busy.
LEMMA PassOrderly ==
  ASSUME KmsTypeOK, OrderlyInv, DispatchPass
  PROVE  OrderlyInv'
<1>1. PICK watchdog \in BOOLEAN, drawn \in SUBSET Outputs :
        \E empty, refused \in SUBSET drawn : Pass(watchdog, drawn, empty, refused)
  BY DEF DispatchPass
<1>2. PICK empty \in SUBSET drawn, refused \in SUBSET drawn :
        Render(Scene, watchdog, drawn, empty, refused) /\ ConfirmAfterFrame
  BY <1>1 DEF Pass
<1>3. ~watchdog
  <2> SUFFICES ASSUME WatchdogFires PROVE FALSE
    BY <1>2 DEF Render
  <2> QED
    BY DEF WatchdogFires, Overdue, OrderlyInv, Orderly, Paired
<1>4. Scene' = Scene /\ Scene \in Scenes /\ ~damage' /\ active' = active
  BY <1>2 DEF ConfirmAfterFrame, Scene, Scenes, locked, lockVars, Render
<1>5. ASSUME NEW o \in Outputs
      PROVE  /\ Paired(screen[o])' /\ Faithful(screen[o])'
             /\ machine = "Locked" => DesktopGone(screen[o])'
  <2> DEFINE s == screen[o]
  <2>1. PICK t : t = Dirtied(s)
    OBVIOUS
  <2>2. s \in Screen /\ Orderly(s)
    BY DEF OrderlyInv, KmsTypeOK
  <2>3. t \in Screen /\ t = IF damage THEN [s EXCEPT !.dirty = TRUE] ELSE s
    BY <2>1, <2>2, DirtiedType DEF Dirtied, Listed, Orderly, Paired
  <2> DEFINE frame == Prepared(t, Scene)
             start == [p \in Outputs |-> Dirtied(screen[p])]
  <2>4. /\ drawn \subseteq {p \in Outputs : Due(start[p])}
        /\ \A p \in empty : start[p].believed = Scene
        /\ screen'[o] = CASE o \notin drawn -> t
                          [] o \in empty -> Empty(t)
                          [] o \in refused \/ (o \in drawn \ empty /\ t.awaiting = "none" /\ ~KernelFree(t))
                               -> Refused(frame)
                          [] OTHER -> Queue(frame, Scene)
    BY <1>2, <1>3, <2>1 DEF Render
  <2> HIDE DEF s, start
  <2>5. (o \in drawn => Due(t)) /\ (o \in empty => t.believed = Scene)
    BY <2>1, <2>4 DEF start, s
  <2>6. Paired(t) /\ (active => t.believed \in {"none", Shows(t)})
        /\ (active /\ ~t.dirty => Shows(t) = Scene)
        /\ DesktopGone(t)
    BY <2>2, <2>3 DEF Screen, Orderly, Paired, Faithful, DesktopGone, Clean, Shows
  <2>7. Due(t) => t.awaiting = "none" /\ KernelFree(t) /\ active /\ t.events = 0 /\ ~t.pending
    BY <2>6 DEF Due, Paired, KernelFree
  <2>8. PICK u : u = screen'[o]
    OBVIOUS
  <2>9. \/ u = t
        \/ Due(t) /\ t.believed = Scene /\ u = Empty(t)
        \/ Due(t) /\ u = Refused(frame)
        \/ Due(t) /\ u = Queue(frame, Scene)
    <3> HIDE DEF frame
    <3> QED BY <2>4, <2>5, <2>8
  <2>10. /\ Paired(u)' /\ Faithful(u)'
         /\ machine = "Locked" => DesktopGone(u)'
    <3> USE DEF Paired, Faithful, DesktopGone, Clean, Shows, Scenes
    <3>1. CASE u = t
      BY <1>4, <2>6, <3>1
    <3>2. CASE Due(t) /\ t.believed = Scene /\ u = Empty(t)
      BY <1>4, <2>3, <2>6, <3>2 DEF Due, Empty, Screen
    <3>3. CASE Due(t) /\ u = Refused(frame)
      <4>1. /\ u.believed = "none" /\ u.dirty
            /\ u.status = t.status /\ u.fate = t.fate /\ u.queued = t.queued /\ u.awaiting = t.awaiting
            /\ u.flip = t.flip /\ u.events = t.events /\ u.pending = t.pending /\ u.shown = t.shown
        BY <2>3, <3>3 DEF Due, Refused, Prepared, Screen
      <4> QED
        BY <1>4, <2>6, <4>1
    <3>4. CASE Due(t) /\ u = Queue(frame, Scene)
      <4>1. /\ u.believed = Scene /\ u.pending /\ ~u.dirty /\ u.flip = Scene /\ u.awaiting = Scene
            /\ u.status = t.status /\ u.queued = t.queued /\ u.fate = t.fate
            /\ u.events = t.events /\ u.shown = t.shown
        BY <2>3, <2>7, <3>4 DEF Queue, Prepared, Commit, Screen
      <4>2. machine = "Locked" => Scene = "locked"
        BY DEF Scene, locked
      <4>3. u.flip \in Scenes /\ u.flip # "none" /\ Shows(u) = Scene
        BY <1>4, <4>1
      <4>4. Paired(u)'
        BY <3>4, <2>6, <2>7, <4>1, <4>3
      <4>5. Faithful(u)'
        BY <1>4, <4>1, <4>3
      <4>6. machine = "Locked" => DesktopGone(u)'
        BY <1>4, <3>4, <2>6, <2>7, <4>1, <4>2
      <4> QED
        BY <4>4, <4>5, <4>6
    <3> QED
      BY <2>9, <3>1, <3>2, <3>3, <3>4
  <2> QED
    BY <2>8, <2>10 DEF Paired, Faithful, DesktopGone, Clean, Shows
<1>6. ASSUME NEW o \in Outputs, machine' = "Locked", machine # "Locked"
      PROVE  DesktopGone(screen[o])'
  <2>1. Presented /\ Scene' = "locked"
    BY <1>2, <1>6 DEF ConfirmAfterFrame, lockVars, Scene, locked
  <2>2. screen'[o].status = "on" /\ ~screen'[o].dirty /\ ~screen'[o].pending
    BY <1>5, <2>1 DEF Paired, Presented, RedrawPending
  <2> QED
    BY <1>4, <1>5, <2>1, <2>2 DEF Paired, Faithful, Clean, Shows, DesktopGone
<1> QED
  BY <1>5, <1>6 DEF OrderlyInv, Orderly, DesktopGone

LEMMA NextOrderly ==
  ASSUME InOrder, KmsTypeOK, OrderlyInv, [Next]_vars
  PROVE  OrderlyInv'
<1>1. CASE DispatchPass
  BY <1>1, PassOrderly
<1>2. CASE \E o \in Outputs : (FlipCompletes(o) \/ VBlank(o)) /\ UNCHANGED lockVars
  BY <1>2, HardwareOrderly
<1>3. CASE SceneMoves /\ UNCHANGED lockVars
  BY <1>3, SeatOrderly DEF SceneMoves, InOrder
<1>4. CASE \E o \in Outputs : FlipStalls(o) /\ UNCHANGED lockVars
  BY <1>4 DEF FlipStalls, InOrder
<1>5. CASE \E l \in Lockers : Lock(l) \/ UnlockAndDestroy(l) \/ LockerDies(l) \/ LockerReturns(l)
  BY <1>5, LockerOrderly
<1>6. CASE UNCHANGED vars
  BY <1>6, OrderlyBystander DEF vars, OrderlyInv, Scene, locked
<1> QED
  BY <1>1, <1>2, <1>3, <1>4, <1>5, <1>6 DEF Next, Progress

\* As long as every completion is taken for the flip it is of, the desktop has
\* gone from every screen when the lock is confirmed, and stays away: on any
\* number of screens, through VT switches, damage and any number of refused
\* commits. (lock.rs:36-40, confirm_after_frame)
THEOREM PresentedSafety == ASSUME InOrder PROVE Spec => []DesktopUnseen
<1>1. KmsTypeOK /\ OrderlyInv /\ [Next]_vars => OrderlyInv'
  BY NextOrderly
<1>2. OrderlyInv => DesktopUnseen
  BY OrderlyUnseen
<1> QED
  BY <1>1, <1>2, InitScreens, NextScreens, InitOrderly, PTL DEF Spec

-----------------------------------------------------------------------------
(***************************************************************************)
(* The contract. What the frame pipeline owes it is DesktopUnseen, for     *)
(* which the order of completions was assumed above; everything else the   *)
(* contract says follows whatever the faults.                              *)
(***************************************************************************)

USE DEF Contract!contractVars, Contract!Dead, Contract!Vacant

LEMMA InitContract == Init => Contract!ContractInit
<1> SUFFICES ASSUME Init PROVE Contract!ContractInit
  OBVIOUS
<1>1. ~Exposed
  BY DEF Init, KmsInit, FreshScreen, Exposed
<1> QED
  BY <1>1 DEF Init, Contract!ContractInit

\* A step that leaves the lock alone can only change what the screens show.
LEMMA ScreensStep ==
  ASSUME LockInv, DesktopUnseen', UNCHANGED lockVars
  PROVE  Contract!Screens
<1>1. machine \in {"Unlocked", "Locking", "Locked"}
  BY DEF LockInv, LockTypeOK
<1>2. machine = "Locked" => ~Exposed'
  BY DEF lockVars, DesktopUnseen
<1>3. Exposed' \in BOOLEAN
  BY DEF Exposed
<1> QED
  BY <1>1, <1>2, <1>3 DEF lockVars, Contract!Screens

LEMMA ConfirmRefines ==
  ASSUME LockInv, DesktopUnseen', ConfirmAfterFrame
  PROVE  Contract!Screens \/ Contract!Confirm
<1>1. CASE UNCHANGED lockVars
  BY <1>1, ScreensStep
<1>2. CASE ack # None /\ machine = "Locking" /\ machine' = "Locked"
  <2>1. ~Exposed'
    BY <1>2 DEF DesktopUnseen
  <2>2. ack = holder /\ holder # None
    BY <1>2 DEF LockInv, ConfirmationOwed
  <2>3. holder' = holder /\ told' = IF Alive(ack) THEN [told EXCEPT ![ack] = "locked"] ELSE told
    BY <1>2 DEF ConfirmAfterFrame, lockVars
  <2> QED
    BY <1>2, <2>1, <2>2, <2>3 DEF Alive, Contract!Confirm
<1> QED
  BY <1>1, <1>2 DEF ConfirmAfterFrame

\* The four requests of a locker are the contract's Ask, Release, Die and
\* Return; an unlock that is refused is a death.
LEMMA LockerRefines ==
  ASSUME LockInv, NEW l \in Lockers,
         Lock(l) \/ UnlockAndDestroy(l) \/ LockerDies(l) \/ LockerReturns(l)
  PROVE  Contract!Ask(l) \/ Contract!Release(l) \/ Contract!Die(l) \/ Contract!Return(l)
<1>0. Exposed' = Exposed
  BY DEF Lock, UnlockAndDestroy, Unlock, LockerDies, LockerReturns, kmsVars, Exposed, Lit
<1>1. CASE Lock(l)
  <2>1. AcceptsLock <=> machine = "Unlocked" \/ holder = None \/ told[holder] = "dead"
    BY DEF AcceptsLock, Alive
  <2> QED
    BY <1>0, <1>1, <2>1 DEF Lock, LockInv, LockTypeOK, Contract!Ask
<1>2. CASE UnlockAndDestroy(l)
  <2>1. AcceptsUnlock(l) => told[l] = "locked" /\ holder = l
    BY <1>2, LockerAssumption
    DEF UnlockAndDestroy, AcceptsUnlock, LockInv, ConfirmationOwed, Alive
  <2> QED
    BY <1>0, <1>2, <2>1 DEF UnlockAndDestroy, Unlock, Contract!Release, Contract!Die
<1>3. CASE LockerDies(l)
  BY <1>0, <1>3 DEF LockerDies, Contract!Die
<1>4. CASE LockerReturns(l)
  BY <1>0, <1>4 DEF LockerReturns, Contract!Return
<1> QED
  BY <1>1, <1>2, <1>3, <1>4

LEMMA StepRefines ==
  ASSUME LockInv, DesktopUnseen', [Next]_vars
  PROVE  [Contract!ContractNext]_(Contract!contractVars)
<1>1. CASE DispatchPass
  BY <1>1, ConfirmRefines DEF DispatchPass, Pass, Contract!ContractNext
<1>2. CASE UNCHANGED lockVars
  BY <1>2, ScreensStep DEF Contract!ContractNext
<1>3. CASE \E l \in Lockers : Lock(l) \/ UnlockAndDestroy(l) \/ LockerDies(l) \/ LockerReturns(l)
  BY <1>3, LockerRefines DEF Contract!ContractNext
<1>4. CASE UNCHANGED vars
  BY <1>2, <1>4 DEF vars, lockVars
<1> QED
  BY <1>1, <1>2, <1>3, <1>4 DEF Next, Progress

\* As long as no confirmed lock leaves the desktop on a screen, the lock
\* implements its contract, for any number of lockers and screens, any faults and
\* any order of asking, dying and unlocking: one owner at a time, told once, and
\* nobody else opens the session.
\* (lock.rs, SessionLockHandler, LockMachine; LockContract)
THEOREM LockImplementsContract == Spec /\ []DesktopUnseen => ContractHolds
<1>1. LockInv /\ DesktopUnseen' /\ [Next]_vars
        => [Contract!ContractNext]_(Contract!contractVars)
  BY StepRefines
<1> QED
  BY <1>1, InitLock, NextLock, InitContract, PTL DEF Spec, ContractHolds, Contract!ContractSpec

\* Where completions keep their order, lock and pipeline together implement the
\* contract without a condition: PresentedSafety discharges the one above.
\* (lock.rs:15-60, confirm_after_frame; LockContract)
THEOREM LockKeepsItsContract == ASSUME InOrder PROVE Spec => ContractHolds
  BY PresentedSafety, LockImplementsContract, PTL
=============================================================================
