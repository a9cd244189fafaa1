----------------------------- MODULE KmsFrames -----------------------------
(***************************************************************************)
(* The frame pipeline of the hardware session: how a frame travels from    *)
(* the compositor's one scene to each screen, and how the completion of    *)
(* its page flip travels back (crates/wm-wayland/src/session.rs, with the  *)
(* part of the vendored smithay DrmCompositor that stands between the      *)
(* session and the kernel).                                                *)
(*                                                                         *)
(* Three parties keep a record of the frames of one output, and every      *)
(* property here is about the three disagreeing:                           *)
(*   - the session: does the output owe a frame (dirty), is a flip it      *)
(*     queued still to complete (pending: frame_pending);                  *)
(*   - the DrmCompositor: the frame it waits a completion for (awaiting:   *)
(*     pending_frame), the frame it holds back until then (queued:         *)
(*     queued_frame), what its damage tracker takes to be on the screen    *)
(*     (believed);                                                         *)
(*   - the kernel: the flip in flight (flip), how that flip will fare      *)
(*     (fate), the completions it has reported that the event loop has not *)
(*     read (events), what the panel shows (shown).                        *)
(* A frame is abstracted to the scene it was built from: the desktop, or   *)
(* the locked scene.                                                       *)
(*                                                                         *)
(* Time is abstracted: a render deadline (frame_clock) may put an output   *)
(* off in any pass, and the watchdog may fire in any pass that finds a     *)
(* flip overdue. CommitHealth's threshold and backoff only choose whether  *)
(* the next commit may modeset, which is no part of this state.            *)
(* This module has actions and no specification: SessionLock composes it.  *)
(* A definition marked `mutant' is the plausible slip in the definition    *)
(* below it, kept to show which property would notice.                     *)
(***************************************************************************)
EXTENDS Naturals, FiniteSets

CONSTANTS
    Outputs,        \* the connectors of the one KMS device
    MaxFaults,      \* bound: stalled flips and refused commits together
    Fates,          \* bound: how a stalled flip may fare, "late" or "lost"
    MaxUnread       \* bound: unread completions of one output

ASSUME KmsAssumption ==
    /\ IsFiniteSet(Outputs) /\ Outputs # {}
    /\ MaxFaults \in Nat
    /\ Fates \subseteq {"late", "lost"}
    /\ MaxUnread \in Nat \ {0}

VARIABLES
    screen,   \* per output, the record above
    damage,   \* WaylandBackend::damage: the scene changed since the last render
    active,   \* does the seat hold the device (false across a VT switch)
    faults    \* faults spent of MaxFaults

kmsVars == <<screen, damage, active, faults>>

Scenes == {"desktop", "locked"}

Screen == [status: {"on", "off", "parked"}, dirty: BOOLEAN, pending: BOOLEAN,
           awaiting: Scenes \cup {"none"}, queued: Scenes \cup {"none"},
           believed: Scenes \cup {"none"},
           flip: Scenes \cup {"none"}, fate: {"due", "late", "lost"},
           events: 0 .. MaxUnread, shown: Scenes \cup {"blank"}]

KmsTypeOK ==
    /\ screen \in [Outputs -> Screen]
    /\ damage \in BOOLEAN
    /\ active \in BOOLEAN
    /\ faults \in 0 .. MaxFaults

\* An output just attached: nothing shown, a first frame owed.
FreshScreen ==
    [status |-> "on", dirty |-> TRUE, pending |-> FALSE,
     awaiting |-> "none", queued |-> "none", believed |-> "none",
     flip |-> "none", fate |-> "due", events |-> 0, shown |-> "blank"]

KmsInit ==
    /\ screen = [o \in Outputs |-> FreshScreen]
    /\ damage = TRUE
    /\ active = TRUE
    /\ faults = 0

Lit(o) == screen[o].status = "on"
Listed(s) == s.status # "parked"

-----------------------------------------------------------------------------
(***************************************************************************)
(* The kernel's side of one output.                                        *)
(***************************************************************************)

\* An atomic commit of a frame with a completion event. While a flip is in
\* flight the kernel answers EBUSY.
KernelFree(s) == s.flip = "none"
Commit(s, scene) == [s EXCEPT !.flip = scene, !.awaiting = scene]

\* A blocking commit that disables the crtc: it waits for the flip in flight,
\* whose completion is reported unless it is lost, and the panel goes blank.
Disable(s) ==
    LET done == IF s.flip # "none" /\ s.fate # "lost" THEN 1 ELSE 0
    IN  [s EXCEPT !.flip = "none", !.fate = "due", !.shown = "blank",
                  !.events = @ + done]

\* The event loop reads its completions before more than MaxUnread pile up.
RoomForOneMore(s) == s.events <= MaxUnread                 \* mutant
HasRoom(s) == s.events < MaxUnread

\* The flip in flight reaches the panel.
FlipCompletes(o) ==
    LET s == screen[o]
    IN  /\ s.flip # "none" /\ s.fate # "lost" /\ HasRoom(s)
        /\ screen' = [screen EXCEPT ![o] =
               [s EXCEPT !.shown = s.flip, !.flip = "none", !.fate = "due",
                         !.events = @ + 1]]
        /\ UNCHANGED <<damage, active, faults>>

\* The driver is far too late with a flip, or has lost it.
FlipStalls(o) ==
    LET s == screen[o]
    IN  /\ s.flip # "none" /\ s.fate = "due" /\ faults < MaxFaults
        /\ \E fate \in Fates : screen' = [screen EXCEPT ![o].fate = fate]
        /\ faults' = faults + 1
        /\ UNCHANGED <<damage, active>>

-----------------------------------------------------------------------------
(***************************************************************************)
(* The completion, read by the event loop: the session takes its pending   *)
(* flip whichever flip completed, and frame_submitted retires the frame    *)
(* awaited and submits the one held back. An output that is parked is no   *)
(* longer found by its crtc, and the event is dropped.                     *)
(***************************************************************************)
VBlank(o) ==
    LET s == screen[o]
        read == [s EXCEPT !.events = @ - 1]
        retired == [read EXCEPT !.pending = FALSE, !.awaiting = "none"]
        submits == Listed(s) /\ s.awaiting # "none" /\ s.queued # "none"
        taken == [retired EXCEPT !.queued = "none"]
    IN  /\ s.events > 0
        /\ \/ /\ ~submits
              /\ screen' = [screen EXCEPT ![o] = IF Listed(s) THEN retired ELSE read]
              /\ UNCHANGED faults
           \/ /\ submits /\ active /\ KernelFree(s)
              /\ screen' = [screen EXCEPT ![o] = Commit(taken, s.queued)]
              /\ UNCHANGED faults
           \/ /\ submits
              /\ IF active /\ KernelFree(s)
                 THEN faults < MaxFaults /\ faults' = faults + 1
                 ELSE UNCHANGED faults
              /\ screen' = [screen EXCEPT ![o] = taken]
        /\ UNCHANGED <<damage, active>>

-----------------------------------------------------------------------------
(***************************************************************************)
(* The render pass.                                                        *)
(***************************************************************************)

\* The one damage flag is consumed into the outputs' own.
Dirtied(s) == IF damage /\ Listed(s) THEN [s EXCEPT !.dirty = TRUE] ELSE s

\* A flip that has had its five seconds: the kernel sits on it, or the frame was
\* never handed over because an earlier completion is still awaited. The time
\* the event loop was away is credited back, so no completion is left unread.
Overdue(s) == s.pending /\ (s.fate # "due" \/ s.flip = "none")
WatchdogFires ==
    /\ active
    /\ \A o \in Outputs : screen[o].events = 0
    /\ \E o \in Outputs : Listed(screen[o]) /\ Overdue(screen[o])

RecoveredClean(s) ==                                       \* mutant
    [Disable(s) EXCEPT !.pending = FALSE, !.believed = "none"]

\* The watchdog's device-wide reset, and recover_output on every output.
Recovered(s) ==
    [Disable(s) EXCEPT !.pending = FALSE, !.believed = "none", !.dirty = TRUE]

\* render_frame: the damage tracker takes the frame for what the screen shows.
Prepared(s, scene) == [s EXCEPT !.believed = scene]

QueueStillDirty(s, scene) ==                               \* mutant
    LET sent == [s EXCEPT !.pending = TRUE]
    IN  IF s.awaiting # "none" THEN [sent EXCEPT !.queued = scene] ELSE Commit(sent, scene)

\* queue_frame of a prepared frame: held back while an earlier completion is
\* awaited, committed otherwise.
Queue(s, scene) ==
    LET sent == [s EXCEPT !.pending = TRUE, !.dirty = FALSE]
    IN  IF s.awaiting # "none"
        THEN [sent EXCEPT !.queued = scene]
        ELSE Commit(sent, scene)

\* A prepared frame was refused: the buffer ages are reset so that the retry,
\* which the dirty flag keeps due, is a full frame.
RefusedKeepingAges(s) == s                                 \* mutant
Refused(s) == [s EXCEPT !.believed = "none"]

\* Nothing on the crtc changed.
Empty(s) == [s EXCEPT !.dirty = FALSE]

Due(s) == active /\ s.status = "on" /\ ~s.pending /\ s.dirty

\* render_frame_session over every output. `drawn` are the outputs whose render
\* deadline has come; of those `empty` produce no change and `refused` are
\* refused by a fault. A commit to a busy kernel is refused without one.
Render(scene, watchdog, drawn, empty, refused) ==
    LET start == [o \in Outputs |->
                     LET s == Dirtied(screen[o])
                     IN  IF watchdog /\ Listed(s) THEN Recovered(s) ELSE s]
    IN  /\ watchdog => WatchdogFires
        /\ drawn \subseteq {o \in Outputs : Due(start[o])}
        /\ \A o \in empty : start[o].believed = scene
        /\ \A o \in refused : start[o].awaiting = "none" /\ KernelFree(start[o])
        /\ empty \cap refused = {}
        /\ faults + Cardinality(refused) <= MaxFaults
        /\ faults' = faults + Cardinality(refused)
        /\ screen' = [o \in Outputs |->
               LET s == start[o]
                   frame == Prepared(s, scene)
                   busy == s.awaiting = "none" /\ ~KernelFree(s)
               IN  CASE o \notin drawn -> s
                     [] o \in empty -> Empty(s)
                     [] o \in refused \/ (o \in drawn \ empty /\ busy) -> Refused(frame)
                     [] OTHER -> Queue(frame, scene)]
        /\ damage' = FALSE
        /\ UNCHANGED active

AnyDirty == \E o \in Outputs : screen'[o].status = "on" /\ screen'[o].dirty   \* mutant

\* redraw_pending, of the state the pass leaves: a lit output is dirty or its
\* flip is still to complete.
RedrawPending ==
    \E o \in Outputs : screen'[o].status = "on" /\ (screen'[o].dirty \/ screen'[o].pending)

-----------------------------------------------------------------------------
(***************************************************************************)
(* What else moves the pipeline: a scene change, the power of one output,  *)
(* parking and unparking it, and the seat going away and coming back.      *)
(***************************************************************************)
Damage ==
    /\ ~damage
    /\ damage' = TRUE
    /\ UNCHANGED <<screen, active, faults>>

\* DrmCompositor::clear: the crtc is disabled and every frame forgotten.
Cleared(s) ==
    [Disable(s) EXCEPT !.awaiting = "none", !.queued = "none", !.believed = "none",
                       !.pending = FALSE]

\* The power switch and, for parking, apply_output_change both mark the scene
\* damaged.
PowerOff(o) ==
    LET s == screen[o]
    IN  /\ s.status = "on" /\ active /\ HasRoom(s)
        /\ screen' = [screen EXCEPT ![o] =
               [Cleared(s) EXCEPT !.status = "off", !.dirty = FALSE]]
        /\ damage' = TRUE
        /\ UNCHANGED <<active, faults>>

Relit(s) == [s EXCEPT !.status = "on", !.dirty = TRUE, !.believed = "none"]

PowerOn(o) ==
    /\ screen[o].status = "off"
    /\ screen' = [screen EXCEPT ![o] = Relit(@)]
    /\ damage' = TRUE
    /\ UNCHANGED <<active, faults>>

\* The last output of the layout is never parked.
Park(o) ==
    LET s == screen[o]
    IN  /\ Listed(s) /\ active /\ HasRoom(s)
        /\ \E other \in Outputs \ {o} : Listed(screen[other])
        /\ screen' = [screen EXCEPT ![o] =
               [Cleared(s) EXCEPT !.status = "parked", !.dirty = FALSE]]
        /\ damage' = TRUE
        /\ UNCHANGED <<active, faults>>

Unpark(o) ==
    /\ screen[o].status = "parked"
    /\ screen' = [screen EXCEPT ![o] = Relit(@)]
    /\ damage' = TRUE
    /\ UNCHANGED <<active, faults>>

PauseSession ==
    /\ active
    /\ active' = FALSE
    /\ screen' = [o \in Outputs |->
           IF Listed(screen[o]) THEN [screen[o] EXCEPT !.pending = FALSE] ELSE screen[o]]
    /\ UNCHANGED <<damage, faults>>

\* Every connector is reset; an output that is off or parked is cleared again.
\* A seat is away for longer than any flip takes that is not stalled: such a
\* flip has completed before the seat is back, and every completion was read.
ActivateSession ==
    /\ ~active
    /\ \A o \in Outputs :
           /\ screen[o].events = 0
           /\ screen[o].fate = "due" => screen[o].flip = "none"
    /\ active' = TRUE
    /\ screen' = [o \in Outputs |->
           LET s == screen[o]
           IN  IF s.status = "on"
               THEN [Disable(s) EXCEPT !.pending = FALSE, !.believed = "none"]
               ELSE Cleared(s)]
    /\ damage' = TRUE
    /\ UNCHANGED faults
=============================================================================
