# ChonkStep: a TLA+ verification project

ChonkStep is a desktop: a Wayland compositor (with an older X11 backend), its
window manager, shell, dock, lock screen support, capture tools and IPC, written
in Rust. This directory models the parts whose correctness is a matter of
*state and order* — who has the keyboard, which frame a screen shows, when a
lock is in force — model-checks them with TLC and proves the most important
facts for all parameters with TLAPS.

Six subsystems are modelled:

| subsystem | modules | code |
| --- | --- | --- |
| window manager core | `WindowManager`, `Orders`, `MCWindowManager`; proofs in `LoopTheorems`, `WindowManager_proofs`, `WindowFocus_proofs` | `crates/wm-core/src/manager.rs`, `manager/special.rs`, `client.rs`, `focus.rs` |
| session lock over the KMS frame pipeline | `KmsFrames`, `SessionLock`, `LockContract`, `MCSessionLock`; proofs in `SessionLock_proofs` | `crates/wm-wayland/src/lock.rs`, `session.rs`, `state.rs` and the part of the vendored smithay `DrmCompositor` they rest on |
| the seat's keyboard | `SeatKeyboard`, `Orders`, `MCSeatKeyboard`; proofs in `SeatKeyboard_proofs` | `crates/wm-wayland/src/focus_grab.rs`, `layers.rs`, `lock.rs`, `input.rs`, `input/keyboard.rs`, `state.rs` |
| idle inhibition over the bus | `IdleInhibit`, `MCIdleInhibit`; proofs in `IdleInhibit_proofs` | `crates/wm-wayland/src/inhibit_bus.rs`, `idle.rs` |
| a dock tile and its process | `DockTile`, `Orders`, `MCDockTile`; proofs in `DockTile_proofs` | `dock/crates/chonk-dock/src/dockapp/` (`tile.rs`, `mod.rs`, `handoff.rs`), `chonk-dock-proto/src/queue.rs` |
| the capture tool and its worker | `Capture`, `MCCapture`; proofs in `Capture_proofs` | `crates/wm-wayland/src/capture_tool.rs`, `capture_tool/worker.rs` |

`PROJECT.json` maps every definition to the source lines it models, and lists
runs, mutants, hazards, findings and theorems.

## 1. Inventory

What the system is made of, the state each part keeps, and what makes it
correct. "Hard" names the behaviour a unit test hardly reaches.

**Window manager core** (`wm-core`: `manager.rs`, `manager/special.rs`).
State: a slotmap of clients (workspace, special workspace, transient parent,
modal / sticky / no-focus flags, life cycle), the focused client, the focus
history, the current and previous workspace and their number, special
workspaces and their layout orders, the Alt-Tab session. Operations: one handler
per backend event (map, unmap, click, key) and per command (switch, move, pin,
activate...). It drives a `Backend` trait, whose state — what is mapped, where
the keyboard was sent — is a second copy of the same truth. Hard: every handler
composes many smaller ones (forget → successor → modal redirection → focus);
families of windows are moved one by one with focus changes between. Correct
when: focus is on screen, the backend agrees with the core, nothing off screen
stays mapped, families stay together, histories and indices never dangle.

**Window presentation, displays, spatial layouts, gestures** (same crate).
Maximize/fullscreen/snap as a lattice with restore rectangles; one workspace
row per display in some modes, evacuation when a display goes; geometry
solvers; floating-point gesture physics. Correct when restoring gives back what
was there, and windows of a lost display come back.

**Session lock** (`wm-wayland/lock.rs`). State: `LockMachine`
(Unlocked/Locking/Locked), the holder, the confirmation owed (`pending_ack`),
the ledger of lock surfaces. Called by lockers' requests and, once per dispatch
pass, after rendering. Hard: the `locked` event must wait for every screen; a
locker may die anywhere, and the session must stay locked; recovery after a
crash starts locked with no locker. Correct when it keeps `LockContract`.

**KMS frame pipeline** (`session.rs` + smithay `DrmCompositor`). State per
output: dirty, frame pending, powered, parked; smithay's pending and queued
frames and damage tracker; the kernel's flip. Shared with the lock only through
the scene's `damage` flag and `redraw_pending`. Hard: three parties keep a
record of the same frame, flips are late, commits are refused, the watchdog
resets the device, VT switches take it away. Correct when no frame is
forgotten and a blank screen comes back.

**Compositor state and dispatch loop** (`state.rs`, `backend_impl.rs`).
One thread, one calloop; a pass drains events, runs the window manager, refreshes
the lock, renders, confirms, flushes. Everything below is called from it.

**Seat keyboard arbitration** (`focus_grab.rs`, `layers.rs`, `input/`). State:
the keyboard of the seat, the core's deferred intent, the layer surfaces, the
exclusive and on-demand holders as last seen, the grabs with their staged and
committed whitelists, the ledger of lock surfaces. Lock, exclusive layers,
grabs, on-demand layers, modal interface and windows compete for one keyboard;
requests are handled one by one and settled in a pass. Hard: each step of the
pass looks at what *changed* since the last one, so a step that is skipped under
a higher claim may be missed when the claim ends. Correct when the keyboard is
where the precedence says after each pass.

**Idle and inhibition** (`idle.rs`, `inhibit_bus.rs`), **system bus bridges**
(`sleep_bus.rs`, `lid_bus.rs`). Threads with a bounded wake channel and an atomic
count. Hard: a dropped wake, a peer that vanishes at an await. Correct when the
last count always reaches the loop and no inhibitor outlives its peer.

**Capture tool** (`capture_tool.rs`, `capture_tool/worker.rs`). The compositor's
side keeps the overlay, whether it records, and a count of photographs under way;
a worker thread encodes, runs the recorder and `wl-copy`, and answers. Two bounded
channels on which neither side waits. Hard: jobs refused on a full channel, ends
that cross a stop, photographs canceled while the GPU still writes them. Correct
when the count is what is under way, and a recording can be stopped and is
stopped by the lock.

**Clipboard persistence** (`selection/persistence.rs`), **image capture**
(`capture.rs`, `image_capture.rs`), **XWayland lifecycle**
(`xwayland/lifecycle.rs`), **output power / management / gamma**. Deadlines,
one restart, exclusive control under hotplug.

**Hyprland IPC** (`chonk-hyprland-ipc`). A bounded, fair service pass over
clients; events as snapshot differences.

**Dock and dockapp supervisor** (`dock/crates/chonk-dock`). Per tile a process,
a connection with a bounded send queue, a launch budget, a liveness ping and a
token that survives a restart of the shell. Hard: a launch against a late rejoin,
crash-loop cutoff, a hung tile, a disconnection inside a handler. Correct when
the slot is drawn by the process it was last launched for and by no other,
nothing is left running, launches are bounded and a stale reading is not shown.

**X11 backend, desktop shell, configuration, theme, XSETTINGS, instruments,
pairing dialogs, tools, test kits, scripts, vendored code.** Listed in
`PROJECT.json` with the reason each is not modelled: mostly I/O, text or pixels.

## 2. The window manager

The core dispatches one event to completion before it reads the next, so one
action is one *whole* handler. The state is one record `wm` with a field for
each field of the `WindowManager` struct that decides placement and focus, plus
the backend's `mapped`, `seat` and `grabbed`; `locked` is
`Backend::session_locked`. A handler is a function from record to record,
composed of the functions the code calls and named after them or after what
they do: `FocusClient` is `focus_client`, `FocusSuccessorOf` is
`focus_successor_of`, `SwitchTo` is `switch_workspace_to_focus`,
`Forgotten` is `forget`, `Presented` the restore–bring–focus sequence of an
activation. Loops over a family fold a step along the order of the family
(`ForEach`), decided before the first member moves, as in the code.

Abstracted: geometry, stacking, decoration, layouts, shading, drags,
maximize/fullscreen; several displays and the Mac and spatial styles. Window
rules are the decisions they produce (`MapRule`). Slots of dead clients are
reused, as in the slotmap, but ids carry no generation: the code's ids that
outlive their client are removed by `forget`, which `CycleHonest` and
`HistoryWellFormed` check.

The core is event-driven and owes nothing by itself, so the module states no
liveness: what would be liveness elsewhere ("the keyboard is eventually given
to somebody") is here an action property of each handler.

### Runs

The state space is cut by *gestures*: `Gestures` names the kinds of request an
instance makes, so that each run explores one family of interactions to the
end. All have two or three windows. Every property here relates at most two
windows, or one window and its heir; the third is the bystander whose presence
makes "the wrong heir" possible.

| run | instance | what it shows |
| --- | --- | --- |
| `wm_workspaces` | 3 windows, 2 workspaces; workspace, minimize, focus, activate | types; `HistoryWellFormed`; neither a handler that takes the keyboard nor a switch strands it; an activation takes no detour |
| `wm_cycle` | 3 windows, slots reused, parents, dialogs that become modal and cease to be; Alt-Tab with windows mapping, closing and iconifying under it | the snapshot, selection and grab of the session stay consistent; a modal dialog keeps the keyboard from its family of up to three |
| `wm_pins` | 2 windows, 3 workspaces, one special, rules that pin, place and keep from activating, urgency, focus follows mouse, lock on and off (about 214 000 states) | indices survive the renumbering of the row; pinned and unpinned windows leave no ghost; nothing moves under the lock |
| `wm_overlays` | 2 windows, one special over two workspaces, `hide_special_on_workspace_change`, icons, late parents, rules that place and that decline the keyboard (about 65 000 states) | membership and layout order agree; focus stays on screen; a dialog stays with its parent unless it is the one named |

`MaxWorkspaces` (99 in the code) is 1 to 3 and is *reached*: index
`MaxWorkspaces` is asked for and must be refused, and three workspaces are the
fewest where a removal has both a neighbour below and one above.
`MaxSpecials` (16) is 1 with one name, so the refusal of a full table is in the
model (`WindowManager_proofs` covers it) and in no run. Chains of three windows
are in `wm_cycle` only, on one workspace; `DialogsFollow` is about one dialog and its
parent, and two windows are the fewest that can part; `DialogsSafety` (section 9) has
families of any shape.

Not every property holds under every gesture. `DialogsFollow` holds with two
exceptions, which it states. A request that names a dialog (move, carry, put in
a special, a placement rule, a restore from its icon) takes the dialog and what
is below it and leaves the parent where it was. And a restore brings an icon to
the workspace on screen without the members of its family that are no icons, so
the pair may part while one of the two is an icon (section 8 has both). It is an
action property, since what is once apart stays apart under moves of others.

Elsewhere the passing runs leave out the gestures that lead to a known
disagreement rather than weaken the property (section 8). `FocusedOnScreen`
fails under modal dialogs, so `wm_overlays` has none.
`NothingLeftMapped` fails when a dialog maps into a hidden workspace, so
`wm_pins` has no "parent". That the backend's seat follows the core, and that the
focused window is mapped, are not stated. `ActivationWithoutDetour` is checked
between workspaces, not into a special: showing a special focuses its most recent
member first (`manager.rs:4313`). A bell marks its window urgent
whether or not it has the keyboard, and the window that has it stays urgent until
focus moves (`core_protocols.rs:906`); `SetUrgent` has no test of focus either, and
no property is about the mark. A modal dialog that is itself blocked by another may be
focused: `modal_blocker` redirects once, and `ModalKeepsKeyboard` says so.

## 3. The session lock and the frame pipeline

`KmsFrames` has the pipeline's state and actions, and no specification;
`SessionLock` EXTENDS it with the lock and composes both in the dispatch pass;
`LockContract` is the abstract specification, and `ContractHolds` the
refinement, with `exposed` the plain truth: some lit screen of an active session
shows the desktop.

A frame is abstracted to the scene it was built from, `"desktop"` or
`"locked"`. Per output the record `screen[o]` keeps what three parties believe:

| party | fields | code |
| --- | --- | --- |
| session | `status`, `dirty`, `pending` | `SessionOutput::powered`, `dirty`, `frame_pending`; `parked` list |
| DrmCompositor | `awaiting`, `queued`, `believed` | `pending_frame`, `queued_frame`, damage tracker (`reset_buffer_ages` is `believed = "none"`) |
| kernel | `flip`, `fate`, `events`, `shown` | the flip in flight, how it will fare, completions not yet read, what the panel shows |

`Pass` is the end of `dispatch_pending`: the damage flag is consumed into the
outputs, the watchdog may reset the device, every due output is drawn (or found
unchanged, or refused), and `confirm_after_frame` looks at the state this
leaves. `VBlank` is the read of one completion: the session clears its pending
flip *whichever* flip completed, and smithay retires the awaited frame and
submits the queued one. `PauseSession`/`ActivateSession` are the VT switch,
`Park`/`Unpark` and `PowerOff`/`PowerOn` the output's two ways of going dark.
The lockers ask, unlock, die and come back; `told` is the last word each has
had.

Time is abstracted, conservatively: a frame-clock deadline may put an output off
in any pass; the watchdog may fire in any pass that finds a flip overdue. It
does not fire while a completion is unread, because the code credits back the
time the loop was away (`LOOP_BLOCK_GRACE`). `CommitHealth` only chooses
whether the next commit may modeset, and is left out. One KMS device.

Bounds. `MaxFaults = 1` in `lock_screens`: one stalled flip
or one refused commit per behaviour — a single-fault analysis; a late flip *and* a
refusal inside `frame_submitted` together could lose a frame, which the code does
not claim to survive. `Fates` says how a stalled flip may fare: late, lost, or, when
it is empty, that none stalls and every fault is a refused commit. `MaxUnread = 2`:
one completion is unread in ordinary operation, the second is the one a power switch
or reset adds; more than two repeat the same shift. Two screens: the confirmation is
about *all* screens, and two out of phase are enough to have one confirmed without
the other. Two lockers: a holder and a replacement. `Moves` selects which of power,
park and seat happen. Symmetry is used in the safety runs only.

Fairness (`FairSpec`). Weak fairness of: the pass (calloop wakes at least every
100 ms), of drawing each output (its deadline comes), and of reading each completion
(calloop is level-triggered). Strong fairness of the completion of each flip that is
not lost: one refresh is enough for it, and the resets that could take it away are
five seconds apart. Strong fairness of the watchdog: it is asked in every pass, and
the unread completions of other screens come and go. Nothing is assumed of clients,
users, the seat or faults.

| run | what it shows |
| --- | --- |
| `lock_screens` | 2 screens, 2 lockers, every move, one late flip or refused commit (about 657 000 states): `ScreensCovered`, `QuietScreensAreCurrent`, `ConfirmationOwed` |
| `lock_progress` | 2 screens, 1 locker, VT switches, two faults (refused commits and lost flips), `FairSpec` (about 46 000 states): the refinement of `LockContract`; an admitted locker is told `locked`, blank screens come back, unless a lost flip wedges the screen |
| `lock_presented` | 1 screen, one late flip; finding 1 |

What is promised and what is kept differ here. `lock.rs:36` promises a locked frame
*presented* on every screen before `locked` goes out, and `LockContract` states it.
The pipeline keeps it while every completion is taken for the flip it is of, which is
what `lock_progress` shows: refused commits, VT switches and flips that never complete
do no harm, and the proof has any number of the first two. A flip that completes after
the watchdog has abandoned it, or an output switched off or parked with a completion
unread, shifts every later completion of that output by one, and the promise is broken
(finding 1, and section 8). `ScreensCovered` is the weaker
statement that survives even that, in the run with every move and a late flip: a
screen that still shows the desktop after `locked` has the locked frame *in the
kernel's hands*. `LockIsConfirmed` is conditional on the scene settling: the
confirmation waits for one pass that finds no damage and no flip pending on any
screen, so a scene damaged on every frame with screens out of phase may delay it. No
comment promises otherwise. Both liveness properties except a screen that a lost flip
has wedged (`Wedged`): such a screen stays blank, and while it is lit no lock is ever
confirmed (section 8). What they do say of that case is that its neighbours, blanked
by each of the watchdog's resets, come back.

## 4. The seat's keyboard

`SeatKeyboard` keeps everything the keyboard of the seat depends on in one
record, `seat`: the focus itself, the windows, the core's focused window and its
deferred intent (`pending_focus`), the layer surfaces with their bands and
interactivity, the exclusive and on-demand holders as last noted, the grabs with
staged and committed whitelists, the lock with the ledger that ties lock surfaces
to output positions. The compositor is one thread: requests and input are handled
one by one (the disjuncts of `Event`), and `Pass` is what `dispatch_pending` does
with what they left, in its order —

| in the code | operator |
| --- | --- |
| the core hears of closed windows | `CoreSettles` |
| `apply_pending_focus` | `ApplyIntent` |
| `layers::refresh`, `sync_keyboard` | `LayersRefresh`, `SyncKeyboard` |
| `focus_grab::refresh`, `settle_keyboard` | `GrabRefresh`, `SettleKeyboard` |
| `sync_modal_focus` | `SyncModal` |
| `lock::refresh` | `LockRefresh` |

A commit of a layer surface ends in `layers::refresh` by itself, and so does
`LayerCommits`. Each settling step compares what it finds with what it noted last
and acts on the difference, so the hazard is a change noted while a higher claim
made the step skip its effect. The properties compare the keyboard with the
*whole* state, not with differences.

| run | what it shows |
| --- | --- |
| `seat` | 2 windows, 2 layer surfaces, 2 grabs, 2 lock surfaces, 2 outputs, any 5 events with passes anywhere between (about 519 000 states up to symmetry): only the locker types under a lock, and can; exclusive layers and grabs keep what they claim; every grab is cleared exactly once; the ledger survives renumbering; no window has the keyboard the core meant for another |

History variables: `settled` (nothing happened since the last pass), `owed`
(starts of a grab not yet answered by `cleared`), `named` (the output a ledger
entry was made for), `missed` (an unlock served another claimant than the one
noted, and no change of claimant has been noticed since).

Bounds and what is left out. `MaxEvents = 5`, from a session under way in `Init`;
the run says `CHECK_DEADLOCK FALSE` because the budget of events ends. A grab
names layer surfaces only (`Whitelistable`): windows of other clients follow the
same code. Outputs come and go under a lock only, since nothing else here looks
at them. `ClaimsAreTypeable` excepts a layer surface's claim while `missed`, and
only then: such an unlock does leave a window with the keyboard (section 8), which
TLC shows within the bound when the exception is dropped. A layer keeps the band it was created in. Both objects of
a lock or layer surface die in one step. `confirmed` abstracts the confirmation
`SessionLock` models. Popups, subsurfaces, drags, X11 grabs, virtual keyboards
and the routing of keys are left out. `NoWrongWindow` speaks of windows and of
nothing: a destroyed on-demand layer leaves a dead keyboard until the next click,
and an on-demand holder of long ago can be preferred when a grab ends
(`keyboard_fallback`); neither is called wrong by the code.

## 5. Idle inhibition over the bus

`IdleInhibit` has the three threads of `inhibit_bus.rs`. The bus library runs
each method call as a task (a slot of `call`); `service` reads departures of
peers, in their order but in no order with the calls; `loop` is the callback in
the compositor with the part of `idle.rs` it feeds. They share a mutex and the
ledger it guards, two atomics (`status`) and a channel of one message (`wake`).
The locked section is one step up to the wake and one for the wake
(`Publishes`, `WakeCompositor`); every await of a portal request separates two
actions (`Reserve`, `Export`, `Check` or `RollBack`, `RemoveObject`); the loop
takes the message, loads the count and takes the activity in three steps
(`Receives`, `Loads`, `TakesActivity`), since it holds no mutex.

`peers.holds` is history: the cookies a peer was given and has not given back.
That a portal handle is fresh (`Fresh`) is the contract of xdg-desktop-portal.
Inhibiting surfaces and window rules raise the same dirty flag as the lock and
are left out, as are the idle timers themselves.

| run | what it shows |
| --- | --- |
| `inhibit` | 2 peers, 2 calls under way, one handle, a limit of 2 requests, 2 cookies, 3 calls in all, departures and the death of the bus (about 1 258 000 states up to symmetry): no wake is lost, the count is the ledger's, a cookie is its caller's, the objects exported and the reservations agree, the notifier follows |

Bounds. Two calls and the service thread make three contenders for the mutex and
every await can be crossed by a departure and a close. `CookieSpace = 3` makes
the counter wrap after two cookies (2^32 in the code); `MaxCalls` ends the calls,
not the threads. The proofs have none of these bounds.

## 6. A dock tile and its process

`DockTile` is `RemoteTile` with the processes launched for it, the socket with
its bounded send queue, the admission of a Hello and the hand-over of the token
across a restart of the shell. A token is minted per launch and given to one
process, so it *is* that process in the model. The dock's servicing pass is one
thread (`PassStarts`, `Reads`, `PassEnds`), with the processes, the kernel's
buffers and the reaper running alongside; the rest are user and desktop events
and process exits, of which there are at most `MaxEvents`.

Time is counted in ticks, deadlines as ticks left and instants as ages that stop
at the bound they are compared with; the clock moves only when no pass is overdue
(`Tick` is guarded by `~Overdue`), which is the timer that wakes the shell. The
Goodbye message is best effort and not a state change. The tile is always
visible (`desktop.rs:754` passes a constant). The frame limiter, pixels and the
geometry of the panel are left out; a peer that hangs up in the middle of a pass
is seen by the next one.

| run | what it shows |
| --- | --- |
| `dock_tile` | 2 processes, 2 events anywhere in the routine of launches, handshakes, pings, overflow and hand-overs: the slot is drawn by the process it was last launched for, nothing is left running, launches stay inside the budget, a silent dockapp's reading is not shown as fresh, a pass leaves no deadline overdue |

Bounds. The constants are smaller than the code's (two unanswered pings instead
of 3, two failures instead of 5, a queue of 2 instead of 64): each is reached and
passed within the run. `NothingLeftRunning` does not speak of processes
inherited from a shell that is gone, which nobody can wait for.

## 7. The capture tool

`Capture` has two actors. `desk` is the compositor's side: the overlay
(`capture_ui`: nothing, a selection or the recording's badge), the flags
`recording` and `finishing`, the count `screenshots` that admits photographs and
the `downloads` the GPU still writes. `worker` is the thread: the job in its
hands, the recorder, the `wl-copy` it is watching and the photographs waiting for
their turn. Each owns the channel it sends on (`jobs`, `updates`).

| in the code | operator |
| --- | --- |
| `begin`, `commit`, `stop`, `dismiss` | `BeginScreen`, `BeginSelection`, `CommitPhotograph`, `CommitRecording`, `Stops`, `Dismisses` |
| `tick`: `service_screenshots`, the lock, the updates | `Tick` of `AllServed`, `Stopped`, `AllInformed` |
| a turn of the worker's loop up to the next wait: the job, the look at the recorder, `Clipboard::poll` | `Performs` (after `Receives`) or `TimesOut`: `Performed`, `Watched`, `Resolved`, `Launched` (past those whose `wl-copy` does not start, `Unlaunched`) |
| `Drop for Worker` | `LogsOut`, `SendsShutdown`, `Joins` |

A turn of the loop is one step from the job on, because what it sends is read by
the compositor only in a later tick, and nothing it reads is written by the
compositor. The worker exists from the start, which the code does on the first
job. The selection's geometry and the choice of mode are the `\E` of the actions;
a recording that finishes well or badly ends alike.

| run | what it shows |
| --- | --- |
| `capture` | photographs to every destination, recordings, crashes, lock, logout (about 621 000 states): the count that admits photographs is exactly what is under way on both threads; temporary files are those on the way to the clipboard; a recording always has something left that ends it; nothing deadlocks, logout included |
| `capture_lock` | one destination, one photograph at a time, `FairSpec`; finding 2 |

Bounds. All four are the code's: a channel of 2 jobs and one of 8 updates, 2
photographs, 2 at the clipboard. The worker drops an update that finds no room
(`Sent`), which would lose a slot or leave a badge for ever; however long the
compositor sleeps, no more than seven are ever waiting, two of photographs and
five ends, so the invariants hold. `RoomAssumption` names what that rests on: room
for `MaxShots + JobRoom + 4` updates (the code's 8 is 2 + 2 + 4), and at the
clipboard for every photograph admitted. With too
little room an update could be lost; the bound is what an argument by parts gives,
one more than TLC ever sees waiting. A turn of the worker sends at most one end, so
that a tick between two updates of one turn would change nothing.

Fairness (`FairSpec`, for the finding). The tick, with downloads the GPU
completes: the wait of the loop is bounded by the shell's idle poll and the
download deadline (`state.rs:5365`). The worker's next step and the watched
`wl-copy`, which has 100 ms (`CLIPBOARD_PROBE`). Nothing of users or recorders.

## 8. Findings

Each is a violation run whose trace TLC prints.

1. `lock_presented` — the watchdog abandons a late flip in the session's books
   (`frame_pending`) but not in smithay's (`pending_frame`). The reset's own frame is
   held back behind the flip abandoned, whose late completion submits it and is
   counted as its completion; from there every completion is taken for the frame
   after its own, and `locked` is sent while the locked frame is in flight and the
   desktop on the panel (`session.rs:3124`, where a comment calls the late completion
   harmless; `lock.rs:36` says `locked` is only sent after a locked frame has been
   presented).
2. `capture_lock` — a `RecordingEnded` does not say which recording. A recorder
   that leaves by itself sends one, and the stop that crosses it is answered with
   another; a recording started between the two is forgotten when the second
   arrives, its badge goes, and the lock, finding `recording` false, does not stop
   it (`capture_tool.rs:877`; `docs/capture.md:100` says locking stops
   recording). With a worker that answers a stop only when it had a recorder,
   the same run holds.

### Known divergences

Disagreements met while modelling that have no run of their own; the runs leave
out the events that lead to them or check the weaker statement that holds.

- The shift of finding 1 happens with no fault at all: an output switched off with a
  flip in flight waits the flip out, and is switched on and drawn before its
  completion is read (`session.rs:3305`). With `Fates = {}` and `Moves = {"power"}` in
  `lock_presented.cfg` TLC finds it.
- For a flip that never completes the watchdog's reset changes nothing: the next frame
  does not "go out as a full modeset commit" (`session.rs:658`), it is held back behind
  the lost one, the watchdog finds it overdue, and so for ever; the screen stays blank
  and no lock is confirmed while it is lit (`session.rs:3098`,
  `confirm_after_frame`). `BlankScreensComeBack` and `LockIsConfirmed` except it as
  `Wedged`; without the exception TLC breaks both.
- `unlock` gives the keyboard to the exclusive claimant of that moment and leaves
  `exclusive_focus`, the one noted, to the next `layers::refresh` (`lock.rs:412`),
  because "the claimant across a whole lock cycle is the same surface it was before"
  (`lock.rs:407`). It need not be: an exclusive layer that is hidden when the session
  unlocks and shown again before the next pass is the claimant and the one noted,
  `sync_keyboard` finds no change (`layers.rs:653`) and a window keeps the keyboard
  that `layers.rs:642` pins to the layer. Likewise a second exclusive layer, shown
  under the lock, takes the keyboard unnoted, and if it is destroyed before the pass
  the keyboard stays on the dead surface. `ClaimsAreTypeable` excepts both as `missed`.
- `check_liveness` queues a ping and then acts on the count it took before. When
  queueing disconnects the dockapp for a sustained overflow, the branch below still
  writes `Hung` over the state the disconnection chose: hung, with no connection, and
  nothing relaunches it (`tile.rs:1143`; the documentation of `Hung`, `tile.rs:153`,
  says "Connected"). With the invariant `tile.mode = "hung" => Connected(tile)` in
  `dock_tile` TLC finds it.
- A modal dialog moved alone to a special that is not shown keeps the keyboard. The
  successor is its parent, `modal_blocker` redirects the keyboard to the dialog, which
  is off screen and refused, and nothing else is tried, so the hidden dialog stays
  `focused` (`manager.rs:1418`; `manager.rs:4778` says "Keyboard focus follows what is
  on screen, never the other way round"). With "modal" among the gestures of
  `wm_overlays` TLC breaks `FocusedOnScreen`.
- `forget` clears `focused` before it asks a successor that may refuse (its modal
  dialog is out of sight), and never tells the backend: the seat keeps pointing
  at the window that closed (`manager.rs:2636`).
- A dialog is mapped before its inherited workspace is compared with the current
  one, so a dialog of a hidden window is shown over the wrong workspace
  (`manager.rs:2369`).
- A window moved from a hidden workspace to the visible one is not shown, and can
  then be focused unmapped (`manager.rs:1895`).
- `held_keyboard` is set only when `settle_keyboard` itself moved the keyboard. A
  grab that got it from `layers::sync_keyboard`, when an exclusive layer went, is
  not remembered, and when it ends the keyboard stays on its surface until the
  core changes its focus (`focus_grab.rs:602`; `focus_grab.rs:411` says it is
  given back). `NoWrongWindow` sees a grab's homecoming from a layer surface only; no
  property states it for a grab on windows.
- A request that names a dialog leaves its parent behind: `transient_family` walks
  down from the window given (`manager.rs:1820`, `manager.rs:2092`), so "send to
  workspace 2" on a dialog parts it from its window. The code is of two minds:
  `move_family_to_display` climbs to the root of the family first
  (`spaces.rs:1000`). No comment promises the climb elsewhere.
- A dialog mapped while its window is an icon keeps its workspace when the window
  is restored on another: `deminiaturize` brings minimized members only
  (`manager.rs:4202`).
- A hot restart re-execs the compositor without dropping the capture worker, so a
  recording under way is not finished (`state.rs`, `restart_in_place`).
- When the bus itself goes, the portal objects of its ledger are not taken down
  (`inhibit_bus.rs:167`); with the bus gone nobody can reach them, and
  `PortalAgrees` speaks of a bus that is there.

## 9. Proofs

Assumptions are the named ASSUMEs of the modules, which TLC evaluates on every
run; nothing else is assumed about the constants.

**Window manager** (`WindowManager_proofs`), for any number of clients,
workspaces and specials and any rules: `TypeSafety`, `HistorySafety`,
`RowSafety`, `SwitcherSafety` and `MembershipSafety` are `Spec => []TypeOK`,
`[]HistoryWellFormed`, `[]WorkspacesInRange`, `[]CycleHonest` and
`[]SpecialMembership`. Since a handler is a composition of functions on the
record, the proof is too: one lemma per operator, "good in, good out", cited
along the composition, then one step per action. The inductive invariant is
`Good`, with `Honest` for the switcher. None of its parts is inductive by
itself: that a successor is a client needs the history to list live clients,
and that the history stays distinct needs typed clients; a departure keeps
the layout orders because only live clients belong to a special; a removal keeps
the types because every window is filed inside the row, dead slots too
(`RowHolds`, stronger than the checked invariant, since a slot that is filled
again starts from what is there). `Good(was, d)` also says that `d` has the
clients and the session `was` has, which is why a family decided before the
first member moves is still alive when the last one does.

A second layer, `Tidy`, is about what is mapped. `GhostSafety` says for any
constants that one event alone may leave the first ghost: the arrival of a
dialog whose parent is filed on another workspace, which is the disagreement at
`manager.rs:2369` above. `NothingLeftSafety` is `[]NothingLeftMapped` for the
instances without dialogs that arrive with a parent (`"parent" \notin Gestures`;
a parent given later is allowed). It needs `MembersHold`: an overlay is hidden
by its layout order, so a member missing from it would stay on screen.

A third, `Restoring`, is about activations behind the lock screen. `LockSafety` is
`LockKeepsDesktop` for any constants, all gestures included. The guard of
`ActivateClient` looks at the target before the family is restored and
`BringIntoView` at the one after, and they may differ, since a dialog that comes
back from its icon blocks its family again. They differ only by a window that was
an icon, which the loop has put on the workspace on screen by then
(`BlockerStays`).

**Who has the keyboard** (`WindowFocus_proofs`, on top of the above), in six
layers, each a lemma per operator cited along the composition:

- *Kin*. Parents and modality are written by the arrival and the departure of a
  window and by two requests about it, and by nothing else (`SameKin`).
- *Sight*. `FocusedOnScreen` is not inductive: `focus_client_with` redirects the
  keyboard to a modal dialog, and if the dialog is not on screen it refuses and
  leaves the keyboard where it was, which a handler that has just hidden the
  focused window does not expect. `Free` says that this cannot be: nobody is
  modal, or nobody has a parent. `InSightSafety` is the step, for any constants
  (while the record is `Free`, no event takes the focused window off the screen),
  and `FocusSafety` the invariant, `Spec => []FocusedOnScreen`, for the instances
  whose gestures leave out either the two that make a dialog modal or the two
  that give a window a parent. `InSightBut` is what holds between the hiding of a
  window and the choice of its successor.
- *Manned*. `StrandedSafety` says of any constants that no step leaves the
  keyboard with nobody while a window on screen could have it, as long as the
  record is `Free` before and after and either nobody has a parent or nobody who
  is on every workspace belongs to an overlay. `KeyboardSafety` is
  `Spec => NoStrandedKeyboard` for the instances without parents, and for those
  with families but no modal dialogs and no overlays. Two relations make it go
  through: `Minds` (stranded after, then stranded before and on the same
  workspace) composes, so it is what each helper promises; `NotLost` (stranded
  after, then nobody had the keyboard before) is what a handler promises.
- *Light*. `ActivationLightness` is `Spec => ActivationWithoutDetour` where no
  window has a parent and there are no special workspaces, as in its run. `Light` says
  that, apart from whoever has the keyboard afterwards, the history is as it was: an
  activation may set the focus twice (the switch of workspace hands it the arriving
  window), but on the same window, or the first time in vain. With overlays it fails
  by design: to show an overlay is to focus its most recent member first.
- *Follow*. `DialogsSafety` is `Spec => DialogsFollow` for up to nine windows, any
  workspaces, overlays and rules, where nobody is made an icon (section 8 has what an
  icon does to a family): a step parts no dialog from its parent but the one the
  request names. `FamilyOrderClosed` says that the order in which the core visits a
  family holds every descendant, and rests on `FamilyDown`, a pigeonhole argument
  about chains of parents: the core follows eight links (`MAX_TRANSIENT_DEPTH`),
  which reaches every ancestor as long as there are at most nine windows, and no
  further. `ForEachFiled` then says that the loop files every member there and nobody
  else, `Steady` that every other operator files nobody anywhere. What is kept along
  a handler is `Household(d, X)`: parents are alive, nobody is an icon, and everyone
  is together with its parent but for the pairs in `X`. `X` is the pairs already
  apart before the step, and with them, for a request that names a window, that
  window's own pair; the families are never assumed to be together to begin with.
- *Heed*. `ModalSafety` is `Spec => ModalKeepsKeyboard`, all gestures included, if
  either there are no icons, or no rule makes a window decline the keyboard and there
  are at most nine windows. One change of focus heeds the dialogs by construction
  (`TakenHeeds`); the theorem is about what a step does after it. Only a dialog that
  comes back from its icon can block a window that has just been focused, and it
  takes the keyboard as it comes (`DeminiaturizeOneHeeds`), unless a dialog of its own
  refuses it; that one is of the same family (`FamilyWithin`, again by the pigeonhole)
  and was up before, so it blocked the window already. A dialog with `no_focus` would
  block without taking the keyboard, hence the hypothesis: with such a rule in
  `wm_cycle` TLC finds a window restored from its icon, given the keyboard, and then
  blocked by its own dialog, restored after it.

The loops of the model are recursive functions (the filter of `Orders`, the walk
of a family, the fold along it); `LoopTheorems` gives the one induction scheme
they need, on a bounded interval and with the property given as a set rather
than an operator, and says what the filter and the last of an order return.

**Session lock** (`SessionLock_proofs`):
- `TypeSafety`: types of pipeline and lock. Not by shape alone: the bound on
  unread completions needs the room each disabling commit finds, and the fault
  count the guard of the render pass.
- `ConfirmationSafety`: `Spec => []ConfirmationOwed`, through `LockInv`, which
  adds that an open session has no holder; without it a request on an open
  session could leave an older holder's word behind.
- `CoverSafety` and `QuietSafety`: `ScreensCovered` (a lit screen of a confirmed lock
  that still shows the desktop has the locked frame in the kernel's hands; no more than
  that) and `QuietScreensAreCurrent`, for any screens, lockers and unread completions, *under a single fault*
  (`MaxFaults <= 1`: one late flip, lost flip or refused commit; switching,
  parking, VT switches and the watchdog are not faults). The hypothesis is
  needed: set `MaxFaults` to 2 in `lock_screens.cfg` and TLC breaks
  `QuietScreensAreCurrent`. The inductive invariant is `ScreenInv`, one
  condition `Fits` per screen. A completion names no flip, so a leftover one
  may be taken for a newer flip's. Before the fault no screen bears a mark of
  that (`MarkedOnce`): a stalled flip, a completion awaited of no flip, a frame
  held back. After it no second fault is to come, so the frame a marked screen
  holds back is handed to a kernel that is free (`InStep`), and the damage
  tracker believes only what the screen will end on (`Current`). A confirmation
  is given only when every lit screen is clean with no flip the session waits for, so
  what each ends on is the locked scene.
- `PresentedSafety`: no screen shows the desktop under a confirmed lock
  (`DesktopUnseen`), for any screens, lockers and number of refused commits, where no
  flip stalls and nothing is switched off or parked (`InOrder`: `Fates = {}` and
  `Moves \subseteq {"seat"}`). Finding 1 and its variant in section 8 show that neither
  half of the hypothesis can go; flips that never complete are in `lock_progress`, where
  TLC finds the contract kept. The invariant is `OrderlyInv`: a flip in
  flight or its completion unread, never both, is what is awaited (`Paired`), so
  nothing is overdue and nothing held back.
- `LockImplementsContract`: `Spec /\ []DesktopUnseen => ContractHolds`. Every
  step of the lock is a step of the contract or a stutter, for any constants and
  any faults, *given* that the desktop is off the screens while the lock is
  confirmed; `LockKeepsItsContract` discharges that by `PresentedSafety`.

**Idle inhibition** (`IdleInhibit_proofs`): the six invariants of the
run, for any peers, handles, calls under way and limits: `TypeSafety`,
`CountSafety`, `WakeSafety`, `CookieSafety`, `PolicySafety`, `PortalSafety`. The inductive
invariant `IInv` has three parts, by who writes the variables: `LedgerInv`,
`BusInv`, `LoopInv`. What makes it inductive is that the published count equals
the ledger's in *every* state, not only with the mutex free as the checked
invariant says: only the wake is late, so whatever the loop has not read, the
holder of the mutex has still to announce. `CookieSafety` needs that a peer
whose departure is unread is gone for good, so that its cleanup touches nobody
else, and `NextCookieIsFree`: with fewer requests than cookies the search
finds a cookie nobody has, across the wrap (a counting argument and a least
element). Growing and shrinking of the ledger are lemmas about an arbitrary
well-formed ledger; every thread's step cites them. `PortalSafety` has an
invariant of its own, `PortalInv`, that says of each handle where its request
is: one call at most asks for it, and nothing of it exists before that call
reserves it; whoever takes the object down has seen the reservation gone; a
reservation with no object is one its call still works on, and an object with
no reservation is about to be taken down or looked at by the call that made it.

**Dock tile** (`DockTile_proofs`): the five invariants of the run and its
action property, `Spec => PassSettles`, for any processes, any restart policy
and any of its limits. `PassSafety` needs a handshake grace of at least one tick
(`DockAssumption`; the code's is ten seconds, `tile.rs:102`): with none a
connection would be overdue in the pass that accepts it. Every step is a composition of functions
of the tile that either keep its process and its connection (`Kept`) or lose
them (`Lost`); `Outcome` says that the two compose, so a pass that reads
several messages is one lemma per message. The inductive invariant is `Sound`.
Its first part, `Base` and `Linked`, is who the slot belongs to: whoever is
connected is the process last launched, or one handed over by a shell that is
gone. The second, `Budgeted`, is the budget of launches, and
`LaunchesBounded` alone is not inductive: launches and failures are recorded at
different times. What is kept is that in *every* window up to the crash
window the launches are at most one more than the failures, and no more than
the failures when a launch is owed (waiting or rejoining). The limit on
failures is what chooses between waiting and giving up, so the launch that
follows a wait finds room. Ageing moves both records by one tick, which is why
all the shorter windows are needed. `LoopTheorems` supplies what the filter
that counts them does to an append, to a second filter and to a smaller set.

**Seat keyboard** (`SeatKeyboard_proofs`): `TypeSafety`, `LockSafety`,
`ClaimSafety`, `ClearSafety` and `LedgerSafety`, five of the six invariants of
the run, for any windows, layer surfaces, grabs, lock surfaces and outputs. Their
inductive invariant is `Good(seat)`, with `Quiet` after a pass: `GrabsHold` (one
grab at most has a whitelist, the active one, and it alone is owed its `cleared`;
`ClearedOnce` without the whitelists is not inductive, since a commit decides by
them), `LedgerHolds` (no output twice, each entry at the place of its output),
`LockHolds` and `ClaimHolds`. The last two say what each note is worth between
passes: the claimant noted is the claimant unless the layers are due to be
arranged, the keyboard is where the note says unless the session is locked or the
unlock `missed`, on the whitelist unless the grabs are due to be settled, on a
surface of the locker that is on a screen unless the ledger is due to be looked at.
`Told` is what an unlock needs: a locker that was told `locked` finds no grab in
force unless one is due to be settled. A pass is a
composition of six functions of the record; each keeps `Good`, and three clear
what is due. An event has a lemma of its own, by the part it disturbs
(`LayersChangeGood`, `LockedGood`, `LockerLosesGood`, `CommittedGood`), and
`Alike` disposes of those that touch none.

The sixth, `WindowSafety`, is `Spec => []NoWrongWindow` for grabs that name layer
surfaces alone (`Whitelistable \subseteq Layers`); for grabs that name windows it
is false, by the divergence of `held_keyboard` above. `WIInv` adds to the above
what is *due* between passes: `RightHolds` (no lock, no exclusive layer, and
nothing due: a window with the keyboard is the focused one) and `IntentHolds`
(an intent is the focus of the core, and it is parked as long as the focused
window has no surface), without which the binding of a surface would make a
right keyboard wrong. Inside a pass a weaker form holds, `Righted`: an intent
that a grab has dropped is made good when the grab is settled, later in the same
pass. `IntentAssumption` says that the two notes an intent can be are no window.

**Capture tool** (`Capture_proofs`): the three invariants of its run, for any
sizes of the channels and limits that satisfy `RoomAssumption`, and any
destinations: `TypeSafety`, `ChargeSafety` (`EveryPhotographIsCharged`) and
`EndSafety` (`RecordingCanEnd`). Neither of the last two is inductive: the worker
drops an update that finds no room, so each rests on a bound on what is waiting,
over both threads. `IInv` gives every update an owner while the worker is there.
`Charged`: the count is the photographs on the GPU, in the channel, in the
worker's hands, at the clipboard and reported but not yet read. `EndsFit`: an end
is due to a recorder, to a job that controls one (in the channel or in hand), or
to the credit the tool has from what it believes of its recording, and with those
already sent they are at most `JobRoom + 4`. `EndOwed` is what makes a recording
endable. `Sent` therefore never drops anything, and the three loops, of downloads, of
updates and of `wl-copy`s that do not start, keep these sums round by round
(`LoopKeeps` of `LoopTheorems`). The first lemmas say what appending to a
channel and taking from it do to a count. At logout the worker may leave with
updates unread; only the types are claimed from then on, as in the invariants.

Only model-checked: liveness (out of the prover's reach). Every safety invariant and
action property the passing runs check is stated by a theorem, each under the hypotheses it
names.

## 10. Not modelled, and why

`PROJECT.json`, `components`, gives the reason for each. What the map covers is a
small share of the repository's 216 149 lines, and no faithful modelling would
change that: most of them are drawing, geometry, text, parsing, protocol glue
and configuration (the shell, the themes, the renderers, the apps), vendored
code (smithay, of which the part the lock rests on *is* modelled), the X11
backend that repeats the Wayland one behind the same interface, and tests. They
have no state whose interleavings a model checker could explore, or compute
something whose properties are numerical. What has such state and is not yet
here is the plan below.

Inside the modelled parts: several displays, presentation states and drags of
the window manager; device enumeration and hotplug of the pipeline; pointer,
touch and key routing of the seat; idle timers; panel geometry and frames of a
dock tile; files, previews, reviews, notifications and the kept `wl-copy` of the
capture tool.

## 11. Plan

Components, most important first:

1. `XwaylandLifecycle` — one restart per session, every window of the dead
   generation retired before the next is ready.
2. `Clipboard` — persistence against an owner that exits while it is read.
3. `IpcService` — events as differences of snapshots, to clients that join
   between them.
4. `OutputPower`, `Presentation`, `Displays`.

Theorems: every safety property of the passing runs has one. What is left is to widen
the hypotheses: `DialogsSafety` with icons (TLC has them in `wm_overlays`);
`FocusedOnScreen` with modal dialogs in families, once the fallback of a
refused redirect is on screen; the lock's pipeline under two faults, once a
completion names its flip.
