---------------------------- MODULE SeatKeyboard ----------------------------
(* Who has the keyboard of the seat: the window manager core's deferred      *)
(* intents (state.rs), exclusive and on-demand layer surfaces (layers.rs,    *)
(* input.rs), the whitelists of hyprland-focus-grab (focus_grab.rs), modal   *)
(* interface of the compositor (input/keyboard.rs) and the surfaces of a     *)
(* session lock with the ledger that ties them to outputs (lock.rs).         *)
(*                                                                           *)
(* The compositor is one thread.  Requests and input events run one by one;  *)
(* then dispatch_pending settles, in one Pass, what they left.  A commit of  *)
(* a layer surface settles the layers at once.                               *)
EXTENDS Integers, FiniteSets, Sequences, SequencesExt, Orders

CONSTANTS
  Windows,       \* toplevels, by their surface
  Layers,        \* layer surfaces
  Grabs,         \* hyprland_focus_grab_v1 objects
  LockSurfaces,
  Outputs,
  Whitelistable, \* bound: the surfaces a grab may name
  None,
  Gone,          \* a surface or a layer that is no more
  MaxEvents      \* bound: events of clients, user and core

ASSUME SeatAssumption ==
  /\ None # Gone /\ {None, Gone} \cap (Windows \cup Layers \cup LockSurfaces) = {}
  /\ Windows \cap Layers = {} /\ LockSurfaces \cap (Windows \cup Layers) = {}
  /\ Whitelistable \subseteq Windows \cup Layers
  /\ IsFiniteSet(Layers) /\ IsFiniteSet(Grabs) /\ IsFiniteSet(Outputs)
  /\ MaxEvents \in Nat

VARIABLES
  seat,    \* the compositor's state, as far as the keyboard depends on it
  settled, \* history: nothing happened since the last pass
  spent    \* events, of MaxEvents

vars == <<seat, settled, spent>>

Unbound == "unbound"   \* an X11 window that has no wl_surface yet
NoIntent == "noIntent"
Nothing == "nothing"

\* An intent names a window, or says that there is none.
ASSUME IntentAssumption == Windows \cap {NoIntent, Nothing} = {}

Bands == {"top", "overlay"}
Interactivity == {"none", "onDemand", "exclusive"}

LayerRecord == [
  id     : Layers,
  mapped : BOOLEAN,
  band   : Bands,
  asks   : Interactivity]

Grab == [
  id        : Grabs,
  staged    : Seq(Whitelistable),
  committed : Seq(Whitelistable)]

LockEntry == [
  surface : LockSurfaces,
  output  : Nat,           \* position in outputs, from 1; 0: none
  named   : Outputs]       \* history: the output it was created for

Seat == [
  kb        : Windows \cup Layers \cup LockSurfaces \cup {None, Gone},
  window    : [Windows -> {"absent", Unbound, "live"}],
  focused   : Windows \cup {None},                \* wm-core's focused client
  intent    : Windows \cup {NoIntent, Nothing},   \* pending_focus
  modal     : BOOLEAN,                            \* modal_keyboard_grabbed
  changed   : BOOLEAN,                            \* keyboard_grab_changed
  layers    : Seq(LayerRecord),                   \* oldest first
  hidden    : SUBSET Layers,                      \* hidden_layer_namespaces
  arrange   : BOOLEAN,                            \* needs_arrange, layer_layout_dirty
  exclusive : Layers \cup {None, Gone},           \* exclusive_focus
  onDemand  : Layers \cup {None, Gone},           \* on_demand_focus
  grabs     : Seq(Grab),
  active    : Nat,                                \* position in grabs; 0: none
  refocus   : BOOLEAN,
  held      : BOOLEAN,                            \* held_keyboard
  locked    : BOOLEAN,
  locker    : {"none", "alive", "dead"},
  confirmed : BOOLEAN,                            \* the locker was told `locked`
  missed    : BOOLEAN,                            \* history: an unlock served another
                                                  \* claimant than the one noted
  ledger    : Seq(LockEntry),                     \* lock_surfaces
  dirty     : BOOLEAN,                            \* refresh_dirty
  outputs   : Seq(Outputs),
  owed      : [Grabs -> Int]]                     \* history: starts not yet cleared

-----------------------------------------------------------------------------
(* Where the keyboard belongs.                                               *)

Presented(s) ==
  {i \in DOMAIN s.layers : s.layers[i].mapped /\ s.layers[i].id \notin s.hidden}

Present(s, l) == \E i \in DOMAIN s.layers : s.layers[i].id = l

\* exclusive_claimant: Overlay over Top, the newest of its band.
Claimant(s) ==
  LET claims(band) == {i \in Presented(s) : s.layers[i].asks = "exclusive"
                                              /\ s.layers[i].band = band}
      ranked == IF claims("overlay") # {} THEN claims("overlay") ELSE claims("top")
  IN IF ranked = {} THEN None
     ELSE s.layers[CHOOSE i \in ranked : \A j \in ranked : j <= i].id

Whitelist(s) == IF s.active = 0 THEN <<>> ELSE s.grabs[s.active].committed

Inside(s, surface) == Contains(Whitelist(s), surface)

\* focus_grab_target: stay inside, or the first entry.  Every entry is live.
GrabTarget(s) ==
  IF Inside(s, s.kb) THEN s.kb
  ELSE IF Whitelist(s) # <<>> THEN Head(Whitelist(s)) ELSE None

FocusedSurface(s) ==
  IF s.focused # None /\ s.window[s.focused] = "live" THEN s.focused ELSE None

WindowTarget(s) == IF s.modal THEN None ELSE FocusedSurface(s)

KeyboardTarget(s) ==
  CASE Claimant(s) # None -> Claimant(s)
    [] Claimant(s) = None /\ GrabTarget(s) # None -> GrabTarget(s)
    [] OTHER -> WindowTarget(s)

\* keyboard_fallback, when a grab ends.
Fallback(s) ==
  IF ~s.modal /\ Present(s, s.onDemand) THEN s.onDemand ELSE WindowTarget(s)

SetFocus(s, surface) == [s EXCEPT !.kb = surface]

-----------------------------------------------------------------------------
(* Focus grabs.                                                              *)

Inert(g) == [id |-> g, staged |-> <<>>, committed |-> <<>>]

\* The event is sent, once per start.
Cleared(s, g) == [s EXCEPT !.owed[g] = @ - 1]

\* clear_active, Whitelist::finish.
ClearActive(s) ==
  IF s.active = 0 THEN s
  ELSE Cleared([s EXCEPT !.grabs[s.active] = Inert(s.grabs[s.active].id),
                         !.active = 0, !.refocus = TRUE],
               s.grabs[s.active].id)

CommitKeeping(s, i) ==  \* mutant: the grab superseded stays armed
  LET g == s.grabs[i]
      committed == [s EXCEPT !.grabs[i].committed = g.staged, !.refocus = TRUE]
  IN CASE g.staged = g.committed -> s
       [] g.staged # g.committed /\ g.staged = <<>> ->
            Cleared([committed EXCEPT !.active = IF @ = i THEN 0 ELSE @], g.id)
       [] OTHER -> [committed EXCEPT !.active = i,
                      !.owed[g.id] = IF g.committed = <<>> THEN @ + 1 ELSE @]

\* on_commit of the grab at i: unchanged, cleared, started, rewhitelisted.
\* A start clears the grab it supersedes.
Commit(s, i) ==
  LET g == s.grabs[i]
      committed(t) == [t EXCEPT !.grabs[i].committed = g.staged, !.refocus = TRUE]
  IN CASE g.staged = g.committed -> s
       [] g.staged # g.committed /\ g.staged = <<>> ->
            Cleared([committed(s) EXCEPT !.active = IF @ = i THEN 0 ELSE @], g.id)
       [] g.staged # g.committed /\ g.committed = <<>> ->
            [committed(ClearActive(s)) EXCEPT !.active = i, !.owed[g.id] = @ + 1]
       [] OTHER -> [committed(s) EXCEPT !.active = i]

\* Whitelist::finish after a retain: the last entry of a started grab went.
Ends(before, after) == before.committed # <<>> /\ after.committed = <<>>

\* Whitelist::retain without one surface.
Retained(g, surface) ==
  LET others == Whitelistable \ {surface}
      left == [g EXCEPT !.staged = Keep(@, others), !.committed = Keep(@, others)]
  IN IF Ends(g, left) THEN [left EXCEPT !.staged = <<>>] ELSE left

\* FocusGrab::surface_destroyed.
SurfaceDestroyed(s, surface) ==
  LET left == [i \in DOMAIN s.grabs |-> Retained(s.grabs[i], surface)]
      ended == {i \in DOMAIN s.grabs : Ends(s.grabs[i], left[i])}
      rewhitelisted == {i \in DOMAIN s.grabs :
                          left[i].committed # <<>> /\ left[i] # s.grabs[i]}
  IN [s EXCEPT !.grabs = left,
               !.active = IF @ \in ended THEN 0 ELSE @,
               !.refocus = @ \/ ended \cup rewhitelisted # {},
               !.owed = [g \in Grabs |-> IF \E i \in ended : s.grabs[i].id = g
                                         THEN @[g] - 1 ELSE @[g]],
               !.kb = IF @ = surface THEN Gone ELSE @]

-----------------------------------------------------------------------------
(* The steps of a pass, in their order.                                      *)

\* The core hears of a window that closed before anything else: it focuses
\* another one, or none.
FocusedClosed(s) == s.focused # None /\ s.window[s.focused] = "absent"

CoreSettles(s, next) ==
  IF FocusedClosed(s)
  THEN [s EXCEPT !.focused = next, !.intent = IF next = None THEN Nothing ELSE next]
  ELSE s

ApplyIntentUnparked(s) ==  \* mutant: an intent before its surface is lost
  LET surface == IF s.intent \in Windows /\ ~s.modal /\ s.window[s.intent] = "live"
                 THEN s.intent ELSE None
      taken == [s EXCEPT !.intent = NoIntent]
  IN CASE s.locked \/ s.intent = NoIntent -> s
       [] ~s.locked /\ (s.exclusive # None \/ s.active # 0) -> taken
       [] OTHER -> SetFocus(taken, surface)

ApplyIntentAnyway(s) ==  \* mutant: applied over whoever holds the seat
  LET surface == IF s.intent \in Windows /\ ~s.modal /\ s.window[s.intent] = "live"
                 THEN s.intent ELSE None
  IN IF s.locked \/ s.intent = NoIntent THEN s
     ELSE SetFocus([s EXCEPT !.intent = NoIntent], surface)

\* apply_pending_focus: parked under a lock or before the surface is bound,
\* dropped under an exclusive layer or a grab, applied otherwise.
ApplyIntent(s) ==
  LET parked == s.intent \in Windows /\ s.window[s.intent] = Unbound
      surface == IF s.intent \in Windows /\ ~s.modal /\ s.window[s.intent] = "live"
                 THEN s.intent ELSE None
      taken == [s EXCEPT !.intent = NoIntent]
  IN IF s.locked \/ s.intent = NoIntent \/ parked THEN s
     ELSE IF s.exclusive # None \/ s.active # 0 THEN taken
     ELSE SetFocus(taken, surface)

SyncKeyboardAnyway(s) ==  \* mutant: not deferred to the unlock
  LET t == [s EXCEPT !.exclusive = Claimant(s)]
  IN IF s.exclusive = Claimant(s) THEN t ELSE SetFocus(t, KeyboardTarget(t))

\* layers::sync_keyboard.
SyncKeyboard(s) ==
  LET t == [s EXCEPT !.exclusive = Claimant(s)]
  IN IF s.exclusive = Claimant(s) \/ s.locked THEN t
     ELSE SetFocus([t EXCEPT !.missed = FALSE], KeyboardTarget(t))

LayersRefresh(s) ==
  IF s.arrange THEN SyncKeyboard([s EXCEPT !.arrange = FALSE]) ELSE s

\* settle_keyboard.
SettleKeyboard(s) ==
  LET t == [s EXCEPT !.refocus = FALSE]
  IN CASE ~s.refocus -> s
       [] s.refocus /\ (s.locked \/ s.exclusive # None) -> t
       [] s.refocus /\ ~s.locked /\ s.exclusive = None /\ Whitelist(s) # <<>> ->
            SetFocus([t EXCEPT !.held = TRUE], GrabTarget(t))
       [] OTHER -> IF s.held THEN SetFocus([t EXCEPT !.held = FALSE], Fallback(t)) ELSE t

\* focus_grab::refresh: a lock ends the grab.
GrabRefresh(s) == SettleKeyboard(IF s.locked THEN ClearActive(s) ELSE s)

\* sync_modal_focus.
SyncModal(s) ==
  LET t == [s EXCEPT !.changed = FALSE]
  IN IF ~s.changed \/ s.locked \/ s.exclusive # None \/ s.active # 0 THEN t
     ELSE SetFocus(t, KeyboardTarget(t))

OnOutput(s) == {i \in DOMAIN s.ledger : s.ledger[i].output # 0}

Typeable(s, surface) == \E i \in OnOutput(s) : s.ledger[i].surface = surface

FirstOnOutput(s) ==
  IF OnOutput(s) = {} THEN None
  ELSE s.ledger[CHOOSE i \in OnOutput(s) : \A j \in OnOutput(s) : i <= j].surface

\* lock::refresh: the keyboard leaves a surface that is dead or off the screens.
LockRefresh(s) ==
  LET t == [s EXCEPT !.dirty = FALSE]
  IN IF ~s.locked \/ ~s.dirty \/ Typeable(s, s.kb) THEN t ELSE SetFocus(t, FirstOnOutput(s))

Passed(s, next) ==
  LockRefresh(SyncModal(GrabRefresh(LayersRefresh(ApplyIntent(CoreSettles(s, next))))))

Pass(next) ==
  /\ ~settled
  /\ next = seat.focused \/ FocusedClosed(seat)
  /\ next # None => seat.window[next] # "absent"
  /\ seat' = [Passed(seat, next) EXCEPT !.confirmed = seat.locker = "alive"]
  /\ settled' = TRUE
  /\ UNCHANGED spent

-----------------------------------------------------------------------------
(* Windows and the core.                                                     *)

Maps(w, as) ==
  /\ seat.window[w] = "absent" /\ w \notin {seat.focused, seat.intent}
  /\ seat' = [seat EXCEPT !.window[w] = as]

\* Xwayland ties a wl_surface to the window.
Binds(w) ==
  /\ seat.window[w] = Unbound
  /\ seat' = [seat EXCEPT !.window[w] = "live"]

Closes(w) ==
  /\ seat.window[w] # "absent"
  /\ seat' = SurfaceDestroyed([seat EXCEPT !.window[w] = "absent"], w)

\* set_input_focus, publish_active_window(None): for a change of focus only.
CoreFocuses(w) ==
  /\ w # seat.focused
  /\ w # None => seat.window[w] # "absent"
  /\ seat' = [seat EXCEPT !.focused = w, !.intent = IF w = None THEN Nothing ELSE w]

\* grab_keyboard, ungrab_keyboard; a capture's modal interface likewise.
ModalChanges ==
  seat' = [seat EXCEPT !.modal = ~@, !.changed = TRUE]

-----------------------------------------------------------------------------
(* Layer surfaces.                                                           *)

Unmapped(l, band) == [id |-> l, mapped |-> FALSE, band |-> band, asks |-> "none"]

NewLayer(l, band) ==
  /\ ~Present(seat, l)
  /\ seat' = [seat EXCEPT !.layers = Append(@, Unmapped(l, band))]

\* handle_commit, with the refresh it ends in.
LayerCommits(i, mapped, asks) ==
  seat' = LayersRefresh([seat EXCEPT !.layers[i].mapped = mapped,
                                     !.layers[i].asks = asks, !.arrange = TRUE])

LayerDestroyed(l) ==
  LET others == {record \in LayerRecord : record.id # l}
      gone(x) == IF x = l THEN Gone ELSE x
  IN /\ Present(seat, l)
     /\ seat' = SurfaceDestroyed(
          [seat EXCEPT !.layers = Keep(@, others), !.arrange = TRUE,
                       !.exclusive = gone(@), !.onDemand = gone(@)], l)

HideLayer(l) ==
  /\ Present(seat, l)
  /\ seat' = [seat EXCEPT !.hidden = IF l \in @ THEN @ \ {l} ELSE @ \cup {l}, !.arrange = TRUE]

-----------------------------------------------------------------------------
(* Presses of a button or a finger, never routed here while locked.          *)

\* claim_on_demand_focus.
Claim(s, l) ==
  LET accepts == \E i \in Presented(s) : s.layers[i].id = l /\ s.layers[i].asks # "none"
      t == [s EXCEPT !.onDemand = l]
  IN CASE ~accepts -> s
       [] accepts /\ s.exclusive # None -> t
       [] OTHER -> SetFocus(t, l)

\* release_on_demand_focus.
Release(s) ==
  LET t == [s EXCEPT !.onDemand = None]
  IN IF s.onDemand = None \/ s.exclusive # None THEN t ELSE SetFocus(t, FocusedSurface(t))

\* A press outside the whitelist is swallowed; one inside leaves the keyboard.
Press(s, x) ==
  CASE s.active # 0 /\ ~Inside(s, x) -> ClearActive(s)
    [] s.active # 0 /\ Inside(s, x) -> s
    [] s.active = 0 /\ x \in Layers -> Claim(s, x)
    [] OTHER -> Release(s)

Hit == {seat.layers[i].id : i \in Presented(seat)}
         \cup {w \in Windows : seat.window[w] = "live"} \cup {None}

Presses(x) ==
  /\ ~seat.locked
  /\ x \in Hit
  /\ seat' = Press(seat, x)

-----------------------------------------------------------------------------
(* Requests on a grab.                                                       *)

Alive(x) == IF x \in Windows THEN seat.window[x] = "live" ELSE Present(seat, x)

CreateGrab(g) ==
  /\ \A i \in DOMAIN seat.grabs : seat.grabs[i].id # g
  /\ seat' = [seat EXCEPT !.grabs = Append(@, Inert(g)),
                          !.owed[g] = 0]

\* add_surface ignores a surface staged already.
AddSurface(i, x) ==
  /\ Alive(x)
  /\ ~Contains(seat.grabs[i].staged, x)
  /\ seat' = [seat EXCEPT !.grabs[i].staged = Append(@, x)]

RemoveSurface(i, x) ==
  /\ Contains(seat.grabs[i].staged, x)
  /\ seat' = [seat EXCEPT !.grabs[i].staged = Keep(@, Whitelistable \ {x})]

CommitGrab(i) == seat' = Commit(seat, i)

ActiveAfterRemoveShift(active, i) ==  \* mutant: shifts whatever went
  IF active = i THEN 0 ELSE active - 1

ActiveAfterRemove(active, i) ==
  IF active = i THEN 0 ELSE IF active > i THEN active - 1 ELSE active

\* Destroying the object ends the grab and sends nothing.
DestroyGrab(i) ==
  seat' = [seat EXCEPT !.grabs = RemoveAt(@, i),
                       !.active = ActiveAfterRemove(@, i),
                       !.refocus = @ \/ seat.grabs[i].committed # <<>>,
                       !.owed[seat.grabs[i].id] = 0]

GrabRequest ==
  \/ \E g \in Grabs : CreateGrab(g)
  \/ \E i \in DOMAIN seat.grabs :
       \/ CommitGrab(i) \/ DestroyGrab(i)
       \/ \E x \in Whitelistable : AddSurface(i, x) \/ RemoveSurface(i, x)

-----------------------------------------------------------------------------
(* The session lock and its ledger.                                          *)

\* enter_lock_domain, for the first locker or for one that replaces a dead one.
Locks ==
  /\ ~seat.locked \/ seat.locker = "dead"
  /\ seat' = SetFocus([seat EXCEPT !.locked = TRUE, !.locker = "alive",
                                   !.confirmed = FALSE, !.ledger = <<>>, !.dirty = TRUE], None)

OutputAt(s, o) ==
  IF \E i \in DOMAIN s.outputs : s.outputs[i] = o
  THEN CHOOSE i \in DOMAIN s.outputs : s.outputs[i] = o ELSE 0

\* new_surface; a second one for the same output kills its client.
NewLockSurface(k, o) ==
  LET at == OutputAt(seat, o)
      first == at # 0 /\ OnOutput(seat) = {}
      t == [seat EXCEPT !.ledger = Append(@, [surface |-> k, output |-> at, named |-> o]),
                        !.dirty = TRUE]
  IN /\ seat.locked /\ seat.locker = "alive"
     /\ \A i \in DOMAIN seat.ledger :
          seat.ledger[i].surface # k /\ (at # 0 => seat.ledger[i].output # at)
     /\ seat' = IF first THEN SetFocus(t, k) ELSE t

LockSurfaceDies(k) ==
  LET others == {entry \in LockEntry : entry.surface # k}
  IN /\ \E i \in DOMAIN seat.ledger : seat.ledger[i].surface = k
     /\ seat' = [seat EXCEPT !.ledger = Keep(@, others), !.dirty = TRUE,
                             !.kb = IF @ = k THEN Gone ELSE @]

\* The connection goes, and every surface with it.
LockerDies ==
  /\ seat.locker = "alive"
  /\ seat' = [seat EXCEPT !.locker = "dead", !.confirmed = FALSE, !.ledger = <<>>,
                          !.dirty = @ \/ seat.ledger # <<>>,
                          !.kb = IF @ \in LockSurfaces THEN Gone ELSE @]

\* The claimant of the moment is served, whichever was noted last.
Unlocks ==
  /\ seat.locker = "alive" /\ seat.confirmed
  /\ seat' = LET t == [seat EXCEPT !.locked = FALSE, !.locker = "none",
                                   !.confirmed = FALSE, !.ledger = <<>>, !.dirty = FALSE,
                                   !.missed = seat.exclusive \notin {Claimant(seat), Gone}]
             IN SetFocus(t, KeyboardTarget(t))

ReindexKeeping(at, removed) ==  \* mutant: a later output keeps its old position
  IF at = removed THEN 0 ELSE at

\* reindex_after_removal.
Reindex(at, removed) ==
  IF at = removed THEN 0 ELSE IF at > removed THEN at - 1 ELSE at

\* Bound: outputs come and go under a lock; nothing else here looks at them.
OutputGoes(i) ==
  /\ seat.locked
  /\ seat' = [seat EXCEPT
       !.outputs = RemoveAt(@, i), !.dirty = TRUE, !.arrange = TRUE,
       !.ledger = [j \in DOMAIN seat.ledger |->
                     [seat.ledger[j] EXCEPT !.output = Reindex(seat.ledger[j].output, i)]]]

OutputComes(o) ==
  /\ seat.locked /\ OutputAt(seat, o) = 0
  /\ seat' = [seat EXCEPT !.outputs = Append(@, o), !.dirty = TRUE, !.arrange = TRUE]

LockRequest ==
  \/ Locks \/ LockerDies \/ Unlocks
  \/ \E k \in LockSurfaces : LockSurfaceDies(k) \/ \E o \in Outputs : NewLockSurface(k, o)

-----------------------------------------------------------------------------
\* A session under way: its windows mapped and one of them focused, its layer
\* surfaces not mapped yet, its grabs inert.  Bound: no band without a layer.
Init ==
  /\ settled = TRUE /\ spent = 0
  /\ \E w \in Windows, bands \in [1 .. Cardinality(Layers) -> Bands] :
       /\ Cardinality(Layers) > 1 => \A band \in Bands : \E i \in DOMAIN bands : bands[i] = band
       /\ seat = [kb |-> w, window |-> [v \in Windows |-> "live"], focused |-> w,
                  intent |-> NoIntent, modal |-> FALSE, changed |-> FALSE,
                  layers |-> [i \in 1 .. Cardinality(Layers) |->
                                Unmapped(SetToSeq(Layers)[i], bands[i])],
                  hidden |-> {}, arrange |-> FALSE, exclusive |-> None, onDemand |-> None,
                  grabs |-> [i \in DOMAIN SetToSeq(Grabs) |-> Inert(SetToSeq(Grabs)[i])],
                  active |-> 0, refocus |-> FALSE, held |-> FALSE,
                  locked |-> FALSE, locker |-> "none", confirmed |-> FALSE, missed |-> FALSE,
                  ledger |-> <<>>, dirty |-> FALSE,
                  outputs |-> SetToSeq(Outputs), owed |-> [g \in Grabs |-> 0]]

Event ==
  \/ \E w \in Windows :
       Maps(w, "live") \/ Maps(w, Unbound) \/ Binds(w) \/ Closes(w) \/ CoreFocuses(w)
  \/ CoreFocuses(None)
  \/ ModalChanges
  \/ \E l \in Layers :
       LayerDestroyed(l) \/ HideLayer(l) \/ \E band \in Bands : NewLayer(l, band)
  \/ \E i \in DOMAIN seat.layers :
       LayerCommits(i, FALSE, "none") \/ \E asks \in Interactivity : LayerCommits(i, TRUE, asks)
  \/ \E x \in Windows \cup Layers \cup {None} : Presses(x)
  \/ GrabRequest
  \/ LockRequest
  \/ \E i \in DOMAIN seat.outputs : OutputGoes(i)
  \/ \E o \in Outputs : OutputComes(o)

Next ==
  \/ \E next \in Windows \cup {None} : Pass(next)
  \/ Event /\ spent < MaxEvents /\ spent' = spent + 1 /\ settled' = FALSE

Spec == Init /\ [][Next]_vars

-----------------------------------------------------------------------------
(* Properties.                                                               *)

TypeOK == seat \in Seat /\ settled \in BOOLEAN /\ spent \in 0 .. MaxEvents

\* While the session is locked no step, a layer surface that appears under the
\* lock, a grab that ends, an intent of the core, an output that goes, leaves
\* the keyboard on anything but a surface of the locker; and after a pass a
\* locker with a surface on some screen has it on such a one, so that a password
\* can be typed (enter_lock_domain, lock::refresh, reindex_after_removal, and
\* every set_focus that looks at `locked` first).
LockOwnsKeyboard ==
  seat.locked =>
    /\ seat.kb \in LockSurfaces \cup {None, Gone}
    /\ settled /\ OnOutput(seat) # {} => Typeable(seat, seat.kb)

\* After a pass the keyboard is where the highest claim on it is: with the layer
\* surface that asks for it exclusively, else on the whitelist of the active
\* grab, although the core focuses windows, surfaces come and go, grabs start
\* and end and the session locks and unlocks without looking at either
\* (exclusive_claimant, sync_keyboard, settle_keyboard, unlock).  The claim of a
\* layer surface is honoured but after one event: an unlock that found another
\* claimant than the one noted, until sync_keyboard next notices a change.
ClaimsAreTypeable ==
  settled /\ ~seat.locked =>
    IF Claimant(seat) # None THEN seat.missed \/ seat.kb = Claimant(seat)
    ELSE seat.active # 0 => Inside(seat, seat.kb)

\* Each start of a grab is answered with `cleared` exactly once, and only the
\* grab in force is still owed it, whoever was superseded, destroyed or lost its
\* surfaces: a shell that waits for it neither hangs nor closes its next popout
\* (on_commit, Whitelist::settle, active_after_remove).
ClearedOnce ==
  \A i \in DOMAIN seat.grabs :
    seat.owed[seat.grabs[i].id] = IF i = seat.active THEN 1 ELSE 0

\* The ledger names outputs by position; after any removals an entry still
\* stands for the output its surface was made for (reindex_after_removal).
LedgerNamesItsOutput ==
  \A i \in DOMAIN seat.ledger : seat.ledger[i].output # 0 =>
    /\ seat.ledger[i].output \in DOMAIN seat.outputs
    /\ seat.outputs[seat.ledger[i].output] = seat.ledger[i].named

Free(s) == ~s.locked /\ Claimant(s) = None /\ s.active = 0 /\ ~s.modal

\* After a pass, when nothing outranks the windows and no intent is parked, a
\* window with the keyboard is the one the core focuses, and no window goes
\* without while the core focuses one (apply_pending_focus).
NoWrongWindow ==
  settled /\ Free(seat) /\ seat.intent = NoIntent /\ seat.kb \in Windows \cup {None} =>
    seat.kb = FocusedSurface(seat)
=============================================================================
