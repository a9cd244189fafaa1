--------------------------- MODULE WindowManager ---------------------------
(***************************************************************************)
(* Who is managed, where each window lives, what is on screen and who has  *)
(* the keyboard: the single-threaded core of crates/wm-core (manager.rs    *)
(* and manager/special.rs) on one output in Desktop mode, the mode with    *)
(* one workspace row.                                                      *)
(*                                                                         *)
(* The program dispatches one event to completion before it reads the next *)
(* one, so a step of this specification is a whole handler.  The state is  *)
(* one record, `wm', with a field for each field of the WindowManager      *)
(* struct that decides placement and focus; a handler is a function from   *)
(* that record to the next one, composed of the functions the code calls.  *)
(* `mapped' and `seat' are the backend's side: what it was last told to    *)
(* show and where it was last told to send the keyboard.                   *)
(*                                                                         *)
(* A definition marked `mutant' is the plausible slip in the definition    *)
(* that follows it; no action uses one.                                    *)
(*                                                                         *)
(* Left out: geometry, stacking, decoration, layouts, shading and the      *)
(* maximize/fullscreen family (Presentation), drags (DragGrab), Spaces.    *)
(***************************************************************************)
EXTENDS Integers, Sequences, FiniteSets, FiniteSetsExt, Orders

CONSTANTS
  NumClients,     \* slots of the client slotmap
  MaxWorkspaces,  \* MAX_WORKSPACES, 99 in the code
  SpecialNames,   \* names a special workspace can be asked for by
  MaxSpecials,    \* MAX_SPECIAL_WORKSPACES, 16 in the code
  MapRules,       \* window-rule decisions a map may carry
  Gestures,       \* the requests this instance of the user and clients make
  HideSpecialOnSwitch,  \* binds.hide_special_on_workspace_change
  FocusFollowsMouse,    \* FocusPolicy::FocusFollowsMouse
  NoSpecial       \* not a name: a client of no special workspace

GestureKinds == {"activate", "carry", "chrome", "cycle", "direct", "lock", "minimize",
                 "modal", "parent", "pin", "remodal", "remove", "reparent", "reuse",
                 "special", "urgent", "workspace"}

ASSUME NumClientsAssumption == NumClients \in Nat \ {0}
ASSUME MaxWorkspacesAssumption == MaxWorkspaces \in Nat \ {0}
ASSUME MaxSpecialsAssumption == MaxSpecials \in Nat
ASSUME NoSpecialAssumption == NoSpecial \notin SpecialNames
ASSUME SwitchesAssumption ==
  /\ Gestures \subseteq GestureKinds
  /\ HideSpecialOnSwitch \in BOOLEAN
  /\ FocusFollowsMouse \in BOOLEAN

VARIABLES
  wm,      \* the window manager and what it told its backend
  locked   \* Backend::session_locked

vars == <<wm, locked>>

NoClient == 0
NoWorkspace == -1
MaxTransientDepth == 8

Client == 1 .. NumClients
ClientOrNone == Client \cup {NoClient}
Workspace == 0 .. (MaxWorkspaces - 1)
SpecialOrNone == SpecialNames \cup {NoSpecial}

\* Where a `workspace' rule sends a fresh window.
RuleTarget == [kind : {"inherit"}]
         \cup [kind : {"numbered"}, to : Nat, silent : BOOLEAN]
         \cup [kind : {"special"}, to : SpecialNames, silent : BOOLEAN]

MapRule == [pin : BOOLEAN, noFocus : BOOLEAN, noActivate : BOOLEAN,
            noInitialFocus : BOOLEAN, target : RuleTarget]

ASSUME MapRulesAssumption == MapRules \subseteq MapRule

CycleSession == [open : BOOLEAN, order : Seq(Client), selected : Nat]
NoCycle == [open |-> FALSE, order |-> <<>>, selected |-> 0]

Desk == [
  live       : SUBSET Client,                 \* clients
  order      : Seq(Client),                   \* managed_order
  parent     : [Client -> ClientOrNone],
  workspace  : [Client -> Workspace],
  special    : [Client -> SpecialOrNone],
  minimized  : SUBSET Client,                 \* Lifecycle::Miniaturized
  sticky     : SUBSET Client,                 \* flags
  modal      : SUBSET Client,
  noFocus    : SUBSET Client,
  noActivate : SUBSET Client,
  urgent     : SUBSET Client,
  focused    : ClientOrNone,
  history    : Seq(Client),                   \* focus_history
  current    : Workspace,
  previous   : Workspace \cup {NoWorkspace},
  count      : 1 .. MaxWorkspaces,
  specials   : SUBSET SpecialNames,           \* the specials created so far
  members    : [SpecialNames -> Seq(Client)], \* their layout orders
  shown      : SpecialOrNone,                 \* special_shown, one output
  cycle      : CycleSession,
  mapped     : SUBSET Client,                 \* backend: surfaces on screen
  seat       : ClientOrNone,                  \* backend: keyboard focus asked for
  grabbed    : BOOLEAN]                       \* backend: keyboard_grabbed

-----------------------------------------------------------------------------
Without(s, c) == Keep(s, Client \ {c})
Slots == [i \in Client |-> i]
FirstIn(s, S) == FirstOf(s, S, NoClient)
LastIn(s, S) == LastOf(s, S, NoClient)

-----------------------------------------------------------------------------
(* What is on screen, and who may have the keyboard.                        *)

Placed(d, c) ==
  IF d.special[c] # NoSpecial
  THEN d.shown = d.special[c]
  ELSE d.workspace[c] = d.current \/ c \in d.sticky

Normal(d) == d.live \ d.minimized
OnScreen(d) == {c \in Normal(d) : Placed(d, c)}
Focusable(d) == OnScreen(d) \ d.noFocus
Switchable(d) == {c \in d.live \ d.noFocus : Placed(d, c)}

\* ordered_clients: most recently focused first, then slot order.
FocusOrder(d, S) ==
  Keep(Newest(d.history), S) \o Keep(Slots, S \ Elements(d.history))

Successor(d, losing) ==
  FirstIn(Newest(d.history) \o Slots, Focusable(d) \ {losing})

-----------------------------------------------------------------------------
(* Transient families.                                                      *)

\* The chain of parents above c, MaxTransientDepth links at most.
Ancestors(d, c) ==
  LET up[k \in 0 .. MaxTransientDepth] ==
        IF k = 0 THEN c
        ELSE LET below == up[k - 1] IN
             IF below = NoClient THEN NoClient ELSE d.parent[below]
  IN  {up[k] : k \in 0 .. MaxTransientDepth}

Family(d, root) == {root} \cup {c \in d.live : root \in Ancestors(d, c)}

\* The same clients in the order the code visits them: breadth first, the
\* children of one parent in slot order.
OnlyItself(d, root) == <<root>>                       \* mutant
FamilyOrder(d, root) ==
  LET family == Family(d, root)
      Children(c) == {k \in family : d.parent[k] = c}
      walk[i \in 0 .. NumClients] ==
        IF i = 0 THEN <<root>>
        ELSE LET seen == walk[i - 1] IN
             IF i > Len(seen) THEN seen
             ELSE seen \o Keep(Slots, Children(seen[i]) \ Elements(seen))
  IN  walk[NumClients]

ModalBlocker(d, c) ==
  LastIn(d.order, (Family(d, c) \ {c}) \cap Normal(d) \cap d.modal)

\* Option::unwrap_or.
OrElse(c, default) == IF c = NoClient THEN default ELSE c

Unblocked(d, c) == c                                  \* mutant
FocusTarget(d, c) == OrElse(ModalBlocker(d, c), c)

-----------------------------------------------------------------------------
(* Giving and losing the keyboard.                                          *)

Appended(history, c) == Append(history, c)            \* mutant
Remembered(history, c) == Append(Without(history, c), c)

FocusOn(d, c) ==
  IF c \notin Focusable(d) THEN d
  ELSE IF d.focused = c THEN [d EXCEPT !.seat = c]
  ELSE [d EXCEPT !.focused = c,
                 !.history = Remembered(@, c),
                 !.seat    = c,
                 !.urgent  = @ \ {c}]

FocusClient(d, c) == FocusOn(d, FocusTarget(d, c))
FocusIfAny(d, c) == IF c = NoClient THEN d ELSE FocusClient(d, c)

DropFocus(d) == [d EXCEPT !.focused = NoClient, !.seat = NoClient]
DropFocusOf(d, c) == IF d.focused = c THEN DropFocus(d) ELSE d

\* The keyboard passes to the heir, or to nobody when there is none.
HandOver(d, heir) == IF heir = NoClient THEN DropFocus(d) ELSE FocusClient(d, heir)

FocusSuccessorOf(d, losing) ==
  IF d.focused # losing THEN d ELSE HandOver(d, Successor(d, losing))

\* The client one step along an order from c, the first when c is not in it.
Neighbour(order, c, forward) ==
  LET n  == Len(order)
      at == {i \in DOMAIN order : order[i] = c}
  IN  IF n = 0 THEN NoClient
      ELSE IF at = {} THEN order[1]
      ELSE IF forward THEN order[(Min(at) % n) + 1]
      ELSE IF Min(at) = 1 THEN order[n] ELSE order[Min(at) - 1]

FocusAdjacent(d, forward) ==
  FocusIfAny(d, Neighbour(FocusOrder(d, Focusable(d)), d.focused, forward))

Show(d, S) == [d EXCEPT !.mapped = @ \cup S]
Hide(d, S) == [d EXCEPT !.mapped = @ \ S]

-----------------------------------------------------------------------------
(* Special workspaces.                                                      *)

LiveMembers(d, s) == Elements(d.members[s]) \cap Normal(d)

\* The member the user was last in, else the first that can have the keyboard.
RecentMember(d, s) ==
  FirstIn(Newest(d.history) \o d.members[s], LiveMembers(d, s) \cap Focusable(d))

HideMembersOnly(d, s) == Hide(d, LiveMembers(d, s))   \* mutant
HideMembers(d, s) ==
  IF d.focused \in LiveMembers(d, s)
  THEN FocusSuccessorOf(Hide(d, LiveMembers(d, s)), d.focused)
  ELSE Hide(d, LiveMembers(d, s))

HideSpecial(d) ==
  IF d.shown = NoSpecial THEN d
  ELSE HideMembers([d EXCEPT !.shown = NoSpecial], d.shown)

ShowMembers(d, s) == Show(d, LiveMembers(d, s))
FocusMember(d, s) == FocusIfAny(d, RecentMember(d, s))

ShowSpecial(d, s) ==
  LET here == [d EXCEPT !.shown = s]
      free == IF d.shown \in {NoSpecial, s} THEN here ELSE HideMembers(here, d.shown)
  IN  FocusMember(ShowMembers(free, s), s)

CanCreate(d, s) == s \in d.specials \/ Cardinality(d.specials) < MaxSpecials
Create(d, s) == [d EXCEPT !.specials = @ \cup {s}]

LeaveSpecialOnly(d, c) == [d EXCEPT !.special[c] = NoSpecial]   \* mutant
LeaveSpecial(d, c) ==
  IF d.special[c] = NoSpecial THEN d
  ELSE [d EXCEPT !.special[c] = NoSpecial, !.members[d.special[c]] = Without(@, c)]

-----------------------------------------------------------------------------
(* The per-window half of the family operations.                            *)

MiniaturizeOne(d, c) ==
  IF c \notin Normal(d) THEN d
  ELSE FocusSuccessorOf(Hide([d EXCEPT !.minimized = @ \cup {c}], {c}), c)

PastTheLast(w) == w > MaxWorkspaces                   \* mutant
TooFar(w) == w >= MaxWorkspaces

Grown(d, w) == [d EXCEPT !.count = IF w + 1 > @ THEN w + 1 ELSE @]
Homed(d, c, w) == [d EXCEPT !.workspace[c] = w]

\* To a workspace that is not on screen: the neighbour takes the keyboard
\* first, and nobody has it when the neighbour could not.
SentAway(d, c, w) ==
  LET given == IF d.focused = c THEN FocusAdjacent(d, TRUE) ELSE d
  IN  DropFocusOf(Hide(Homed(given, c, w), {c}), c)

MoveOneToWorkspace(d, c, w) ==
  LET left == d.special[c] # NoSpecial
      out  == LeaveSpecial(Grown(d, w), c)
  IN  IF TooFar(w) THEN d
      ELSE IF d.workspace[c] = w /\ ~left THEN Grown(d, w)
      ELSE IF w # d.current /\ c \notin d.sticky THEN SentAway(out, c, w)
      ELSE IF left /\ c \in Normal(d) THEN Show(Homed(out, c, w), {c})
      ELSE Homed(out, c, w)

MoveOneToSpecial(d, c, s) ==
  LET out == LeaveSpecial(d, c)
      in  == [out EXCEPT !.special[c] = s, !.members[s] = Append(@, c)]
  IN  IF d.special[c] = s THEN d
      ELSE IF d.shown = s THEN IF c \in Normal(d) THEN Show(in, {c}) ELSE in
      ELSE Hide(FocusSuccessorOf(in, c), {c})

DeminiaturizeOne(d, c) ==
  LET up == MoveOneToWorkspace([d EXCEPT !.minimized = @ \ {c}], c, d.current) IN
  IF c \notin d.minimized THEN d ELSE FocusClient(Show(up, {c}), c)

-----------------------------------------------------------------------------
(* The loops over a family, decided before the first member moves.          *)

Step(op, d, c) ==
  CASE op.kind = "miniaturize"   -> MiniaturizeOne(d, c)
    [] op.kind = "deminiaturize" -> DeminiaturizeOne(d, c)
    [] op.kind = "workspace"     -> MoveOneToWorkspace(d, c, op.to)
    [] op.kind = "special"       -> MoveOneToSpecial(d, c, op.to)

ForEach(op, d, family) ==
  LET after[i \in 0 .. Len(family)] ==
        IF i = 0 THEN d ELSE Step(op, after[i - 1], family[i])
  IN  after[Len(family)]

ForFamily(op, d, c) == ForEach(op, d, FamilyOrder(d, c))

ToWorkspace(w) == [kind |-> "workspace", to |-> w]
ToSpecial(s) == [kind |-> "special", to |-> s]
ToIcon == [kind |-> "miniaturize"]
FromIcon == [kind |-> "deminiaturize"]

Followed(d, c, s, follow) == IF follow THEN FocusClient(ShowSpecial(d, s), c) ELSE d

MoveToSpecial(d, c, s, follow) ==
  Followed(ForFamily(ToSpecial(s), Create(d, s), c), c, s, follow)

-----------------------------------------------------------------------------
(* Workspaces.                                                              *)

Entered(d, w) == [Grown(d, w) EXCEPT !.previous = d.current, !.current = w]
Redrawn(d) == [d EXCEPT !.mapped = (@ \ Normal(d)) \cup OnScreen(d)]

\* After a switch the focused client keeps the keyboard if it is still in
\* sight, else `arriving' takes it, else the ordinary successor.
KeyboardFor(d, arriving) ==
  IF d.focused # NoClient /\ Placed(d, d.focused) THEN d
  ELSE IF arriving \in Focusable(d) THEN FocusClient(d, arriving)
  ELSE IF d.focused # NoClient THEN FocusSuccessorOf(d, d.focused)
  ELSE FocusIfAny(d, Successor(d, NoClient))

\* switch_workspace_to_focus.
SwitchTo(d, w, arriving) ==
  LET bare == IF HideSpecialOnSwitch THEN HideSpecial(d) ELSE d
  IN  IF TooFar(w) \/ w = d.current THEN d
      ELSE KeyboardFor(Redrawn(Entered(bare, w)), arriving)

HasWindows(d, w) == \E c \in d.live : d.workspace[c] = w /\ d.special[c] = NoSpecial

\* occupied_workspace_step: NoWorkspace when there is nowhere to go.
OccupiedStep(d, delta) ==
  LET row == Keep([i \in 1 .. d.count |-> i - 1],
                  {w \in Workspace : w = d.current \/ HasWindows(d, w)})
      at  == {i \in DOMAIN row : row[i] = d.current}
  IN  IF at = {} \/ Len(row) < 2 THEN NoWorkspace
      ELSE row[(((CHOOSE i \in at : TRUE) - 1 + delta) % Len(row)) + 1]

\* Where index i ends up once workspace w is gone: w merges into the one below.
Shifted(w, i) == IF i > w THEN i - 1 ELSE i             \* mutant
Remap(w, i) == IF i > w \/ (i = w /\ w > 0) THEN i - 1 ELSE i

Merged(d, w) ==
  [d EXCEPT !.current   = Remap(w, @),
            !.previous  = IF @ \in {w, NoWorkspace} THEN NoWorkspace ELSE Remap(w, @),
            !.count     = @ - 1,
            !.workspace = [c \in Client |-> Remap(w, @[c])]]

\* The windows the merge brings to the workspace on screen.
Revealed(d, merged) ==
  {c \in Normal(d) \ d.sticky :
     /\ d.special[c] = NoSpecial
     /\ d.workspace[c] # d.current
     /\ merged.workspace[c] = merged.current}

FocusSomebody(d) ==
  IF d.focused = NoClient THEN FocusIfAny(d, Successor(d, NoClient)) ELSE d

WithoutWorkspace(d, w) ==
  FocusSomebody(Show(Merged(d, w), Revealed(d, Merged(d, w))))

-----------------------------------------------------------------------------
(* Activation and the Alt-Tab session.                                      *)

\* Brings client c, a focus target, on screen.
BroughtWithDetour(d, c) ==                             \* mutant
  IF c \notin Normal(d) \/ Placed(d, c) THEN d
  ELSE IF d.special[c] # NoSpecial THEN ShowSpecial(d, d.special[c])
  ELSE SwitchTo(d, d.workspace[c], NoClient)
Brought(d, c) ==
  IF c \notin Normal(d) \/ Placed(d, c) THEN d
  ELSE IF d.special[c] # NoSpecial THEN ShowSpecial(d, d.special[c])
  ELSE SwitchTo(d, d.workspace[c], c)

BringIntoView(d, c) == Brought(d, FocusTarget(d, c))
Restored(d, c) == IF c \in d.minimized THEN ForFamily(FromIcon, d, c) ELSE d
Presented(d, c) == FocusClient(BringIntoView(Restored(d, c), c), c)

ActivateEvenLocked(d, c) == IF c \in d.noActivate THEN d ELSE Presented(d, c)   \* mutant
ActivateClient(d, c) ==
  IF c \in d.noActivate THEN d
  ELSE IF locked /\ ~Placed(d, FocusTarget(d, c))
  THEN [d EXCEPT !.urgent = @ \cup {c}]
  ELSE Presented(d, c)

\* cycle_step: the first press snapshots the candidates, every press moves.
Opened(d, order, delta) ==
  [open |-> TRUE, order |-> order,
   selected |-> IF d.focused # NoClient \/ delta < 0 THEN 0 ELSE Len(order) - 1]

Turned(d, session, delta) ==
  IF session.order = <<>> THEN d
  ELSE [d EXCEPT !.cycle = [session EXCEPT !.selected = (@ + delta) % Len(session.order)],
                 !.grabbed = TRUE]

CycleBy(d, delta) ==
  Turned(d, IF d.cycle.open THEN d.cycle
            ELSE Opened(d, FocusOrder(d, Switchable(d)), delta), delta)

CycleClosed(d) == [d EXCEPT !.cycle = NoCycle, !.grabbed = FALSE]

CycleCommitted(d) == Presented(CycleClosed(d), d.cycle.order[d.cycle.selected + 1])

-----------------------------------------------------------------------------
(* Arrival and departure.                                                   *)

\* A client as handle_map_request first tracks it: on its parent's workspace.
Fresh(d, c, p, modal, rule) ==
  [d EXCEPT
     !.live          = @ \cup {c},
     !.order         = Append(@, c),
     !.parent[c]     = p,
     !.workspace[c]  = IF p = NoClient THEN d.current ELSE d.workspace[p],
     !.sticky        = IF rule.pin THEN @ \cup {c} ELSE @,
     !.modal         = IF modal THEN @ \cup {c} ELSE @,
     !.noFocus       = IF rule.noFocus THEN @ \cup {c} ELSE @,
     !.noActivate    = IF rule.noActivate THEN @ \cup {c} ELSE @,
     !.mapped        = @ \cup {c}]

\* A child of a special's member joins that special.
Inherited(d, c, p) ==
  IF p = NoClient THEN d
  ELSE IF d.special[p] = NoSpecial THEN d
  ELSE MoveOneToSpecial(d, c, d.special[p])

Silent(target) == target.kind # "inherit" /\ target.silent

\* Where the `workspace' rule, or inheritance, puts a fresh client.
Settled(d, c, p, target) ==
  CASE target.kind = "numbered" ->
         LET moved == ForFamily(ToWorkspace(target.to), d, c)
         IN  IF target.silent THEN moved ELSE SwitchTo(moved, target.to, c)
    [] target.kind = "special" /\ CanCreate(d, target.to) ->
         MoveToSpecial(d, c, target.to, ~target.silent)
    [] OTHER -> Inherited(d, c, p)

MapClient(d, c, p, modal, rule) ==
  LET homed == Settled(Fresh(d, c, p, modal, rule), c, p, rule.target)
  IN  IF rule.noInitialFocus \/ rule.noFocus \/ Silent(rule.target)
      THEN homed ELSE FocusClient(homed, c)

CycleKept(d, c) == d                                   \* mutant
CycleWithout(d, c) ==
  LET order == Without(d.cycle.order, c) IN
  IF ~d.cycle.open THEN d
  ELSE IF order = <<>> THEN CycleClosed(d)
  ELSE [d EXCEPT !.cycle.order = order,
                 !.cycle.selected = IF @ > Len(order) - 1 THEN Len(order) - 1 ELSE @]

Erased(d, c) ==
  [d EXCEPT
     !.live         = @ \ {c},
     !.order        = Without(@, c),
     !.parent       = [k \in Client |-> IF k = c \/ @[k] = c THEN NoClient ELSE @[k]],
     !.workspace[c] = 0,
     !.special[c]   = NoSpecial,
     !.minimized    = @ \ {c},
     !.sticky       = @ \ {c},
     !.modal        = @ \ {c},
     !.noFocus      = @ \ {c},
     !.noActivate   = @ \ {c},
     !.urgent       = @ \ {c},
     !.focused      = IF @ = c THEN NoClient ELSE @,
     !.history      = Without(@, c),
     !.members      = [s \in SpecialNames |-> Without(@[s], c)],
     !.mapped       = @ \ {c}]

\* Who inherits the keyboard of a client of special s (or of none) that is
\* gone: another member while its overlay is shown, else the successor.
Heir(d, s) ==
  OrElse(IF s = NoSpecial \/ d.shown # s THEN NoClient ELSE RecentMember(d, s),
         Successor(d, NoClient))

Inheriting(d, s) == HandOver(d, Heir(d, s))

Forgotten(d, c) ==
  CycleWithout(IF d.focused = c THEN Inheriting(Erased(d, c), d.special[c])
               ELSE Erased(d, c), c)

-----------------------------------------------------------------------------
(* Late changes to a window.                                                *)

PinnedInPlace(d, c, on) ==                             \* mutant
  LET set == [d EXCEPT !.sticky = IF on THEN @ \cup {c} ELSE @ \ {c}] IN
  IF on THEN Show(set, {c}) ELSE set
Pinned(d, c, on) ==
  LET set == [d EXCEPT !.sticky = IF on THEN @ \cup {c} ELSE @ \ {c}] IN
  IF (c \in d.sticky) = on THEN d
  ELSE IF c \notin OnScreen(set) THEN Hide(FocusSuccessorOf(set, c), {c})
  ELSE IF on THEN Show(set, {c}) ELSE set

Reparented(d, c, p) ==
  LET set == [d EXCEPT !.parent[c] = p] IN
  IF d.parent[c] = p \/ p = NoClient THEN set
  ELSE IF d.special[p] # NoSpecial THEN ForFamily(ToSpecial(d.special[p]), set, c)
  ELSE ForFamily(ToWorkspace(d.workspace[p]), set, c)

ModalSet(d, c, on) ==
  LET set == [d EXCEPT !.modal = IF on THEN @ \cup {c} ELSE @ \ {c}] IN
  IF (c \in d.modal) = on \/ ~on THEN set ELSE FocusClient(set, c)

-----------------------------------------------------------------------------
(* The events: each is one dispatch, run to completion.                     *)

Dispatched(d) == wm' = d /\ UNCHANGED locked

\* The slotmap reuses the slots of the dead; without "reuse" an instance only
\* ever fills the lowest one free.
FreshSlot(c) == c \notin wm.live /\ ("reuse" \in Gestures \/ 1 .. (c - 1) \subseteq wm.live)

MapRequest(c, p, modal, rule) ==
  /\ FreshSlot(c)
  /\ p \in wm.live \cup {NoClient}
  /\ p # NoClient => "parent" \in Gestures
  /\ modal => "modal" \in Gestures
  /\ Dispatched(MapClient(wm, c, p, modal, rule))

Forget(c) == c \in wm.live /\ Dispatched(Forgotten(wm, c))

\* A press on the frame or the content of a window the user can point at.
Click(c) == c \in wm.mapped /\ Dispatched(FocusClient(wm, FocusTarget(wm, c)))

PointerEnter(c) ==
  FocusFollowsMouse /\ c \in wm.mapped /\ Dispatched(FocusClient(wm, c))

\* IPC's focus without raise; focus_direction and focus_output end here too.
FocusRequest(c) ==
  "direct" \in Gestures /\ c \in wm.live /\ Dispatched(FocusClient(wm, c))

FocusNext(forward) == "direct" \in Gestures /\ Dispatched(FocusAdjacent(wm, forward))

Activate(c) == "activate" \in Gestures /\ c \in wm.live /\ Dispatched(ActivateClient(wm, c))

Miniaturize(c) ==
  "minimize" \in Gestures /\ c \in wm.live /\ Dispatched(ForFamily(ToIcon, wm, c))

Deminiaturize(c) ==
  "minimize" \in Gestures /\ c \in wm.live /\ Dispatched(ForFamily(FromIcon, wm, c))

SwitchWorkspace(w) == "workspace" \in Gestures /\ Dispatched(SwitchTo(wm, w, NoClient))

SwitchToPrevious ==
  /\ "workspace" \in Gestures
  /\ wm.previous \in (0 .. wm.count - 1) \ {wm.current}
  /\ Dispatched(SwitchTo(wm, wm.previous, NoClient))

SwitchToOccupied(delta) ==
  /\ "workspace" \in Gestures
  /\ OccupiedStep(wm, delta) # NoWorkspace
  /\ Dispatched(SwitchTo(wm, OccupiedStep(wm, delta), NoClient))

RemoveWorkspace(w) ==
  /\ "remove" \in Gestures
  /\ wm.count > 1 /\ w < wm.count
  /\ Dispatched(WithoutWorkspace(wm, w))

MoveToWorkspace(c, w) ==
  /\ "workspace" \in Gestures /\ c \in wm.live
  /\ Dispatched(ForFamily(ToWorkspace(w), wm, c))

\* Move, switch, activate: the three verbs of carry_focused_to_workspace.
CarryFocused(w) ==
  /\ "carry" \in Gestures /\ wm.focused # NoClient
  /\ LET moved == ForFamily(ToWorkspace(w), wm, wm.focused)
     IN  Dispatched(ActivateClient(SwitchTo(moved, w, NoClient), wm.focused))

ToggleSpecial(s) ==
  /\ "special" \in Gestures /\ CanCreate(wm, s)
  /\ Dispatched(IF wm.shown = s THEN HideSpecial(wm) ELSE ShowSpecial(Create(wm, s), s))

MoveClientToSpecial(c, s, follow) ==
  /\ "special" \in Gestures /\ c \in wm.live /\ CanCreate(wm, s)
  /\ Dispatched(MoveToSpecial(wm, c, s, follow))

\* The user's binding and the IPC request call set_client_pinned as it is; a
\* client's own request (apply_pin_action) does too unless a rule refuses it,
\* and so adds no step.
SetPinned(c, on) == "pin" \in Gestures /\ c \in wm.live /\ Dispatched(Pinned(wm, c, on))

\* The bell, EWMH attention and a refused activation.
SetUrgent(c, on) ==
  /\ "urgent" \in Gestures /\ c \in wm.live
  /\ Dispatched([wm EXCEPT !.urgent = IF on THEN @ \cup {c} ELSE @ \ {c}])

ParentChanged(c, p) ==
  /\ "reparent" \in Gestures
  /\ c \in wm.live /\ p \in (wm.live \cup {NoClient}) \ {c}
  /\ Dispatched(Reparented(wm, c, p))

ModalChanged(c, on) == "remodal" \in Gestures /\ c \in wm.live /\ Dispatched(ModalSet(wm, c, on))

\* handle_chrome_changed restates what the window's place says.
ChromeChanged(c) ==
  /\ "chrome" \in Gestures /\ c \in wm.live
  /\ Dispatched(IF c \in OnScreen(wm) THEN Show(wm, {c}) ELSE Hide(wm, {c}))

\* Tab with Alt or Shift held.
CycleStep(delta) == "cycle" \in Gestures /\ Dispatched(CycleBy(wm, delta))

CycleCancel == wm.cycle.open /\ Dispatched(CycleClosed(wm))

\* Alt released, or any key without it once the release was lost.
CycleCommit == wm.cycle.open /\ Dispatched(CycleCommitted(wm))

LockChanges == "lock" \in Gestures /\ locked' = ~locked /\ UNCHANGED wm

Init ==
  /\ wm = [live       |-> {}, order |-> <<>>,
            parent     |-> [c \in Client |-> NoClient],
            workspace  |-> [c \in Client |-> 0],
            special    |-> [c \in Client |-> NoSpecial],
            minimized  |-> {}, sticky |-> {}, modal |-> {},
            noFocus    |-> {}, noActivate |-> {}, urgent |-> {},
            focused    |-> NoClient, history |-> <<>>,
            current    |-> 0, previous |-> NoWorkspace, count |-> 1,
            specials   |-> {}, members |-> [s \in SpecialNames |-> <<>>],
            shown      |-> NoSpecial, cycle |-> NoCycle,
            mapped     |-> {}, seat |-> NoClient, grabbed |-> FALSE]
  /\ locked = FALSE

ClientEvent(c) ==
  \/ \E p \in ClientOrNone, modal \in BOOLEAN, rule \in MapRules : MapRequest(c, p, modal, rule)
  \/ Forget(c)
  \/ Activate(c)
  \/ ChromeChanged(c)
  \/ \E on \in BOOLEAN : SetUrgent(c, on) \/ ModalChanged(c, on)
  \/ \E p \in ClientOrNone : ParentChanged(c, p)

UserEvent(c) ==
  \/ Click(c) \/ PointerEnter(c) \/ FocusRequest(c)
  \/ Miniaturize(c) \/ Deminiaturize(c)
  \/ \E w \in 0 .. MaxWorkspaces : MoveToWorkspace(c, w)
  \/ \E s \in SpecialNames, follow \in BOOLEAN : MoveClientToSpecial(c, s, follow)
  \/ \E on \in BOOLEAN : SetPinned(c, on)

DeskEvent ==
  \/ \E forward \in BOOLEAN : FocusNext(forward)
  \/ \E w \in 0 .. MaxWorkspaces : SwitchWorkspace(w) \/ RemoveWorkspace(w) \/ CarryFocused(w)
  \/ SwitchToPrevious
  \/ \E delta \in {-1, 1} : SwitchToOccupied(delta) \/ CycleStep(delta)
  \/ \E s \in SpecialNames : ToggleSpecial(s)
  \/ CycleCancel \/ CycleCommit
  \/ LockChanges

Next == DeskEvent \/ \E c \in Client : ClientEvent(c) \/ UserEvent(c)

Spec == Init /\ [][Next]_vars

-----------------------------------------------------------------------------
(* Properties.  Each comment names the promise and the code that makes it.  *)

\* The state is well typed: every index, id and flag is in its range, so no
\* handler ever stores a workspace past MAX_WORKSPACES or a client twice freed.
TypeOK == wm \in Desk /\ locked \in BOOLEAN

\* focus_history is a most-recently-used list: live clients only, each once,
\* and the focused client is always its newest entry (forget and
\* focus_client_with, its two writers).
TrueHistory(d) ==
  /\ Elements(d.history) \subseteq d.live
  /\ Distinct(d.history)
  /\ d.focused # NoClient =>
       d.history # <<>> /\ d.history[Len(d.history)] = d.focused
HistoryWellFormed == TrueHistory(wm)

\* "Keyboard focus follows what is on screen, never the other way round"
\* (focus_client_with): the focused window is Normal and on the screen.
FocusedOnScreen ==
  wm.focused # NoClient => wm.focused \in OnScreen(wm)

\* No ghosts: a window whose place is not on screen has no mapped surface
\* (what handle_workspace_change and switch_workspace_to_focus hide).
NothingLeftMapped == wm.mapped \subseteq OnScreen(wm)

\* A handler that takes the keyboard from the focused window, or that enters
\* another workspace, leaves it with nobody only when nobody on screen can take
\* it (focus_successor_of, move_one_client_to_workspace, switch_workspace_to_focus,
\* remove_workspace).
NoStrandedKeyboard ==
  [][wm'.focused = NoClient /\ (wm.focused # NoClient \/ wm'.current # wm.current)
       => Focusable(wm') = {}]_vars

\* The switcher session and the keyboard grab come and go together, and an
\* open session offers living windows only, each once, with a valid selection,
\* whatever closes while it is up (cycle_step, cycle_end, forget).
CycleHonest ==
  /\ wm.cycle.open = wm.grabbed
  /\ wm.cycle.open =>
       /\ wm.cycle.selected < Len(wm.cycle.order)
       /\ Elements(wm.cycle.order) \subseteq wm.live
       /\ Distinct(wm.cycle.order)

\* Every stored workspace index names a workspace the row still has, across
\* removals that renumber the row (remove_workspace).
WorkspacesInRange ==
  /\ wm.current < wm.count
  /\ wm.previous < wm.count
  /\ \A c \in wm.live : wm.workspace[c] < wm.count

\* A client's special workspace and that special's layout order agree: in it
\* exactly once when it belongs to it, and not at all otherwise.
SpecialMembership ==
  \A s \in SpecialNames, c \in Client :
    Cardinality({i \in DOMAIN wm.members[s] : wm.members[s][i] = c})
      = IF c \in wm.live /\ wm.special[c] = s THEN 1 ELSE 0

\* Behind the lock screen an activation only marks its target urgent: it never
\* changes the workspace or the special shown underneath (activate_window).
LockKeepsDesktop ==
  [][locked /\ <<wm'.current, wm'.shown>> # <<wm.current, wm.shown>>
       => ~ \E c \in Client : Activate(c)]_vars

\* Nobody is given the keyboard over a live modal dialog of its family, except
\* another dialog (focus_client_with redirects to modal_blocker once, to the
\* last dialog mapped, whatever dialogs that one has).
ModalKeepsKeyboard ==
  [][wm'.focused \notin wm'.modal \cup {wm.focused, NoClient}
       => ModalBlocker(wm', wm'.focused) = NoClient]_vars

\* An activation moves its own target to the head of the history and no other
\* window, wherever the target was (bring_workspace_into_view hands the
\* arriving client to the switch so that no bystander is focused on the way).
ActivationWithoutDetour ==
  [][Without(wm'.history, wm'.focused) # Without(wm.history, wm'.focused)
       => ~ \E c \in Client : Activate(c)]_vars

\* Two windows are filed in the same special, or on the same workspace.
Together(d, a, b) ==
  /\ d.special[a] = d.special[b]
  /\ d.special[b] = NoSpecial => d.workspace[a] = d.workspace[b]

\* The dialogs that are not where their parents are, with those parents.
Apart(d) ==
  {<<c, d.parent[c]>> : c \in {k \in d.live : d.parent[k] # NoClient
                                            /\ ~Together(d, k, d.parent[k])}}

\* The requests that file the window they name and leave its parent behind:
\* transient_family walks down from it.
Named(c) ==
  \/ \E w \in 0 .. MaxWorkspaces : MoveToWorkspace(c, w)
  \/ wm.focused = c /\ \E w \in 0 .. MaxWorkspaces : CarryFocused(w)
  \/ \E s \in SpecialNames, follow \in BOOLEAN : MoveClientToSpecial(c, s, follow)
  \/ \E p \in ClientOrNone, modal \in BOOLEAN, rule \in MapRules :
       rule.target.kind # "inherit" /\ MapRequest(c, p, modal, rule)
  \/ c \in wm.minimized /\ (Deminiaturize(c) \/ Activate(c) \/ CycleCommit)

\* A dialog comes to be apart from its parent only by a request that names the
\* dialog itself, or while one of the two is an icon and the other is not.  To
\* move, restore, activate or close any other window, the parent, one further
\* up or one further down included, to remove a workspace, or to give the
\* dialog a parent, parts none from its parent (transient_family,
\* handle_map_request, handle_parent_changed).
DialogsFollow ==
  [][\A c, p \in Client :
       <<c, p>> \in Apart(wm') \ Apart(wm)
         => Named(c) \/ (c \in wm.minimized) # (p \in wm.minimized)]_vars

=============================================================================
