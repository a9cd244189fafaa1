------------------------- MODULE WindowFocus_proofs -------------------------
(***************************************************************************)
(* Who has the keyboard among the windows of the core, for any windows,    *)
(* workspaces, overlays and rules.  On top of the inductive invariant of   *)
(* WindowManager_proofs, in six layers that follow the calls of the        *)
(* core:                                                                   *)
(*   kin     who belongs to whom, and who is modal, stays as it is under   *)
(*           every helper that moves, shows, hides or focuses windows      *)
(*           (SameKin, Akin, and the lemmas *Kin);                         *)
(*   sight   the focused window stays on screen while no dialog is modal,  *)
(*           or while there are no families (Free, InSight, *Aware and     *)
(*           *InSight);                                                    *)
(*   manned  nobody who could have the keyboard is left without it         *)
(*           (Manned, Minds, NotLost);                                     *)
(*   light   an activation moves no window but its target in the focus     *)
(*           history (Light);                                              *)
(*   follow  a family moves as one: the order in which the code visits it  *)
(*           holds every descendant, each is filed where its root is, and  *)
(*           nobody else moves, so that only the window a request names    *)
(*           can part from its parent (Filed, Steady, Household);          *)
(*   heed    whoever a step gives the keyboard to is modal, or no modal    *)
(*           dialog of its family is up (Heeded, Calm, Heeding).           *)
(***************************************************************************)
EXTENDS WindowManager_proofs

-----------------------------------------------------------------------------
(* Kin.  No handler changes who belongs to whom, nor who is modal, but the   *)
(* arrival and the departure of a window and the two requests about it.      *)

\* A good record with the families that k has.
Akin(was, k, d) == Good(was, d) /\ SameKin(k, d)

\* Every assignment to other fields leaves the families alone.
LEMMA FieldsKin ==
  ASSUME NEW d \in Desk, NEW x, NEW y
  PROVE  /\ SameKin(d, d) /\ SameKin(d, DropFocus(d)) /\ SameKin(d, Hide(d, x))
         /\ SameKin(d, [d EXCEPT !.shown = x]) /\ SameKin(d, [d EXCEPT !.minimized = x])
         /\ SameKin(d, [d EXCEPT !.sticky = x]) /\ SameKin(d, [d EXCEPT !.urgent = x])
         /\ SameKin(d, [d EXCEPT !.cycle = x]) /\ SameKin(d, [d EXCEPT !.cycle = x, !.grabbed = y])
         /\ SameKin(d, Create(d, x)) /\ SameKin(d, Redrawn(d)) /\ SameKin(d, Merged(d, x))
<1>1. SameKin(d, d) /\ SameKin(d, DropFocus(d)) /\ SameKin(d, Hide(d, x))
  BY DEF Desk, SameKin, DropFocus, Hide
<1>2. /\ SameKin(d, [d EXCEPT !.shown = x]) /\ SameKin(d, [d EXCEPT !.minimized = x])
      /\ SameKin(d, [d EXCEPT !.sticky = x]) /\ SameKin(d, [d EXCEPT !.urgent = x])
      /\ SameKin(d, [d EXCEPT !.cycle = x]) /\ SameKin(d, [d EXCEPT !.cycle = x, !.grabbed = y])
  BY DEF Desk, SameKin
<1>3. SameKin(d, Create(d, x)) /\ SameKin(d, Redrawn(d))
  BY DEF Desk, SameKin, Create, Redrawn
<1>4. SameKin(d, Merged(d, x))
  BY DEF Desk, SameKin, Merged
<1> QED BY <1>1, <1>2, <1>3, <1>4

\* Nor does a change of focus, by any of the routes there are.
LEMMA FocusKin ==
  ASSUME NEW was, NEW k, NEW d, Akin(was, k, d), NEW c, NEW forward
  PROVE  /\ Akin(was, k, FocusClient(d, c)) /\ Akin(was, k, FocusIfAny(d, c))
         /\ Akin(was, k, DropFocusOf(d, c)) /\ Akin(was, k, HandOver(d, c))
         /\ Akin(was, k, FocusSuccessorOf(d, c)) /\ Akin(was, k, FocusAdjacent(d, forward))
<1>0. Good(was, d) /\ d \in Desk /\ SameKin(k, d)
  BY DEF Akin, Good
<1>1. \A a : Akin(was, k, FocusClient(d, a))
  BY <1>0, FocusClientGood, KinIsKept DEF Akin, SameKin
<1>2. Akin(was, k, DropFocus(d))
  BY <1>0, DropFocusGood, FieldsKin DEF Akin, SameKin
<1>3. \A a : Akin(was, k, FocusIfAny(d, a)) /\ Akin(was, k, HandOver(d, a))
  BY <1>0, <1>1, <1>2 DEF FocusIfAny, HandOver, Akin
<1>4. Akin(was, k, DropFocusOf(d, c)) /\ Akin(was, k, FocusSuccessorOf(d, c))
  BY <1>0, <1>2, <1>3 DEF DropFocusOf, FocusSuccessorOf, Akin
<1>5. Akin(was, k, FocusAdjacent(d, forward))
  BY <1>3 DEF FocusAdjacent
<1> QED BY <1>1, <1>3, <1>4, <1>5

\* Nor does dismissing the members of an overlay.
LEMMA HideMembersKin ==
  ASSUME NEW was, NEW k, NEW d, Akin(was, k, d), NEW s
  PROVE  Akin(was, k, HideMembers(d, s))
<1> DEFINE hidden == Hide(d, LiveMembers(d, s))
<1>1. Akin(was, k, hidden)
  BY HideGood, FieldsKin DEF Akin, SameKin, Good
<1>2. HideMembers(d, s) \in {hidden, FocusSuccessorOf(hidden, d.focused)}
  BY DEF HideMembers
<1> HIDE DEF hidden
<1> QED BY <1>1, <1>2, FocusKin

LEMMA ShownKin ==
  ASSUME NEW was, NEW k, NEW d, Akin(was, k, d), NEW s \in SpecialOrNone
  PROVE  Akin(was, k, [d EXCEPT !.shown = s])
  BY ShownGood, FieldsKin DEF Akin, SameKin, Good

LEMMA HideSpecialKin ==
  ASSUME NEW was, NEW k, NEW d, Akin(was, k, d)
  PROVE  Akin(was, k, HideSpecial(d))
<1>1. NoSpecial \in SpecialOrNone
  BY DEF SpecialOrNone
<1>2. Akin(was, k, HideMembers([d EXCEPT !.shown = NoSpecial], d.shown))
  BY <1>1, ShownKin, HideMembersKin
<1> QED BY <1>2 DEF HideSpecial

LEMMA ShowKin ==
  ASSUME NEW was, NEW k, NEW d, Akin(was, k, d), NEW S \in SUBSET Client
  PROVE  Akin(was, k, Show(d, S))
  BY ShowGood, KinIsKept DEF Akin, SameKin, Good

LEMMA HideKin ==
  ASSUME NEW was, NEW k, NEW d, Akin(was, k, d), NEW S
  PROVE  Akin(was, k, Hide(d, S))
  BY HideGood, FieldsKin DEF Akin, SameKin, Good

\* Nor does summoning one.
LEMMA ShowSpecialKin ==
  ASSUME NEW was, NEW k, NEW d, Akin(was, k, d), NEW s \in SpecialNames
  PROVE  Akin(was, k, ShowSpecial(d, s))
<1> DEFINE here == [d EXCEPT !.shown = s]
           free == IF d.shown \in {NoSpecial, s} THEN here ELSE HideMembers(here, d.shown)
<1>1. Akin(was, k, here)
  BY ShownKin DEF SpecialOrNone
<1>2. Akin(was, k, free)
  BY <1>1, HideMembersKin
<1>3. ShowSpecial(d, s) = FocusMember(ShowMembers(free, s), s)
  BY DEF ShowSpecial
<1> HIDE DEF free
<1>4. LiveMembers(free, s) \in SUBSET Client
  BY <1>2 DEF LiveMembers, Normal, Akin, Good, Desk
<1>5. Akin(was, k, ShowMembers(free, s))
  BY <1>2, <1>4, ShowKin DEF ShowMembers
<1> QED BY <1>3, <1>5, FocusKin DEF FocusMember

LEMMA CreateKin ==
  ASSUME NEW was, NEW k, NEW d, Akin(was, k, d), NEW s \in SpecialNames
  PROVE  Akin(was, k, Create(d, s))
  BY CreateGood, FieldsKin DEF Akin, SameKin, Good

LEMMA IconsKin ==
  ASSUME NEW was, NEW k, NEW d, Akin(was, k, d), NEW S \in SUBSET d.live
  PROVE  Akin(was, k, [d EXCEPT !.minimized = S])
  BY IconsGood, FieldsKin DEF Akin, SameKin, Good

\* Nor does turning one window into an icon.
LEMMA MiniaturizeOneKin ==
  ASSUME NEW was, NEW k, NEW d, Akin(was, k, d), NEW c
  PROVE  Akin(was, k, MiniaturizeOne(d, c))
<1> DEFINE e == [d EXCEPT !.minimized = d.minimized \cup {c}]
<1>1. CASE c \notin Normal(d)
  BY <1>1 DEF MiniaturizeOne
<1>2. CASE c \in Normal(d)
  <2>1. d.minimized \cup {c} \in SUBSET d.live
    BY <1>2 DEF Akin, Good, Normal
  <2>2. Akin(was, k, e)
    BY <2>1, IconsKin
  <2>3. MiniaturizeOne(d, c) = FocusSuccessorOf(Hide(e, {c}), c)
    BY <1>2 DEF MiniaturizeOne
  <2> HIDE DEF e
  <2> QED BY <2>2, <2>3, HideKin, FocusKin
<1> QED BY <1>1, <1>2

LEMMA GrownKin ==
  ASSUME NEW was, NEW k, NEW d, Akin(was, k, d), NEW w \in Workspace
  PROVE  Akin(was, k, Grown(d, w))
  BY GrownGood, KinIsKept DEF Akin, SameKin, Good

LEMMA HomedKin ==
  ASSUME NEW was, NEW k, NEW d, Akin(was, k, d), NEW c \in Client, NEW w \in Workspace, w < d.count
  PROVE  Akin(was, k, Homed(d, c, w))
  BY HomedGood, KinIsKept DEF Akin, SameKin, Good

LEMMA LeaveSpecialKin ==
  ASSUME NEW was, NEW k, NEW d, Akin(was, k, d), NEW c \in Client
  PROVE  Akin(was, k, LeaveSpecial(d, c))
  BY LeaveSpecialGood, KinIsKept DEF Akin, SameKin, Good

\* The row a window leaves its special in still has the workspace it goes to.
LEMMA LeftRow ==
  ASSUME NEW d \in Desk, NEW c \in Client, NEW w \in Workspace, Grown(d, w) \in Desk
  PROVE  LET out == LeaveSpecial(Grown(d, w), c) IN w < out.count /\ out.current = d.current
<1>1. w < Grown(d, w).count /\ Grown(d, w).current = d.current
  BY GrownIs
<1> QED BY <1>1, LeaveSpecialSame

\* Nor does moving one to a workspace.
LEMMA MoveOneToWorkspaceKin ==
  ASSUME NEW was, NEW k, NEW d, Akin(was, k, d), NEW c \in Client, NEW w \in Nat
  PROVE  Akin(was, k, MoveOneToWorkspace(d, c, w))
<1> DEFINE grown == Grown(d, w)
           out   == LeaveSpecial(grown, c)
           home  == Homed(out, c, w)
           given == IF out.focused = c THEN FocusAdjacent(out, TRUE) ELSE out
           sent  == Homed(given, c, w)
<1>1. CASE TooFar(w)
  BY <1>1 DEF MoveOneToWorkspace
<1>2. CASE ~TooFar(w)
  <2>1. w \in Workspace /\ Akin(was, k, grown) /\ d \in Desk /\ grown \in Desk
    BY <1>2, InRange, GrownKin DEF Akin, Good
  <2>2. Akin(was, k, out) /\ w < out.count
    BY <2>1, LeaveSpecialKin, LeftRow
  <2>3. MoveOneToWorkspace(d, c, w) \in
          {grown, DropFocusOf(Hide(sent, {c}), c), Show(home, {c}), home}
    BY <1>2 DEF MoveOneToWorkspace, SentAway
  <2> HIDE DEF grown, out
  <2>4. Akin(was, k, home)
    BY <2>1, <2>2, HomedKin
  <2>5. Akin(was, k, Show(home, {c}))
    <3> HIDE DEF home
    <3>1. {c} \in SUBSET Client
      OBVIOUS
    <3> QED BY <2>4, <3>1, ShowKin
  <2>6. Akin(was, k, given)
    BY <2>2, FocusKin
  <2>7. w < given.count
    <3>1. out \in Desk
      BY <2>2 DEF Akin, Good
    <3>2. FocusAdjacent(out, TRUE).count = out.count
      BY <3>1, FocusSame DEF SameScreen, SameHomes
    <3> QED BY <2>2, <3>2
  <2> HIDE DEF given
  <2>8. Akin(was, k, sent)
    BY <2>1, <2>6, <2>7, HomedKin
  <2> HIDE DEF sent
  <2>9. Akin(was, k, DropFocusOf(Hide(sent, {c}), c))
    BY <2>8, HideKin, FocusKin
  <2> HIDE DEF home
  <2> QED BY <2>1, <2>3, <2>4, <2>5, <2>9
<1> QED BY <1>1, <1>2

LEMMA EnrolledKin ==
  ASSUME NEW was, NEW k, NEW d, Akin(was, k, d), NEW c \in d.live, NEW s \in SpecialNames
  PROVE  Akin(was, k, Enrolled(d, c, s))
<1>1. c \in Client /\ Good(was, Enrolled(d, c, s))
  BY EnrolledGood DEF Akin, Good, Desk
<1>2. Akin(was, k, LeaveSpecial(d, c))
  BY <1>1, LeaveSpecialKin
<1> DEFINE out == LeaveSpecial(d, c)
<1>3. Enrolled(d, c, s) = [out EXCEPT !.special[c] = s, !.members[s] = Append(@, c)]
  BY DEF Enrolled
<1> HIDE DEF out
<1>4. out \in Desk /\ SameKin(k, out)
  BY <1>2 DEF Akin, Good, out
<1>5. SameKin(out, [out EXCEPT !.special[c] = s, !.members[s] = Append(@, c)])
  BY <1>4 DEF Desk, SameKin
<1> QED BY <1>1, <1>3, <1>4, <1>5 DEF Akin, SameKin

\* Nor does moving one to a special workspace.
LEMMA MoveOneToSpecialKin ==
  ASSUME NEW was, NEW k, NEW d, Akin(was, k, d), NEW c \in d.live, NEW s \in SpecialNames
  PROVE  Akin(was, k, MoveOneToSpecial(d, c, s))
<1> DEFINE in == Enrolled(d, c, s)
<1>1. Akin(was, k, in) /\ {c} \in SUBSET Client
  <2>1. c \in Client
    BY DEF Akin, Good, Desk
  <2> QED BY <2>1, EnrolledKin
<1>2. MoveOneToSpecial(d, c, s) \in {d, Show(in, {c}), in, Hide(FocusSuccessorOf(in, c), {c})}
  BY DEF MoveOneToSpecial, Enrolled
<1> HIDE DEF in
<1>3. Akin(was, k, Show(in, {c}))
  BY <1>1, ShowKin
<1>4. Akin(was, k, FocusSuccessorOf(in, c))
  BY <1>1, FocusKin
<1>5. Akin(was, k, Hide(FocusSuccessorOf(in, c), {c}))
  BY <1>4, HideKin
<1> QED BY <1>1, <1>2, <1>3, <1>5

\* Nor does bringing one back from its icon.
LEMMA DeminiaturizeOneKin ==
  ASSUME NEW was, NEW k, NEW d, Akin(was, k, d), NEW c \in d.live
  PROVE  Akin(was, k, DeminiaturizeOne(d, c))
<1> DEFINE i == [d EXCEPT !.minimized = d.minimized \ {c}]
           up == MoveOneToWorkspace(i, c, d.current)
<1>1. c \in Client /\ d.minimized \ {c} \in SUBSET d.live /\ d.current \in Nat
  BY MaxWorkspacesAssumption DEF Akin, Good, Desk, Workspace
<1>2. Akin(was, k, i)
  BY <1>1, IconsKin
<1>3. DeminiaturizeOne(d, c) \in {d, FocusClient(Show(up, {c}), c)}
  BY DEF DeminiaturizeOne
<1> HIDE DEF i
<1>4. Akin(was, k, up)
  BY <1>1, <1>2, MoveOneToWorkspaceKin
<1> HIDE DEF up
<1>5. Akin(was, k, FocusClient(Show(up, {c}), c))
  <2>1. {c} \in SUBSET Client
    BY <1>1
  <2> QED BY <1>4, <2>1, ShowKin, FocusKin
<1> QED BY <1>3, <1>5

\* So a round of a family loop keeps them, and the loop does.
LEMMA ForFamilyKin ==
  ASSUME NEW op \in Ops, NEW was, NEW k, NEW d, Akin(was, k, d), NEW c \in was.live
  PROVE  Akin(was, k, ForFamily(op, d, c))
<1> DEFINE V == {e \in Desk : Akin(was, k, e)}
<1>1. \A e : e \in V <=> Akin(was, k, e)
  BY DEF Akin, Good
<1> HIDE DEF V
<1>2. ASSUME NEW e \in V, NEW a \in was.live PROVE Step(op, e, a) \in V
  <2>1. Akin(was, k, e) /\ a \in e.live /\ a \in Client
    BY <1>1, <1>2 DEF Akin, Good, Desk, SameSession
  <2>2. CASE op = ToIcon
    BY <1>1, <2>1, <2>2, MiniaturizeOneKin DEF Step, ToIcon
  <2>3. CASE op = FromIcon
    BY <1>1, <2>1, <2>3, DeminiaturizeOneKin DEF Step, FromIcon
  <2>4. ASSUME NEW w \in Nat, op = ToWorkspace(w) PROVE Step(op, e, a) \in V
    <3>1. Step(op, e, a) = MoveOneToWorkspace(e, a, w)
      BY <2>4 DEF Step, ToWorkspace
    <3> QED BY <1>1, <2>1, <3>1, MoveOneToWorkspaceKin
  <2>5. ASSUME NEW s \in SpecialNames, op = ToSpecial(s) PROVE Step(op, e, a) \in V
    <3>1. Step(op, e, a) = MoveOneToSpecial(e, a, s)
      BY <2>5 DEF Step, ToSpecial
    <3> QED BY <1>1, <2>1, <3>1, MoveOneToSpecialKin
  <2> QED BY <2>2, <2>3, <2>4, <2>5 DEF Ops
<1>3. FamilyOrder(d, c) \in Seq(was.live)
  <2>1. d \in Desk /\ d.live = was.live
    BY DEF Akin, Good, SameSession
  <2> QED BY <2>1, FamilyOrderType
<1>4. ForFamily(op, d, c) \in V
  BY <1>1, <1>2, <1>3, ForEachKeeps DEF ForFamily
<1> QED BY <1>1, <1>4

\* The windows of a family follow it to a special.
LEMMA MoveToSpecialKin ==
  ASSUME NEW was, NEW k, NEW d, Akin(was, k, d), NEW c \in was.live, NEW s \in SpecialNames, NEW follow
  PROVE  Akin(was, k, MoveToSpecial(d, c, s, follow))
<1> DEFINE moved == ForFamily(ToSpecial(s), Create(d, s), c)
<1>1. ToSpecial(s) \in Ops
  BY DEF Ops
<1>2. Akin(was, k, moved)
  BY <1>1, CreateKin, ForFamilyKin
<1>3. MoveToSpecial(d, c, s, follow) \in {moved, FocusClient(ShowSpecial(moved, s), c)}
  BY DEF MoveToSpecial, Followed
<1> HIDE DEF moved
<1>4. Akin(was, k, ShowSpecial(moved, s))
  BY <1>2, ShowSpecialKin
<1>5. Akin(was, k, FocusClient(ShowSpecial(moved, s), c))
  BY <1>4, FocusKin
<1> QED BY <1>2, <1>3, <1>5

LEMMA EnteredKin ==
  ASSUME NEW was, NEW k, NEW d, Akin(was, k, d), NEW w \in Workspace
  PROVE  Akin(was, k, Entered(d, w))
<1> DEFINE g == Grown(d, w)
           e == [g EXCEPT !.previous = d.current, !.current = w]
<1>0. Entered(d, w) = e
  BY DEF Entered
<1>1. Good(was, Entered(d, w))
  BY EnteredGood DEF Akin
<1>2. g \in Desk /\ SameKin(k, g)
  BY GrownKin DEF Akin, Good
<1> HIDE DEF g
<1>3. SameKin(g, e)
  BY <1>2 DEF Desk, SameKin
<1> HIDE DEF e
<1> QED BY <1>0, <1>1, <1>2, <1>3 DEF Akin, SameKin

LEMMA KeyboardForKin ==
  ASSUME NEW was, NEW k, NEW d, Akin(was, k, d), NEW arriving
  PROVE  Akin(was, k, KeyboardFor(d, arriving))
<1>1. KeyboardFor(d, arriving) \in
        {d, FocusClient(d, arriving), FocusSuccessorOf(d, d.focused),
         FocusIfAny(d, Successor(d, NoClient))}
  BY DEF KeyboardFor
<1> QED BY <1>1, FocusKin

\* A switch of workspace keeps them.
LEMMA SwitchToKin ==
  ASSUME NEW was, NEW k, NEW d, Akin(was, k, d), NEW w \in Nat, NEW arriving
  PROVE  Akin(was, k, SwitchTo(d, w, arriving))
<1> DEFINE bare == IF HideSpecialOnSwitch THEN HideSpecial(d) ELSE d
           there == Entered(bare, w)
           drawn == Redrawn(there)
<1>1. CASE TooFar(w) \/ w = d.current
  BY <1>1 DEF SwitchTo
<1>2. CASE ~(TooFar(w) \/ w = d.current)
  <2>1. w \in Workspace /\ Akin(was, k, bare)
    BY <1>2, InRange, HideSpecialKin
  <2>2. SwitchTo(d, w, arriving) = KeyboardFor(drawn, arriving)
    BY <1>2 DEF SwitchTo
  <2> HIDE DEF bare
  <2>3. Akin(was, k, there)
    BY <2>1, EnteredKin
  <2> HIDE DEF there
  <2>4. Akin(was, k, drawn)
    BY <2>3, RedrawnGood, FieldsKin DEF Akin, SameKin, Good
  <2> HIDE DEF drawn
  <2> QED BY <2>2, <2>4, KeyboardForKin
<1> QED BY <1>1, <1>2

\* So does the removal of one.
LEMMA WithoutWorkspaceKin ==
  ASSUME NEW was, NEW k, NEW d, Akin(was, k, d), d.count > 1, NEW w \in Nat, w < d.count
  PROVE  Akin(was, k, WithoutWorkspace(d, w))
<1> DEFINE merged == Merged(d, w)
           joined == Show(merged, Revealed(d, merged))
<1>1. Akin(was, k, merged)
  BY MergedGood, FieldsKin DEF Akin, SameKin, Good
<1>2. Revealed(d, merged) \in SUBSET Client
  BY DEF Revealed, Normal, Akin, Good, Desk
<1>3. WithoutWorkspace(d, w) \in {joined, FocusIfAny(joined, Successor(joined, NoClient))}
  BY DEF WithoutWorkspace, FocusSomebody
<1> HIDE DEF merged
<1>4. Akin(was, k, joined)
  BY <1>1, <1>2, ShowKin
<1> HIDE DEF joined
<1> QED BY <1>3, <1>4, FocusKin

LEMMA BroughtKin ==
  ASSUME NEW was, NEW k, NEW d, Akin(was, k, d), NEW c
  PROVE  Akin(was, k, Brought(d, c))
<1>1. CASE c \notin Normal(d) \/ Placed(d, c)
  BY <1>1 DEF Brought
<1>2. CASE ~(c \notin Normal(d) \/ Placed(d, c))
  <2>1. c \in Client
    BY <1>2 DEF Normal, Akin, Good, Desk
  <2>2. d.workspace[c] \in Nat /\ d.special[c] \in SpecialOrNone
    BY <2>1, MaxWorkspacesAssumption DEF Akin, Good, Desk, Workspace
  <2>3. Akin(was, k, SwitchTo(d, d.workspace[c], c))
    BY <2>2, SwitchToKin
  <2>4. d.special[c] # NoSpecial => Akin(was, k, ShowSpecial(d, d.special[c]))
    BY <2>2, ShowSpecialKin DEF SpecialOrNone
  <2>5. Brought(d, c) = IF d.special[c] # NoSpecial THEN ShowSpecial(d, d.special[c])
                        ELSE SwitchTo(d, d.workspace[c], c)
    BY <1>2 DEF Brought
  <2> QED BY <2>3, <2>4, <2>5
<1> QED BY <1>1, <1>2

LEMMA RestoredKin ==
  ASSUME NEW was, NEW k, NEW d, Akin(was, k, d), NEW c
  PROVE  Akin(was, k, Restored(d, c))
<1>1. CASE c \in d.minimized
  <2>1. c \in was.live /\ FromIcon \in Ops
    BY <1>1 DEF Akin, Good, SameSession, Ops
  <2> QED BY <1>1, <2>1, ForFamilyKin DEF Restored
<1>2. CASE c \notin d.minimized
  BY <1>2 DEF Restored
<1> QED BY <1>1, <1>2

\* So does an activation.
LEMMA PresentedKin ==
  ASSUME NEW was, NEW k, NEW d, Akin(was, k, d), NEW c
  PROVE  Akin(was, k, Presented(d, c))
  BY RestoredKin, BroughtKin, FocusKin DEF Presented, BringIntoView

LEMMA ActivateClientKin ==
  ASSUME NEW was, NEW k, NEW d, Akin(was, k, d), NEW c \in Client
  PROVE  Akin(was, k, ActivateClient(d, c))
<1> DEFINE asked == [d EXCEPT !.urgent = d.urgent \cup {c}]
<1>1. Akin(was, k, asked)
  <2>1. d.urgent \cup {c} \in SUBSET Client
    BY DEF Akin, Good, Desk
  <2> QED BY <2>1, UrgentGood, FieldsKin DEF Akin, SameKin, Good
<1>2. ActivateClient(d, c) \in {d, asked, Presented(d, c)}
  BY DEF ActivateClient
<1> QED BY <1>1, <1>2, PresentedKin

\* So does settling a fresh window.
LEMMA SettledKin ==
  ASSUME NEW was, NEW k, NEW d, Akin(was, k, d), NEW c \in was.live, NEW p \in ClientOrNone,
         NEW target \in RuleTarget
  PROVE  Akin(was, k, Settled(d, c, p, target))
<1>1. /\ target.kind \in {"inherit", "numbered", "special"}
      /\ target.kind = "numbered" => target.to \in Nat
      /\ target.kind = "special" => target.to \in SpecialNames
  BY DEF RuleTarget
<1>2. CASE target.kind = "numbered"
  <2> DEFINE moved == ForFamily(ToWorkspace(target.to), d, c)
  <2>1. target.to \in Nat /\ ToWorkspace(target.to) \in Ops
    BY <1>1, <1>2 DEF Ops
  <2>2. Akin(was, k, moved)
    BY <2>1, ForFamilyKin
  <2>3. Settled(d, c, p, target) \in {moved, SwitchTo(moved, target.to, c)}
    BY <1>2 DEF Settled
  <2> HIDE DEF moved
  <2> QED BY <2>1, <2>2, <2>3, SwitchToKin
<1>3. CASE target.kind = "special" /\ CanCreate(d, target.to)
  <2>1. Settled(d, c, p, target) = MoveToSpecial(d, c, target.to, ~target.silent)
    BY <1>3 DEF Settled
  <2> QED BY <1>1, <1>3, <2>1, MoveToSpecialKin
<1>4. CASE ~(target.kind = "numbered" \/ (target.kind = "special" /\ CanCreate(d, target.to)))
  <2>1. Settled(d, c, p, target) = Inherited(d, c, p)
    BY <1>4 DEF Settled
  <2>2. c \in d.live
    BY DEF Akin, Good, SameSession
  <2>3. p # NoClient /\ d.special[p] # NoSpecial => d.special[p] \in SpecialNames
    BY DEF Akin, Good, Desk, SpecialOrNone, ClientOrNone
  <2> QED BY <2>1, <2>2, <2>3, MoveOneToSpecialKin DEF Inherited
<1> QED BY <1>2, <1>3, <1>4

LEMMA CycleKin ==
  ASSUME NEW d \in Desk, NEW delta, NEW c
  PROVE  SameKin(d, CycleBy(d, delta)) /\ SameKin(d, CycleClosed(d)) /\ SameKin(d, CycleWithout(d, c))
<1>1. \A session : SameKin(d, Turned(d, session, delta))
  BY FieldsKin DEF Turned
<1>2. SameKin(d, CycleBy(d, delta))
  BY <1>1 DEF CycleBy
<1>3. SameKin(d, CycleClosed(d))
  BY FieldsKin DEF CycleClosed
<1>4. SameKin(d, CycleWithout(d, c))
  <2> DEFINE order == Without(d.cycle.order, c)
             selected == IF d.cycle.selected > Len(order) - 1 THEN Len(order) - 1
                         ELSE d.cycle.selected
             session == [d.cycle EXCEPT !.order = order, !.selected = selected]
             e == [d EXCEPT !.cycle = session]
  <2>1. d.cycle \in CycleSession
    BY DEF Desk
  <2>2. CASE ~d.cycle.open
    BY <2>2, FieldsKin DEF CycleWithout
  <2>3. CASE order = <<>> /\ d.cycle.open
    BY <1>3, <2>3 DEF CycleWithout
  <2>4. CASE order # <<>> /\ d.cycle.open
    <3>1. CycleWithout(d, c) = e
      <4> HIDE DEF order
      <4> QED BY <2>1, <2>4 DEF CycleWithout, order, Desk, CycleSession
    <3> HIDE DEF session
    <3> QED BY <3>1, FieldsKin
  <2> QED BY <2>2, <2>3, <2>4
<1> QED BY <1>2, <1>3, <1>4

LEMMA CycleCommittedKin ==
  ASSUME NEW was, NEW d, Good(was, d)
  PROVE  SameKin(d, CycleCommitted(d))
<1> DEFINE closed == CycleClosed(d)
<1>1. Good(closed, closed) /\ SameKin(d, closed)
  BY CycleClosedGood, CycleKin DEF Good
<1>2. CycleCommitted(d) = Presented(closed, d.cycle.order[d.cycle.selected + 1])
  BY DEF CycleCommitted
<1> HIDE DEF closed
<1> QED BY <1>1, <1>2, PresentedKin DEF Akin

\* The families of a fresh window are what the arrival made them.
LEMMA MapClientKin ==
  ASSUME NEW was, NEW d, Good(was, d), Honest(d), NEW c \in Client \ d.live,
         NEW p \in d.live \cup {NoClient}, NEW modal \in BOOLEAN, NEW rule \in MapRule
  PROVE  SameKin(Fresh(d, c, p, modal, rule), MapClient(d, c, p, modal, rule))
<1> DEFINE fresh == Fresh(d, c, p, modal, rule)
           homed == Settled(fresh, c, p, rule.target)
<1>1. rule.target \in RuleTarget /\ p \in ClientOrNone
  BY DEF MapRule, Good, Desk, ClientOrNone
<1>2. Good(fresh, fresh) /\ c \in fresh.live
  BY FreshGood
<1>3. MapClient(d, c, p, modal, rule) \in {homed, FocusClient(homed, c)}
  BY DEF MapClient
<1> HIDE DEF fresh
<1>4. Akin(fresh, fresh, homed)
  BY <1>1, <1>2, SettledKin DEF Akin, SameKin
<1> HIDE DEF homed
<1> QED BY <1>3, <1>4, FocusKin DEF Akin, fresh

\* Those a departure leaves are what the erasure made them.
LEMMA ForgottenKin ==
  ASSUME NEW was, NEW d, Good(was, d), NEW c \in Client
  PROVE  SameKin(Erased(d, c), Forgotten(d, c))
<1> DEFINE gone    == Erased(d, c)
           settled == IF d.focused = c THEN Inheriting(gone, d.special[c]) ELSE gone
<1>1. Good(gone, gone)
  BY ErasedGood
<1>2. Forgotten(d, c) = CycleWithout(settled, c)
  BY DEF Forgotten
<1> HIDE DEF gone
<1>3. Akin(gone, gone, gone)
  BY <1>1 DEF Akin, SameKin
<1>4. Akin(gone, gone, settled)
  BY <1>3, FocusKin DEF Inheriting
<1> HIDE DEF settled
<1> QED BY <1>2, <1>4, CycleKin DEF Akin, Good, SameKin, gone

LEMMA PinnedKin ==
  ASSUME NEW was, NEW d, Good(was, d), NEW c \in Client, NEW on \in BOOLEAN
  PROVE  SameKin(d, Pinned(d, c, on))
<1> DEFINE sticky == IF on THEN d.sticky \cup {c} ELSE d.sticky \ {c}
           set == [d EXCEPT !.sticky = sticky]
<1>1. sticky \in SUBSET Client /\ d \in Desk
  BY DEF Good, Desk
<1>2. Pinned(d, c, on) \in {d, Hide(FocusSuccessorOf(set, c), {c}), Show(set, {c}), set}
  BY DEF Pinned
<1> HIDE DEF sticky
<1>3. set \in Desk /\ SameRecords(d, set)
  BY <1>1 DEF Desk, SameRecords, SameSession, SameHomes
<1>4. SameKin(d, set)
  BY <1>1, FieldsKin
<1> HIDE DEF set
<1>5. Akin(was, d, set) /\ Akin(was, d, d)
  BY <1>3, <1>4, OtherFields DEF Akin, SameKin
<1>6. Akin(was, d, Hide(FocusSuccessorOf(set, c), {c}))
  BY <1>5, FocusKin, HideKin
<1>7. Akin(was, d, Show(set, {c}))
  <2>1. {c} \in SUBSET Client
    OBVIOUS
  <2> QED BY <1>5, <2>1, ShowKin
<1> QED BY <1>2, <1>5, <1>6, <1>7 DEF Akin

\* Those a new parent, or a window turned modal, makes.
LEMMA ReparentedKin ==
  ASSUME NEW was, NEW d, Good(was, d), NEW c \in was.live, NEW p \in ClientOrNone
  PROVE  LET set == [d EXCEPT !.parent[c] = p] IN
         Good(was, set) /\ SamePlaces(d, set) /\ set.focused = d.focused /\ SameKin(set, Reparented(d, c, p))
<1> DEFINE set == [d EXCEPT !.parent[c] = p]
<1>1. set \in Desk /\ SameRecords(d, set) /\ SamePlaces(d, set) /\ set.focused = d.focused
  BY DEF Good, Desk, SameRecords, SameSession, SameHomes, SamePlaces
<1> HIDE DEF set
<1>2. Akin(was, set, set) /\ Good(was, set)
  BY <1>1, OtherFields DEF Akin, SameKin
<1>3. CASE d.parent[c] = p \/ p = NoClient
  BY <1>1, <1>2, <1>3 DEF Reparented, set, Akin
<1>4. CASE ~(d.parent[c] = p \/ p = NoClient)
  <2>1. p \in Client
    BY <1>4 DEF ClientOrNone
  <2>2. d.special[p] # NoSpecial => ToSpecial(d.special[p]) \in Ops
    BY <2>1 DEF Good, Desk, SpecialOrNone, Ops
  <2>3. d.workspace[p] \in Nat
    BY <2>1, MaxWorkspacesAssumption DEF Good, Desk, Workspace
  <2>4. ToWorkspace(d.workspace[p]) \in Ops
    BY <2>3 DEF Ops
  <2>5. Reparented(d, c, p) = IF d.special[p] # NoSpecial
                              THEN ForFamily(ToSpecial(d.special[p]), set, c)
                              ELSE ForFamily(ToWorkspace(d.workspace[p]), set, c)
    BY <1>4 DEF Reparented, set
  <2>6. Akin(was, set, Reparented(d, c, p))
    BY <1>2, <2>2, <2>4, <2>5, ForFamilyKin
  <2> QED BY <1>1, <1>2, <2>6 DEF Akin, set
<1> QED BY <1>3, <1>4

LEMMA ModalSetKin ==
  ASSUME NEW was, NEW d, Good(was, d), NEW c \in Client, NEW on \in BOOLEAN
  PROVE  LET set == [d EXCEPT !.modal = IF on THEN @ \cup {c} ELSE @ \ {c}] IN
         /\ Good(was, set) /\ SamePlaces(d, set) /\ set.focused = d.focused
         /\ SameKin(set, ModalSet(d, c, on)) /\ ModalSet(d, c, on) \in {set, FocusClient(set, c)}
<1> DEFINE modal == IF on THEN d.modal \cup {c} ELSE d.modal \ {c}
           set == [d EXCEPT !.modal = IF on THEN @ \cup {c} ELSE @ \ {c}]
<1>0. modal \in SUBSET Client /\ set = [d EXCEPT !.modal = modal]
  BY DEF Good, Desk
<1> HIDE DEF modal
<1>1. set \in Desk /\ SameRecords(d, set) /\ SamePlaces(d, set) /\ set.focused = d.focused
  <2> HIDE DEF set
  <2> QED BY <1>0 DEF Good, Desk, SameRecords, SameSession, SameHomes, SamePlaces
<1>2. ModalSet(d, c, on) \in {set, FocusClient(set, c)}
  BY DEF ModalSet
<1> HIDE DEF set
<1>3. Akin(was, set, set) /\ Good(was, set)
  BY <1>1, OtherFields DEF Akin, SameKin
<1>4. SameKin(set, ModalSet(d, c, on))
  BY <1>2, <1>3, FocusKin DEF Akin
<1> QED BY <1>1, <1>2, <1>3, <1>4 DEF set

\* Every other event leaves the families alone.
LEMMA DeskEventKin ==
  ASSUME IInv, DeskEvent
  PROVE  SameKin(wm, wm')
<1>0. Good(wm, wm) /\ wm \in Desk /\ Akin(wm, wm, wm)
  BY DEF IInv, Good, Akin, SameKin
<1>1. ASSUME NEW forward \in BOOLEAN, FocusNext(forward) PROVE SameKin(wm, wm')
  BY <1>0, <1>1, FocusKin DEF FocusNext, Dispatched, Akin
<1>2. ASSUME NEW w \in 0 .. MaxWorkspaces, SwitchWorkspace(w) \/ RemoveWorkspace(w) \/ CarryFocused(w)
      PROVE  SameKin(wm, wm')
  <2>0. w \in Nat
    BY MaxWorkspacesAssumption
  <2>1. CASE SwitchWorkspace(w)
    BY <1>0, <2>0, <2>1, SwitchToKin DEF SwitchWorkspace, Dispatched, Akin
  <2>2. CASE RemoveWorkspace(w)
    BY <1>0, <2>0, <2>2, WithoutWorkspaceKin DEF RemoveWorkspace, Dispatched, Akin
  <2>3. CASE CarryFocused(w)
    <3> DEFINE c == wm.focused
               moved == ForFamily(ToWorkspace(w), wm, c)
               there == SwitchTo(moved, w, NoClient)
    <3>1. c \in wm.live /\ c \in Client
      BY <1>0, <2>3, FocusedLives DEF CarryFocused, Good, Desk
    <3>2. ToWorkspace(w) \in Ops
      BY <2>0 DEF Ops
    <3>3. wm' = ActivateClient(there, c)
      BY <2>3 DEF CarryFocused, Dispatched
    <3> HIDE DEF c
    <3>4. Akin(wm, wm, moved)
      BY <1>0, <3>1, <3>2, ForFamilyKin
    <3> HIDE DEF moved
    <3>5. Akin(wm, wm, there)
      BY <2>0, <3>4, SwitchToKin
    <3> HIDE DEF there
    <3> QED BY <3>1, <3>3, <3>5, ActivateClientKin DEF Akin
  <2> QED BY <1>2, <2>1, <2>2, <2>3
<1>3. CASE SwitchToPrevious
  <2>1. wm.previous \in Nat
    BY <1>0, <1>3, MaxWorkspacesAssumption DEF SwitchToPrevious, Good, Desk
  <2> QED BY <1>0, <1>3, <2>1, SwitchToKin DEF SwitchToPrevious, Dispatched, Akin
<1>4. ASSUME NEW delta \in {-1, 1}, SwitchToOccupied(delta) \/ CycleStep(delta)
      PROVE  SameKin(wm, wm')
  <2>1. CASE SwitchToOccupied(delta)
    <3> DEFINE w == OccupiedStep(wm, delta)
    <3>1. w \in Nat
      BY <1>0, <2>1, OccupiedStepType DEF SwitchToOccupied
    <3>2. wm' = SwitchTo(wm, w, NoClient)
      BY <2>1 DEF SwitchToOccupied, Dispatched
    <3> HIDE DEF w
    <3> QED BY <1>0, <3>1, <3>2, SwitchToKin DEF Akin
  <2>2. CASE CycleStep(delta)
    BY <1>0, <2>2, CycleKin DEF CycleStep, Dispatched
  <2> QED BY <1>4, <2>1, <2>2
<1>5. ASSUME NEW s \in SpecialNames, ToggleSpecial(s) PROVE SameKin(wm, wm')
  <2>1. wm' = HideSpecial(wm) \/ wm' = ShowSpecial(Create(wm, s), s)
    BY <1>5 DEF ToggleSpecial, Dispatched
  <2>2. Akin(wm, wm, HideSpecial(wm)) /\ Akin(wm, wm, ShowSpecial(Create(wm, s), s))
    BY <1>0, HideSpecialKin, CreateKin, ShowSpecialKin
  <2> QED BY <2>1, <2>2 DEF Akin
<1>6. CASE CycleCancel \/ CycleCommit
  BY <1>0, <1>6, CycleKin, CycleCommittedKin DEF CycleCancel, CycleCommit, Dispatched
<1>7. CASE LockChanges
  BY <1>7 DEF LockChanges, SameKin
<1> QED BY <1>1, <1>2, <1>3, <1>4, <1>5, <1>6, <1>7 DEF DeskEvent

LEMMA UserEventKin ==
  ASSUME IInv, NEW c \in Client, UserEvent(c)
  PROVE  SameKin(wm, wm')
<1>0. Good(wm, wm) /\ wm \in Desk /\ Akin(wm, wm, wm)
  BY DEF IInv, Good, Akin, SameKin
<1>1. CASE Click(c) \/ PointerEnter(c) \/ FocusRequest(c)
  <2>1. wm' \in {FocusClient(wm, FocusTarget(wm, c)), FocusClient(wm, c)}
    BY <1>1 DEF Click, PointerEnter, FocusRequest, Dispatched
  <2> QED BY <1>0, <2>1, FocusKin DEF Akin
<1>2. CASE Miniaturize(c) \/ Deminiaturize(c)
  <2>1. ToIcon \in Ops /\ FromIcon \in Ops
    BY DEF Ops
  <2> QED BY <1>0, <1>2, <2>1, ForFamilyKin DEF Miniaturize, Deminiaturize, Dispatched, Akin
<1>3. ASSUME NEW w \in 0 .. MaxWorkspaces, MoveToWorkspace(c, w) PROVE SameKin(wm, wm')
  <2>1. ToWorkspace(w) \in Ops
    BY MaxWorkspacesAssumption DEF Ops
  <2> QED BY <1>0, <1>3, <2>1, ForFamilyKin DEF MoveToWorkspace, Dispatched, Akin
<1>4. ASSUME NEW s \in SpecialNames, NEW follow \in BOOLEAN, MoveClientToSpecial(c, s, follow)
      PROVE  SameKin(wm, wm')
  BY <1>0, <1>4, MoveToSpecialKin DEF MoveClientToSpecial, Dispatched, Akin
<1>5. ASSUME NEW on \in BOOLEAN, SetPinned(c, on) PROVE SameKin(wm, wm')
  BY <1>0, <1>5, PinnedKin DEF SetPinned, Dispatched
<1> QED BY <1>1, <1>2, <1>3, <1>4, <1>5 DEF UserEvent

LEMMA ActivateKin ==
  ASSUME IInv, NEW c \in Client, Activate(c) \/ ChromeChanged(c) \/ \E on \in BOOLEAN : SetUrgent(c, on)
  PROVE  SameKin(wm, wm')
<1>0. Good(wm, wm) /\ wm \in Desk /\ Akin(wm, wm, wm)
  BY DEF IInv, Good, Akin, SameKin
<1>1. CASE Activate(c)
  BY <1>0, <1>1, ActivateClientKin DEF Activate, Dispatched, Akin
<1>2. CASE ChromeChanged(c)
  BY <1>0, <1>2, KinIsKept, FieldsKin DEF ChromeChanged, Dispatched
<1>3. ASSUME NEW on \in BOOLEAN, SetUrgent(c, on) PROVE SameKin(wm, wm')
  <2> DEFINE u == IF on THEN wm.urgent \cup {c} ELSE wm.urgent \ {c}
  <2>1. wm' = [wm EXCEPT !.urgent = u]
    BY <1>3 DEF SetUrgent, Dispatched
  <2> HIDE DEF u
  <2> QED BY <1>0, <2>1, FieldsKin
<1> QED BY <1>1, <1>2, <1>3
-----------------------------------------------------------------------------
(* The focused window is on screen.  A dialog that is not on screen can      *)
(* stand between the keyboard and the window that should have it, and then   *)
(* the code leaves the keyboard where it was; where no dialog is modal, or   *)
(* nobody is anybody's dialog, every handler passes it on in sight.          *)

\* Nobody's keyboard is another's: no window is modal, or none has a parent.
Free(d) == d.modal = {} \/ \A c \in Client : d.parent[c] = NoClient

InSight(d) == d.focused # NoClient => d.focused \in OnScreen(d)

\* The focused window is in sight unless it is c, whose place is changing.
InSightBut(d, c) == d.focused \notin {NoClient, c} => d.focused \in OnScreen(d)

Aware(was, d) == Good(was, d) /\ Free(d) /\ InSight(d)

\* Where no window has a parent, the chain above one is the window alone.
LEMMA NoAncestors ==
  ASSUME NEW d, \A k \in Client : d.parent[k] = NoClient, NEW c \in Client
  PROVE  Ancestors(d, c) \subseteq {c, NoClient}
<1> DEFINE n == MaxTransientDepth
           Up(f) == f = [k \in 0 .. n |-> IF k = 0 THEN c
                                          ELSE IF f[k - 1] = NoClient THEN NoClient
                                          ELSE d.parent[f[k - 1]]]
           g == [k \in 0 .. n |-> IF k = 0 THEN c ELSE NoClient]
           f == CHOOSE f : Up(f)
<1>1. n \in Nat /\ c # NoClient
  BY NumClientsAssumption DEF MaxTransientDepth, Client, NoClient
<1> HIDE DEF n
<1>2. Up(g)
  <2>1. \A k \in 0 .. n : g[k] = IF k = 0 THEN c
                                 ELSE IF g[k - 1] = NoClient THEN NoClient
                                 ELSE d.parent[g[k - 1]]
    <3> TAKE k \in 0 .. n
    <3>1. k # 0 => k - 1 \in 0 .. n
      BY <1>1
    <3> QED BY <3>1, <1>1
  <2> QED BY <2>1
<1>3. Up(f)
  BY <1>2
<1>4. Ancestors(d, c) = {f[k] : k \in 0 .. n}
  BY DEF Ancestors, n
<1> HIDE DEF f, g
<1> DEFINE T == {k \in 0 .. n : f[k] \in {c, NoClient}}
<1>5. 0 \in T
  BY <1>1, <1>3
<1>6. ASSUME NEW k \in 1 .. n, k - 1 \in T PROVE k \in T
  <2>1. k \in 0 .. n /\ k # 0 /\ f[k - 1] \in {c, NoClient}
    BY <1>1, <1>6
  <2>2. f[k] = IF f[k - 1] = NoClient THEN NoClient ELSE d.parent[f[k - 1]]
    BY <1>3, <2>1
  <2> QED BY <2>1, <2>2
<1>7. 0 .. n \subseteq T
  <2> HIDE DEF T
  <2> QED BY <1>1, <1>5, <1>6, IntervalInduction
<1> QED BY <1>4, <1>7

\* So it is its own family.
LEMMA OwnFamily ==
  ASSUME NEW d, \A k \in Client : d.parent[k] = NoClient, d.live \subseteq Client, NEW c \in Client
  PROVE  Family(d, c) = {c}
<1>1. \A k \in d.live : Ancestors(d, k) \subseteq {k, NoClient}
  BY NoAncestors
<1>2. c # NoClient
  BY NumClientsAssumption DEF Client, NoClient
<1> QED BY <1>1, <1>2 DEF Family

\* In either case nobody is blocked: the keyboard goes where it is sent.
LEMMA FreeTarget ==
  ASSUME NEW d \in Desk, Free(d), NEW c \in Client
  PROVE  ModalBlocker(d, c) = NoClient /\ FocusTarget(d, c) = c
<1>1. (Family(d, c) \ {c}) \cap Normal(d) \cap d.modal = {}
  <2>1. CASE d.modal = {}
    BY <2>1
  <2>2. CASE \A k \in Client : d.parent[k] = NoClient
    <3>1. Family(d, c) = {c}
      BY <2>2, OwnFamily DEF Desk
    <3> QED BY <3>1
  <2> QED BY <2>1, <2>2 DEF Free
<1>2. ModalBlocker(d, c) = NoClient
  BY <1>1 DEF ModalBlocker, LastIn, LastOf
<1> QED BY <1>2 DEF FocusTarget, OrElse

\* Records with the same families are as free.
LEMMA KinFree ==
  ASSUME NEW d, Free(d), NEW e, SameKin(d, e)
  PROVE  Free(e)
  BY DEF Free, SameKin

\* Every client is somewhere in the history or in a slot.
LEMMA EveryoneListed ==
  ASSUME NEW was, NEW d, Good(was, d)
  PROVE  /\ Newest(d.history) \o Slots \in Seq(Client)
         /\ Client \subseteq Elements(Newest(d.history) \o Slots)
<1>1. Newest(d.history) \in Seq(Client)
  BY NewestIs DEF Good, Desk, TrueHistory
<1>2. NumClients \in Nat /\ Slots = [i \in 1 .. NumClients |-> i]
  BY NumClientsAssumption DEF Slots, Client
<1>3. Slots \in Seq(Client) /\ Len(Slots) = NumClients
  BY <1>2 DEF Client
<1> DEFINE p == Newest(d.history)
           q == p \o Slots
<1> HIDE DEF p
<1>4. p \in Seq(Client)
  BY <1>1 DEF p
<1>5. q \in Seq(Client) /\ Len(p) \in Nat /\ DOMAIN q = 1 .. (Len(p) + NumClients)
  BY <1>2, <1>3, <1>4
<1>6. ASSUME NEW c \in Client PROVE c \in Elements(q)
  <2>1. c \in 1 .. NumClients /\ Len(p) + c \in DOMAIN q
    BY <1>2, <1>5 DEF Client
  <2>2. q[Len(p) + c] = Slots[c]
    BY <1>2, <1>3, <1>4, <2>1
  <2>3. Slots[c] = c
    BY <1>2, <2>1
  <2> QED BY <2>1, <2>2, <2>3 DEF Elements
<1> QED BY <1>5, <1>6 DEF p

\* The successor can have the keyboard, and there is one whenever somebody can.
LEMMA SuccessorIs ==
  ASSUME NEW was, NEW d, Good(was, d), NEW losing
  PROVE  LET heir == Successor(d, losing) IN
         /\ heir # NoClient => heir \in Focusable(d) \ {losing} /\ heir \in Client
         /\ heir = NoClient => Focusable(d) \ {losing} = {}
<1> DEFINE q == Newest(d.history) \o Slots
           S == Focusable(d) \ {losing}
<1>1. q \in Seq(Client) /\ Client \subseteq Elements(q)
  BY EveryoneListed
<1>2. S \subseteq Client /\ NoClient \notin S
  BY NumClientsAssumption DEF Focusable, OnScreen, Normal, Good, Desk, Client, NoClient
<1>3. Successor(d, losing) = FirstOf(q, S, NoClient)
  BY DEF Successor, FirstIn
<1> HIDE DEF q, S
<1>4. S \cap Elements(q) = S
  BY <1>1, <1>2
<1>5. FirstOf(q, S, NoClient) # NoClient => FirstOf(q, S, NoClient) \in S
  BY <1>1, FirstIs
<1>6. FirstOf(q, S, NoClient) = NoClient => S = {}
  BY <1>1, <1>2, <1>4, FirstIs
<1> QED BY <1>2, <1>3, <1>5, <1>6 DEF S

\* Whoever is given the keyboard is on screen.
LEMMA FocusOnInSight ==
  ASSUME NEW d \in Desk, NEW c
  PROVE  /\ InSight(d) => InSight(FocusOn(d, c))
         /\ \A k : InSightBut(d, k) => InSightBut(FocusOn(d, c), k)
         /\ c \in Focusable(d) => FocusOn(d, c).focused = c /\ InSight(FocusOn(d, c))
<1> DEFINE e == FocusOn(d, c)
<1>1. OnScreen(e) = OnScreen(d)
  <2>1. SamePlaces(d, e)
    BY FocusOnSame DEF SameScreen, SameSession, SameHomes, SamePlaces
  <2> QED BY <2>1, PlacesOnScreen
<1>2. IF c \in Focusable(d) THEN e.focused = c /\ c \in OnScreen(d) ELSE e = d
  <2>1. CASE c \notin Focusable(d)
    BY <2>1 DEF FocusOn
  <2>2. CASE c \in Focusable(d)
    <3> DEFINE h == Remembered(d.history, c)
               u == d.urgent \ {c}
               f == [d EXCEPT !.focused = c, !.history = h, !.seat = c, !.urgent = u]
    <3>1. e = IF d.focused = c THEN [d EXCEPT !.seat = c] ELSE f
      BY <2>2 DEF FocusOn
    <3> HIDE DEF h, u
    <3>2. f.focused = c /\ [d EXCEPT !.seat = c].focused = d.focused
      BY DEF Desk
    <3> QED BY <2>2, <3>1, <3>2 DEF Focusable
  <2> QED BY <2>1, <2>2
<1> HIDE DEF e
<1> QED BY <1>1, <1>2 DEF InSight, InSightBut, e

\* Or nobody has it any more.
LEMMA DropInSight ==
  ASSUME NEW d \in Desk
  PROVE  DropFocus(d).focused = NoClient /\ InSight(DropFocus(d))
  BY DEF Desk, DropFocus, InSight

\* So a change of focus, by any route, keeps the focused window in sight.
LEMMA FocusInSight ==
  ASSUME NEW d \in Desk, InSight(d), NEW c, NEW forward
  PROVE  /\ InSight(FocusClient(d, c)) /\ InSight(FocusIfAny(d, c)) /\ InSight(DropFocusOf(d, c))
         /\ InSight(HandOver(d, c)) /\ InSight(FocusSuccessorOf(d, c))
         /\ InSight(FocusAdjacent(d, forward))
<1>1. \A k : InSight(FocusClient(d, k))
  BY FocusOnInSight DEF FocusClient
<1>2. \A k : InSight(FocusIfAny(d, k)) /\ InSight(HandOver(d, k))
  BY <1>1, DropInSight DEF FocusIfAny, HandOver
<1>3. InSight(DropFocusOf(d, c)) /\ InSight(FocusSuccessorOf(d, c))
  BY <1>2, DropInSight DEF DropFocusOf, FocusSuccessorOf
<1>4. InSight(FocusAdjacent(d, forward))
  BY <1>2 DEF FocusAdjacent
<1> QED BY <1>1, <1>2, <1>3, <1>4

\* A window that loses the keyboard passes it on in sight, wherever it was itself.
LEMMA SuccessorInSight ==
  ASSUME NEW was, NEW d, Good(was, d), Free(d), NEW c, InSightBut(d, c)
  PROVE  InSight(FocusSuccessorOf(d, c))
<1>0. d \in Desk
  BY DEF Good
<1>1. CASE d.focused # c
  BY <1>1 DEF FocusSuccessorOf, InSight, InSightBut
<1>2. CASE d.focused = c
  <2> DEFINE heir == Successor(d, c)
  <2>1. FocusSuccessorOf(d, c) = IF heir = NoClient THEN DropFocus(d) ELSE FocusClient(d, heir)
    BY <1>2 DEF FocusSuccessorOf, HandOver
  <2>2. heir # NoClient => heir \in Focusable(d) /\ heir \in Client
    BY SuccessorIs
  <2> HIDE DEF heir
  <2>3. heir # NoClient => FocusClient(d, heir) = FocusOn(d, heir)
    BY <1>0, <2>2, FreeTarget DEF FocusClient
  <2> QED BY <1>0, <2>1, <2>2, <2>3, FocusOnInSight, DropInSight
<1> QED BY <1>1, <1>2

\* Records with the same places and the same focus are the same to look at.
LEMMA SameInSight ==
  ASSUME NEW d, NEW e, SamePlaces(d, e), e.focused = d.focused
  PROVE  /\ InSight(d) => InSight(e)
         /\ \A c : InSightBut(d, c) => InSightBut(e, c)
  BY PlacesOnScreen DEF InSight, InSightBut

\* When one window's place changes, the others are still where they were.
LEMMA ButInSight ==
  ASSUME NEW d, d.live \subseteq Client, NEW c, InSightBut(d, c), NEW e, SameBut(c, d, e),
         e.focused = d.focused
  PROVE  /\ InSightBut(e, c)
         /\ (c = e.focused => c \in OnScreen(e)) => InSight(e)
<1>1. ASSUME e.focused \notin {NoClient, c} PROVE e.focused \in OnScreen(e)
  <2>1. d.focused \in OnScreen(d) /\ d.focused \in Client \ {c}
    BY <1>1 DEF InSightBut, OnScreen, Normal
  <2> QED BY <2>1 DEF SameBut, OnScreen, Normal, Placed
<1> QED BY <1>1 DEF InSightBut, InSight

\* Mapping and hiding change neither.
LEMMA MappedInSight ==
  ASSUME NEW d \in Desk, NEW S, NEW c
  PROVE  /\ InSight(d) => InSight(Show(d, S)) /\ InSight(Hide(d, S))
         /\ InSightBut(d, c) => InSightBut(Show(d, S), c) /\ InSightBut(Hide(d, S), c)
<1>1. /\ SamePlaces(d, Show(d, S)) /\ Show(d, S).focused = d.focused
      /\ SamePlaces(d, Hide(d, S)) /\ Hide(d, S).focused = d.focused
  BY DEF Desk, Show, Hide, SamePlaces
<1> QED BY <1>1, SameInSight

\* A good, free record in sight, from what is known of one with the same kin.
LEMMA AwareIs ==
  ASSUME NEW was, NEW d, Aware(was, d), NEW e, Akin(was, d, e), InSight(e)
  PROVE  Aware(was, e)
  BY KinFree DEF Aware, Akin

LEMMA AwareKin ==
  ASSUME NEW was, NEW d, Aware(was, d)
  PROVE  Akin(was, d, d) /\ Good(was, d) /\ d \in Desk /\ Free(d) /\ InSight(d)
  BY DEF Aware, Akin, Good, SameKin

\* The keyboard leaves the members of an overlay that is dismissed.
LEMMA HideMembersInSight ==
  ASSUME NEW was, NEW d, Good(was, d), Free(d), NEW s, InSight(d) \/ d.focused \in LiveMembers(d, s)
  PROVE  InSight(HideMembers(d, s))
<1> DEFINE hidden == Hide(d, LiveMembers(d, s))
<1>1. Good(was, hidden) /\ Free(hidden) /\ d \in Desk /\ hidden.focused = d.focused
  BY HideGood, FieldsKin, KinFree DEF Good, Hide, Desk
<1>2. CASE d.focused \in LiveMembers(d, s)
  <2>1. HideMembers(d, s) = FocusSuccessorOf(hidden, d.focused)
    BY <1>2 DEF HideMembers
  <2> HIDE DEF hidden
  <2>2. InSightBut(hidden, d.focused)
    BY <1>1 DEF InSightBut
  <2> QED BY <1>1, <2>1, <2>2, SuccessorInSight
<1>3. CASE d.focused \notin LiveMembers(d, s)
  <2>1. HideMembers(d, s) = hidden
    BY <1>3 DEF HideMembers
  <2> QED BY <1>1, <1>3, <2>1, MappedInSight
<1> QED BY <1>2, <1>3

\* When another overlay, or none, takes the place of the one on screen, the
\* focused window is in sight or a member of the old one.
LEMMA ReplacedInSight ==
  ASSUME NEW was, NEW d, Good(was, d), Free(d), InSight(d), NEW s \in SpecialOrNone
  PROVE  LET here == [d EXCEPT !.shown = s] IN
         /\ d.shown \notin {NoSpecial, s} => InSight(HideMembers(here, d.shown))
         /\ d.shown \in {NoSpecial, s} => InSight(here)
<1> DEFINE here == [d EXCEPT !.shown = s]
<1>1. Good(was, here) /\ Free(here)
  BY ShownGood, FieldsKin, KinFree DEF Good
<1>2. /\ here.live = d.live /\ here.minimized = d.minimized /\ here.sticky = d.sticky
      /\ here.special = d.special /\ here.workspace = d.workspace
      /\ here.current = d.current /\ here.shown = s /\ here.members = d.members
      /\ here.focused = d.focused
  BY DEF Good, Desk
<1> HIDE DEF here
<1>3. ASSUME d.focused # NoClient, ~InSight(here)
      PROVE  d.shown \notin {NoSpecial, s} /\ d.focused \in LiveMembers(here, d.shown)
  <2> DEFINE c == d.focused
  <2>1. c \in OnScreen(d) /\ c \in Client
    BY <1>3 DEF InSight, OnScreen, Normal, Good, Desk
  <2>2. c \in Normal(here) /\ d.special[c] # NoSpecial /\ d.special[c] = d.shown /\ d.shown # s
    BY <1>2, <1>3, <2>1 DEF InSight, OnScreen, Normal, Placed
  <2>3. d.shown \in SpecialNames
    BY <2>2 DEF Good, Desk, SpecialOrNone
  <2>4. c \in Elements(here.members[d.shown])
    BY <1>2, <2>1, <2>2, <2>3 DEF Good, MembersHold
  <2> QED BY <2>2, <2>4 DEF LiveMembers
<1>4. d.focused = NoClient => InSight(here)
  BY <1>2 DEF InSight
<1>5. InSight(here) \/ here.focused \in LiveMembers(here, d.shown)
  BY <1>2, <1>3, <1>4
<1>6. InSight(HideMembers(here, d.shown))
  BY <1>1, <1>5, HideMembersInSight
<1>7. d.shown \in {NoSpecial, s} => InSight(here)
  BY <1>3, <1>4
<1> QED BY <1>6, <1>7 DEF here

\* Dismissing an overlay keeps the focused window in sight.
LEMMA HideSpecialAware ==
  ASSUME NEW was, NEW d, Aware(was, d)
  PROVE  Aware(was, HideSpecial(d))
<1>1. NoSpecial \in SpecialOrNone
  BY DEF SpecialOrNone
<1>2. InSight(HideSpecial(d))
  BY <1>1, AwareKin, ReplacedInSight DEF HideSpecial
<1> QED BY <1>2, AwareKin, AwareIs, HideSpecialKin

\* A change of focus does.
LEMMA FocusAware ==
  ASSUME NEW was, NEW d, Aware(was, d), NEW c, NEW forward
  PROVE  /\ Aware(was, FocusClient(d, c)) /\ Aware(was, FocusIfAny(d, c))
         /\ Aware(was, DropFocusOf(d, c)) /\ Aware(was, HandOver(d, c))
         /\ Aware(was, FocusSuccessorOf(d, c)) /\ Aware(was, FocusAdjacent(d, forward))
<1>1. Akin(was, d, d) /\ d \in Desk /\ InSight(d)
  BY AwareKin
<1> QED BY <1>1, AwareIs, FocusKin, FocusInSight

LEMMA ShowAware ==
  ASSUME NEW was, NEW d, Aware(was, d), NEW S \in SUBSET Client
  PROVE  Aware(was, Show(d, S))
  BY AwareKin, AwareIs, ShowKin, MappedInSight

LEMMA HideAware ==
  ASSUME NEW was, NEW d, Aware(was, d), NEW S
  PROVE  Aware(was, Hide(d, S))
  BY AwareKin, AwareIs, HideKin, MappedInSight

\* So does summoning an overlay.
LEMMA ShowSpecialAware ==
  ASSUME NEW was, NEW d, Aware(was, d), NEW s \in SpecialNames
  PROVE  Aware(was, ShowSpecial(d, s))
<1> DEFINE here == [d EXCEPT !.shown = s]
           free == IF d.shown \in {NoSpecial, s} THEN here ELSE HideMembers(here, d.shown)
<1>0. s \in SpecialOrNone /\ Akin(was, d, d) /\ Good(was, d) /\ Free(d) /\ InSight(d)
  BY AwareKin DEF SpecialOrNone
<1>1. Akin(was, d, here) /\ Akin(was, d, HideMembers(here, d.shown))
  BY <1>0, ShownKin, HideMembersKin
<1>2. InSight(free)
  BY <1>0, ReplacedInSight
<1>3. ShowSpecial(d, s) = FocusMember(ShowMembers(free, s), s)
  BY DEF ShowSpecial
<1>4. Akin(was, d, free)
  BY <1>1
<1> HIDE DEF free
<1>5. Aware(was, free) /\ LiveMembers(free, s) \in SUBSET Client
  BY <1>2, <1>4, AwareIs DEF LiveMembers, Normal, Akin, Good, Desk
<1>6. Aware(was, ShowMembers(free, s))
  BY <1>5, ShowAware DEF ShowMembers
<1> QED BY <1>3, <1>6, FocusAware DEF FocusMember

LEMMA CreateAware ==
  ASSUME NEW was, NEW d, Aware(was, d), NEW s \in SpecialNames
  PROVE  Aware(was, Create(d, s))
<1>1. SamePlaces(d, Create(d, s)) /\ Create(d, s).focused = d.focused
  BY AwareKin DEF Desk, Create, SamePlaces
<1> QED BY <1>1, SameInSight, AwareKin, AwareIs, CreateKin

\* A window that becomes an icon passes the keyboard on.
LEMMA MiniaturizeOneAware ==
  ASSUME NEW was, NEW d, Aware(was, d), NEW c
  PROVE  Aware(was, MiniaturizeOne(d, c))
<1> DEFINE e == [d EXCEPT !.minimized = d.minimized \cup {c}]
           h == Hide(e, {c})
<1>0. Akin(was, d, d) /\ Good(was, d) /\ d \in Desk /\ Free(d) /\ InSight(d)
  BY AwareKin
<1>1. CASE c \notin Normal(d)
  BY <1>1 DEF MiniaturizeOne
<1>2. CASE c \in Normal(d)
  <2>1. d.minimized \cup {c} \in SUBSET d.live /\ d.live \subseteq Client
    BY <1>0, <1>2 DEF Good, Desk, Normal
  <2>2. Akin(was, d, e)
    BY <1>0, <2>1, IconsKin
  <2>3. SameBut(c, d, e) /\ e.focused = d.focused
    BY <1>0 DEF Desk, SameBut
  <2>4. MiniaturizeOne(d, c) = FocusSuccessorOf(h, c)
    BY <1>2 DEF MiniaturizeOne
  <2> HIDE DEF e
  <2>5. InSightBut(d, c)
    BY <1>0 DEF InSight, InSightBut
  <2>6. InSightBut(e, c)
    BY <2>1, <2>3, <2>5, ButInSight
  <2>7. Akin(was, d, h) /\ InSightBut(h, c)
    BY <2>2, <2>6, HideKin, MappedInSight DEF Akin, Good
  <2> HIDE DEF h
  <2>8. InSight(FocusSuccessorOf(h, c)) /\ Akin(was, d, FocusSuccessorOf(h, c))
    BY <1>0, <2>7, FocusKin, SuccessorInSight, KinFree DEF Akin
  <2> QED BY <2>4, <2>8, AwareIs
<1> QED BY <1>1, <1>2

\* A window sent to a workspace that is not on screen does.
LEMMA SentAwayInSight ==
  ASSUME NEW was, NEW d, Good(was, d), NEW c \in Client, NEW w \in Workspace, w < d.count,
         InSightBut(d, c)
  PROVE  InSight(SentAway(d, c, w))
<1> DEFINE given == IF d.focused = c THEN FocusAdjacent(d, TRUE) ELSE d
           h == Homed(given, c, w)
           e == Hide(h, {c})
<1>1. Good(was, given) /\ given \in Desk
  BY FocusAdjacentGood DEF Good
<1>2. InSightBut(given, c) /\ w < given.count
  <2>1. d \in Desk
    BY DEF Good
  <2>2. \A k : InSightBut(FocusClient(d, k), c)
    BY <2>1, FocusOnInSight DEF FocusClient
  <2>3. InSightBut(FocusAdjacent(d, TRUE), c)
    BY <2>2 DEF FocusAdjacent, FocusIfAny
  <2>4. FocusAdjacent(d, TRUE).count = d.count
    BY <2>1, FocusSame DEF SameScreen, SameHomes
  <2> QED BY <2>3, <2>4
<1>3. SentAway(d, c, w) = DropFocusOf(e, c)
  BY DEF SentAway
<1> HIDE DEF given
<1>4. SameBut(c, given, h) /\ h \in Desk /\ h.focused = given.focused
  BY <1>1, <1>2, HomedBut, HomedGood DEF Good, Desk, Homed
<1>5. InSightBut(h, c)
  BY <1>1, <1>2, <1>4, ButInSight DEF Desk
<1> HIDE DEF h
<1>6. InSightBut(e, c) /\ e \in Desk
  <2>1. e \in Desk
    BY <1>4 DEF Hide, Desk
  <2> QED BY <1>4, <1>5, <2>1, MappedInSight
<1> HIDE DEF e
<1>7. InSight(DropFocusOf(e, c))
  BY <1>6, DropInSight DEF DropFocusOf, InSight, InSightBut
<1> QED BY <1>3, <1>7

\* And so does one moved to any workspace: on the one on screen it is in sight.
LEMMA MoveOneToWorkspaceAware ==
  ASSUME NEW was, NEW d, Aware(was, d), NEW c \in Client, NEW w \in Nat
  PROVE  Aware(was, MoveOneToWorkspace(d, c, w))
<1> DEFINE e == MoveOneToWorkspace(d, c, w)
           grown == Grown(d, w)
           out   == LeaveSpecial(grown, c)
           home  == Homed(out, c, w)
<1>0. Akin(was, d, d) /\ Good(was, d) /\ d \in Desk /\ Free(d) /\ InSight(d) /\ d.live \subseteq Client
  BY AwareKin DEF Desk
<1>1. CASE TooFar(w)
  BY <1>1 DEF MoveOneToWorkspace
<1>2. CASE ~TooFar(w)
  <2>1. w \in Workspace /\ Good(was, grown)
    BY <1>0, <1>2, InRange, GrownGood
  <2>2. SamePlaces(d, grown) /\ grown.focused = d.focused
    <3>1. grown.focused = d.focused
      BY <1>0 DEF Desk, Grown
    <3> QED BY <1>0, <2>1, <3>1, GrownIs DEF SameSession, SamePlaces
  <2>3. Good(was, out) /\ w < out.count
    BY <1>0, <2>1, LeaveSpecialGood, LeftRow DEF Good
  <2>4. /\ SameBut(c, grown, out) /\ out.focused = d.focused /\ out.special[c] = NoSpecial
        /\ out.live = d.live /\ out.minimized = d.minimized /\ out.sticky = d.sticky
        /\ out.current = d.current
    <3>1. LET o == LeaveSpecial(grown, c) IN
          /\ SameSession(grown, o) /\ o.special = [grown.special EXCEPT ![c] = NoSpecial]
          /\ o.minimized = grown.minimized /\ o.sticky = grown.sticky
          /\ o.current = grown.current /\ o.focused = grown.focused
      BY <2>1, LeaveSpecialSame DEF Good
    <3>2. SameBut(c, grown, out)
      BY <2>1, HomedBut DEF Good
    <3>3. grown.special \in [Client -> SpecialOrNone]
      BY <2>1 DEF Good, Desk
    <3> QED BY <2>2, <3>1, <3>2, <3>3 DEF SamePlaces, SameSession
  <2>5. e = IF d.workspace[c] = w /\ d.special[c] = NoSpecial THEN grown
            ELSE IF w # d.current /\ c \notin d.sticky THEN SentAway(out, c, w)
            ELSE IF d.special[c] # NoSpecial /\ c \in Normal(d) THEN Show(home, {c}) ELSE home
    BY <1>2 DEF MoveOneToWorkspace
  <2>6. InSight(grown) /\ InSightBut(grown, c) /\ grown.live \subseteq Client
    BY <1>0, <2>1, <2>2, SameInSight DEF InSight, InSightBut, Good, Desk
  <2> HIDE DEF grown
  <2>7. InSightBut(out, c)
    BY <2>2, <2>4, <2>6, ButInSight
  <2> HIDE DEF out
  <2>8. InSight(SentAway(out, c, w))
    BY <2>1, <2>3, <2>7, SentAwayInSight
  <2>9. /\ SameBut(c, out, home) /\ home \in Desk /\ home.focused = d.focused
        /\ home.live = d.live /\ home.minimized = d.minimized /\ home.sticky = d.sticky
        /\ home.current = d.current /\ home.special[c] = NoSpecial /\ home.workspace[c] = w
    <3>1. home.focused = d.focused
      BY <2>3, <2>4 DEF Homed, Good, Desk
    <3> QED BY <2>1, <2>3, <2>4, <3>1, HomedBut, HomedGood DEF Good
  <2> HIDE DEF home
  <2>10. CASE ~(w # d.current /\ c \notin d.sticky)
    <3>1. c = d.focused => c \in OnScreen(home)
      <4>1. ASSUME c = d.focused PROVE c \in Normal(d)
        BY <1>0, <4>1, NumClientsAssumption DEF InSight, OnScreen, Client, NoClient
      <4> QED BY <2>9, <2>10, <4>1 DEF OnScreen, Normal, Placed
    <3>2. InSight(home)
      BY <1>0, <2>4, <2>7, <2>9, <3>1, ButInSight
    <3>3. InSight(Show(home, {c}))
      BY <2>9, <3>2, MappedInSight
    <3> QED BY <1>0, <2>5, <2>6, <2>10, <3>2, <3>3, AwareIs, MoveOneToWorkspaceKin
  <2>11. CASE w # d.current /\ c \notin d.sticky
    BY <1>0, <2>5, <2>6, <2>8, <2>11, AwareIs, MoveOneToWorkspaceKin
  <2> QED BY <2>10, <2>11
<1> QED BY <1>1, <1>2

\* What enrolling a window in a special changes: its own place.
LEMMA EnrolledBut ==
  ASSUME NEW was, NEW d, Good(was, d), NEW c \in d.live, NEW s \in SpecialNames
  PROVE  LET in == Enrolled(d, c, s) IN
         /\ SameBut(c, d, in) /\ in.focused = d.focused /\ in.special[c] = s
         /\ in.shown = d.shown /\ in.current = d.current /\ in.mapped = d.mapped
         /\ in.live = d.live /\ in.minimized = d.minimized /\ in.history = d.history
         /\ in.noFocus = d.noFocus /\ in.sticky = d.sticky
<1> DEFINE out == LeaveSpecial(d, c)
           in  == [out EXCEPT !.special[c] = s, !.members[s] = Append(@, c)]
<1>0. c \in Client /\ Enrolled(d, c, s) = in
  BY DEF Good, Desk, Enrolled
<1>1. Good(was, out) /\ Good(was, in)
  BY <1>0, LeaveSpecialGood, EnrolledGood
<1>2. /\ out.live = d.live /\ out.minimized = d.minimized /\ out.shown = d.shown
      /\ out.current = d.current /\ out.sticky = d.sticky /\ out.focused = d.focused
      /\ out.history = d.history /\ out.mapped = d.mapped /\ SameBut(c, d, out)
  <2>1. d \in Desk
    BY DEF Good
  <2>2. SameBut(c, d, out)
    BY <1>0, <2>1, HomedBut, MaxWorkspacesAssumption DEF Desk
  <2> QED BY <1>0, <2>1, <2>2, LeaveSpecialSame DEF SameSession
<1>3. out.noFocus = d.noFocus
  BY DEF LeaveSpecial, Good, Desk
<1> HIDE DEF out
<1>4. /\ in.shown = out.shown /\ in.current = out.current /\ in.live = out.live
      /\ in.minimized = out.minimized /\ in.sticky = out.sticky /\ in.mapped = out.mapped
      /\ in.workspace = out.workspace /\ in.special = [out.special EXCEPT ![c] = s]
      /\ in.focused = out.focused /\ in.history = out.history /\ in.noFocus = out.noFocus
  BY <1>1 DEF Good, Desk
<1>5. out.special \in [Client -> SpecialOrNone]
  BY <1>1 DEF Good, Desk
<1> HIDE DEF in
<1>6. SameBut(c, out, in) /\ in.special[c] = s
  BY <1>0, <1>4, <1>5 DEF SameBut
<1>7. SameBut(c, d, in)
  BY <1>2, <1>6, SameButChain
<1> QED BY <1>0, <1>2, <1>3, <1>4, <1>6, <1>7

\* A window moved to a special that is not shown passes the keyboard on.
LEMMA MoveOneToSpecialAware ==
  ASSUME NEW was, NEW d, Aware(was, d), NEW c \in d.live, NEW s \in SpecialNames
  PROVE  Aware(was, MoveOneToSpecial(d, c, s))
<1> DEFINE in == Enrolled(d, c, s)
           given == FocusSuccessorOf(in, c)
<1>0. /\ Akin(was, d, d) /\ Good(was, d) /\ d \in Desk /\ Free(d) /\ InSight(d)
      /\ d.live \subseteq Client /\ c \in Client /\ s # NoSpecial
  BY AwareKin, NoSpecialAssumption DEF Desk
<1>1. /\ SameBut(c, d, in) /\ in.focused = d.focused /\ in.special[c] = s /\ in.shown = d.shown
      /\ in.live = d.live /\ in.minimized = d.minimized
  BY <1>0, EnrolledBut
<1>2. Good(was, in) /\ Free(in) /\ in \in Desk
  <2>1. Akin(was, d, in)
    BY <1>0, EnrolledKin
  <2> QED BY <1>0, <2>1, KinFree DEF Akin, Good
<1>3. MoveOneToSpecial(d, c, s) = IF d.special[c] = s THEN d
        ELSE IF d.shown = s THEN IF c \in Normal(d) THEN Show(in, {c}) ELSE in
        ELSE Hide(given, {c})
  BY DEF MoveOneToSpecial, Enrolled
<1> HIDE DEF in
<1>4. InSightBut(in, c)
  <2>1. InSightBut(d, c)
    BY <1>0 DEF InSight, InSightBut
  <2> QED BY <1>0, <1>1, <2>1, ButInSight
<1>5. CASE d.shown = s
  <2>1. c = in.focused => c \in OnScreen(in)
    BY <1>0, <1>1, <1>5, NumClientsAssumption DEF InSight, OnScreen, Normal, Placed, Client, NoClient
  <2>2. InSight(in)
    BY <1>4, <2>1 DEF InSight, InSightBut
  <2>3. InSight(Show(in, {c}))
    BY <1>2, <2>2, MappedInSight
  <2>4. InSight(MoveOneToSpecial(d, c, s))
    BY <1>0, <1>3, <1>5, <2>2, <2>3
  <2> QED BY <1>0, <2>4, MoveOneToSpecialKin, AwareIs
<1>6. CASE d.shown # s
  <2>1. InSight(given) /\ given \in Desk
    BY <1>2, <1>4, SuccessorInSight, FocusSuccessorOfGood DEF Good
  <2> HIDE DEF given
  <2>2. InSight(Hide(given, {c}))
    BY <2>1, MappedInSight
  <2>4. InSight(MoveOneToSpecial(d, c, s))
    BY <1>0, <1>3, <1>6, <2>2
  <2> QED BY <1>0, <2>4, MoveOneToSpecialKin, AwareIs
<1> QED BY <1>5, <1>6

\* A window back from its icon did not have the keyboard.
LEMMA DeminiaturizeOneAware ==
  ASSUME NEW was, NEW d, Aware(was, d), NEW c \in d.live
  PROVE  Aware(was, DeminiaturizeOne(d, c))
<1> DEFINE i == [d EXCEPT !.minimized = d.minimized \ {c}]
           up == MoveOneToWorkspace(i, c, d.current)
<1>0. /\ Akin(was, d, d) /\ Good(was, d) /\ d \in Desk /\ InSight(d) /\ c \in Client
      /\ d.live \subseteq Client
  BY AwareKin DEF Desk
<1>1. CASE c \notin d.minimized
  BY <1>1 DEF DeminiaturizeOne
<1>2. CASE c \in d.minimized
  <2>1. d.minimized \ {c} \in SUBSET d.live /\ d.current \in Nat
    BY <1>0, MaxWorkspacesAssumption DEF Good, Desk, Workspace
  <2>2. Akin(was, d, i)
    BY <1>0, <2>1, IconsKin
  <2>3. SameBut(c, d, i) /\ i.focused = d.focused
    BY <1>0 DEF Desk, SameBut
  <2>4. DeminiaturizeOne(d, c) = FocusClient(Show(up, {c}), c)
    <3>1. i.current = d.current
      BY <1>0 DEF Desk
    <3> QED BY <1>2, <3>1 DEF DeminiaturizeOne
  <2> HIDE DEF i
  <2>5. InSight(i)
    <3>1. d.focused # c /\ InSightBut(d, c)
      BY <1>0, <1>2, NumClientsAssumption DEF InSight, InSightBut, OnScreen, Normal, Client, NoClient
    <3> QED BY <1>0, <2>3, <3>1, ButInSight
  <2>6. Aware(was, up)
    BY <1>0, <2>1, <2>2, <2>5, AwareIs, MoveOneToWorkspaceAware
  <2> HIDE DEF up
  <2>7. {c} \in SUBSET Client
    BY <1>0
  <2>8. Aware(was, Show(up, {c}))
    BY <2>6, <2>7, ShowAware
  <2> QED BY <2>4, <2>8, FocusAware
<1> QED BY <1>1, <1>2

\* So a family operation keeps the focused window in sight.
LEMMA ForFamilyAware ==
  ASSUME NEW op \in Ops, NEW was, NEW d, Aware(was, d), NEW c \in was.live
  PROVE  Aware(was, ForFamily(op, d, c))
<1> DEFINE V == {e \in Desk : Aware(was, e)}
<1>1. \A e : e \in V <=> Aware(was, e)
  BY DEF Aware, Good
<1> HIDE DEF V
<1>2. ASSUME NEW e \in V, NEW a \in was.live PROVE Step(op, e, a) \in V
  <2>1. Aware(was, e) /\ a \in e.live /\ a \in Client
    BY <1>1, <1>2 DEF Aware, Good, Desk, SameSession
  <2>2. CASE op = ToIcon
    BY <1>1, <2>1, <2>2, MiniaturizeOneAware DEF Step, ToIcon
  <2>3. CASE op = FromIcon
    BY <1>1, <2>1, <2>3, DeminiaturizeOneAware DEF Step, FromIcon
  <2>4. ASSUME NEW w \in Nat, op = ToWorkspace(w) PROVE Step(op, e, a) \in V
    <3>1. Step(op, e, a) = MoveOneToWorkspace(e, a, w)
      BY <2>4 DEF Step, ToWorkspace
    <3> QED BY <1>1, <2>1, <3>1, MoveOneToWorkspaceAware
  <2>5. ASSUME NEW s \in SpecialNames, op = ToSpecial(s) PROVE Step(op, e, a) \in V
    <3>1. Step(op, e, a) = MoveOneToSpecial(e, a, s)
      BY <2>5 DEF Step, ToSpecial
    <3> QED BY <1>1, <2>1, <3>1, MoveOneToSpecialAware
  <2> QED BY <2>2, <2>3, <2>4, <2>5 DEF Ops
<1>3. FamilyOrder(d, c) \in Seq(was.live)
  <2>1. d \in Desk /\ d.live = was.live
    BY DEF Aware, Good, SameSession
  <2> QED BY <2>1, FamilyOrderType
<1>4. ForFamily(op, d, c) \in V
  BY <1>1, <1>2, <1>3, ForEachKeeps DEF ForFamily
<1> QED BY <1>1, <1>4

LEMMA MoveToSpecialAware ==
  ASSUME NEW was, NEW d, Aware(was, d), NEW c \in was.live, NEW s \in SpecialNames, NEW follow
  PROVE  Aware(was, MoveToSpecial(d, c, s, follow))
<1> DEFINE moved == ForFamily(ToSpecial(s), Create(d, s), c)
<1>1. ToSpecial(s) \in Ops
  BY DEF Ops
<1>2. Aware(was, moved)
  BY <1>1, CreateAware, ForFamilyAware
<1>3. MoveToSpecial(d, c, s, follow) \in {moved, FocusClient(ShowSpecial(moved, s), c)}
  BY DEF MoveToSpecial, Followed
<1> HIDE DEF moved
<1>4. Aware(was, ShowSpecial(moved, s))
  BY <1>2, ShowSpecialAware
<1>5. Aware(was, FocusClient(ShowSpecial(moved, s), c))
  BY <1>4, FocusAware
<1> QED BY <1>2, <1>3, <1>5

\* After a switch the keyboard stays in sight or goes to a window that is.
LEMMA KeyboardForInSight ==
  ASSUME NEW was, NEW d, Good(was, d), Free(d), d.focused # NoClient => d.focused \in Normal(d),
         NEW arriving
  PROVE  InSight(KeyboardFor(d, arriving))
<1>0. d \in Desk
  BY DEF Good
<1>1. CASE d.focused # NoClient /\ Placed(d, d.focused)
  BY <1>1 DEF KeyboardFor, InSight, OnScreen
<1>2. CASE ~(d.focused # NoClient /\ Placed(d, d.focused)) /\ arriving \in Focusable(d)
  <2>1. arriving \in Client
    BY <1>0, <1>2 DEF Focusable, OnScreen, Normal, Desk
  <2>2. KeyboardFor(d, arriving) = FocusOn(d, arriving)
    BY <1>0, <1>2, <2>1, FreeTarget DEF KeyboardFor, FocusClient
  <2> QED BY <1>0, <1>2, <2>2, FocusOnInSight
<1>3. CASE ~(d.focused # NoClient /\ Placed(d, d.focused)) /\ arriving \notin Focusable(d)
  <2>1. KeyboardFor(d, arriving) = IF d.focused # NoClient THEN FocusSuccessorOf(d, d.focused)
                                   ELSE FocusIfAny(d, Successor(d, NoClient))
    BY <1>3 DEF KeyboardFor
  <2>2. InSight(FocusSuccessorOf(d, d.focused))
    BY SuccessorInSight DEF InSightBut
  <2>3. d.focused = NoClient => InSight(FocusIfAny(d, Successor(d, NoClient)))
    BY <1>0, FocusInSight DEF InSight
  <2> QED BY <2>1, <2>2, <2>3
<1> QED BY <1>1, <1>2, <1>3

\* So a switch of workspace keeps the focused window in sight.
LEMMA SwitchToAware ==
  ASSUME NEW was, NEW d, Aware(was, d), NEW w \in Nat, NEW arriving
  PROVE  Aware(was, SwitchTo(d, w, arriving))
<1> DEFINE bare == IF HideSpecialOnSwitch THEN HideSpecial(d) ELSE d
           there == Entered(bare, w)
           drawn == Redrawn(there)
<1>1. CASE TooFar(w) \/ w = d.current
  BY <1>1 DEF SwitchTo
<1>2. CASE ~(TooFar(w) \/ w = d.current)
  <2>1. w \in Workspace /\ Aware(was, bare)
    BY <1>2, InRange, HideSpecialAware
  <2>2. SwitchTo(d, w, arriving) = KeyboardFor(drawn, arriving)
    BY <1>2 DEF SwitchTo
  <2> HIDE DEF bare
  <2>3. Akin(was, bare, bare) /\ bare \in Desk /\ Free(bare) /\ InSight(bare)
    BY <2>1, AwareKin
  <2>4. Akin(was, bare, there)
    BY <2>1, <2>3, EnteredKin
  <2>5. Normal(there) = Normal(bare) /\ there.focused = bare.focused
    <3>1. /\ there.live = bare.live /\ there.minimized = bare.minimized
          /\ there.focused = bare.focused
      BY <2>3 DEF Entered, Grown, Desk
    <3> QED BY <3>1 DEF Normal
  <2> HIDE DEF there
  <2>6. Akin(was, bare, drawn)
    BY <2>4, RedrawnGood, FieldsKin DEF Akin, SameKin, Good
  <2>7. Normal(drawn) = Normal(bare) /\ drawn.focused = bare.focused
    <3>1. drawn.live = there.live /\ drawn.minimized = there.minimized /\ drawn.focused = there.focused
      BY <2>4 DEF Redrawn, Akin, Good, Desk
    <3> QED BY <2>5, <3>1 DEF Normal
  <2> HIDE DEF drawn
  <2>8. InSight(KeyboardFor(drawn, arriving))
    BY <2>3, <2>6, <2>7, KeyboardForInSight, KinFree DEF Akin, InSight, OnScreen
  <2> QED BY <2>1, <2>2, <2>6, <2>8, KeyboardForKin, AwareIs
<1> QED BY <1>1, <1>2

\* What is on screen stays on screen when a workspace is merged away.
LEMMA MergedScreen ==
  ASSUME NEW was, NEW d, Good(was, d), NEW w
  PROVE  LET merged == Merged(d, w) IN
         /\ merged.focused = d.focused /\ OnScreen(d) \subseteq OnScreen(merged)
<1> DEFINE merged == Merged(d, w)
<1>1. /\ merged.live = d.live /\ merged.minimized = d.minimized /\ merged.sticky = d.sticky
      /\ merged.special = d.special /\ merged.shown = d.shown
      /\ merged.current = Remap(w, d.current) /\ merged.focused = d.focused
      /\ merged.workspace = [c \in Client |-> Remap(w, d.workspace[c])]
  BY DEF Good, Desk, Merged
<1>2. d.live \subseteq Client
  BY DEF Good, Desk
<1> HIDE DEF merged
<1>3. \A c \in Client : merged.workspace[c] = Remap(w, d.workspace[c])
  BY <1>1
<1>4. OnScreen(d) \subseteq OnScreen(merged)
  BY <1>1, <1>2, <1>3 DEF OnScreen, Normal, Placed
<1> QED BY <1>1, <1>4 DEF merged

LEMMA WithoutWorkspaceAware ==
  ASSUME NEW was, NEW d, Aware(was, d), d.count > 1, NEW w \in Nat, w < d.count
  PROVE  Aware(was, WithoutWorkspace(d, w))
<1> DEFINE merged == Merged(d, w)
           joined == Show(merged, Revealed(d, merged))
<1>0. Akin(was, d, d) /\ Good(was, d) /\ InSight(d)
  BY AwareKin
<1>1. Good(was, merged) /\ merged \in Desk
  BY <1>0, MergedGood DEF Good
<1>2. InSight(merged)
  BY <1>0, MergedScreen DEF InSight
<1>3. WithoutWorkspace(d, w) \in {joined, FocusIfAny(joined, Successor(joined, NoClient))}
  BY DEF WithoutWorkspace, FocusSomebody
<1>5. Revealed(d, merged) \in SUBSET Client
  BY <1>0 DEF Revealed, Normal, Good, Desk
<1> HIDE DEF merged
<1>4. InSight(joined) /\ joined \in Desk
  BY <1>1, <1>2, <1>5, MappedInSight, ShowGood DEF Good
<1> HIDE DEF joined
<1>6. InSight(WithoutWorkspace(d, w))
  BY <1>3, <1>4, FocusInSight
<1> QED BY <1>0, <1>6, WithoutWorkspaceKin, AwareIs

\* Bringing a window on screen takes the keyboard along or leaves it in sight.
LEMMA BroughtAware ==
  ASSUME NEW was, NEW d, Aware(was, d), NEW c
  PROVE  Aware(was, Brought(d, c))
<1>0. Good(was, d)
  BY DEF Aware
<1>1. CASE c \notin Normal(d) \/ Placed(d, c)
  BY <1>1 DEF Brought
<1>2. CASE ~(c \notin Normal(d) \/ Placed(d, c))
  <2>1. c \in Client
    BY <1>0, <1>2 DEF Normal, Good, Desk
  <2>2. d.workspace[c] \in Nat /\ d.special[c] \in SpecialOrNone
    BY <1>0, <2>1, MaxWorkspacesAssumption DEF Good, Desk, Workspace
  <2>3. Aware(was, SwitchTo(d, d.workspace[c], c))
    BY <2>2, SwitchToAware
  <2>4. d.special[c] # NoSpecial => Aware(was, ShowSpecial(d, d.special[c]))
    BY <2>2, ShowSpecialAware DEF SpecialOrNone
  <2>5. Brought(d, c) = IF d.special[c] # NoSpecial THEN ShowSpecial(d, d.special[c])
                        ELSE SwitchTo(d, d.workspace[c], c)
    BY <1>2 DEF Brought
  <2> QED BY <2>3, <2>4, <2>5
<1> QED BY <1>1, <1>2

\* So does restoring one and bringing it there.
LEMMA PresentedAware ==
  ASSUME NEW was, NEW d, Aware(was, d), NEW c
  PROVE  Aware(was, Presented(d, c))
<1>1. Aware(was, Restored(d, c))
  <2>1. CASE c \in d.minimized
    <3>1. c \in was.live /\ FromIcon \in Ops
      BY <2>1 DEF Aware, Good, SameSession, Ops
    <3> QED BY <2>1, <3>1, ForFamilyAware DEF Restored
  <2>2. CASE c \notin d.minimized
    BY <2>2 DEF Restored
  <2> QED BY <2>1, <2>2
<1> QED BY <1>1, BroughtAware, FocusAware DEF Presented, BringIntoView

\* So does an activation, deferred or done.
LEMMA ActivateClientAware ==
  ASSUME NEW was, NEW d, Aware(was, d), NEW c \in Client
  PROVE  Aware(was, ActivateClient(d, c))
<1> DEFINE asked == [d EXCEPT !.urgent = d.urgent \cup {c}]
<1>0. Akin(was, d, d) /\ Good(was, d) /\ d \in Desk /\ InSight(d)
  BY AwareKin
<1>1. SamePlaces(d, asked) /\ asked.focused = d.focused
  BY <1>0 DEF Desk, SamePlaces
<1>2. InSight(asked)
  BY <1>0, <1>1, SameInSight
<1>3. ActivateClient(d, c) \in {d, asked, Presented(d, c)}
  BY DEF ActivateClient
<1>4. ActivateClient(d, c) = asked => Aware(was, ActivateClient(d, c))
  BY <1>0, <1>2, ActivateClientKin, AwareIs
<1> QED BY <1>3, <1>4, PresentedAware

\* Opening, turning and closing the switcher move neither window nor keyboard.
LEMMA CycleSame ==
  ASSUME NEW d \in Desk, NEW delta, NEW c
  PROVE  /\ SamePlaces(d, CycleBy(d, delta)) /\ CycleBy(d, delta).focused = d.focused
         /\ SamePlaces(d, CycleClosed(d)) /\ CycleClosed(d).focused = d.focused
         /\ SamePlaces(d, CycleWithout(d, c)) /\ CycleWithout(d, c).focused = d.focused
<1> DEFINE Same(e) == SamePlaces(d, e) /\ e.focused = d.focused
<1>1. /\ Same(d) /\ \A session : Same([d EXCEPT !.cycle = session])
      /\ \A session, on : Same([d EXCEPT !.cycle = session, !.grabbed = on])
  BY DEF Desk, SamePlaces
<1>2. Same(CycleBy(d, delta)) /\ Same(CycleClosed(d))
  <2> HIDE DEF Same
  <2> QED BY <1>1 DEF CycleBy, Turned, CycleClosed
<1>3. Same(CycleWithout(d, c))
  <2> DEFINE order == Without(d.cycle.order, c)
             selected == IF d.cycle.selected > Len(order) - 1 THEN Len(order) - 1
                         ELSE d.cycle.selected
             session == [d.cycle EXCEPT !.order = order, !.selected = selected]
             e == [d EXCEPT !.cycle = session]
  <2>1. d.cycle \in CycleSession
    BY DEF Desk
  <2> HIDE DEF Same
  <2>2. CASE ~d.cycle.open
    BY <1>1, <2>2 DEF CycleWithout
  <2>3. CASE order = <<>> /\ d.cycle.open
    BY <1>2, <2>3 DEF CycleWithout
  <2>4. CASE order # <<>> /\ d.cycle.open
    <3>1. CycleWithout(d, c) = e
      <4> HIDE DEF order
      <4> QED BY <2>1, <2>4 DEF CycleWithout, order, Desk, CycleSession
    <3> HIDE DEF session
    <3> QED BY <1>1, <3>1
  <2> QED BY <2>2, <2>3, <2>4
<1> QED BY <1>2, <1>3

\* Releasing Alt presents the selection.
LEMMA CycleCommittedInSight ==
  ASSUME NEW was, NEW d, Aware(was, d)
  PROVE  InSight(CycleCommitted(d))
<1> DEFINE closed == CycleClosed(d)
<1>0. Good(was, d) /\ d \in Desk /\ Free(d) /\ InSight(d)
  BY AwareKin
<1>1. Good(closed, closed) /\ Free(closed) /\ InSight(closed)
  BY <1>0, CycleClosedGood, CycleKin, KinFree, CycleSame, SameInSight
<1>2. CycleCommitted(d) = Presented(closed, d.cycle.order[d.cycle.selected + 1])
  BY DEF CycleCommitted
<1> HIDE DEF closed
<1> QED BY <1>1, <1>2, PresentedAware DEF Aware

\* A window that settles where its rule, or its parent's special, sends it.
LEMMA SettledAware ==
  ASSUME NEW was, NEW d, Aware(was, d), NEW c \in was.live, NEW p \in ClientOrNone,
         NEW target \in RuleTarget
  PROVE  Aware(was, Settled(d, c, p, target))
<1>0. Good(was, d)
  BY DEF Aware
<1>1. /\ target.kind \in {"inherit", "numbered", "special"}
      /\ target.kind = "numbered" => target.to \in Nat
      /\ target.kind = "special" => target.to \in SpecialNames
  BY DEF RuleTarget
<1>2. CASE target.kind = "numbered"
  <2> DEFINE moved == ForFamily(ToWorkspace(target.to), d, c)
  <2>1. target.to \in Nat /\ ToWorkspace(target.to) \in Ops
    BY <1>1, <1>2 DEF Ops
  <2>2. Aware(was, moved)
    BY <2>1, ForFamilyAware
  <2>3. Settled(d, c, p, target) \in {moved, SwitchTo(moved, target.to, c)}
    BY <1>2 DEF Settled
  <2> HIDE DEF moved
  <2> QED BY <2>1, <2>2, <2>3, SwitchToAware
<1>3. CASE target.kind = "special" /\ CanCreate(d, target.to)
  <2>1. Settled(d, c, p, target) = MoveToSpecial(d, c, target.to, ~target.silent)
    BY <1>3 DEF Settled
  <2> QED BY <1>1, <1>3, <2>1, MoveToSpecialAware
<1>4. CASE ~(target.kind = "numbered" \/ (target.kind = "special" /\ CanCreate(d, target.to)))
  <2>1. Settled(d, c, p, target) = Inherited(d, c, p)
    BY <1>4 DEF Settled
  <2>2. c \in d.live
    BY <1>0 DEF Good, SameSession
  <2>3. p # NoClient /\ d.special[p] # NoSpecial => d.special[p] \in SpecialNames
    BY <1>0 DEF Good, Desk, SpecialOrNone, ClientOrNone
  <2> QED BY <2>1, <2>2, <2>3, MoveOneToSpecialAware DEF Inherited
<1> QED BY <1>2, <1>3, <1>4

\* A fresh window has its own place and not the keyboard.
LEMMA FreshBut ==
  ASSUME NEW was, NEW d, Good(was, d), NEW c \in Client \ d.live, NEW p, NEW modal, NEW rule
  PROVE  LET e == Fresh(d, c, p, modal, rule) IN
         SameBut(c, d, e) /\ e.focused = d.focused /\ c # d.focused
<1> DEFINE e == Fresh(d, c, p, modal, rule)
           sticky == IF rule.pin THEN d.sticky \cup {c} ELSE d.sticky
           home == IF p = NoClient THEN d.current ELSE d.workspace[p]
<1>1. /\ e.live = d.live \cup {c} /\ e.minimized = d.minimized /\ e.sticky = sticky
      /\ e.special = d.special /\ e.workspace = [d.workspace EXCEPT ![c] = home]
      /\ e.shown = d.shown /\ e.current = d.current /\ e.focused = d.focused
  BY DEF Good, Desk, Fresh, home
<1>2. \A k \in Client \ {c} : k \in sticky <=> k \in d.sticky
  OBVIOUS
<1>3. d.workspace \in [Client -> Workspace]
  BY DEF Good, Desk
<1> HIDE DEF e, sticky, home
<1>4. SameBut(c, d, e)
  BY <1>1, <1>2, <1>3 DEF SameBut
<1>5. c # d.focused
  BY FocusedLives, NumClientsAssumption DEF Client, NoClient
<1> QED BY <1>1, <1>4, <1>5 DEF e

\* So an arrival keeps the focused window in sight.
LEMMA MapClientInSight ==
  ASSUME NEW was, NEW d, Good(was, d), Honest(d), InSight(d), NEW c \in Client \ d.live,
         NEW p \in d.live \cup {NoClient}, NEW modal \in BOOLEAN, NEW rule \in MapRule,
         Free(MapClient(d, c, p, modal, rule))
  PROVE  InSight(MapClient(d, c, p, modal, rule))
<1> DEFINE fresh == Fresh(d, c, p, modal, rule)
           homed == Settled(fresh, c, p, rule.target)
<1>1. rule.target \in RuleTarget /\ p \in ClientOrNone /\ d.live \subseteq Client
  BY DEF MapRule, Good, Desk, ClientOrNone
<1>2. Good(fresh, fresh) /\ c \in fresh.live
  BY FreshGood
<1>3. SameKin(fresh, MapClient(d, c, p, modal, rule))
  BY MapClientKin
<1>4. Free(fresh)
  BY <1>3 DEF Free, SameKin
<1>5. InSight(fresh)
  <2>1. InSightBut(d, c)
    BY DEF InSight, InSightBut
  <2>2. SameBut(c, d, fresh) /\ fresh.focused = d.focused /\ c # fresh.focused
    BY FreshBut
  <2> QED BY <1>1, <2>1, <2>2, ButInSight
<1>6. MapClient(d, c, p, modal, rule) \in {homed, FocusClient(homed, c)}
  BY DEF MapClient
<1> HIDE DEF fresh
<1>7. Aware(fresh, homed)
  BY <1>1, <1>2, <1>4, <1>5, SettledAware DEF Aware
<1> HIDE DEF homed
<1> QED BY <1>6, <1>7, FocusAware DEF Aware

\* What an erasure changes: the place of the window, and nobody's keyboard but its.
LEMMA ErasedBut ==
  ASSUME NEW was, NEW d, Good(was, d), NEW c \in Client
  PROVE  LET e == Erased(d, c) IN
         /\ SameBut(c, d, e) /\ e.focused = IF d.focused = c THEN NoClient ELSE d.focused
         /\ e.modal = d.modal \ {c} /\ \A k \in Client : e.parent[k] \in {d.parent[k], NoClient}
<1> DEFINE e == Erased(d, c)
<1>1. /\ e.live = d.live \ {c} /\ e.minimized = d.minimized \ {c} /\ e.sticky = d.sticky \ {c}
      /\ e.special = [d.special EXCEPT ![c] = NoSpecial]
      /\ e.workspace = [d.workspace EXCEPT ![c] = 0]
      /\ e.shown = d.shown /\ e.current = d.current
  BY DEF Good, Desk, Erased
<1>2. /\ e.focused = IF d.focused = c THEN NoClient ELSE d.focused
      /\ e.modal = d.modal \ {c}
      /\ e.parent = [k \in Client |-> IF k = c \/ d.parent[k] = c THEN NoClient ELSE d.parent[k]]
  BY DEF Good, Desk, Erased
<1>3. d.workspace \in [Client -> Workspace] /\ d.special \in [Client -> SpecialOrNone]
  BY DEF Good, Desk
<1> HIDE DEF e
<1>4. SameBut(c, d, e)
  BY <1>1, <1>3 DEF SameBut
<1>5. \A k \in Client : e.parent[k] \in {d.parent[k], NoClient}
  BY <1>2
<1> QED BY <1>2, <1>4, <1>5 DEF e

\* So a departure does.
LEMMA ForgottenInSight ==
  ASSUME NEW was, NEW d, Aware(was, d), NEW c \in Client
  PROVE  InSight(Forgotten(d, c)) /\ Free(Forgotten(d, c))
<1> DEFINE gone    == Erased(d, c)
           settled == IF d.focused = c THEN Inheriting(gone, d.special[c]) ELSE gone
<1>0. Good(was, d) /\ Free(d) /\ InSight(d) /\ d.live \subseteq Client
  BY AwareKin DEF Desk
<1>1. Good(gone, gone)
  BY <1>0, ErasedGood
<1>2. Free(gone)
  BY <1>0, ErasedBut DEF Free
<1>3. InSight(gone)
  <2>1. SameBut(c, d, gone) /\ gone.focused = IF d.focused = c THEN NoClient ELSE d.focused
    BY <1>0, ErasedBut
  <2>2. InSightBut(d, c)
    BY <1>0 DEF InSight, InSightBut
  <2> HIDE DEF gone
  <2>3. CASE d.focused = c
    BY <2>1, <2>3 DEF InSight
  <2>4. CASE d.focused # c
    BY <1>0, <2>1, <2>2, <2>4, ButInSight
  <2> QED BY <2>3, <2>4
<1>4. Forgotten(d, c) = CycleWithout(settled, c)
  BY DEF Forgotten
<1>5. SameKin(gone, Forgotten(d, c))
  BY <1>0, ForgottenKin
<1> HIDE DEF gone
<1>6. Aware(gone, settled)
  BY <1>1, <1>2, <1>3, FocusAware DEF Inheriting, Aware
<1> HIDE DEF settled
<1>7. InSight(CycleWithout(settled, c))
  BY <1>6, CycleSame, SameInSight DEF Aware, Good
<1> QED BY <1>2, <1>4, <1>5, <1>7, KinFree

\* A window unpinned elsewhere passes the keyboard on.
LEMMA PinnedInSight ==
  ASSUME NEW was, NEW d, Aware(was, d), NEW c \in Client, NEW on \in BOOLEAN
  PROVE  InSight(Pinned(d, c, on))
<1> DEFINE sticky == IF on THEN d.sticky \cup {c} ELSE d.sticky \ {c}
           set == [d EXCEPT !.sticky = sticky]
           given == FocusSuccessorOf(set, c)
<1>0. Good(was, d) /\ d \in Desk /\ Free(d) /\ InSight(d)
  BY AwareKin
<1>1. sticky \in SUBSET Client /\ \A k \in Client \ {c} : k \in sticky <=> k \in d.sticky
  BY <1>0 DEF Desk
<1>2. Pinned(d, c, on) = IF (c \in d.sticky) = on THEN d
                         ELSE IF c \notin OnScreen(set) THEN Hide(given, {c})
                         ELSE IF on THEN Show(set, {c}) ELSE set
  BY <1>0 DEF Pinned, Desk
<1> HIDE DEF sticky
<1>3. /\ set \in Desk /\ set.live = d.live
      /\ set.minimized = d.minimized /\ set.sticky = sticky /\ set.special = d.special
      /\ set.workspace = d.workspace /\ set.shown = d.shown /\ set.current = d.current
      /\ set.focused = d.focused
  BY <1>0, <1>1 DEF Desk
<1>4. SameRecords(d, set) /\ Free(set)
  BY <1>0, FieldsKin, KinFree DEF Desk, SameRecords, SameSession, SameHomes
<1> HIDE DEF set
<1>5. Good(was, set)
  BY <1>0, <1>3, <1>4, OtherFields
<1>6. SameBut(c, d, set) /\ d.live \subseteq Client /\ InSightBut(d, c)
  BY <1>0, <1>1, <1>3 DEF SameBut, Desk, InSight, InSightBut
<1>7. InSightBut(set, c) /\ (c \in OnScreen(set) => InSight(set))
  BY <1>3, <1>6, ButInSight
<1>8. CASE c \in OnScreen(set)
  BY <1>0, <1>2, <1>3, <1>7, <1>8, MappedInSight
<1>9. CASE c \notin OnScreen(set)
  <2>1. InSight(given) /\ given \in Desk
    BY <1>4, <1>5, <1>7, SuccessorInSight, FocusSuccessorOfGood DEF Good
  <2> HIDE DEF given
  <2> QED BY <1>0, <1>2, <1>9, <2>1, MappedInSight
<1> QED BY <1>8, <1>9

\* A window with a new parent follows it, and a modal one may take the keyboard.
LEMMA ReparentedInSight ==
  ASSUME NEW was, NEW d, Aware(was, d), NEW c \in was.live, NEW p \in ClientOrNone,
         Free(Reparented(d, c, p))
  PROVE  InSight(Reparented(d, c, p))
<1> DEFINE set == [d EXCEPT !.parent[c] = p]
<1>0. Good(was, d) /\ d \in Desk /\ InSight(d)
  BY AwareKin
<1>1. Good(was, set) /\ SamePlaces(d, set) /\ set.focused = d.focused /\ SameKin(set, Reparented(d, c, p))
  BY <1>0, ReparentedKin
<1> HIDE DEF set
<1>2. Aware(was, set)
  BY <1>0, <1>1, SameInSight DEF Free, SameKin, Aware
<1>3. CASE d.parent[c] = p \/ p = NoClient
  BY <1>2, <1>3 DEF Reparented, set, Aware
<1>4. CASE ~(d.parent[c] = p \/ p = NoClient)
  <2>1. p \in Client
    BY <1>4 DEF ClientOrNone
  <2>2. d.special[p] # NoSpecial => ToSpecial(d.special[p]) \in Ops
    BY <1>0, <2>1 DEF Desk, SpecialOrNone, Ops
  <2>3. d.workspace[p] \in Nat
    BY <1>0, <2>1, MaxWorkspacesAssumption DEF Desk, Workspace
  <2>4. ToWorkspace(d.workspace[p]) \in Ops
    BY <2>3 DEF Ops
  <2>5. Reparented(d, c, p) = IF d.special[p] # NoSpecial
                              THEN ForFamily(ToSpecial(d.special[p]), set, c)
                              ELSE ForFamily(ToWorkspace(d.workspace[p]), set, c)
    BY <1>4 DEF Reparented, set
  <2>6. Aware(was, Reparented(d, c, p))
    BY <1>2, <2>2, <2>4, <2>5, ForFamilyAware
  <2> QED BY <2>6 DEF Aware
<1> QED BY <1>3, <1>4

\* A dialog that becomes modal, or ceases to be.
LEMMA ModalSetInSight ==
  ASSUME NEW was, NEW d, Good(was, d), InSight(d), NEW c \in Client, NEW on \in BOOLEAN
  PROVE  InSight(ModalSet(d, c, on))
<1> DEFINE set == [d EXCEPT !.modal = IF on THEN @ \cup {c} ELSE @ \ {c}]
<1>1. /\ Good(was, set) /\ SamePlaces(d, set) /\ set.focused = d.focused
      /\ ModalSet(d, c, on) \in {set, FocusClient(set, c)}
  BY ModalSetKin
<1> HIDE DEF set
<1>2. InSight(set) /\ set \in Desk
  BY <1>1, SameInSight DEF Good
<1>3. InSight(FocusClient(set, c))
  BY <1>2, FocusInSight
<1> QED BY <1>1, <1>2, <1>3

\* What clients and their windows do keeps the focused window in sight, as long
\* as nobody's dialog turns modal.
LEMMA ClientEventInSight ==
  ASSUME IInv, Free(wm), InSight(wm), Free(wm'), NEW c \in Client, ClientEvent(c)
  PROVE  InSight(wm')
<1>0. Good(wm, wm) /\ Honest(wm) /\ Aware(wm, wm) /\ wm \in Desk
  BY DEF IInv, Aware, Good
<1>1. ASSUME NEW p \in ClientOrNone, NEW modal \in BOOLEAN, NEW rule \in MapRules,
             MapRequest(c, p, modal, rule)
      PROVE  InSight(wm')
  <2>1. rule \in MapRule /\ p \in wm.live \cup {NoClient}
    BY <1>1, MapRulesAssumption DEF MapRequest
  <2>2. c \in Client \ wm.live /\ wm' = MapClient(wm, c, p, modal, rule)
    BY <1>1 DEF MapRequest, FreshSlot, Dispatched
  <2> QED BY <1>0, <2>1, <2>2, MapClientInSight
<1>2. CASE Forget(c)
  BY <1>0, <1>2, ForgottenInSight DEF Forget, Dispatched
<1>3. CASE Activate(c)
  BY <1>0, <1>3, ActivateClientAware DEF Activate, Dispatched, Aware
<1>4. CASE ChromeChanged(c)
  BY <1>0, <1>4, MappedInSight DEF ChromeChanged, Dispatched
<1>5. ASSUME NEW on \in BOOLEAN, SetUrgent(c, on) PROVE InSight(wm')
  <2> DEFINE u == IF on THEN wm.urgent \cup {c} ELSE wm.urgent \ {c}
  <2>1. wm' = [wm EXCEPT !.urgent = u]
    BY <1>5 DEF SetUrgent, Dispatched
  <2> HIDE DEF u
  <2>2. SamePlaces(wm, wm') /\ wm'.focused = wm.focused
    BY <1>0, <2>1 DEF Desk, SamePlaces
  <2> QED BY <2>2, SameInSight
<1>6. ASSUME NEW on \in BOOLEAN, ModalChanged(c, on) PROVE InSight(wm')
  BY <1>0, <1>6, ModalSetInSight DEF ModalChanged, Dispatched
<1>7. ASSUME NEW p \in ClientOrNone, ParentChanged(c, p) PROVE InSight(wm')
  BY <1>0, <1>7, ReparentedInSight DEF ParentChanged, Dispatched
<1> QED BY <1>1, <1>2, <1>3, <1>4, <1>5, <1>6, <1>7 DEF ClientEvent

\* So does what the user does to one window.
LEMMA UserEventInSight ==
  ASSUME IInv, Free(wm), InSight(wm), NEW c \in Client, UserEvent(c)
  PROVE  InSight(wm')
<1>0. Aware(wm, wm)
  BY DEF IInv, Aware
<1>1. CASE Click(c) \/ PointerEnter(c) \/ FocusRequest(c)
  <2>1. wm' \in {FocusClient(wm, FocusTarget(wm, c)), FocusClient(wm, c)}
    BY <1>1 DEF Click, PointerEnter, FocusRequest, Dispatched
  <2> QED BY <1>0, <2>1, FocusAware DEF Aware
<1>2. CASE Miniaturize(c) \/ Deminiaturize(c)
  <2>1. ToIcon \in Ops /\ FromIcon \in Ops
    BY DEF Ops
  <2> QED BY <1>0, <1>2, <2>1, ForFamilyAware DEF Miniaturize, Deminiaturize, Dispatched, Aware
<1>3. ASSUME NEW w \in 0 .. MaxWorkspaces, MoveToWorkspace(c, w) PROVE InSight(wm')
  <2>1. ToWorkspace(w) \in Ops
    BY MaxWorkspacesAssumption DEF Ops
  <2> QED BY <1>0, <1>3, <2>1, ForFamilyAware DEF MoveToWorkspace, Dispatched, Aware
<1>4. ASSUME NEW s \in SpecialNames, NEW follow \in BOOLEAN, MoveClientToSpecial(c, s, follow)
      PROVE  InSight(wm')
  BY <1>0, <1>4, MoveToSpecialAware DEF MoveClientToSpecial, Dispatched, Aware
<1>5. ASSUME NEW on \in BOOLEAN, SetPinned(c, on) PROVE InSight(wm')
  BY <1>0, <1>5, PinnedInSight DEF SetPinned, Dispatched
<1> QED BY <1>1, <1>2, <1>3, <1>4, <1>5 DEF UserEvent

\* And what the user does to the whole desk.
LEMMA DeskEventInSight ==
  ASSUME IInv, Free(wm), InSight(wm), DeskEvent
  PROVE  InSight(wm')
<1>0. Aware(wm, wm) /\ Good(wm, wm) /\ wm \in Desk
  BY DEF IInv, Aware, Good
<1>1. ASSUME NEW forward \in BOOLEAN, FocusNext(forward) PROVE InSight(wm')
  BY <1>0, <1>1, FocusAware DEF FocusNext, Dispatched, Aware
<1>2. ASSUME NEW w \in 0 .. MaxWorkspaces, SwitchWorkspace(w) \/ RemoveWorkspace(w) \/ CarryFocused(w)
      PROVE  InSight(wm')
  <2>0. w \in Nat
    BY MaxWorkspacesAssumption
  <2>1. CASE SwitchWorkspace(w)
    BY <1>0, <2>0, <2>1, SwitchToAware DEF SwitchWorkspace, Dispatched, Aware
  <2>2. CASE RemoveWorkspace(w)
    BY <1>0, <2>0, <2>2, WithoutWorkspaceAware DEF RemoveWorkspace, Dispatched, Aware
  <2>3. CASE CarryFocused(w)
    <3> DEFINE c == wm.focused
               moved == ForFamily(ToWorkspace(w), wm, c)
               there == SwitchTo(moved, w, NoClient)
    <3>1. c \in wm.live /\ c \in Client
      BY <1>0, <2>3, FocusedLives DEF CarryFocused, Good, Desk
    <3>2. ToWorkspace(w) \in Ops
      BY <2>0 DEF Ops
    <3>3. wm' = ActivateClient(there, c)
      BY <2>3 DEF CarryFocused, Dispatched
    <3> HIDE DEF c
    <3>4. Aware(wm, moved)
      BY <1>0, <3>1, <3>2, ForFamilyAware
    <3> HIDE DEF moved
    <3>5. Aware(wm, there)
      BY <2>0, <3>4, SwitchToAware
    <3> HIDE DEF there
    <3> QED BY <3>1, <3>3, <3>5, ActivateClientAware DEF Aware
  <2> QED BY <1>2, <2>1, <2>2, <2>3
<1>3. CASE SwitchToPrevious
  <2>1. wm.previous \in Nat
    BY <1>0, <1>3, MaxWorkspacesAssumption DEF SwitchToPrevious, Desk
  <2> QED BY <1>0, <1>3, <2>1, SwitchToAware DEF SwitchToPrevious, Dispatched, Aware
<1>4. ASSUME NEW delta \in {-1, 1}, SwitchToOccupied(delta) \/ CycleStep(delta)
      PROVE  InSight(wm')
  <2>1. CASE SwitchToOccupied(delta)
    <3> DEFINE w == OccupiedStep(wm, delta)
    <3>1. w \in Nat
      BY <1>0, <2>1, OccupiedStepType DEF SwitchToOccupied
    <3>2. wm' = SwitchTo(wm, w, NoClient)
      BY <2>1 DEF SwitchToOccupied, Dispatched
    <3> HIDE DEF w
    <3> QED BY <1>0, <3>1, <3>2, SwitchToAware DEF Aware
  <2>2. CASE CycleStep(delta)
    BY <1>0, <2>2, CycleSame, SameInSight DEF CycleStep, Dispatched
  <2> QED BY <1>4, <2>1, <2>2
<1>5. ASSUME NEW s \in SpecialNames, ToggleSpecial(s) PROVE InSight(wm')
  <2>1. wm' = HideSpecial(wm) \/ wm' = ShowSpecial(Create(wm, s), s)
    BY <1>5 DEF ToggleSpecial, Dispatched
  <2>2. Aware(wm, HideSpecial(wm)) /\ Aware(wm, ShowSpecial(Create(wm, s), s))
    BY <1>0, HideSpecialAware, CreateAware, ShowSpecialAware
  <2> QED BY <2>1, <2>2 DEF Aware
<1>6. CASE CycleCancel
  BY <1>0, <1>6, CycleSame, SameInSight DEF CycleCancel, Dispatched
<1>7. CASE CycleCommit
  BY <1>0, <1>7, CycleCommittedInSight DEF CycleCommit, Dispatched
<1>8. CASE LockChanges
  BY <1>8 DEF LockChanges, InSight
<1> QED BY <1>1, <1>2, <1>3, <1>4, <1>5, <1>6, <1>7, <1>8 DEF DeskEvent

\* So every step does that begins and ends with no dialog modal.
LEMMA NextInSight ==
  ASSUME IInv, Free(wm), InSight(wm), [Next]_vars, Free(wm')
  PROVE  InSight(wm')
<1>1. CASE Next
  BY <1>1, DeskEventInSight, ClientEventInSight, UserEventInSight DEF Next
<1>2. CASE UNCHANGED vars
  BY <1>2 DEF vars
<1> QED BY <1>1, <1>2

\* No step takes the focused window off the screen while nobody's dialog is
\* modal: only a modal dialog that is not on screen can refuse the keyboard on
\* behalf of the window that should have it (focus_client_with, and every handler
\* that hides, moves or forgets a window).
THEOREM InSightSafety ==
  Spec => [][FocusedOnScreen /\ Free(wm) => FocusedOnScreen' \/ ~Free(wm')]_vars
<1>1. IInv /\ [Next]_vars => [FocusedOnScreen /\ Free(wm) => FocusedOnScreen' \/ ~Free(wm')]_vars
  BY NextInSight DEF FocusedOnScreen, InSight
<1> QED BY <1>1, InitIInv, NextIInv, PTL DEF Spec

\* Where no window asks to be modal none is, and where none names a parent none
\* has one.
NoneModal == wm.modal = {}
NoneRelated == \A c \in Client : wm.parent[c] = NoClient

\* Both are kept by every event, as only the arrival and the two late requests
\* write those fields.
LEMMA NextUnrelated ==
  ASSUME IInv, [Next]_vars
  PROVE  /\ {"modal", "remodal"} \cap Gestures = {} /\ NoneModal => NoneModal'
         /\ {"parent", "reparent"} \cap Gestures = {} /\ NoneRelated => NoneRelated'
<1> DEFINE Kept == /\ {"modal", "remodal"} \cap Gestures = {} /\ NoneModal => NoneModal'
                   /\ {"parent", "reparent"} \cap Gestures = {} /\ NoneRelated => NoneRelated'
<1>0. Good(wm, wm) /\ Honest(wm) /\ wm \in Desk
  BY DEF IInv, Good
<1>1. SameKin(wm, wm') => Kept
  BY DEF SameKin, NoneModal, NoneRelated
<1>2. CASE UNCHANGED vars
  BY <1>1, <1>2 DEF vars, SameKin
<1>3. CASE DeskEvent
  BY <1>1, <1>3, DeskEventKin
<1>4. ASSUME NEW c \in Client, UserEvent(c) PROVE Kept
  BY <1>1, <1>4, UserEventKin
<1>5. ASSUME NEW c \in Client, ClientEvent(c) PROVE Kept
  <2>1. ASSUME NEW p \in ClientOrNone, NEW modal \in BOOLEAN, NEW rule \in MapRules,
               MapRequest(c, p, modal, rule)
        PROVE  Kept
    <3> DEFINE fresh == Fresh(wm, c, p, modal, rule)
    <3>1. rule \in MapRule /\ p \in wm.live \cup {NoClient} /\ c \in Client \ wm.live
      BY <2>1, MapRulesAssumption DEF MapRequest, FreshSlot
    <3>2. wm' = MapClient(wm, c, p, modal, rule)
      BY <2>1 DEF MapRequest, Dispatched
    <3>3. SameKin(fresh, wm')
      BY <1>0, <3>1, <3>2, MapClientKin
    <3>4. fresh.parent = [wm.parent EXCEPT ![c] = p]
          /\ fresh.modal = IF modal THEN wm.modal \cup {c} ELSE wm.modal
      BY <1>0 DEF Fresh, Desk
    <3>5. (p # NoClient => "parent" \in Gestures) /\ (modal => "modal" \in Gestures)
      BY <2>1 DEF MapRequest
    <3> HIDE DEF fresh
    <3>6. wm'.parent = [wm.parent EXCEPT ![c] = p] /\ wm.parent \in [Client -> ClientOrNone]
          /\ wm'.modal = IF modal THEN wm.modal \cup {c} ELSE wm.modal
      BY <1>0, <3>3, <3>4 DEF SameKin, Desk
    <3> QED BY <3>5, <3>6 DEF NoneModal, NoneRelated
  <2>2. CASE Forget(c)
    <3>1. SameKin(Erased(wm, c), wm')
      BY <1>0, <2>2, ForgottenKin DEF Forget, Dispatched
    <3> QED BY <1>0, <3>1, ErasedBut DEF SameKin, NoneModal, NoneRelated
  <2>3. CASE Activate(c) \/ ChromeChanged(c) \/ \E on \in BOOLEAN : SetUrgent(c, on)
    BY <1>1, <2>3, ActivateKin
  <2>4. ASSUME NEW on \in BOOLEAN, ModalChanged(c, on) PROVE Kept
    <3> DEFINE set == [wm EXCEPT !.modal = IF on THEN @ \cup {c} ELSE @ \ {c}]
    <3>1. SameKin(set, wm') /\ "remodal" \in Gestures
      BY <1>0, <2>4, ModalSetKin DEF ModalChanged, Dispatched
    <3>2. set.parent = wm.parent
      BY <1>0 DEF Desk
    <3> HIDE DEF set
    <3> QED BY <3>1, <3>2 DEF SameKin, NoneModal, NoneRelated
  <2>5. ASSUME NEW p \in ClientOrNone, ParentChanged(c, p) PROVE Kept
    <3> DEFINE set == [wm EXCEPT !.parent[c] = p]
    <3>1. SameKin(set, wm') /\ "reparent" \in Gestures
      BY <1>0, <2>5, ReparentedKin DEF ParentChanged, Dispatched
    <3>2. set.modal = wm.modal
      BY <1>0 DEF Desk
    <3> HIDE DEF set
    <3> QED BY <3>1, <3>2 DEF SameKin, NoneModal, NoneRelated
  <2> QED BY <1>5, <2>1, <2>2, <2>3, <2>4, <2>5 DEF ClientEvent
<1> QED BY <1>2, <1>3, <1>4, <1>5 DEF Next

\* At first no window has a parent, and none is modal.
LEMMA InitUnrelated == Init => NoneModal /\ NoneRelated
  BY DEF Init, NoneModal, NoneRelated

\* So where no client asks for a modal dialog, whatever families there are, and
\* where no window has a parent, however many are modal, the focused window is
\* always on screen.
THEOREM FocusSafety ==
  ASSUME \/ {"modal", "remodal"} \cap Gestures = {}
         \/ {"parent", "reparent"} \cap Gestures = {}
  PROVE  Spec => []FocusedOnScreen
<1> DEFINE FInv == IInv /\ Free(wm) /\ InSight(wm)
                   /\ ({"modal", "remodal"} \cap Gestures = {} => NoneModal)
                   /\ ({"parent", "reparent"} \cap Gestures = {} => NoneRelated)
<1>1. Init => FInv
  <2>1. Init => InSight(wm)
    BY DEF Init, InSight
  <2> QED BY <2>1, InitIInv, InitUnrelated DEF NoneModal, Free
<1>2. FInv /\ [Next]_vars => FInv'
  <2> SUFFICES ASSUME FInv, [Next]_vars PROVE FInv'
    OBVIOUS
  <2>1. IInv'
    BY NextIInv
  <2>2. /\ {"modal", "remodal"} \cap Gestures = {} => NoneModal'
        /\ {"parent", "reparent"} \cap Gestures = {} => NoneRelated'
    BY NextUnrelated
  <2>3. Free(wm)'
    BY <2>2 DEF Free, NoneModal, NoneRelated
  <2>4. InSight(wm)'
    BY <2>3, NextInSight
  <2> QED BY <2>1, <2>2, <2>3, <2>4
<1>3. FInv => FocusedOnScreen
  BY DEF FocusedOnScreen, InSight
<1> QED BY <1>1, <1>2, <1>3, PTL DEF Spec

-----------------------------------------------------------------------------
(* The keyboard is never stranded.  A handler that leaves it with nobody     *)
(* leaves nobody on screen who could take it.                                *)

\* Somebody has the keyboard, or nobody on screen can take it.
Manned(d) == d.focused = NoClient => Focusable(d) = {}

\* If the keyboard is stranded afterwards it was stranded before, on the same
\* workspace.  Such operators compose.
Minds(d, e) == ~Manned(e) => ~Manned(d) /\ e.current = d.current

\* If it is, nobody had it before: what a whole handler promises.
NotLost(d, e) == ~Manned(e) => d.focused = NoClient /\ e.current = d.current

\* The same windows are on screen and may have the keyboard.
SameLook(d, e) == SamePlaces(d, e) /\ e.noFocus = d.noFocus

\* Who could have the keyboard follows from the places and the rules.
LEMMA LookIs ==
  ASSUME NEW d, NEW e, SameLook(d, e)
  PROVE  Focusable(e) = Focusable(d) /\ OnScreen(e) = OnScreen(d) /\ e.current = d.current
  BY PlacesOnScreen DEF SameLook, SamePlaces, Focusable

\* What one operator strands another one that minds does not make worse.
LEMMA MindsChain ==
  ASSUME NEW d, NEW e, NEW f, Minds(e, f)
  PROVE  /\ Minds(d, e) => Minds(d, f)
         /\ NotLost(d, e) => NotLost(d, f)
         /\ Manned(e) => Manned(f)
  BY DEF Minds, NotLost

\* To keep the focus and the workspace is enough for a handler, and to keep what
\* is focusable besides is enough for an operator.
LEMMA StillMinds ==
  ASSUME NEW d, NEW e, e.focused = d.focused, e.current = d.current
  PROVE  /\ NotLost(d, e)
         /\ Focusable(e) \subseteq Focusable(d) => Minds(d, e)
  BY DEF Manned, NotLost, Minds

\* An operator that minds is a handler that loses nothing.
LEMMA MindsIsNotLost ==
  ASSUME NEW d, NEW e, Minds(d, e) \/ Manned(e)
  PROVE  NotLost(d, e)
  BY DEF Manned, NotLost, Minds

\* A change of focus changes nothing to look at.
LEMMA FocusLook ==
  ASSUME NEW d \in Desk, NEW c, NEW forward
  PROVE  /\ SameLook(d, FocusOn(d, c)) /\ SameLook(d, FocusClient(d, c))
         /\ SameLook(d, FocusIfAny(d, c)) /\ SameLook(d, HandOver(d, c))
         /\ SameLook(d, DropFocusOf(d, c)) /\ SameLook(d, FocusSuccessorOf(d, c))
         /\ SameLook(d, FocusAdjacent(d, forward)) /\ SameLook(d, DropFocus(d))
<1>1. ASSUME NEW k PROVE SameLook(d, FocusOn(d, k))
  <2> DEFINE h == Remembered(d.history, k)
             u == d.urgent \ {k}
             e == [d EXCEPT !.focused = k, !.history = h, !.seat = k, !.urgent = u]
  <2>1. FocusOn(d, k) \in {d, [d EXCEPT !.seat = k], e}
    BY DEF FocusOn
  <2> HIDE DEF h, u
  <2>2. SameLook(d, d) /\ SameLook(d, [d EXCEPT !.seat = k]) /\ SameLook(d, e)
    BY DEF Desk, SameLook, SamePlaces
  <2> QED BY <2>1, <2>2
<1>2. SameLook(d, DropFocus(d)) /\ SameLook(d, d)
  BY DEF Desk, SameLook, SamePlaces, DropFocus
<1>3. \A k : /\ SameLook(d, FocusClient(d, k)) /\ SameLook(d, FocusIfAny(d, k))
             /\ SameLook(d, HandOver(d, k))
  BY <1>1, <1>2 DEF FocusClient, FocusIfAny, HandOver
<1>4. SameLook(d, DropFocusOf(d, c)) /\ SameLook(d, FocusSuccessorOf(d, c))
  BY <1>2, <1>3 DEF DropFocusOf, FocusSuccessorOf
<1>5. SameLook(d, FocusAdjacent(d, forward))
  BY <1>3 DEF FocusAdjacent
<1> QED BY <1>1, <1>2, <1>3, <1>4, <1>5

\* Nor does what is mapped, and the keyboard stays where it is.
LEMMA MappedLook ==
  ASSUME NEW d \in Desk, NEW S
  PROVE  /\ SameLook(d, Show(d, S)) /\ Show(d, S).focused = d.focused
         /\ SameLook(d, Hide(d, S)) /\ Hide(d, S).focused = d.focused
  BY DEF Desk, Show, Hide, SameLook, SamePlaces

\* So neither strands it.
LEMMA MappedMinds ==
  ASSUME NEW d \in Desk, NEW S
  PROVE  Minds(d, Show(d, S)) /\ Minds(d, Hide(d, S))
  BY MappedLook, LookIs, StillMinds

\* Nor does giving it to somebody, who takes it or is refused it.
LEMMA FocusMinds ==
  ASSUME NEW d \in Desk, NEW c, NEW forward
  PROVE  /\ Minds(d, FocusClient(d, c)) /\ Minds(d, FocusIfAny(d, c))
         /\ Minds(d, FocusAdjacent(d, forward))
<1>1. NoClient \notin Focusable(d)
  BY NumClientsAssumption DEF Desk, Focusable, OnScreen, Normal, Client, NoClient
<1>2. \A k : Minds(d, FocusOn(d, k))
  <2> TAKE k
  <2>1. Focusable(FocusOn(d, k)) = Focusable(d) /\ FocusOn(d, k).current = d.current
    BY FocusLook, LookIs
  <2>2. k \in Focusable(d) => FocusOn(d, k).focused = k
    BY FocusOnInSight
  <2>3. k \notin Focusable(d) => FocusOn(d, k) = d
    BY DEF FocusOn
  <2> QED BY <1>1, <2>1, <2>2, <2>3 DEF Minds, Manned
<1>3. \A k : Minds(d, FocusClient(d, k)) /\ Minds(d, FocusIfAny(d, k))
  BY <1>2 DEF FocusClient, FocusIfAny, Minds
<1> QED BY <1>3 DEF FocusAdjacent

\* Handing it over to a window that can have it, or to nobody when nobody can.
LEMMA HandedOver ==
  ASSUME NEW d \in Desk, Free(d), NEW heir,
         IF heir = NoClient THEN Focusable(d) = {} ELSE heir \in Focusable(d)
  PROVE  Manned(HandOver(d, heir)) /\ Manned(FocusIfAny(d, heir))
<1>1. CASE heir = NoClient
  <2>1. Focusable(DropFocus(d)) = {}
    BY <1>1, FocusLook, LookIs
  <2> QED BY <1>1, <2>1 DEF HandOver, FocusIfAny, Manned
<1>2. CASE heir # NoClient
  <2>1. heir \in Client
    BY <1>2 DEF Desk, Focusable, OnScreen, Normal
  <2>2. FocusClient(d, heir).focused = heir
    BY <1>2, <2>1, FreeTarget, FocusOnInSight DEF FocusClient
  <2> QED BY <1>2, <2>2 DEF HandOver, FocusIfAny, Manned
<1> QED BY <1>1, <1>2

\* A window that may no longer have it passes it on.
LEMMA SuccessorMinds ==
  ASSUME NEW was, NEW d, Good(was, d), Free(d), NEW c, c \notin Focusable(d)
  PROVE  /\ d.focused = c => Manned(FocusSuccessorOf(d, c))
         /\ Minds(d, FocusSuccessorOf(d, c))
         /\ Manned(FocusIfAny(d, Successor(d, NoClient)))
<1>0. d \in Desk /\ NoClient \notin Focusable(d)
  BY NumClientsAssumption DEF Good, Desk, Focusable, OnScreen, Normal, Client, NoClient
<1>1. ASSUME NEW k, k \notin Focusable(d)
      PROVE  LET heir == Successor(d, k) IN
             IF heir = NoClient THEN Focusable(d) = {} ELSE heir \in Focusable(d)
  BY <1>1, SuccessorIs
<1>2. Manned(HandOver(d, Successor(d, c))) /\ Manned(FocusIfAny(d, Successor(d, NoClient)))
  BY <1>0, <1>1, HandedOver
<1> QED BY <1>2 DEF FocusSuccessorOf, Minds

\* The member of an overlay who would get it can have it, and there is one when
\* any member can.
LEMMA RecentMemberIs ==
  ASSUME NEW was, NEW d, Good(was, d), NEW s \in SpecialNames
  PROVE  LET heir == RecentMember(d, s) IN
         /\ heir # NoClient => heir \in Focusable(d)
         /\ heir = NoClient => LiveMembers(d, s) \cap Focusable(d) = {}
<1> DEFINE p == Newest(d.history)
           m == d.members[s]
           q == p \o m
           S == LiveMembers(d, s) \cap Focusable(d)
<1>1. p \in Seq(Client) /\ m \in Seq(Client)
  BY NewestIs DEF Good, Desk, TrueHistory
<1>2. S \subseteq Elements(m) /\ NoClient \notin S /\ S \subseteq Focusable(d)
  BY NumClientsAssumption DEF LiveMembers, Focusable, OnScreen, Normal, Good, Desk, Client, NoClient
<1>3. RecentMember(d, s) = FirstOf(q, S, NoClient)
  BY DEF RecentMember, FirstIn
<1> HIDE DEF p, m, S
<1>4. q \in Seq(Client) /\ Elements(m) \subseteq Elements(q)
  <2>1. q \in Seq(Client)
    BY <1>1
  <2>2. ASSUME NEW i \in DOMAIN m PROVE Len(p) + i \in DOMAIN q /\ q[Len(p) + i] = m[i]
    BY <1>1, <2>2
  <2> QED BY <2>1, <2>2 DEF Elements
<1> HIDE DEF q
<1>5. FirstOf(q, S, NoClient) # NoClient => FirstOf(q, S, NoClient) \in S
  BY <1>4, FirstIs
<1>6. FirstOf(q, S, NoClient) = NoClient => S \cap Elements(q) = {}
  BY <1>2, <1>4, FirstIs
<1> QED BY <1>2, <1>3, <1>4, <1>5, <1>6 DEF S

\* The members of an overlay that is not on screen pass the keyboard on.
LEMMA HideMembersMinds ==
  ASSUME NEW was, NEW d, Good(was, d), Free(d), NEW s \in SpecialNames, d.shown # s
  PROVE  LET e == HideMembers(d, s) IN
         SameLook(d, e) /\ (e.focused = d.focused \/ Manned(e)) /\ Minds(d, e)
<1> DEFINE hidden == Hide(d, LiveMembers(d, s))
           e == HideMembers(d, s)
<1>0. d \in Desk
  BY DEF Good
<1>1. Good(was, hidden) /\ Free(hidden) /\ SameLook(d, hidden) /\ hidden.focused = d.focused
  BY <1>0, HideGood, FieldsKin, KinFree, MappedLook
<1>2. CASE d.focused \in LiveMembers(d, s)
  <2>1. d.focused \notin Focusable(d)
    BY <1>2, NoSpecialAssumption
       DEF LiveMembers, Normal, Focusable, OnScreen, Placed, Good, Desk, MembersHold
  <2>2. d.focused \notin Focusable(hidden)
    BY <1>1, <2>1, LookIs
  <2>3. e = FocusSuccessorOf(hidden, d.focused)
    BY <1>2 DEF HideMembers
  <2> HIDE DEF hidden
  <2>4. Manned(e)
    BY <1>1, <2>2, <2>3, SuccessorMinds
  <2>5. SameLook(hidden, e)
    BY <1>1, <2>3, FocusLook DEF Good
  <2> HIDE DEF e
  <2>6. SameLook(d, e) /\ Minds(d, e)
    BY <1>1, <2>4, <2>5 DEF SameLook, SamePlaces, Minds
  <2> QED BY <2>4, <2>6 DEF e
<1>3. CASE d.focused \notin LiveMembers(d, s)
  <2>1. e = hidden
    BY <1>3 DEF HideMembers
  <2>2. Minds(d, e)
    BY <1>0, <2>1, MappedMinds
  <2> HIDE DEF e, hidden
  <2> QED BY <1>1, <2>1, <2>2 DEF e
<1> QED BY <1>2, <1>3

\* An overlay that leaves the screen takes its members along, and nobody appears.
LEMMA HideSpecialMinds ==
  ASSUME NEW was, NEW d, Good(was, d), Free(d)
  PROVE  Minds(d, HideSpecial(d))
<1> DEFINE here == [d EXCEPT !.shown = NoSpecial]
<1>0. d \in Desk
  BY DEF Good
<1>1. CASE d.shown = NoSpecial
  BY <1>1 DEF HideSpecial, Minds
<1>2. CASE d.shown # NoSpecial
  <2>1. d.shown \in SpecialNames
    BY <1>0, <1>2 DEF Desk, SpecialOrNone
  <2>2. Good(was, here) /\ Free(here)
    BY <1>0, ShownGood, FieldsKin, KinFree DEF SpecialOrNone
  <2>3. Focusable(here) \subseteq Focusable(d) /\ here.focused = d.focused
        /\ here.current = d.current /\ here.shown = NoSpecial
    BY <1>0 DEF Desk, Focusable, OnScreen, Normal, Placed
  <2>4. HideSpecial(d) = HideMembers(here, d.shown)
    BY <1>2 DEF HideSpecial
  <2> HIDE DEF here
  <2>5. Minds(here, HideMembers(here, d.shown))
    BY <1>2, <2>1, <2>2, <2>3, HideMembersMinds
  <2>6. Minds(d, here)
    BY <2>3, StillMinds
  <2> QED BY <2>4, <2>5, <2>6, MindsChain
<1> QED BY <1>1, <1>2

\* An overlay that comes on screen gives the keyboard to the member who can have
\* it, so the members who appear strand nothing.
LEMMA ShowSpecialMinds ==
  ASSUME NEW was, NEW d, Good(was, d), Free(d), NEW s \in SpecialNames
  PROVE  Minds(d, ShowSpecial(d, s))
<1> DEFINE here == [d EXCEPT !.shown = s]
           free == IF d.shown \in {NoSpecial, s} THEN here ELSE HideMembers(here, d.shown)
           up == ShowMembers(free, s)
           heir == RecentMember(up, s)
<1>0. d \in Desk /\ s \in SpecialOrNone /\ s # NoSpecial
  BY NoSpecialAssumption DEF Good, SpecialOrNone
<1>1. Good(was, here) /\ Free(here)
  BY <1>0, ShownGood, FieldsKin, KinFree
<1>2. /\ here.live = d.live /\ here.minimized = d.minimized /\ here.sticky = d.sticky
      /\ here.special = d.special /\ here.workspace = d.workspace /\ here.noFocus = d.noFocus
      /\ here.current = d.current /\ here.shown = s /\ here.focused = d.focused
  BY <1>0 DEF Desk
<1>3. ShowSpecial(d, s) = FocusIfAny(up, heir)
  BY DEF ShowSpecial, FocusMember
<1> HIDE DEF here
<1>4. /\ Good(was, free) /\ Free(free) /\ SameLook(here, free)
      /\ free.focused = d.focused \/ Manned(free)
  <2>1. CASE d.shown \in {NoSpecial, s}
    <3>1. free = here
      BY <2>1
    <3> HIDE DEF free
    <3> QED BY <1>1, <1>2, <3>1 DEF SameLook, SamePlaces
  <2>2. CASE d.shown \notin {NoSpecial, s}
    <3>1. d.shown \in SpecialNames /\ free = HideMembers(here, d.shown)
      BY <1>0, <2>2 DEF Desk, SpecialOrNone
    <3>2. SameLook(here, free) /\ (free.focused = here.focused \/ Manned(free))
      BY <1>1, <1>2, <2>2, <3>1, HideMembersMinds
    <3>3. Akin(was, here, free)
      BY <1>1, <3>1, HideMembersKin DEF Akin, SameKin
    <3> HIDE DEF free
    <3> QED BY <1>1, <1>2, <3>2, <3>3, KinFree DEF Akin
  <2> QED BY <2>1, <2>2
<1> HIDE DEF free
<1>5. /\ Good(was, up) /\ Free(up) /\ SameLook(free, up) /\ up.focused = free.focused
  <2>1. LiveMembers(free, s) \in SUBSET Client /\ free \in Desk
    BY <1>4 DEF LiveMembers, Normal, Good, Desk
  <2>2. Akin(was, free, up)
    BY <1>4, <2>1, ShowKin DEF ShowMembers, Akin, SameKin
  <2> QED BY <1>4, <2>1, <2>2, MappedLook, KinFree DEF ShowMembers, Akin
<1> HIDE DEF up
<1>6. Focusable(up) = Focusable(here) /\ up.current = d.current /\ SamePlaces(here, up)
      /\ Focusable(up) = Focusable(free)
  BY <1>2, <1>4, <1>5, LookIs DEF SameLook, SamePlaces
<1>7. CASE heir # NoClient
  <2>1. heir \in Focusable(up) /\ up \in Desk
    BY <1>5, <1>7, RecentMemberIs DEF Good
  <2> HIDE DEF heir
  <2>2. Manned(FocusIfAny(up, heir))
    BY <1>5, <1>7, <2>1, HandedOver
  <2> QED BY <1>3, <2>2 DEF Minds
<1>8. CASE heir = NoClient
  <2>1. LiveMembers(up, s) \cap Focusable(up) = {}
    BY <1>5, <1>8, RecentMemberIs
  <2>2. ShowSpecial(d, s) = up
    BY <1>3, <1>8 DEF FocusIfAny
  <2>3. Focusable(up) \subseteq Focusable(d)
    <3> SUFFICES ASSUME NEW k \in Focusable(up) PROVE k \in Focusable(d)
      OBVIOUS
    <3>1. k \in Normal(up) /\ k \in Client /\ k \in Focusable(here)
      BY <1>5, <1>6 DEF Focusable, OnScreen, Normal, Good, Desk
    <3>2. k \notin Elements(up.members[s])
      BY <2>1, <3>1 DEF LiveMembers
    <3>3. up.special[k] # s
      BY <1>5, <3>1, <3>2 DEF Good, MembersHold
    <3>4. here.special[k] = NoSpecial
      BY <1>2, <1>6, <3>1, <3>3 DEF SamePlaces, Focusable, OnScreen, Placed
    <3> QED BY <1>2, <3>1, <3>4 DEF Focusable, OnScreen, Normal, Placed
  <2>4. up.focused = d.focused \/ Manned(up)
    BY <1>4, <1>5, <1>6 DEF Manned
  <2> QED BY <1>6, <2>2, <2>3, <2>4, StillMinds DEF Minds
<1> QED BY <1>7, <1>8

\* Nothing else changes when a special is created.
LEMMA CreateMinds ==
  ASSUME NEW d \in Desk, NEW s
  PROVE  /\ SameLook(d, Create(d, s)) /\ Create(d, s).focused = d.focused
         /\ Minds(d, Create(d, s))
<1>1. SameLook(d, Create(d, s)) /\ Create(d, s).focused = d.focused
  BY DEF Desk, Create, SameLook, SamePlaces
<1> QED BY <1>1, LookIs, StillMinds

\* When one window leaves the screen, what the others can take is as before.
LEMMA ButLook ==
  ASSUME NEW d \in Desk, NEW e \in Desk, NEW c, SameBut(c, d, e), e.noFocus = d.noFocus
  PROVE  /\ Focusable(e) \ {c} = Focusable(d) \ {c}
         /\ c \notin OnScreen(e) => Focusable(e) = Focusable(d) \ {c}
<1>1. d.live \subseteq Client /\ e.live \subseteq Client
  BY DEF Desk
<1>2. \A k \in Client \ {c} : k \in Focusable(e) <=> k \in Focusable(d)
  BY DEF SameBut, Focusable, OnScreen, Normal, Placed
<1>3. Focusable(d) \subseteq Client /\ Focusable(e) \subseteq OnScreen(e) \cap Client
  BY <1>1 DEF Focusable, OnScreen, Normal
<1> QED BY <1>2, <1>3

\* A window that leaves the screen passes the keyboard on to one that stays.
LEMMA PassedOn ==
  ASSUME NEW was, NEW d \in Desk, NEW e, Good(was, e), Free(e), NEW c, SameBut(c, d, e),
         e.noFocus = d.noFocus, e.focused = d.focused, c \notin OnScreen(e)
  PROVE  Minds(d, FocusSuccessorOf(e, c)) /\ Minds(d, Hide(FocusSuccessorOf(e, c), {c}))
<1>0. e \in Desk /\ c \notin Focusable(e) /\ e.current = d.current
  BY DEF Good, Focusable, SameBut
<1>1. Focusable(e) \subseteq Focusable(d)
  BY <1>0, ButLook
<1>2. Minds(d, e)
  BY <1>0, <1>1, StillMinds
<1>3. Minds(e, FocusSuccessorOf(e, c)) /\ FocusSuccessorOf(e, c) \in Desk
  BY <1>0, SuccessorMinds, FocusSuccessorOfGood DEF Good
<1> QED BY <1>2, <1>3, MindsChain, MappedMinds

\* A window that becomes an icon leaves the keyboard to its successor.
LEMMA MiniaturizeOneMinds ==
  ASSUME NEW was, NEW d, Good(was, d), Free(d), NEW c
  PROVE  Minds(d, MiniaturizeOne(d, c))
<1> DEFINE e == [d EXCEPT !.minimized = d.minimized \cup {c}]
           h == Hide(e, {c})
<1>0. d \in Desk
  BY DEF Good
<1>1. CASE c \notin Normal(d)
  BY <1>1 DEF MiniaturizeOne, Minds
<1>2. CASE c \in Normal(d)
  <2>1. d.minimized \cup {c} \in SUBSET d.live
    BY <1>2 DEF Good, Normal
  <2>2. Akin(was, d, e)
    BY <2>1, IconsKin DEF Akin, SameKin
  <2>3. SameBut(c, d, e) /\ e.focused = d.focused /\ e.noFocus = d.noFocus /\ c \notin OnScreen(e)
    BY <1>0 DEF Desk, SameBut, OnScreen, Normal
  <2>4. MiniaturizeOne(d, c) = FocusSuccessorOf(h, c)
    BY <1>2 DEF MiniaturizeOne
  <2> HIDE DEF e
  <2>5. Akin(was, d, h) /\ e \in Desk
    BY <2>2, HideKin DEF Akin, Good
  <2>6. SameLook(e, h) /\ h.focused = e.focused
    BY <2>5, MappedLook
  <2> HIDE DEF h
  <2>7. /\ Good(was, h) /\ Free(h) /\ SameBut(c, d, h) /\ h.noFocus = d.noFocus
        /\ h.focused = d.focused /\ c \notin OnScreen(h)
    BY <2>3, <2>5, <2>6, KinFree, LookIs DEF Akin, SameBut, SameLook, SamePlaces
  <2> QED BY <1>0, <2>4, <2>7, PassedOn
<1> QED BY <1>1, <1>2

\* One order after another has everybody of both.
LEMMA JoinedHas ==
  ASSUME NEW p \in Seq(Client), NEW q \in Seq(Client)
  PROVE  Elements(p) \cup Elements(q) \subseteq Elements(p \o q)
<1>1. /\ \A i \in DOMAIN p : i \in DOMAIN (p \o q) /\ (p \o q)[i] = p[i]
      /\ \A i \in DOMAIN q : Len(p) + i \in DOMAIN (p \o q) /\ (p \o q)[Len(p) + i] = q[i]
  OBVIOUS
<1> QED BY <1>1 DEF Elements

\* The focus order leaves nobody out.
LEMMA FocusOrderHas ==
  ASSUME NEW was, NEW d, Good(was, d), NEW S \in SUBSET Client
  PROVE  S \subseteq Elements(FocusOrder(d, S))
<1> DEFINE recent == Keep(Newest(d.history), S)
           others == Keep(Slots, S \ Elements(d.history))
<1>1. Slots \in Seq(Client) /\ Elements(Slots) = Client
  <2>1. NumClients \in Nat /\ Slots = [i \in 1 .. NumClients |-> i]
    BY NumClientsAssumption DEF Slots, Client
  <2>2. Slots \in Seq(Client)
    BY <2>1 DEF Client
  <2>3. Elements(Slots) = Client
    BY <2>1 DEF Elements, Client
  <2> QED BY <2>2, <2>3
<1>2. Newest(d.history) \in Seq(Client) /\ Elements(Newest(d.history)) = Elements(d.history)
  BY NewestIs DEF Good, Desk, TrueHistory
<1>3. recent \in Seq(Client) /\ Elements(recent) = S \cap Elements(d.history)
  BY <1>2, KeepElements, KeepAll
<1>4. others \in Seq(Client) /\ Elements(others) = S \ Elements(d.history)
  <2> DEFINE R == S \ Elements(d.history)
  <2>0. R \subseteq Client
    OBVIOUS
  <2> HIDE DEF R
  <2>1. Keep(Slots, R) \in Seq(Client)
    BY <1>1, KeepElements
  <2>2. Elements(Keep(Slots, R)) = R \cap Client
    BY <1>1, KeepAll
  <2>3. Elements(Keep(Slots, R)) = R
    BY <2>0, <2>2
  <2> QED BY <2>1, <2>3 DEF R
<1>5. FocusOrder(d, S) = recent \o others
  BY DEF FocusOrder
<1> HIDE DEF recent, others
<1> QED BY <1>3, <1>4, <1>5, JoinedHas

\* The neighbour is another client unless there is no other.
LEMMA NeighbourIs ==
  ASSUME NEW order \in Seq(Client), Distinct(order), NEW c
  PROVE  LET next == Neighbour(order, c, TRUE) IN
         /\ next # NoClient => next \in Elements(order)
         /\ next = NoClient => Elements(order) = {}
         /\ next = c /\ next # NoClient => Elements(order) = {c}
<1> DEFINE n == Len(order)
           at == {i \in DOMAIN order : order[i] = c}
           next == Neighbour(order, c, TRUE)
<1>1. n \in Nat /\ DOMAIN order = 1 .. n /\ \A i \in 1 .. n : order[i] \in Client
  OBVIOUS
<1>2. NoClient \notin Client
  BY NumClientsAssumption DEF Client, NoClient
<1> DEFINE pos == (Min(at) % n) + 1
<1>3. next = IF n = 0 THEN NoClient ELSE IF at = {} THEN order[1] ELSE order[pos]
  BY DEF Neighbour
<1>7. at = {} => \A i \in 1 .. n : order[i] # c
  BY <1>1
<1>8. n = 0 => Elements(order) = {}
  BY <1>1 DEF Elements
<1>9. \A i \in 1 .. n : order[i] \in Elements(order)
  BY <1>1 DEF Elements
<1> HIDE DEF n, pos, next
<1>4. CASE n = 0
  <2>1. next = NoClient
    BY <1>3, <1>4
  <2> QED BY <1>4, <1>8, <2>1 DEF next
<1>5. CASE n # 0 /\ at = {}
  <2> HIDE DEF at
  <2>0. 1 \in 1 .. n
    BY <1>1, <1>5
  <2>1. next = order[1] /\ order[1] # c /\ order[1] \in Elements(order) /\ order[1] \in Client
    BY <1>1, <1>3, <1>5, <1>7, <1>9, <2>0
  <2> QED BY <1>2, <2>1 DEF next
<1>6. CASE n # 0 /\ at # {}
  <2> DEFINE i == Min(at)
  <2>1. i \in 1 .. n /\ order[i] = c
    <3>1. at \in SUBSET (1 .. n)
      BY <1>1
    <3>2. Min(at) \in at
      BY <1>1, <1>6, <3>1, FirstPlace
    <3> QED BY <1>1, <3>2
  <2>2. next = order[(i % n) + 1]
    BY <1>3, <1>6 DEF pos
  <2> HIDE DEF i, at
  <2>3. i % n \in 0 .. (n - 1) /\ (i % n) + 1 \in 1 .. n
    BY <1>1, <1>6, <2>1
  <2>4. i < n => i % n = i
    BY ONLY <1>1, <1>6, <2>1
  <2>5. i = n => i % n = 0
    BY ONLY <1>1, <1>6, <2>1
  <2>6. next \in Elements(order) /\ next \in Client
    BY <1>1, <1>9, <2>2, <2>3
  <2>7. ASSUME next = c PROVE n = 1
    <3>1. (i % n) + 1 = i
      BY <1>1, <2>1, <2>2, <2>3, <2>7 DEF Distinct
    <3> QED BY <1>1, <2>1, <2>4, <2>5, <3>1
  <2>8. n = 1 => Elements(order) = {c}
    BY <1>1, <2>1 DEF Elements
  <2> QED BY <1>2, <2>6, <2>7, <2>8 DEF next
<1> QED BY <1>4, <1>5, <1>6

\* The neighbour of a window that is about to leave takes the keyboard from it,
\* unless nobody else can.
LEMMA AdjacentManned ==
  ASSUME NEW was, NEW d, Good(was, d), Free(d), NEW c \in Client, d.focused = c
  PROVE  LET given == FocusAdjacent(d, TRUE) IN
         (given.focused = c => Focusable(d) \subseteq {c}) /\ given.focused # NoClient
<1> DEFINE order == FocusOrder(d, Focusable(d))
           next == Neighbour(order, d.focused, TRUE)
           given == FocusAdjacent(d, TRUE)
<1>1. d \in Desk /\ Focusable(d) \in SUBSET Client /\ NoClient \notin Client
  BY NumClientsAssumption DEF Good, Desk, Focusable, OnScreen, Normal, Client, NoClient
<1>2. order \in Seq(Client) /\ Distinct(order) /\ Elements(order) = Focusable(d)
  BY <1>1, FocusOrderIs, FocusOrderHas
<1>3. given = FocusIfAny(d, next)
  BY DEF FocusAdjacent
<1> HIDE DEF order
<1>4. /\ next # NoClient => next \in Focusable(d)
      /\ next = NoClient => Focusable(d) = {}
      /\ next = c /\ next # NoClient => Focusable(d) = {c}
  BY <1>2, NeighbourIs
<1> HIDE DEF next
<1>5. next # NoClient => given.focused = next
  BY <1>1, <1>3, <1>4, FreeTarget, FocusOnInSight DEF FocusIfAny, FocusClient
<1>6. next = NoClient => given = d
  BY <1>3 DEF FocusIfAny
<1> QED BY <1>1, <1>4, <1>5, <1>6

\* So a window sent away strands nothing: k is the record before it was taken
\* out of its special.
LEMMA SentAwayMinds ==
  ASSUME NEW was, NEW k \in Desk, NEW d, Good(was, d), Free(d), NEW c \in Client, NEW w \in Workspace,
         w < d.count, w # d.current, c \notin d.sticky, d.special[c] = NoSpecial,
         SameBut(c, k, d), d.noFocus = k.noFocus, d.focused = k.focused
  PROVE  Minds(k, SentAway(d, c, w))
<1> DEFINE given == IF d.focused = c THEN FocusAdjacent(d, TRUE) ELSE d
           h == Homed(given, c, w)
           e == Hide(h, {c})
<1>0. d \in Desk
  BY DEF Good
<1>1. Good(was, given) /\ given \in Desk /\ SameLook(d, given) /\ given.count = d.count
  <2>1. given \in {d, FocusAdjacent(d, TRUE)}
    OBVIOUS
  <2>2. FocusAdjacent(d, TRUE).count = d.count
    BY <1>0, FocusSame DEF SameScreen, SameHomes
  <2>3. SameLook(d, d) /\ SameLook(d, FocusAdjacent(d, TRUE))
    BY <1>0, FocusLook DEF SameLook, SamePlaces
  <2>4. Good(was, FocusAdjacent(d, TRUE))
    BY FocusAdjacentGood
  <2> HIDE DEF given
  <2> QED BY <1>0, <2>1, <2>2, <2>3, <2>4 DEF Good
<1>2. given.focused = c => Focusable(d) \subseteq {c}
  BY AdjacentManned
<1>3. d.focused # c => given = d
  OBVIOUS
<1>4. given.focused = NoClient => d.focused = NoClient
  BY AdjacentManned
<1>5. SentAway(d, c, w) = DropFocusOf(e, c)
  BY DEF SentAway
<1> HIDE DEF given
<1>6. /\ SameBut(c, given, h) /\ h \in Desk /\ h.focused = given.focused /\ h.noFocus = given.noFocus
      /\ h.sticky = given.sticky /\ h.current = given.current /\ h.special = given.special
      /\ h.workspace[c] = w
  <2>1. h.focused = given.focused /\ h.noFocus = given.noFocus
    BY <1>1 DEF Desk, Homed
  <2> QED BY <1>1, <2>1, HomedBut, HomedGood DEF Good
<1> HIDE DEF h
<1>7. e \in Desk /\ SameLook(h, e) /\ e.focused = h.focused
  BY <1>6, MappedLook DEF Hide, Desk
<1> HIDE DEF e
<1>8. c \notin OnScreen(h)
  BY <1>1, <1>6 DEF SameLook, SamePlaces, OnScreen, Placed
<1>9. Focusable(e) = Focusable(d) \ {c}
  <2>1. Focusable(h) = Focusable(given) \ {c}
    BY <1>1, <1>6, <1>8, ButLook
  <2> QED BY <1>1, <1>7, <2>1, LookIs
<1>10. Focusable(d) \ {c} \subseteq Focusable(k)
  BY <1>0, ButLook
<1>11. e.current = k.current
  BY <1>1, <1>6, <1>7 DEF SameLook, SamePlaces, SameBut
<1>12. CASE e.focused = c
  <2>1. Focusable(DropFocus(e)) = {}
    BY <1>2, <1>6, <1>7, <1>9, <1>12, FocusLook, LookIs
  <2> QED BY <1>5, <1>12, <2>1 DEF DropFocusOf, Minds, Manned
<1>13. CASE e.focused # c
  <2>1. SentAway(d, c, w) = e
    BY <1>5, <1>13 DEF DropFocusOf
  <2>2. e.focused = NoClient => k.focused = NoClient
    BY <1>4, <1>6, <1>7
  <2> QED BY <1>9, <1>10, <1>11, <2>1, <2>2 DEF Minds, Manned
<1> QED BY <1>12, <1>13

\* Who is in which special does not depend on who is sent away.
LEMMA SentAwaySpecial ==
  ASSUME NEW was, NEW d, Good(was, d), NEW c \in Client, NEW w \in Workspace, w < d.count
  PROVE  SentAway(d, c, w).special = d.special
<1> DEFINE given == IF d.focused = c THEN FocusAdjacent(d, TRUE) ELSE d
           h == Homed(given, c, w)
           e == Hide(h, {c})
<1>1. Good(was, given) /\ given.special = d.special /\ given.count = d.count
  BY FocusAdjacentGood, FocusSame DEF Good, SameScreen, SameHomes
<1>2. SentAway(d, c, w) = DropFocusOf(e, c)
  BY DEF SentAway
<1> HIDE DEF given
<1>3. h.special = d.special /\ h \in Desk
  BY <1>1, HomedBut, HomedGood DEF Good
<1> HIDE DEF h
<1>4. e.special = d.special /\ e \in Desk
  BY <1>3 DEF Hide, Desk
<1> HIDE DEF e
<1> QED BY <1>2, <1>4, FocusSame DEF SameScreen, SameHomes

\* A window moved to a workspace: out of its special and on the grown row first
\* (out), then filed there (home), and shown, or sent away.
LEMMA MovesIs ==
  ASSUME NEW was, NEW d, Good(was, d), NEW c \in Client, NEW w \in Nat, ~TooFar(w)
  PROVE  LET grown == Grown(d, w)
             out   == LeaveSpecial(grown, c)
             home  == Homed(out, c, w)
         IN  /\ SameLook(d, grown) /\ grown.focused = d.focused
             /\ Good(was, out) /\ SameKin(d, out) /\ SameBut(c, d, out) /\ w < out.count
             /\ out.focused = d.focused /\ out.noFocus = d.noFocus /\ out.sticky = d.sticky
             /\ out.live = d.live /\ out.minimized = d.minimized /\ out.current = d.current
             /\ out.special[c] = NoSpecial
             /\ home \in Desk /\ SameBut(c, d, home)
             /\ home.focused = d.focused /\ home.noFocus = d.noFocus /\ home.sticky = d.sticky
             /\ home.live = d.live /\ home.minimized = d.minimized /\ home.current = d.current
             /\ home.special[c] = NoSpecial /\ home.workspace[c] = w
             /\ MoveOneToWorkspace(d, c, w) =
                  IF d.workspace[c] = w /\ d.special[c] = NoSpecial THEN grown
                  ELSE IF w # d.current /\ c \notin d.sticky THEN SentAway(out, c, w)
                  ELSE IF d.special[c] # NoSpecial /\ c \in Normal(d) THEN Show(home, {c}) ELSE home
<1> DEFINE e == MoveOneToWorkspace(d, c, w)
           grown == Grown(d, w)
           out   == LeaveSpecial(grown, c)
           home  == Homed(out, c, w)
<1>0. d \in Desk /\ d.live \subseteq Client
  BY DEF Good, Desk
<1>1. w \in Workspace /\ Good(was, grown)
  BY InRange, GrownGood
<1>2. SameLook(d, grown) /\ grown.focused = d.focused
  <2>1. grown.focused = d.focused /\ grown.noFocus = d.noFocus
    BY <1>0 DEF Desk, Grown
  <2> QED BY <1>0, <1>1, <2>1, GrownIs DEF SameSession, SameLook, SamePlaces
<1>3. SameKin(d, out) /\ Good(was, out) /\ w < out.count
  <2>1. Akin(was, d, out)
    BY <1>0, <1>1, GrownKin, LeaveSpecialKin DEF Akin, SameKin
  <2> QED BY <1>0, <1>1, <2>1, LeftRow DEF Akin, Good
<1>4. /\ SameBut(c, d, out) /\ out.special[c] = NoSpecial /\ out.focused = d.focused
      /\ out.live = d.live /\ out.minimized = d.minimized /\ out.sticky = d.sticky
      /\ out.current = d.current /\ out.noFocus = d.noFocus
  <2>1. LET o == LeaveSpecial(grown, c) IN
        /\ SameSession(grown, o) /\ o.special = [grown.special EXCEPT ![c] = NoSpecial]
        /\ o.minimized = grown.minimized /\ o.sticky = grown.sticky
        /\ o.current = grown.current /\ o.focused = grown.focused
    BY <1>1, LeaveSpecialSame DEF Good
  <2>2. SameBut(c, grown, out)
    BY <1>1, HomedBut DEF Good
  <2>3. grown.special \in [Client -> SpecialOrNone]
    BY <1>1 DEF Good, Desk
  <2>4. out.noFocus = grown.noFocus
    BY <1>1 DEF LeaveSpecial, Good, Desk
  <2> HIDE DEF out, grown
  <2>5. SameBut(c, d, grown)
    BY <1>2 DEF SameLook, SamePlaces, SameBut
  <2>6. SameBut(c, d, out)
    BY <2>2, <2>5, SameButChain DEF out
  <2> QED BY <1>2, <2>1, <2>3, <2>4, <2>6 DEF SameLook, SamePlaces, SameSession, out
<1>5. e = IF d.workspace[c] = w /\ d.special[c] = NoSpecial THEN grown
          ELSE IF w # d.current /\ c \notin d.sticky THEN SentAway(out, c, w)
          ELSE IF d.special[c] # NoSpecial /\ c \in Normal(d) THEN Show(home, {c}) ELSE home
  BY DEF MoveOneToWorkspace
<1> HIDE DEF out
<1>6. /\ home \in Desk /\ SameBut(c, d, home)
      /\ home.focused = d.focused /\ home.noFocus = d.noFocus /\ home.sticky = d.sticky
      /\ home.live = d.live /\ home.minimized = d.minimized /\ home.current = d.current
      /\ home.special[c] = NoSpecial /\ home.workspace[c] = w
  <2>1. home.focused = d.focused /\ home.noFocus = d.noFocus
    BY <1>3, <1>4 DEF Homed, Good, Desk
  <2>2. /\ home \in Desk /\ SameBut(c, out, home) /\ home.sticky = out.sticky
        /\ home.live = out.live /\ home.minimized = out.minimized /\ home.current = out.current
        /\ home.special = out.special /\ home.workspace[c] = w
    BY <1>1, <1>3, HomedBut, HomedGood DEF Good
  <2> HIDE DEF home
  <2>3. SameBut(c, d, home)
    BY <1>4, <2>2, SameButChain
  <2> QED BY <1>4, <2>1, <2>2, <2>3
<1> HIDE DEF grown, home
<1> QED BY <1>2, <1>3, <1>4, <1>5, <1>6 DEF grown, out, home

\* Nobody who is on every workspace is in an overlay.
Anchored(d) == \A c \in d.sticky : d.special[c] = NoSpecial

\* One window moved strands nothing that it had not stranded; and nothing at all,
\* whatever was stranded before, unless it appears on screen.
LEMMA MoveOneToWorkspaceMinds ==
  ASSUME NEW was, NEW d, Good(was, d), Free(d), NEW c \in Client, NEW w \in Nat
  PROVE  LET e == MoveOneToWorkspace(d, c, w) IN
         /\ NotLost(d, e)
         /\ w = d.current => e.focused = d.focused /\ e.current = d.current /\ e.noFocus = d.noFocus
         /\ w # d.current /\ Anchored(d) => Minds(d, e) /\ e.current = d.current /\ Anchored(e)
<1> DEFINE e == MoveOneToWorkspace(d, c, w)
           grown == Grown(d, w)
           out   == LeaveSpecial(grown, c)
           home  == Homed(out, c, w)
<1>0. d \in Desk /\ d.sticky \subseteq Client
  BY DEF Good, Desk
<1>1. CASE TooFar(w)
  BY <1>1 DEF MoveOneToWorkspace, NotLost, Minds, Manned
<1>2. CASE ~TooFar(w)
  <2>0. w \in Workspace
    BY <1>2, InRange
  <2>1. /\ SameLook(d, grown) /\ grown.focused = d.focused
        /\ Good(was, out) /\ SameKin(d, out) /\ SameBut(c, d, out) /\ w < out.count
        /\ out.focused = d.focused /\ out.noFocus = d.noFocus /\ out.sticky = d.sticky
        /\ out.current = d.current /\ out.special[c] = NoSpecial
        /\ home \in Desk /\ SameBut(c, d, home)
        /\ home.focused = d.focused /\ home.noFocus = d.noFocus /\ home.sticky = d.sticky
        /\ home.live = d.live /\ home.minimized = d.minimized /\ home.current = d.current
        /\ home.special[c] = NoSpecial /\ home.workspace[c] = w
        /\ e = IF d.workspace[c] = w /\ d.special[c] = NoSpecial THEN grown
               ELSE IF w # d.current /\ c \notin d.sticky THEN SentAway(out, c, w)
               ELSE IF d.special[c] # NoSpecial /\ c \in Normal(d) THEN Show(home, {c}) ELSE home
    BY <1>2, MovesIs, SMTT(60)
  <2> HIDE DEF grown, out, home, e
  <2>2. CASE e = grown
    <3>1. grown.current = d.current /\ Focusable(grown) = Focusable(d)
      BY <2>1, LookIs
    <3>2. (Anchored(d) => Anchored(grown)) /\ grown.noFocus = d.noFocus
      BY <2>1 DEF SameLook, SamePlaces, Anchored
    <3> QED BY <2>1, <2>2, <3>1, <3>2, StillMinds DEF e
  <2>3. CASE w # d.current /\ c \notin d.sticky /\ e = SentAway(out, c, w)
    <3>1. Minds(d, e)
      BY <1>0, <2>0, <2>1, <2>3, SentAwayMinds, KinFree
    <3>2. SameBut(c, out, e) /\ e.special = out.special
      BY <2>0, <2>1, <2>3, SentAwayBut, SentAwaySpecial
    <3>3. SameBut(c, d, e) /\ e.special[c] = NoSpecial
      BY <2>1, <3>2, SameButChain
    <3>4. e \in Desk
      <4>1. Good(was, e)
        BY MoveOneToWorkspaceGood DEF e
      <4> QED BY <4>1 DEF Good
    <3>5. e.current = d.current /\ (Anchored(d) => Anchored(e))
      BY <1>0, <3>3, <3>4 DEF SameBut, Anchored, Desk
    <3> QED BY <2>3, <3>1, <3>5, MindsIsNotLost DEF e
  <2>4. CASE ~(w # d.current /\ c \notin d.sticky) /\ e \in {home, Show(home, {c})}
    <3>1. /\ e.focused = d.focused /\ e.current = d.current /\ e.sticky = d.sticky
          /\ e.noFocus = d.noFocus /\ e.special = home.special /\ Focusable(e) = Focusable(home)
      <4>1. SameLook(home, Show(home, {c})) /\ Show(home, {c}).focused = home.focused
        BY <2>1, MappedLook
      <4> QED BY <2>1, <2>4, <4>1, LookIs DEF SameLook, SamePlaces
    <3>2. NotLost(d, e)
      BY <3>1, StillMinds
    <3>3. ASSUME w # d.current, Anchored(d) PROVE Minds(d, e) /\ Anchored(e)
      <4>1. c \in d.sticky /\ d.special[c] = NoSpecial
        BY <2>4, <3>3 DEF Anchored
      <4>2. Focusable(home) \ {c} = Focusable(d) \ {c}
        BY <1>0, <2>1, ButLook
      <4>3. c \in Focusable(home) => c \in Focusable(d)
        BY <2>1, <4>1 DEF Focusable, OnScreen, Normal, Placed
      <4>4. Minds(d, e)
        BY <3>1, <4>2, <4>3, StillMinds
      <4>5. Anchored(e)
        BY <1>0, <2>1, <3>1, <3>3 DEF Anchored, SameBut
      <4> QED BY <4>4, <4>5
    <3> QED BY <3>1, <3>2, <3>3 DEF e
  <2> QED BY <2>1, <2>2, <2>3, <2>4
<1> QED BY <1>1, <1>2

\* A window moved to a special strands nothing unless it appears on screen.
LEMMA MoveOneToSpecialMinds ==
  ASSUME NEW was, NEW d, Good(was, d), Free(d), NEW c \in d.live, NEW s \in SpecialNames
  PROVE  LET e == MoveOneToSpecial(d, c, s) IN
         /\ e.shown = d.shown
         /\ IF d.shown = s THEN e.focused = d.focused /\ e.current = d.current ELSE Minds(d, e)
<1> DEFINE in == Enrolled(d, c, s)
           given == FocusSuccessorOf(in, c)
<1>0. d \in Desk /\ c \in Client /\ s # NoSpecial
  BY NoSpecialAssumption DEF Good, Desk
<1>1. /\ SameBut(c, d, in) /\ in.focused = d.focused /\ in.special[c] = s /\ in.shown = d.shown
      /\ in.noFocus = d.noFocus /\ in.current = d.current
  BY EnrolledBut
<1>2. Good(was, in) /\ Free(in) /\ in \in Desk
  <2>1. Akin(was, d, in)
    BY EnrolledKin DEF Akin, SameKin
  <2> QED BY <2>1, KinFree DEF Akin, Good
<1>3. MoveOneToSpecial(d, c, s) = IF d.special[c] = s THEN d
        ELSE IF d.shown = s THEN IF c \in Normal(d) THEN Show(in, {c}) ELSE in
        ELSE Hide(given, {c})
  BY DEF MoveOneToSpecial, Enrolled
<1> HIDE DEF in
<1>4. CASE d.special[c] = s
  BY <1>3, <1>4 DEF Minds
<1>5. CASE d.special[c] # s /\ d.shown = s
  <2>1. SameLook(in, Show(in, {c})) /\ Show(in, {c}).focused = in.focused
    BY <1>2, MappedLook
  <2> QED BY <1>1, <1>3, <1>5, <2>1 DEF SameLook, SamePlaces
<1>6. CASE d.special[c] # s /\ d.shown # s
  <2>1. c \notin OnScreen(in)
    BY <1>0, <1>1, <1>6 DEF OnScreen, Placed
  <2>2. Minds(d, Hide(given, {c}))
    BY <1>0, <1>1, <1>2, <2>1, PassedOn
  <2>3. SameLook(in, given) /\ given \in Desk
    BY <1>2, FocusLook, FocusSuccessorOfGood DEF Good
  <2> HIDE DEF given
  <2>4. SameLook(given, Hide(given, {c}))
    BY <2>3, MappedLook
  <2>5. Hide(given, {c}).shown = d.shown
    BY <1>1, <2>3, <2>4 DEF SameLook, SamePlaces
  <2> QED BY <1>3, <1>6, <2>2, <2>5
<1> QED BY <1>4, <1>5, <1>6

\* A window back from its icon takes the keyboard if it can.
LEMMA DeminiaturizeOneMinds ==
  ASSUME NEW was, NEW d, Good(was, d), Free(d), NEW c \in d.live
  PROVE  Minds(d, DeminiaturizeOne(d, c))
<1> DEFINE i == [d EXCEPT !.minimized = d.minimized \ {c}]
           moved == MoveOneToWorkspace(i, c, d.current)
           up == Show(moved, {c})
<1>0. d \in Desk /\ c \in Client
  BY DEF Good, Desk
<1>1. CASE c \notin d.minimized
  BY <1>1 DEF DeminiaturizeOne, Minds
<1>2. CASE c \in d.minimized
  <2>1. d.minimized \ {c} \in SUBSET d.live /\ d.current \in Nat
    BY <1>0, MaxWorkspacesAssumption DEF Good, Desk, Workspace
  <2>2. Akin(was, d, i)
    BY <2>1, IconsKin DEF Akin, SameKin
  <2>3. /\ SameBut(c, d, i) /\ i.focused = d.focused /\ i.noFocus = d.noFocus /\ i.live = d.live
        /\ i.current = d.current /\ c \notin i.minimized
    BY <1>0 DEF Desk, SameBut
  <2>4. DeminiaturizeOne(d, c) = FocusClient(up, c)
    BY <1>2, <2>3 DEF DeminiaturizeOne
  <2> HIDE DEF i
  <2>5. Good(was, i) /\ Free(i)
    BY <2>2, KinFree DEF Akin
  <2>6. /\ SameBut(c, i, moved) /\ Placed(moved, c) /\ SameKin(i, moved)
        /\ moved.live = i.live /\ moved.minimized = i.minimized
    BY <1>0, <2>3, <2>5, MoveHereIs
  <2>7. moved.focused = d.focused /\ moved.current = d.current /\ moved.noFocus = d.noFocus
    BY <1>0, <2>1, <2>3, <2>5, MoveOneToWorkspaceMinds
  <2>8. Good(was, moved) /\ Free(moved)
    BY <1>0, <2>1, <2>5, <2>6, MoveOneToWorkspaceGood, KinFree
  <2> HIDE DEF moved
  <2>9. Good(was, up) /\ Free(up) /\ SameLook(moved, up) /\ up.focused = moved.focused
    <3>1. {c} \in SUBSET Client /\ Akin(was, moved, moved)
      BY <1>0, <2>8 DEF Akin, SameKin
    <3>2. Akin(was, moved, up)
      BY <3>1, ShowKin
    <3> QED BY <2>8, <3>2, MappedLook, KinFree DEF Akin, Good
  <2> HIDE DEF up
  <2>10. CASE c \in d.noFocus
    <3>1. SameBut(c, d, moved) /\ c \notin Focusable(moved) /\ c \notin Focusable(d)
      BY <2>3, <2>6, <2>7, <2>10, SameButChain DEF Focusable
    <3>2. Focusable(moved) \ {c} = Focusable(d) \ {c}
      BY <1>0, <2>7, <2>8, <3>1, ButLook DEF Good
    <3>3. Minds(d, up)
      BY <2>7, <2>9, <3>1, <3>2, LookIs, StillMinds
    <3> QED BY <2>4, <2>9, <3>3, FocusMinds, MindsChain DEF Good
  <2>11. CASE c \notin d.noFocus
    <3>1. c \in Focusable(moved)
      BY <2>3, <2>6, <2>7, <2>11 DEF Focusable, OnScreen, Normal
    <3>2. c \in Focusable(up) /\ up \in Desk /\ c # NoClient
      BY <1>0, <2>9, <3>1, LookIs, NumClientsAssumption DEF Good, Client, NoClient
    <3>3. Manned(FocusIfAny(up, c))
      BY <2>9, <3>2, HandedOver
    <3> QED BY <2>4, <3>2, <3>3 DEF FocusIfAny, Minds
  <2> QED BY <2>10, <2>11
<1> QED BY <1>1, <1>2

\* A window without relatives is the whole of its family's order.
LEMMA FamilyOrderAlone ==
  ASSUME NEW d \in Desk, \A k \in Client : d.parent[k] = NoClient, NEW root \in d.live
  PROVE  FamilyOrder(d, root) = <<root>>
<1> DEFINE n == NumClients
           Children(c) == {k \in Family(d, root) : d.parent[k] = c}
           Next1(seen, i) == IF i > Len(seen) THEN seen
                             ELSE seen \o Keep(Slots, Children(seen[i]) \ Elements(seen))
           Walk(f) == f = [i \in 0 .. n |-> IF i = 0 THEN <<root>> ELSE Next1(f[i - 1], i)]
           one == <<root>>
           g == [i \in 0 .. n |-> one]
<1>1. n \in Nat /\ root \in Client /\ Len(one) = 1 /\ Elements(one) = {root}
  BY NumClientsAssumption DEF Desk, Elements
<1>2. Family(d, root) = {root}
  BY OwnFamily DEF Desk
<1>3. Keep(Slots, {}) = <<>>
  <2>1. Slots \in Seq(Client)
    BY NumClientsAssumption DEF Slots, Client
  <2>2. Keep(Slots, {}) \in Seq(Client) /\ Elements(Keep(Slots, {})) \subseteq {}
    BY <2>1, KeepElements
  <2> DEFINE q == Keep(Slots, {})
  <2> HIDE DEF q
  <2>3. q \in Seq(Client) /\ Elements(q) = {}
    BY <2>2 DEF q
  <2>4. Len(q) = 0
    <3>1. ~(1 \in DOMAIN q)
      BY <2>3 DEF Elements
    <3> QED BY <2>3, <3>1
  <2>5. q = <<>>
    BY <2>3, <2>4
  <2> QED BY <2>5 DEF q
<1>4. \A i \in 1 .. n : Next1(one, i) = one
  <2> TAKE i \in 1 .. n
  <2>1. CASE i > 1
    BY <1>1, <2>1
  <2>2. CASE i = 1
    <3>1. Children(one[i]) \ Elements(one) = {}
      BY <1>1, <1>2
    <3>2. one \o <<>> = one
      OBVIOUS
    <3> QED BY <1>1, <1>3, <2>2, <3>1, <3>2
  <2> QED BY <2>1, <2>2
<1> HIDE DEF n, Next1, one
<1>5. Walk(g)
  <2>1. \A i \in 0 .. n : i # 0 => i \in 1 .. n /\ i - 1 \in 0 .. n
    BY <1>1
  <2>2. \A i \in 0 .. n : one = IF i = 0 THEN one ELSE Next1(g[i - 1], i)
    BY <1>4, <2>1
  <2> QED BY <2>2 DEF one
<1> DEFINE f == CHOOSE f : Walk(f)
<1>6. Walk(f)
  BY <1>5
<1>7. FamilyOrder(d, root) = f[n]
  BY DEF FamilyOrder, n, Next1
<1> HIDE DEF f
<1> DEFINE T == {i \in 0 .. n : f[i] = one}
<1>8. 0 \in T
  BY <1>1, <1>6 DEF one
<1>9. ASSUME NEW i \in 1 .. n, i - 1 \in T PROVE i \in T
  <2>1. i \in 0 .. n /\ i # 0 /\ f[i - 1] = one
    BY <1>9, <1>1
  <2>2. f[i] = Next1(f[i - 1], i)
    BY <2>1, <1>6
  <2> QED BY <2>1, <2>2, <1>4
<1>10. n \in T
  <2>1. n \in 0 .. n
    BY <1>1
  <2> HIDE DEF T
  <2> QED BY <2>1, <1>1, <1>8, <1>9, IntervalInduction
<1> QED BY <1>7, <1>10 DEF one

\* So a family operation on it is one step.
LEMMA ForOne ==
  ASSUME NEW d \in Desk, \A k \in Client : d.parent[k] = NoClient, NEW c \in d.live, NEW op
  PROVE  ForFamily(op, d, c) = Step(op, d, c)
<1> DEFINE one == <<c>>
           After(f) == f = [i \in 0 .. Len(one) |->
                              IF i = 0 THEN d ELSE Step(op, f[i - 1], one[i])]
           g == [i \in 0 .. 1 |-> IF i = 0 THEN d ELSE Step(op, d, c)]
           f == CHOOSE f : After(f)
<1>1. Len(one) = 1 /\ one[1] = c
  OBVIOUS
<1>2. ForFamily(op, d, c) = f[Len(one)]
  BY FamilyOrderAlone DEF ForFamily, ForEach
<1> HIDE DEF one
<1>3. After(g)
  <2>1. \A i \in 0 .. 1 : g[i] = IF i = 0 THEN d ELSE Step(op, g[i - 1], one[i])
    <3> TAKE i \in 0 .. 1
    <3>1. i = 0 \/ i = 1
      OBVIOUS
    <3> QED BY <1>1, <3>1
  <2> QED BY <1>1, <2>1
<1>4. After(f)
  BY <1>3
<1> HIDE DEF f
<1>5. f[0] = d /\ f[1] = Step(op, f[0], one[1])
  BY <1>1, <1>4
<1> QED BY <1>1, <1>2, <1>5

\* A family of icons, made or restored, strands nothing.
LEMMA IconsMinds ==
  ASSUME NEW op \in {ToIcon, FromIcon}, NEW was, NEW d, Good(was, d), Free(d), NEW c \in was.live
  PROVE  Minds(d, ForFamily(op, d, c))
<1> DEFINE V == {e \in Desk : Akin(was, d, e) /\ Minds(d, e)}
<1>1. \A e : e \in V <=> Akin(was, d, e) /\ Minds(d, e)
  BY DEF Akin, Good
<1> HIDE DEF V
<1>2. d \in V
  BY <1>1 DEF Akin, SameKin, Minds
<1>3. ASSUME NEW e \in V, NEW a \in was.live PROVE Step(op, e, a) \in V
  <2>1. Good(was, e) /\ Akin(was, d, e) /\ Minds(d, e) /\ a \in e.live /\ Free(e)
    BY <1>1, <1>3, KinFree DEF Akin, Good, SameSession
  <2>2. CASE op = ToIcon
    <3>1. Step(op, e, a) = MiniaturizeOne(e, a)
      BY <2>2 DEF Step, ToIcon
    <3>2. Akin(was, d, MiniaturizeOne(e, a)) /\ Minds(e, MiniaturizeOne(e, a))
      BY <2>1, MiniaturizeOneKin, MiniaturizeOneMinds
    <3> QED BY <1>1, <2>1, <3>1, <3>2, MindsChain
  <2>3. CASE op = FromIcon
    <3>1. Step(op, e, a) = DeminiaturizeOne(e, a)
      BY <2>3 DEF Step, FromIcon
    <3>2. Akin(was, d, DeminiaturizeOne(e, a)) /\ Minds(e, DeminiaturizeOne(e, a))
      BY <2>1, DeminiaturizeOneKin, DeminiaturizeOneMinds
    <3> QED BY <1>1, <2>1, <3>1, <3>2, MindsChain
  <2> QED BY <2>2, <2>3
<1>4. FamilyOrder(d, c) \in Seq(was.live)
  BY FamilyOrderType DEF Good, SameSession
<1>5. ForFamily(op, d, c) \in V
  BY <1>2, <1>3, <1>4, ForEachKeeps DEF ForFamily
<1> QED BY <1>1, <1>5

\* A family sent to a workspace loses nothing either, where nobody who is on every
\* workspace is in an overlay.
LEMMA FamilyToWorkspace ==
  ASSUME NEW was, NEW d, Good(was, d), Free(d), Anchored(d), NEW c \in was.live, NEW w \in Nat
  PROVE  NotLost(d, ForFamily(ToWorkspace(w), d, c))
<1> DEFINE Held(e) == /\ e.current = d.current
                      /\ w = d.current => e.focused = d.focused
                      /\ w # d.current => Anchored(e) /\ Minds(d, e)
           V == {e \in Desk : Akin(was, d, e) /\ Held(e)}
           op == ToWorkspace(w)
<1>1. \A e : e \in V <=> Akin(was, d, e) /\ Held(e)
  BY DEF Akin, Good
<1>2. d \in V
  BY <1>1 DEF Akin, SameKin, Minds
<1> HIDE DEF V
<1>3. ASSUME NEW e \in V, NEW a \in was.live PROVE Step(op, e, a) \in V
  <2> DEFINE f == MoveOneToWorkspace(e, a, w)
  <2>1. Good(was, e) /\ Akin(was, d, e) /\ Held(e) /\ a \in Client /\ Free(e)
    BY <1>1, <1>3, KinFree DEF Akin, Good, SameSession, Desk
  <2>2. Step(op, e, a) = f
    BY DEF Step, ToWorkspace
  <2>3. Akin(was, d, f)
    BY <2>1, MoveOneToWorkspaceKin
  <2>4. /\ w = e.current => f.focused = e.focused /\ f.current = e.current
        /\ w # e.current /\ Anchored(e) => Minds(e, f) /\ f.current = e.current /\ Anchored(f)
    BY <2>1, MoveOneToWorkspaceMinds
  <2> HIDE DEF f
  <2>5. Held(f)
    BY <2>1, <2>4, MindsChain
  <2> QED BY <1>1, <2>2, <2>3, <2>5
<1>4. FamilyOrder(d, c) \in Seq(was.live)
  BY FamilyOrderType DEF Good, SameSession
<1> DEFINE e == ForFamily(op, d, c)
<1>5. e \in V
  BY <1>2, <1>3, <1>4, ForEachKeeps DEF ForFamily
<1> HIDE DEF e, op
<1>6. Held(e)
  BY <1>1, <1>5
<1>7. NotLost(d, e)
  BY <1>6, StillMinds, MindsIsNotLost
<1> QED BY <1>7 DEF e, op

\* Nor one that joins an overlay.
LEMMA FamilyToSpecial ==
  ASSUME NEW was, NEW d, Good(was, d), Free(d), NEW c \in was.live, NEW s \in SpecialNames
  PROVE  LET e == ForFamily(ToSpecial(s), d, c) IN
         /\ Akin(was, d, e) /\ e.shown = d.shown
         /\ IF d.shown = s THEN e.focused = d.focused /\ e.current = d.current ELSE Minds(d, e)
         /\ NotLost(d, e)
<1> DEFINE Held(e) == /\ e.shown = d.shown
                      /\ IF d.shown = s THEN e.focused = d.focused /\ e.current = d.current
                         ELSE Minds(d, e)
           V == {e \in Desk : Akin(was, d, e) /\ Held(e)}
           op == ToSpecial(s)
<1>1. \A e : e \in V <=> Akin(was, d, e) /\ Held(e)
  BY DEF Akin, Good
<1>2. d \in V
  BY <1>1 DEF Akin, SameKin, Minds
<1> HIDE DEF V
<1>3. ASSUME NEW e \in V, NEW a \in was.live PROVE Step(op, e, a) \in V
  <2> DEFINE f == MoveOneToSpecial(e, a, s)
  <2>1. Good(was, e) /\ Akin(was, d, e) /\ Held(e) /\ a \in e.live /\ Free(e)
    BY <1>1, <1>3, KinFree DEF Akin, Good, SameSession
  <2>2. Step(op, e, a) = f
    BY DEF Step, ToSpecial
  <2>3. Akin(was, d, f)
    BY <2>1, MoveOneToSpecialKin
  <2>4. /\ f.shown = e.shown
        /\ IF e.shown = s THEN f.focused = e.focused /\ f.current = e.current ELSE Minds(e, f)
    BY <2>1, MoveOneToSpecialMinds
  <2> HIDE DEF f
  <2>5. Held(f)
    BY <2>1, <2>4, MindsChain
  <2> QED BY <1>1, <2>2, <2>3, <2>5
<1>4. FamilyOrder(d, c) \in Seq(was.live)
  BY FamilyOrderType DEF Good, SameSession
<1> DEFINE e == ForFamily(op, d, c)
<1>5. e \in V
  BY <1>2, <1>3, <1>4, ForEachKeeps DEF ForFamily
<1> HIDE DEF e, op
<1>6. Akin(was, d, e) /\ Held(e)
  BY <1>1, <1>5
<1>7. NotLost(d, e)
  BY <1>6, StillMinds, MindsIsNotLost
<1> QED BY <1>6, <1>7 DEF e, op

\* Whatever a family does, nothing is lost: a window without relatives moves
\* alone, and where nobody who is on every workspace is in an overlay all of them
\* move.
Bound(d) == (\A k \in Client : d.parent[k] = NoClient) \/ Anchored(d)

LEMMA FamilyNotLost ==
  ASSUME NEW op \in Ops, NEW was, NEW d, Good(was, d), Free(d), Bound(d), NEW c \in was.live
  PROVE  NotLost(d, ForFamily(op, d, c))
<1>1. CASE op \in {ToIcon, FromIcon}
  BY <1>1, IconsMinds, MindsIsNotLost
<1>2. ASSUME NEW s \in SpecialNames, op = ToSpecial(s) PROVE NotLost(d, ForFamily(op, d, c))
  BY <1>2, FamilyToSpecial
<1>3. ASSUME NEW w \in Nat, op = ToWorkspace(w) PROVE NotLost(d, ForFamily(op, d, c))
  <2>1. CASE Anchored(d)
    BY <1>3, <2>1, FamilyToWorkspace
  <2>2. CASE \A k \in Client : d.parent[k] = NoClient
    <3>1. d \in Desk /\ c \in d.live /\ c \in Client
      BY DEF Good, SameSession, Desk
    <3>2. ForFamily(op, d, c) = Step(op, d, c)
      BY <2>2, <3>1, ForOne
    <3>3. Step(op, d, c) = MoveOneToWorkspace(d, c, w)
      BY <1>3 DEF Step, ToWorkspace
    <3> QED BY <3>1, <3>2, <3>3, MoveOneToWorkspaceMinds
  <2> QED BY <2>1, <2>2 DEF Bound
<1> QED BY <1>1, <1>2, <1>3 DEF Ops

\* Nor does a move to an overlay that is followed there.
LEMMA MoveToSpecialNotLost ==
  ASSUME NEW was, NEW d, Good(was, d), Free(d), NEW c \in was.live, NEW s \in SpecialNames, NEW follow
  PROVE  NotLost(d, MoveToSpecial(d, c, s, follow))
<1> DEFINE made == Create(d, s)
           moved == ForFamily(ToSpecial(s), made, c)
           up == ShowSpecial(moved, s)
<1>0. d \in Desk /\ Akin(was, d, d)
  BY DEF Good, Akin, SameKin
<1>1. Akin(was, d, made) /\ SameLook(d, made) /\ made.focused = d.focused
  BY <1>0, CreateKin, CreateMinds
<1>2. MoveToSpecial(d, c, s, follow) = IF follow THEN FocusClient(up, c) ELSE moved
  BY DEF MoveToSpecial, Followed
<1> HIDE DEF made
<1>3. Good(was, made) /\ Free(made) /\ made.current = d.current
  BY <1>1, KinFree, LookIs DEF Akin
<1>4. Akin(was, made, moved) /\ NotLost(made, moved)
  BY <1>3, FamilyToSpecial
<1> HIDE DEF moved
<1>5. Good(was, moved) /\ Free(moved) /\ NotLost(d, moved)
  BY <1>1, <1>3, <1>4, KinFree DEF Akin, NotLost
<1>6. Minds(moved, up) /\ Good(was, up)
  BY <1>5, ShowSpecialMinds, ShowSpecialGood
<1> HIDE DEF up
<1>7. Minds(up, FocusClient(up, c))
  BY <1>6, FocusMinds DEF Good
<1> QED BY <1>2, <1>5, <1>6, <1>7, MindsChain

\* After a switch somebody has the keyboard, or nobody can.
LEMMA KeyboardForManned ==
  ASSUME NEW was, NEW d, Good(was, d), Free(d), NEW arriving
  PROVE  Manned(KeyboardFor(d, arriving))
<1>0. d \in Desk
  BY DEF Good
<1>1. CASE d.focused # NoClient /\ Placed(d, d.focused)
  BY <1>1 DEF KeyboardFor, Manned
<1>2. CASE ~(d.focused # NoClient /\ Placed(d, d.focused)) /\ arriving \in Focusable(d)
  <2>1. arriving \in Client /\ arriving # NoClient
    BY <1>0, <1>2, NumClientsAssumption DEF Focusable, OnScreen, Normal, Desk, Client, NoClient
  <2>2. KeyboardFor(d, arriving) = FocusIfAny(d, arriving)
    BY <1>2, <2>1 DEF KeyboardFor, FocusIfAny
  <2> QED BY <1>0, <1>2, <2>1, <2>2, HandedOver
<1>3. CASE ~(d.focused # NoClient /\ Placed(d, d.focused)) /\ arriving \notin Focusable(d)
  <2>1. KeyboardFor(d, arriving) = IF d.focused # NoClient THEN FocusSuccessorOf(d, d.focused)
                                   ELSE FocusIfAny(d, Successor(d, NoClient))
    BY <1>3 DEF KeyboardFor
  <2>2. NoClient \notin Focusable(d) /\ d.focused \notin Focusable(d)
    BY <1>0, <1>3, NumClientsAssumption DEF Focusable, OnScreen, Normal, Desk, Client, NoClient
  <2> QED BY <2>1, <2>2, SuccessorMinds
<1> QED BY <1>1, <1>2, <1>3

\* So a switch of workspace strands nothing: it changes nothing, or it ends with
\* the keyboard given.
LEMMA SwitchToMinds ==
  ASSUME NEW was, NEW d, Good(was, d), Free(d), NEW w \in Nat, NEW arriving
  PROVE  SwitchTo(d, w, arriving) = d \/ Manned(SwitchTo(d, w, arriving))
<1> DEFINE bare == IF HideSpecialOnSwitch THEN HideSpecial(d) ELSE d
           there == Entered(bare, w)
           drawn == Redrawn(there)
<1>1. CASE TooFar(w) \/ w = d.current
  BY <1>1 DEF SwitchTo
<1>2. CASE ~(TooFar(w) \/ w = d.current)
  <2>0. SwitchTo(d, w, arriving) = KeyboardFor(drawn, arriving) /\ w \in Workspace
    BY <1>2, InRange DEF SwitchTo
  <2>1. Akin(was, d, d)
    BY DEF Akin, SameKin
  <2>2. Akin(was, d, bare)
    BY <2>1, HideSpecialKin
  <2> HIDE DEF bare
  <2>3. Akin(was, d, there)
    BY <2>0, <2>2, EnteredKin
  <2> HIDE DEF there
  <2>4. Akin(was, d, drawn)
    BY <2>3, RedrawnGood, FieldsKin DEF Akin, SameKin, Good
  <2> HIDE DEF drawn
  <2> QED BY <2>0, <2>4, KeyboardForManned, KinFree DEF Akin
<1> QED BY <1>1, <1>2

\* What an appended sequence of operators loses, one that starts from the same
\* keyboard and workspace.
LEMMA LostChain ==
  ASSUME NEW d, NEW e, NEW f, e.focused = d.focused, e.current = d.current, NotLost(e, f)
  PROVE  NotLost(d, f)
  BY DEF NotLost

\* Workspaces that merge leave somebody with the keyboard, or nobody to have it.
LEMMA WithoutWorkspaceManned ==
  ASSUME NEW was, NEW d, Good(was, d), Free(d), d.count > 1, NEW w \in Nat, w < d.count
  PROVE  Manned(WithoutWorkspace(d, w))
<1> DEFINE merged == Merged(d, w)
           joined == Show(merged, Revealed(d, merged))
<1>0. d \in Desk /\ Akin(was, d, d)
  BY DEF Good, Akin, SameKin
<1>1. Good(was, merged) /\ SameKin(d, merged)
  BY <1>0, MergedGood, FieldsKin
<1>2. WithoutWorkspace(d, w) = IF joined.focused = NoClient
                               THEN FocusIfAny(joined, Successor(joined, NoClient)) ELSE joined
  BY DEF WithoutWorkspace, FocusSomebody
<1>3. Revealed(d, merged) \in SUBSET Client
  BY <1>0 DEF Revealed, Normal, Desk
<1> HIDE DEF merged
<1>4. Akin(was, d, merged)
  BY <1>1 DEF Akin
<1>5. Akin(was, d, joined)
  BY <1>3, <1>4, ShowKin
<1> HIDE DEF joined
<1>6. Good(was, joined) /\ Free(joined) /\ NoClient \notin Focusable(joined)
  BY <1>5, KinFree, NumClientsAssumption
     DEF Akin, Good, Desk, Focusable, OnScreen, Normal, Client, NoClient
<1>7. Manned(FocusIfAny(joined, Successor(joined, NoClient)))
  BY <1>6, SuccessorMinds
<1> QED BY <1>2, <1>7 DEF Manned

\* Bringing a window on screen strands nothing.
LEMMA BroughtMinds ==
  ASSUME NEW was, NEW d, Good(was, d), Free(d), NEW c
  PROVE  Minds(d, Brought(d, c))
<1>1. CASE c \notin Normal(d) \/ Placed(d, c)
  BY <1>1 DEF Brought, Minds
<1>2. CASE ~(c \notin Normal(d) \/ Placed(d, c))
  <2>1. c \in Client
    BY <1>2 DEF Normal, Good, Desk
  <2>2. d.workspace[c] \in Nat /\ d.special[c] \in SpecialOrNone
    BY <2>1, MaxWorkspacesAssumption DEF Good, Desk, Workspace
  <2>3. Minds(d, SwitchTo(d, d.workspace[c], c))
    BY <2>2, SwitchToMinds DEF Minds
  <2>4. d.special[c] # NoSpecial => Minds(d, ShowSpecial(d, d.special[c]))
    BY <2>2, ShowSpecialMinds DEF SpecialOrNone
  <2>5. Brought(d, c) = IF d.special[c] # NoSpecial THEN ShowSpecial(d, d.special[c])
                        ELSE SwitchTo(d, d.workspace[c], c)
    BY <1>2 DEF Brought
  <2> QED BY <2>3, <2>4, <2>5
<1> QED BY <1>1, <1>2

\* Nor does restoring one and bringing it there.
LEMMA PresentedMinds ==
  ASSUME NEW was, NEW d, Good(was, d), Free(d), NEW c
  PROVE  Minds(d, Presented(d, c))
<1> DEFINE back == Restored(d, c)
           up == BringIntoView(back, c)
<1>1. Minds(d, back)
  <2>1. CASE c \in d.minimized
    <3>1. c \in was.live
      BY <2>1 DEF Good, SameSession
    <3>2. Minds(d, ForFamily(FromIcon, d, c))
      BY <3>1, IconsMinds
    <3> QED BY <2>1, <3>2 DEF Restored
  <2>2. CASE c \notin d.minimized
    BY <2>2 DEF Restored, Minds
  <2> QED BY <2>1, <2>2
<1>2. Akin(was, d, back)
  BY RestoredKin DEF Akin, SameKin
<1>3. Presented(d, c) = FocusClient(up, c)
  BY DEF Presented
<1> HIDE DEF back
<1>4. Minds(back, up) /\ Good(was, up)
  BY <1>2, BroughtMinds, BringIntoViewGood, KinFree DEF Akin, BringIntoView
<1> HIDE DEF up
<1>5. Minds(up, FocusClient(up, c))
  BY <1>4, FocusMinds DEF Good
<1> QED BY <1>1, <1>3, <1>4, <1>5, MindsChain

\* Nor an activation, deferred or done.
LEMMA ActivateClientMinds ==
  ASSUME NEW was, NEW d, Good(was, d), Free(d), NEW c
  PROVE  Minds(d, ActivateClient(d, c))
<1> DEFINE asked == [d EXCEPT !.urgent = d.urgent \cup {c}]
<1>1. SameLook(d, asked) /\ asked.focused = d.focused
  BY DEF Good, Desk, SameLook, SamePlaces
<1>2. ActivateClient(d, c) \in {d, asked, Presented(d, c)}
  BY DEF ActivateClient
<1> HIDE DEF asked
<1>3. Minds(d, asked) /\ Minds(d, d)
  BY <1>1, LookIs, StillMinds DEF Minds
<1> QED BY <1>2, <1>3, PresentedMinds

\* Dropping a window from the switcher leaves what may have the keyboard alone.
LEMMA CycleLook ==
  ASSUME NEW d \in Desk, NEW c
  PROVE  SameLook(d, CycleWithout(d, c))
<1> DEFINE Same(e) == e.noFocus = d.noFocus
<1>1. /\ Same(d) /\ \A session : Same([d EXCEPT !.cycle = session])
      /\ \A session, on : Same([d EXCEPT !.cycle = session, !.grabbed = on])
  BY DEF Desk
<1>2. Same(CycleWithout(d, c))
  <2> DEFINE order == Without(d.cycle.order, c)
             selected == IF d.cycle.selected > Len(order) - 1 THEN Len(order) - 1
                         ELSE d.cycle.selected
             session == [d.cycle EXCEPT !.order = order, !.selected = selected]
             e == [d EXCEPT !.cycle = session]
  <2>1. d.cycle \in CycleSession
    BY DEF Desk
  <2> HIDE DEF Same
  <2>2. CASE ~d.cycle.open
    BY <1>1, <2>2 DEF CycleWithout
  <2>3. CASE order = <<>> /\ d.cycle.open
    BY <1>1, <2>3 DEF CycleWithout, CycleClosed
  <2>4. CASE order # <<>> /\ d.cycle.open
    <3>1. CycleWithout(d, c) = e
      <4> HIDE DEF order
      <4> QED BY <2>1, <2>4 DEF CycleWithout, order, Desk, CycleSession
    <3> HIDE DEF session
    <3> QED BY <1>1, <3>1
  <2> QED BY <2>2, <2>3, <2>4
<1> QED BY <1>2, CycleSame DEF SameLook

\* Nor the switcher: it moves neither window nor keyboard until Alt is released.
LEMMA CycleMinds ==
  ASSUME NEW was, NEW d, Good(was, d), Free(d), NEW delta
  PROVE  /\ NotLost(d, CycleBy(d, delta)) /\ NotLost(d, CycleClosed(d))
         /\ NotLost(d, CycleCommitted(d))
<1> DEFINE closed == CycleClosed(d)
           chosen == d.cycle.order[d.cycle.selected + 1]
<1>1. NotLost(d, CycleBy(d, delta)) /\ NotLost(d, closed)
  BY CycleSame, StillMinds DEF Good, SamePlaces
<1>2. Good(closed, closed) /\ Free(closed)
  BY CycleClosedGood, CycleKin, KinFree DEF Good
<1>3. CycleCommitted(d) = Presented(closed, chosen)
  BY DEF CycleCommitted
<1> HIDE DEF closed, chosen
<1>4. Minds(closed, Presented(closed, chosen))
  BY <1>2, PresentedMinds
<1> QED BY <1>1, <1>3, <1>4, MindsChain DEF closed

\* Nor settling where a rule, or the special of the parent, sends a window.
LEMMA SettledNotLost ==
  ASSUME NEW was, NEW d, Good(was, d), Free(d), Bound(d), NEW c \in was.live,
         NEW p \in ClientOrNone, NEW target \in RuleTarget
  PROVE  NotLost(d, Settled(d, c, p, target))
<1>1. /\ target.kind \in {"inherit", "numbered", "special"}
      /\ target.kind = "numbered" => target.to \in Nat
      /\ target.kind = "special" => target.to \in SpecialNames
  BY DEF RuleTarget
<1>2. CASE target.kind = "numbered"
  <2> DEFINE moved == ForFamily(ToWorkspace(target.to), d, c)
  <2>1. target.to \in Nat /\ ToWorkspace(target.to) \in Ops
    BY <1>1, <1>2 DEF Ops
  <2>2. NotLost(d, moved) /\ Akin(was, d, moved)
    BY <2>1, FamilyNotLost, ForFamilyKin DEF Akin, SameKin
  <2>3. Settled(d, c, p, target) \in {moved, SwitchTo(moved, target.to, c)}
    BY <1>2 DEF Settled
  <2> HIDE DEF moved
  <2>4. SwitchTo(moved, target.to, c) = moved \/ Manned(SwitchTo(moved, target.to, c))
    BY <2>1, <2>2, SwitchToMinds, KinFree DEF Akin
  <2> QED BY <2>2, <2>3, <2>4, MindsIsNotLost
<1>3. CASE target.kind = "special" /\ CanCreate(d, target.to)
  <2>1. Settled(d, c, p, target) = MoveToSpecial(d, c, target.to, ~target.silent)
    BY <1>3 DEF Settled
  <2> QED BY <1>1, <1>3, <2>1, MoveToSpecialNotLost
<1>4. CASE ~(target.kind = "numbered" \/ (target.kind = "special" /\ CanCreate(d, target.to)))
  <2>1. Settled(d, c, p, target) = Inherited(d, c, p)
    BY <1>4 DEF Settled
  <2>2. c \in d.live
    BY DEF Good, SameSession
  <2>3. p # NoClient /\ d.special[p] # NoSpecial => d.special[p] \in SpecialNames
    BY DEF Good, Desk, SpecialOrNone, ClientOrNone
  <2>4. NotLost(d, d)
    BY StillMinds
  <2>5. ASSUME NEW s \in SpecialNames PROVE NotLost(d, MoveOneToSpecial(d, c, s))
    BY <2>2, MoveOneToSpecialMinds, StillMinds, MindsIsNotLost
  <2> QED BY <2>1, <2>3, <2>4, <2>5 DEF Inherited
<1> QED BY <1>2, <1>3, <1>4

\* So an arrival loses nothing.
LEMMA MapClientNotLost ==
  ASSUME NEW was, NEW d, Good(was, d), Honest(d), NEW c \in Client \ d.live,
         NEW p \in d.live \cup {NoClient}, NEW modal \in BOOLEAN, NEW rule \in MapRule,
         Free(MapClient(d, c, p, modal, rule)),
         Anchored(d) \/ \A k \in Client : MapClient(d, c, p, modal, rule).parent[k] = NoClient
  PROVE  NotLost(d, MapClient(d, c, p, modal, rule))
<1> DEFINE fresh == Fresh(d, c, p, modal, rule)
           homed == Settled(fresh, c, p, rule.target)
<1>1. rule.target \in RuleTarget /\ p \in ClientOrNone /\ d.live \subseteq Client
  BY DEF MapRule, Good, Desk, ClientOrNone
<1>2. Good(fresh, fresh) /\ c \in fresh.live
  BY FreshGood
<1>3. SameKin(fresh, MapClient(d, c, p, modal, rule))
  BY MapClientKin
<1>4. Free(fresh)
  BY <1>3 DEF Free, SameKin
<1>5. fresh.focused = d.focused /\ fresh.current = d.current
  BY FreshBut DEF SameBut
<1>6. Bound(fresh)
  <2>1. CASE Anchored(d)
    <3>1. d.special[c] = NoSpecial
      BY DEF Good, MembersHold
    <3>2. fresh.special = d.special /\ fresh.sticky \subseteq d.sticky \cup {c}
      BY DEF Good, Desk, Fresh
    <3> QED BY <2>1, <3>1, <3>2 DEF Anchored, Bound
  <2>2. CASE \A k \in Client : MapClient(d, c, p, modal, rule).parent[k] = NoClient
    BY <1>3, <2>2 DEF SameKin, Bound
  <2> QED BY <2>1, <2>2
<1>7. MapClient(d, c, p, modal, rule) \in {homed, FocusClient(homed, c)}
  BY DEF MapClient
<1> HIDE DEF fresh
<1>8. NotLost(fresh, homed) /\ Good(fresh, homed)
  BY <1>1, <1>2, <1>4, <1>6, SettledNotLost, SettledGood DEF ClientOrNone
<1> HIDE DEF homed
<1>9. NotLost(d, homed) /\ Minds(homed, FocusClient(homed, c))
  BY <1>5, <1>8, LostChain, FocusMinds DEF Good
<1> QED BY <1>7, <1>9, MindsChain

\* A departure hands the keyboard over, or leaves it where it is.
LEMMA ForgottenNotLost ==
  ASSUME NEW was, NEW d, Good(was, d), Free(d), NEW c \in Client
  PROVE  NotLost(d, Forgotten(d, c))
<1> DEFINE gone    == Erased(d, c)
           s       == d.special[c]
           settled == IF d.focused = c THEN Inheriting(gone, s) ELSE gone
           e       == Forgotten(d, c)
<1>1. Good(gone, gone) /\ Free(gone)
  BY ErasedGood, ErasedBut DEF Free
<1>2. gone.focused = (IF d.focused = c THEN NoClient ELSE d.focused) /\ gone.current = d.current
  BY ErasedBut DEF SameBut
<1>3. e = CycleWithout(settled, c) /\ s \in SpecialOrNone
  BY DEF Forgotten, Good, Desk
<1> HIDE DEF gone, s, e
<1>4. Manned(Inheriting(gone, s))
  <2> DEFINE x == IF s = NoSpecial \/ gone.shown # s THEN NoClient ELSE RecentMember(gone, s)
             y == Successor(gone, NoClient)
             heir == OrElse(x, y)
  <2>1. gone \in Desk /\ NoClient \notin Focusable(gone)
    BY <1>1, NumClientsAssumption DEF Good, Desk, Focusable, OnScreen, Normal, Client, NoClient
  <2>2. x # NoClient => x \in Focusable(gone)
    BY <1>1, <1>3, RecentMemberIs DEF SpecialOrNone
  <2>3. IF y = NoClient THEN Focusable(gone) = {} ELSE y \in Focusable(gone)
    BY <1>1, <2>1, SuccessorIs
  <2>4. Inheriting(gone, s) = HandOver(gone, heir)
    BY DEF Inheriting, Heir
  <2> HIDE DEF x, y
  <2>5. IF heir = NoClient THEN Focusable(gone) = {} ELSE heir \in Focusable(gone)
    BY <2>2, <2>3 DEF OrElse
  <2> HIDE DEF heir
  <2> QED BY <1>1, <2>1, <2>4, <2>5, HandedOver
<1>5. settled \in Desk
  <2>1. Good(gone, Inheriting(gone, s))
    BY <1>1, HandOverGood DEF Inheriting
  <2> QED BY <1>1, <2>1 DEF Good
<1>6. Manned(settled) \/ (settled.focused = d.focused /\ settled.current = d.current)
  BY <1>2, <1>4
<1> HIDE DEF settled
<1>7. SamePlaces(settled, e) /\ e.focused = settled.focused /\ e.noFocus = settled.noFocus
  <2>1. CycleWithout(settled, c).noFocus = settled.noFocus
    BY <1>5, CycleLook DEF SameLook
  <2> QED BY <1>3, <1>5, <2>1, CycleSame
<1>8. Manned(settled) => Manned(e)
  BY <1>7, LookIs DEF SameLook, Manned
<1> QED BY <1>6, <1>7, <1>8, StillMinds, MindsIsNotLost DEF SamePlaces, e

\* A window unpinned elsewhere passes the keyboard on.
LEMMA PinnedNotLost ==
  ASSUME NEW was, NEW d, Good(was, d), Free(d), NEW c \in Client, NEW on \in BOOLEAN
  PROVE  NotLost(d, Pinned(d, c, on))
<1> DEFINE sticky == IF on THEN d.sticky \cup {c} ELSE d.sticky \ {c}
           set == [d EXCEPT !.sticky = sticky]
<1>0. d \in Desk
  BY DEF Good
<1>1. sticky \in SUBSET Client /\ \A k \in Client \ {c} : k \in sticky <=> k \in d.sticky
  BY <1>0 DEF Desk
<1>2. Pinned(d, c, on) = IF (c \in d.sticky) = on THEN d
                         ELSE IF c \notin OnScreen(set) THEN Hide(FocusSuccessorOf(set, c), {c})
                         ELSE IF on THEN Show(set, {c}) ELSE set
  BY <1>0 DEF Pinned, Desk
<1> HIDE DEF sticky
<1>3. /\ set \in Desk /\ set.live = d.live /\ set.noFocus = d.noFocus
      /\ set.minimized = d.minimized /\ set.sticky = sticky /\ set.special = d.special
      /\ set.workspace = d.workspace /\ set.shown = d.shown /\ set.current = d.current
      /\ set.focused = d.focused
  BY <1>0, <1>1 DEF Desk
<1>4. SameRecords(d, set) /\ Free(set)
  BY <1>0, FieldsKin, KinFree DEF Desk, SameRecords, SameSession, SameHomes
<1> HIDE DEF set
<1>5. Good(was, set)
  BY <1>3, <1>4, OtherFields
<1>6. SameBut(c, d, set)
  BY <1>1, <1>3 DEF SameBut
<1>7. c \notin OnScreen(set) => Minds(d, Hide(FocusSuccessorOf(set, c), {c}))
  BY <1>0, <1>3, <1>4, <1>5, <1>6, PassedOn
<1>8. Show(set, {c}).focused = d.focused /\ Show(set, {c}).current = d.current
  BY <1>3, MappedLook DEF SameLook, SamePlaces
<1> QED BY <1>2, <1>3, <1>7, <1>8, StillMinds, MindsIsNotLost

\* A window with a new parent follows it.
LEMMA ReparentedNotLost ==
  ASSUME NEW was, NEW d, Good(was, d), NEW c \in was.live, NEW p \in ClientOrNone,
         Free(Reparented(d, c, p)),
         Anchored(d) \/ \A k \in Client : Reparented(d, c, p).parent[k] = NoClient
  PROVE  NotLost(d, Reparented(d, c, p))
<1> DEFINE set == [d EXCEPT !.parent[c] = p]
<1>0. d \in Desk
  BY DEF Good
<1>1. Good(was, set) /\ SamePlaces(d, set) /\ set.focused = d.focused /\ SameKin(set, Reparented(d, c, p))
  BY ReparentedKin
<1> HIDE DEF set
<1>2. Free(set) /\ Bound(set) /\ set.current = d.current
  BY <1>1 DEF Free, SameKin, Bound, Anchored, SamePlaces
<1>3. CASE d.parent[c] = p \/ p = NoClient
  BY <1>1, <1>2, <1>3, StillMinds DEF Reparented, set
<1>4. CASE ~(d.parent[c] = p \/ p = NoClient)
  <2>1. p \in Client
    BY <1>4 DEF ClientOrNone
  <2>2. d.special[p] # NoSpecial => ToSpecial(d.special[p]) \in Ops
    BY <1>0, <2>1 DEF Desk, SpecialOrNone, Ops
  <2>3. d.workspace[p] \in Nat
    BY <1>0, <2>1, MaxWorkspacesAssumption DEF Desk, Workspace
  <2>4. ToWorkspace(d.workspace[p]) \in Ops
    BY <2>3 DEF Ops
  <2>5. Reparented(d, c, p) = IF d.special[p] # NoSpecial
                              THEN ForFamily(ToSpecial(d.special[p]), set, c)
                              ELSE ForFamily(ToWorkspace(d.workspace[p]), set, c)
    BY <1>4 DEF Reparented, set
  <2>6. NotLost(set, Reparented(d, c, p))
    BY <1>1, <1>2, <2>2, <2>4, <2>5, FamilyNotLost
  <2> QED BY <1>1, <1>2, <2>6, LostChain
<1> QED BY <1>3, <1>4

\* A window that turns modal takes the keyboard or leaves it.
LEMMA ModalSetNotLost ==
  ASSUME NEW was, NEW d, Good(was, d), NEW c \in Client, NEW on \in BOOLEAN
  PROVE  NotLost(d, ModalSet(d, c, on))
<1> DEFINE set == [d EXCEPT !.modal = IF on THEN @ \cup {c} ELSE @ \ {c}]
<1>1. /\ Good(was, set) /\ SamePlaces(d, set) /\ set.focused = d.focused
      /\ ModalSet(d, c, on) \in {set, FocusClient(set, c)}
  BY ModalSetKin
<1> HIDE DEF set
<1>2. NotLost(d, set) /\ Minds(set, FocusClient(set, c))
  BY <1>1, StillMinds, FocusMinds DEF SamePlaces, Good
<1> QED BY <1>1, <1>2, MindsChain

\* A switch of workspace loses nothing.
LEMMA SwitchToNotLost ==
  ASSUME NEW was, NEW d, Good(was, d), Free(d), NEW w \in Nat, NEW arriving
  PROVE  NotLost(d, SwitchTo(d, w, arriving))
  BY SwitchToMinds, StillMinds, MindsIsNotLost

\* What clients and their windows do strands nothing, as long as nobody's dialog
\* turns modal and nobody on every workspace follows a family into hiding.
LEMMA ClientEventNotLost ==
  ASSUME IInv, Free(wm), Free(wm'), Anchored(wm) \/ (NoneRelated /\ NoneRelated'),
         NEW c \in Client, ClientEvent(c)
  PROVE  NotLost(wm, wm')
<1>0. Good(wm, wm) /\ Honest(wm) /\ wm \in Desk
  BY DEF IInv, Good
<1>1. ASSUME NEW p \in ClientOrNone, NEW modal \in BOOLEAN, NEW rule \in MapRules,
             MapRequest(c, p, modal, rule)
      PROVE  NotLost(wm, wm')
  <2>1. rule \in MapRule /\ p \in wm.live \cup {NoClient}
    BY <1>1, MapRulesAssumption DEF MapRequest
  <2>2. c \in Client \ wm.live /\ wm' = MapClient(wm, c, p, modal, rule)
    BY <1>1 DEF MapRequest, FreshSlot, Dispatched
  <2>3. Anchored(wm) \/ \A k \in Client : MapClient(wm, c, p, modal, rule).parent[k] = NoClient
    BY <2>2 DEF NoneRelated
  <2> QED BY <1>0, <2>1, <2>2, <2>3, MapClientNotLost
<1>2. CASE Forget(c)
  BY <1>0, <1>2, ForgottenNotLost DEF Forget, Dispatched
<1>3. CASE Activate(c)
  BY <1>0, <1>3, ActivateClientMinds, MindsIsNotLost DEF Activate, Dispatched
<1>4. CASE ChromeChanged(c)
  BY <1>0, <1>4, MappedMinds, MindsIsNotLost DEF ChromeChanged, Dispatched
<1>5. ASSUME NEW on \in BOOLEAN, SetUrgent(c, on) PROVE NotLost(wm, wm')
  <2> DEFINE u == IF on THEN wm.urgent \cup {c} ELSE wm.urgent \ {c}
  <2>1. wm' = [wm EXCEPT !.urgent = u]
    BY <1>5 DEF SetUrgent, Dispatched
  <2> HIDE DEF u
  <2>2. wm'.current = wm.current /\ wm'.focused = wm.focused
    BY <1>0, <2>1 DEF Desk
  <2> QED BY <2>2, StillMinds
<1>6. ASSUME NEW on \in BOOLEAN, ModalChanged(c, on) PROVE NotLost(wm, wm')
  BY <1>0, <1>6, ModalSetNotLost DEF ModalChanged, Dispatched
<1>7. ASSUME NEW p \in ClientOrNone, ParentChanged(c, p) PROVE NotLost(wm, wm')
  <2>1. c \in wm.live /\ wm' = Reparented(wm, c, p)
    BY <1>7 DEF ParentChanged, Dispatched
  <2>2. Anchored(wm) \/ \A k \in Client : Reparented(wm, c, p).parent[k] = NoClient
    BY <2>1 DEF NoneRelated
  <2> QED BY <1>0, <2>1, <2>2, ReparentedNotLost
<1> QED BY <1>1, <1>2, <1>3, <1>4, <1>5, <1>6, <1>7 DEF ClientEvent

\* Nor does what the user does to one window.
LEMMA UserEventNotLost ==
  ASSUME IInv, Free(wm), Bound(wm), NEW c \in Client, UserEvent(c)
  PROVE  NotLost(wm, wm')
<1>0. Good(wm, wm) /\ wm \in Desk
  BY DEF IInv, Good
<1>1. CASE Click(c) \/ PointerEnter(c) \/ FocusRequest(c)
  <2>1. wm' \in {FocusClient(wm, FocusTarget(wm, c)), FocusClient(wm, c)}
    BY <1>1 DEF Click, PointerEnter, FocusRequest, Dispatched
  <2> QED BY <1>0, <2>1, FocusMinds, MindsIsNotLost
<1>2. CASE Miniaturize(c) \/ Deminiaturize(c)
  BY <1>0, <1>2, IconsMinds, MindsIsNotLost DEF Miniaturize, Deminiaturize, Dispatched
<1>3. ASSUME NEW w \in 0 .. MaxWorkspaces, MoveToWorkspace(c, w) PROVE NotLost(wm, wm')
  <2>1. ToWorkspace(w) \in Ops
    BY MaxWorkspacesAssumption DEF Ops
  <2> QED BY <1>0, <1>3, <2>1, FamilyNotLost DEF MoveToWorkspace, Dispatched
<1>4. ASSUME NEW s \in SpecialNames, NEW follow \in BOOLEAN, MoveClientToSpecial(c, s, follow)
      PROVE  NotLost(wm, wm')
  BY <1>0, <1>4, MoveToSpecialNotLost DEF MoveClientToSpecial, Dispatched
<1>5. ASSUME NEW on \in BOOLEAN, SetPinned(c, on) PROVE NotLost(wm, wm')
  BY <1>0, <1>5, PinnedNotLost DEF SetPinned, Dispatched
<1> QED BY <1>1, <1>2, <1>3, <1>4, <1>5 DEF UserEvent

\* Nor what the user does to the whole desk.
LEMMA DeskEventNotLost ==
  ASSUME IInv, Free(wm), Bound(wm), DeskEvent
  PROVE  NotLost(wm, wm')
<1>0. Good(wm, wm) /\ wm \in Desk /\ Akin(wm, wm, wm)
  BY DEF IInv, Good, Akin, SameKin
<1>1. ASSUME NEW forward \in BOOLEAN, FocusNext(forward) PROVE NotLost(wm, wm')
  BY <1>0, <1>1, FocusMinds, MindsIsNotLost DEF FocusNext, Dispatched
<1>2. ASSUME NEW w \in 0 .. MaxWorkspaces, SwitchWorkspace(w) \/ RemoveWorkspace(w) \/ CarryFocused(w)
      PROVE  NotLost(wm, wm')
  <2>0. w \in Nat
    BY MaxWorkspacesAssumption
  <2>1. CASE SwitchWorkspace(w)
    BY <1>0, <2>0, <2>1, SwitchToNotLost DEF SwitchWorkspace, Dispatched
  <2>2. CASE RemoveWorkspace(w)
    BY <1>0, <2>0, <2>2, WithoutWorkspaceManned, MindsIsNotLost DEF RemoveWorkspace, Dispatched
  <2>3. CASE CarryFocused(w)
    <3> DEFINE c == wm.focused
               moved == ForFamily(ToWorkspace(w), wm, c)
               there == SwitchTo(moved, w, NoClient)
    <3>1. c \in wm.live
      BY <1>0, <2>3, FocusedLives DEF CarryFocused
    <3>2. ToWorkspace(w) \in Ops
      BY <2>0 DEF Ops
    <3>3. wm' = ActivateClient(there, c)
      BY <2>3 DEF CarryFocused, Dispatched
    <3> HIDE DEF c
    <3>4. Akin(wm, wm, moved) /\ NotLost(wm, moved)
      BY <1>0, <3>1, <3>2, ForFamilyKin, FamilyNotLost
    <3> HIDE DEF moved
    <3>5. Akin(wm, wm, there)
      BY <2>0, <3>4, SwitchToKin
    <3>6. there = moved \/ Manned(there)
      BY <2>0, <3>4, SwitchToMinds, KinFree DEF Akin
    <3> HIDE DEF there
    <3>7. Minds(there, ActivateClient(there, c))
      BY <3>5, ActivateClientMinds, KinFree DEF Akin
    <3> QED BY <3>3, <3>4, <3>6, <3>7, MindsIsNotLost, MindsChain
  <2> QED BY <1>2, <2>1, <2>2, <2>3
<1>3. CASE SwitchToPrevious
  <2>1. wm.previous \in Nat
    BY <1>0, <1>3, MaxWorkspacesAssumption DEF SwitchToPrevious, Desk
  <2> QED BY <1>0, <1>3, <2>1, SwitchToNotLost DEF SwitchToPrevious, Dispatched
<1>4. ASSUME NEW delta \in {-1, 1}, SwitchToOccupied(delta) \/ CycleStep(delta)
      PROVE  NotLost(wm, wm')
  <2>1. CASE SwitchToOccupied(delta)
    <3> DEFINE w == OccupiedStep(wm, delta)
    <3>1. w \in Nat
      BY <1>0, <2>1, OccupiedStepType DEF SwitchToOccupied
    <3>2. wm' = SwitchTo(wm, w, NoClient)
      BY <2>1 DEF SwitchToOccupied, Dispatched
    <3> HIDE DEF w
    <3> QED BY <1>0, <3>1, <3>2, SwitchToNotLost
  <2>2. CASE CycleStep(delta)
    BY <1>0, <2>2, CycleMinds DEF CycleStep, Dispatched
  <2> QED BY <1>4, <2>1, <2>2
<1>5. ASSUME NEW s \in SpecialNames, ToggleSpecial(s) PROVE NotLost(wm, wm')
  <2> DEFINE made == Create(wm, s)
  <2>1. wm' = HideSpecial(wm) \/ wm' = ShowSpecial(made, s)
    BY <1>5 DEF ToggleSpecial, Dispatched
  <2>2. Minds(wm, HideSpecial(wm))
    BY <1>0, HideSpecialMinds
  <2>3. Akin(wm, wm, made) /\ Minds(wm, made)
    BY <1>0, CreateKin, CreateMinds
  <2> HIDE DEF made
  <2>4. Minds(made, ShowSpecial(made, s))
    BY <2>3, ShowSpecialMinds, KinFree DEF Akin
  <2> QED BY <2>1, <2>2, <2>3, <2>4, MindsChain, MindsIsNotLost
<1>6. CASE CycleCancel
  BY <1>0, <1>6, CycleMinds DEF CycleCancel, Dispatched
<1>7. CASE CycleCommit
  BY <1>0, <1>7, CycleMinds DEF CycleCommit, Dispatched
<1>8. CASE LockChanges
  BY <1>8, StillMinds DEF LockChanges
<1> QED BY <1>1, <1>2, <1>3, <1>4, <1>5, <1>6, <1>7, <1>8 DEF DeskEvent

\* So no such step does.
LEMMA NextNotLost ==
  ASSUME IInv, Free(wm), Free(wm'), Anchored(wm) \/ (NoneRelated /\ NoneRelated'), [Next]_vars
  PROVE  NotLost(wm, wm')
<1>1. Bound(wm)
  BY DEF Bound, NoneRelated
<1>2. CASE Next
  BY <1>1, <1>2, DeskEventNotLost, ClientEventNotLost, UserEventNotLost DEF Next
<1>3. CASE UNCHANGED vars
  BY <1>3, StillMinds DEF vars
<1> QED BY <1>2, <1>3

\* No step strands the keyboard while nobody's dialog is modal and either nobody
\* has a parent or nobody who is on every workspace is in an overlay.  Beyond these
\* it can be lost: a modal dialog that is not on screen refuses it, and a family is
\* moved member by member, so that the one with the keyboard may leave it to
\* nobody before a sticky one comes out of a hidden overlay
\* (move_client_to_workspace, focus_successor).
THEOREM StrandedSafety ==
  Spec => [][Free(wm) /\ Free(wm') /\ (Anchored(wm) \/ (NoneRelated /\ NoneRelated'))
             /\ wm'.focused = NoClient /\ (wm.focused # NoClient \/ wm'.current # wm.current)
               => Focusable(wm') = {}]_vars
<1> DEFINE A == Free(wm) /\ Free(wm') /\ (Anchored(wm) \/ (NoneRelated /\ NoneRelated'))
                /\ wm'.focused = NoClient /\ (wm.focused # NoClient \/ wm'.current # wm.current)
                  => Focusable(wm') = {}
<1>1. IInv /\ [Next]_vars => [A]_vars
  BY NextNotLost DEF NotLost, Manned
<1> QED BY <1>1, InitIInv, NextIInv, PTL DEF Spec

\* So where no window has a parent, whatever dialogs and overlays there are, and
\* where there are families but neither modal dialogs nor overlays, the keyboard
\* is never stranded.
THEOREM KeyboardSafety ==
  ASSUME \/ {"parent", "reparent"} \cap Gestures = {}
         \/ {"modal", "remodal"} \cap Gestures = {} /\ SpecialNames = {}
  PROVE  Spec => NoStrandedKeyboard
<1> DEFINE SInv == /\ IInv
                   /\ {"modal", "remodal"} \cap Gestures = {} => NoneModal
                   /\ {"parent", "reparent"} \cap Gestures = {} => NoneRelated
<1>1. Init => SInv
  BY InitIInv, InitUnrelated
<1>2. SInv /\ [Next]_vars => SInv'
  BY NextIInv, NextUnrelated
<1>3. SpecialNames = {} /\ IInv => Anchored(wm)
  <2>1. SpecialNames = {} /\ IInv => wm.special \in [Client -> {NoSpecial}] /\ wm.sticky \subseteq Client
    BY DEF IInv, Good, Desk, SpecialOrNone
  <2> QED BY <2>1 DEF Anchored
<1>4. SInv /\ [Next]_vars => [wm'.focused = NoClient /\ (wm.focused # NoClient \/ wm'.current # wm.current)
                                => Focusable(wm') = {}]_vars
  <2> SUFFICES ASSUME SInv, [Next]_vars PROVE NotLost(wm, wm')
    BY DEF NotLost, Manned
  <2>1. SInv'
    BY <1>2
  <2>2. Free(wm) /\ Free(wm')
    BY <2>1 DEF Free, NoneModal, NoneRelated
  <2> HIDE DEF SInv
  <2>3. Anchored(wm) \/ (NoneRelated /\ NoneRelated')
    BY <1>3, <2>1 DEF SInv
  <2> QED BY <2>2, <2>3, NextNotLost DEF SInv
<1> QED BY <1>1, <1>2, <1>4, PTL DEF Spec, NoStrandedKeyboard
-----------------------------------------------------------------------------
(* An activation reorders the history by its own target only.                *)

\* Apart from whoever has the keyboard afterwards, the history is as it was.
Light(d, e) == Without(e.history, e.focused) = Without(d.history, e.focused)

\* To move a window to the head of the history moves no other.
LEMMA RememberedLight ==
  ASSUME NEW h \in Seq(Client), NEW k \in Client
  PROVE  Without(Remembered(h, k), k) = Without(h, k)
<1> DEFINE others == Client \ {k}
           q == Keep(h, others)
<1>1. q \in Seq(Client)
  BY KeepElements
<1>2. k \notin others /\ others \cap others = others
  OBVIOUS
<1>3. Keep(q, others) = Keep(h, others)
  <2> HIDE DEF others
  <2> QED BY <1>2, KeepKeep
<1> HIDE DEF q, others
<1>4. Keep(Append(q, k), others) = Keep(q, others)
  BY <1>1, <1>2, KeepAppend
<1> QED BY <1>3, <1>4 DEF q, others, Without, Remembered

\* What giving the keyboard writes: the focus and the head of the history.
LEMMA FocusOnIs ==
  ASSUME NEW e \in Desk, NEW k
  PROVE  /\ SameLook(e, FocusOn(e, k)) /\ FocusOn(e, k) \in Desk /\ SameKin(e, FocusOn(e, k))
         /\ k \notin Focusable(e) => FocusOn(e, k) = e
         /\ k \in Focusable(e) =>
              /\ FocusOn(e, k).focused = k /\ k \in Client
              /\ FocusOn(e, k).history = IF e.focused = k THEN e.history ELSE Remembered(e.history, k)
<1>1. CASE k \notin Focusable(e)
  BY <1>1 DEF FocusOn, SameLook, SamePlaces, SameKin
<1>2. CASE k \in Focusable(e)
  <2>1. k \in Client
    BY <1>2 DEF Focusable, OnScreen, Normal, Desk
  <2> DEFINE h == Remembered(e.history, k)
             u == e.urgent \ {k}
             same == [e EXCEPT !.seat = k]
             other == [e EXCEPT !.focused = k, !.history = h, !.seat = k, !.urgent = u]
  <2>2. h \in Seq(Client) /\ u \in SUBSET Client /\ k \in ClientOrNone
    <3>1. Without(e.history, k) \in Seq(Client)
      BY WithoutIs DEF Desk
    <3> QED BY <2>1, <3>1 DEF Remembered, Desk, ClientOrNone
  <2>3. FocusOn(e, k) = IF e.focused = k THEN same ELSE other
    BY <1>2 DEF FocusOn
  <2> HIDE DEF h, u
  <2>4. /\ SameLook(e, same) /\ same \in Desk /\ SameKin(e, same)
        /\ same.focused = e.focused /\ same.history = e.history
    BY <2>2 DEF Desk, SameLook, SamePlaces, SameKin
  <2>5. /\ SameLook(e, other) /\ other \in Desk /\ SameKin(e, other)
        /\ other.focused = k /\ other.history = h
    BY <2>2 DEF Desk, SameLook, SamePlaces, SameKin
  <2> HIDE DEF same, other
  <2> QED BY <1>2, <2>1, <2>3, <2>4, <2>5 DEF h
<1> QED BY <1>1, <1>2

\* One window given the keyboard leaves the rest of the history alone, and so it
\* does when it is given it twice, or when it is refused it afterwards.
LEMMA FocusOnLight ==
  ASSUME NEW d \in Desk, NEW e \in Desk, e.history = d.history, NEW k, NEW c
  PROVE  /\ Light(d, FocusOn(e, k))
         /\ Light(d, FocusOn(FocusOn(e, c), c))
         /\ c \notin Focusable(e) => Light(d, FocusOn(FocusOn(e, k), c))
<1>1. ASSUME NEW x PROVE Light(d, FocusOn(e, x))
  <2>1. CASE x \notin Focusable(e)
    BY <2>1, FocusOnIs DEF Light
  <2>2. CASE x \in Focusable(e)
    <3>1. d.history \in Seq(Client)
      BY DEF Desk
    <3> QED BY <2>2, <3>1, FocusOnIs, RememberedLight DEF Light
  <2> QED BY <2>1, <2>2
<1>2. ASSUME NEW x PROVE FocusOn(e, x) \in Desk /\ Focusable(FocusOn(e, x)) = Focusable(e)
  BY FocusOnIs, LookIs
<1>3. Light(d, FocusOn(FocusOn(e, c), c))
  <2> DEFINE f == FocusOn(e, c)
  <2>0. f \in Desk /\ Focusable(f) = Focusable(e) /\ Light(d, f)
        /\ (c \in Focusable(e) => f.focused = c)
    BY <1>1, <1>2, FocusOnIs
  <2> HIDE DEF f
  <2>1. CASE c \notin Focusable(e)
    BY <2>0, <2>1, FocusOnIs DEF f
  <2>2. CASE c \in Focusable(e)
    <3>1. FocusOn(f, c).focused = f.focused /\ FocusOn(f, c).history = f.history
      BY <2>0, <2>2, FocusOnIs
    <3> QED BY <2>0, <3>1 DEF Light, f
  <2> QED BY <2>1, <2>2
<1>4. c \notin Focusable(e) => Light(d, FocusOn(FocusOn(e, k), c))
  <2> DEFINE f == FocusOn(e, k)
  <2>0. f \in Desk /\ Focusable(f) = Focusable(e) /\ Light(d, f)
    BY <1>1, <1>2
  <2> HIDE DEF f
  <2> QED BY <2>0, FocusOnIs DEF f
<1> QED BY <1>1, <1>3, <1>4

\* After a switch for window c the keyboard moves once at most: where it goes
\* first, c is refused it.
LEMMA KeyboardForLight ==
  ASSUME NEW d \in Desk, NEW e \in Desk, e.history = d.history,
         \A k \in Client : e.parent[k] = NoClient, NEW c \in Client
  PROVE  Light(d, FocusOn(KeyboardFor(e, c), c))
<1>1. FocusClient(e, c) = FocusOn(e, c)
  BY FreeTarget DEF Free, FocusClient
<1>2. CASE e.focused # NoClient /\ Placed(e, e.focused)
  BY <1>2, FocusOnLight DEF KeyboardFor
<1>3. CASE ~(e.focused # NoClient /\ Placed(e, e.focused)) /\ c \in Focusable(e)
  <2>1. KeyboardFor(e, c) = FocusOn(e, c)
    BY <1>1, <1>3 DEF KeyboardFor
  <2> QED BY <2>1, FocusOnLight
<1>4. CASE ~(e.focused # NoClient /\ Placed(e, e.focused)) /\ c \notin Focusable(e)
  <2>1. \A k : FocusClient(e, k) = FocusOn(e, FocusTarget(e, k))
    BY DEF FocusClient
  <2>2. KeyboardFor(e, c) \in {e, DropFocus(e)} \/ \E k : KeyboardFor(e, c) = FocusOn(e, k)
    <3> DEFINE s == Successor(e, e.focused)
               t == Successor(e, NoClient)
    <3>1. KeyboardFor(e, c) = IF e.focused # NoClient
                              THEN IF s = NoClient THEN DropFocus(e) ELSE FocusClient(e, s)
                              ELSE IF t = NoClient THEN e ELSE FocusClient(e, t)
      BY <1>4 DEF KeyboardFor, FocusSuccessorOf, HandOver, FocusIfAny
    <3> HIDE DEF s, t
    <3> QED BY <2>1, <3>1
  <2>3. DropFocus(e) \in Desk /\ DropFocus(e).history = d.history
    BY DEF DropFocus, Desk, ClientOrNone
  <2>4. Focusable(DropFocus(e)) = Focusable(e)
    BY DEF DropFocus, Desk, Focusable, OnScreen, Normal, Placed
  <2> QED BY <1>4, <2>2, <2>3, <2>4, FocusOnLight
<1> QED BY <1>2, <1>3, <1>4

\* The window a family is restored for stays an icon or ends on screen, and the
\* history is as it was until it takes the keyboard.
LEMMA DeminiaturizeOneLight ==
  ASSUME NEW d, Good(d, d), \A k \in Client : d.parent[k] = NoClient, NEW c \in d.minimized
  PROVE  \E e \in Desk :
           /\ DeminiaturizeOne(d, c) = FocusOn(e, c)
           /\ e.history = d.history /\ SameKin(d, e) /\ Placed(e, c)
<1> DEFINE raised == [d EXCEPT !.minimized = @ \ {c}]
           w == d.current
           up == MoveOneToWorkspace(raised, c, w)
           e == Show(up, {c})
<1>0. d \in Desk /\ d.minimized \subseteq d.live /\ c \in Client /\ w \in Nat /\ ~TooFar(w)
  BY MaxWorkspacesAssumption DEF Good, Desk, Workspace, TooFar
<1>1. Good(d, raised) /\ raised.current = w /\ raised.history = d.history /\ SameKin(d, raised)
      /\ c \in Client
  <2>1. d.minimized \ {c} \subseteq d.live
    BY <1>0
  <2> QED BY <1>0, <2>1, IconsGood, FieldsKin DEF Desk
<1> HIDE DEF raised
<1>2. SameKin(raised, up) /\ Placed(up, c) /\ up \in Desk
  <2>1. Good(d, up)
    BY <1>0, <1>1, MoveOneToWorkspaceGood
  <2> QED BY <1>1, <2>1, MoveHereIs DEF Good
<1>3. up.history = raised.history
  <2> DEFINE grown == Grown(raised, w)
             out == LeaveSpecial(grown, c)
             home == Homed(out, c, w)
  <2>1. up = IF raised.workspace[c] = w /\ raised.special[c] = NoSpecial THEN grown
             ELSE IF raised.special[c] # NoSpecial /\ c \in Normal(raised) THEN Show(home, {c}) ELSE home
    BY <1>0, <1>1 DEF MoveOneToWorkspace
  <2>2. w \in Workspace
    BY <1>0 DEF Desk
  <2>3. grown \in Desk /\ grown.history = raised.history
    <3>1. grown.history = raised.history
      BY <1>1 DEF Good, Desk, Grown
    <3> QED BY <1>1, <2>2, <3>1, GrownGood DEF Good
  <2> HIDE DEF grown
  <2>4. out \in Desk /\ out.history = grown.history
    <3>1. Good(d, grown)
      BY <1>1, <2>2, GrownGood DEF grown
    <3> QED BY <1>1, <2>3, <3>1, LeaveSpecialSame, LeaveSpecialGood DEF Good
  <2> HIDE DEF out
  <2>5. home.history = out.history
    BY <2>4 DEF Homed, Desk
  <2>6. home.history = out.history /\ Show(home, {c}).history = out.history
    BY <2>4 DEF Homed, Show, Desk
  <2> HIDE DEF home
  <2> QED BY <2>1, <2>3, <2>4, <2>5, <2>6
<1> HIDE DEF up
<1>4. SameKin(up, e) /\ e.history = up.history /\ e \in Desk /\ (Placed(up, c) => Placed(e, c))
  BY <1>1, <1>2, KinIsKept DEF Show, Desk, Placed
<1>5. DeminiaturizeOne(d, c) = FocusClient(e, c)
  BY DEF DeminiaturizeOne, raised, up
<1> HIDE DEF e
<1>6. SameKin(d, e)
  BY <1>1, <1>2, <1>4 DEF SameKin
<1>7. FocusClient(e, c) = FocusOn(e, c)
  BY <1>1, <1>4, <1>6, FreeTarget DEF Free, SameKin, FocusClient
<1> QED BY <1>1, <1>2, <1>3, <1>4, <1>5, <1>6, <1>7

\* To present a window, wherever it is, moves no other in the history.
LEMMA PresentedLight ==
  ASSUME SpecialNames = {}, NEW d, Good(d, d), \A k \in Client : d.parent[k] = NoClient,
         NEW c \in d.live
  PROVE  Light(d, Presented(d, c))
<1>0. d \in Desk /\ c \in Client /\ d.special[c] = NoSpecial /\ d.shown = NoSpecial
  BY DEF Good, Desk, SpecialOrNone
<1>1. ASSUME NEW e \in Desk, SameKin(d, e)
      PROVE  FocusTarget(e, c) = c /\ FocusClient(e, c) = FocusOn(e, c)
  BY <1>0, <1>1, FreeTarget DEF Free, SameKin, FocusClient
<1>2. CASE c \in d.minimized
  <2>1. Restored(d, c) = DeminiaturizeOne(d, c)
    BY <1>0, <1>2, ForOne DEF Restored, Step, FromIcon
  <2>2. PICK e \in Desk : /\ DeminiaturizeOne(d, c) = FocusOn(e, c)
                          /\ e.history = d.history /\ SameKin(d, e) /\ Placed(e, c)
    BY <1>2, DeminiaturizeOneLight
  <2> DEFINE f == FocusOn(e, c)
  <2>3. f \in Desk /\ SameLook(e, f) /\ SameKin(e, f)
    BY FocusOnIs
  <2> HIDE DEF f
  <2>4. Placed(f, c) /\ SameKin(d, f)
    BY <2>2, <2>3 DEF SameLook, SamePlaces, SameKin, Placed
  <2>5. BringIntoView(f, c) = f
    BY <1>1, <2>3, <2>4 DEF BringIntoView, Brought
  <2>6. Presented(d, c) = FocusOn(f, c)
    BY <1>1, <2>1, <2>2, <2>3, <2>4, <2>5 DEF Presented, f
  <2> QED BY <1>0, <2>2, <2>6, FocusOnLight DEF f
<1>3. CASE c \notin d.minimized
  <2>0. c \in Normal(d) /\ Restored(d, c) = d /\ SameKin(d, d)
    BY <1>3 DEF Normal, Restored, SameKin
  <2> DEFINE w == d.workspace[c]
             s == SwitchTo(d, w, c)
             there == Entered(d, w)
             drawn == Redrawn(there)
  <2>1. BringIntoView(d, c) = IF Placed(d, c) THEN d ELSE s
    BY <1>0, <1>1, <2>0 DEF BringIntoView, Brought
  <2>2. w \in Workspace /\ w \in Nat
    BY <1>0, MaxWorkspacesAssumption DEF Desk, Workspace
  <2>3. SameKin(d, s) /\ s \in Desk
    <3>1. Akin(d, d, s)
      BY <2>0, <2>2, SwitchToKin DEF Akin
    <3> QED BY <3>1 DEF Akin, Good
  <2>4. HideSpecial(d) = d
    BY <1>0 DEF HideSpecial
  <2>5. s \in {d, KeyboardFor(drawn, c)}
    BY <2>4 DEF SwitchTo
  <2>6. Presented(d, c) = FocusOn(IF Placed(d, c) THEN d ELSE s, c)
    BY <1>0, <1>1, <2>0, <2>1, <2>3 DEF Presented
  <2> HIDE DEF s
  <2>7. there \in Desk /\ SameKin(d, there) /\ there.history = d.history
    <3>1. Akin(d, d, there)
      BY <2>0, <2>2, EnteredKin DEF Akin
    <3>2. there.history = d.history
      <4> DEFINE g == Grown(d, w)
      <4>1. g \in Desk /\ g.history = d.history
        <5>1. g.history = d.history
          BY <1>0 DEF Grown, Desk
        <5> QED BY <2>2, <5>1, GrownGood DEF Good
      <4>2. there = [g EXCEPT !.previous = d.current, !.current = w]
        BY DEF Entered
      <4> HIDE DEF g, there
      <4> QED BY <4>1, <4>2 DEF Desk
    <3> QED BY <3>1, <3>2 DEF Akin, Good
  <2>8. Good(d, there)
    BY <2>2, EnteredGood
  <2> HIDE DEF there
  <2>9. drawn \in Desk /\ SameKin(d, drawn) /\ drawn.history = d.history
    <3>1. SameKin(there, drawn) /\ drawn.history = there.history
      BY <2>7, FieldsKin DEF Redrawn, Desk
    <3>2. drawn \in Desk
      BY <2>8, RedrawnGood DEF Good
    <3> HIDE DEF drawn
    <3> QED BY <2>7, <3>1, <3>2 DEF SameKin
  <2> HIDE DEF drawn
  <2>10. \A k \in Client : drawn.parent[k] = NoClient
    BY <2>9 DEF SameKin
  <2>11. Light(d, FocusOn(d, c))
    BY <1>0, FocusOnLight
  <2>12. Light(d, FocusOn(KeyboardFor(drawn, c), c))
    BY <1>0, <2>9, <2>10, KeyboardForLight
  <2> QED BY <2>5, <2>6, <2>11, <2>12
<1> QED BY <1>2, <1>3

\* Where windows have no parents and there are no special workspaces, an
\* activation moves its own target to the head of the history and no other
\* window, whatever workspace, icon or refusal it goes through
\* (bring_workspace_into_view, activate_window).
THEOREM ActivationLightness ==
  ASSUME {"parent", "reparent"} \cap Gestures = {}, SpecialNames = {}
  PROVE  Spec => ActivationWithoutDetour
<1> DEFINE LInv == IInv /\ NoneRelated
           Kept == Without(wm'.history, wm'.focused) # Without(wm.history, wm'.focused)
                     => ~ \E c \in Client : Activate(c)
<1>1. Init => LInv
  BY InitIInv, InitUnrelated
<1>2. LInv /\ [Next]_vars => LInv'
  BY NextIInv, NextUnrelated
<1>3. LInv => [Kept]_vars
  <2> SUFFICES ASSUME LInv, NEW c \in Client, Activate(c)
               PROVE  Light(wm, wm')
    BY DEF Light
  <2>1. Good(wm, wm) /\ c \in wm.live /\ wm' = ActivateClient(wm, c)
        /\ \A k \in Client : wm.parent[k] = NoClient
    BY DEF IInv, NoneRelated, Activate, Dispatched
  <2>2. Light(wm, Presented(wm, c))
    BY <2>1, PresentedLight
  <2>3. wm' \in {wm, [wm EXCEPT !.urgent = @ \cup {c}], Presented(wm, c)}
    BY <2>1 DEF ActivateClient
  <2>4. [wm EXCEPT !.urgent = @ \cup {c}].history = wm.history
    BY <2>1 DEF Good, Desk
  <2> QED BY <2>2, <2>3, <2>4 DEF Light
<1> QED BY <1>1, <1>2, <1>3, PTL DEF Spec, ActivationWithoutDetour
-----------------------------------------------------------------------------
(* Dialogs follow their parents.  A family is moved one member at a time, in *)
(* an order decided before the first moves; what makes that safe is that the *)
(* order holds whole families: whoever belongs to a member, to the depth the *)
(* code follows parents, is a member.                                        *)

\* The first links of a chain of parents.
Links == 0 .. MaxTransientDepth
Chain(d, u) ==
  /\ u \in [Links -> ClientOrNone]
  /\ \A k \in 1 .. MaxTransientDepth :
       u[k] = IF u[k - 1] = NoClient THEN NoClient ELSE d.parent[u[k - 1]]

\* The ancestors of a client are the members of its chain.
LEMMA AncestorsChain ==
  ASSUME NEW d \in Desk, NEW c \in Client
  PROVE  \E u : Chain(d, u) /\ u[0] = c /\ Ancestors(d, c) = {u[k] : k \in Links}
<1> DEFINE n == MaxTransientDepth
           V == ClientOrNone
           Above(x) == IF x = NoClient THEN NoClient ELSE d.parent[x]
           Round == [k \in 1 .. n |-> [x \in V |-> Above(x)]]
           Up(f) == f = [k \in 0 .. n |-> IF k = 0 THEN c ELSE Above(f[k - 1])]
           f == CHOOSE f : Up(f)
<1>1. n \in Nat /\ c \in V /\ \A x \in V : Above(x) \in V
  BY DEF MaxTransientDepth, ClientOrNone, Desk
<1>2. Ancestors(d, c) = {f[k] : k \in 0 .. n}
  BY DEF Ancestors
<1>3. Chain(d, f) <=> /\ f \in [0 .. n -> V]
                      /\ \A k \in 1 .. n : f[k] = Above(f[k - 1])
  BY DEF Chain, Links
<1>4. 0 .. n = Links
  BY DEF Links
<1> HIDE DEF n, V, Above
<1>5. Round \in Bodies(n, V)
  BY <1>1 DEF Bodies
<1>6. PICK g \in Runs(n, V, c, Round) : TRUE
  <2> HIDE DEF Round
  <2> QED BY <1>1, <1>5, RecursionExists
<1>7. g \in [0 .. n -> V] /\ g[0] = c /\ \A k \in 1 .. n : g[k] = Above(g[k - 1])
  <2>1. g \in [0 .. n -> V] /\ g[0] = c /\ \A k \in 1 .. n : g[k] = Round[k][g[k - 1]]
    BY <1>6 DEF Runs
  <2>2. ASSUME NEW k \in 1 .. n PROVE g[k] = Above(g[k - 1])
    <3>1. k - 1 \in 0 .. n
      BY <1>1
    <3>2. g[k - 1] \in V /\ g[k] = Round[k][g[k - 1]]
      BY <3>1, <2>1
    <3> QED BY <3>2
  <2> QED BY <2>1, <2>2
<1>8. Up(g)
  <2>1. \A k \in 0 .. n : k # 0 => k \in 1 .. n
    BY <1>1
  <2> QED BY <1>7, <2>1
<1>9. Up(f)
  BY <1>8
<1> HIDE DEF f
<1>10. f[0] = c /\ DOMAIN f = 0 .. n /\ \A k \in 1 .. n : f[k] = Above(f[k - 1])
  <2>1. 0 \in 0 .. n /\ \A k \in 1 .. n : k \in 0 .. n /\ k # 0
    BY <1>1
  <2> QED BY <1>9, <2>1
<1> DEFINE T == {k \in 0 .. n : f[k] \in V}
<1>11. 0 \in T
  BY <1>1, <1>10
<1>12. ASSUME NEW k \in 1 .. n, k - 1 \in T PROVE k \in T
  <2>1. k \in 0 .. n
    BY <1>1
  <2> QED BY <1>1, <1>10, <1>12, <2>1
<1>13. 0 .. n \subseteq T
  <2> HIDE DEF T
  <2> QED BY <1>1, <1>11, <1>12, IntervalInduction
<1>14. f \in [0 .. n -> V]
  <2>1. f = [k \in 0 .. n |-> f[k]]
    BY <1>9
  <2> QED BY <1>13, <2>1
<1> QED BY <1>2, <1>3, <1>4, <1>10, <1>14

\* Two chains that meet are one from there on.
LEMMA ChainsMeet ==
  ASSUME NEW d, NEW u, Chain(d, u), NEW v, Chain(d, v),
         NEW a \in Links, NEW b \in Links, u[a] = v[b],
         NEW i \in Nat, a + i \in Links, b + i \in Links
  PROVE  u[a + i] = v[b + i]
<1> DEFINE T == {j \in 0 .. i : u[a + j] = v[b + j]}
<1>1. a \in Nat /\ b \in Nat /\ MaxTransientDepth \in Nat
  BY DEF Links, MaxTransientDepth
<1>2. 0 \in T
  BY <1>1
<1>3. ASSUME NEW j \in 1 .. i, j - 1 \in T PROVE j \in T
  <2>1. a + j \in 1 .. MaxTransientDepth /\ b + j \in 1 .. MaxTransientDepth /\ j \in 0 .. i
    BY <1>1 DEF Links
  <2>2. a + (j - 1) = (a + j) - 1 /\ b + (j - 1) = (b + j) - 1
    BY <1>1
  <2>3. u[(a + j) - 1] = v[(b + j) - 1]
    BY <1>3, <2>2
  <2>4. u[a + j] = v[b + j]
    <3> DEFINE x == a + j
               y == b + j
    <3> HIDE DEF x, y
    <3> QED BY <2>1, <2>3 DEF Chain, x, y
  <2> QED BY <2>1, <2>4
<1>4. i \in 0 .. i
  OBVIOUS
<1>5. 0 .. i \subseteq T
  <2> HIDE DEF T
  <2> QED BY <1>2, <1>3, IntervalInduction
<1> QED BY <1>4, <1>5

\* There are NumClients clients.
LEMMA ClientCount == IsFiniteSet(Client) /\ Cardinality(Client) = NumClients
<1>1. NumClients \in Int /\ 1 \in Int /\ (1 > NumClients => NumClients = 0)
      /\ NumClients - 1 + 1 = NumClients
  BY NumClientsAssumption
<1> QED BY <1>1, FS_Interval DEF Client

\* As many links as there are clients reach every client, so with no more
\* clients than links the depth cuts no family short: the child of a member is
\* a member.
LEMMA FamilyDown ==
  ASSUME NumClients <= MaxTransientDepth + 1,
         NEW d \in Desk, NEW root \in Client, NEW k \in d.live, d.parent[k] \in Family(d, root)
  PROVE  k \in Family(d, root)
<1> DEFINE p == d.parent[k]
           n == MaxTransientDepth
<1>1. k \in Client /\ d.live \subseteq Client /\ n = 8 /\ n \in Nat /\ Links = 0 .. n
      /\ NoClient \notin Client
  BY NumClientsAssumption DEF Desk, MaxTransientDepth, Links, Client, NoClient
<1>2. p \in Client /\ (p = root \/ root \in Ancestors(d, p))
  BY <1>1 DEF Family
<1>3. PICK v : Chain(d, v) /\ v[0] = k /\ Ancestors(d, k) = {v[j] : j \in Links}
  BY <1>1, AncestorsChain
<1>4. PICK u : Chain(d, u) /\ u[0] = p /\ Ancestors(d, p) = {u[j] : j \in Links}
  BY <1>2, AncestorsChain
<1>5. v[1] = p
  <2>1. 1 \in 1 .. n /\ 1 - 1 = 0
    BY <1>1
  <2>2. v[1] = IF v[1 - 1] = NoClient THEN NoClient ELSE d.parent[v[1 - 1]]
    BY <1>3, <2>1 DEF Chain
  <2> QED BY <1>1, <1>3, <2>1, <2>2
<1>6. SUFFICES root \in Ancestors(d, k)
  BY DEF Family
<1>7. CASE p = root
  <2>1. 1 \in Links
    BY <1>1
  <2> QED BY <1>3, <1>5, <1>7, <2>1
<1>8. CASE p # root
  <2> DEFINE H == {j \in Links : u[j] = root}
  <2>1. H \in SUBSET Nat /\ H # {}
    BY <1>1, <1>2, <1>4, <1>8
  <2>2. PICK m \in H : \A j \in H : ~(j < m)
    BY <2>1, LeastNatural
  <2>3. m \in Links /\ u[m] = root /\ m \in 0 .. n
    BY <1>1, <2>2
  <2>4. CASE m < n
    <3>1. 0 \in Links /\ 1 \in Links /\ 0 + m \in Links /\ 1 + m \in Links /\ m \in Nat
      BY <1>1, <2>3, <2>4
    <3>2. u[0 + m] = v[1 + m]
      BY <1>3, <1>4, <1>5, <3>1, ChainsMeet
    <3>3. 0 + m = m
      BY <3>1
    <3> QED BY <1>3, <2>3, <3>1, <3>2, <3>3
  <2>5. CASE m = n
    <3>1. ASSUME NEW a \in Links, NEW b \in Links, a < b, u[a] = u[b] PROVE FALSE
      <4> DEFINE i == n - b
      <4>1. i \in Nat /\ a + i \in Links /\ b + i \in Links /\ b + i = n /\ a + i < n
        BY <1>1, <3>1
      <4>2. u[a + i] = u[b + i]
        BY <1>4, <3>1, <4>1, ChainsMeet
      <4> QED BY <2>2, <2>3, <2>5, <4>1, <4>2
    <3>2. ASSUME NEW a \in Links PROVE u[a] \in Client
      <4>1. u[a] \in ClientOrNone
        BY <1>4 DEF Chain
      <4>2. CASE u[a] = NoClient
        <5> DEFINE T == {j \in 0 .. n : j >= a => u[j] = NoClient}
        <5>1. 0 \in T
          BY <1>1, <4>2
        <5>2. ASSUME NEW j \in 1 .. n, j - 1 \in T PROVE j \in T
          <6>1. u[j] = IF u[j - 1] = NoClient THEN NoClient ELSE d.parent[u[j - 1]]
            BY <1>4 DEF Chain
          <6>2. j >= a => j = a \/ j - 1 >= a
            BY <1>1
          <6> QED BY <1>1, <4>2, <5>2, <6>1, <6>2
        <5>3. 0 .. n \subseteq T
          <6> HIDE DEF T
          <6> QED BY <1>1, <5>1, <5>2, IntervalInduction
        <5>4. n \in 0 .. n /\ n >= a
          BY <1>1
        <5>5. u[n] = NoClient
          BY <5>3, <5>4
        <5> QED BY <1>1, <2>3, <2>5, <5>5
      <4> QED BY <4>1, <4>2 DEF ClientOrNone
    <3>3. PICK a \in Links : u[a] = k
      <4>1. IsFiniteSet(Client) /\ Cardinality(Client) = NumClients
        BY ClientCount
      <4>2. Cardinality(Links) = n + 1
        <5>1. n \in Int /\ 0 \in Int /\ ~(0 > n) /\ n - 0 + 1 = n + 1
          BY <1>1
        <5>2. Cardinality(0 .. n) = IF 0 > n THEN 0 ELSE n - 0 + 1
          BY <5>1, FS_Interval
        <5> QED BY <1>1, <5>1, <5>2
      <4>3. u \in Injection(Links, Client)
        <5>1. u \in [Links -> Client]
          BY <1>4, <3>2 DEF Chain
        <5>2. \A a, b \in Links : u[a] = u[b] => a = b
          BY <1>1, <3>1
        <5> QED BY <5>1, <5>2 DEF Injection, IsInjective
      <4>4. Cardinality(Links) <= Cardinality(Client)
            /\ (Cardinality(Links) = Cardinality(Client) <=> u \in Surjection(Links, Client))
        BY <4>1, <4>3, FS_Injection
      <4>5. u \in Surjection(Links, Client)
        BY <1>1, <4>1, <4>2, <4>4, NumClientsAssumption
      <4> QED BY <1>1, <4>5 DEF Surjection
    <3> DEFINE i == n - a
    <3>4. i \in Nat /\ a + i = n /\ 0 \in Links /\ 0 + i \in Links /\ a + i \in Links
      BY <1>1
    <3>5. v[0 + i] = u[a + i]
      BY <1>3, <1>4, <3>3, <3>4, ChainsMeet
    <3> QED BY <1>3, <2>3, <2>5, <3>4, <3>5
  <2> QED BY <1>1, <2>3, <2>4, <2>5
<1> QED BY <1>7, <1>8

\* No more different clients fit in a sequence than there are.
LEMMA FewClients ==
  ASSUME NEW q \in Seq(Client), Distinct(q)
  PROVE  Len(q) <= NumClients
<1>1. NumClients \in Nat /\ Len(q) \in Nat
  BY NumClientsAssumption
<1>2. IsFiniteSet(Client) /\ Cardinality(Client) = NumClients
  BY ClientCount
<1>3. Cardinality(1 .. Len(q)) = Len(q)
  <2>1. Len(q) \in Int /\ 1 \in Int /\ (1 > Len(q) => Len(q) = 0) /\ Len(q) - 1 + 1 = Len(q)
    BY <1>1
  <2> QED BY <2>1, FS_Interval
<1>4. q \in Injection(1 .. Len(q), Client)
  <2>1. q \in [1 .. Len(q) -> Client] /\ DOMAIN q = 1 .. Len(q)
    OBVIOUS
  <2> QED BY <2>1 DEF Injection, IsInjective, Distinct
<1>5. Cardinality(1 .. Len(q)) <= Cardinality(Client)
  BY <1>2, <1>4, FS_Injection
<1> QED BY <1>2, <1>3, <1>5

\* The order of a family holds its root, the parent of every other member, and
\* whoever of the family has a member for a parent.
LEMMA FamilyOrderClosed ==
  ASSUME NEW d \in Desk, NEW root \in d.live
  PROVE  LET F == Elements(FamilyOrder(d, root)) IN
         /\ root \in F /\ F \subseteq Family(d, root)
         /\ \A k \in F \ {root} : d.parent[k] \in F
         /\ \A k \in Family(d, root) : d.parent[k] \in F => k \in F
<1> DEFINE n == NumClients
           D == Family(d, root)
           Children(c) == {k \in D : d.parent[k] = c}
           Next1(seen, i) == IF i > Len(seen) THEN seen
                             ELSE seen \o Keep(Slots, Children(seen[i]) \ Elements(seen))
           V == {s \in Seq(Client) : Elements(s) \subseteq D}
           Round == [i \in 1 .. n |-> [seen \in V |-> Next1(seen, i)]]
           Walk(f) == f = [i \in 0 .. n |-> IF i = 0 THEN <<root>> ELSE Next1(f[i - 1], i)]
           f == CHOOSE f : Walk(f)
           Done(s, i) == /\ s \in V /\ Distinct(s) /\ root \in Elements(s)
                         /\ \A k \in Elements(s) \ {root} : d.parent[k] \in Elements(s)
                         /\ \A j \in 1 .. Len(s) : j <= i => Children(s[j]) \subseteq Elements(s)
<1>1. n \in Nat /\ root \in Client /\ root \in D /\ D \subseteq Client
  BY NumClientsAssumption DEF Desk, Family
<1>2. Slots \in Seq(Client) /\ Elements(Slots) = Client /\ Distinct(Slots)
  <2>1. NumClients \in Nat /\ Slots = [i \in 1 .. NumClients |-> i]
    BY NumClientsAssumption DEF Slots, Client
  <2> QED BY <2>1 DEF Client, Elements, Distinct
<1>3. FamilyOrder(d, root) = f[n]
  BY DEF FamilyOrder
<1> HIDE DEF n, D, f
<1>4. ASSUME NEW i \in 1 .. n, NEW seen \in V
      PROVE  /\ Next1(seen, i) \in V
             /\ Done(seen, i - 1) => Done(Next1(seen, i), i)
  <2>0. seen \in Seq(Client) /\ Elements(seen) \subseteq D /\ Len(seen) \in Nat
        /\ DOMAIN seen = 1 .. Len(seen) /\ i \in Nat
    BY <1>1
  <2>1. CASE i > Len(seen)
    <3>1. Next1(seen, i) = seen
      BY <2>1
    <3>2. \A j \in 1 .. Len(seen) : j <= i - 1
      BY <2>0, <2>1
    <3> QED BY <3>1, <3>2
  <2>2. CASE i <= Len(seen)
    <3> DEFINE new == Children(seen[i]) \ Elements(seen)
               more == Keep(Slots, new)
               r == seen \o more
    <3>1. seen[i] \in Elements(seen) /\ new \subseteq D /\ new \subseteq Client
      BY <1>1, <2>0, <2>2 DEF Elements
    <3>2. Next1(seen, i) = r
      BY <2>0, <2>2
    <3> HIDE DEF new
    <3>3. more \in Seq(Client) /\ Elements(more) = new /\ Distinct(more)
      <4>1. new \cap Elements(Slots) = new
        BY <1>2, <3>1
      <4> QED BY <1>2, <4>1, KeepElements, KeepAll
    <3> HIDE DEF more
    <3>4. r \in Seq(Client) /\ Len(r) = Len(seen) + Len(more) /\ Len(more) \in Nat
          /\ \A j \in 1 .. Len(seen) : r[j] = seen[j]
      BY <2>0, <3>3
    <3>5. Elements(r) = Elements(seen) \cup new
      <4>1. \A j \in 1 .. Len(more) : r[Len(seen) + j] = more[j] /\ Len(seen) + j \in 1 .. Len(r)
        BY <2>0, <3>3, <3>4
      <4>2. \A j \in 1 .. Len(r) : \/ j \in 1 .. Len(seen)
                                   \/ j - Len(seen) \in 1 .. Len(more) /\ Len(seen) + (j - Len(seen)) = j
        BY <2>0, <3>3, <3>4
      <4>3. \A j \in 1 .. Len(seen) : j \in 1 .. Len(r)
        BY <2>0, <3>4
      <4>4. DOMAIN r = 1 .. Len(r) /\ DOMAIN more = 1 .. Len(more)
        BY <3>3, <3>4
      <4>5. ASSUME NEW x \in Elements(r) PROVE x \in Elements(seen) \cup new
        <5>1. PICK j \in 1 .. Len(r) : x = r[j]
          BY <4>4 DEF Elements
        <5>2. CASE j \in 1 .. Len(seen)
          BY <2>0, <3>4, <5>1, <5>2 DEF Elements
        <5>3. CASE j - Len(seen) \in 1 .. Len(more) /\ Len(seen) + (j - Len(seen)) = j
          <6>1. x = more[j - Len(seen)]
            BY <4>1, <5>1, <5>3
          <6> QED BY <3>3, <4>4, <5>3, <6>1 DEF Elements
        <5> QED BY <4>2, <5>1, <5>2, <5>3
      <4>6. ASSUME NEW x \in Elements(seen) PROVE x \in Elements(r)
        BY <2>0, <3>4, <4>3, <4>4, <4>6 DEF Elements
      <4>7. ASSUME NEW x \in new PROVE x \in Elements(r)
        <5>1. PICK j \in 1 .. Len(more) : x = more[j]
          BY <3>3, <4>4, <4>7 DEF Elements
        <5> QED BY <4>1, <4>4, <5>1 DEF Elements
      <4> HIDE DEF r
      <4> QED BY <4>5, <4>6, <4>7
    <3>6. r \in V
      BY <2>0, <3>1, <3>4, <3>5
    <3>7. ASSUME Done(seen, i - 1) PROVE Done(r, i)
      <4>1. Distinct(r)
        <5>1. Elements(seen) \cap Elements(more) = {}
          BY <3>3 DEF new
        <5> QED BY <2>0, <3>3, <3>7, <5>1, JoinedIs
      <4>2. root \in Elements(r)
        BY <3>5, <3>7
      <4>3. ASSUME NEW k \in Elements(r) \ {root} PROVE d.parent[k] \in Elements(r)
        <5>1. CASE k \in Elements(seen)
          BY <3>5, <3>7, <4>3, <5>1
        <5>2. CASE k \in new
          BY <3>1, <3>5, <5>2 DEF new
        <5> QED BY <3>5, <4>3, <5>1, <5>2
      <4>4. ASSUME NEW j \in 1 .. Len(r), j <= i PROVE Children(r[j]) \subseteq Elements(r)
        <5>1. j \in 1 .. Len(seen) /\ r[j] = seen[j] /\ (j = i \/ j <= i - 1)
          BY <2>0, <2>2, <3>4, <4>4
        <5>2. CASE j = i
          BY <3>5, <5>1, <5>2 DEF new
        <5>3. CASE j <= i - 1
          BY <3>5, <3>7, <5>1, <5>3
        <5> QED BY <5>1, <5>2, <5>3
      <4> HIDE DEF r
      <4> QED BY <3>6, <4>1, <4>2, <4>3, <4>4
    <3> HIDE DEF r
    <3> QED BY <3>2, <3>6, <3>7
  <2>3. i > Len(seen) \/ i <= Len(seen)
    BY <2>0
  <2> HIDE DEF V, Done, Next1
  <2> QED BY <2>1, <2>2, <2>3
<1> DEFINE one == <<root>>
<1>5. Done(one, 0)
  <2>1. one \in Seq(Client) /\ Elements(one) = {root} /\ Distinct(one) /\ Len(one) = 1
    BY <1>1 DEF Elements, Distinct
  <2>2. one \in V
    BY <1>1, <2>1
  <2> HIDE DEF one
  <2> QED BY <2>1, <2>2
<1>6. \A s, i : Done(s, i) => s \in V
  OBVIOUS
<1> HIDE DEF Next1
<1>7. Round \in Bodies(n, V)
  BY <1>4 DEF Bodies
<1>8. PICK g \in Runs(n, V, one, Round) : TRUE
  <2>1. one \in V
    BY <1>5
  <2> HIDE DEF Round, one, V, Done
  <2> QED BY <2>1, <1>1, <1>7, RecursionExists
<1>9. Walk(g)
  <2>1. g \in [0 .. n -> V] /\ g[0] = one /\ \A i \in 1 .. n : g[i] = Round[i][g[i - 1]]
    BY <1>8 DEF Runs
  <2> HIDE DEF V, Done
  <2>2. \A i \in 1 .. n : g[i] = Next1(g[i - 1], i)
    <3> TAKE i \in 1 .. n
    <3>1. i - 1 \in 0 .. n
      BY <1>1
    <3>2. g[i - 1] \in V /\ g[i] = Round[i][g[i - 1]]
      BY <3>1, <2>1
    <3> QED BY <3>2
  <2>3. \A i \in 0 .. n : i # 0 => i \in 1 .. n
    BY <1>1
  <2> QED BY <2>1, <2>2, <2>3
<1>10. Walk(f)
  BY <1>9 DEF f
<1>11. f[0] = one /\ \A i \in 1 .. n : f[i] = Next1(f[i - 1], i)
  <2>1. 0 \in 0 .. n /\ \A i \in 1 .. n : i \in 0 .. n /\ i # 0
    BY <1>1
  <2> QED BY <1>10, <2>1
<1> HIDE DEF V, Done, one
<1> DEFINE T == {i \in 0 .. n : Done(f[i], i)}
<1>12. 0 \in T
  BY <1>1, <1>5, <1>11
<1>13. ASSUME NEW i \in 1 .. n, i - 1 \in T PROVE i \in T
  <2>1. i \in 0 .. n /\ Done(f[i - 1], i - 1) /\ f[i - 1] \in V
    BY <1>1, <1>6, <1>13
  <2> QED BY <1>4, <1>11, <2>1
<1>14. 0 .. n \subseteq T
  <2> HIDE DEF T
  <2> QED BY <1>1, <1>12, <1>13, IntervalInduction
<1>15. Done(f[n], n)
  <2>1. n \in 0 .. n
    BY <1>1
  <2> QED BY <1>14, <2>1
<1> DEFINE q == f[n]
<1>16. /\ q \in Seq(Client) /\ Elements(q) \subseteq D /\ Distinct(q) /\ root \in Elements(q)
       /\ \A k \in Elements(q) \ {root} : d.parent[k] \in Elements(q)
       /\ \A j \in 1 .. Len(q) : j <= n => Children(q[j]) \subseteq Elements(q)
  BY <1>15 DEF Done, V
<1>17. Len(q) <= n /\ Len(q) \in Nat
  BY <1>16, FewClients DEF n
<1>18. \A k \in D : d.parent[k] \in Elements(q) => k \in Elements(q)
  <2> SUFFICES ASSUME NEW k \in D, d.parent[k] \in Elements(q) PROVE k \in Elements(q)
    OBVIOUS
  <2>1. PICK j \in 1 .. Len(q) : d.parent[k] = q[j]
    BY <1>16 DEF Elements
  <2>2. j <= n
    BY <1>1, <1>17
  <2> QED BY <1>16, <2>1, <2>2
<1> QED BY <1>3, <1>16, <1>18 DEF D

\* Every window is filed where it was.
Filed(d, e) == e.special = d.special /\ e.workspace = d.workspace /\ e.minimized = d.minimized

\* The operations that move windows, to a place there is.
Moves == {ToWorkspace(w) : w \in Workspace} \cup {ToSpecial(s) : s \in SpecialNames}

\* Window k is where the operation puts its windows.
There(op, d, k) ==
  IF op.kind = "special" THEN d.special[k] = op.to
  ELSE d.special[k] = NoSpecial /\ d.workspace[k] = op.to

\* A window sent away is filed where it was sent.
LEMMA SentAwayFiled ==
  ASSUME NEW was, NEW d, Good(was, d), NEW c \in Client, NEW w \in Workspace, w < d.count
  PROVE  LET e == SentAway(d, c, w) IN
         /\ SameBut(c, d, e) /\ e.special = d.special /\ e.minimized = d.minimized
         /\ e.workspace[c] = w
<1> DEFINE given == IF d.focused = c THEN FocusAdjacent(d, TRUE) ELSE d
           h == Homed(given, c, w)
           e == Hide(h, {c})
<1>1. given \in Desk /\ given.minimized = d.minimized
  BY FocusAdjacentGood, FocusSame DEF Good, SameScreen, SameHomes
<1>2. SentAway(d, c, w) = DropFocusOf(e, c)
  BY DEF SentAway
<1>3. Good(was, given) /\ given.count = d.count
  BY FocusAdjacentGood, FocusSame DEF Good, SameScreen, SameHomes
<1> HIDE DEF given
<1>4. h.minimized = d.minimized /\ h.workspace[c] = w /\ h \in Desk
  BY <1>1, <1>3, HomedBut, HomedGood DEF Good
<1> HIDE DEF h
<1>5. e.minimized = d.minimized /\ e.workspace[c] = w /\ e \in Desk
  BY <1>4 DEF Hide, Desk
<1> HIDE DEF e
<1>6. SentAway(d, c, w).minimized = d.minimized /\ SentAway(d, c, w).workspace[c] = w
  BY <1>2, <1>5, FocusSame DEF SameScreen, SameHomes
<1> QED BY <1>6, SentAwayBut, SentAwaySpecial

\* One window moved to a workspace is filed there, and no other is touched.
LEMMA MoveOneToWorkspaceFiled ==
  ASSUME NEW was, NEW d, Good(was, d), NEW c \in Client, NEW w \in Workspace
  PROVE  LET e == MoveOneToWorkspace(d, c, w) IN
         /\ SameBut(c, d, e) /\ e.special[c] = NoSpecial /\ e.workspace[c] = w
         /\ e.minimized = d.minimized
<1> DEFINE e == MoveOneToWorkspace(d, c, w)
           grown == Grown(d, w)
           out   == LeaveSpecial(grown, c)
           home  == Homed(out, c, w)
<1>0. w \in Nat /\ ~TooFar(w)
  BY MaxWorkspacesAssumption DEF Workspace, TooFar
<1>1. /\ SameLook(d, grown)
      /\ Good(was, out) /\ SameBut(c, d, out) /\ w < out.count
      /\ out.special[c] = NoSpecial /\ out.minimized = d.minimized
      /\ home \in Desk /\ SameBut(c, d, home) /\ home.minimized = d.minimized
      /\ home.special[c] = NoSpecial /\ home.workspace[c] = w
      /\ e = IF d.workspace[c] = w /\ d.special[c] = NoSpecial THEN grown
             ELSE IF w # d.current /\ c \notin d.sticky THEN SentAway(out, c, w)
             ELSE IF d.special[c] # NoSpecial /\ c \in Normal(d) THEN Show(home, {c}) ELSE home
  BY <1>0, MovesIs, SMTT(60)
<1> HIDE DEF grown, out, home, e
<1>2. CASE d.workspace[c] = w /\ d.special[c] = NoSpecial
  <2>1. SameBut(c, d, grown) /\ e = grown
    BY <1>1, <1>2 DEF SameLook, SamePlaces, SameBut
  <2> QED BY <1>1, <1>2, <2>1 DEF SameLook, SamePlaces, e
<1>3. CASE e = SentAway(out, c, w)
  <2>1. SameBut(c, out, e) /\ e.special = out.special /\ e.minimized = out.minimized /\ e.workspace[c] = w
    BY <1>1, <1>3, SentAwayFiled
  <2>2. SameBut(c, d, e)
    BY <1>1, <2>1, SameButChain
  <2> QED BY <1>1, <2>1, <2>2 DEF e
<1>4. CASE e \in {home, Show(home, {c})}
  <2>1. SameBut(c, home, Show(home, {c})) /\ Filed(home, Show(home, {c}))
    BY <1>1 DEF Show, Desk, SameBut, Filed
  <2>2. SameBut(c, d, e) /\ Filed(home, e)
    BY <1>1, <1>4, <2>1, SameButChain DEF Filed
  <2> QED BY <1>1, <2>2 DEF Filed, e
<1> QED BY <1>1, <1>2, <1>3, <1>4

\* So is one moved to a special workspace.
LEMMA MoveOneToSpecialFiled ==
  ASSUME NEW was, NEW d, Good(was, d), NEW c \in d.live, NEW s \in SpecialNames
  PROVE  LET e == MoveOneToSpecial(d, c, s) IN
         SameBut(c, d, e) /\ e.special[c] = s /\ e.minimized = d.minimized
<1> DEFINE e == MoveOneToSpecial(d, c, s)
           out == LeaveSpecial(d, c)
           in  == [out EXCEPT !.special[c] = s, !.members[s] = Append(@, c)]
           given == FocusSuccessorOf(in, c)
           away == Hide(given, {c})
<1>0. c \in Client
  BY DEF Good, Desk
<1>1. Good(was, out) /\ Good(was, in) /\ in \in Desk /\ out \in Desk
  <2>1. in = Enrolled(d, c, s)
    BY DEF Enrolled
  <2>2. Good(was, in)
    BY <2>1, EnrolledGood
  <2>3. Good(was, out)
    BY <1>0, LeaveSpecialGood
  <2> HIDE DEF in, out
  <2> QED BY <2>2, <2>3 DEF Good
<1>2. SameBut(c, d, out) /\ out.minimized = d.minimized
  <2>1. d \in Desk /\ d.current \in Workspace
    BY DEF Good, Desk
  <2> QED BY <1>0, <2>1, HomedBut, LeaveSpecialSame
<1>3. e = IF d.special[c] = s THEN d
          ELSE IF d.shown = s THEN IF c \in Normal(d) THEN Show(in, {c}) ELSE in ELSE away
  BY DEF MoveOneToSpecial
<1>4. /\ in.shown = out.shown /\ in.current = out.current /\ in.live = out.live
      /\ in.minimized = out.minimized /\ in.sticky = out.sticky
      /\ in.workspace = out.workspace /\ in.special = [out.special EXCEPT ![c] = s]
  BY <1>1 DEF Desk
<1>5. out.special \in [Client -> SpecialOrNone]
  BY <1>1 DEF Desk
<1> HIDE DEF in, out, e
<1>6. SameBut(c, out, in) /\ in.special[c] = s
  BY <1>0, <1>4, <1>5 DEF SameBut
<1>7. SameBut(c, d, in) /\ in.special[c] = s /\ in.minimized = d.minimized
  BY <1>2, <1>4, <1>6, SameButChain
<1>8. CASE d.special[c] = s
  BY <1>3, <1>8 DEF SameBut, e
<1>9. CASE e \in {in, Show(in, {c}), away}
  <2>1. SameBut(c, in, Show(in, {c})) /\ Filed(in, Show(in, {c}))
    BY <1>1 DEF Show, Desk, SameBut, Filed
  <2>2. SameScreen(in, given) /\ given \in Desk
    BY <1>1, FocusSame, FocusSuccessorOfGood DEF Good
  <2> HIDE DEF given
  <2>3. SameBut(c, in, given) /\ Filed(in, given)
    BY <2>2, FocusBut DEF SameScreen, SameHomes, Filed
  <2>4. SameBut(c, given, away) /\ Filed(given, away)
    BY <2>2 DEF Hide, Desk, SameBut, Filed
  <2> HIDE DEF away
  <2>5. SameBut(c, in, away) /\ Filed(in, away)
    BY <2>3, <2>4, SameButChain DEF Filed
  <2>6. SameBut(c, in, e) /\ Filed(in, e)
    BY <1>9, <2>1, <2>5 DEF SameBut, Filed
  <2>7. SameBut(c, d, e)
    BY <1>7, <2>6, SameButChain
  <2> QED BY <1>7, <2>6, <2>7 DEF Filed, e
<1> QED BY <1>3, <1>8, <1>9

\* One round of a family loop.
LEMMA StepFiled ==
  ASSUME NEW op \in Moves, NEW was, NEW d, Good(was, d), NEW c \in was.live
  PROVE  LET e == Step(op, d, c) IN
         Good(was, e) /\ SameBut(c, d, e) /\ There(op, e, c) /\ e.minimized = d.minimized
<1>0. c \in Client /\ c \in d.live /\ op \in Ops
  BY MaxWorkspacesAssumption DEF Good, Desk, SameSession, Moves, Ops, Workspace
<1>1. Good(was, Step(op, d, c))
  BY <1>0, StepGood
<1>2. CASE \E w \in Workspace : op = ToWorkspace(w)
  <2>1. PICK w \in Workspace : op = ToWorkspace(w)
    BY <1>2
  <2>2. Step(op, d, c) = MoveOneToWorkspace(d, c, w) /\ op.kind = "workspace" /\ op.to = w
    BY <2>1 DEF Step, ToWorkspace
  <2> DEFINE e == Step(op, d, c)
  <2>3. SameBut(c, d, e) /\ e.special[c] = NoSpecial /\ e.workspace[c] = w /\ e.minimized = d.minimized
    BY <1>0, <2>2, MoveOneToWorkspaceFiled
  <2> HIDE DEF e
  <2>4. There(op, e, c)
    BY <2>2, <2>3 DEF There
  <2> QED BY <1>1, <2>3, <2>4 DEF e
<1>3. CASE \E s \in SpecialNames : op = ToSpecial(s)
  <2>1. PICK s \in SpecialNames : op = ToSpecial(s)
    BY <1>3
  <2>2. Step(op, d, c) = MoveOneToSpecial(d, c, s) /\ op.kind = "special" /\ op.to = s
    BY <2>1 DEF Step, ToSpecial
  <2> DEFINE e == Step(op, d, c)
  <2>3. SameBut(c, d, e) /\ e.special[c] = s /\ e.minimized = d.minimized
    BY <1>0, <2>2, MoveOneToSpecialFiled
  <2> HIDE DEF e
  <2>4. There(op, e, c)
    BY <2>2, <2>3 DEF There
  <2> QED BY <1>1, <2>3, <2>4 DEF e
<1> QED BY <1>2, <1>3 DEF Moves

\* The loop over a family files each of its members there and nobody else.
LEMMA ForEachFiled ==
  ASSUME NEW op \in Moves, NEW was, NEW d, Good(was, d), NEW family \in Seq(was.live)
  PROVE  LET e == ForEach(op, d, family) IN
         /\ e.minimized = d.minimized
         /\ \A k \in Elements(family) : There(op, e, k)
         /\ \A k \in Client \ Elements(family) :
              e.special[k] = d.special[k] /\ e.workspace[k] = d.workspace[k]
<1> DEFINE n == Len(family)
           V == {e \in Desk : Good(was, e)}
           Round == [i \in 1 .. n |-> [e \in V |-> Step(op, e, family[i])]]
           Loop(f) == f = [i \in 0 .. n |-> IF i = 0 THEN d ELSE Step(op, f[i - 1], family[i])]
           f == CHOOSE f : Loop(f)
           Done(e, i) == /\ Good(was, e) /\ e.minimized = d.minimized
                         /\ \A j \in 1 .. n : j <= i => There(op, e, family[j])
                         /\ \A k \in Client : (\A j \in 1 .. n : j <= i => family[j] # k) =>
                              e.special[k] = d.special[k] /\ e.workspace[k] = d.workspace[k]
<1>1. /\ n \in Nat /\ DOMAIN family = 1 .. n /\ \A i \in 1 .. n : family[i] \in was.live
      /\ was.live \subseteq Client /\ d \in V
  BY DEF Good, Desk, SameSession
<1>2. ForEach(op, d, family) = f[n]
  BY DEF ForEach
<1>3. \A e : e \in V <=> Good(was, e)
  BY DEF Good
<1> HIDE DEF n, V, f
<1>4. ASSUME NEW i \in 1 .. n, NEW e \in V PROVE Step(op, e, family[i]) \in V
  BY <1>1, <1>3, StepFiled
<1>5. Round \in Bodies(n, V)
  BY <1>4 DEF Bodies
<1>6. PICK g \in Runs(n, V, d, Round) : TRUE
  <2> HIDE DEF Round
  <2> QED BY <1>1, <1>5, RecursionExists
<1>7. Loop(g)
  <2>1. g \in [0 .. n -> V] /\ g[0] = d /\ \A i \in 1 .. n : g[i] = Round[i][g[i - 1]]
    BY <1>6 DEF Runs
  <2>2. \A i \in 1 .. n : g[i] = Step(op, g[i - 1], family[i])
    <3> TAKE i \in 1 .. n
    <3>1. i - 1 \in 0 .. n
      BY <1>1
    <3>2. g[i - 1] \in V /\ g[i] = Round[i][g[i - 1]]
      BY <3>1, <2>1
    <3> QED BY <3>2
  <2>3. \A i \in 0 .. n : i # 0 => i \in 1 .. n
    BY <1>1
  <2> QED BY <2>1, <2>2, <2>3
<1>8. Loop(f)
  BY <1>7 DEF f
<1>9. f[0] = d /\ \A i \in 1 .. n : f[i] = Step(op, f[i - 1], family[i])
  <2>1. 0 \in 0 .. n /\ \A i \in 1 .. n : i \in 0 .. n /\ i # 0
    BY <1>1
  <2> QED BY <1>8, <2>1
<1> DEFINE T == {i \in 0 .. n : Done(f[i], i)}
<1>10. 0 \in T
  <2>1. \A j \in 1 .. n : ~(j <= 0)
    BY <1>1
  <2> QED BY <1>1, <1>3, <1>9, <2>1
<1>11. ASSUME NEW i \in 1 .. n, i - 1 \in T PROVE i \in T
  <2> DEFINE b == f[i - 1]
             e == f[i]
             c == family[i]
  <2>1. Done(b, i - 1) /\ i \in 0 .. n
    BY <1>1, <1>11
  <2>2. e = Step(op, b, c) /\ c \in was.live /\ c \in Client
    BY <1>1, <1>9
  <2> HIDE DEF b, e, c
  <2>3. Good(was, e) /\ SameBut(c, b, e) /\ There(op, e, c) /\ e.minimized = b.minimized
    BY <2>1, <2>2, StepFiled
  <2>4. \A k \in Client \ {c} : e.special[k] = b.special[k] /\ e.workspace[k] = b.workspace[k]
    BY <2>3 DEF SameBut
  <2>5. ASSUME NEW j \in 1 .. n, j <= i PROVE There(op, e, family[j])
    <3>1. CASE family[j] = c
      BY <2>3, <3>1
    <3>2. CASE family[j] # c
      <4>1. j <= i - 1 /\ family[j] \in Client
        BY <1>1, <2>5, <3>2 DEF c
      <4> QED BY <2>1, <2>4, <3>2, <4>1 DEF There
    <3> QED BY <3>1, <3>2
  <2>6. ASSUME NEW k \in Client, \A j \in 1 .. n : j <= i => family[j] # k
        PROVE  e.special[k] = d.special[k] /\ e.workspace[k] = d.workspace[k]
    <3>1. k # c /\ \A j \in 1 .. n : j <= i - 1 => family[j] # k
      BY <1>1, <2>6 DEF c
    <3> QED BY <2>1, <2>4, <3>1
  <2>7. Done(e, i)
    BY <2>1, <2>3, <2>5, <2>6
  <2> HIDE DEF Done
  <2> QED BY <2>1, <2>7 DEF e
<1>12. 0 .. n \subseteq T
  <2> HIDE DEF T
  <2> QED BY <1>1, <1>10, <1>11, IntervalInduction
<1>13. Done(f[n], n)
  <2>1. n \in 0 .. n
    BY <1>1
  <2> HIDE DEF Done
  <2> QED BY <1>12, <2>1
<1> DEFINE e == f[n]
<1>14. e.minimized = d.minimized /\ \A k \in Elements(family) : There(op, e, k)
  <2>1. ASSUME NEW k \in Elements(family) PROVE There(op, e, k)
    <3>1. PICK j \in 1 .. n : k = family[j] /\ j <= n
      BY <1>1, <2>1 DEF Elements
    <3> QED BY <1>13, <3>1
  <2> QED BY <1>13, <2>1
<1>15. ASSUME NEW k \in Client \ Elements(family)
       PROVE  e.special[k] = d.special[k] /\ e.workspace[k] = d.workspace[k]
  <2>1. \A j \in 1 .. n : family[j] # k
    BY <1>1 DEF Elements
  <2> QED BY <1>13, <2>1
<1> QED BY <1>2, <1>14, <1>15

-----------------------------------------------------------------------------
\* Every window is filed with its parent, but for the pairs in X.
FollowingBut(d, X) ==
  \A k \in d.live : d.parent[k] # NoClient /\ <<k, d.parent[k]>> \notin X
                     => Together(d, k, d.parent[k])

\* A pair more to except, or none that is not apart.
LEMMA FollowingMore ==
  ASSUME NEW d, NEW X, NEW Y, FollowingBut(d, X), X \subseteq Y
  PROVE  FollowingBut(d, Y)
  BY DEF FollowingBut

LEMMA FollowingApart ==
  ASSUME NEW d, NEW X
  PROVE  FollowingBut(d, X) <=> Apart(d) \subseteq X
<1>1. \A k \in d.live : <<k, d.parent[k]>> \in Apart(d)
                         <=> d.parent[k] # NoClient /\ ~Together(d, k, d.parent[k])
  <2>1. ASSUME NEW a, NEW b, NEW k, <<k, d.parent[k]>> = <<a, b>> PROVE k = a
    BY <2>1
  <2> QED BY <2>1 DEF Apart
<1>2. \A x \in Apart(d) : \E k \in d.live : x = <<k, d.parent[k]>>
  BY DEF Apart
<1> QED BY <1>1, <1>2 DEF FollowingBut

\* Parents are alive.
ParentsLive(d) == \A k \in Client : d.parent[k] \in d.live \cup {NoClient}

\* A family moved to where its root's parent is, or whose root has none or is
\* excepted, is together afterwards, and so is everybody else.
LEMMA FamilyFollows ==
  ASSUME NumClients <= MaxTransientDepth + 1,
         NEW op \in Moves, NEW was, NEW d, Good(was, d), ParentsLive(d), NEW c \in d.live,
         NEW X, FollowingBut(d, X \cup {<<c, d.parent[c]>>}),
         d.parent[c] = NoClient \/ <<c, d.parent[c]>> \in X \/ There(op, d, d.parent[c])
  PROVE  LET e == ForFamily(op, d, c) IN
         FollowingBut(e, X) /\ ParentsLive(e) /\ e.minimized = d.minimized /\ Good(was, e)
<1> DEFINE q == FamilyOrder(d, c)
           F == Elements(q)
           e == ForFamily(op, d, c)
<1>0. d \in Desk /\ d.live = was.live /\ d.live \subseteq Client /\ op \in Ops
      /\ NoClient \notin Client
  <2>1. op \in Ops
    BY MaxWorkspacesAssumption DEF Moves, Ops, Workspace
  <2>2. NoClient \notin Client
    BY NumClientsAssumption DEF Client, NoClient
  <2>3. d \in Desk /\ d.live = was.live
    BY DEF Good, SameSession
  <2>4. d.live \subseteq Client
    BY <2>3 DEF Desk
  <2> QED BY <2>1, <2>2, <2>3, <2>4
<1>1. q \in Seq(was.live)
  BY <1>0, FamilyOrderType
<1>2. /\ c \in F /\ F \subseteq Family(d, c)
      /\ \A k \in F \ {c} : d.parent[k] \in F
      /\ \A k \in Family(d, c) : d.parent[k] \in F => k \in F
  BY <1>0, FamilyOrderClosed
<1>3. /\ e.minimized = d.minimized
      /\ \A k \in F : There(op, e, k)
      /\ \A k \in Client \ F : e.special[k] = d.special[k] /\ e.workspace[k] = d.workspace[k]
  BY <1>1, ForEachFiled DEF ForFamily
<1>4. Good(was, e) /\ SameKin(d, e)
  <2>1. Akin(was, d, e)
    BY <1>0, ForFamilyKin DEF Akin, SameKin
  <2> QED BY <2>1 DEF Akin
<1>5. e.live = d.live /\ e.parent = d.parent
  BY <1>0, <1>4 DEF Good, SameSession, SameKin
<1> HIDE DEF q, F, e
<1>6. ParentsLive(e)
  BY <1>5 DEF ParentsLive
<1>7. \A a, b : There(op, e, a) /\ There(op, e, b) => Together(e, a, b)
  <2>1. op.kind = "special" => op.to # NoSpecial
    BY NoSpecialAssumption DEF Moves, ToWorkspace, ToSpecial
  <2> QED BY <2>1 DEF There, Together
<1>8. ASSUME NEW k \in d.live, d.parent[k] # NoClient, <<k, d.parent[k]>> \notin X
      PROVE  Together(e, k, d.parent[k])
  <2> DEFINE p == d.parent[k]
  <2>1. p \in d.live /\ p \in Client /\ k \in Client
    BY <1>0, <1>8 DEF ParentsLive
  <2> HIDE DEF p
  <2>2. CASE k = c
    <3>1. There(op, d, p)
      BY <1>8, <2>2 DEF p
    <3>2. There(op, e, p)
      BY <1>3, <2>1, <3>1 DEF There
    <3> QED BY <1>2, <1>3, <1>7, <2>2, <3>2 DEF p
  <2>3. CASE k # c /\ k \in F
    BY <1>2, <1>3, <1>7, <2>3 DEF p
  <2>4. CASE k # c /\ k \notin F
    <3>1. p \notin F
      <4>1. SUFFICES ASSUME p \in F PROVE FALSE
        OBVIOUS
      <4>2. k \in Family(d, c)
        BY <1>0, <1>2, <4>1, FamilyDown DEF p
      <4> QED BY <1>2, <2>4, <4>1, <4>2 DEF p
    <3>2. Together(d, k, p)
      BY <1>8, <2>4 DEF FollowingBut, p
    <3> QED BY <1>3, <2>1, <2>4, <3>1, <3>2 DEF Together, p
  <2> QED BY <2>2, <2>3, <2>4
<1>9. FollowingBut(e, X)
  BY <1>5, <1>8 DEF FollowingBut
<1> QED BY <1>3, <1>4, <1>6, <1>9 DEF e

-----------------------------------------------------------------------------
\* The families and the places are those of k.
Steady(was, k, d) == Akin(was, k, d) /\ Filed(k, d)

\* A change of focus, by any of the routes there are, moves no window.
LEMMA FocusSteady ==
  ASSUME NEW was, NEW k, NEW d, Steady(was, k, d), NEW c, NEW forward
  PROVE  /\ Steady(was, k, FocusClient(d, c)) /\ Steady(was, k, FocusIfAny(d, c))
         /\ Steady(was, k, DropFocusOf(d, c)) /\ Steady(was, k, HandOver(d, c))
         /\ Steady(was, k, FocusSuccessorOf(d, c)) /\ Steady(was, k, FocusAdjacent(d, forward))
<1>1. Akin(was, k, d) /\ d \in Desk /\ Filed(k, d)
  BY DEF Steady, Akin, Good
<1>2. \A e : SameScreen(d, e) => Filed(k, e)
  BY <1>1 DEF SameScreen, SameHomes, Filed
<1>3. /\ Filed(k, FocusClient(d, c)) /\ Filed(k, FocusIfAny(d, c)) /\ Filed(k, DropFocusOf(d, c))
      /\ Filed(k, FocusSuccessorOf(d, c)) /\ Filed(k, FocusAdjacent(d, forward))
  BY <1>1, <1>2, FocusSame
<1>4. Filed(k, HandOver(d, c))
  <2>1. Filed(k, DropFocus(d))
    BY <1>1 DEF DropFocus, Desk, Filed
  <2> QED BY <1>3, <2>1 DEF HandOver
<1> QED BY <1>1, <1>3, <1>4, FocusKin DEF Steady

\* Nor does mapping windows, hiding them, or an overlay coming and going.
LEMMA FieldsSteady ==
  ASSUME NEW was, NEW k, NEW d, Steady(was, k, d), NEW S \in SUBSET Client, NEW x
  PROVE  /\ Steady(was, k, Show(d, S)) /\ Steady(was, k, Hide(d, x))
         /\ x \in SpecialOrNone => Steady(was, k, [d EXCEPT !.shown = x])
         /\ x \in SpecialNames => Steady(was, k, Create(d, x))
<1>1. Akin(was, k, d) /\ d \in Desk /\ Filed(k, d)
  BY DEF Steady, Akin, Good
<1>2. /\ Filed(k, Show(d, S)) /\ Filed(k, Hide(d, x)) /\ Filed(k, [d EXCEPT !.shown = x])
      /\ Filed(k, Create(d, x))
  BY <1>1 DEF Show, Hide, Create, Desk, Filed
<1> QED BY <1>1, <1>2, ShowKin, HideKin, ShownKin, CreateKin DEF Steady

LEMMA HideMembersSteady ==
  ASSUME NEW was, NEW k, NEW d, Steady(was, k, d), NEW s
  PROVE  Steady(was, k, HideMembers(d, s))
<1> DEFINE hidden == Hide(d, LiveMembers(d, s))
<1>1. Steady(was, k, hidden)
  BY FieldsSteady
<1>2. HideMembers(d, s) \in {hidden, FocusSuccessorOf(hidden, d.focused)}
  BY DEF HideMembers
<1> HIDE DEF hidden
<1> QED BY <1>1, <1>2, FocusSteady

LEMMA HideSpecialSteady ==
  ASSUME NEW was, NEW k, NEW d, Steady(was, k, d)
  PROVE  Steady(was, k, HideSpecial(d))
<1> DEFINE e == [d EXCEPT !.shown = NoSpecial]
<1>1. Steady(was, k, e)
  BY FieldsSteady DEF SpecialOrNone
<1>2. HideSpecial(d) \in {d, HideMembers(e, d.shown)}
  BY DEF HideSpecial
<1> HIDE DEF e
<1> QED BY <1>1, <1>2, HideMembersSteady

LEMMA ShowSpecialSteady ==
  ASSUME NEW was, NEW k, NEW d, Steady(was, k, d), NEW s \in SpecialNames
  PROVE  Steady(was, k, ShowSpecial(d, s))
<1> DEFINE here == [d EXCEPT !.shown = s]
           free == IF d.shown \in {NoSpecial, s} THEN here ELSE HideMembers(here, d.shown)
           out  == ShowMembers(free, s)
<1>1. Steady(was, k, here)
  BY FieldsSteady DEF SpecialOrNone
<1> HIDE DEF here
<1>2. Steady(was, k, free)
  BY <1>1, HideMembersSteady
<1>3. ShowSpecial(d, s) = FocusIfAny(out, RecentMember(out, s))
  BY DEF ShowSpecial, FocusMember, here
<1> HIDE DEF free
<1>4. LiveMembers(free, s) \in SUBSET Client
  BY <1>2 DEF LiveMembers, Normal, Steady, Akin, Good, Desk
<1>5. Steady(was, k, out)
  BY <1>2, <1>4, FieldsSteady DEF ShowMembers
<1> HIDE DEF out
<1> QED BY <1>3, <1>5, FocusSteady

\* Nor does a switch of workspace.
LEMMA SwitchToSteady ==
  ASSUME NEW was, NEW k, NEW d, Steady(was, k, d), NEW w \in Nat, NEW arriving
  PROVE  Steady(was, k, SwitchTo(d, w, arriving))
<1> DEFINE bare == IF HideSpecialOnSwitch THEN HideSpecial(d) ELSE d
           grown == Grown(bare, w)
           there == Entered(bare, w)
           drawn == Redrawn(there)
<1>1. CASE TooFar(w) \/ w = d.current
  BY <1>1 DEF SwitchTo
<1>2. CASE ~(TooFar(w) \/ w = d.current)
  <2>1. w \in Workspace /\ Steady(was, k, bare)
    BY <1>2, InRange, HideSpecialSteady
  <2>2. SwitchTo(d, w, arriving) = KeyboardFor(drawn, arriving)
    BY <1>2 DEF SwitchTo
  <2> HIDE DEF bare
  <2>3. grown \in Desk /\ Filed(k, grown)
    <3>1. bare \in Desk /\ Good(was, bare) /\ Filed(k, bare)
      BY <2>1 DEF Steady, Akin, Good
    <3>2. Filed(bare, grown)
      BY <2>1, <3>1, GrownIs DEF Filed
    <3>3. grown \in Desk
      BY <2>1, <3>1, GrownGood DEF Good
    <3> QED BY <3>1, <3>2, <3>3 DEF Filed
  <2>4. Akin(was, k, there)
    BY <2>1, EnteredKin DEF Steady
  <2>5. there = [grown EXCEPT !.previous = bare.current, !.current = w]
    BY DEF Entered
  <2> HIDE DEF grown, there
  <2>6. Filed(k, there)
    BY <2>3, <2>5 DEF Desk, Filed
  <2>7. Akin(was, k, drawn)
    BY <2>4, RedrawnGood, FieldsKin DEF Akin, SameKin, Good
  <2>8. there \in Desk
    BY <2>4 DEF Akin, Good
  <2>9. Filed(k, drawn)
    BY <2>6, <2>8 DEF Redrawn, Desk, Filed
  <2> HIDE DEF drawn
  <2>10. Steady(was, k, drawn)
    BY <2>7, <2>9 DEF Steady
  <2>11. KeyboardFor(drawn, arriving) \in
          {drawn, FocusClient(drawn, arriving), FocusSuccessorOf(drawn, drawn.focused),
           FocusIfAny(drawn, Successor(drawn, NoClient))}
    BY DEF KeyboardFor
  <2> QED BY <2>2, <2>10, <2>11, FocusSteady
<1> QED BY <1>1, <1>2

\* Nor, where nothing is an icon, does an activation.
LEMMA PresentedSteady ==
  ASSUME NEW was, NEW k, NEW d, Steady(was, k, d), d.minimized = {}, NEW c
  PROVE  Steady(was, k, Presented(d, c))
<1> DEFINE t == FocusTarget(d, c)
<1>1. Restored(d, c) = d
  BY DEF Restored
<1>2. Presented(d, c) = FocusClient(Brought(d, t), c)
  BY <1>1 DEF Presented, BringIntoView
<1> HIDE DEF t
<1>3. Steady(was, k, Brought(d, t))
  <2>1. CASE t \notin Normal(d) \/ Placed(d, t)
    BY <2>1 DEF Brought
  <2>2. CASE ~(t \notin Normal(d) \/ Placed(d, t))
    <3>1. t \in Client /\ d \in Desk
      BY <2>2 DEF Normal, Steady, Akin, Good, Desk
    <3>2. d.workspace[t] \in Nat /\ d.special[t] \in SpecialOrNone
      BY <3>1, MaxWorkspacesAssumption DEF Desk, Workspace
    <3>3. Steady(was, k, SwitchTo(d, d.workspace[t], t))
      BY <3>2, SwitchToSteady
    <3>4. d.special[t] # NoSpecial => Steady(was, k, ShowSpecial(d, d.special[t]))
      BY <3>2, ShowSpecialSteady DEF SpecialOrNone
    <3>5. Brought(d, t) = IF d.special[t] # NoSpecial THEN ShowSpecial(d, d.special[t])
                          ELSE SwitchTo(d, d.workspace[t], t)
      BY <2>2 DEF Brought
    <3> QED BY <3>3, <3>4, <3>5
  <2> QED BY <2>1, <2>2
<1> QED BY <1>2, <1>3, FocusSteady

LEMMA ActivateClientSteady ==
  ASSUME NEW was, NEW k, NEW d, Steady(was, k, d), d.minimized = {}, NEW c \in Client
  PROVE  Steady(was, k, ActivateClient(d, c))
<1> DEFINE asked == [d EXCEPT !.urgent = d.urgent \cup {c}]
<1>1. Steady(was, k, asked)
  <2>1. d.urgent \cup {c} \in SUBSET Client /\ d \in Desk
    BY DEF Steady, Akin, Good, Desk
  <2>2. Akin(was, k, asked)
    BY <2>1, UrgentGood, FieldsKin DEF Steady, Akin, SameKin, Good
  <2> QED BY <2>1, <2>2 DEF Steady, Filed, Desk
<1>2. ActivateClient(d, c) \in {d, asked, Presented(d, c)}
  BY DEF ActivateClient
<1> QED BY <1>1, <1>2, PresentedSteady

\* Nor does what opens, turns and closes the switcher, nor the bell, nor a pin,
\* nor a dialog that turns modal.
LEMMA CycleFiled ==
  ASSUME NEW d \in Desk, NEW delta, NEW c
  PROVE  Filed(d, CycleBy(d, delta)) /\ Filed(d, CycleClosed(d)) /\ Filed(d, CycleWithout(d, c))
<1>0. \A x, y : Filed(d, [d EXCEPT !.cycle = x]) /\ Filed(d, [d EXCEPT !.cycle = x, !.grabbed = y])
  BY DEF Desk, Filed
<1>1. \A session : Filed(d, Turned(d, session, delta))
  BY <1>0 DEF Turned, Filed
<1>2. Filed(d, CycleBy(d, delta))
  BY <1>1 DEF CycleBy
<1>3. Filed(d, CycleClosed(d))
  BY <1>0 DEF CycleClosed
<1>4. Filed(d, CycleWithout(d, c))
  <2> DEFINE order == Without(d.cycle.order, c)
             selected == IF d.cycle.selected > Len(order) - 1 THEN Len(order) - 1
                         ELSE d.cycle.selected
             session == [d.cycle EXCEPT !.order = order, !.selected = selected]
             e == [d EXCEPT !.cycle = session]
  <2>1. d.cycle \in CycleSession
    BY DEF Desk
  <2>2. CASE ~d.cycle.open
    BY <2>2 DEF CycleWithout, Filed
  <2>3. CASE order = <<>> /\ d.cycle.open
    BY <1>3, <2>3 DEF CycleWithout
  <2>4. CASE order # <<>> /\ d.cycle.open
    <3>1. CycleWithout(d, c) = e
      <4> HIDE DEF order
      <4> QED BY <2>1, <2>4 DEF CycleWithout, order, Desk, CycleSession
    <3> HIDE DEF session
    <3> QED BY <1>0, <3>1
  <2> QED BY <2>2, <2>3, <2>4
<1> QED BY <1>2, <1>3, <1>4

LEMMA PinnedFiled ==
  ASSUME NEW was, NEW d, Good(was, d), NEW c \in Client, NEW on \in BOOLEAN
  PROVE  Filed(d, Pinned(d, c, on))
<1> DEFINE sticky == IF on THEN d.sticky \cup {c} ELSE d.sticky \ {c}
           set == [d EXCEPT !.sticky = sticky]
<1>1. sticky \in SUBSET Client /\ d \in Desk
  BY DEF Good, Desk
<1>2. Pinned(d, c, on) \in {d, Hide(FocusSuccessorOf(set, c), {c}), Show(set, {c}), set}
  BY DEF Pinned
<1> HIDE DEF sticky
<1>3. set \in Desk /\ SameRecords(d, set) /\ Filed(d, set)
  BY <1>1 DEF Desk, SameRecords, SameSession, SameHomes, Filed
<1> HIDE DEF set
<1>4. Steady(was, set, set)
  BY <1>3, OtherFields DEF Steady, Akin, SameKin, Filed
<1>5. Steady(was, set, Hide(FocusSuccessorOf(set, c), {c})) /\ Steady(was, set, Show(set, {c}))
  BY <1>4, FocusSteady, FieldsSteady
<1> QED BY <1>2, <1>3, <1>5 DEF Steady, Filed

-----------------------------------------------------------------------------
\* Everybody with a parent is filed with it, but for the pairs in X, parents are
\* alive and nothing is an icon.
Household(d, X) == ParentsLive(d) /\ FollowingBut(d, X) /\ d.minimized = {}

LEMMA HouseholdMore ==
  ASSUME NEW d, NEW X, NEW Y, Household(d, X), X \subseteq Y
  PROVE  Household(d, Y)
  BY FollowingMore DEF Household

\* Where the families and the places are kept, so is the household.
LEMMA HouseholdKept ==
  ASSUME NEW d, NEW X, Household(d, X), NEW e, e.parent = d.parent, e.live = d.live, Filed(d, e)
  PROVE  Household(e, X)
  BY DEF Household, ParentsLive, FollowingBut, Together, Filed

LEMMA HouseholdSteady ==
  ASSUME NEW was, NEW d, Good(was, d), NEW X, Household(d, X), NEW e, Steady(was, d, e)
  PROVE  Household(e, X)
<1>1. e.parent = d.parent /\ e.live = d.live /\ Filed(d, e)
  BY DEF Steady, Akin, Good, SameSession, SameKin
<1> QED BY <1>1, HouseholdKept

LEMMA SteadyAlone ==
  ASSUME NEW was, NEW d, Good(was, d)
  PROVE  Steady(was, d, d)
  BY DEF Steady, Akin, SameKin, Filed

\* Two workspaces that merge keep together what was together.
LEMMA WithoutWorkspaceHousehold ==
  ASSUME NEW was, NEW d, Good(was, d), NEW X, Household(d, X),
         d.count > 1, NEW w \in Nat, w < d.count
  PROVE  Household(WithoutWorkspace(d, w), X)
<1> DEFINE homes == [c \in Client |-> Remap(w, d.workspace[c])]
           merged == Merged(d, w)
           joined == Show(merged, Revealed(d, merged))
<1>1. d \in Desk /\ d.live \subseteq Client /\ NoClient \notin Client
  <2>1. NoClient \notin Client
    BY NumClientsAssumption DEF NoClient, Client
  <2> QED BY <2>1 DEF Good, Desk
<1>2. Good(was, merged)
  BY MergedGood
<1>3. /\ merged.workspace = homes /\ merged.special = d.special
      /\ merged.minimized = d.minimized /\ merged.parent = d.parent /\ merged.live = d.live
  BY <1>1 DEF Merged, Desk
<1>4. WithoutWorkspace(d, w) \in {joined, FocusIfAny(joined, Successor(joined, NoClient))}
  BY DEF WithoutWorkspace, FocusSomebody
<1>5. Revealed(d, merged) \in SUBSET Client
  BY <1>1 DEF Revealed, Normal
<1> HIDE DEF merged
<1>6. ParentsLive(merged) /\ merged.minimized = {}
  BY <1>3 DEF Household, ParentsLive
<1>7. FollowingBut(merged, X)
  <2> SUFFICES ASSUME NEW k \in d.live, d.parent[k] # NoClient, <<k, d.parent[k]>> \notin X
               PROVE  Together(merged, k, d.parent[k])
    BY <1>3 DEF FollowingBut
  <2>1. k \in Client /\ d.parent[k] \in Client
    BY <1>1 DEF Household, ParentsLive
  <2>2. Together(d, k, d.parent[k])
    BY DEF Household, FollowingBut
  <2>3. \A a \in Client : homes[a] = Remap(w, d.workspace[a])
    OBVIOUS
  <2> HIDE DEF homes
  <2> QED BY <1>3, <2>1, <2>2, <2>3 DEF Together
<1>8. Household(merged, X)
  BY <1>6, <1>7 DEF Household
<1>9. Steady(was, merged, joined)
  BY <1>2, <1>5, SteadyAlone, FieldsSteady
<1> HIDE DEF joined
<1>10. Steady(was, merged, FocusIfAny(joined, Successor(joined, NoClient)))
  BY <1>9, FocusSteady
<1> QED BY <1>2, <1>4, <1>8, <1>9, <1>10, HouseholdSteady

\* A window that nobody belongs to, moved to where its parent is, joins it.
LEMMA HouseholdJoined ==
  ASSUME NEW was, NEW d, Good(was, d), NEW c \in Client, ParentsLive(d),
         NEW X, FollowingBut(d, X \cup {<<c, d.parent[c]>>}),
         \A k \in Client : d.parent[k] # c,
         NEW e, SameKin(d, e), SameBut(c, d, e), e.live = d.live, e.minimized = {},
         d.parent[c] # NoClient => Together(e, c, d.parent[c])
  PROVE  Household(e, X)
<1>1. d.live \subseteq Client /\ NoClient \notin Client
  <2>1. NoClient \notin Client
    BY NumClientsAssumption DEF NoClient, Client
  <2> QED BY <2>1 DEF Good, Desk
<1>2. e.parent = d.parent
  BY DEF SameKin
<1>3. ParentsLive(e)
  BY <1>2 DEF ParentsLive
<1>4. ASSUME NEW k \in d.live, d.parent[k] # NoClient, <<k, d.parent[k]>> \notin X
      PROVE  Together(e, k, d.parent[k])
  <2>1. k \in Client /\ d.parent[k] \in Client \ {c}
    BY <1>1, <1>4 DEF ParentsLive
  <2>2. CASE k = c
    BY <1>4, <2>2
  <2>3. CASE k # c
    <3>1. Together(d, k, d.parent[k])
      BY <1>4, <2>3 DEF FollowingBut
    <3> QED BY <2>1, <2>3, <3>1 DEF Together, SameBut
  <2> QED BY <2>2, <2>3
<1>5. FollowingBut(e, X)
  BY <1>2, <1>4 DEF FollowingBut
<1> QED BY <1>3, <1>5 DEF Household

\* A window that is gone leaves nobody with it as a parent.
LEMMA ForgottenHousehold ==
  ASSUME NEW d, Good(d, d), NEW X, Household(d, X), NEW c \in d.live
  PROVE  Household(Forgotten(d, c), X)
<1> DEFINE gone == Erased(d, c)
           settled == IF d.focused = c THEN Inheriting(gone, d.special[c]) ELSE gone
<1>1. d \in Desk /\ d.live \subseteq Client /\ NoClient \notin Client /\ c \in Client
  <2>1. NoClient \notin Client
    BY NumClientsAssumption DEF NoClient, Client
  <2> QED BY <2>1 DEF Good, Desk
<1>2. Good(gone, gone) /\ gone.live = d.live \ {c}
  BY <1>1, ErasedGood
<1>3. /\ \A k \in Client : gone.parent[k] = IF k = c \/ d.parent[k] = c THEN NoClient ELSE d.parent[k]
      /\ \A k \in Client \ {c} : gone.workspace[k] = d.workspace[k] /\ gone.special[k] = d.special[k]
      /\ gone.minimized = d.minimized \ {c}
  BY <1>1 DEF Erased, Desk
<1>4. Forgotten(d, c) = CycleWithout(settled, c)
  BY DEF Forgotten
<1> HIDE DEF gone
<1>5. ParentsLive(gone) /\ gone.minimized = {}
  BY <1>2, <1>3 DEF Household, ParentsLive
<1>6. ASSUME NEW k \in gone.live, gone.parent[k] # NoClient, <<k, gone.parent[k]>> \notin X
      PROVE  Together(gone, k, gone.parent[k])
  <2>1. k \in Client \ {c} /\ k \in d.live /\ gone.parent[k] = d.parent[k]
    BY <1>1, <1>2, <1>3, <1>6
  <2>2. d.parent[k] \in Client \ {c}
    BY <1>1, <1>3, <1>6, <2>1 DEF Household, ParentsLive
  <2>3. Together(d, k, d.parent[k])
    BY <1>6, <2>1 DEF Household, FollowingBut
  <2> QED BY <1>3, <2>1, <2>2, <2>3 DEF Together
<1>7. Household(gone, X)
  BY <1>5, <1>6 DEF Household, FollowingBut
<1>8. settled \in {gone, HandOver(gone, Heir(gone, d.special[c]))}
  BY DEF Inheriting
<1>9. Steady(gone, gone, settled)
  BY <1>2, <1>8, SteadyAlone, FocusSteady
<1> HIDE DEF settled
<1>10. Household(settled, X) /\ settled \in Desk
  BY <1>2, <1>7, <1>9, HouseholdSteady DEF Steady, Akin, Good
<1> DEFINE e == CycleWithout(settled, c)
<1>11. SameKin(settled, e) /\ SamePlaces(settled, e) /\ Filed(settled, e)
  BY <1>10, CycleKin, CycleSame, CycleFiled
<1> HIDE DEF e
<1> QED BY <1>4, <1>10, <1>11, HouseholdKept DEF SameKin, SamePlaces, e

\* A window that gets a new parent joins it with its family.
LEMMA ReparentedHousehold ==
  ASSUME NumClients <= MaxTransientDepth + 1,
         NEW was, NEW d, Good(was, d), NEW X, Household(d, X), NEW c \in was.live,
         NEW p \in (was.live \cup {NoClient}) \ {c}
  PROVE  Household(Reparented(d, c, p), X)
<1> DEFINE set == [d EXCEPT !.parent[c] = p]
           e == Reparented(d, c, p)
<1>1. /\ d \in Desk /\ d.live = was.live /\ d.live \subseteq Client /\ NoClient \notin Client
      /\ c \in Client /\ p \in ClientOrNone
  <2>1. NoClient \notin Client
    BY NumClientsAssumption DEF NoClient, Client
  <2>2. d \in Desk /\ d.live = was.live
    BY DEF Good, SameSession
  <2>3. d.live \subseteq Client
    BY <2>2 DEF Desk
  <2> QED BY <2>1, <2>2, <2>3 DEF ClientOrNone
<1>2. Good(was, set) /\ SamePlaces(d, set)
  BY <1>1, ReparentedKin
<1>3. set.parent = [d.parent EXCEPT ![c] = p] /\ d.parent \in [Client -> ClientOrNone]
  BY <1>1 DEF Desk
<1>4. e = IF d.parent[c] = p \/ p = NoClient THEN set
          ELSE IF d.special[p] # NoSpecial THEN ForFamily(ToSpecial(d.special[p]), set, c)
          ELSE ForFamily(ToWorkspace(d.workspace[p]), set, c)
  BY DEF Reparented
<1> HIDE DEF set, e
<1>5. ParentsLive(set) /\ set.minimized = {}
  BY <1>1, <1>2, <1>3 DEF Household, ParentsLive, SamePlaces
<1>6. FollowingBut(set, X \cup {<<c, p>>})
  <2> SUFFICES ASSUME NEW k \in d.live, set.parent[k] # NoClient,
                      <<k, set.parent[k]>> \notin X \cup {<<c, p>>}
               PROVE  Together(set, k, set.parent[k])
    BY <1>2 DEF FollowingBut, SamePlaces
  <2>1. k \in Client /\ k # c
    BY <1>1, <1>3
  <2>2. set.parent[k] = d.parent[k]
    BY <1>3, <2>1
  <2>3. Together(d, k, d.parent[k])
    BY <2>2 DEF Household, FollowingBut
  <2> QED BY <1>2, <2>2, <2>3 DEF Together, SamePlaces
<1>7. set.parent[c] = p
  BY <1>1, <1>3
<1>8. CASE d.parent[c] = p \/ p = NoClient
  <2>1. ASSUME p # NoClient, <<c, p>> \notin X PROVE Together(set, c, p)
    <3>1. Together(d, c, p)
      BY <1>1, <1>8, <2>1 DEF Household, FollowingBut
    <3> QED BY <1>2, <3>1 DEF Together, SamePlaces
  <2>2. FollowingBut(set, X)
    <3> SUFFICES ASSUME NEW k \in set.live, set.parent[k] # NoClient, <<k, set.parent[k]>> \notin X
                 PROVE  Together(set, k, set.parent[k])
      BY DEF FollowingBut
    <3>1. CASE k = c
      BY <1>7, <2>1, <3>1
    <3>2. CASE k # c
      BY <1>6, <3>2 DEF FollowingBut
    <3> QED BY <3>1, <3>2
  <2> QED BY <1>4, <1>5, <1>8, <2>2 DEF Household, e
<1>9. ASSUME NEW op \in Moves, There(op, set, p), e = ForFamily(op, set, c) PROVE Household(e, X)
  <2>1. c \in set.live
    BY <1>1, <1>2 DEF SamePlaces
  <2>2. FollowingBut(e, X) /\ ParentsLive(e) /\ e.minimized = set.minimized
    BY <1>2, <1>5, <1>6, <1>7, <1>9, <2>1, FamilyFollows
  <2> QED BY <1>5, <2>2 DEF Household
<1>10. CASE ~(d.parent[c] = p \/ p = NoClient) /\ d.special[p] # NoSpecial
  <2> DEFINE s == d.special[p]
  <2>1. p \in Client /\ s \in SpecialNames
    BY <1>1, <1>10 DEF Desk, ClientOrNone, SpecialOrNone
  <2>2. ToSpecial(s) \in Moves
    BY <2>1 DEF Moves
  <2>3. There(ToSpecial(s), set, p)
    BY <1>2 DEF There, ToSpecial, SamePlaces
  <2> QED BY <1>4, <1>9, <1>10, <2>2, <2>3 DEF e
<1>11. CASE ~(d.parent[c] = p \/ p = NoClient) /\ d.special[p] = NoSpecial
  <2> DEFINE w == d.workspace[p]
  <2>1. p \in Client /\ w \in Workspace
    BY <1>1, <1>11 DEF Desk, ClientOrNone
  <2>2. ToWorkspace(w) \in Moves
    BY <2>1 DEF Moves
  <2>3. There(ToWorkspace(w), set, p)
    BY <1>2, <1>11 DEF There, ToWorkspace, SamePlaces
  <2> QED BY <1>4, <1>9, <1>11, <2>2, <2>3 DEF e
<1> QED BY <1>8, <1>10, <1>11 DEF e

\* The loop of a move that is refused does nothing.
LEMMA TooFarMove ==
  ASSUME NEW was, NEW d, Good(was, d), NEW c \in d.live, NEW w, TooFar(w)
  PROVE  ForFamily(ToWorkspace(w), d, c) = d
<1>1. \A e \in {d} : \A k \in d.live : Step(ToWorkspace(w), e, k) \in {d}
  BY DEF Step, ToWorkspace, MoveOneToWorkspace
<1>2. FamilyOrder(d, c) \in Seq(d.live)
  BY FamilyOrderType DEF Good
<1>3. ForEach(ToWorkspace(w), d, FamilyOrder(d, c)) \in {d}
  BY <1>1, <1>2, ForEachKeeps
<1> QED BY <1>3 DEF ForFamily

\* A window moves with everybody it is a parent to, and leaves at most its own.
LEMMA MovedHousehold ==
  ASSUME NumClients <= MaxTransientDepth + 1,
         NEW was, NEW d, Good(was, d), NEW X, Household(d, X), NEW c \in d.live
  PROVE  LET Y == X \cup {<<c, d.parent[c]>>} IN
         /\ \A w \in Nat : LET e == ForFamily(ToWorkspace(w), d, c) IN Good(was, e) /\ Household(e, Y)
         /\ \A s \in SpecialNames :
              LET e == ForFamily(ToSpecial(s), d, c) IN Good(was, e) /\ Household(e, Y)
<1> DEFINE Y == X \cup {<<c, d.parent[c]>>}
<1>1. <<c, d.parent[c]>> \in Y /\ X \subseteq Y /\ Y \cup {<<c, d.parent[c]>>} = Y
  OBVIOUS
<1> HIDE DEF Y
<1>2. Household(d, Y) /\ FollowingBut(d, Y \cup {<<c, d.parent[c]>>})
  BY <1>1, HouseholdMore DEF Household
<1>3. ASSUME NEW op \in Moves
      PROVE  Good(was, ForFamily(op, d, c)) /\ Household(ForFamily(op, d, c), Y)
  <2> DEFINE e == ForFamily(op, d, c)
  <2>1. ParentsLive(d) /\ d.minimized = {}
    BY DEF Household
  <2>2. FollowingBut(e, Y) /\ ParentsLive(e) /\ e.minimized = d.minimized /\ Good(was, e)
    BY <1>1, <1>2, <2>1, FamilyFollows
  <2> HIDE DEF e
  <2> QED BY <2>1, <2>2 DEF Household, e
<1>4. ASSUME NEW w \in Nat
      PROVE  /\ Good(was, ForFamily(ToWorkspace(w), d, c))
             /\ Household(ForFamily(ToWorkspace(w), d, c), Y)
  <2>1. CASE TooFar(w)
    BY <1>2, <2>1, TooFarMove
  <2>2. CASE ~TooFar(w)
    <3>1. ToWorkspace(w) \in Moves
      BY <2>2, InRange DEF Moves
    <3> QED BY <1>3, <3>1
  <2> QED BY <2>1, <2>2
<1>5. \A s \in SpecialNames : ToSpecial(s) \in Moves
  BY DEF Moves
<1> QED BY <1>3, <1>4, <1>5 DEF Y

\* So does one sent to a special workspace, whether the user follows it or not.
LEMMA MoveToSpecialHousehold ==
  ASSUME NumClients <= MaxTransientDepth + 1,
         NEW was, NEW d, Good(was, d), NEW X, Household(d, X), NEW c \in d.live,
         NEW s \in SpecialNames, NEW follow
  PROVE  LET e == MoveToSpecial(d, c, s, follow) IN
         Good(was, e) /\ Household(e, X \cup {<<c, d.parent[c]>>})
<1> DEFINE made == Create(d, s)
           moved == ForFamily(ToSpecial(s), made, c)
           Y == X \cup {<<c, d.parent[c]>>}
<1>1. Steady(was, d, made) /\ Good(was, made)
  BY SteadyAlone, FieldsSteady DEF Steady, Akin
<1>2. MoveToSpecial(d, c, s, follow) \in {moved, FocusClient(ShowSpecial(moved, s), c)}
  BY DEF MoveToSpecial, Followed
<1> HIDE DEF made
<1>3. Household(made, X)
  BY <1>1, HouseholdSteady
<1>4. c \in made.live /\ made.parent[c] = d.parent[c]
  BY <1>1 DEF Steady, Akin, Good, SameSession, SameKin
<1>5. Good(was, moved) /\ Household(moved, Y)
  BY <1>1, <1>3, <1>4, MovedHousehold
<1> HIDE DEF moved, Y
<1>6. Steady(was, moved, FocusClient(ShowSpecial(moved, s), c))
  BY <1>5, SteadyAlone, ShowSpecialSteady, FocusSteady
<1>7. Good(was, FocusClient(ShowSpecial(moved, s), c))
  BY <1>6 DEF Steady, Akin
<1> QED BY <1>2, <1>5, <1>6, <1>7, HouseholdSteady DEF Y

\* A window that arrives joins its parent, in its special or on its workspace,
\* unless a rule gives it a place of its own.
LEMMA MapClientHousehold ==
  ASSUME NumClients <= MaxTransientDepth + 1,
         NEW d, Good(d, d), Honest(d), NEW X, Household(d, X), NEW c \in Client \ d.live,
         NEW p \in d.live \cup {NoClient}, NEW modal \in BOOLEAN, NEW rule \in MapRule
  PROVE  LET e == MapClient(d, c, p, modal, rule) IN
         IF rule.target.kind = "inherit" THEN Household(e, X) ELSE Household(e, X \cup {<<c, p>>})
<1> DEFINE fresh == Fresh(d, c, p, modal, rule)
           homed == Inherited(fresh, c, p)
           home  == IF p = NoClient THEN d.current ELSE d.workspace[p]
<1>1. /\ d \in Desk /\ d.live \subseteq Client /\ NoClient \notin Client
      /\ d.special[c] = NoSpecial /\ p # c
  <2>1. NoClient \notin Client
    BY NumClientsAssumption DEF NoClient, Client
  <2> QED BY <2>1 DEF Good, Desk, MembersHold
<1>2. Good(fresh, fresh) /\ fresh.live = d.live \cup {c} /\ fresh \in Desk
  BY FreshGood DEF Good
<1>3. /\ fresh.parent = [d.parent EXCEPT ![c] = p]
      /\ fresh.workspace = [d.workspace EXCEPT ![c] = home]
      /\ fresh.special = d.special /\ fresh.minimized = d.minimized
  BY <1>1 DEF Fresh, Desk
<1> HIDE DEF fresh, home
<1>4. /\ \A k \in Client : fresh.parent[k] = IF k = c THEN p ELSE d.parent[k]
      /\ \A k \in Client : fresh.workspace[k] = IF k = c THEN home ELSE d.workspace[k]
  BY <1>1, <1>3 DEF Desk
<1>5. ParentsLive(fresh) /\ \A k \in Client : fresh.parent[k] # c
  BY <1>1, <1>2, <1>4 DEF Household, ParentsLive
<1>6. FollowingBut(fresh, X \cup {<<c, p>>})
  <2> SUFFICES ASSUME NEW k \in d.live, d.parent[k] # NoClient, <<k, d.parent[k]>> \notin X
               PROVE  Together(fresh, k, d.parent[k])
    BY <1>1, <1>2, <1>4 DEF FollowingBut
  <2>1. k \in Client \ {c} /\ d.parent[k] \in Client \ {c}
    BY <1>1 DEF Household, ParentsLive
  <2>2. Together(d, k, d.parent[k])
    BY DEF Household, FollowingBut
  <2> QED BY <1>3, <1>4, <2>1, <2>2 DEF Together
<1>joined. FollowingBut(fresh, X \cup {<<c, fresh.parent[c]>>})
  BY <1>4, <1>6
<1>7. Household(homed, X) /\ Good(fresh, homed)
  <2>1. CASE p = NoClient \/ d.special[p] = NoSpecial
    <3>1. homed = fresh
      BY <1>3, <2>1 DEF Inherited
    <3>2. fresh.parent[c] # NoClient => Together(fresh, c, fresh.parent[c])
      BY <1>1, <1>3, <1>4, <2>1 DEF Together, home
    <3>3. SameKin(fresh, fresh) /\ SameBut(c, fresh, fresh) /\ fresh.minimized = {}
      BY <1>3 DEF SameKin, SameBut, Household
    <3> QED BY <1>2, <1>5, <1>joined, <3>1, <3>2, <3>3, HouseholdJoined
  <2>2. CASE p # NoClient /\ d.special[p] # NoSpecial
    <3> DEFINE s == d.special[p]
    <3>1. s \in SpecialNames /\ s # NoSpecial /\ p \in Client
      BY <1>1, <2>2, NoSpecialAssumption DEF Desk, SpecialOrNone
    <3>2. homed = MoveOneToSpecial(fresh, c, s)
      BY <1>3, <2>2 DEF Inherited
    <3> HIDE DEF s
    <3>3. c \in fresh.live
      BY <1>2
    <3>4. SameBut(c, fresh, homed) /\ homed.special[c] = s /\ homed.minimized = fresh.minimized
      BY <1>2, <3>1, <3>2, <3>3, MoveOneToSpecialFiled
    <3>5. Akin(fresh, fresh, fresh)
      BY <1>2 DEF Akin, SameKin
    <3>6. Akin(fresh, fresh, homed)
      BY <3>1, <3>2, <3>3, <3>5, MoveOneToSpecialKin
    <3> HIDE DEF homed
    <3>7. homed.live = fresh.live /\ homed.minimized = {} /\ SameKin(fresh, homed)
      BY <1>3, <3>4, <3>6 DEF Akin, Good, SameSession, Household
    <3>8. fresh.parent[c] = p /\ homed.special[p] = s
      BY <1>1, <1>3, <1>4, <3>1, <3>4 DEF SameBut, s
    <3>9. Together(homed, c, fresh.parent[c])
      BY <3>1, <3>4, <3>8 DEF Together
    <3>10. Household(homed, X)
      BY <1>2, <1>5, <1>joined, <3>4, <3>7, <3>9, HouseholdJoined
    <3> QED BY <3>6, <3>10 DEF Akin
  <2> QED BY <2>1, <2>2
<1> HIDE DEF homed
<1> DEFINE to == rule.target.to
           moved == ForFamily(ToWorkspace(to), fresh, c)
           special == MoveToSpecial(fresh, c, to, ~rule.target.silent)
           put == Settled(fresh, c, p, rule.target)
           Y == IF rule.target.kind = "inherit" THEN X ELSE X \cup {<<c, p>>}
<1>8. Household(put, Y) /\ Good(fresh, put)
  <2>1. CASE put = homed
    BY <1>7, <2>1, HouseholdMore
  <2>2. Household(fresh, X \cup {<<c, p>>}) /\ fresh.parent[c] = p /\ c \in fresh.live
    BY <1>2, <1>3, <1>4, <1>5, <1>6 DEF Household
  <2>3. X \cup {<<c, p>>} \cup {<<c, p>>} = X \cup {<<c, p>>}
    OBVIOUS
  <2>4. CASE rule.target.kind = "numbered"
    <3>1. to \in Nat /\ Y = X \cup {<<c, p>>}
      BY <2>4 DEF MapRule, RuleTarget
    <3>2. put \in {moved, SwitchTo(moved, to, c)}
      BY <2>4 DEF Settled
    <3> HIDE DEF Y, put, to
    <3>3. Household(moved, Y) /\ Good(fresh, moved)
      BY <1>2, <2>2, <2>3, <3>1, MovedHousehold
    <3> HIDE DEF moved
    <3>4. Steady(fresh, moved, SwitchTo(moved, to, c))
      BY <3>1, <3>3, SteadyAlone, SwitchToSteady
    <3> QED BY <3>2, <3>3, <3>4, HouseholdSteady DEF Steady, Akin
  <2>5. CASE rule.target.kind = "special" /\ CanCreate(fresh, to)
    <3>1. to \in SpecialNames /\ Y = X \cup {<<c, p>>}
      BY <2>5 DEF MapRule, RuleTarget
    <3>2. put = special
      BY <2>5 DEF Settled
    <3> HIDE DEF Y, put, to
    <3>3. Household(special, Y) /\ Good(fresh, special)
      BY <1>2, <2>2, <2>3, <3>1, MoveToSpecialHousehold
    <3> QED BY <3>2, <3>3
  <2>6. CASE ~(rule.target.kind = "numbered") /\ ~(rule.target.kind = "special" /\ CanCreate(fresh, to))
    BY <2>1, <2>6 DEF Settled, homed
  <2> QED BY <2>4, <2>5, <2>6
<1>9. MapClient(d, c, p, modal, rule) \in {put, FocusClient(put, c)}
  BY DEF MapClient, fresh
<1> HIDE DEF put
<1>10. Steady(fresh, put, FocusClient(put, c))
  BY <1>8, SteadyAlone, FocusSteady
<1>11. Household(MapClient(d, c, p, modal, rule), Y)
  BY <1>8, <1>9, <1>10, HouseholdSteady
<1> QED BY <1>11

-----------------------------------------------------------------------------
\* A step parts nobody from its parent but a window that the request named.
Follows(X) ==
  \/ Household(wm', X)
  \/ \E c \in Client, p \in ClientOrNone : Named(c) /\ Household(wm', X \cup {<<c, p>>})

\* What the user does to the whole desk.
LEMMA DeskEventHousehold ==
  ASSUME NumClients <= MaxTransientDepth + 1, IInv, NEW X, Household(wm, X), DeskEvent
  PROVE  Follows(X)
<1>0. Good(wm, wm) /\ wm \in Desk /\ Steady(wm, wm, wm) /\ wm.minimized = {}
  BY SteadyAlone DEF IInv, Good, Household
<1> DEFINE Kept == Steady(wm, wm, wm')
<1>follows. Household(wm', X) => Follows(X)
  BY DEF Follows
<1>1. ASSUME NEW forward \in BOOLEAN, FocusNext(forward) PROVE Kept
  BY <1>0, <1>1, FocusSteady DEF FocusNext, Dispatched
<1>2. ASSUME NEW w \in 0 .. MaxWorkspaces, SwitchWorkspace(w) PROVE Kept
  <2>0. w \in Nat
    BY MaxWorkspacesAssumption
  <2> QED BY <1>0, <1>2, <2>0, SwitchToSteady DEF SwitchWorkspace, Dispatched
<1>3. ASSUME NEW w \in 0 .. MaxWorkspaces, RemoveWorkspace(w) PROVE Household(wm', X)
  <2>0. w \in Nat
    BY MaxWorkspacesAssumption
  <2> QED BY <1>0, <1>3, <2>0, WithoutWorkspaceHousehold DEF RemoveWorkspace, Dispatched
<1>4. ASSUME NEW w \in 0 .. MaxWorkspaces, CarryFocused(w) PROVE Follows(X)
  <2> DEFINE c == wm.focused
             moved == ForFamily(ToWorkspace(w), wm, c)
             there == SwitchTo(moved, w, NoClient)
             Y == X \cup {<<c, wm.parent[c]>>}
  <2>0. w \in Nat
    BY MaxWorkspacesAssumption
  <2>1. c \in wm.live /\ c \in Client /\ wm.parent[c] \in ClientOrNone
    BY <1>0, <1>4, FocusedLives DEF CarryFocused, Good, Desk
  <2>2. wm' = ActivateClient(there, c)
    BY <1>4 DEF CarryFocused, Dispatched
  <2>3. Named(c)
    BY <1>4 DEF Named
  <2> HIDE DEF c
  <2>4. Good(wm, moved) /\ Household(moved, Y)
    BY <1>0, <2>0, <2>1, MovedHousehold
  <2> HIDE DEF moved, Y
  <2>5. Steady(wm, moved, there)
    BY <2>0, <2>4, SteadyAlone, SwitchToSteady
  <2>6. there.minimized = {}
    BY <2>4, <2>5 DEF Steady, Filed, Household
  <2> HIDE DEF there
  <2>7. Steady(wm, moved, wm')
    BY <2>1, <2>2, <2>5, <2>6, ActivateClientSteady
  <2>8. Household(wm', Y)
    BY <2>4, <2>7, HouseholdSteady
  <2> QED BY <2>1, <2>3, <2>8 DEF Follows, Y
<1>5. CASE SwitchToPrevious
  <2>1. wm.previous \in Nat
    BY <1>0, <1>5, MaxWorkspacesAssumption DEF SwitchToPrevious, Good, Desk
  <2>2. Kept
    BY <1>0, <1>5, <2>1, SwitchToSteady DEF SwitchToPrevious, Dispatched
  <2> QED BY <1>follows, <1>0, <2>2, HouseholdSteady
<1>6. ASSUME NEW delta \in {-1, 1}, SwitchToOccupied(delta) PROVE Kept
  <2> DEFINE w == OccupiedStep(wm, delta)
  <2>1. w \in Nat
    BY <1>0, <1>6, OccupiedStepType DEF SwitchToOccupied
  <2>2. wm' = SwitchTo(wm, w, NoClient)
    BY <1>6 DEF SwitchToOccupied, Dispatched
  <2> HIDE DEF w
  <2> QED BY <1>0, <2>1, <2>2, SwitchToSteady
<1>7. ASSUME NEW delta \in {-1, 1}, CycleStep(delta) PROVE Household(wm', X)
  <2>1. SameKin(wm, wm') /\ SamePlaces(wm, wm') /\ Filed(wm, wm')
    BY <1>0, <1>7, CycleKin, CycleSame, CycleFiled DEF CycleStep, Dispatched
  <2> QED BY <2>1, HouseholdKept DEF SameKin, SamePlaces
<1>8. ASSUME NEW s \in SpecialNames, ToggleSpecial(s) PROVE Kept
  <2>1. wm' = HideSpecial(wm) \/ wm' = ShowSpecial(Create(wm, s), s)
    BY <1>8 DEF ToggleSpecial, Dispatched
  <2>2. Steady(wm, wm, HideSpecial(wm)) /\ Steady(wm, wm, ShowSpecial(Create(wm, s), s))
    BY <1>0, HideSpecialSteady, FieldsSteady, ShowSpecialSteady
  <2> QED BY <2>1, <2>2
<1>9. CASE CycleCancel
  <2>1. SameKin(wm, wm') /\ SamePlaces(wm, wm') /\ Filed(wm, wm')
    BY <1>0, <1>9, CycleKin, CycleSame, CycleFiled DEF CycleCancel, Dispatched
  <2> QED BY <1>follows, <2>1, HouseholdKept DEF SameKin, SamePlaces
<1>10. CASE CycleCommit
  <2> DEFINE closed == CycleClosed(wm)
             t == wm.cycle.order[wm.cycle.selected + 1]
  <2>1. wm' = Presented(closed, t)
    BY <1>10 DEF CycleCommit, CycleCommitted, Dispatched
  <2>2. SameKin(wm, closed) /\ SamePlaces(wm, closed) /\ Filed(wm, closed) /\ Good(closed, closed)
    BY <1>0, CycleKin, CycleSame, CycleFiled, CycleClosedGood
  <2> HIDE DEF closed, t
  <2>3. Household(closed, X)
    BY <2>2, HouseholdKept DEF SameKin, SamePlaces
  <2>4. Steady(closed, closed, wm')
    BY <2>1, <2>2, <2>3, SteadyAlone, PresentedSteady DEF Household
  <2> QED BY <1>follows, <2>2, <2>3, <2>4, HouseholdSteady
<1>11. CASE LockChanges
  <2>1. wm' = wm
    BY <1>11 DEF LockChanges
  <2> QED BY <1>follows, <2>1
<1> HIDE DEF Kept
<1>12. Kept => Household(wm', X)
  BY <1>0, HouseholdSteady DEF Kept
<1> QED BY <1>1, <1>2, <1>3, <1>4, <1>5, <1>6, <1>7, <1>8, <1>9, <1>10, <1>11, <1>12, <1>follows DEF DeskEvent

\* What the user does to one window.
LEMMA UserEventHousehold ==
  ASSUME NumClients <= MaxTransientDepth + 1, "minimize" \notin Gestures,
         IInv, NEW X, Household(wm, X), NEW c \in Client, UserEvent(c)
  PROVE  Follows(X)
<1>0. Good(wm, wm) /\ wm \in Desk /\ Steady(wm, wm, wm)
  BY SteadyAlone DEF IInv, Good
<1>follows. Household(wm', X) => Follows(X)
  BY DEF Follows
<1>1. CASE Click(c) \/ PointerEnter(c) \/ FocusRequest(c)
  <2>1. wm' \in {FocusClient(wm, FocusTarget(wm, c)), FocusClient(wm, c)}
    BY <1>1 DEF Click, PointerEnter, FocusRequest, Dispatched
  <2>2. Steady(wm, wm, wm')
    BY <1>0, <2>1, FocusSteady
  <2> QED BY <1>follows, <1>0, <2>2, HouseholdSteady
<1>2. ~(Miniaturize(c) \/ Deminiaturize(c))
  BY DEF Miniaturize, Deminiaturize
<1>3. ASSUME NEW w \in 0 .. MaxWorkspaces, MoveToWorkspace(c, w) PROVE Follows(X)
  <2>1. w \in Nat /\ c \in wm.live /\ wm.parent[c] \in ClientOrNone
    BY <1>0, <1>3, MaxWorkspacesAssumption DEF MoveToWorkspace, Desk
  <2>2. wm' = ForFamily(ToWorkspace(w), wm, c)
    BY <1>3 DEF MoveToWorkspace, Dispatched
  <2>3. Named(c)
    BY <1>3 DEF Named
  <2>4. Household(wm', X \cup {<<c, wm.parent[c]>>})
    BY <1>0, <2>1, <2>2, MovedHousehold
  <2> QED BY <2>1, <2>3, <2>4 DEF Follows
<1>4. ASSUME NEW s \in SpecialNames, NEW follow \in BOOLEAN, MoveClientToSpecial(c, s, follow)
      PROVE  Follows(X)
  <2>1. c \in wm.live /\ wm.parent[c] \in ClientOrNone
    BY <1>0, <1>4 DEF MoveClientToSpecial, Desk
  <2>2. wm' = MoveToSpecial(wm, c, s, follow)
    BY <1>4 DEF MoveClientToSpecial, Dispatched
  <2>3. Named(c)
    BY <1>4 DEF Named
  <2>4. Household(wm', X \cup {<<c, wm.parent[c]>>})
    BY <1>0, <2>1, <2>2, MoveToSpecialHousehold
  <2> QED BY <2>1, <2>3, <2>4 DEF Follows
<1>5. ASSUME NEW on \in BOOLEAN, SetPinned(c, on) PROVE Household(wm', X)
  <2>1. wm' = Pinned(wm, c, on)
    BY <1>5 DEF SetPinned, Dispatched
  <2>2. Filed(wm, wm') /\ SameKin(wm, wm') /\ Good(wm, wm')
    BY <1>0, <2>1, PinnedFiled, PinnedKin, PinnedGood
  <2> QED BY <2>2, HouseholdKept DEF SameKin, Good, SameSession
<1> QED BY <1>1, <1>2, <1>3, <1>4, <1>5, <1>follows DEF UserEvent

\* What clients and their windows do.
LEMMA ClientEventHousehold ==
  ASSUME NumClients <= MaxTransientDepth + 1,
         IInv, NEW X, Household(wm, X), NEW c \in Client, ClientEvent(c)
  PROVE  Follows(X)
<1>0. Good(wm, wm) /\ Honest(wm) /\ wm \in Desk /\ Steady(wm, wm, wm) /\ wm.minimized = {}
  BY SteadyAlone DEF IInv, Good, Household
<1>follows. Household(wm', X) => Follows(X)
  BY DEF Follows
<1>1. ASSUME NEW p \in ClientOrNone, NEW modal \in BOOLEAN, NEW rule \in MapRules,
             MapRequest(c, p, modal, rule)
      PROVE  Follows(X)
  <2>1. rule \in MapRule /\ p \in wm.live \cup {NoClient} /\ c \in Client \ wm.live
    BY <1>1, MapRulesAssumption DEF MapRequest, FreshSlot
  <2>2. wm' = MapClient(wm, c, p, modal, rule)
    BY <1>1 DEF MapRequest, Dispatched
  <2>3. rule.target.kind # "inherit" => Named(c)
    BY <1>1 DEF Named
  <2>4. IF rule.target.kind = "inherit" THEN Household(wm', X)
        ELSE Household(wm', X \cup {<<c, p>>})
    BY <1>0, <2>1, <2>2, MapClientHousehold
  <2>5. CASE rule.target.kind = "inherit"
    BY <1>follows, <2>4, <2>5
  <2>6. CASE rule.target.kind # "inherit"
    BY <2>3, <2>4, <2>6 DEF Follows
  <2> QED BY <2>5, <2>6
<1>2. CASE Forget(c)
  BY <1>follows, <1>0, <1>2, ForgottenHousehold DEF Forget, Dispatched
<1>3. CASE Activate(c)
  <2>1. Steady(wm, wm, wm')
    BY <1>0, <1>3, ActivateClientSteady DEF Activate, Dispatched
  <2> QED BY <1>follows, <1>0, <2>1, HouseholdSteady
<1>4. CASE ChromeChanged(c)
  <2>1. wm' \in {Show(wm, {c}), Hide(wm, {c})}
    BY <1>4 DEF ChromeChanged, Dispatched
  <2>2. {c} \in SUBSET Client
    OBVIOUS
  <2>3. Steady(wm, wm, Show(wm, {c})) /\ Steady(wm, wm, Hide(wm, {c}))
    BY <1>0, <2>2, FieldsSteady
  <2>4. Steady(wm, wm, wm')
    BY <2>1, <2>3
  <2> QED BY <1>follows, <1>0, <2>4, HouseholdSteady
<1>5. ASSUME NEW on \in BOOLEAN, SetUrgent(c, on) PROVE Household(wm', X)
  <2> DEFINE u == IF on THEN wm.urgent \cup {c} ELSE wm.urgent \ {c}
  <2>1. wm' = [wm EXCEPT !.urgent = u]
    BY <1>5 DEF SetUrgent, Dispatched
  <2> HIDE DEF u
  <2>2. wm'.parent = wm.parent /\ wm'.live = wm.live /\ Filed(wm, wm')
    BY <1>0, <2>1 DEF Desk, Filed
  <2> QED BY <2>2, HouseholdKept
<1>6. ASSUME NEW on \in BOOLEAN, ModalChanged(c, on) PROVE Household(wm', X)
  <2> DEFINE modal == IF on THEN wm.modal \cup {c} ELSE wm.modal \ {c}
             set == [wm EXCEPT !.modal = IF on THEN @ \cup {c} ELSE @ \ {c}]
  <2>1. Good(wm, set) /\ SamePlaces(wm, set) /\ wm' \in {set, FocusClient(set, c)}
    BY <1>0, <1>6, ModalSetKin DEF ModalChanged, Dispatched
  <2>2. set = [wm EXCEPT !.modal = modal]
    OBVIOUS
  <2> HIDE DEF set, modal
  <2>3. set.parent = wm.parent
    BY <1>0, <2>2 DEF Desk
  <2>4. Household(set, X)
    BY <2>1, <2>3, HouseholdKept DEF SamePlaces, Filed
  <2>5. Steady(wm, set, wm')
    BY <2>1, SteadyAlone, FocusSteady
  <2> QED BY <2>1, <2>4, <2>5, HouseholdSteady
<1>7. ASSUME NEW p \in ClientOrNone, ParentChanged(c, p) PROVE Household(wm', X)
  <2>1. c \in wm.live /\ p \in (wm.live \cup {NoClient}) \ {c} /\ wm' = Reparented(wm, c, p)
    BY <1>7 DEF ParentChanged, Dispatched
  <2> QED BY <1>0, <2>1, ReparentedHousehold
<1> QED BY <1>1, <1>2, <1>3, <1>4, <1>5, <1>6, <1>7, <1>follows DEF ClientEvent

\* A window that comes to be apart from its parent was named by the request, as
\* long as the links of a family fit under the depth to which the code follows
\* them and nobody is made an icon: every other move, merge, activation, change
\* of parent, arrival and departure keeps each dialog where its parent is, at any
\* depth of the family moved (transient_family, handle_map_request,
\* handle_parent_changed).
THEOREM DialogsSafety ==
  ASSUME NumClients <= MaxTransientDepth + 1, "minimize" \notin Gestures
  PROVE  Spec => DialogsFollow
<1> DEFINE DInv == IInv /\ ParentsLive(wm) /\ wm.minimized = {}
           Parts == \A c, p \in Client : <<c, p>> \in Apart(wm') \ Apart(wm)
                      => Named(c) \/ (c \in wm.minimized) # (p \in wm.minimized)
<1>1. Init => DInv
  <2>1. Init => ParentsLive(wm) /\ wm.minimized = {}
    BY DEF Init, ParentsLive
  <2> QED BY <2>1, InitIInv
<1>2. ASSUME DInv, Next PROVE Follows(Apart(wm))
  <2>1. Household(wm, Apart(wm))
    BY <1>2, FollowingApart DEF Household
  <2>2. CASE DeskEvent
    BY <1>2, <2>1, <2>2, DeskEventHousehold
  <2>3. ASSUME NEW c \in Client, ClientEvent(c) \/ UserEvent(c) PROVE Follows(Apart(wm))
    BY <1>2, <2>1, <2>3, ClientEventHousehold, UserEventHousehold
  <2> QED BY <1>2, <2>2, <2>3 DEF Next
<1>3. DInv /\ [Next]_vars => DInv'
  <2>1. CASE UNCHANGED vars
    BY <2>1, NextIInv DEF vars, ParentsLive
  <2>2. ASSUME DInv, Next PROVE DInv'
    <3>1. ParentsLive(wm') /\ wm'.minimized = {}
      BY <1>2, <2>2 DEF Follows, Household
    <3> QED BY <2>2, <3>1, NextIInv DEF ParentsLive
  <2> QED BY <2>1, <2>2
<1>4. DInv /\ [Next]_vars => [Parts]_vars
  <2> SUFFICES ASSUME DInv, Next PROVE Parts
    OBVIOUS
  <2>1. CASE Household(wm', Apart(wm))
    <3>1. Apart(wm') \subseteq Apart(wm)
      BY <2>1, FollowingApart DEF Household
    <3> QED BY <3>1
  <2>2. ASSUME NEW a \in Client, NEW b \in ClientOrNone, Named(a),
               Household(wm', Apart(wm) \cup {<<a, b>>})
        PROVE  Parts
    <3>1. Apart(wm') \subseteq Apart(wm) \cup {<<a, b>>}
      BY <2>2, FollowingApart DEF Household
    <3>2. ASSUME NEW c \in Client, NEW p \in Client, <<c, p>> \in Apart(wm') \ Apart(wm) PROVE c = a
      BY <3>1, <3>2
    <3> QED BY <2>2, <3>2
  <2> QED BY <1>2, <2>1, <2>2 DEF Follows
<1> QED BY <1>1, <1>3, <1>4, PTL DEF Spec, DialogsFollow

-----------------------------------------------------------------------------
(* A modal dialog keeps the keyboard of its family.  Whoever a step gives    *)
(* the keyboard to is modal itself or has no modal dialog on it; what could  *)
(* change that afterwards is a dialog that comes back from its icon later in *)
(* the same step, and takes the keyboard as it does.                         *)

\* Whoever has the keyboard in d had it in k, or is modal, or is not blocked.
Heeded(k, d) ==
  \/ d.focused \in {k.focused, NoClient} \cup d.modal
  \/ ModalBlocker(d, d.focused) = NoClient

\* No window declines the keyboard, parents are alive, and no family is deeper
\* than the code follows parents.
Plain(d) ==
  /\ NumClients <= MaxTransientDepth + 1 /\ \A rule \in MapRules : ~rule.noFocus
  /\ d.noFocus = {} /\ ParentsLive(d)

\* Either there are no icons or what comes back from one can take the keyboard.
Calm(d) == \/ "minimize" \notin Gestures /\ d.minimized = {}
           \/ Plain(d)

Heeding(was, k, d) == Akin(was, k, d) /\ Heeded(k, d) /\ Calm(d)

\* What e has as d has it.
SameKeyboard(d, e) == e.focused = d.focused /\ e.minimized = d.minimized /\ e.noFocus = d.noFocus

LEMMA BlockerSame ==
  ASSUME NEW d, NEW e, SameKin(d, e), e.live = d.live, e.minimized = d.minimized, NEW c
  PROVE  ModalBlocker(e, c) = ModalBlocker(d, c)
<1>1. Family(e, c) = Family(d, c)
  BY DEF SameKin, Family, Ancestors
<1> QED BY <1>1 DEF ModalBlocker, Normal, SameKin

LEMMA CalmSame ==
  ASSUME NEW d, Calm(d), NEW e, e.parent = d.parent, e.live = d.live,
         e.minimized = d.minimized, e.noFocus = d.noFocus
  PROVE  Calm(e)
  BY DEF Calm, Plain, ParentsLive

\* A change of other fields heeds what was heeded.
LEMMA HeedingSame ==
  ASSUME NEW was, NEW k, NEW d, Heeding(was, k, d), NEW e, Akin(was, k, e), SameKeyboard(d, e)
  PROVE  Heeding(was, k, e)
<1>1. SameKin(d, e) /\ e.live = d.live
  BY DEF Heeding, Akin, Good, SameSession, SameKin
<1>2. ModalBlocker(e, e.focused) = ModalBlocker(d, d.focused)
  BY <1>1, BlockerSame DEF SameKeyboard
<1>3. Calm(e)
  BY <1>1, CalmSame DEF Heeding, SameKin, SameKeyboard
<1> QED BY <1>1, <1>2, <1>3 DEF Heeding, Heeded, SameKin, SameKeyboard

\* Somebody blocks a window if and only if there is somebody to.
LEMMA BlockerIs ==
  ASSUME NEW d \in Desk, NEW c
  PROVE  LET b == ModalBlocker(d, c)
             S == (Family(d, c) \ {c}) \cap Normal(d) \cap d.modal
         IN  /\ b # NoClient => b \in S /\ b \in Elements(d.order)
             /\ b = NoClient => S \cap Elements(d.order) = {}
<1> DEFINE b == ModalBlocker(d, c)
           S == (Family(d, c) \ {c}) \cap Normal(d) \cap d.modal
           hits == {i \in DOMAIN d.order : d.order[i] \in S}
<1>1. d.order \in Seq(Client) /\ NoClient \notin Client
  BY NumClientsAssumption DEF Desk, NoClient, Client
<1>2. b = LastOf(d.order, S, NoClient)
  BY DEF ModalBlocker, LastIn
<1> HIDE DEF S
<1>3. CASE hits = {}
  <2>1. b = NoClient /\ S \cap Elements(d.order) = {}
    BY <1>2, <1>3 DEF LastOf, Elements
  <2> QED BY <2>1 DEF S
<1>4. CASE hits # {}
  <2>1. hits \in SUBSET (1 .. Len(d.order)) /\ Len(d.order) \in Nat
    BY <1>1
  <2>2. PICK m \in hits : b = d.order[m]
    <3>1. Max(hits) \in hits
      BY <1>4, <2>1, LastPlace
    <3>2. b = d.order[Max(hits)]
      BY <1>2, <1>4 DEF LastOf
    <3> QED BY <3>1, <3>2
  <2>3. m \in DOMAIN d.order /\ d.order[m] \in S /\ d.order[m] \in Client
    BY <1>1
  <2>4. b \in S /\ b \in Elements(d.order) /\ b # NoClient
    BY <1>1, <2>2, <2>3 DEF Elements
  <2> QED BY <2>4 DEF S
<1> QED BY <1>3, <1>4

\* Whoever takes the keyboard heeds the dialogs of its family.
LEMMA TakenHeeds ==
  ASSUME NEW d \in Desk, NEW c, FocusTarget(d, c) \in Focusable(d), NEW k
  PROVE  Heeded(k, FocusClient(d, c))
<1> DEFINE t == FocusTarget(d, c)
           e == FocusOn(d, t)
           b == ModalBlocker(d, c)
<1>1. FocusClient(d, c) = e /\ t = IF b = NoClient THEN c ELSE b
  BY DEF FocusClient, FocusTarget, OrElse
<1>2. t \in Focusable(d)
  OBVIOUS
<1> HIDE DEF t
<1>3. SameLook(d, e) /\ SameKin(d, e) /\ e.focused = t
  BY <1>2, FocusOnIs
<1> HIDE DEF e
<1>4. CASE b = NoClient
  <2>1. ModalBlocker(e, c) = NoClient
    BY <1>3, <1>4, BlockerSame DEF SameLook, SamePlaces
  <2> QED BY <1>1, <1>3, <1>4, <2>1 DEF Heeded
<1>5. CASE b # NoClient
  <2>1. b \in d.modal
    BY <1>5, BlockerIs
  <2> QED BY <1>1, <1>3, <1>5, <2>1 DEF Heeded, SameKin
<1> QED BY <1>4, <1>5

\* So a change of focus, by any of the routes there are, heeds them.
LEMMA FocusHeeds ==
  ASSUME NEW was, NEW k, NEW d, Heeding(was, k, d), NEW c, NEW forward
  PROVE  /\ Heeding(was, k, FocusClient(d, c)) /\ Heeding(was, k, FocusIfAny(d, c))
         /\ Heeding(was, k, DropFocusOf(d, c)) /\ Heeding(was, k, HandOver(d, c))
         /\ Heeding(was, k, FocusSuccessorOf(d, c)) /\ Heeding(was, k, FocusAdjacent(d, forward))
<1>0. Akin(was, k, d) /\ d \in Desk
  BY DEF Heeding, Akin, Good
<1>1. ASSUME NEW a PROVE Heeding(was, k, FocusClient(d, a))
  <2> DEFINE t == FocusTarget(d, a)
  <2>1. CASE t \notin Focusable(d)
    BY <2>1 DEF FocusClient, FocusOn
  <2>2. CASE t \in Focusable(d)
    <3>1. Heeded(k, FocusClient(d, a)) /\ Akin(was, k, FocusClient(d, a))
      BY <1>0, <2>2, TakenHeeds, FocusKin
    <3>2. FocusClient(d, a) = FocusOn(d, t)
      BY DEF FocusClient
    <3> HIDE DEF t
    <3>3. SameLook(d, FocusOn(d, t)) /\ SameKin(d, FocusOn(d, t))
      BY <1>0, FocusOnIs
    <3> DEFINE e == FocusOn(d, t)
    <3> HIDE DEF e
    <3>4. Calm(e)
      BY <3>3, CalmSame DEF Heeding, SameLook, SamePlaces, SameKin, e
    <3> QED BY <3>1, <3>2, <3>4 DEF Heeding, e
  <2> QED BY <2>1, <2>2
<1>2. Heeding(was, k, DropFocus(d))
  <2> DEFINE e == DropFocus(d)
  <2>1. Akin(was, k, e)
    BY <1>0, FocusKin, DropFocusGood, FieldsKin DEF Akin, SameKin
  <2>2. /\ e.focused = NoClient /\ e.parent = d.parent /\ e.live = d.live
        /\ e.minimized = d.minimized /\ e.noFocus = d.noFocus
    BY <1>0 DEF DropFocus, Desk
  <2> HIDE DEF e
  <2>3. Calm(e)
    BY <2>2, CalmSame DEF Heeding
  <2> QED BY <2>1, <2>2, <2>3 DEF Heeding, Heeded, e
<1>3. \A a : Heeding(was, k, FocusIfAny(d, a)) /\ Heeding(was, k, HandOver(d, a))
  BY <1>1, <1>2 DEF FocusIfAny, HandOver
<1>4. Heeding(was, k, DropFocusOf(d, c)) /\ Heeding(was, k, FocusSuccessorOf(d, c))
  BY <1>2, <1>3 DEF DropFocusOf, FocusSuccessorOf
<1>5. Heeding(was, k, FocusAdjacent(d, forward))
  BY <1>3 DEF FocusAdjacent
<1> QED BY <1>1, <1>3, <1>4, <1>5

\* Nor does mapping windows, hiding them, or an overlay coming and going, change it.
LEMMA FieldsHeed ==
  ASSUME NEW was, NEW k, NEW d, Heeding(was, k, d), NEW S \in SUBSET Client, NEW x
  PROVE  /\ Heeding(was, k, Show(d, S)) /\ Heeding(was, k, Hide(d, x))
         /\ x \in SpecialOrNone => Heeding(was, k, [d EXCEPT !.shown = x])
         /\ x \in SpecialNames => Heeding(was, k, Create(d, x))
<1>1. Akin(was, k, d) /\ d \in Desk
  BY DEF Heeding, Akin, Good
<1>2. /\ SameKeyboard(d, Show(d, S)) /\ SameKeyboard(d, Hide(d, x))
      /\ SameKeyboard(d, [d EXCEPT !.shown = x]) /\ SameKeyboard(d, Create(d, x))
  BY <1>1 DEF Show, Hide, Create, Desk, SameKeyboard
<1>3. /\ Akin(was, k, Show(d, S)) /\ Akin(was, k, Hide(d, x))
      /\ x \in SpecialOrNone => Akin(was, k, [d EXCEPT !.shown = x])
      /\ x \in SpecialNames => Akin(was, k, Create(d, x))
  BY <1>1, ShowKin, HideKin, ShownKin, CreateKin
<1> QED BY <1>2, <1>3, HeedingSame

LEMMA HideMembersHeeds ==
  ASSUME NEW was, NEW k, NEW d, Heeding(was, k, d), NEW s
  PROVE  Heeding(was, k, HideMembers(d, s))
<1> DEFINE hidden == Hide(d, LiveMembers(d, s))
<1>1. Heeding(was, k, hidden)
  BY FieldsHeed
<1>2. HideMembers(d, s) \in {hidden, FocusSuccessorOf(hidden, d.focused)}
  BY DEF HideMembers
<1> HIDE DEF hidden
<1> QED BY <1>1, <1>2, FocusHeeds

LEMMA HideSpecialHeeds ==
  ASSUME NEW was, NEW k, NEW d, Heeding(was, k, d)
  PROVE  Heeding(was, k, HideSpecial(d))
<1> DEFINE e == [d EXCEPT !.shown = NoSpecial]
<1>1. Heeding(was, k, e)
  BY FieldsHeed DEF SpecialOrNone
<1>2. HideSpecial(d) \in {d, HideMembers(e, d.shown)}
  BY DEF HideSpecial
<1> HIDE DEF e
<1> QED BY <1>1, <1>2, HideMembersHeeds

LEMMA ShowSpecialHeeds ==
  ASSUME NEW was, NEW k, NEW d, Heeding(was, k, d), NEW s \in SpecialNames
  PROVE  Heeding(was, k, ShowSpecial(d, s))
<1> DEFINE here == [d EXCEPT !.shown = s]
           free == IF d.shown \in {NoSpecial, s} THEN here ELSE HideMembers(here, d.shown)
           out  == ShowMembers(free, s)
<1>1. Heeding(was, k, here)
  BY FieldsHeed DEF SpecialOrNone
<1> HIDE DEF here
<1>2. Heeding(was, k, free)
  BY <1>1, HideMembersHeeds
<1>3. ShowSpecial(d, s) = FocusIfAny(out, RecentMember(out, s))
  BY DEF ShowSpecial, FocusMember, here
<1> HIDE DEF free
<1>4. LiveMembers(free, s) \in SUBSET Client
  BY <1>2 DEF LiveMembers, Normal, Heeding, Akin, Good, Desk
<1>5. Heeding(was, k, out)
  BY <1>2, <1>4, FieldsHeed DEF ShowMembers
<1> HIDE DEF out
<1> QED BY <1>3, <1>5, FocusHeeds

\* Icons block nobody.
LEMMA FewerBlockers ==
  ASSUME NEW d \in Desk, NEW e \in Desk, SameKin(d, e), e.live = d.live,
         d.minimized \subseteq e.minimized, NEW c, ModalBlocker(d, c) = NoClient
  PROVE  ModalBlocker(e, c) = NoClient
<1> DEFINE b == ModalBlocker(e, c)
<1>1. Family(e, c) = Family(d, c)
  BY DEF SameKin, Family, Ancestors
<1>2. (Family(d, c) \ {c}) \cap Normal(d) \cap d.modal \cap Elements(d.order) = {}
  BY BlockerIs
<1>3. b # NoClient => b \in (Family(e, c) \ {c}) \cap Normal(e) \cap e.modal \cap Elements(e.order)
  BY BlockerIs
<1> HIDE DEF b
<1> QED BY <1>1, <1>2, <1>3 DEF SameKin, Normal, b

\* So does turning one window into an icon.
LEMMA MiniaturizeOneHeeds ==
  ASSUME "minimize" \in Gestures, NEW was, NEW k, NEW d, Heeding(was, k, d), NEW c
  PROVE  Heeding(was, k, MiniaturizeOne(d, c))
<1> DEFINE e == [d EXCEPT !.minimized = d.minimized \cup {c}]
<1>1. CASE c \notin Normal(d)
  BY <1>1 DEF MiniaturizeOne
<1>2. CASE c \in Normal(d)
  <2>1. Akin(was, k, d) /\ d \in Desk /\ d.minimized \cup {c} \in SUBSET d.live
    BY <1>2 DEF Heeding, Akin, Good, Normal
  <2>2. Akin(was, k, e) /\ e \in Desk
    BY <2>1, IconsKin DEF Akin, Good
  <2>3. /\ e.focused = d.focused /\ e.noFocus = d.noFocus /\ e.parent = d.parent /\ e.live = d.live
        /\ e.modal = d.modal /\ e.order = d.order /\ e.minimized = d.minimized \cup {c}
    BY <2>1 DEF Desk
  <2>4. MiniaturizeOne(d, c) = FocusSuccessorOf(Hide(e, {c}), c)
    BY <1>2 DEF MiniaturizeOne
  <2> HIDE DEF e
  <2>5. Calm(e)
    BY <2>3 DEF Heeding, Calm, Plain, ParentsLive
  <2>6. ModalBlocker(d, d.focused) = NoClient => ModalBlocker(e, d.focused) = NoClient
    <3>1. SameKin(d, e) /\ d.minimized \subseteq e.minimized
      BY <2>3 DEF SameKin
    <3> QED BY <2>1, <2>2, <2>3, <3>1, FewerBlockers
  <2>7. Heeding(was, k, e)
    BY <2>2, <2>3, <2>5, <2>6 DEF Heeding, Heeded
  <2>8. Heeding(was, k, Hide(e, {c}))
    BY <2>7, FieldsHeed
  <2> QED BY <2>4, <2>8, FocusHeeds
<1> QED BY <1>1, <1>2

\* What filing a window elsewhere leaves alone.
LEMMA FiledKeyboard ==
  ASSUME NEW d \in Desk, NEW c, NEW w
  PROVE  SameKeyboard(d, Grown(d, w)) /\ SameKeyboard(d, Homed(d, c, w)) /\ SameKeyboard(d, LeaveSpecial(d, c))
<1>1. SameKeyboard(d, Grown(d, w)) /\ SameKeyboard(d, Homed(d, c, w))
  BY DEF Grown, Homed, Desk, SameKeyboard
<1>2. SameKeyboard(d, LeaveSpecial(d, c))
  BY DEF LeaveSpecial, Desk, SameKeyboard
<1> QED BY <1>1, <1>2

LEMMA FiledHeeds ==
  ASSUME NEW was, NEW k, NEW d, Heeding(was, k, d), NEW c \in Client, NEW w \in Workspace
  PROVE  /\ Heeding(was, k, Grown(d, w)) /\ Heeding(was, k, LeaveSpecial(d, c))
         /\ w < d.count => Heeding(was, k, Homed(d, c, w))
<1>1. Akin(was, k, d) /\ d \in Desk
  BY DEF Heeding, Akin, Good
<1>2. /\ Akin(was, k, Grown(d, w)) /\ Akin(was, k, LeaveSpecial(d, c))
      /\ w < d.count => Akin(was, k, Homed(d, c, w))
  BY <1>1, GrownKin, LeaveSpecialKin, HomedKin
<1> QED BY <1>1, <1>2, FiledKeyboard, HeedingSame

\* So does moving one to a workspace.
LEMMA MoveOneToWorkspaceHeeds ==
  ASSUME NEW was, NEW k, NEW d, Heeding(was, k, d), NEW c \in Client, NEW w \in Nat
  PROVE  Heeding(was, k, MoveOneToWorkspace(d, c, w))
<1> DEFINE grown == Grown(d, w)
           out   == LeaveSpecial(grown, c)
           home  == Homed(out, c, w)
           given == IF out.focused = c THEN FocusAdjacent(out, TRUE) ELSE out
           sent  == Homed(given, c, w)
<1>1. CASE TooFar(w)
  BY <1>1 DEF MoveOneToWorkspace
<1>2. CASE ~TooFar(w)
  <2>1. w \in Workspace /\ Heeding(was, k, grown) /\ d \in Desk /\ grown \in Desk
    BY <1>2, InRange, FiledHeeds DEF Heeding, Akin, Good
  <2>2. Heeding(was, k, out) /\ w < out.count /\ out \in Desk
    <3>1. Heeding(was, k, out)
      BY <2>1, FiledHeeds
    <3>2. w < out.count
      BY <2>1, LeftRow
    <3> QED BY <3>1, <3>2 DEF Heeding, Akin, Good
  <2>3. MoveOneToWorkspace(d, c, w) \in
          {grown, DropFocusOf(Hide(sent, {c}), c), Show(home, {c}), home}
    BY <1>2 DEF MoveOneToWorkspace, SentAway
  <2> HIDE DEF grown, out
  <2>4. Heeding(was, k, home)
    BY <2>1, <2>2, FiledHeeds
  <2> HIDE DEF home
  <2>5. {c} \in SUBSET Client
    OBVIOUS
  <2>6. Heeding(was, k, Show(home, {c}))
    BY <2>4, <2>5, FieldsHeed
  <2>7. Heeding(was, k, given) /\ w < given.count
    <3>1. FocusAdjacent(out, TRUE).count = out.count
      BY <2>2, FocusSame DEF SameScreen, SameHomes
    <3>2. Heeding(was, k, FocusAdjacent(out, TRUE))
      BY <2>2, FocusHeeds
    <3> QED BY <2>2, <3>1, <3>2
  <2> HIDE DEF given
  <2>8. Heeding(was, k, sent)
    BY <2>1, <2>7, FiledHeeds
  <2> HIDE DEF sent
  <2>9. Heeding(was, k, Hide(sent, {c}))
    BY <2>8, FieldsHeed
  <2>10. Heeding(was, k, DropFocusOf(Hide(sent, {c}), c))
    BY <2>9, FocusHeeds
  <2> QED BY <2>1, <2>3, <2>4, <2>6, <2>10
<1> QED BY <1>1, <1>2

\* Nor does moving one to a special workspace.
LEMMA MoveOneToSpecialHeeds ==
  ASSUME NEW was, NEW k, NEW d, Heeding(was, k, d), NEW c \in d.live, NEW s \in SpecialNames
  PROVE  Heeding(was, k, MoveOneToSpecial(d, c, s))
<1> DEFINE in == Enrolled(d, c, s)
           out == LeaveSpecial(d, c)
<1>1. {c} \in SUBSET Client /\ Akin(was, k, d) /\ d \in Desk /\ c \in Client
  BY DEF Heeding, Akin, Good, Desk
<1>2. out \in Desk /\ SameKeyboard(d, out)
  BY <1>1, LeaveSpecialKin, FiledKeyboard DEF Akin, Good
<1>3. in = [out EXCEPT !.special[c] = s, !.members[s] = Append(@, c)]
  BY DEF Enrolled
<1>4. MoveOneToSpecial(d, c, s) \in {d, Show(in, {c}), in, Hide(FocusSuccessorOf(in, c), {c})}
  BY DEF MoveOneToSpecial, Enrolled
<1>5. Akin(was, k, in)
  BY <1>1, EnrolledKin
<1> HIDE DEF in, out
<1>6. SameKeyboard(out, in)
  BY <1>2, <1>3 DEF Desk, SameKeyboard
<1>7. Heeding(was, k, in)
  BY <1>2, <1>5, <1>6, HeedingSame DEF SameKeyboard
<1>8. Heeding(was, k, Show(in, {c})) /\ Heeding(was, k, FocusSuccessorOf(in, c))
  BY <1>1, <1>7, FieldsHeed, FocusHeeds
<1>9. Heeding(was, k, Hide(FocusSuccessorOf(in, c), {c}))
  BY <1>8, FieldsHeed
<1> QED BY <1>4, <1>7, <1>8, <1>9

\* The family of a member is in the family.
LEMMA FamilyWithin ==
  ASSUME NumClients <= MaxTransientDepth + 1,
         NEW d \in Desk, ParentsLive(d), NEW root \in Client, NEW c \in Family(d, root),
         c \in Client, NEW b \in Family(d, c)
  PROVE  b \in Family(d, root)
<1> DEFINE n == MaxTransientDepth
<1>1. n \in Nat /\ Links = 0 .. n /\ d.live \subseteq Client /\ NoClient \notin Client
  BY NumClientsAssumption DEF MaxTransientDepth, Links, Desk, NoClient, Client
<1>2. CASE b = c
  BY <1>2
<1>3. CASE b # c
  <2>1. b \in d.live /\ b \in Client /\ c \in Ancestors(d, b)
    BY <1>1, <1>3 DEF Family
  <2>2. PICK u : Chain(d, u) /\ u[0] = b /\ Ancestors(d, b) = {u[j] : j \in Links}
    BY <2>1, AncestorsChain
  <2>3. PICK m \in Links : u[m] = c
    BY <2>1, <2>2
  <2>4. m \in Nat /\ m \in 0 .. n
    BY <1>1
  \* below c the chain has no gap
  <2>5. ASSUME NEW j \in 1 .. m, u[j] \in Client
        PROVE  u[j - 1] \in Client /\ u[j] = d.parent[u[j - 1]]
    <3>1. j \in 1 .. n /\ j - 1 \in 0 .. n
      BY <1>1, <2>4
    <3>2. u[j] = IF u[j - 1] = NoClient THEN NoClient ELSE d.parent[u[j - 1]]
      BY <2>2, <3>1 DEF Chain
    <3>3. u[j - 1] \in ClientOrNone
      BY <1>1, <2>2, <3>1 DEF Chain
    <3> QED BY <1>1, <2>5, <3>2, <3>3 DEF ClientOrNone
  <2> DEFINE T == {i \in 0 .. m : u[m - i] \in Client}
             A == {j \in 0 .. m : u[j] \in d.live \cup {c}}
             R == {i \in 0 .. m : u[m - i] \in Family(d, root)}
  <2>6. 0 .. m \subseteq T
    <3>1. 0 \in T
      BY <2>3, <2>4
    <3>2. ASSUME NEW i \in 1 .. m, i - 1 \in T PROVE i \in T
      <4>1. m - (i - 1) \in 1 .. m /\ (m - (i - 1)) - 1 = m - i /\ i \in 0 .. m
        BY <2>4
      <4>2. u[m - (i - 1)] \in Client
        BY <3>2
      <4> QED BY <2>5, <4>1, <4>2
    <3> HIDE DEF T
    <3> QED BY <2>4, <3>1, <3>2, IntervalInduction
  <2>7. \A j \in 0 .. m : u[j] \in Client
    <3> SUFFICES ASSUME NEW j \in 0 .. m PROVE u[j] \in Client
      OBVIOUS
    <3>1. m - j \in 0 .. m /\ m - (m - j) = j
      BY <2>4
    <3> QED BY <2>6, <3>1
  <2>8. 0 .. m \subseteq A
    <3>1. 0 \in A
      BY <2>1, <2>2, <2>4
    <3>2. ASSUME NEW j \in 1 .. m, j - 1 \in A PROVE j \in A
      <4>1. j \in 0 .. m /\ j - 1 \in 0 .. m
        BY <2>4
      <4>2. u[j] = d.parent[u[j - 1]] /\ u[j] \in Client /\ u[j - 1] \in Client
        BY <2>5, <2>7, <4>1
      <4>3. u[j] \in d.live
        BY <1>1, <4>2 DEF ParentsLive
      <4> QED BY <4>1, <4>3
    <3> HIDE DEF A
    <3> QED BY <2>4, <3>1, <3>2, IntervalInduction
  <2>9. 0 .. m \subseteq R
    <3>1. 0 \in R
      BY <2>3, <2>4
    <3>2. ASSUME NEW i \in 1 .. m, i - 1 \in R PROVE i \in R
      <4> DEFINE j == m - i
                 a == u[j]
      <4>1. j + 1 \in 1 .. m /\ (j + 1) - 1 = j /\ j \in 0 .. m /\ m - (i - 1) = j + 1 /\ i \in 0 .. m
        BY <2>4
      <4>2. u[j + 1] \in Family(d, root)
        BY <3>2, <4>1
      <4>3. u[j + 1] = d.parent[a] /\ a \in Client /\ a \in d.live \cup {c}
        BY <2>5, <2>7, <2>8, <4>1
      <4> HIDE DEF j, a
      <4>4. a \in Family(d, root)
        BY <4>2, <4>3, FamilyDown
      <4> QED BY <4>1, <4>4 DEF j, a
    <3> HIDE DEF R
    <3> QED BY <2>4, <3>1, <3>2, IntervalInduction
  <2>10. m \in 0 .. m /\ m - m = 0
    BY <2>4
  <2> QED BY <2>2, <2>9, <2>10
<1> QED BY <1>2, <1>3

\* Bringing a window to the workspace on screen takes the keyboard from nobody.
LEMMA MoveHereHeeds ==
  ASSUME NEW was, NEW d, Good(was, d), NEW c \in Client
  PROVE  SameKeyboard(d, MoveOneToWorkspace(d, c, d.current))
<1> DEFINE w     == d.current
           grown == Grown(d, w)
           out   == LeaveSpecial(grown, c)
           home  == Homed(out, c, w)
<1>1. w \in Workspace /\ ~TooFar(w)
  BY MaxWorkspacesAssumption DEF Good, Desk, Workspace, TooFar
<1>2. MoveOneToWorkspace(d, c, w) \in {grown, Show(home, {c}), home}
  BY <1>1 DEF MoveOneToWorkspace
<1>3. Good(was, grown) /\ grown \in Desk /\ SameKeyboard(d, grown)
  BY <1>1, FiledKeyboard, GrownGood DEF Good
<1> HIDE DEF grown
<1>4. out \in Desk /\ SameKeyboard(grown, out)
  BY <1>3, FiledKeyboard, LeaveSpecialGood DEF Good
<1> HIDE DEF out
<1>5. home \in Desk /\ SameKeyboard(out, home)
  BY <1>1, <1>4, FiledKeyboard DEF Homed, Desk
<1> HIDE DEF home
<1>6. SameKeyboard(home, Show(home, {c}))
  BY <1>5 DEF Show, Desk, SameKeyboard
<1> QED BY <1>2, <1>3, <1>4, <1>5, <1>6 DEF SameKeyboard

\* A dialog that comes back from its icon blocks its family again, and takes the
\* keyboard; a dialog of its own that refuses it was there before, and blocked
\* them already.
LEMMA DeminiaturizeOneHeeds ==
  ASSUME NEW was, NEW k, NEW d, Heeding(was, k, d), NEW c \in d.live
  PROVE  Heeding(was, k, DeminiaturizeOne(d, c))
<1> DEFINE i == [d EXCEPT !.minimized = d.minimized \ {c}]
           up == MoveOneToWorkspace(i, c, d.current)
           e == Show(up, {c})
<1>0. /\ Akin(was, k, d) /\ Good(was, d) /\ d \in Desk /\ c \in Client /\ {c} \in SUBSET Client
      /\ d.minimized \ {c} \in SUBSET d.live
      /\ d.current \in Nat /\ NoClient \notin Client
  <2>1. Akin(was, k, d) /\ Good(was, d) /\ d \in Desk /\ d.live \subseteq Client /\ d.current \in Nat
    BY MaxWorkspacesAssumption DEF Heeding, Akin, Good, Desk, Workspace
  <2>2. d.minimized \subseteq d.live
    BY <2>1 DEF Good
  <2>3. NoClient \notin Client
    BY NumClientsAssumption DEF NoClient, Client
  <2> QED BY <2>1, <2>2, <2>3
<1>1. CASE c \notin d.minimized
  BY <1>1 DEF DeminiaturizeOne
<1>2. CASE c \in d.minimized
  <2>1. Plain(d)
    BY <1>2 DEF Heeding, Calm
  <2>2. Akin(was, k, i) /\ Good(was, i)
    BY <1>0, IconsKin DEF Akin
  <2>3. /\ i.focused = d.focused /\ i.noFocus = d.noFocus /\ i.minimized = d.minimized \ {c}
        /\ i.current = d.current /\ i.live = d.live /\ SameKin(d, i) /\ i \in Desk
    BY <1>0, <2>2 DEF Good, Desk, SameKin
  <2>4. DeminiaturizeOne(d, c) = FocusClient(e, c)
    BY <1>2 DEF DeminiaturizeOne
  <2> HIDE DEF i
  <2>5. Akin(was, k, up) /\ SameKeyboard(i, up) /\ SameKin(i, up) /\ Placed(up, c) /\ up.live = d.live
    BY <1>0, <2>2, <2>3, MoveOneToWorkspaceKin, MoveHereHeeds, MoveHereIs
  <2> HIDE DEF up
  <2>6. up \in Desk /\ SamePlaces(up, e) /\ SameKeyboard(up, e) /\ SameKin(up, e)
    BY <2>5, KinIsKept DEF Akin, Good, Desk, Show, SamePlaces, SameKeyboard
  <2>7. Akin(was, k, e) /\ e \in Desk
    BY <1>0, <2>5, ShowKin DEF Akin, Good
  <2> HIDE DEF e
  <2>8. /\ SameKin(d, e) /\ e.live = d.live /\ e.minimized = d.minimized \ {c}
        /\ e.focused = d.focused /\ e.noFocus = {}
    BY <2>1, <2>3, <2>5, <2>6 DEF SameKin, SamePlaces, SameKeyboard, Plain
  <2>9. c \in Focusable(e)
    <3>1. Placed(e, c)
      BY <2>5, <2>6 DEF SamePlaces, Placed
    <3> QED BY <2>8, <3>1 DEF Focusable, OnScreen, Normal
  <2>10. Plain(e) /\ Calm(e)
    BY <2>1, <2>8 DEF Plain, ParentsLive, Calm, SameKin
  <2>11. Akin(was, k, FocusClient(e, c))
    BY <2>7, FocusKin
  <2> DEFINE t == FocusTarget(e, c)
             f == FocusOn(e, t)
             b == ModalBlocker(e, c)
             g == d.focused
  <2>12. FocusClient(e, c) = f /\ t = IF b = NoClient THEN c ELSE b
    BY DEF FocusClient, FocusTarget, OrElse
  <2>13. CASE t \in Focusable(e)
    <3>1. Heeded(k, FocusClient(e, c))
      BY <2>7, <2>13, TakenHeeds
    <3> HIDE DEF t
    <3>2. SameLook(e, f) /\ SameKin(e, f)
      BY <2>7, FocusOnIs
    <3> HIDE DEF f
    <3>3. Calm(f)
      BY <2>10, <3>2, CalmSame DEF SameLook, SamePlaces, SameKin
    <3> QED BY <2>4, <2>11, <2>12, <3>1, <3>3 DEF Heeding
  <2>14. CASE t \notin Focusable(e)
    <3>1. f = e /\ b # NoClient
      <4>1. FocusOn(e, t) = e
        BY <2>14 DEF FocusOn
      <4> QED BY <2>9, <2>12, <2>14, <4>1
    <3>2. b \in (Family(e, c) \ {c}) \cap Normal(e) \cap e.modal \cap Elements(e.order)
      BY <2>7, <3>1, BlockerIs
    <3> HIDE DEF b, t, f
    <3>3. Heeded(k, e)
      <4> SUFFICES ASSUME g \notin {k.focused, NoClient} \cup d.modal,
                          ModalBlocker(d, g) = NoClient, ModalBlocker(e, g) # NoClient
                   PROVE  FALSE
        BY <2>8 DEF Heeding, Heeded, SameKin
      <4> DEFINE x == ModalBlocker(e, g)
      <4>1. x \in (Family(e, g) \ {g}) \cap Normal(e) \cap e.modal \cap Elements(e.order)
        BY <2>7, BlockerIs
      <4>2. (Family(d, g) \ {g}) \cap Normal(d) \cap d.modal \cap Elements(d.order) = {}
        BY <1>0, BlockerIs
      <4> HIDE DEF x
      <4>3. Family(e, g) = Family(d, g) /\ Family(e, c) = Family(d, c)
        BY <2>8 DEF SameKin, Family, Ancestors
      <4>4. Normal(e) = Normal(d) \cup {c} /\ c \notin Normal(d)
        BY <1>2, <2>8 DEF Normal
      <4>5. x = c
        BY <2>8, <4>1, <4>2, <4>3, <4>4 DEF SameKin
      <4>6. c \in Family(d, g) /\ b \in Family(d, c) /\ b \in Normal(d) /\ b \in d.modal
            /\ b \in Elements(d.order)
        BY <2>8, <3>2, <4>1, <4>3, <4>4, <4>5 DEF SameKin
      <4>7. g \in Client
        BY <1>0 DEF Desk, ClientOrNone
      <4>8. b \in Family(d, g)
        BY <1>0, <2>1, <4>6, <4>7, FamilyWithin DEF Plain
      <4> QED BY <4>2, <4>6, <4>8
    <3> QED BY <2>4, <2>7, <2>10, <2>12, <3>1, <3>3 DEF Heeding
  <2> QED BY <2>13, <2>14
<1> QED BY <1>1, <1>2

\* So a round of a family loop heeds the dialogs, and the loop does.
LEMMA ForFamilyHeeds ==
  ASSUME NEW op \in Ops, op = ToIcon => "minimize" \in Gestures,
         NEW was, NEW k, NEW d, Heeding(was, k, d), NEW c \in was.live
  PROVE  Heeding(was, k, ForFamily(op, d, c))
<1> DEFINE V == {e \in Desk : Heeding(was, k, e)}
<1>1. \A e : e \in V <=> Heeding(was, k, e)
  BY DEF Heeding, Akin, Good
<1> HIDE DEF V
<1>2. ASSUME NEW e \in V, NEW a \in was.live PROVE Step(op, e, a) \in V
  <2>1. Heeding(was, k, e) /\ a \in e.live /\ a \in Client
    BY <1>1, <1>2 DEF Heeding, Akin, Good, Desk, SameSession
  <2>2. CASE op = ToIcon
    <3>1. Step(op, e, a) = MiniaturizeOne(e, a)
      BY <2>2 DEF Step, ToIcon
    <3> QED BY <1>1, <2>1, <2>2, <3>1, MiniaturizeOneHeeds
  <2>3. CASE op = FromIcon
    BY <1>1, <2>1, <2>3, DeminiaturizeOneHeeds DEF Step, FromIcon
  <2>4. ASSUME NEW w \in Nat, op = ToWorkspace(w) PROVE Step(op, e, a) \in V
    <3>1. Step(op, e, a) = MoveOneToWorkspace(e, a, w)
      BY <2>4 DEF Step, ToWorkspace
    <3> QED BY <1>1, <2>1, <3>1, MoveOneToWorkspaceHeeds
  <2>5. ASSUME NEW s \in SpecialNames, op = ToSpecial(s) PROVE Step(op, e, a) \in V
    <3>1. Step(op, e, a) = MoveOneToSpecial(e, a, s)
      BY <2>5 DEF Step, ToSpecial
    <3> QED BY <1>1, <2>1, <3>1, MoveOneToSpecialHeeds
  <2> QED BY <2>2, <2>3, <2>4, <2>5 DEF Ops
<1>3. FamilyOrder(d, c) \in Seq(was.live)
  <2>1. d \in Desk /\ d.live = was.live
    BY DEF Heeding, Akin, Good, SameSession
  <2> QED BY <2>1, FamilyOrderType
<1>4. d \in V
  BY <1>1
<1>5. ForFamily(op, d, c) \in V
  BY <1>2, <1>3, <1>4, ForEachKeeps DEF ForFamily
<1> QED BY <1>1, <1>5

\* Where windows are sent decides nothing about the dialogs.
LEMMA SendingIsNoIcon ==
  /\ \A w \in Nat : ToWorkspace(w) \in Ops /\ ToWorkspace(w) # ToIcon
  /\ \A s \in SpecialNames : ToSpecial(s) \in Ops /\ ToSpecial(s) # ToIcon
  /\ FromIcon \in Ops /\ FromIcon # ToIcon
<1>1. \A w : ToWorkspace(w).kind = "workspace"
  BY DEF ToWorkspace
<1>2. \A s : ToSpecial(s).kind = "special"
  BY DEF ToSpecial
<1>3. ToIcon.kind = "miniaturize" /\ FromIcon.kind = "deminiaturize"
  BY DEF ToIcon, FromIcon
<1> QED BY <1>1, <1>2, <1>3 DEF Ops

LEMMA MoveToSpecialHeeds ==
  ASSUME NEW was, NEW k, NEW d, Heeding(was, k, d), NEW c \in was.live, NEW s \in SpecialNames, NEW follow
  PROVE  Heeding(was, k, MoveToSpecial(d, c, s, follow))
<1> DEFINE made == Create(d, s)
           moved == ForFamily(ToSpecial(s), made, c)
<1>1. Heeding(was, k, made)
  BY FieldsHeed
<1>2. MoveToSpecial(d, c, s, follow) \in {moved, FocusClient(ShowSpecial(moved, s), c)}
  BY DEF MoveToSpecial, Followed
<1> HIDE DEF made
<1>3. Heeding(was, k, moved)
  BY <1>1, SendingIsNoIcon, ForFamilyHeeds
<1> HIDE DEF moved
<1>4. Heeding(was, k, ShowSpecial(moved, s))
  BY <1>3, ShowSpecialHeeds
<1>5. Heeding(was, k, FocusClient(ShowSpecial(moved, s), c))
  BY <1>4, FocusHeeds
<1> QED BY <1>2, <1>3, <1>5

\* So does a switch of workspace.
LEMMA SwitchToHeeds ==
  ASSUME NEW was, NEW k, NEW d, Heeding(was, k, d), NEW w \in Nat, NEW arriving
  PROVE  Heeding(was, k, SwitchTo(d, w, arriving))
<1> DEFINE bare == IF HideSpecialOnSwitch THEN HideSpecial(d) ELSE d
           grown == Grown(bare, w)
           there == Entered(bare, w)
           drawn == Redrawn(there)
<1>1. CASE TooFar(w) \/ w = d.current
  BY <1>1 DEF SwitchTo
<1>2. CASE ~(TooFar(w) \/ w = d.current)
  <2>1. w \in Workspace /\ Heeding(was, k, bare)
    BY <1>2, InRange, HideSpecialHeeds
  <2>2. SwitchTo(d, w, arriving) = KeyboardFor(drawn, arriving)
    BY <1>2 DEF SwitchTo
  <2> HIDE DEF bare
  <2>3. grown \in Desk /\ SameKeyboard(bare, grown)
    BY <2>1, GrownKin, FiledKeyboard DEF Heeding, Akin, Good
  <2>4. Akin(was, k, there) /\ there \in Desk
    BY <2>1, EnteredKin DEF Heeding, Akin, Good
  <2>5. there = [grown EXCEPT !.previous = bare.current, !.current = w]
    BY DEF Entered
  <2> HIDE DEF grown, there
  <2>6. SameKeyboard(grown, there)
    BY <2>3, <2>5 DEF Desk, SameKeyboard
  <2>7. Akin(was, k, drawn)
    BY <2>4, RedrawnGood, FieldsKin DEF Akin, SameKin, Good
  <2>8. SameKeyboard(there, drawn)
    BY <2>4 DEF Redrawn, Desk, SameKeyboard
  <2> HIDE DEF drawn
  <2>9. Heeding(was, k, drawn)
    BY <2>1, <2>3, <2>6, <2>7, <2>8, HeedingSame DEF SameKeyboard
  <2>10. KeyboardFor(drawn, arriving) \in
          {drawn, FocusClient(drawn, arriving), FocusSuccessorOf(drawn, drawn.focused),
           FocusIfAny(drawn, Successor(drawn, NoClient))}
    BY DEF KeyboardFor
  <2> QED BY <2>2, <2>9, <2>10, FocusHeeds
<1> QED BY <1>1, <1>2

\* So does the removal of one.
LEMMA WithoutWorkspaceHeeds ==
  ASSUME NEW was, NEW k, NEW d, Heeding(was, k, d), d.count > 1, NEW w \in Nat, w < d.count
  PROVE  Heeding(was, k, WithoutWorkspace(d, w))
<1> DEFINE merged == Merged(d, w)
           joined == Show(merged, Revealed(d, merged))
<1>1. Akin(was, k, merged) /\ d \in Desk
  BY MergedGood, FieldsKin DEF Heeding, Akin, SameKin, Good
<1>2. SameKeyboard(d, merged)
  BY <1>1 DEF Merged, Desk, SameKeyboard
<1>3. Revealed(d, merged) \in SUBSET Client
  BY <1>1 DEF Revealed, Normal, Desk
<1>4. WithoutWorkspace(d, w) \in {joined, FocusIfAny(joined, Successor(joined, NoClient))}
  BY DEF WithoutWorkspace, FocusSomebody
<1> HIDE DEF merged
<1>5. Heeding(was, k, merged)
  BY <1>1, <1>2, HeedingSame
<1>6. Heeding(was, k, joined)
  BY <1>3, <1>5, FieldsHeed
<1> HIDE DEF joined
<1> QED BY <1>4, <1>6, FocusHeeds

LEMMA BroughtHeeds ==
  ASSUME NEW was, NEW k, NEW d, Heeding(was, k, d), NEW c
  PROVE  Heeding(was, k, Brought(d, c))
<1>1. CASE c \notin Normal(d) \/ Placed(d, c)
  BY <1>1 DEF Brought
<1>2. CASE ~(c \notin Normal(d) \/ Placed(d, c))
  <2>1. c \in Client /\ d \in Desk
    BY <1>2 DEF Normal, Heeding, Akin, Good, Desk
  <2>2. d.workspace[c] \in Nat /\ d.special[c] \in SpecialOrNone
    BY <2>1, MaxWorkspacesAssumption DEF Desk, Workspace
  <2>3. Heeding(was, k, SwitchTo(d, d.workspace[c], c))
    BY <2>2, SwitchToHeeds
  <2>4. d.special[c] # NoSpecial => Heeding(was, k, ShowSpecial(d, d.special[c]))
    BY <2>2, ShowSpecialHeeds DEF SpecialOrNone
  <2>5. Brought(d, c) = IF d.special[c] # NoSpecial THEN ShowSpecial(d, d.special[c])
                        ELSE SwitchTo(d, d.workspace[c], c)
    BY <1>2 DEF Brought
  <2> QED BY <2>3, <2>4, <2>5
<1> QED BY <1>1, <1>2

\* So does an activation, a family brought back from its icon included.
LEMMA PresentedHeeds ==
  ASSUME NEW was, NEW k, NEW d, Heeding(was, k, d), NEW c
  PROVE  Heeding(was, k, Presented(d, c))
<1> DEFINE e == Restored(d, c)
           t == FocusTarget(e, c)
<1>1. Heeding(was, k, e)
  <2>1. CASE c \in d.minimized
    <3>1. c \in was.live
      BY <2>1 DEF Heeding, Akin, Good, SameSession
    <3> QED BY <2>1, <3>1, SendingIsNoIcon, ForFamilyHeeds DEF Restored
  <2>2. CASE c \notin d.minimized
    BY <2>2 DEF Restored
  <2> QED BY <2>1, <2>2
<1>2. Presented(d, c) = FocusClient(Brought(e, t), c)
  BY DEF Presented, BringIntoView
<1> HIDE DEF e, t
<1>3. Heeding(was, k, Brought(e, t))
  BY <1>1, BroughtHeeds
<1> QED BY <1>2, <1>3, FocusHeeds

LEMMA ActivateClientHeeds ==
  ASSUME NEW was, NEW k, NEW d, Heeding(was, k, d), NEW c \in Client
  PROVE  Heeding(was, k, ActivateClient(d, c))
<1> DEFINE u == d.urgent \cup {c}
           asked == [d EXCEPT !.urgent = u]
<1>1. u \in SUBSET Client /\ d \in Desk /\ Akin(was, k, d)
  BY DEF Heeding, Akin, Good, Desk
<1>2. ActivateClient(d, c) \in {d, asked, Presented(d, c)}
  BY DEF ActivateClient
<1> HIDE DEF u
<1>3. Akin(was, k, asked) /\ SameKeyboard(d, asked)
  BY <1>1, UrgentGood, FieldsKin DEF Akin, SameKin, Desk, SameKeyboard
<1> HIDE DEF asked
<1>4. Heeding(was, k, asked)
  BY <1>3, HeedingSame
<1> QED BY <1>2, <1>4, PresentedHeeds

\* So does settling a fresh window.
LEMMA SettledHeeds ==
  ASSUME NEW was, NEW k, NEW d, Heeding(was, k, d), NEW c \in was.live, NEW p \in ClientOrNone,
         NEW target \in RuleTarget
  PROVE  Heeding(was, k, Settled(d, c, p, target))
<1>0. d \in Desk /\ c \in d.live
  BY DEF Heeding, Akin, Good, SameSession
<1>1. /\ target.kind \in {"inherit", "numbered", "special"}
      /\ target.kind = "numbered" => target.to \in Nat
      /\ target.kind = "special" => target.to \in SpecialNames
  BY DEF RuleTarget
<1>2. CASE target.kind = "numbered"
  <2> DEFINE moved == ForFamily(ToWorkspace(target.to), d, c)
  <2>1. target.to \in Nat
    BY <1>1, <1>2
  <2>2. Heeding(was, k, moved)
    BY <2>1, SendingIsNoIcon, ForFamilyHeeds
  <2>3. Settled(d, c, p, target) \in {moved, SwitchTo(moved, target.to, c)}
    BY <1>2 DEF Settled
  <2> HIDE DEF moved
  <2> QED BY <2>1, <2>2, <2>3, SwitchToHeeds
<1>3. CASE target.kind = "special" /\ CanCreate(d, target.to)
  <2>1. Settled(d, c, p, target) = MoveToSpecial(d, c, target.to, ~target.silent)
    BY <1>3 DEF Settled
  <2> QED BY <1>1, <1>3, <2>1, MoveToSpecialHeeds
<1>4. CASE ~(target.kind = "numbered" \/ (target.kind = "special" /\ CanCreate(d, target.to)))
  <2>1. Settled(d, c, p, target) = Inherited(d, c, p)
    BY <1>4 DEF Settled
  <2>2. p # NoClient /\ d.special[p] # NoSpecial => d.special[p] \in SpecialNames
    BY <1>0 DEF Desk, SpecialOrNone, ClientOrNone
  <2> QED BY <1>0, <2>1, <2>2, MoveOneToSpecialHeeds DEF Inherited
<1> QED BY <1>2, <1>3, <1>4

\* What the switcher session does leaves the keyboard as it is.
LEMMA CycleKeyboard ==
  ASSUME NEW d \in Desk, NEW delta, NEW c
  PROVE  /\ SameKeyboard(d, CycleBy(d, delta)) /\ SameKeyboard(d, CycleClosed(d))
         /\ SameKeyboard(d, CycleWithout(d, c))
<1>1. \A x : /\ SameKeyboard(d, [d EXCEPT !.cycle = x])
             /\ \A y : SameKeyboard(d, [d EXCEPT !.cycle = x, !.grabbed = y])
  BY DEF Desk, SameKeyboard
<1>2. \A session : SameKeyboard(d, Turned(d, session, delta))
  BY <1>1 DEF Turned, SameKeyboard
<1>3. SameKeyboard(d, CycleBy(d, delta))
  BY <1>2 DEF CycleBy
<1>4. SameKeyboard(d, CycleClosed(d))
  BY <1>1 DEF CycleClosed
<1>5. SameKeyboard(d, CycleWithout(d, c))
  <2> DEFINE order == Without(d.cycle.order, c)
             selected == IF d.cycle.selected > Len(order) - 1 THEN Len(order) - 1
                         ELSE d.cycle.selected
             session == [d.cycle EXCEPT !.order = order, !.selected = selected]
             e == [d EXCEPT !.cycle = session]
  <2>1. d.cycle \in CycleSession
    BY DEF Desk
  <2>2. CASE ~d.cycle.open
    BY <2>2 DEF CycleWithout, SameKeyboard
  <2>3. CASE order = <<>> /\ d.cycle.open
    BY <1>4, <2>3 DEF CycleWithout
  <2>4. CASE order # <<>> /\ d.cycle.open
    <3>1. CycleWithout(d, c) = e
      <4> HIDE DEF order
      <4> QED BY <2>1, <2>4 DEF CycleWithout, order, Desk, CycleSession
    <3> HIDE DEF session
    <3> QED BY <1>1, <3>1
  <2> QED BY <2>2, <2>3, <2>4
<1> QED BY <1>3, <1>4, <1>5

\* A good record heeds itself, and a step heeds wm when it heeds a record in
\* which nobody has the keyboard who has not got it in wm.
LEMMA HeedingAlone ==
  ASSUME NEW was, NEW d, Good(was, d), Calm(d)
  PROVE  Heeding(was, d, d)
  BY DEF Heeding, Akin, SameKin, Heeded

LEMMA HeededFrom ==
  ASSUME NEW d, NEW k, k.focused \in {d.focused, NoClient}, NEW e, Heeded(k, e)
  PROVE  Heeded(d, e)
  BY DEF Heeded

\* What a session of the switcher does with the record afterwards.
LEMMA CycleHeeds ==
  ASSUME NEW k, NEW d \in Desk, Heeded(k, d), Calm(d), NEW delta, NEW c
  PROVE  /\ Heeded(k, CycleBy(d, delta)) /\ Calm(CycleBy(d, delta))
         /\ Heeded(k, CycleClosed(d)) /\ Calm(CycleClosed(d))
         /\ Heeded(k, CycleWithout(d, c)) /\ Calm(CycleWithout(d, c))
<1>1. ASSUME NEW e, SameKin(d, e), SamePlaces(d, e), SameKeyboard(d, e)
      PROVE  Heeded(k, e) /\ Calm(e)
  <2>1. ModalBlocker(e, e.focused) = ModalBlocker(d, d.focused)
    BY <1>1, BlockerSame DEF SamePlaces, SameKeyboard
  <2>2. Calm(e)
    BY <1>1, CalmSame DEF SameKin, SamePlaces, SameKeyboard
  <2> QED BY <1>1, <2>1, <2>2 DEF Heeded, SameKin, SameKeyboard
<1>2. Heeded(k, CycleBy(d, delta)) /\ Calm(CycleBy(d, delta))
  BY <1>1, CycleKin, CycleSame, CycleKeyboard
<1>3. Heeded(k, CycleClosed(d)) /\ Calm(CycleClosed(d))
  BY <1>1, CycleKin, CycleSame, CycleKeyboard
<1>4. Heeded(k, CycleWithout(d, c)) /\ Calm(CycleWithout(d, c))
  BY <1>1, CycleKin, CycleSame, CycleKeyboard
<1> QED BY <1>2, <1>3, <1>4

LEMMA CycleCommittedHeeds ==
  ASSUME NEW was, NEW d, Good(was, d), Calm(d)
  PROVE  Heeded(d, CycleCommitted(d)) /\ Calm(CycleCommitted(d))
<1> DEFINE closed == CycleClosed(d)
<1>1. d \in Desk /\ Good(closed, closed)
  BY CycleClosedGood DEF Good
<1>2. CycleCommitted(d) = Presented(closed, d.cycle.order[d.cycle.selected + 1])
  BY DEF CycleCommitted
<1>3. Calm(closed) /\ closed.focused = d.focused
  <2>1. Heeded(d, d)
    BY DEF Heeded
  <2> QED BY <1>1, <2>1, CycleHeeds, CycleSame
<1> HIDE DEF closed
<1>4. Heeding(closed, closed, CycleCommitted(d))
  BY <1>1, <1>2, <1>3, HeedingAlone, PresentedHeeds
<1> QED BY <1>3, <1>4, HeededFrom DEF Heeding

\* So does the arrival of a window.
LEMMA MapClientHeeds ==
  ASSUME NEW was, NEW d, Good(was, d), Honest(d), Calm(d), NEW c \in Client \ d.live,
         NEW p \in d.live \cup {NoClient}, NEW modal \in BOOLEAN, NEW rule \in MapRules
  PROVE  Heeded(d, MapClient(d, c, p, modal, rule)) /\ Calm(MapClient(d, c, p, modal, rule))
<1> DEFINE fresh == Fresh(d, c, p, modal, rule)
           homed == Settled(fresh, c, p, rule.target)
<1>0. rule \in MapRule /\ d \in Desk /\ NoClient \notin Client /\ d.live \subseteq Client
  <2>1. NoClient \notin Client
    BY NumClientsAssumption DEF NoClient, Client
  <2> QED BY <2>1, MapRulesAssumption DEF Good, Desk
<1>1. rule.target \in RuleTarget /\ p \in ClientOrNone
  BY <1>0 DEF MapRule, Desk, ClientOrNone
<1>2. Good(fresh, fresh) /\ c \in fresh.live
  BY <1>0, FreshGood
<1>3. /\ fresh.parent = [d.parent EXCEPT ![c] = p] /\ fresh.live = d.live \cup {c}
      /\ fresh.minimized = d.minimized /\ fresh.focused = d.focused
      /\ fresh.noFocus = IF rule.noFocus THEN d.noFocus \cup {c} ELSE d.noFocus
  BY <1>0 DEF Fresh, Desk
<1>4. MapClient(d, c, p, modal, rule) \in {homed, FocusClient(homed, c)}
  BY DEF MapClient
<1> HIDE DEF fresh
<1>5. Calm(fresh)
  <2>1. ParentsLive(d) => ParentsLive(fresh)
    <3> SUFFICES ASSUME ParentsLive(d), NEW a \in Client
                 PROVE  fresh.parent[a] \in fresh.live \cup {NoClient}
      BY DEF ParentsLive
    <3>1. fresh.parent[a] = IF a = c THEN p ELSE d.parent[a]
      BY <1>0, <1>3 DEF Desk
    <3> QED BY <1>3, <3>1 DEF ParentsLive
  <2> QED BY <1>3, <2>1 DEF Calm, Plain
<1>6. Heeding(fresh, fresh, homed)
  BY <1>1, <1>2, <1>5, HeedingAlone, SettledHeeds
<1> HIDE DEF homed
<1>7. Heeding(fresh, fresh, MapClient(d, c, p, modal, rule))
  BY <1>4, <1>6, FocusHeeds
<1> QED BY <1>3, <1>7, HeededFrom DEF Heeding

\* And the departure of one.
LEMMA ForgottenHeeds ==
  ASSUME NEW was, NEW d, Good(was, d), Calm(d), NEW c \in Client
  PROVE  Heeded(d, Forgotten(d, c)) /\ Calm(Forgotten(d, c))
<1> DEFINE gone    == Erased(d, c)
           settled == IF d.focused = c THEN Inheriting(gone, d.special[c]) ELSE gone
<1>0. d \in Desk
  BY DEF Good
<1>1. Good(gone, gone) /\ gone.live = d.live \ {c}
  BY ErasedGood
<1>2. /\ gone.focused \in {d.focused, NoClient} /\ gone.noFocus = d.noFocus \ {c}
      /\ gone.minimized = d.minimized \ {c}
      /\ \A k \in Client : gone.parent[k] = IF k = c \/ d.parent[k] = c THEN NoClient ELSE d.parent[k]
  BY <1>0 DEF Erased, Desk
<1>3. Forgotten(d, c) = CycleWithout(settled, c)
  BY DEF Forgotten
<1> HIDE DEF gone
<1>4. Calm(gone)
  BY <1>1, <1>2 DEF Calm, Plain, ParentsLive
<1>5. Heeding(gone, gone, settled)
  <2>1. Heeding(gone, gone, gone)
    BY <1>1, <1>4, HeedingAlone
  <2> QED BY <2>1, FocusHeeds DEF Inheriting
<1> HIDE DEF settled
<1>6. settled \in Desk /\ Heeded(d, settled) /\ Calm(settled)
  BY <1>2, <1>5, HeededFrom DEF Heeding, Akin, Good
<1> QED BY <1>3, <1>6, CycleHeeds

\* So do pinning a window, and a new parent.
LEMMA PinnedHeeds ==
  ASSUME NEW was, NEW d, Good(was, d), Calm(d), NEW c \in Client, NEW on \in BOOLEAN
  PROVE  Heeding(was, d, Pinned(d, c, on))
<1> DEFINE sticky == IF on THEN d.sticky \cup {c} ELSE d.sticky \ {c}
           set == [d EXCEPT !.sticky = sticky]
<1>1. sticky \in SUBSET Client /\ d \in Desk
  BY DEF Good, Desk
<1>2. Pinned(d, c, on) \in {d, Hide(FocusSuccessorOf(set, c), {c}), Show(set, {c}), set}
  BY DEF Pinned
<1> HIDE DEF sticky
<1>3. set \in Desk /\ SameRecords(d, set) /\ SameKeyboard(d, set)
  BY <1>1 DEF Desk, SameRecords, SameSession, SameHomes, SameKeyboard
<1>4. SameKin(d, set)
  BY <1>1, FieldsKin
<1> HIDE DEF set
<1>5. Akin(was, d, set) /\ Heeding(was, d, d)
  BY <1>3, <1>4, OtherFields, HeedingAlone DEF Akin
<1>6. Heeding(was, d, set)
  BY <1>3, <1>5, HeedingSame
<1>7. Heeding(was, d, FocusSuccessorOf(set, c))
  BY <1>6, FocusHeeds
<1>8. {c} \in SUBSET Client
  OBVIOUS
<1>9. Heeding(was, d, Hide(FocusSuccessorOf(set, c), {c})) /\ Heeding(was, d, Show(set, {c}))
  BY <1>6, <1>7, <1>8, FieldsHeed
<1> QED BY <1>2, <1>5, <1>6, <1>9

LEMMA ReparentedHeeds ==
  ASSUME NEW was, NEW d, Good(was, d), Calm(d), NEW c \in was.live, NEW p \in d.live \cup {NoClient}
  PROVE  Heeded(d, Reparented(d, c, p)) /\ Calm(Reparented(d, c, p))
<1> DEFINE set == [d EXCEPT !.parent[c] = p]
<1>0. d \in Desk /\ c \in Client /\ p \in ClientOrNone
  BY DEF Good, Desk, SameSession, ClientOrNone
<1>1. Good(was, set) /\ set.focused = d.focused
  BY <1>0, ReparentedKin
<1>2. /\ set.parent = [d.parent EXCEPT ![c] = p] /\ set.live = d.live
      /\ set.minimized = d.minimized /\ set.noFocus = d.noFocus
  BY <1>0 DEF Desk
<1>3. \/ Reparented(d, c, p) = set
      \/ /\ p # NoClient /\ d.special[p] # NoSpecial
         /\ Reparented(d, c, p) = ForFamily(ToSpecial(d.special[p]), set, c)
      \/ p # NoClient /\ Reparented(d, c, p) = ForFamily(ToWorkspace(d.workspace[p]), set, c)
  BY DEF Reparented
<1> HIDE DEF set
<1>4. Calm(set)
  <2>1. ParentsLive(d) => ParentsLive(set)
    <3> SUFFICES ASSUME ParentsLive(d), NEW a \in Client
                 PROVE  set.parent[a] \in set.live \cup {NoClient}
      BY DEF ParentsLive
    <3>1. set.parent[a] = IF a = c THEN p ELSE d.parent[a]
      BY <1>0, <1>2 DEF Desk
    <3> QED BY <1>2, <3>1 DEF ParentsLive
  <2> QED BY <1>2, <2>1 DEF Calm, Plain
<1>5. Heeding(was, set, set)
  BY <1>1, <1>4, HeedingAlone
<1>6. Heeding(was, set, Reparented(d, c, p))
  <2>1. p # NoClient => d.workspace[p] \in Nat /\ d.special[p] \in SpecialOrNone
    BY <1>0, MaxWorkspacesAssumption DEF Desk, Workspace, ClientOrNone
  <2>2. p # NoClient => Heeding(was, set, ForFamily(ToWorkspace(d.workspace[p]), set, c))
    BY <1>5, <2>1, SendingIsNoIcon, ForFamilyHeeds
  <2>3. p # NoClient /\ d.special[p] # NoSpecial =>
          Heeding(was, set, ForFamily(ToSpecial(d.special[p]), set, c))
    BY <1>5, <2>1, SendingIsNoIcon, ForFamilyHeeds DEF SpecialOrNone
  <2> QED BY <1>3, <1>5, <2>2, <2>3
<1> QED BY <1>1, <1>6, HeededFrom DEF Heeding

\* A window that turns modal takes the keyboard itself, or is blocked already.
LEMMA ModalSetHeeds ==
  ASSUME NEW was, NEW d, Good(was, d), Calm(d), NEW c \in Client, NEW on \in BOOLEAN
  PROVE  Heeded(d, ModalSet(d, c, on)) /\ Calm(ModalSet(d, c, on))
<1> DEFINE modal == IF on THEN d.modal \cup {c} ELSE d.modal \ {c}
           set == [d EXCEPT !.modal = IF on THEN @ \cup {c} ELSE @ \ {c}]
<1>1. /\ Good(was, set) /\ SamePlaces(d, set) /\ set.focused = d.focused
      /\ ModalSet(d, c, on) \in {set, FocusClient(set, c)}
  BY ModalSetKin
<1>2. set = [d EXCEPT !.modal = modal] /\ d \in Desk
  BY DEF Good
<1> HIDE DEF set, modal
<1>3. set.parent = d.parent /\ set.noFocus = d.noFocus
  BY <1>2 DEF Desk
<1>4. Calm(set)
  BY <1>1, <1>3, CalmSame DEF SamePlaces
<1>5. Heeding(was, set, set)
  BY <1>1, <1>4, HeedingAlone
<1>6. Heeding(was, set, ModalSet(d, c, on))
  BY <1>1, <1>5, FocusHeeds
<1> QED BY <1>1, <1>6, HeededFrom DEF Heeding

-----------------------------------------------------------------------------
\* Every event heeds the dialogs.
LEMMA DeskEventHeeds ==
  ASSUME IInv, Calm(wm), DeskEvent
  PROVE  Heeded(wm, wm') /\ Calm(wm')
<1>0. Good(wm, wm) /\ wm \in Desk /\ Heeding(wm, wm, wm) /\ Heeded(wm, wm)
  BY HeedingAlone DEF IInv, Good, Heeding
<1>1. ASSUME NEW forward \in BOOLEAN, FocusNext(forward) PROVE Heeding(wm, wm, wm')
  BY <1>0, <1>1, FocusHeeds DEF FocusNext, Dispatched
<1>2. ASSUME NEW w \in 0 .. MaxWorkspaces, SwitchWorkspace(w) \/ RemoveWorkspace(w) \/ CarryFocused(w)
      PROVE  Heeding(wm, wm, wm')
  <2>0. w \in Nat
    BY MaxWorkspacesAssumption
  <2>1. CASE SwitchWorkspace(w)
    BY <1>0, <2>0, <2>1, SwitchToHeeds DEF SwitchWorkspace, Dispatched
  <2>2. CASE RemoveWorkspace(w)
    BY <1>0, <2>0, <2>2, WithoutWorkspaceHeeds DEF RemoveWorkspace, Dispatched
  <2>3. CASE CarryFocused(w)
    <3> DEFINE c == wm.focused
               moved == ForFamily(ToWorkspace(w), wm, c)
               there == SwitchTo(moved, w, NoClient)
    <3>1. c \in wm.live /\ c \in Client
      BY <1>0, <2>3, FocusedLives DEF CarryFocused, Good, Desk
    <3>2. wm' = ActivateClient(there, c)
      BY <2>3 DEF CarryFocused, Dispatched
    <3> HIDE DEF c
    <3>3. Heeding(wm, wm, moved)
      BY <1>0, <2>0, <3>1, SendingIsNoIcon, ForFamilyHeeds
    <3> HIDE DEF moved
    <3>4. Heeding(wm, wm, there)
      BY <2>0, <3>3, SwitchToHeeds
    <3> HIDE DEF there
    <3> QED BY <3>1, <3>2, <3>4, ActivateClientHeeds
  <2> QED BY <1>2, <2>1, <2>2, <2>3
<1>3. CASE SwitchToPrevious
  <2>1. wm.previous \in Nat
    BY <1>0, <1>3, MaxWorkspacesAssumption DEF SwitchToPrevious, Good, Desk
  <2>2. Heeding(wm, wm, wm')
    BY <1>0, <1>3, <2>1, SwitchToHeeds DEF SwitchToPrevious, Dispatched
  <2> QED BY <2>2 DEF Heeding
<1>4. ASSUME NEW delta \in {-1, 1}, SwitchToOccupied(delta) \/ CycleStep(delta)
      PROVE  Heeded(wm, wm') /\ Calm(wm')
  <2>1. CASE SwitchToOccupied(delta)
    <3> DEFINE w == OccupiedStep(wm, delta)
    <3>1. w \in Nat
      BY <1>0, <2>1, OccupiedStepType DEF SwitchToOccupied
    <3>2. wm' = SwitchTo(wm, w, NoClient)
      BY <2>1 DEF SwitchToOccupied, Dispatched
    <3> HIDE DEF w
    <3> QED BY <1>0, <3>1, <3>2, SwitchToHeeds DEF Heeding
  <2>2. CASE CycleStep(delta)
    BY <1>0, <2>2, CycleHeeds DEF CycleStep, Dispatched
  <2> QED BY <1>4, <2>1, <2>2
<1>5. ASSUME NEW s \in SpecialNames, ToggleSpecial(s) PROVE Heeding(wm, wm, wm')
  <2>1. wm' = HideSpecial(wm) \/ wm' = ShowSpecial(Create(wm, s), s)
    BY <1>5 DEF ToggleSpecial, Dispatched
  <2>2. Heeding(wm, wm, HideSpecial(wm)) /\ Heeding(wm, wm, Create(wm, s))
    BY <1>0, HideSpecialHeeds, FieldsHeed
  <2>3. Heeding(wm, wm, ShowSpecial(Create(wm, s), s))
    BY <2>2, ShowSpecialHeeds
  <2> QED BY <2>1, <2>2, <2>3
<1>6. CASE CycleCancel \/ CycleCommit
  BY <1>0, <1>6, CycleHeeds, CycleCommittedHeeds DEF CycleCancel, CycleCommit, Dispatched
<1>7. CASE LockChanges
  BY <1>0, <1>7 DEF LockChanges
<1> QED BY <1>1, <1>2, <1>3, <1>4, <1>5, <1>6, <1>7 DEF DeskEvent, Heeding

LEMMA UserEventHeeds ==
  ASSUME IInv, Calm(wm), NEW c \in Client, UserEvent(c)
  PROVE  Heeding(wm, wm, wm')
<1>0. Good(wm, wm) /\ Heeding(wm, wm, wm)
  BY HeedingAlone DEF IInv, Good
<1>1. CASE Click(c) \/ PointerEnter(c) \/ FocusRequest(c)
  <2>1. wm' \in {FocusClient(wm, FocusTarget(wm, c)), FocusClient(wm, c)}
    BY <1>1 DEF Click, PointerEnter, FocusRequest, Dispatched
  <2> QED BY <1>0, <2>1, FocusHeeds
<1>2. CASE Miniaturize(c) \/ Deminiaturize(c)
  <2>1. ToIcon \in Ops /\ FromIcon \in Ops
    BY DEF Ops
  <2> QED BY <1>0, <1>2, <2>1, ForFamilyHeeds DEF Miniaturize, Deminiaturize, Dispatched
<1>3. ASSUME NEW w \in 0 .. MaxWorkspaces, MoveToWorkspace(c, w) PROVE Heeding(wm, wm, wm')
  <2>1. w \in Nat
    BY MaxWorkspacesAssumption
  <2> QED BY <1>0, <1>3, <2>1, SendingIsNoIcon, ForFamilyHeeds DEF MoveToWorkspace, Dispatched
<1>4. ASSUME NEW s \in SpecialNames, NEW follow \in BOOLEAN, MoveClientToSpecial(c, s, follow)
      PROVE  Heeding(wm, wm, wm')
  BY <1>0, <1>4, MoveToSpecialHeeds DEF MoveClientToSpecial, Dispatched
<1>5. ASSUME NEW on \in BOOLEAN, SetPinned(c, on) PROVE Heeding(wm, wm, wm')
  BY <1>0, <1>5, PinnedHeeds, HeedingAlone DEF SetPinned, Dispatched
<1> QED BY <1>1, <1>2, <1>3, <1>4, <1>5 DEF UserEvent

LEMMA ClientEventHeeds ==
  ASSUME IInv, Calm(wm), NEW c \in Client, ClientEvent(c)
  PROVE  Heeded(wm, wm') /\ Calm(wm')
<1>0. Good(wm, wm) /\ Honest(wm) /\ wm \in Desk /\ Heeding(wm, wm, wm)
  BY HeedingAlone DEF IInv, Good
<1>1. ASSUME NEW p \in ClientOrNone, NEW modal \in BOOLEAN, NEW rule \in MapRules,
             MapRequest(c, p, modal, rule)
      PROVE  Heeded(wm, wm') /\ Calm(wm')
  <2>1. p \in wm.live \cup {NoClient} /\ c \in Client \ wm.live
    BY <1>1 DEF MapRequest, FreshSlot
  <2>2. wm' = MapClient(wm, c, p, modal, rule)
    BY <1>1 DEF MapRequest, Dispatched
  <2> QED BY <1>0, <2>1, <2>2, MapClientHeeds
<1>2. CASE Forget(c)
  BY <1>0, <1>2, ForgottenHeeds DEF Forget, Dispatched
<1>3. CASE Activate(c)
  BY <1>0, <1>3, ActivateClientHeeds DEF Activate, Dispatched, Heeding
<1>4. CASE ChromeChanged(c)
  <2>1. wm' \in {Show(wm, {c}), Hide(wm, {c})}
    BY <1>4 DEF ChromeChanged, Dispatched
  <2>2. {c} \in SUBSET Client
    OBVIOUS
  <2>3. Heeding(wm, wm, Show(wm, {c})) /\ Heeding(wm, wm, Hide(wm, {c}))
    BY <1>0, <2>2, FieldsHeed
  <2>4. Heeding(wm, wm, wm')
    BY <2>1, <2>3
  <2> QED BY <2>4 DEF Heeding
<1>5. ASSUME NEW on \in BOOLEAN, SetUrgent(c, on) PROVE Heeded(wm, wm') /\ Calm(wm')
  <2> DEFINE u == IF on THEN wm.urgent \cup {c} ELSE wm.urgent \ {c}
  <2>1. wm' = [wm EXCEPT !.urgent = u]
    BY <1>5 DEF SetUrgent, Dispatched
  <2> HIDE DEF u
  <2>2. /\ wm'.parent = wm.parent /\ wm'.live = wm.live /\ wm'.minimized = wm.minimized
        /\ wm'.noFocus = wm.noFocus /\ wm'.focused = wm.focused
    BY <1>0, <2>1 DEF Desk
  <2> QED BY <2>2, CalmSame DEF Heeded
<1>6. ASSUME NEW on \in BOOLEAN, ModalChanged(c, on) PROVE Heeded(wm, wm') /\ Calm(wm')
  BY <1>0, <1>6, ModalSetHeeds DEF ModalChanged, Dispatched
<1>7. ASSUME NEW p \in ClientOrNone, ParentChanged(c, p) PROVE Heeded(wm, wm') /\ Calm(wm')
  <2>1. c \in wm.live /\ p \in wm.live \cup {NoClient} /\ wm' = Reparented(wm, c, p)
    BY <1>7 DEF ParentChanged, Dispatched
  <2> QED BY <1>0, <2>1, ReparentedHeeds
<1> QED BY <1>1, <1>2, <1>3, <1>4, <1>5, <1>6, <1>7 DEF ClientEvent

\* Whoever a step gives the keyboard to is a modal dialog or has none of its
\* family above it, whichever of the routes to the keyboard the step took and
\* whatever it brought back from icons on the way, where there are no icons, or
\* where no rule makes a window decline the keyboard and families are no deeper
\* than the code follows them (modal_focus_target, focus_client_with,
\* deminiaturize_one).
THEOREM ModalSafety ==
  ASSUME \/ "minimize" \notin Gestures
         \/ NumClients <= MaxTransientDepth + 1 /\ \A rule \in MapRules : ~rule.noFocus
  PROVE  Spec => ModalKeepsKeyboard
<1> DEFINE CInv == IInv /\ Calm(wm)
<1>1. Init => CInv
  <2>1. Init => Calm(wm)
    BY DEF Init, Calm, Plain, ParentsLive
  <2> QED BY <2>1, InitIInv
<1>2. ASSUME CInv, [Next]_vars PROVE Heeded(wm, wm') /\ Calm(wm')
  <2>1. CASE DeskEvent
    BY <1>2, <2>1, DeskEventHeeds
  <2>2. ASSUME NEW c \in Client, ClientEvent(c) \/ UserEvent(c)
        PROVE  Heeded(wm, wm') /\ Calm(wm')
    BY <1>2, <2>2, ClientEventHeeds, UserEventHeeds DEF Heeding
  <2>3. CASE UNCHANGED vars
    BY <1>2, <2>3 DEF vars, Heeded
  <2> QED BY <1>2, <2>1, <2>2, <2>3 DEF Next
<1>3. CInv /\ [Next]_vars => CInv'
  BY <1>2, NextIInv
<1>4. CInv /\ [Next]_vars =>
        [wm'.focused \notin wm'.modal \cup {wm.focused, NoClient}
           => ModalBlocker(wm', wm'.focused) = NoClient]_vars
  BY <1>2 DEF Heeded
<1> QED BY <1>1, <1>3, <1>4, PTL DEF Spec, ModalKeepsKeyboard
=============================================================================
