------------------------ MODULE WindowManager_proofs ------------------------
(***************************************************************************)
(* Proofs about the window manager, for any number of clients, workspaces  *)
(* and special workspaces and any set of window rules.                     *)
(*                                                                         *)
(* Every handler is a composition of operators on the record, so there is  *)
(* one lemma per operator and the steps only cite them along the           *)
(* composition.  There are three layers:                                   *)
(*                                                                         *)
(*   OpGood  a good record goes in, a good record comes out.  Good joins   *)
(*           what the operators rely on in each other: types, the focus    *)
(*           history, the workspace row, the layout orders of the          *)
(*           specials.  Its first argument, `was', is the record a handler *)
(*           began with, whose clients and switcher session it still has.  *)
(*           With Honest, which is about that session, it is the inductive *)
(*           invariant IInv.                                               *)
(*   OpTidy  on a good record with no ghosts an operator makes none.  Most *)
(*           operators change the place of one window, so SameBut, which   *)
(*           says that two records agree about all the others, does most   *)
(*           of the work.                                                  *)
(*   Restoring  what an activation behind the lock screen may do: each     *)
(*           round of the loop that restores a family puts one window in   *)
(*           view and leaves the others where they were.                   *)
(***************************************************************************)
EXTENDS WindowManager, LoopTheorems, FiniteSetTheorems, TLAPS

\* Every workspace index names a workspace of the row.
RowHolds(d) ==
  /\ d.current < d.count
  /\ d.previous < d.count
  /\ \A c \in Client : d.workspace[c] < d.count

\* A client is in the layout order of the special it belongs to, once, and in
\* no other; a slot nobody fills belongs to none.
MembersHold(d) ==
  /\ \A s \in SpecialNames :
       /\ Distinct(d.members[s])
       /\ \A c \in Client : c \in Elements(d.members[s]) <=> d.special[c] = s
  /\ \A c \in Client \ d.live : d.special[c] = NoSpecial

\* What most handlers never touch.
SameSession(d, e) == e.live = d.live /\ e.cycle = d.cycle /\ e.grabbed = d.grabbed

\* A good record, with the clients and the switcher session that `was' has.
Good(was, d) ==
  /\ d \in Desk
  /\ TrueHistory(d)
  /\ RowHolds(d)
  /\ MembersHold(d)
  /\ d.minimized \subseteq d.live
  /\ SameSession(was, d)

\* Where every window is filed.
SameHomes(d, e) ==
  /\ e.minimized = d.minimized /\ e.workspace = d.workspace
  /\ e.special = d.special /\ e.members = d.members
  /\ e.current = d.current /\ e.previous = d.previous /\ e.count = d.count

\* All that a good record relates to each other.
SameRecords(d, e) ==
  SameSession(d, e) /\ SameHomes(d, e) /\ e.history = d.history /\ e.focused = d.focused

\* A change of other fields leaves the record good.
LEMMA OtherFields ==
  ASSUME NEW was, NEW d, Good(was, d), NEW e \in Desk, SameRecords(d, e)
  PROVE  Good(was, e)
  BY DEF Good, SameRecords, SameSession, SameHomes, TrueHistory, RowHolds, MembersHold

\* So does a change of focus that leaves the history true.
LEMMA FocusFields ==
  ASSUME NEW was, NEW d, Good(was, d), NEW e \in Desk,
         SameSession(d, e), SameHomes(d, e), TrueHistory(e)
  PROVE  Good(was, e)
  BY DEF Good, SameSession, SameHomes, RowHolds, MembersHold

\* So does a change of where windows are filed, when the row and the layout
\* orders hold after it.
LEMMA HomeFields ==
  ASSUME NEW was, NEW d, Good(was, d), NEW e \in Desk,
         SameSession(d, e), e.minimized = d.minimized,
         e.history = d.history, e.focused = d.focused, RowHolds(e), MembersHold(e)
  PROVE  Good(was, e)
  BY DEF Good, SameSession, TrueHistory

\* Mapping windows keeps the record good.
LEMMA ShowGood ==
  ASSUME NEW was, NEW d, Good(was, d), NEW S \in SUBSET Client
  PROVE  Good(was, Show(d, S))
<1>1. Show(d, S) \in Desk
  BY DEF Good, Desk, Show
<1>2. SameRecords(d, Show(d, S))
  BY DEF Good, Desk, SameRecords, SameSession, SameHomes, Show
<1> QED BY <1>1, <1>2, OtherFields

\* Hiding windows keeps the record good.
LEMMA HideGood ==
  ASSUME NEW was, NEW d, Good(was, d), NEW S
  PROVE  Good(was, Hide(d, S))
<1>1. Hide(d, S) \in Desk
  BY DEF Good, Desk, Hide
<1>2. SameRecords(d, Hide(d, S))
  BY DEF Good, Desk, SameRecords, SameSession, SameHomes, Hide
<1> QED BY <1>1, <1>2, OtherFields

\* So does leaving nobody with the keyboard.
LEMMA DropFocusGood ==
  ASSUME NEW was, NEW d, Good(was, d)
  PROVE  Good(was, DropFocus(d))
<1>1. DropFocus(d) \in Desk
  BY DEF Good, Desk, DropFocus, ClientOrNone
<1>2. TrueHistory(DropFocus(d))
  BY DEF Good, Desk, TrueHistory, DropFocus
<1>3. SameSession(d, DropFocus(d)) /\ SameHomes(d, DropFocus(d))
  BY DEF Good, Desk, DropFocus, SameSession, SameHomes
<1> QED BY <1>1, <1>2, <1>3, FocusFields

\* The focused client becomes the newest entry and appears once.
LEMMA RememberedGood ==
  ASSUME NEW h \in Seq(Client), Distinct(h), NEW c \in Client
  PROVE  /\ Remembered(h, c) \in Seq(Client)
         /\ Distinct(Remembered(h, c))
         /\ Elements(Remembered(h, c)) \subseteq Elements(h) \cup {c}
         /\ Remembered(h, c) # <<>>
         /\ Remembered(h, c)[Len(Remembered(h, c))] = c
<1> DEFINE k == Without(h, c)
<1>1. k \in Seq(Client) /\ Elements(k) \subseteq (Client \ {c}) \cap Elements(h) /\ Distinct(k)
  BY KeepElements DEF Without
<1> HIDE DEF k
<1>2. Remembered(h, c) = Append(k, c)
  BY DEF Remembered, k
<1>3. c \notin Elements(k)
  BY <1>1
<1>4. \A i \in 1 .. Len(k) : k[i] # c
  BY <1>1, <1>3 DEF Elements
<1>5. Distinct(Append(k, c))
  BY <1>1, <1>4 DEF Distinct
<1>6. Elements(Append(k, c)) \subseteq Elements(h) \cup {c}
  BY <1>1 DEF Elements
<1> QED BY <1>1, <1>2, <1>5, <1>6

\* Handing the keyboard to a client, whoever it is, keeps the record good.
LEMMA FocusOnGood ==
  ASSUME NEW was, NEW d, Good(was, d), NEW c
  PROVE  Good(was, FocusOn(d, c))
<1> DEFINE e == [d EXCEPT !.focused = c, !.history = Remembered(@, c), !.seat = c, !.urgent = @ \ {c}]
<1>1. CASE c \notin Focusable(d)
  BY <1>1 DEF FocusOn
<1>2. CASE c \in Focusable(d) /\ d.focused = c
  <2>1. c \in Client
    BY <1>2 DEF Focusable, OnScreen, Normal, Good, Desk
  <2>2. FocusOn(d, c) = [d EXCEPT !.seat = c]
    BY <1>2 DEF FocusOn
  <2>3. [d EXCEPT !.seat = c] \in Desk
    BY <2>1 DEF Good, Desk, ClientOrNone
  <2>4. SameRecords(d, [d EXCEPT !.seat = c])
    BY DEF Good, Desk, SameRecords, SameSession, SameHomes
  <2> QED BY <2>2, <2>3, <2>4, OtherFields
<1>3. CASE c \in Focusable(d) /\ d.focused # c
  <2>1. c \in d.live /\ c \in Client
    BY <1>3 DEF Focusable, OnScreen, Normal, Good, Desk
  <2>2. FocusOn(d, c) = e
    BY <1>3 DEF FocusOn
  <2> DEFINE h == Remembered(d.history, c)
  <2>3. /\ h \in Seq(Client) /\ Distinct(h) /\ Elements(h) \subseteq Elements(d.history) \cup {c}
        /\ h # <<>> /\ h[Len(h)] = c
    BY <2>1, RememberedGood DEF Good, Desk, TrueHistory
  <2> HIDE DEF h
  <2>4. e = [d EXCEPT !.focused = c, !.history = h, !.seat = c, !.urgent = d.urgent \ {c}]
    BY DEF h
  <2>5. e \in Desk
    BY <2>1, <2>3, <2>4, ZenonT(60) DEF Good, Desk, ClientOrNone
  <2>6. e.live = d.live /\ e.history = h /\ e.focused = c
    BY <2>4 DEF Good, Desk
  <2>7. TrueHistory(e)
    BY <2>1, <2>3, <2>6 DEF Good, TrueHistory
  <2>8. SameSession(d, e) /\ SameHomes(d, e)
    BY <2>4 DEF Good, Desk, SameSession, SameHomes
  <2> HIDE DEF e
  <2> QED BY <2>2, <2>5, <2>7, <2>8, FocusFields
<1> QED BY <1>1, <1>2, <1>3

\* So does focusing a client through the dialog that blocks it.
LEMMA FocusClientGood ==
  ASSUME NEW was, NEW d, Good(was, d), NEW c
  PROVE  Good(was, FocusClient(d, c))
  BY FocusOnGood DEF FocusClient

\* The keyboard goes to a client, when there is one to take it.
LEMMA FocusIfAnyGood ==
  ASSUME NEW was, NEW d, Good(was, d), NEW c
  PROVE  Good(was, FocusIfAny(d, c))
  BY FocusClientGood DEF FocusIfAny

\* Dropping the focus of one client keeps the record good.
LEMMA DropFocusOfGood ==
  ASSUME NEW was, NEW d, Good(was, d), NEW c
  PROVE  Good(was, DropFocusOf(d, c))
  BY DropFocusGood DEF DropFocusOf

\* The keyboard passes to an heir, or to nobody.
LEMMA HandOverGood ==
  ASSUME NEW was, NEW d, Good(was, d), NEW heir
  PROVE  Good(was, HandOver(d, heir))
  BY FocusClientGood, DropFocusGood DEF HandOver

\* A client that loses the keyboard passes it to its successor.
LEMMA FocusSuccessorOfGood ==
  ASSUME NEW was, NEW d, Good(was, d), NEW c
  PROVE  Good(was, FocusSuccessorOf(d, c))
  BY HandOverGood DEF FocusSuccessorOf

\* The neighbour in the focus order takes the keyboard.
LEMMA FocusAdjacentGood ==
  ASSUME NEW was, NEW d, Good(was, d), NEW forward
  PROVE  Good(was, FocusAdjacent(d, forward))
  BY FocusIfAnyGood DEF FocusAdjacent

\* What a change of focus never touches.
SameScreen(d, e) ==
  /\ SameSession(d, e) /\ SameHomes(d, e)
  /\ e.sticky = d.sticky /\ e.shown = d.shown /\ e.mapped = d.mapped

\* Whoever is given the keyboard, no window moves, shows or hides.
LEMMA FocusOnSame ==
  ASSUME NEW d \in Desk, NEW c
  PROVE  SameScreen(d, FocusOn(d, c))
<1> DEFINE h == Remembered(d.history, c)
           u == d.urgent \ {c}
           e == [d EXCEPT !.focused = c, !.history = h, !.seat = c, !.urgent = u]
<1>1. FocusOn(d, c) \in {d, [d EXCEPT !.seat = c], e}
  BY DEF FocusOn
<1> HIDE DEF h, u
<1>2. SameScreen(d, d) /\ SameScreen(d, [d EXCEPT !.seat = c]) /\ SameScreen(d, e)
  BY DEF Desk, SameScreen, SameSession, SameHomes
<1> QED BY <1>1, <1>2

\* Nor when it is dropped, or handed over by any of the routes there are.
LEMMA FocusSame ==
  ASSUME NEW d \in Desk, NEW c, NEW forward
  PROVE  /\ SameScreen(d, FocusClient(d, c))
         /\ SameScreen(d, FocusIfAny(d, c))
         /\ SameScreen(d, DropFocusOf(d, c))
         /\ SameScreen(d, FocusSuccessorOf(d, c))
         /\ SameScreen(d, FocusAdjacent(d, forward))
<1>1. SameScreen(d, d) /\ SameScreen(d, DropFocus(d))
  BY DEF Desk, SameScreen, SameSession, SameHomes, DropFocus
<1>2. \A k : SameScreen(d, FocusClient(d, k))
  BY FocusOnSame DEF FocusClient
<1>3. \A k : SameScreen(d, FocusIfAny(d, k)) /\ SameScreen(d, HandOver(d, k))
  BY <1>1, <1>2 DEF FocusIfAny, HandOver
<1>4. SameScreen(d, DropFocusOf(d, c)) /\ SameScreen(d, FocusSuccessorOf(d, c))
  BY <1>1, <1>3 DEF DropFocusOf, FocusSuccessorOf
<1>5. SameScreen(d, FocusAdjacent(d, forward))
  BY <1>3 DEF FocusAdjacent
<1> QED BY <1>2, <1>3, <1>4, <1>5

\* The members of an overlay leave the screen, and the keyboard with them.
LEMMA HideMembersGood ==
  ASSUME NEW was, NEW d, Good(was, d), NEW s
  PROVE  Good(was, HideMembers(d, s))
<1> DEFINE hidden == Hide(d, LiveMembers(d, s))
<1>1. Good(was, hidden) /\ Good(was, FocusSuccessorOf(hidden, d.focused))
  BY HideGood, FocusSuccessorOfGood
<1> HIDE DEF hidden
<1>2. HideMembers(d, s) \in {hidden, FocusSuccessorOf(hidden, d.focused)}
  BY DEF HideMembers, hidden
<1> QED BY <1>1, <1>2

\* Another overlay, or none, becomes the one on screen.
LEMMA ShownGood ==
  ASSUME NEW was, NEW d, Good(was, d), NEW s \in SpecialOrNone
  PROVE  Good(was, [d EXCEPT !.shown = s])
<1>1. [d EXCEPT !.shown = s] \in Desk
  BY DEF Good, Desk
<1>2. SameRecords(d, [d EXCEPT !.shown = s])
  BY DEF Good, Desk, SameRecords, SameSession, SameHomes
<1> QED BY <1>1, <1>2, OtherFields

\* Dismissing the overlay on screen keeps the record good.
LEMMA HideSpecialGood ==
  ASSUME NEW was, NEW d, Good(was, d)
  PROVE  Good(was, HideSpecial(d))
<1>1. NoSpecial \in SpecialOrNone
  BY DEF SpecialOrNone
<1>2. Good(was, HideMembers([d EXCEPT !.shown = NoSpecial], d.shown))
  BY <1>1, ShownGood, HideMembersGood
<1> QED BY <1>2 DEF HideSpecial

\* An overlay's members are put on screen.
LEMMA ShowMembersGood ==
  ASSUME NEW was, NEW d, Good(was, d), NEW s
  PROVE  Good(was, ShowMembers(d, s))
<1>1. LiveMembers(d, s) \in SUBSET Client
  BY DEF LiveMembers, Normal, Good, Desk
<1> QED BY <1>1, ShowGood DEF ShowMembers

\* Summoning an overlay dismisses the other one, shows its members and gives
\* the keyboard to the one the user was last in.
LEMMA ShowSpecialGood ==
  ASSUME NEW was, NEW d, Good(was, d), NEW s \in SpecialNames
  PROVE  Good(was, ShowSpecial(d, s))
<1> DEFINE here == [d EXCEPT !.shown = s]
           free == IF d.shown \in {NoSpecial, s} THEN here ELSE HideMembers(here, d.shown)
<1>1. Good(was, here)
  BY ShownGood DEF SpecialOrNone
<1>2. Good(was, free)
  BY <1>1, HideMembersGood
<1>3. ShowSpecial(d, s) = FocusMember(ShowMembers(free, s), s)
  BY DEF ShowSpecial
<1> HIDE DEF free
<1>4. Good(was, ShowMembers(free, s))
  BY <1>2, ShowMembersGood
<1> QED BY <1>3, <1>4, FocusIfAnyGood DEF FocusMember

\* A special workspace comes to exist.
LEMMA CreateGood ==
  ASSUME NEW was, NEW d, Good(was, d), NEW s \in SpecialNames
  PROVE  Good(was, Create(d, s))
<1>1. Create(d, s) \in Desk
  BY DEF Good, Desk, Create
<1>2. SameRecords(d, Create(d, s))
  BY DEF Good, Desk, SameRecords, SameSession, SameHomes, Create
<1> QED BY <1>1, <1>2, OtherFields

\* Without takes out one client and leaves the others in their order.
LEMMA WithoutIs ==
  ASSUME NEW q \in Seq(Client), NEW c
  PROVE  /\ Without(q, c) \in Seq(Client)
         /\ Elements(Without(q, c)) = Elements(q) \ {c}
         /\ Distinct(q) => Distinct(Without(q, c))
<1>1. Elements(q) \subseteq Client
  BY DEF Elements
<1> QED BY <1>1, KeepElements, KeepAll DEF Without

\* A client appended to an order it was not in is in it once.
LEMMA AppendIs ==
  ASSUME NEW q \in Seq(Client), NEW c \in Client, c \notin Elements(q), Distinct(q)
  PROVE  /\ Append(q, c) \in Seq(Client)
         /\ Elements(Append(q, c)) = Elements(q) \cup {c}
         /\ Distinct(Append(q, c))
<1> DEFINE n == Len(q)
           r == Append(q, c)
<1>1. /\ n \in Nat /\ r \in Seq(Client) /\ DOMAIN q = 1 .. n /\ DOMAIN r = 1 .. (n + 1)
      /\ r[n + 1] = c /\ \A i \in 1 .. n : r[i] = q[i]
  OBVIOUS
<1> HIDE DEF n, r
<1>2. \A i \in 1 .. n : q[i] # c
  BY <1>1 DEF Elements
<1>3. \A i \in 1 .. (n + 1) : i \in 1 .. n \/ i = n + 1
  BY <1>1
<1>4. n + 1 \in 1 .. (n + 1) /\ \A i \in 1 .. n : i \in 1 .. (n + 1)
  BY <1>1
<1>5. Elements(r) = Elements(q) \cup {c}
  BY <1>1, <1>3, <1>4 DEF Elements
<1>6. Distinct(r)
  BY <1>1, <1>2, <1>3 DEF Distinct
<1> QED BY <1>1, <1>5, <1>6 DEF r

\* What a client that leaves its special workspace does not touch.
LEMMA LeaveSpecialSame ==
  ASSUME NEW d \in Desk, NEW c \in Client
  PROVE  LET e == LeaveSpecial(d, c) IN
         /\ SameSession(d, e)
         /\ e.special = [d.special EXCEPT ![c] = NoSpecial]
         /\ e.minimized = d.minimized /\ e.workspace = d.workspace
         /\ e.current = d.current /\ e.previous = d.previous /\ e.count = d.count
         /\ e.history = d.history /\ e.focused = d.focused
         /\ e.sticky = d.sticky /\ e.shown = d.shown /\ e.mapped = d.mapped
  BY DEF LeaveSpecial, Desk, SameSession

\* A client leaves its special and that special's layout order.
LEMMA LeaveSpecialGood ==
  ASSUME NEW was, NEW d, Good(was, d), NEW c \in Client
  PROVE  Good(was, LeaveSpecial(d, c))
<1>1. CASE d.special[c] = NoSpecial
  BY <1>1 DEF LeaveSpecial
<1>2. CASE d.special[c] # NoSpecial
  <2> DEFINE s == d.special[c]
             left == Without(d.members[s], c)
             special == [d.special EXCEPT ![c] = NoSpecial]
             members == [d.members EXCEPT ![s] = left]
             e == [d EXCEPT !.special = special, !.members = members]
  <2>1. s \in SpecialNames
    BY <1>2 DEF Good, Desk, SpecialOrNone
  <2>2. d.members[s] \in Seq(Client) /\ Distinct(d.members[s])
    BY <2>1 DEF Good, Desk, MembersHold
  <2>3. left \in Seq(Client) /\ Distinct(left) /\ Elements(left) = Elements(d.members[s]) \ {c}
    BY <2>2, WithoutIs
  <2>4. LeaveSpecial(d, c) = e
    BY <1>2 DEF LeaveSpecial, Good, Desk
  <2> HIDE DEF left
  <2>5. special \in [Client -> SpecialOrNone] /\ members \in [SpecialNames -> Seq(Client)]
    BY <2>1, <2>3 DEF Good, Desk, SpecialOrNone
  <2>6. /\ \A r \in SpecialNames : members[r] = IF r = s THEN left ELSE d.members[r]
        /\ \A k \in Client : special[k] = IF k = c THEN NoSpecial ELSE d.special[k]
    BY <2>1 DEF Good, Desk
  <2> HIDE DEF special, members
  <2>7. e \in Desk
    BY <2>5 DEF Good, Desk
  <2>8. /\ e.special = special /\ e.members = members /\ e.live = d.live
        /\ e.workspace = d.workspace /\ e.count = d.count
        /\ e.current = d.current /\ e.previous = d.previous
    BY DEF Good, Desk
  <2>9. SameSession(d, e) /\ e.minimized = d.minimized /\ e.history = d.history /\ e.focused = d.focused
    BY DEF Good, Desk, SameSession
  <2> HIDE DEF e
  <2>10. RowHolds(e)
    BY <2>8 DEF Good, RowHolds
  <2>11. MembersHold(e)
    <3>1. MembersHold(d) /\ NoSpecial \notin SpecialNames
      BY NoSpecialAssumption DEF Good
    <3>2. ASSUME NEW r \in SpecialNames
          PROVE  Distinct(members[r]) /\ \A k \in Client : k \in Elements(members[r]) <=> special[k] = r
      <4>1. CASE r = s
        BY <4>1, <3>1, <2>3, <2>6 DEF MembersHold
      <4>2. CASE r # s
        BY <4>2, <3>1, <2>6 DEF MembersHold
      <4> QED BY <4>1, <4>2
    <3>3. \A k \in Client \ d.live : special[k] = NoSpecial
      BY <3>1, <2>6 DEF MembersHold
    <3> QED BY <3>2, <3>3, <2>8 DEF MembersHold
  <2> QED BY <2>4, <2>7, <2>9, <2>10, <2>11, HomeFields
<1> QED BY <1>1, <1>2

\* Which of the living windows are icons is free.
LEMMA IconsGood ==
  ASSUME NEW was, NEW d, Good(was, d), NEW S \in SUBSET d.live
  PROVE  Good(was, [d EXCEPT !.minimized = S])
<1> DEFINE e == [d EXCEPT !.minimized = S]
<1>1. e \in Desk
  BY DEF Good, Desk
<1>2. /\ e.minimized = S /\ SameSession(d, e)
      /\ e.workspace = d.workspace /\ e.special = d.special /\ e.members = d.members
      /\ e.current = d.current /\ e.previous = d.previous /\ e.count = d.count
      /\ e.history = d.history /\ e.focused = d.focused
  BY DEF Good, Desk, SameSession
<1> HIDE DEF e
<1>3. TrueHistory(e) /\ RowHolds(e)
  BY <1>2 DEF Good, SameSession, TrueHistory, RowHolds
<1>4. MembersHold(e)
  BY <1>2 DEF Good, SameSession, MembersHold
<1>5. e.minimized \subseteq e.live /\ SameSession(was, e)
  BY <1>2 DEF Good, SameSession
<1> QED BY <1>1, <1>3, <1>4, <1>5 DEF Good, e

\* One client becomes an icon.
LEMMA MiniaturizeOneGood ==
  ASSUME NEW was, NEW d, Good(was, d), NEW c
  PROVE  Good(was, MiniaturizeOne(d, c))
<1> DEFINE e == [d EXCEPT !.minimized = @ \cup {c}]
<1>1. CASE c \notin Normal(d)
  BY <1>1 DEF MiniaturizeOne
<1>2. CASE c \in Normal(d)
  <2>1. d.minimized \cup {c} \in SUBSET d.live
    BY <1>2 DEF Good, Normal
  <2>2. Good(was, e)
    BY <2>1, IconsGood
  <2> HIDE DEF e
  <2>3. Good(was, FocusSuccessorOf(Hide(e, {c}), c))
    BY <2>2, HideGood, FocusSuccessorOfGood
  <2> QED BY <1>2, <2>3 DEF MiniaturizeOne, e
<1> QED BY <1>1, <1>2

\* A workspace in range is a workspace.
LEMMA InRange ==
  ASSUME NEW w \in Nat, ~TooFar(w)
  PROVE  w \in Workspace
  BY MaxWorkspacesAssumption DEF TooFar, Workspace

\* The row grows to hold a workspace in range.
LEMMA GrownGood ==
  ASSUME NEW was, NEW d, Good(was, d), NEW w \in Workspace
  PROVE  Good(was, Grown(d, w))
<1> DEFINE n == IF w + 1 > d.count THEN w + 1 ELSE d.count
           e == [d EXCEPT !.count = n]
<1>1. n \in 1 .. MaxWorkspaces
  BY MaxWorkspacesAssumption DEF Workspace, Good, Desk
<1>2. Grown(d, w) = e
  BY DEF Grown
<1>3. n >= d.count
  <2>1. d.count \in Int /\ w \in Int
    BY MaxWorkspacesAssumption DEF Good, Desk, Workspace
  <2> QED BY <2>1
<1> HIDE DEF n
<1>4. e \in Desk
  BY <1>1 DEF Good, Desk
<1>5. /\ SameSession(d, e) /\ e.minimized = d.minimized /\ e.history = d.history
      /\ e.focused = d.focused /\ e.special = d.special /\ e.members = d.members
      /\ e.current = d.current /\ e.previous = d.previous /\ e.workspace = d.workspace
      /\ e.count = n
  BY DEF Good, Desk, SameSession
<1> HIDE DEF e
<1>6. RowHolds(e)
  <2>1. /\ d.current \in Int /\ d.previous \in Int /\ d.count \in Int /\ n \in Int
        /\ \A c \in Client : d.workspace[c] \in Int
    BY <1>1, MaxWorkspacesAssumption DEF Good, Desk, Workspace, NoWorkspace
  <2> QED BY <1>3, <1>5, <2>1 DEF Good, RowHolds
<1>7. MembersHold(e)
  BY <1>5 DEF Good, MembersHold, SameSession
<1> QED BY <1>2, <1>4, <1>5, <1>6, <1>7, HomeFields

\* The grown row holds the workspace, and nothing else has changed.
LEMMA GrownIs ==
  ASSUME NEW d \in Desk, NEW w \in Workspace
  PROVE  LET e == Grown(d, w) IN
         /\ w < e.count /\ SameSession(d, e)
         /\ e.special = d.special /\ e.minimized = d.minimized /\ e.workspace = d.workspace
         /\ e.current = d.current /\ e.members = d.members
         /\ e.sticky = d.sticky /\ e.shown = d.shown /\ e.mapped = d.mapped
<1> DEFINE n == IF w + 1 > d.count THEN w + 1 ELSE d.count
<1>1. w \in Int /\ d.count \in Int
  BY MaxWorkspacesAssumption DEF Desk, Workspace
<1>2. w < n
  BY <1>1
<1>3. Grown(d, w) = [d EXCEPT !.count = n]
  BY DEF Grown
<1> HIDE DEF n
<1> QED BY <1>2, <1>3 DEF Desk, SameSession

\* A client is filed on a workspace of the row.
LEMMA HomedGood ==
  ASSUME NEW was, NEW d, Good(was, d), NEW c \in Client, NEW w \in Workspace, w < d.count
  PROVE  Good(was, Homed(d, c, w))
<1> DEFINE homes == [d.workspace EXCEPT ![c] = w]
           e == [d EXCEPT !.workspace = homes]
<1>1. Homed(d, c, w) = e
  BY DEF Homed
<1>2. /\ homes \in [Client -> Workspace]
      /\ \A k \in Client : homes[k] = IF k = c THEN w ELSE d.workspace[k]
  BY DEF Good, Desk
<1> HIDE DEF homes
<1>3. e \in Desk
  BY <1>2 DEF Good, Desk
<1>4. /\ SameSession(d, e) /\ e.minimized = d.minimized /\ e.history = d.history
      /\ e.focused = d.focused /\ e.special = d.special /\ e.members = d.members
      /\ e.current = d.current /\ e.previous = d.previous /\ e.workspace = homes
      /\ e.count = d.count
  BY DEF Good, Desk, SameSession
<1> HIDE DEF e
<1>5. RowHolds(e)
  BY <1>2, <1>4 DEF Good, RowHolds
<1>6. MembersHold(e)
  BY <1>4 DEF Good, MembersHold, SameSession
<1> QED BY <1>1, <1>3, <1>4, <1>5, <1>6, HomeFields

\* A client is sent to a workspace that is not on screen.
LEMMA SentAwayGood ==
  ASSUME NEW was, NEW d, Good(was, d), NEW c \in Client, NEW w \in Workspace, w < d.count
  PROVE  Good(was, SentAway(d, c, w))
<1> DEFINE given == IF d.focused = c THEN FocusAdjacent(d, TRUE) ELSE d
<1>1. Good(was, given)
  BY FocusAdjacentGood
<1>2. w < given.count
  BY FocusSame DEF Good, SameScreen, SameHomes
<1>3. SentAway(d, c, w) = DropFocusOf(Hide(Homed(given, c, w), {c}), c)
  BY DEF SentAway
<1> HIDE DEF given
<1> QED BY <1>1, <1>2, <1>3, HomedGood, HideGood, DropFocusOfGood

\* One client moves to a workspace, by any of the routes the code takes.
LEMMA MoveOneToWorkspaceGood ==
  ASSUME NEW was, NEW d, Good(was, d), NEW c \in Client, NEW w \in Nat
  PROVE  Good(was, MoveOneToWorkspace(d, c, w))
<1>1. CASE TooFar(w)
  BY <1>1 DEF MoveOneToWorkspace
<1>2. CASE ~TooFar(w)
  <2> DEFINE grown == Grown(d, w)
             out   == LeaveSpecial(grown, c)
             home  == Homed(out, c, w)
  <2>1. w \in Workspace /\ Good(was, grown)
    BY <1>2, InRange, GrownGood
  <2>6. w < grown.count
    BY <2>1, GrownIs DEF Good
  <2> HIDE DEF grown
  <2>2. Good(was, out)
    BY <2>1, LeaveSpecialGood
  <2>7. w < out.count
    BY <2>1, <2>6, LeaveSpecialSame DEF Good
  <2> HIDE DEF out
  <2>3. Good(was, home) /\ Good(was, SentAway(out, c, w))
    BY <2>1, <2>2, <2>7, HomedGood, SentAwayGood
  <2> HIDE DEF home
  <2>4. Good(was, Show(home, {c}))
    BY <2>3, ShowGood
  <2>5. MoveOneToWorkspace(d, c, w) \in {grown, SentAway(out, c, w), Show(home, {c}), home}
    BY <1>2 DEF MoveOneToWorkspace, grown, out, home
  <2> QED BY <2>1, <2>3, <2>4, <2>5
<1> QED BY <1>1, <1>2

\* A client enters another special, and that special's layout order, last.
Enrolled(d, c, s) ==
  [LeaveSpecial(d, c) EXCEPT !.special[c] = s, !.members[s] = Append(@, c)]

\* The record stays good: it is in that order once, having left its old one.
LEMMA EnrolledGood ==
  ASSUME NEW was, NEW d, Good(was, d), NEW c \in d.live, NEW s \in SpecialNames
  PROVE  Good(was, Enrolled(d, c, s))
<1> DEFINE out == LeaveSpecial(d, c)
           in  == [out EXCEPT !.special[c] = s, !.members[s] = Append(@, c)]
<1>3. Enrolled(d, c, s) = in
  BY DEF Enrolled
<1>0. c \in Client
  BY DEF Good, Desk
<1>1. Good(was, out) /\ out.special[c] = NoSpecial /\ out.live = d.live
  <2>1. d \in Desk /\ Good(was, out)
    BY <1>0, LeaveSpecialGood DEF Good
  <2>2. out.live = d.live /\ out.special = [d.special EXCEPT ![c] = NoSpecial]
    BY ONLY <1>0, <2>1, LeaveSpecialSame DEF SameSession
  <2>3. d.special \in [Client -> SpecialOrNone]
    BY <2>1 DEF Desk
  <2> HIDE DEF out
  <2> QED BY <1>0, <2>1, <2>2, <2>3
<1> HIDE DEF out
<1>2. Good(was, in)
  <2> DEFINE longer == Append(out.members[s], c)
             special == [out.special EXCEPT ![c] = s]
             members == [out.members EXCEPT ![s] = longer]
             e == [out EXCEPT !.special = special, !.members = members]
  <2>1. in = e
    BY <1>1 DEF Good, Desk
  <2>2. out.members[s] \in Seq(Client) /\ Distinct(out.members[s]) /\ c \notin Elements(out.members[s])
    BY <1>0, <1>1, NoSpecialAssumption DEF Good, Desk, MembersHold
  <2>3. longer \in Seq(Client) /\ Distinct(longer) /\ Elements(longer) = Elements(out.members[s]) \cup {c}
    BY <1>0, <2>2, AppendIs
  <2> HIDE DEF longer
  <2>4. special \in [Client -> SpecialOrNone] /\ members \in [SpecialNames -> Seq(Client)]
    BY <1>0, <1>1, <2>3 DEF Good, Desk, SpecialOrNone
  <2>5. /\ \A r \in SpecialNames : members[r] = IF r = s THEN longer ELSE out.members[r]
        /\ \A k \in Client : special[k] = IF k = c THEN s ELSE out.special[k]
    BY <1>0, <1>1 DEF Good, Desk
  <2> HIDE DEF special, members
  <2>6. e \in Desk
    BY <1>1, <2>4 DEF Good, Desk
  <2>7. /\ e.special = special /\ e.members = members /\ e.live = out.live
        /\ e.workspace = out.workspace /\ e.count = out.count
        /\ e.current = out.current /\ e.previous = out.previous
    BY <1>1 DEF Good, Desk
  <2>8. /\ SameSession(out, e) /\ e.minimized = out.minimized
        /\ e.history = out.history /\ e.focused = out.focused
    BY <1>1 DEF Good, Desk, SameSession
  <2> HIDE DEF e
  <2>9. RowHolds(e)
    BY <1>1, <2>7 DEF Good, RowHolds
  <2>10. MembersHold(e)
    <3>1. MembersHold(out) /\ NoSpecial \notin SpecialNames /\ c \in out.live
      BY <1>1, NoSpecialAssumption DEF Good
    <3>2. ASSUME NEW r \in SpecialNames
          PROVE  Distinct(members[r]) /\ \A k \in Client : k \in Elements(members[r]) <=> special[k] = r
      <4>1. CASE r = s
        BY <4>1, <3>1, <2>3, <2>5 DEF MembersHold
      <4>2. CASE r # s
        BY <4>2, <3>1, <1>1, <2>5 DEF MembersHold
      <4> QED BY <4>1, <4>2
    <3>3. \A k \in Client \ out.live : special[k] = NoSpecial
      BY <3>1, <2>5 DEF MembersHold
    <3> QED BY <3>2, <3>3, <2>7 DEF MembersHold
  <2> QED BY <1>1, <2>1, <2>6, <2>8, <2>9, <2>10, HomeFields
<1> QED BY <1>2, <1>3

\* One client moves to a special workspace, on screen or not.
LEMMA MoveOneToSpecialGood ==
  ASSUME NEW was, NEW d, Good(was, d), NEW c \in d.live, NEW s \in SpecialNames
  PROVE  Good(was, MoveOneToSpecial(d, c, s))
<1> DEFINE out == LeaveSpecial(d, c)
           in  == [out EXCEPT !.special[c] = s, !.members[s] = Append(@, c)]
<1>0. c \in Client
  BY DEF Good, Desk
<1>1. Good(was, out) /\ out.special[c] = NoSpecial /\ out.live = d.live
  <2>1. d \in Desk /\ Good(was, out)
    BY <1>0, LeaveSpecialGood DEF Good
  <2>2. out.live = d.live /\ out.special = [d.special EXCEPT ![c] = NoSpecial]
    BY ONLY <1>0, <2>1, LeaveSpecialSame DEF SameSession
  <2>3. d.special \in [Client -> SpecialOrNone]
    BY <2>1 DEF Desk
  <2> HIDE DEF out
  <2> QED BY <1>0, <2>1, <2>2, <2>3
<1> HIDE DEF out
<1>2. Good(was, in)
  BY EnrolledGood DEF Enrolled, out
<1> HIDE DEF in
<1>3. Good(was, Show(in, {c})) /\ Good(was, Hide(FocusSuccessorOf(in, c), {c}))
  BY <1>0, <1>2, ShowGood, HideGood, FocusSuccessorOfGood
<1>4. MoveOneToSpecial(d, c, s) \in {d, Show(in, {c}), in, Hide(FocusSuccessorOf(in, c), {c})}
  BY DEF MoveOneToSpecial, in, out
<1> QED BY <1>2, <1>3, <1>4

\* One client comes back from its icon, to the workspace on screen.
LEMMA DeminiaturizeOneGood ==
  ASSUME NEW was, NEW d, Good(was, d), NEW c \in Client
  PROVE  Good(was, DeminiaturizeOne(d, c))
<1> DEFINE e  == [d EXCEPT !.minimized = @ \ {c}]
           up == MoveOneToWorkspace(e, c, d.current)
<1>1. d.minimized \ {c} \in SUBSET d.live
  BY DEF Good
<1>2. Good(was, e)
  BY <1>1, IconsGood
<1>0. d.current \in Nat
  BY MaxWorkspacesAssumption DEF Good, Desk, Workspace
<1> HIDE DEF e
<1>3. Good(was, up)
  BY <1>0, <1>2, MoveOneToWorkspaceGood
<1> HIDE DEF up
<1>4. Good(was, FocusClient(Show(up, {c}), c))
  BY <1>3, ShowGood, FocusClientGood
<1>5. DeminiaturizeOne(d, c) \in {d, FocusClient(Show(up, {c}), c)}
  BY DEF DeminiaturizeOne, up, e
<1> QED BY <1>4, <1>5

-----------------------------------------------------------------------------
(* The loops over a family.                                                 *)

Ops == {ToIcon, FromIcon} \cup {ToWorkspace(w) : w \in Nat}
                          \cup {ToSpecial(s) : s \in SpecialNames}

\* One round of a family loop, whichever the operation.
LEMMA StepGood ==
  ASSUME NEW op \in Ops, NEW was, NEW d, Good(was, d), NEW c \in was.live
  PROVE  Good(was, Step(op, d, c))
<1>0. c \in Client /\ c \in d.live
  BY DEF Good, Desk, SameSession
<1>1. CASE op = ToIcon
  <2>1. Step(op, d, c) = MiniaturizeOne(d, c)
    BY <1>1 DEF Step, ToIcon
  <2> QED BY <1>0, <2>1, MiniaturizeOneGood
<1>2. CASE op = FromIcon
  <2>1. Step(op, d, c) = DeminiaturizeOne(d, c)
    BY <1>2 DEF Step, FromIcon
  <2> QED BY <1>0, <2>1, DeminiaturizeOneGood
<1>3. ASSUME NEW w \in Nat, op = ToWorkspace(w) PROVE Good(was, Step(op, d, c))
  <2>1. Step(op, d, c) = MoveOneToWorkspace(d, c, w)
    BY <1>3 DEF Step, ToWorkspace
  <2> QED BY <1>0, <1>3, <2>1, MoveOneToWorkspaceGood
<1>4. ASSUME NEW s \in SpecialNames, op = ToSpecial(s) PROVE Good(was, Step(op, d, c))
  <2>1. Step(op, d, c) = MoveOneToSpecial(d, c, s)
    BY <1>4 DEF Step, ToSpecial
  <2> QED BY <1>0, <1>4, <2>1, MoveOneToSpecialGood
<1> QED BY <1>1, <1>2, <1>3, <1>4 DEF Ops

\* A loop whose step never leaves a set of records ends in it.
LEMMA ForEachKeeps ==
  ASSUME NEW op, NEW V, NEW d \in V, NEW L, NEW family \in Seq(L),
         \A e \in V : \A c \in L : Step(op, e, c) \in V
  PROVE  ForEach(op, d, family) \in V
<1> DEFINE n == Len(family)
           Round == [i \in 1 .. n |-> [e \in V |-> Step(op, e, family[i])]]
           Done(f) == f = [i \in 0 .. n |-> IF i = 0 THEN d ELSE Step(op, f[i - 1], family[i])]
<1>1. n \in Nat /\ \A i \in 1 .. n : family[i] \in L
  OBVIOUS
<1> HIDE DEF n
<1>3. \A i \in 1 .. n : \A e \in V : Step(op, e, family[i]) \in V
  BY <1>1
<1>4. d \in V /\ Round \in Bodies(n, V)
  BY <1>3 DEF Bodies
<1>5. PICK g \in Runs(n, V, d, Round) : TRUE
  <2> HIDE DEF Round
  <2> QED BY <1>1, <1>4, RecursionExists
<1>6. Done(g)
  <2>1. g \in [0 .. n -> V] /\ g[0] = d /\ \A i \in 1 .. n : g[i] = Round[i][g[i - 1]]
    BY <1>5 DEF Runs
  <2>2. \A i \in 1 .. n : g[i] = Step(op, g[i - 1], family[i])
    <3> TAKE i \in 1 .. n
    <3>1. i - 1 \in 0 .. n
      BY <1>1
    <3>2. g[i - 1] \in V /\ g[i] = Round[i][g[i - 1]]
      BY <3>1, <2>1
    <3> QED BY <3>2
  <2>3. \A i \in 0 .. n : i # 0 => i \in 1 .. n
    BY <1>1
  <2> QED BY <2>1, <2>2, <2>3
<1> DEFINE f == CHOOSE f : Done(f)
<1>7. Done(f)
  BY <1>6
<1>8. ForEach(op, d, family) = f[n]
  BY DEF ForEach, n
<1> HIDE DEF f
<1> DEFINE T == {i \in 0 .. n : f[i] \in V}
<1>9. 0 \in T
  BY <1>1, <1>4, <1>7
<1>10. ASSUME NEW i \in 1 .. n, i - 1 \in T PROVE i \in T
  <2>1. i \in 0 .. n /\ i # 0 /\ f[i - 1] \in V
    BY <1>10, <1>1
  <2>2. f[i] = Step(op, f[i - 1], family[i])
    BY <2>1, <1>7
  <2> QED BY <2>1, <2>2, <1>3
<1>11. n \in T
  <2>1. n \in 0 .. n
    BY <1>1
  <2> HIDE DEF T
  <2> QED BY <2>1, <1>1, <1>9, <1>10, IntervalInduction
<1> QED BY <1>8, <1>11

\* A loop that does a good step for each member of a family ends well.
LEMMA ForEachGood ==
  ASSUME NEW op \in Ops, NEW was, NEW d, Good(was, d), NEW family \in Seq(was.live)
  PROVE  Good(was, ForEach(op, d, family))
<1> DEFINE V == {e \in Desk : Good(was, e)}
<1>1. \A e : e \in V <=> Good(was, e)
  BY DEF Good
<1> HIDE DEF V
<1>2. \A e \in V : \A c \in was.live : Step(op, e, c) \in V
  BY <1>1, StepGood
<1>3. ForEach(op, d, family) \in V
  BY <1>1, <1>2, ForEachKeeps
<1> QED BY <1>1, <1>3

\* A sequence whose elements are all in a set is a sequence over that set.
LEMMA SeqOfElements ==
  ASSUME NEW E, NEW q \in Seq(E), NEW S, Elements(q) \subseteq S
  PROVE  q \in Seq(S)
<1>1. Len(q) \in Nat /\ q = [i \in 1 .. Len(q) |-> q[i]] /\ DOMAIN q = 1 .. Len(q)
  OBVIOUS
<1>2. \A i \in 1 .. Len(q) : q[i] \in S
  BY <1>1 DEF Elements
<1> QED BY <1>1, <1>2

\* The visiting order of a family of a live client holds live clients only.
LEMMA FamilyOrderType ==
  ASSUME NEW d \in Desk, NEW root \in d.live
  PROVE  FamilyOrder(d, root) \in Seq(d.live)
<1> DEFINE n == NumClients
           V == Seq(d.live)
           Children(c) == {k \in Family(d, root) : d.parent[k] = c}
           Next1(seen, i) == IF i > Len(seen) THEN seen
                             ELSE seen \o Keep(Slots, Children(seen[i]) \ Elements(seen))
           Round == [i \in 1 .. n |-> [seen \in V |-> Next1(seen, i)]]
           Walk(f) == f = [i \in 0 .. n |-> IF i = 0 THEN <<root>> ELSE Next1(f[i - 1], i)]
<1>1. n \in Nat /\ <<root>> \in V
  <2> DEFINE L == d.live
  <2> HIDE DEF L
  <2>1. root \in L => <<root>> \in Seq(L)
    OBVIOUS
  <2> QED BY <2>1, NumClientsAssumption DEF L
<1>2. Slots \in Seq(Client)
  BY NumClientsAssumption DEF Slots, Client
<1>3. \A i \in 1 .. n : \A seen \in V : Next1(seen, i) \in V
  <2> TAKE i \in 1 .. n
  <2> TAKE seen \in V
  <2> DEFINE more == Keep(Slots, Children(seen[i]) \ Elements(seen))
  <2>1. more \in Seq(d.live)
    <3>1. Children(seen[i]) \subseteq d.live
      BY DEF Family
    <3> DEFINE some == Children(seen[i]) \ Elements(seen)
    <3>2. some \subseteq d.live
      BY <3>1
    <3> HIDE DEF some
    <3>3. Keep(Slots, some) \in Seq(Client) /\ Elements(Keep(Slots, some)) \subseteq some
      BY <1>2, KeepElements
    <3>4. Keep(Slots, some) \in Seq(d.live)
      BY <3>2, <3>3, SeqOfElements
    <3> QED BY <3>4 DEF some
  <2> HIDE DEF more
  <2>2. seen \o more \in Seq(d.live)
    BY <2>1
  <2> QED BY <2>2 DEF more
<1> HIDE DEF n, V, Next1
<1>4. Round \in Bodies(n, V)
  BY <1>3 DEF Bodies
<1>5. PICK g \in Runs(n, V, <<root>>, Round) : TRUE
  <2> DEFINE a == <<root>>
  <2>1. a \in V
    BY <1>1
  <2> HIDE DEF Round, a
  <2>2. PICK g \in Runs(n, V, a, Round) : TRUE
    BY <2>1, <1>1, <1>4, RecursionExists
  <2> QED BY <2>2 DEF a
<1>6. Walk(g)
  <2>1. g \in [0 .. n -> V] /\ g[0] = <<root>> /\ \A i \in 1 .. n : g[i] = Round[i][g[i - 1]]
    BY <1>5 DEF Runs
  <2>2. \A i \in 1 .. n : g[i] = Next1(g[i - 1], i)
    <3> TAKE i \in 1 .. n
    <3>1. i - 1 \in 0 .. n
      BY <1>1
    <3>2. g[i - 1] \in V /\ g[i] = Round[i][g[i - 1]]
      BY <3>1, <2>1
    <3> QED BY <3>2
  <2>3. \A i \in 0 .. n : i # 0 => i \in 1 .. n
    BY <1>1
  <2> QED BY <2>1, <2>2, <2>3
<1> DEFINE f == CHOOSE f : Walk(f)
<1>7. Walk(f)
  BY <1>6
<1>8. FamilyOrder(d, root) = f[n]
  BY DEF FamilyOrder, n, Next1
<1> HIDE DEF f
<1> DEFINE T == {i \in 0 .. n : f[i] \in V}
<1>9. 0 \in T
  BY <1>1, <1>7
<1>10. ASSUME NEW i \in 1 .. n, i - 1 \in T PROVE i \in T
  <2>1. i \in 0 .. n /\ i # 0 /\ f[i - 1] \in V
    BY <1>10, <1>1
  <2>2. f[i] = Next1(f[i - 1], i)
    BY <2>1, <1>7
  <2> QED BY <2>1, <2>2, <1>3
<1>11. n \in T
  <2>1. n \in 0 .. n
    BY <1>1
  <2> HIDE DEF T
  <2> QED BY <2>1, <1>1, <1>9, <1>10, IntervalInduction
<1>12. f[n] \in V
  BY <1>11
<1> QED BY <1>8, <1>12 DEF V

\* A family operation keeps the record good.
LEMMA ForFamilyGood ==
  ASSUME NEW op \in Ops, NEW was, NEW d, Good(was, d), NEW c \in was.live
  PROVE  Good(was, ForFamily(op, d, c))
<1>1. FamilyOrder(d, c) \in Seq(was.live)
  <2>1. d \in Desk /\ d.live = was.live
    BY DEF Good, SameSession
  <2> QED BY <2>1, FamilyOrderType
<1> QED BY <1>1, ForEachGood DEF ForFamily

\* A family moves to a special workspace, and the user may follow it.
LEMMA MoveToSpecialGood ==
  ASSUME NEW was, NEW d, Good(was, d), NEW c \in was.live, NEW s \in SpecialNames, NEW follow
  PROVE  Good(was, MoveToSpecial(d, c, s, follow))
<1> DEFINE moved == ForFamily(ToSpecial(s), Create(d, s), c)
<1>1. ToSpecial(s) \in Ops
  BY DEF Ops
<1>2. Good(was, moved)
  BY <1>1, CreateGood, ForFamilyGood
<1>3. MoveToSpecial(d, c, s, follow) = Followed(moved, c, s, follow)
  BY DEF MoveToSpecial
<1> HIDE DEF moved
<1>4. Good(was, FocusClient(ShowSpecial(moved, s), c))
  BY <1>2, ShowSpecialGood, FocusClientGood
<1> QED BY <1>2, <1>3, <1>4 DEF Followed

-----------------------------------------------------------------------------
(* Workspaces.                                                              *)

\* The screen shows another workspace.
LEMMA EnteredGood ==
  ASSUME NEW was, NEW d, Good(was, d), NEW w \in Workspace
  PROVE  Good(was, Entered(d, w))
<1> DEFINE g == Grown(d, w)
           e == [g EXCEPT !.previous = d.current, !.current = w]
<1>1. Good(was, g)
  BY GrownGood
<1>2. Entered(d, w) = e
  BY DEF Entered
<1>3. d.current \in Workspace
  BY DEF Good, Desk
<1>4. w < g.count /\ d.current < g.count
  BY <1>1, GrownIs DEF Good, RowHolds
<1> HIDE DEF g
<1>5. e \in Desk
  BY <1>1, <1>3 DEF Good, Desk
<1>6. /\ SameSession(g, e) /\ e.minimized = g.minimized /\ e.history = g.history
      /\ e.focused = g.focused /\ e.special = g.special /\ e.members = g.members
      /\ e.current = w /\ e.previous = d.current /\ e.workspace = g.workspace
      /\ e.count = g.count
  BY <1>1 DEF Good, Desk, SameSession
<1> HIDE DEF e
<1>7. RowHolds(e)
  BY <1>1, <1>4, <1>6 DEF Good, RowHolds
<1>8. MembersHold(e)
  BY <1>1, <1>6 DEF Good, MembersHold, SameSession
<1> QED BY <1>1, <1>2, <1>5, <1>6, <1>7, <1>8, HomeFields

\* What the workspace holds is mapped, and the rest is hidden.
LEMMA RedrawnGood ==
  ASSUME NEW was, NEW d, Good(was, d)
  PROVE  Good(was, Redrawn(d))
<1> DEFINE m == (d.mapped \ Normal(d)) \cup OnScreen(d)
           e == [d EXCEPT !.mapped = m]
<1>1. m \in SUBSET Client /\ Redrawn(d) = e
  BY DEF Redrawn, OnScreen, Normal, Good, Desk
<1> HIDE DEF m
<1>2. e \in Desk
  BY <1>1 DEF Good, Desk
<1>3. SameRecords(d, e)
  BY DEF Good, Desk, SameRecords, SameSession, SameHomes
<1> QED BY <1>1, <1>2, <1>3, OtherFields

\* After a switch the keyboard stays, or goes to a window in sight.
LEMMA KeyboardForGood ==
  ASSUME NEW was, NEW d, Good(was, d), NEW arriving
  PROVE  Good(was, KeyboardFor(d, arriving))
<1>1. /\ Good(was, FocusClient(d, arriving))
      /\ Good(was, FocusSuccessorOf(d, d.focused))
      /\ Good(was, FocusIfAny(d, Successor(d, NoClient)))
  BY FocusClientGood, FocusSuccessorOfGood, FocusIfAnyGood
<1>2. KeyboardFor(d, arriving) \in
        {d, FocusClient(d, arriving), FocusSuccessorOf(d, d.focused),
         FocusIfAny(d, Successor(d, NoClient))}
  BY DEF KeyboardFor
<1> QED BY <1>1, <1>2

\* A switch of workspace keeps the record good.
LEMMA SwitchToGood ==
  ASSUME NEW was, NEW d, Good(was, d), NEW w \in Nat, NEW arriving
  PROVE  Good(was, SwitchTo(d, w, arriving))
<1>1. CASE TooFar(w) \/ w = d.current
  BY <1>1 DEF SwitchTo
<1>2. CASE ~(TooFar(w) \/ w = d.current)
  <2> DEFINE bare == IF HideSpecialOnSwitch THEN HideSpecial(d) ELSE d
  <2>1. Good(was, bare) /\ w \in Workspace
    BY <1>2, HideSpecialGood, InRange
  <2>2. SwitchTo(d, w, arriving) = KeyboardFor(Redrawn(Entered(bare, w)), arriving)
    BY <1>2 DEF SwitchTo
  <2> HIDE DEF bare
  <2> QED BY <2>1, <2>2, EnteredGood, RedrawnGood, KeyboardForGood
<1> QED BY <1>1, <1>2

\* The index of the neighbouring occupied workspace is an index.
LEMMA OccupiedStepType ==
  ASSUME NEW was, NEW d, Good(was, d), NEW delta \in {-1, 1}, OccupiedStep(d, delta) # NoWorkspace
  PROVE  OccupiedStep(d, delta) \in Nat
<1> DEFINE all == [i \in 1 .. d.count |-> i - 1]
           row == Keep(all, {w \in Workspace : w = d.current \/ HasWindows(d, w)})
           at  == {i \in DOMAIN row : row[i] = d.current}
           k   == (((CHOOSE i \in at : TRUE) - 1 + delta) % Len(row)) + 1
<1>1. all \in Seq(Nat)
  <2>1. d.count \in Nat /\ \A i \in 1 .. d.count : i - 1 \in Nat
    BY MaxWorkspacesAssumption DEF Good, Desk
  <2> QED BY <2>1
<1> HIDE DEF all
<1>2. row \in Seq(Nat)
  BY <1>1, KeepElements
<1>3. OccupiedStep(d, delta) = IF at = {} \/ Len(row) < 2 THEN NoWorkspace ELSE row[k]
  BY DEF OccupiedStep, all
<1> HIDE DEF row
<1>4. at # {} /\ Len(row) >= 2
  <2>1. ~(at = {} \/ Len(row) < 2)
    BY ONLY <1>3, OccupiedStep(d, delta) # NoWorkspace
  <2> QED BY <1>2, <2>1
<1>5. (CHOOSE i \in at : TRUE) \in 1 .. Len(row)
  BY <1>2, <1>4
<1>6. k \in 1 .. Len(row)
  <2> DEFINE j == CHOOSE i \in at : TRUE
  <2>1. j \in 1 .. Len(row) /\ Len(row) \in Nat /\ Len(row) > 0
    BY <1>2, <1>4, <1>5
  <2> HIDE DEF j
  <2>2. (j - 1 + delta) % Len(row) \in 0 .. (Len(row) - 1)
    BY <2>1
  <2> QED BY <2>1, <2>2 DEF j
<1> HIDE DEF k, at
<1>7. row[k] \in Nat
  BY <1>2, <1>6
<1> QED BY <1>3, <1>4, <1>7


\* The index a workspace has after a removal is an index.
LEMMA RemapType ==
  ASSUME NEW w \in Nat, NEW i \in Workspace
  PROVE  Remap(w, i) \in Workspace
  BY MaxWorkspacesAssumption DEF Remap, Workspace

\* An index of the row is, after the removal, an index of the shorter row.
LEMMA RemapBelow ==
  ASSUME NEW n \in 1 .. MaxWorkspaces, n > 1, NEW w \in Nat, w < n, NEW i \in Workspace, i < n
  PROVE  Remap(w, i) < n - 1
  BY MaxWorkspacesAssumption DEF Remap, Workspace

\* The row closes over a workspace that is gone.
LEMMA MergedGood ==
  ASSUME NEW was, NEW d, Good(was, d), d.count > 1, NEW w \in Nat, w < d.count
  PROVE  Good(was, Merged(d, w))
<1> DEFINE p == IF d.previous \in {w, NoWorkspace} THEN NoWorkspace ELSE Remap(w, d.previous)
           homes == [c \in Client |-> Remap(w, d.workspace[c])]
           e == [d EXCEPT !.current = Remap(w, d.current), !.previous = p,
                          !.count = d.count - 1, !.workspace = homes]
<1>1. Merged(d, w) = e
  BY DEF Merged
<1>2. Remap(w, d.current) \in Workspace
  BY RemapType DEF Good, Desk
<1>3. p \in Workspace \cup {NoWorkspace}
  BY RemapType DEF Good, Desk
<1>4. homes \in [Client -> Workspace]
  <2>1. \A c \in Client : d.workspace[c] \in Workspace
    BY DEF Good, Desk
  <2> QED BY <2>1, RemapType
<1>5. d.count - 1 \in 1 .. MaxWorkspaces
  BY MaxWorkspacesAssumption DEF Good, Desk
<1> HIDE DEF p, homes
<1>6. e \in Desk
  BY <1>2, <1>3, <1>4, <1>5 DEF Good, Desk
<1>7. /\ SameSession(d, e) /\ e.minimized = d.minimized /\ e.history = d.history
      /\ e.focused = d.focused /\ e.special = d.special /\ e.members = d.members
      /\ e.current = Remap(w, d.current) /\ e.previous = p /\ e.workspace = homes
      /\ e.count = d.count - 1
  BY DEF Good, Desk, SameSession
<1>8. \A c \in Client : homes[c] = Remap(w, d.workspace[c])
  BY DEF homes
<1>9. p = NoWorkspace \/ (d.previous \in Workspace /\ p = Remap(w, d.previous))
  BY DEF p, Good, Desk
<1> HIDE DEF e
<1>10. RowHolds(e)
  <2>1. ASSUME NEW i \in Workspace, i < d.count PROVE Remap(w, i) < d.count - 1
    BY <2>1, RemapBelow DEF Good, Desk
  <2>2. d.count \in Int /\ NoWorkspace < d.count - 1
    BY MaxWorkspacesAssumption DEF Good, Desk, NoWorkspace
  <2>3. /\ d.current \in Workspace /\ d.current < d.count /\ d.previous < d.count
        /\ \A c \in Client : d.workspace[c] \in Workspace /\ d.workspace[c] < d.count
    BY DEF Good, Desk, RowHolds
  <2> QED BY <1>7, <1>8, <1>9, <2>1, <2>2, <2>3 DEF RowHolds
<1>11. MembersHold(e)
  BY <1>7 DEF Good, MembersHold, SameSession
<1> QED BY <1>1, <1>6, <1>7, <1>10, <1>11, HomeFields

\* Removing a workspace keeps the record good.
LEMMA WithoutWorkspaceGood ==
  ASSUME NEW was, NEW d, Good(was, d), d.count > 1, NEW w \in Nat, w < d.count
  PROVE  Good(was, WithoutWorkspace(d, w))
<1> DEFINE merged == Merged(d, w)
           joined == Show(merged, Revealed(d, merged))
<1>1. Good(was, merged)
  BY MergedGood
<1>2. Revealed(d, merged) \in SUBSET Client
  BY DEF Revealed, Normal, Good, Desk
<1>3. Good(was, joined)
  BY <1>1, <1>2, ShowGood
<1>4. WithoutWorkspace(d, w) = FocusSomebody(joined)
  BY DEF WithoutWorkspace
<1> HIDE DEF merged, joined
<1>5. FocusSomebody(joined) \in {joined, FocusIfAny(joined, Successor(joined, NoClient))}
  BY DEF FocusSomebody
<1> QED BY <1>3, <1>4, <1>5, FocusIfAnyGood

-----------------------------------------------------------------------------
(* Activation and the Alt-Tab session.                                      *)

\* The place of a window that is about to be focused is brought on screen.
LEMMA BroughtGood ==
  ASSUME NEW was, NEW d, Good(was, d), NEW c
  PROVE  Good(was, Brought(d, c))
<1>1. CASE c \notin Normal(d) \/ Placed(d, c)
  BY <1>1 DEF Brought
<1>2. CASE ~(c \notin Normal(d) \/ Placed(d, c))
  <2>1. c \in Client
    BY <1>2 DEF Normal, Good, Desk
  <2>2. d.workspace[c] \in Nat /\ d.special[c] \in SpecialOrNone
    BY <2>1, MaxWorkspacesAssumption DEF Good, Desk, Workspace
  <2>3. Good(was, SwitchTo(d, d.workspace[c], c))
    BY <2>2, SwitchToGood
  <2>4. d.special[c] # NoSpecial => Good(was, ShowSpecial(d, d.special[c]))
    BY <2>2, ShowSpecialGood DEF SpecialOrNone
  <2>5. Brought(d, c) = IF d.special[c] # NoSpecial THEN ShowSpecial(d, d.special[c])
                        ELSE SwitchTo(d, d.workspace[c], c)
    BY <1>2 DEF Brought
  <2> QED BY <2>3, <2>4, <2>5
<1> QED BY <1>1, <1>2

\* The same, for the window that would really get the keyboard.
LEMMA BringIntoViewGood ==
  ASSUME NEW was, NEW d, Good(was, d), NEW c
  PROVE  Good(was, BringIntoView(d, c))
  BY BroughtGood DEF BringIntoView

\* An iconic window is restored with its family.
LEMMA RestoredGood ==
  ASSUME NEW was, NEW d, Good(was, d), NEW c
  PROVE  Good(was, Restored(d, c))
<1>1. CASE c \in d.minimized
  <2>1. c \in was.live /\ FromIcon \in Ops
    BY <1>1 DEF Good, SameSession, Ops
  <2> QED BY <1>1, <2>1, ForFamilyGood DEF Restored
<1>2. CASE c \notin d.minimized
  BY <1>2 DEF Restored
<1> QED BY <1>1, <1>2

\* Attention marks do not touch the history.
LEMMA UrgentGood ==
  ASSUME NEW was, NEW d, Good(was, d), NEW S \in SUBSET Client
  PROVE  Good(was, [d EXCEPT !.urgent = S])
<1> DEFINE e == [d EXCEPT !.urgent = S]
<1>1. e \in Desk
  BY DEF Good, Desk
<1>2. SameRecords(d, e)
  BY DEF Good, Desk, SameRecords, SameSession, SameHomes
<1> QED BY <1>1, <1>2, OtherFields

\* Restore, bring into view and focus.
LEMMA PresentedGood ==
  ASSUME NEW was, NEW d, Good(was, d), NEW c
  PROVE  Good(was, Presented(d, c))
  BY RestoredGood, BringIntoViewGood, FocusClientGood DEF Presented

\* An activation is ignored, deferred as a request for attention, or done.
LEMMA ActivateClientGood ==
  ASSUME NEW was, NEW d, Good(was, d), NEW c \in Client
  PROVE  Good(was, ActivateClient(d, c))
<1> DEFINE asked == [d EXCEPT !.urgent = @ \cup {c}]
<1>1. Good(was, asked)
  <2>1. d.urgent \cup {c} \in SUBSET Client
    BY DEF Good, Desk
  <2> QED BY <2>1, UrgentGood
<1>2. ActivateClient(d, c) \in {d, asked, Presented(d, c)}
  BY DEF ActivateClient, asked
<1> QED BY <1>1, <1>2, PresentedGood

\* A good record is good on its own account.
LEMMA GoodAlone ==
  ASSUME NEW was, NEW d, Good(was, d)
  PROVE  Good(d, d)
  BY DEF Good, SameSession

\* An open session offers living windows only, each once, with a valid
\* selection, and holds the grab.
Honest(d) ==
  /\ d.cycle.open = d.grabbed
  /\ d.cycle.open =>
       /\ d.cycle.selected < Len(d.cycle.order)
       /\ Elements(d.cycle.order) \subseteq d.live
       /\ Distinct(d.cycle.order)

\* A record with the same clients and the same session is as honest.
LEMMA HonestSame ==
  ASSUME NEW d, Honest(d), NEW e, SameSession(d, e)
  PROVE  Honest(e)
  BY DEF Honest, SameSession

\* A good record stays good with another session and grab.
LEMMA CycleGood ==
  ASSUME NEW was, NEW d, Good(was, d), NEW e \in Desk, e.live = d.live,
         SameHomes(d, e), e.history = d.history, e.focused = d.focused
  PROVE  Good(e, e)
  BY DEF Good, SameHomes, SameSession, TrueHistory, RowHolds, MembersHold

\* Closing the session keeps the record good, and is honest.
LEMMA CycleClosedGood ==
  ASSUME NEW was, NEW d, Good(was, d)
  PROVE  Good(CycleClosed(d), CycleClosed(d)) /\ Honest(CycleClosed(d))
<1> DEFINE e == [d EXCEPT !.cycle = NoCycle, !.grabbed = FALSE]
<1>1. NoCycle \in CycleSession /\ NoCycle.open = FALSE
  BY DEF NoCycle, CycleSession
<1>2. CycleClosed(d) = e
  BY DEF CycleClosed
<1>3. e \in Desk
  BY <1>1 DEF Good, Desk
<1>4. /\ e.live = d.live /\ SameHomes(d, e) /\ e.history = d.history /\ e.focused = d.focused
      /\ e.cycle = NoCycle /\ e.grabbed = FALSE
  BY DEF Good, Desk, SameHomes
<1> HIDE DEF e
<1>5. Good(e, e)
  BY <1>3, <1>4, CycleGood
<1>6. Honest(e)
  BY <1>1, <1>4 DEF Honest
<1> QED BY <1>2, <1>5, <1>6

\* Releasing Alt closes the session and presents its selection.
LEMMA CycleCommittedGood ==
  ASSUME NEW was, NEW d, Good(was, d)
  PROVE  Good(CycleCommitted(d), CycleCommitted(d)) /\ Honest(CycleCommitted(d))
<1> DEFINE closed == CycleClosed(d)
<1>1. Good(closed, closed) /\ Honest(closed)
  BY CycleClosedGood
<1>2. CycleCommitted(d) = Presented(closed, d.cycle.order[d.cycle.selected + 1])
  BY DEF CycleCommitted
<1> HIDE DEF closed
<1>3. Good(closed, CycleCommitted(d))
  BY <1>1, <1>2, PresentedGood
<1> QED BY <1>1, <1>3, GoodAlone, HonestSame DEF Good

\* The newest-first reading of an order has the same clients, each once.
LEMMA NewestIs ==
  ASSUME NEW q \in Seq(Client), Distinct(q)
  PROVE  Newest(q) \in Seq(Client) /\ Distinct(Newest(q)) /\ Elements(Newest(q)) = Elements(q)
<1> DEFINE n == Len(q)
           r == Newest(q)
<1>1. n \in Nat /\ DOMAIN q = 1 .. n /\ \A i \in 1 .. n : q[i] \in Client
  OBVIOUS
<1>2. r = [i \in 1 .. n |-> q[n + 1 - i]] /\ \A i \in 1 .. n : n + 1 - i \in 1 .. n
  BY <1>1 DEF Newest
<1>3. /\ r \in Seq(Client) /\ DOMAIN r = 1 .. n
      /\ \A i \in 1 .. n : r[i] = q[n + 1 - i]
  BY <1>1, <1>2
<1> HIDE DEF n, r
<1>4. Distinct(r)
  <2> SUFFICES ASSUME NEW i \in 1 .. n, NEW j \in 1 .. n, r[i] = r[j] PROVE i = j
    BY <1>3 DEF Distinct
  <2>1. q[n + 1 - i] = q[n + 1 - j] /\ n + 1 - i \in 1 .. n /\ n + 1 - j \in 1 .. n
    BY <1>2, <1>3
  <2>2. n + 1 - i = n + 1 - j
    BY <1>1, <2>1 DEF Distinct
  <2> QED BY <1>1, <2>2
<1>5. Elements(r) = Elements(q)
  <2>1. \A i \in 1 .. n : r[n + 1 - i] = q[i]
    <3> TAKE i \in 1 .. n
    <3>1. n + 1 - i \in 1 .. n /\ n + 1 - (n + 1 - i) = i
      BY <1>1
    <3> QED BY <1>3, <3>1
  <2> QED BY <1>1, <1>2, <1>3, <2>1 DEF Elements
<1> QED BY <1>3, <1>4, <1>5 DEF r

\* One order after another, when they share no client, has each of them once.
LEMMA JoinedIs ==
  ASSUME NEW p \in Seq(Client), NEW q \in Seq(Client), Distinct(p), Distinct(q),
         Elements(p) \cap Elements(q) = {}
  PROVE  /\ p \o q \in Seq(Client) /\ Distinct(p \o q)
         /\ Elements(p \o q) \subseteq Elements(p) \cup Elements(q)
<1> DEFINE m == Len(p)
           n == Len(q)
           r == p \o q
<1>1. /\ m \in Nat /\ n \in Nat /\ DOMAIN p = 1 .. m /\ DOMAIN q = 1 .. n
      /\ r \in Seq(Client) /\ DOMAIN r = 1 .. (m + n)
      /\ \A i \in 1 .. m : r[i] = p[i]
  OBVIOUS
<1>2. \A i \in 1 .. (m + n) : i \in 1 .. m \/ (i - m \in 1 .. n /\ r[i] = q[i - m])
  OBVIOUS
<1> HIDE DEF m, n, r
<1>3. Elements(r) \subseteq Elements(p) \cup Elements(q)
  BY <1>1, <1>2 DEF Elements
<1>4. Distinct(r)
  <2> SUFFICES ASSUME NEW i \in 1 .. (m + n), NEW j \in 1 .. (m + n), r[i] = r[j] PROVE i = j
    BY <1>1 DEF Distinct
  <2>1. CASE i \in 1 .. m /\ j \in 1 .. m
    BY <2>1, <1>1 DEF Distinct
  <2>2. CASE i \notin 1 .. m /\ j \notin 1 .. m
    <3>1. i - m \in 1 .. n /\ j - m \in 1 .. n /\ q[i - m] = q[j - m]
      BY <2>2, <1>2
    <3>2. i - m = j - m
      BY <3>1, <1>1 DEF Distinct
    <3> QED BY <3>2, <1>1
  <2>3. \A a \in 1 .. m : \A b \in 1 .. n : p[a] # q[b]
    BY <1>1 DEF Elements
  <2>4. CASE i \in 1 .. m /\ j \notin 1 .. m
    BY <2>3, <2>4, <1>1, <1>2
  <2>5. CASE i \notin 1 .. m /\ j \in 1 .. m
    BY <2>3, <2>5, <1>1, <1>2
  <2> QED BY <2>1, <2>2, <2>4, <2>5
<1> QED BY <1>1, <1>3, <1>4 DEF r

\* The candidates in focus order are the clients asked for, each once.
LEMMA FocusOrderIs ==
  ASSUME NEW was, NEW d, Good(was, d), NEW S
  PROVE  /\ FocusOrder(d, S) \in Seq(Client)
         /\ Distinct(FocusOrder(d, S))
         /\ Elements(FocusOrder(d, S)) \subseteq S
<1> DEFINE recent == Keep(Newest(d.history), S)
           others == Keep(Slots, S \ Elements(d.history))
<1>1. Slots \in Seq(Client) /\ Distinct(Slots)
  <2>1. NumClients \in Nat /\ Slots = [i \in 1 .. NumClients |-> i]
    BY NumClientsAssumption DEF Slots, Client
  <2>2. Slots \in Seq(Client)
    BY <2>1 DEF Client
  <2>3. Distinct(Slots)
    BY <2>1 DEF Distinct
  <2> QED BY <2>2, <2>3
<1>2. d.history \in Seq(Client) /\ Distinct(d.history)
  BY DEF Good, Desk, TrueHistory
<1>3. /\ Newest(d.history) \in Seq(Client) /\ Distinct(Newest(d.history))
      /\ Elements(Newest(d.history)) = Elements(d.history)
  BY <1>2, NewestIs
<1>4. recent \in Seq(Client) /\ Distinct(recent) /\ Elements(recent) \subseteq S \cap Elements(d.history)
  BY <1>3, KeepElements
<1>5. others \in Seq(Client) /\ Distinct(others) /\ Elements(others) \subseteq S \ Elements(d.history)
  <2> DEFINE R == S \ Elements(d.history)
  <2> HIDE DEF R
  <2>1. Keep(Slots, R) \in Seq(Client) /\ Distinct(Keep(Slots, R)) /\ Elements(Keep(Slots, R)) \subseteq R
    BY <1>1, KeepElements
  <2> QED BY <2>1 DEF R
<1>6. FocusOrder(d, S) = recent \o others
  BY DEF FocusOrder
<1> HIDE DEF recent, others
<1>7. Elements(recent) \cap Elements(others) = {}
  BY <1>4, <1>5
<1>8. /\ recent \o others \in Seq(Client) /\ Distinct(recent \o others)
      /\ Elements(recent \o others) \subseteq Elements(recent) \cup Elements(others)
  BY <1>4, <1>5, <1>7, JoinedIs
<1> QED BY <1>4, <1>5, <1>6, <1>8

\* A session over living windows, each once, is honest once it turns.
LEMMA TurnedGood ==
  ASSUME NEW was, NEW d, Good(was, d), Honest(d), NEW delta \in {-1, 1},
         NEW session \in [open : BOOLEAN, order : Seq(Client), selected : Int],
         session.open, Distinct(session.order), Elements(session.order) \subseteq d.live
  PROVE  Good(Turned(d, session, delta), Turned(d, session, delta)) /\ Honest(Turned(d, session, delta))
<1> DEFINE n == Len(session.order)
           turned == [session EXCEPT !.selected = (@ + delta) % Len(session.order)]
           e == [d EXCEPT !.cycle = turned, !.grabbed = TRUE]
<1>1. CASE session.order = <<>>
  BY <1>1, GoodAlone DEF Turned
<1>2. CASE session.order # <<>>
  <2>1. n \in Nat \ {0}
    BY <1>2
  <2>2. (session.selected + delta) % n \in 0 .. (n - 1)
    BY <2>1
  <2>3. turned \in CycleSession
    BY <2>1, <2>2 DEF CycleSession
  <2>4. /\ turned.open = TRUE /\ turned.order = session.order
        /\ turned.selected < Len(turned.order)
    BY <2>1, <2>2
  <2>5. Turned(d, session, delta) = e
    BY <1>2 DEF Turned
  <2> HIDE DEF turned
  <2>6. e \in Desk
    BY <2>3 DEF Good, Desk
  <2>7. /\ e.live = d.live /\ SameHomes(d, e) /\ e.history = d.history /\ e.focused = d.focused
        /\ e.cycle = turned /\ e.grabbed = TRUE
    BY DEF Good, Desk, SameHomes
  <2> HIDE DEF e
  <2>9. Good(e, e)
    BY <2>6, <2>7, CycleGood
  <2>8. Honest(e)
    BY <2>4, <2>7 DEF Honest
  <2> QED BY <2>5, <2>8, <2>9
<1> QED BY <1>1, <1>2

\* Every press of the switcher keeps the record good and the session honest.
LEMMA CycleByGood ==
  ASSUME NEW was, NEW d, Good(was, d), Honest(d), NEW delta \in {-1, 1}
  PROVE  Good(CycleBy(d, delta), CycleBy(d, delta)) /\ Honest(CycleBy(d, delta))
<1> DEFINE Any == [open : BOOLEAN, order : Seq(Client), selected : Int]
           order == FocusOrder(d, Switchable(d))
           opened == Opened(d, order, delta)
<1>1. d.cycle \in Any
  BY DEF Good, Desk, CycleSession
<1>2. order \in Seq(Client) /\ Distinct(order) /\ Elements(order) \subseteq Switchable(d)
  BY FocusOrderIs
<1>3. Switchable(d) \subseteq d.live
  BY DEF Switchable
<1> HIDE DEF order
<1>4. /\ opened \in Any /\ opened.open = TRUE /\ opened.order = order
  BY <1>2 DEF Opened
<1>5. CycleBy(d, delta) = Turned(d, IF d.cycle.open THEN d.cycle ELSE opened, delta)
  BY DEF CycleBy, order
<1> HIDE DEF opened
<1>6. CASE d.cycle.open
  BY <1>1, <1>5, <1>6, TurnedGood DEF Honest
<1>7. CASE ~d.cycle.open
  BY <1>2, <1>3, <1>4, <1>5, <1>7, TurnedGood
<1> QED BY <1>6, <1>7

-----------------------------------------------------------------------------
(* Arrival, departure and late changes.                                     *)

\* A client just tracked, on its parent's workspace, is well recorded.
LEMMA FreshGood ==
  ASSUME NEW was, NEW d, Good(was, d), Honest(d), NEW c \in Client \ d.live, NEW p \in d.live \cup {NoClient},
         NEW modal \in BOOLEAN, NEW rule \in MapRule
  PROVE  LET e == Fresh(d, c, p, modal, rule)
         IN  Good(e, e) /\ Honest(e) /\ e.live = d.live \cup {c}
<1> DEFINE order      == Append(d.order, c)
           parent     == [d.parent EXCEPT ![c] = p]
           home       == IF p = NoClient THEN d.current ELSE d.workspace[p]
           workspace  == [d.workspace EXCEPT ![c] = home]
           sticky     == IF rule.pin THEN d.sticky \cup {c} ELSE d.sticky
           modals     == IF modal THEN d.modal \cup {c} ELSE d.modal
           noFocus    == IF rule.noFocus THEN d.noFocus \cup {c} ELSE d.noFocus
           noActivate == IF rule.noActivate THEN d.noActivate \cup {c} ELSE d.noActivate
           live       == d.live \cup {c}
           mapped     == d.mapped \cup {c}
           e == [d EXCEPT !.live = live, !.order = order, !.parent = parent,
                          !.workspace = workspace, !.sticky = sticky, !.modal = modals,
                          !.noFocus = noFocus, !.noActivate = noActivate, !.mapped = mapped]
<1>1. Fresh(d, c, p, modal, rule) = e
  BY DEF Fresh, Good, Desk
<1>2. /\ order \in Seq(Client) /\ sticky \in SUBSET Client /\ modals \in SUBSET Client
      /\ noFocus \in SUBSET Client /\ noActivate \in SUBSET Client
      /\ live \in SUBSET Client /\ mapped \in SUBSET Client
  BY DEF Good, Desk
<1>3. p = NoClient \/ p \in Client
  BY DEF Good, Desk
<1>4. parent \in [Client -> ClientOrNone]
  BY <1>3 DEF Good, Desk, ClientOrNone
<1>5. home \in Workspace
  BY <1>3 DEF Good, Desk
<1> HIDE DEF home
<1>6. workspace \in [Client -> Workspace]
  BY <1>5 DEF Good, Desk
<1>7. d.live \subseteq live
  OBVIOUS
<1> HIDE DEF order, parent, workspace, sticky, modals, noFocus, noActivate, live, mapped
<1>8. e \in Desk
  BY <1>2, <1>4, <1>6 DEF Good, Desk
<1>9. /\ e.live = live /\ e.history = d.history /\ e.focused = d.focused
      /\ e.minimized = d.minimized /\ e.special = d.special /\ e.members = d.members
      /\ e.current = d.current /\ e.previous = d.previous /\ e.count = d.count
      /\ e.workspace = workspace /\ e.cycle = d.cycle /\ e.grabbed = d.grabbed
  BY DEF Good, Desk
<1>10. \A k \in Client : workspace[k] = IF k = c THEN home ELSE d.workspace[k]
  BY DEF workspace, Good, Desk
<1>11. home < d.count
  BY <1>3 DEF home, Good, RowHolds
<1> HIDE DEF e
<1>12. TrueHistory(e)
  BY <1>7, <1>9 DEF Good, TrueHistory
<1>13. RowHolds(e)
  BY <1>9, <1>10, <1>11 DEF Good, RowHolds
<1>14. MembersHold(e)
  BY <1>7, <1>9 DEF Good, MembersHold
<1>15. Good(e, e)
  BY <1>7, <1>8, <1>9, <1>12, <1>13, <1>14 DEF Good, SameSession
<1>16. Honest(e)
  BY <1>7, <1>9 DEF Honest
<1> QED BY <1>1, <1>9, <1>15, <1>16 DEF live

\* A child joins its parent's special workspace.
LEMMA InheritedGood ==
  ASSUME NEW was, NEW d, Good(was, d), NEW c \in was.live, NEW p \in Client \cup {NoClient}
  PROVE  Good(was, Inherited(d, c, p))
<1>0. c \in d.live
  BY DEF Good, SameSession
<1>1. p # NoClient /\ d.special[p] # NoSpecial => d.special[p] \in SpecialNames
  BY DEF Good, Desk, SpecialOrNone
<1> QED BY <1>0, <1>1, MoveOneToSpecialGood DEF Inherited

\* A fresh client settles where its rule, or inheritance, says.
LEMMA SettledGood ==
  ASSUME NEW was, NEW d, Good(was, d), NEW c \in was.live, NEW p \in Client \cup {NoClient},
         NEW target \in RuleTarget
  PROVE  Good(was, Settled(d, c, p, target))
<1>1. /\ target.kind \in {"inherit", "numbered", "special"}
      /\ target.kind = "numbered" => target.to \in Nat
      /\ target.kind = "special" => target.to \in SpecialNames
  BY DEF RuleTarget
<1>2. CASE target.kind = "numbered"
  <2> DEFINE moved == ForFamily(ToWorkspace(target.to), d, c)
  <2>1. target.to \in Nat /\ ToWorkspace(target.to) \in Ops
    BY <1>1, <1>2 DEF Ops
  <2>2. Good(was, moved)
    BY <2>1, ForFamilyGood
  <2>3. Settled(d, c, p, target) = IF target.silent THEN moved
                                   ELSE SwitchTo(moved, target.to, c)
    BY <1>2 DEF Settled
  <2> HIDE DEF moved
  <2> QED BY <2>1, <2>2, <2>3, SwitchToGood
<1>3. CASE target.kind = "special" /\ CanCreate(d, target.to)
  <2>1. Settled(d, c, p, target) = MoveToSpecial(d, c, target.to, ~target.silent)
    BY <1>3 DEF Settled
  <2> QED BY <1>1, <1>3, <2>1, MoveToSpecialGood
<1>4. CASE ~(target.kind = "numbered" \/ (target.kind = "special" /\ CanCreate(d, target.to)))
  <2>1. Settled(d, c, p, target) = Inherited(d, c, p)
    BY <1>4 DEF Settled
  <2> QED BY <2>1, InheritedGood
<1> QED BY <1>2, <1>3, <1>4

\* An arrival keeps the record good.
LEMMA MapClientGood ==
  ASSUME NEW was, NEW d, Good(was, d), Honest(d), NEW c \in Client \ d.live,
         NEW p \in d.live \cup {NoClient}, NEW modal \in BOOLEAN, NEW rule \in MapRule
  PROVE  LET e == MapClient(d, c, p, modal, rule) IN Good(e, e) /\ Honest(e)
<1> DEFINE fresh == Fresh(d, c, p, modal, rule)
           homed == Settled(fresh, c, p, rule.target)
           e == MapClient(d, c, p, modal, rule)
<1>1. p \in Client \cup {NoClient} /\ rule.target \in RuleTarget
  BY DEF Good, Desk, MapRule
<1>2. Good(fresh, fresh) /\ Honest(fresh) /\ c \in fresh.live
  BY FreshGood
<1> HIDE DEF fresh
<1>3. Good(fresh, homed)
  BY <1>1, <1>2, SettledGood
<1>4. e \in {homed, FocusClient(homed, c)}
  BY DEF MapClient, fresh
<1> HIDE DEF homed, e
<1>5. Good(fresh, e)
  BY <1>3, <1>4, FocusClientGood
<1>6. SameSession(fresh, e)
  BY <1>5 DEF Good
<1>7. Good(e, e) /\ Honest(e)
  BY <1>2, <1>5, <1>6, GoodAlone, HonestSame
<1> QED BY <1>7 DEF e

\* A client that is gone leaves the open session with a valid selection: what
\* is honest but for that client is honest without it.
LEMMA CycleWithoutGood ==
  ASSUME NEW was, NEW d, Good(was, d), NEW c, d.cycle.open = d.grabbed,
         d.cycle.open => /\ d.cycle.selected < Len(d.cycle.order)
                         /\ Elements(d.cycle.order) \subseteq d.live \cup {c}
                         /\ Distinct(d.cycle.order)
  PROVE  LET e == CycleWithout(d, c) IN Good(e, e) /\ Honest(e)
<1> DEFINE order == Without(d.cycle.order, c)
           selected == IF d.cycle.selected > Len(order) - 1 THEN Len(order) - 1
                       ELSE d.cycle.selected
           session == [d.cycle EXCEPT !.order = order, !.selected = selected]
           e == [d EXCEPT !.cycle = session]
<1>1. d.cycle \in CycleSession /\ d.grabbed \in BOOLEAN
  BY DEF Good, Desk
<1>2. /\ order \in Seq(Client) /\ Elements(order) = Elements(d.cycle.order) \ {c}
      /\ Distinct(d.cycle.order) => Distinct(order)
  BY <1>1, WithoutIs DEF CycleSession
<1> HIDE DEF order
<1>3. CASE ~d.cycle.open
  BY <1>3, GoodAlone DEF CycleWithout, Honest
<1>4. CASE order = <<>> /\ d.cycle.open
  BY <1>4, CycleClosedGood DEF CycleWithout, order
<1>5. CASE order # <<>> /\ d.cycle.open
  <2>1. selected \in Nat /\ selected < Len(order)
    BY <1>1, <1>2, <1>5 DEF CycleSession
  <2>2. CycleWithout(d, c) = e
    BY <1>1, <1>5 DEF CycleWithout, order, Good, Desk, CycleSession
  <2> HIDE DEF selected
  <2>3. /\ session \in CycleSession
        /\ session.open = d.cycle.open /\ session.order = order /\ session.selected = selected
    BY <1>1, <1>2, <2>1 DEF CycleSession
  <2> HIDE DEF session
  <2>6. e \in Desk
    BY <2>3 DEF Good, Desk
  <2>4. /\ e.live = d.live /\ SameHomes(d, e) /\ e.history = d.history /\ e.focused = d.focused
        /\ e.cycle = session /\ e.grabbed = d.grabbed
    BY DEF Good, Desk, SameHomes
  <2> HIDE DEF e
  <2>7. Good(e, e)
    BY <2>4, <2>6, CycleGood
  <2>5. Honest(e)
    BY <1>2, <1>5, <2>1, <2>3, <2>4 DEF Honest
  <2> QED BY <2>2, <2>5, <2>7
<1> QED BY <1>3, <1>4, <1>5

\* Retaining the others in the history keeps it well formed, and the focused
\* client stays its newest entry unless it is the one that goes.
LEMMA HistoryWithout ==
  ASSUME NEW was, NEW d, Good(was, d), NEW c
  PROVE  /\ Without(d.history, c) \in Seq(Client)
         /\ Distinct(Without(d.history, c))
         /\ Elements(Without(d.history, c)) \subseteq d.live \ {c}
         /\ d.focused \notin {NoClient, c} =>
              /\ Without(d.history, c) # <<>>
              /\ Without(d.history, c)[Len(Without(d.history, c))] = d.focused
<1> DEFINE k == Without(d.history, c)
<1>1. d.history \in Seq(Client) /\ Distinct(d.history) /\ Elements(d.history) \subseteq d.live
  BY DEF Good, Desk, TrueHistory
<1>2. k \in Seq(Client) /\ Distinct(k) /\ Elements(k) \subseteq (Client \ {c}) \cap Elements(d.history)
  BY <1>1, KeepElements DEF Without
<1>3. ASSUME d.focused \notin {NoClient, c}
      PROVE  k # <<>> /\ k[Len(k)] = d.focused
  <2>1. d.history # <<>> /\ d.history[Len(d.history)] = d.focused
    BY <1>3 DEF Good, TrueHistory
  <2>2. d.focused \in Client \ {c}
    BY <1>3 DEF Good, Desk, ClientOrNone
  <2> QED BY <1>1, <2>1, <2>2, KeepLast DEF Without
<1> HIDE DEF k
<1> QED BY <1>1, <1>2, <1>3 DEF k

\* A client that is gone leaves no trace in the record.
LEMMA ErasedGood ==
  ASSUME NEW was, NEW d, Good(was, d), NEW c \in Client
  PROVE  LET e == Erased(d, c)
         IN  /\ Good(e, e) /\ e.live = d.live \ {c}
             /\ e.cycle = d.cycle /\ e.grabbed = d.grabbed
<1> DEFINE order    == Without(d.order, c)
           parent   == [k \in Client |-> IF k = c \/ d.parent[k] = c THEN NoClient ELSE d.parent[k]]
           homes    == [d.workspace EXCEPT ![c] = 0]
           special  == [d.special EXCEPT ![c] = NoSpecial]
           focused  == IF d.focused = c THEN NoClient ELSE d.focused
           history  == Without(d.history, c)
           members  == [s \in SpecialNames |-> Without(d.members[s], c)]
           e == [d EXCEPT !.live = d.live \ {c}, !.order = order, !.parent = parent,
                          !.workspace = homes, !.special = special,
                          !.minimized = d.minimized \ {c}, !.sticky = d.sticky \ {c},
                          !.modal = d.modal \ {c}, !.noFocus = d.noFocus \ {c},
                          !.noActivate = d.noActivate \ {c}, !.urgent = d.urgent \ {c},
                          !.focused = focused, !.history = history, !.members = members,
                          !.mapped = d.mapped \ {c}]
<1>1. Erased(d, c) = e
  BY DEF Erased, Good, Desk
<1>2. order \in Seq(Client)
  <2>1. d.order \in Seq(Client)
    BY DEF Good, Desk
  <2> QED BY <2>1, KeepElements DEF Without
<1>3. parent \in [Client -> ClientOrNone]
  BY DEF Good, Desk, ClientOrNone
<1>4. homes \in [Client -> Workspace] /\ special \in [Client -> SpecialOrNone]
  BY MaxWorkspacesAssumption DEF Good, Desk, Workspace, SpecialOrNone
<1>5. focused \in ClientOrNone
  BY DEF Good, Desk, ClientOrNone
<1>6. /\ members \in [SpecialNames -> Seq(Client)]
      /\ \A s \in SpecialNames :
           /\ Elements(members[s]) = Elements(d.members[s]) \ {c}
           /\ Distinct(members[s])
  <2>1. ASSUME NEW s \in SpecialNames
        PROVE  LET q == Without(d.members[s], c) IN
               /\ q \in Seq(Client) /\ Distinct(q)
               /\ Elements(q) = Elements(d.members[s]) \ {c}
    <3>1. d.members[s] \in Seq(Client) /\ Distinct(d.members[s])
      BY DEF Good, Desk, MembersHold
    <3> QED BY <3>1, WithoutIs
  <2> DEFINE V == Seq(Client)
  <2>2. \A s \in SpecialNames : Without(d.members[s], c) \in V
    BY <2>1
  <2>3. members \in [SpecialNames -> V]
    <3> HIDE DEF V
    <3> QED BY <2>2
  <2>4. \A s \in SpecialNames : members[s] = Without(d.members[s], c)
    OBVIOUS
  <2> HIDE DEF members
  <2> QED BY <2>1, <2>3, <2>4
<1>7. /\ history \in Seq(Client) /\ Distinct(history) /\ Elements(history) \subseteq d.live \ {c}
      /\ focused # NoClient => history # <<>> /\ history[Len(history)] = focused
  BY HistoryWithout
<1>11. /\ \A k \in Client : homes[k] = IF k = c THEN 0 ELSE d.workspace[k]
       /\ \A k \in Client : special[k] = IF k = c THEN NoSpecial ELSE d.special[k]
  BY DEF Good, Desk
<1> HIDE DEF order, parent, homes, special, focused, history, members
<1>8. e \in Desk
  BY <1>2, <1>3, <1>4, <1>5, <1>6, <1>7, ZenonT(60) DEF Good, Desk
<1>9. /\ e.live = d.live \ {c} /\ e.history = history /\ e.focused = focused
      /\ e.minimized = d.minimized \ {c} /\ e.special = special /\ e.members = members
      /\ e.current = d.current /\ e.previous = d.previous /\ e.count = d.count
      /\ e.workspace = homes /\ e.cycle = d.cycle /\ e.grabbed = d.grabbed
  BY DEF Good, Desk
<1> HIDE DEF e
<1>10. TrueHistory(e)
  BY <1>7, <1>9 DEF TrueHistory
<1>12. RowHolds(e)
  <2>1. 0 < d.count
    BY MaxWorkspacesAssumption DEF Good, Desk
  <2> QED BY <1>9, <1>11, <2>1 DEF Good, RowHolds
<1>13. MembersHold(e)
  <2>1. MembersHold(d) /\ NoSpecial \notin SpecialNames
    BY NoSpecialAssumption DEF Good
  <2>2. ASSUME NEW s \in SpecialNames, NEW k \in Client
        PROVE  k \in Elements(members[s]) <=> special[k] = s
    BY <1>6, <1>11, <2>1 DEF MembersHold
  <2>3. \A k \in Client \ e.live : special[k] = NoSpecial
    BY <1>9, <1>11, <2>1 DEF MembersHold
  <2> QED BY <1>6, <1>9, <2>2, <2>3 DEF MembersHold
<1>14. Good(e, e)
  <2>1. e.minimized \subseteq e.live /\ SameSession(e, e)
    BY <1>9 DEF Good, SameSession
  <2> QED BY <1>8, <1>10, <1>12, <1>13, <2>1 DEF Good
<1> QED BY <1>1, <1>9, <1>14

\* A departure keeps the record good, whoever inherits the keyboard.
LEMMA ForgottenGood ==
  ASSUME NEW was, NEW d, Good(was, d), Honest(d), NEW c \in Client
  PROVE  Good(Forgotten(d, c), Forgotten(d, c)) /\ Honest(Forgotten(d, c))
<1> DEFINE gone    == Erased(d, c)
           settled == IF d.focused = c THEN Inheriting(gone, d.special[c]) ELSE gone
<1>1. /\ Good(gone, gone) /\ gone.live = d.live \ {c}
      /\ gone.cycle = d.cycle /\ gone.grabbed = d.grabbed
  BY ErasedGood
<1>2. Forgotten(d, c) = CycleWithout(settled, c)
  BY DEF Forgotten
<1> HIDE DEF gone
<1>3. Good(gone, Inheriting(gone, d.special[c]))
  BY <1>1, HandOverGood DEF Inheriting
<1>4. Good(gone, settled)
  BY <1>1, <1>3
<1> HIDE DEF settled
<1>5. settled.live = d.live \ {c} /\ settled.cycle = d.cycle /\ settled.grabbed = d.grabbed
  BY <1>1, <1>4 DEF Good, SameSession
<1>6. /\ settled.cycle.open = settled.grabbed
      /\ settled.cycle.open => /\ settled.cycle.selected < Len(settled.cycle.order)
                               /\ Elements(settled.cycle.order) \subseteq settled.live \cup {c}
                               /\ Distinct(settled.cycle.order)
  BY <1>5 DEF Honest
<1> QED BY <1>2, <1>4, <1>6, CycleWithoutGood

\* Pinning and unpinning keep the record good.
LEMMA PinnedGood ==
  ASSUME NEW was, NEW d, Good(was, d), NEW c \in Client, NEW on \in BOOLEAN
  PROVE  Good(was, Pinned(d, c, on))
<1> DEFINE sticky == IF on THEN d.sticky \cup {c} ELSE d.sticky \ {c}
           set == [d EXCEPT !.sticky = IF on THEN @ \cup {c} ELSE @ \ {c}]
           e == [d EXCEPT !.sticky = sticky]
<1>1. set = e /\ sticky \in SUBSET Client
  BY DEF Good, Desk
<1> HIDE DEF sticky
<1>2. e \in Desk
  BY <1>1 DEF Good, Desk
<1>0. SameRecords(d, e)
  BY DEF Good, Desk, SameRecords, SameSession, SameHomes
<1>3. Good(was, e)
  BY <1>0, <1>2, OtherFields
<1>4. Good(was, set)
  BY <1>1, <1>3
<1> HIDE DEF set
<1>5. Good(was, Hide(FocusSuccessorOf(set, c), {c})) /\ Good(was, Show(set, {c}))
  BY <1>4, FocusSuccessorOfGood, HideGood, ShowGood
<1>6. Pinned(d, c, on) \in {d, Hide(FocusSuccessorOf(set, c), {c}), Show(set, {c}), set}
  BY DEF Pinned, set
<1> QED BY <1>4, <1>5, <1>6

\* A window that gets a new parent follows it with its family.
LEMMA ReparentedGood ==
  ASSUME NEW was, NEW d, Good(was, d), NEW c \in was.live, NEW p \in ClientOrNone
  PROVE  Good(was, Reparented(d, c, p))
<1> DEFINE set == [d EXCEPT !.parent[c] = p]
<1>1. set \in Desk
  BY DEF Good, Desk
<1>0. SameRecords(d, set)
  BY DEF Good, Desk, SameRecords, SameSession, SameHomes
<1>2. Good(was, set)
  BY <1>0, <1>1, OtherFields
<1> HIDE DEF set
<1>3. CASE d.parent[c] = p \/ p = NoClient
  BY <1>2, <1>3 DEF Reparented, set
<1>4. CASE ~(d.parent[c] = p \/ p = NoClient)
  <2>1. p \in Client
    BY <1>4 DEF ClientOrNone
  <2>2. d.special[p] # NoSpecial => ToSpecial(d.special[p]) \in Ops
    BY <2>1 DEF Good, Desk, SpecialOrNone, Ops
  <2>3. d.workspace[p] \in Nat
    BY <2>1, MaxWorkspacesAssumption DEF Good, Desk, Workspace
  <2>4. ToWorkspace(d.workspace[p]) \in Ops
    BY <2>3 DEF Ops
  <2>5. Reparented(d, c, p) = IF d.special[p] # NoSpecial
                              THEN ForFamily(ToSpecial(d.special[p]), set, c)
                              ELSE ForFamily(ToWorkspace(d.workspace[p]), set, c)
    BY <1>4 DEF Reparented, set
  <2> QED BY <1>2, <2>2, <2>4, <2>5, ForFamilyGood
<1> QED BY <1>3, <1>4

\* A window that turns modal takes the keyboard from its family.
LEMMA ModalSetGood ==
  ASSUME NEW was, NEW d, Good(was, d), NEW c \in Client, NEW on \in BOOLEAN
  PROVE  Good(was, ModalSet(d, c, on))
<1> DEFINE modal == IF on THEN d.modal \cup {c} ELSE d.modal \ {c}
           set == [d EXCEPT !.modal = IF on THEN @ \cup {c} ELSE @ \ {c}]
           e == [d EXCEPT !.modal = modal]
<1>1. set = e /\ modal \in SUBSET Client
  BY DEF Good, Desk
<1> HIDE DEF modal
<1>2. e \in Desk
  BY <1>1 DEF Good, Desk
<1>0. SameRecords(d, e)
  BY DEF Good, Desk, SameRecords, SameSession, SameHomes
<1>3. Good(was, e)
  BY <1>0, <1>2, OtherFields
<1>4. Good(was, set)
  BY <1>1, <1>3
<1> HIDE DEF set
<1>5. ModalSet(d, c, on) \in {set, FocusClient(set, c)}
  BY DEF ModalSet, set
<1> QED BY <1>4, <1>5, FocusClientGood

-----------------------------------------------------------------------------
(* The invariant is inductive: true of the initial state, and kept by every *)
(* event.                                                                   *)

IInv == Good(wm, wm) /\ Honest(wm) /\ locked \in BOOLEAN

\* The empty desk satisfies the invariant.
LEMMA InitIInv == Init => IInv
<1> SUFFICES ASSUME Init PROVE IInv
  OBVIOUS
<1>1. wm \in Desk
  <2>1. 0 \in Workspace /\ 1 \in 1 .. MaxWorkspaces
    BY MaxWorkspacesAssumption DEF Workspace
  <2>2. NoCycle \in CycleSession
    BY DEF NoCycle, CycleSession
  <2> DEFINE none == [s \in SpecialNames |-> <<>>]
  <2>3. none \in [SpecialNames -> Seq(Client)]
    OBVIOUS
  <2> HIDE DEF none
  <2> QED BY <2>1, <2>2, <2>3 DEF Init, Desk, ClientOrNone, SpecialOrNone, none
<1>2. TrueHistory(wm)
  BY DEF Init, TrueHistory, Elements, Distinct
<1>3. RowHolds(wm)
  BY DEF Init, RowHolds, NoWorkspace
<1>4. MembersHold(wm)
  BY NoSpecialAssumption DEF Init, MembersHold, Elements, Distinct
<1>5. Honest(wm)
  BY DEF Init, Honest, NoCycle
<1>6. wm.minimized \subseteq wm.live /\ SameSession(wm, wm)
  BY DEF Init, SameSession
<1> QED BY <1>1, <1>2, <1>3, <1>4, <1>5, <1>6 DEF IInv, Good, Init

\* An event that leaves a good record and an honest session keeps the invariant.
LEMMA HonestlyIInv ==
  ASSUME IInv, NEW d, Good(d, d), Honest(d), Dispatched(d)
  PROVE  IInv'
<1>1. wm' = d /\ locked' = locked
  BY DEF Dispatched
<1>2. Good(wm, wm)' /\ Honest(wm)'
  BY <1>1 DEF Good, Honest, TrueHistory, RowHolds, MembersHold, SameSession
<1> QED BY <1>1, <1>2 DEF IInv

\* An event that leaves the clients and the session alone needs the first only.
LEMMA DispatchedIInv ==
  ASSUME IInv, NEW d, Good(wm, d), Dispatched(d)
  PROVE  IInv'
<1>1. SameSession(wm, d)
  BY DEF Good
<1>2. Good(d, d) /\ Honest(d)
  BY <1>1, GoodAlone, HonestSame DEF IInv
<1> QED BY <1>2, HonestlyIInv

\* A step that leaves the window manager alone keeps the invariant.
LEMMA SameWmIInv ==
  ASSUME IInv, wm' = wm, locked' \in BOOLEAN
  PROVE  IInv'
  BY DEF IInv, Good, Honest, TrueHistory, RowHolds, MembersHold, SameSession

\* What clients and their windows do keeps the invariant.
LEMMA ClientEventIInv ==
  ASSUME IInv, NEW c \in Client, ClientEvent(c)
  PROVE  IInv'
<1>0. Good(wm, wm) /\ Honest(wm)
  BY DEF IInv
<1>1. ASSUME NEW p \in ClientOrNone, NEW modal \in BOOLEAN, NEW rule \in MapRules,
             MapRequest(c, p, modal, rule)
      PROVE  IInv'
  <2>1. rule \in MapRule /\ p \in wm.live \cup {NoClient}
    BY <1>1, MapRulesAssumption DEF MapRequest
  <2>2. c \in Client \ wm.live /\ Dispatched(MapClient(wm, c, p, modal, rule))
    BY <1>1 DEF MapRequest, FreshSlot
  <2> DEFINE e == MapClient(wm, c, p, modal, rule)
  <2>3. Good(e, e) /\ Honest(e)
    BY <1>0, <2>1, <2>2, MapClientGood
  <2> HIDE DEF e
  <2> QED BY <2>2, <2>3, HonestlyIInv DEF e
<1>2. CASE Forget(c)
  BY <1>0, <1>2, ForgottenGood, HonestlyIInv DEF Forget
<1>3. CASE Activate(c)
  BY <1>0, <1>3, ActivateClientGood, DispatchedIInv DEF Activate
<1>4. CASE ChromeChanged(c)
  <2>1. Good(wm, Show(wm, {c})) /\ Good(wm, Hide(wm, {c}))
    BY <1>0, ShowGood, HideGood
  <2>2. Good(wm, IF c \in OnScreen(wm) THEN Show(wm, {c}) ELSE Hide(wm, {c}))
    BY <2>1
  <2> QED BY <1>4, <2>2, DispatchedIInv DEF ChromeChanged
<1>5. ASSUME NEW on \in BOOLEAN, SetUrgent(c, on) PROVE IInv'
  <2> DEFINE urgent == IF on THEN wm.urgent \cup {c} ELSE wm.urgent \ {c}
  <2>1. urgent \in SUBSET Client
    BY <1>0 DEF Good, Desk
  <2>2. [wm EXCEPT !.urgent = IF on THEN @ \cup {c} ELSE @ \ {c}] = [wm EXCEPT !.urgent = urgent]
    OBVIOUS
  <2>3. Dispatched([wm EXCEPT !.urgent = urgent])
    BY <1>5, <2>2 DEF SetUrgent
  <2> HIDE DEF urgent
  <2>4. Good(wm, [wm EXCEPT !.urgent = urgent])
    BY <1>0, <2>1, UrgentGood
  <2> QED BY <2>3, <2>4, DispatchedIInv
<1>6. ASSUME NEW on \in BOOLEAN, ModalChanged(c, on) PROVE IInv'
  BY <1>0, <1>6, ModalSetGood, DispatchedIInv DEF ModalChanged
<1>7. ASSUME NEW p \in ClientOrNone, ParentChanged(c, p) PROVE IInv'
  BY <1>0, <1>7, ReparentedGood, DispatchedIInv DEF ParentChanged
<1> QED BY <1>1, <1>2, <1>3, <1>4, <1>5, <1>6, <1>7 DEF ClientEvent

\* What the user does to one window keeps the invariant.
LEMMA UserEventIInv ==
  ASSUME IInv, NEW c \in Client, UserEvent(c)
  PROVE  IInv'
<1>0. Good(wm, wm) /\ Honest(wm)
  BY DEF IInv
<1>1. CASE Click(c)
  BY <1>0, <1>1, FocusClientGood, DispatchedIInv DEF Click
<1>2. CASE PointerEnter(c)
  BY <1>0, <1>2, FocusClientGood, DispatchedIInv DEF PointerEnter
<1>3. CASE FocusRequest(c)
  BY <1>0, <1>3, FocusClientGood, DispatchedIInv DEF FocusRequest
<1>4. CASE Miniaturize(c) \/ Deminiaturize(c)
  <2>1. ToIcon \in Ops /\ FromIcon \in Ops
    BY DEF Ops
  <2>2. Good(wm, ForFamily(ToIcon, wm, c)) /\ Good(wm, ForFamily(FromIcon, wm, c))
    BY <1>0, <1>4, <2>1, ForFamilyGood DEF Miniaturize, Deminiaturize
  <2> QED BY <1>4, <2>2, DispatchedIInv DEF Miniaturize, Deminiaturize
<1>5. ASSUME NEW w \in 0 .. MaxWorkspaces, MoveToWorkspace(c, w) PROVE IInv'
  <2>1. ToWorkspace(w) \in Ops
    BY MaxWorkspacesAssumption DEF Ops
  <2>2. Good(wm, ForFamily(ToWorkspace(w), wm, c))
    BY <1>0, <1>5, <2>1, ForFamilyGood DEF MoveToWorkspace
  <2> QED BY <1>5, <2>2, DispatchedIInv DEF MoveToWorkspace
<1>6. ASSUME NEW s \in SpecialNames, NEW follow \in BOOLEAN, MoveClientToSpecial(c, s, follow)
      PROVE  IInv'
  BY <1>0, <1>6, MoveToSpecialGood, DispatchedIInv DEF MoveClientToSpecial
<1>7. ASSUME NEW on \in BOOLEAN, SetPinned(c, on) PROVE IInv'
  BY <1>0, <1>7, PinnedGood, DispatchedIInv DEF SetPinned
<1> QED BY <1>1, <1>2, <1>3, <1>4, <1>5, <1>6, <1>7 DEF UserEvent

\* What the user does to the whole desk keeps the invariant.
LEMMA DeskEventIInv ==
  ASSUME IInv, DeskEvent
  PROVE  IInv'
<1>0. Good(wm, wm) /\ Honest(wm) /\ locked \in BOOLEAN
  BY DEF IInv
<1>1. ASSUME NEW forward \in BOOLEAN, FocusNext(forward) PROVE IInv'
  BY <1>0, <1>1, FocusAdjacentGood, DispatchedIInv DEF FocusNext
<1>2. ASSUME NEW w \in 0 .. MaxWorkspaces, SwitchWorkspace(w) \/ RemoveWorkspace(w) \/ CarryFocused(w)
      PROVE  IInv'
  <2>0. w \in Nat
    BY MaxWorkspacesAssumption
  <2>1. CASE SwitchWorkspace(w)
    BY <1>0, <2>0, <2>1, SwitchToGood, DispatchedIInv DEF SwitchWorkspace
  <2>2. CASE RemoveWorkspace(w)
    BY <1>0, <2>0, <2>2, WithoutWorkspaceGood, DispatchedIInv DEF RemoveWorkspace
  <2>3. CASE CarryFocused(w)
    <3> DEFINE c == wm.focused
               moved == ForFamily(ToWorkspace(w), wm, c)
               there == SwitchTo(moved, w, NoClient)
    <3>1. c \in Client /\ c \in wm.live
      <4>1. wm.focused # NoClient /\ TrueHistory(wm) /\ wm.history \in Seq(Client)
        BY <1>0, <2>3 DEF CarryFocused, Good, Desk
      <4>2. wm.history # <<>> /\ wm.history[Len(wm.history)] = wm.focused
        BY <4>1 DEF TrueHistory
      <4>3. Len(wm.history) \in DOMAIN wm.history
        BY <4>1, <4>2
      <4>4. wm.focused \in wm.live
        BY <4>1, <4>2, <4>3 DEF TrueHistory, Elements
      <4> QED BY <1>0, <4>4 DEF Good, Desk
    <3>2. ToWorkspace(w) \in Ops
      BY <2>0 DEF Ops
    <3>3. Dispatched(ActivateClient(there, c))
      BY <2>3 DEF CarryFocused
    <3> HIDE DEF c
    <3>4. Good(wm, moved)
      BY <1>0, <3>1, <3>2, ForFamilyGood
    <3> HIDE DEF moved
    <3>5. Good(wm, there)
      BY <2>0, <3>4, SwitchToGood
    <3> HIDE DEF there
    <3>6. Good(wm, ActivateClient(there, c))
      BY <3>1, <3>5, ActivateClientGood
    <3> QED BY <3>3, <3>6, DispatchedIInv
  <2> QED BY <1>2, <2>1, <2>2, <2>3
<1>3. CASE SwitchToPrevious
  <2>1. wm.previous \in Nat
    BY <1>0, <1>3, MaxWorkspacesAssumption DEF SwitchToPrevious, Good, Desk
  <2>2. Good(wm, SwitchTo(wm, wm.previous, NoClient))
    BY <1>0, <2>1, SwitchToGood
  <2> QED BY <1>3, <2>2, DispatchedIInv DEF SwitchToPrevious
<1>4. ASSUME NEW delta \in {-1, 1}, SwitchToOccupied(delta) \/ CycleStep(delta)
      PROVE  IInv'
  <2>1. CASE SwitchToOccupied(delta)
    <3> DEFINE w == OccupiedStep(wm, delta)
    <3>1. w \in Nat
      BY <1>0, <2>1, OccupiedStepType DEF SwitchToOccupied
    <3>2. Dispatched(SwitchTo(wm, w, NoClient))
      BY <2>1 DEF SwitchToOccupied
    <3> HIDE DEF w
    <3> QED BY <1>0, <3>1, <3>2, SwitchToGood, DispatchedIInv
  <2>2. CASE CycleStep(delta)
    <3> DEFINE e == CycleBy(wm, delta)
    <3>1. Dispatched(e)
      BY <2>2 DEF CycleStep
    <3>2. Good(e, e) /\ Honest(e)
      BY <1>0, CycleByGood
    <3> HIDE DEF e
    <3> QED BY <3>1, <3>2, HonestlyIInv
  <2> QED BY <1>4, <2>1, <2>2
<1>5. ASSUME NEW s \in SpecialNames, ToggleSpecial(s) PROVE IInv'
  <2>1. Good(wm, HideSpecial(wm)) /\ Good(wm, ShowSpecial(Create(wm, s), s))
    BY <1>0, HideSpecialGood, CreateGood, ShowSpecialGood
  <2>2. Good(wm, IF wm.shown = s THEN HideSpecial(wm) ELSE ShowSpecial(Create(wm, s), s))
    BY <2>1
  <2> QED BY <1>5, <2>2, DispatchedIInv DEF ToggleSpecial
<1>6. CASE CycleCancel \/ CycleCommit
  BY <1>0, <1>6, CycleClosedGood, CycleCommittedGood, HonestlyIInv DEF CycleCancel, CycleCommit
<1>7. CASE LockChanges
  BY <1>0, <1>7, SameWmIInv DEF LockChanges
<1> QED BY <1>1, <1>2, <1>3, <1>4, <1>5, <1>6, <1>7 DEF DeskEvent

\* Every step keeps the invariant: it is inductive.
LEMMA NextIInv == IInv /\ [Next]_vars => IInv'
<1> SUFFICES ASSUME IInv, [Next]_vars PROVE IInv'
  OBVIOUS
<1>1. CASE Next
  BY <1>1, DeskEventIInv, ClientEventIInv, UserEventIInv DEF Next
<1>2. CASE UNCHANGED vars
  <2>1. wm' = wm /\ locked' = locked /\ locked \in BOOLEAN
    BY <1>2 DEF vars, IInv
  <2> QED BY <2>1, SameWmIInv
<1> QED BY <1>1, <1>2

\* The state stays well typed through every sequence of events.
THEOREM TypeSafety == Spec => []TypeOK
<1>1. IInv => TypeOK
  BY DEF IInv, Good, TypeOK
<1> QED BY <1>1, InitIInv, NextIInv, PTL DEF Spec

\* The focus history holds live clients, each once, the focused one newest.
THEOREM HistorySafety == Spec => []HistoryWellFormed
<1>1. IInv => HistoryWellFormed
  BY DEF IInv, Good, HistoryWellFormed
<1> QED BY <1>1, InitIInv, NextIInv, PTL DEF Spec

\* Every stored workspace index names a workspace the row still has, whatever
\* was added, removed and merged.
THEOREM RowSafety == Spec => []WorkspacesInRange
<1>1. IInv => WorkspacesInRange
  <2>1. IInv => RowHolds(wm) /\ wm.live \subseteq Client
    BY DEF IInv, Good, Desk
  <2> QED BY <2>1 DEF RowHolds, WorkspacesInRange
<1> QED BY <1>1, InitIInv, NextIInv, PTL DEF Spec

\* The switcher offers living windows only, each once, with a valid selection,
\* and holds the keyboard grab exactly while it is open.
THEOREM SwitcherSafety == Spec => []CycleHonest
<1>1. IInv => CycleHonest
  BY DEF IInv, Honest, CycleHonest
<1> QED BY <1>1, InitIInv, NextIInv, PTL DEF Spec

\* Every client is in the layout order of its own special workspace once, and
\* in no other.
THEOREM MembershipSafety == Spec => []SpecialMembership
<1>1. ASSUME IInv PROVE SpecialMembership
  <2> SUFFICES ASSUME NEW s \in SpecialNames, NEW c \in Client
               PROVE  Cardinality({i \in DOMAIN wm.members[s] : wm.members[s][i] = c})
                        = IF c \in wm.live /\ wm.special[c] = s THEN 1 ELSE 0
    BY DEF SpecialMembership
  <2> DEFINE q == wm.members[s]
             at == {i \in DOMAIN q : q[i] = c}
  <2>1. /\ Distinct(q) /\ (c \in Elements(q) <=> wm.special[c] = s)
        /\ c \notin wm.live => wm.special[c] # s
    BY <1>1, NoSpecialAssumption DEF IInv, Good, MembersHold
  <2> HIDE DEF q
  <2>2. CASE c \in Elements(q)
    <3>1. PICK i \in DOMAIN q : q[i] = c
      BY <2>2 DEF Elements
    <3>2. at = {i}
      BY <2>1, <3>1 DEF Distinct
    <3>3. Cardinality(at) = 1
      BY <3>2, FS_Singleton
    <3> QED BY <2>1, <2>2, <3>3 DEF q
  <2>3. CASE c \notin Elements(q)
    <3>1. at = {}
      BY <2>3 DEF Elements
    <3>2. Cardinality(at) = 0
      BY <3>1, FS_EmptySet
    <3> QED BY <2>1, <2>3, <3>2 DEF q
  <2> QED BY <2>2, <2>3
<1> QED BY <1>1, InitIInv, NextIInv, PTL DEF Spec
-----------------------------------------------------------------------------
(* No ghosts.  What a handler leaves mapped is on screen: the second layer   *)
(* of the invariant, kept by every event but the arrival of a dialog whose   *)
(* parent is filed elsewhere.                                                *)

Tidy(d) == d.mapped \subseteq OnScreen(d)

\* Two records that agree about the place of every window but c.
SameBut(c, d, e) ==
  /\ e.shown = d.shown /\ e.current = d.current
  /\ \A k \in Client \ {c} :
       /\ k \in e.live <=> k \in d.live
       /\ k \in e.minimized <=> k \in d.minimized
       /\ k \in e.sticky <=> k \in d.sticky
       /\ e.special[k] = d.special[k] /\ e.workspace[k] = d.workspace[k]

\* They agree about every window.
SamePlaces(d, e) ==
  /\ e.live = d.live /\ e.minimized = d.minimized /\ e.sticky = d.sticky
  /\ e.special = d.special /\ e.workspace = d.workspace
  /\ e.shown = d.shown /\ e.current = d.current

\* What is on screen depends on the places only.
LEMMA PlacesOnScreen ==
  ASSUME NEW d, NEW e, SamePlaces(d, e)
  PROVE  OnScreen(e) = OnScreen(d) /\ Normal(e) = Normal(d)
  BY DEF SamePlaces, OnScreen, Normal, Placed

\* A change about one window leaves the screen tidy when that window is either
\* not mapped after it or on screen.
LEMMA TidyBut ==
  ASSUME NEW d, d.live \subseteq Client, Tidy(d), NEW c, NEW e, SameBut(c, d, e),
         e.mapped \subseteq d.mapped \cup {c}, c \in e.mapped => c \in OnScreen(e)
  PROVE  Tidy(e)
<1> SUFFICES ASSUME NEW k \in e.mapped, k # c PROVE k \in OnScreen(e)
  BY DEF Tidy
<1>1. k \in OnScreen(d) /\ k \in Client
  BY DEF Tidy, OnScreen, Normal
<1> QED BY <1>1 DEF SameBut, OnScreen, Normal, Placed

\* Showing what is on screen is tidy.
LEMMA ShowTidy ==
  ASSUME NEW d \in Desk, Tidy(d), NEW S, S \subseteq OnScreen(d)
  PROVE  Tidy(Show(d, S))
<1>1. SamePlaces(d, Show(d, S)) /\ Show(d, S).mapped = d.mapped \cup S
  BY DEF Desk, SamePlaces, Show
<1> QED BY <1>1, PlacesOnScreen DEF Tidy

\* Hiding is tidy when what stays mapped is on screen.
LEMMA HideTidy ==
  ASSUME NEW d \in Desk, NEW S, d.mapped \ S \subseteq OnScreen(d)
  PROVE  Tidy(Hide(d, S))
<1>1. SamePlaces(d, Hide(d, S)) /\ Hide(d, S).mapped = d.mapped \ S
  BY DEF Desk, SamePlaces, Hide
<1> QED BY <1>1, PlacesOnScreen DEF Tidy

\* A change of focus is tidy.
LEMMA FocusTidy ==
  ASSUME NEW d, NEW e, SameScreen(d, e), Tidy(d)
  PROVE  Tidy(e)
<1>1. SamePlaces(d, e) /\ e.mapped = d.mapped
  BY DEF SameScreen, SameSession, SameHomes, SamePlaces
<1> QED BY <1>1, PlacesOnScreen DEF Tidy

\* When another overlay takes the place of the one on screen, or none does,
\* hiding the members of the old one leaves the screen tidy.
LEMMA ReplacedTidy ==
  ASSUME NEW was, NEW d, Good(was, d), Tidy(d), NEW s \in SpecialOrNone,
         d.shown \notin {NoSpecial, s}
  PROVE  Tidy(HideMembers([d EXCEPT !.shown = s], d.shown))
<1> DEFINE here == [d EXCEPT !.shown = s]
           gone == LiveMembers(here, d.shown)
           hidden == Hide(here, gone)
<1>1. Good(was, here)
  BY ShownGood
<1>2. /\ here.mapped = d.mapped /\ here.live = d.live /\ here.minimized = d.minimized
      /\ here.sticky = d.sticky /\ here.special = d.special /\ here.workspace = d.workspace
      /\ here.current = d.current /\ here.shown = s /\ here.members = d.members
  BY DEF Good, Desk
<1>3. HideMembers(here, d.shown) \in {hidden, FocusSuccessorOf(hidden, here.focused)}
  BY DEF HideMembers
<1> HIDE DEF here
<1>4. ASSUME NEW c \in d.mapped, c \notin OnScreen(here)
      PROVE  c \in gone
  <2>1. c \in OnScreen(d) /\ c \in Client
    BY DEF Tidy, Good, Desk
  <2>2. c \in Normal(here) /\ d.special[c] = d.shown
    BY <1>2, <1>4, <2>1 DEF OnScreen, Normal, Placed
  <2>3. d.shown \in SpecialNames
    BY DEF Good, Desk, SpecialOrNone
  <2>4. c \in Elements(here.members[d.shown])
    BY <1>2, <2>1, <2>2, <2>3 DEF Good, MembersHold
  <2> QED BY <2>2, <2>4 DEF LiveMembers
<1>5. here \in Desk /\ hidden \in Desk
  BY <1>1, HideGood DEF Good
<1> HIDE DEF gone
<1>6. Tidy(hidden)
  BY <1>2, <1>4, <1>5, HideTidy
<1> HIDE DEF hidden
<1>7. Tidy(FocusSuccessorOf(hidden, here.focused))
  BY <1>5, <1>6, FocusSame, FocusTidy
<1> QED BY <1>3, <1>6, <1>7 DEF here

\* Dismissing the overlay is tidy.
LEMMA HideSpecialTidy ==
  ASSUME NEW was, NEW d, Good(was, d), Tidy(d)
  PROVE  Tidy(HideSpecial(d))
<1>1. NoSpecial \in SpecialOrNone
  BY DEF SpecialOrNone
<1> QED BY <1>1, ReplacedTidy DEF HideSpecial

\* So is summoning one: its members belong to the overlay that is now shown.
LEMMA ShowSpecialTidy ==
  ASSUME NEW was, NEW d, Good(was, d), Tidy(d), NEW s \in SpecialNames
  PROVE  Tidy(ShowSpecial(d, s))
<1> DEFINE here == [d EXCEPT !.shown = s]
           hidden == Hide(here, LiveMembers(here, d.shown))
           free == IF d.shown \in {NoSpecial, s} THEN here ELSE HideMembers(here, d.shown)
<1>0. s \in SpecialOrNone /\ s # NoSpecial
  BY NoSpecialAssumption DEF SpecialOrNone
<1>1. Good(was, here) /\ Good(was, hidden) /\ Good(was, HideMembers(here, d.shown))
  BY <1>0, ShownGood, HideGood, HideMembersGood
<1>2. Good(was, free)
  BY <1>1
<1>3. ShowSpecial(d, s) = FocusMember(ShowMembers(free, s), s)
  BY DEF ShowSpecial
<1>4. /\ here.shown = s /\ here.mapped = d.mapped /\ here.live = d.live
      /\ here.minimized = d.minimized /\ here.sticky = d.sticky /\ here.special = d.special
      /\ here.workspace = d.workspace /\ here.current = d.current
  BY DEF Good, Desk
<1>5. free.shown = s
  <2>1. hidden.shown = s /\ hidden \in Desk
    BY <1>1, <1>4 DEF Good, Desk, Hide
  <2>2. FocusSuccessorOf(hidden, here.focused).shown = s
    BY <2>1, FocusSame DEF SameScreen
  <2>3. HideMembers(here, d.shown) \in {hidden, FocusSuccessorOf(hidden, here.focused)}
    BY DEF HideMembers
  <2> HIDE DEF here, hidden
  <2> QED BY <1>4, <2>1, <2>2, <2>3
<1>6. Tidy(free)
  <2>1. CASE d.shown \in {NoSpecial, s}
    <3> SUFFICES ASSUME NEW c \in d.mapped PROVE c \in OnScreen(here)
      BY <1>4, <2>1 DEF Tidy
    <3>1. c \in OnScreen(d)
      BY DEF Tidy
    <3> HIDE DEF here
    <3> QED BY <1>0, <1>4, <2>1, <3>1 DEF OnScreen, Normal, Placed
  <2>2. CASE d.shown \notin {NoSpecial, s}
    BY <1>0, <2>2, ReplacedTidy
  <2> QED BY <2>1, <2>2
<1> HIDE DEF here, hidden, free
<1>7. LiveMembers(free, s) \subseteq OnScreen(free)
  <2> SUFFICES ASSUME NEW c \in LiveMembers(free, s) PROVE c \in OnScreen(free)
    OBVIOUS
  <2>1. c \in Normal(free) /\ c \in Elements(free.members[s]) /\ c \in Client
    BY <1>2 DEF LiveMembers, Normal, Good, Desk
  <2>2. free.special[c] = s
    BY <1>2, <2>1 DEF Good, MembersHold
  <2> QED BY <1>0, <1>5, <2>1, <2>2 DEF OnScreen, Placed
<1>8. Tidy(ShowMembers(free, s)) /\ ShowMembers(free, s) \in Desk
  BY <1>2, <1>6, <1>7, ShowTidy, ShowMembersGood DEF ShowMembers, Good
<1> QED BY <1>3, <1>8, FocusSame, FocusTidy DEF FocusMember

\* A client that leaves its special, is filed elsewhere, or both, is the only
\* one whose place changes.
LEMMA HomedBut ==
  ASSUME NEW d \in Desk, NEW c \in Client, NEW w \in Workspace
  PROVE  /\ SameBut(c, d, Homed(d, c, w)) /\ Homed(d, c, w).mapped = d.mapped
         /\ Homed(d, c, w).live = d.live /\ Homed(d, c, w).minimized = d.minimized
         /\ Homed(d, c, w).sticky = d.sticky /\ Homed(d, c, w).current = d.current
         /\ Homed(d, c, w).special = d.special /\ Homed(d, c, w).workspace[c] = w
         /\ SameBut(c, d, LeaveSpecial(d, c)) /\ LeaveSpecial(d, c).mapped = d.mapped
<1> DEFINE h == Homed(d, c, w)
           out == LeaveSpecial(d, c)
<1>1. /\ h.shown = d.shown /\ h.mapped = d.mapped /\ h.live = d.live
      /\ h.minimized = d.minimized /\ h.sticky = d.sticky /\ h.current = d.current
      /\ h.special = d.special /\ h.workspace = [d.workspace EXCEPT ![c] = w]
  BY DEF Desk, Homed
<1>2. /\ out.shown = d.shown /\ out.mapped = d.mapped /\ out.live = d.live
      /\ out.minimized = d.minimized /\ out.sticky = d.sticky /\ out.current = d.current
      /\ out.workspace = d.workspace /\ out.special = [d.special EXCEPT ![c] = NoSpecial]
  BY LeaveSpecialSame DEF SameSession
<1>3. d.workspace \in [Client -> Workspace] /\ d.special \in [Client -> SpecialOrNone]
  BY DEF Desk
<1> HIDE DEF h, out
<1>4. SameBut(c, d, h) /\ h.workspace[c] = w
  BY <1>1, <1>3 DEF SameBut
<1>5. SameBut(c, d, out)
  BY <1>2, <1>3 DEF SameBut
<1> QED BY <1>1, <1>2, <1>4, <1>5 DEF h, out

\* Records that agree but for c with one that agrees but for c, agree but for c.
LEMMA SameButChain ==
  ASSUME NEW c, NEW d, NEW e, NEW f, SameBut(c, d, e), SameBut(c, e, f)
  PROVE  SameBut(c, d, f)
  BY DEF SameBut

\* A change of focus changes no place at all.
LEMMA FocusBut ==
  ASSUME NEW c, NEW d, NEW e, SameScreen(d, e)
  PROVE  SameBut(c, d, e) /\ e.mapped = d.mapped
  BY DEF SameScreen, SameSession, SameHomes, SameBut

\* Nor does mapping or hiding.
LEMMA MappedBut ==
  ASSUME NEW c, NEW d \in Desk, NEW S
  PROVE  /\ SameBut(c, d, Show(d, S)) /\ Show(d, S).mapped = d.mapped \cup S
         /\ SameBut(c, d, Hide(d, S)) /\ Hide(d, S).mapped = d.mapped \ S
  BY DEF Desk, Show, Hide, SameBut

\* A window that becomes an icon is hidden.
LEMMA MiniaturizeOneTidy ==
  ASSUME NEW was, NEW d, Good(was, d), Tidy(d), NEW c
  PROVE  Tidy(MiniaturizeOne(d, c))
<1> DEFINE e == [d EXCEPT !.minimized = @ \cup {c}]
           h == Hide(e, {c})
<1>1. CASE c \notin Normal(d)
  BY <1>1 DEF MiniaturizeOne
<1>2. CASE c \in Normal(d)
  <2>1. d.minimized \cup {c} \in SUBSET d.live
    BY <1>2 DEF Good, Normal
  <2>2. e \in Desk
    BY <2>1, IconsGood DEF Good
  <2>3. SameBut(c, d, e) /\ e.mapped = d.mapped
    BY DEF Good, Desk, SameBut
  <2> HIDE DEF e
  <2>4. SameBut(c, d, h) /\ h.mapped = d.mapped \ {c} /\ h \in Desk
    <3>1. h \in Desk
      BY <2>2 DEF Hide, Desk
    <3> QED BY <2>2, <2>3, <3>1, MappedBut, SameButChain
  <2> HIDE DEF h
  <2>5. Tidy(h)
    BY <2>4, TidyBut DEF Good, Desk
  <2>6. MiniaturizeOne(d, c) = FocusSuccessorOf(h, c)
    BY <1>2 DEF MiniaturizeOne, h, e
  <2> QED BY <2>4, <2>5, <2>6, FocusSame, FocusTidy
<1> QED BY <1>1, <1>2

\* A window sent to a workspace that is not on screen is hidden.
LEMMA SentAwayBut ==
  ASSUME NEW was, NEW d, Good(was, d), NEW c \in Client, NEW w \in Workspace, w < d.count
  PROVE  SameBut(c, d, SentAway(d, c, w)) /\ SentAway(d, c, w).mapped = d.mapped \ {c}
<1> DEFINE given == IF d.focused = c THEN FocusAdjacent(d, TRUE) ELSE d
           h == Homed(given, c, w)
           e == Hide(h, {c})
<1>1. Good(was, given)
  BY FocusAdjacentGood
<1>2. SameBut(c, d, given) /\ given.mapped = d.mapped
  <2>1. SameBut(c, d, d)
    BY DEF SameBut
  <2> QED BY <2>1, FocusSame, FocusBut DEF Good
<1>3. SentAway(d, c, w) = DropFocusOf(e, c)
  BY DEF SentAway
<1>4. w < given.count
  BY FocusSame DEF Good, SameScreen, SameHomes
<1> HIDE DEF given
<1>5. SameBut(c, given, h) /\ h.mapped = d.mapped /\ h \in Desk
  BY <1>1, <1>2, <1>4, HomedBut, HomedGood DEF Good
<1> HIDE DEF h
<1>6. SameBut(c, h, e) /\ e.mapped = d.mapped \ {c} /\ e \in Desk
  <2>1. e \in Desk
    BY <1>5 DEF Hide, Desk
  <2> QED BY <1>5, <2>1, MappedBut
<1> HIDE DEF e
<1>7. SameBut(c, e, DropFocusOf(e, c)) /\ DropFocusOf(e, c).mapped = d.mapped \ {c}
  BY <1>6, FocusSame, FocusBut
<1> QED BY <1>2, <1>3, <1>5, <1>6, <1>7, SameButChain

\* A window moved to a workspace is mapped only if it is on screen there; and
\* one moved to the workspace on screen is on screen, unless it is an icon.
LEMMA MoveOneToWorkspaceTidy ==
  ASSUME NEW was, NEW d, Good(was, d), Tidy(d), NEW c \in Client, NEW w \in Nat
  PROVE  /\ Tidy(MoveOneToWorkspace(d, c, w))
         /\ w = d.current /\ c \in Normal(d) => c \in OnScreen(MoveOneToWorkspace(d, c, w))
<1> DEFINE e == MoveOneToWorkspace(d, c, w)
<1>1. CASE TooFar(w)
  <2>1. e = d
    BY <1>1 DEF MoveOneToWorkspace
  <2>2. w # d.current
    BY <1>1, MaxWorkspacesAssumption DEF TooFar, Good, Desk, Workspace
  <2> QED BY <2>1, <2>2
<1>2. CASE ~TooFar(w)
  <2> DEFINE grown == Grown(d, w)
             out   == LeaveSpecial(grown, c)
             home  == Homed(out, c, w)
  <2>1. w \in Workspace /\ Good(was, grown)
    BY <1>2, InRange, GrownGood
  <2>2. SamePlaces(d, grown) /\ grown.mapped = d.mapped /\ w < grown.count
    BY <2>1, GrownIs DEF Good, SameSession, SamePlaces
  <2>3. SameBut(c, d, grown)
    BY <2>2 DEF SamePlaces, SameBut
  <2> HIDE DEF grown
  <2>4. Good(was, out)
    BY <2>1, LeaveSpecialGood
  <2>5. /\ SameBut(c, grown, out) /\ out.mapped = d.mapped /\ w < out.count
        /\ out.live = d.live /\ out.minimized = d.minimized /\ out.sticky = d.sticky
        /\ out.current = d.current /\ out.special[c] = NoSpecial
    <3>1. LET o == LeaveSpecial(grown, c) IN
          /\ SameSession(grown, o) /\ o.special = [grown.special EXCEPT ![c] = NoSpecial]
          /\ o.minimized = grown.minimized /\ o.sticky = grown.sticky
          /\ o.current = grown.current /\ o.count = grown.count /\ o.mapped = grown.mapped
      BY <2>1, LeaveSpecialSame DEF Good
    <3>2. SameBut(c, grown, out)
      BY <2>1, HomedBut DEF Good
    <3>3. grown.special \in [Client -> SpecialOrNone]
      BY <2>1 DEF Good, Desk
    <3> QED BY <2>2, <3>1, <3>2, <3>3 DEF SamePlaces, SameSession
  <2> HIDE DEF out
  <2>6. /\ SameBut(c, out, home) /\ home.mapped = d.mapped /\ home \in Desk
        /\ home.live = d.live /\ home.minimized = d.minimized /\ home.sticky = d.sticky
        /\ home.current = d.current /\ home.special[c] = NoSpecial /\ home.workspace[c] = w
    BY <2>1, <2>4, <2>5, HomedBut, HomedGood DEF Good
  <2> HIDE DEF home
  <2>7. SameBut(c, d, out) /\ SameBut(c, d, home)
    BY <2>3, <2>5, <2>6, SameButChain
  <2>8. d.live \subseteq Client /\ Normal(home) = Normal(d)
    BY <2>6 DEF Good, Desk, Normal
  <2>9. CASE d.workspace[c] = w /\ d.special[c] = NoSpecial
    <3>1. e = grown
      BY <1>2, <2>9 DEF MoveOneToWorkspace, grown
    <3>2. OnScreen(grown) = OnScreen(d)
      BY <2>2, PlacesOnScreen
    <3> QED BY <2>2, <2>9, <3>1, <3>2 DEF Tidy, OnScreen, Placed
  <2>10. CASE ~(d.workspace[c] = w /\ d.special[c] = NoSpecial) /\ w # d.current /\ c \notin d.sticky
    <3>1. e = SentAway(out, c, w)
      BY <1>2, <2>10 DEF MoveOneToWorkspace, grown, out
    <3>2. SameBut(c, d, e) /\ e.mapped = d.mapped \ {c}
      BY <2>1, <2>4, <2>5, <2>7, <3>1, SentAwayBut, SameButChain
    <3> HIDE DEF e
    <3>3. Tidy(e)
      BY <2>8, <3>2, TidyBut
    <3> QED BY <2>10, <3>3 DEF e
  <2>11. CASE ~(d.workspace[c] = w /\ d.special[c] = NoSpecial) /\ ~(w # d.current /\ c \notin d.sticky)
    <3>1. c \in Normal(d) => c \in OnScreen(home)
      BY <2>6, <2>8, <2>11 DEF OnScreen, Placed
    <3>2. c \in d.mapped => c \in Normal(d)
      BY DEF Tidy, OnScreen
    <3>3. Tidy(home)
      BY <2>6, <2>7, <2>8, <3>1, <3>2, TidyBut
    <3>4. e = IF d.special[c] # NoSpecial /\ c \in Normal(d) THEN Show(home, {c}) ELSE home
      BY <1>2, <2>11 DEF MoveOneToWorkspace, grown, out, home
    <3>5. c \in Normal(d) => Tidy(Show(home, {c})) /\ OnScreen(Show(home, {c})) = OnScreen(home)
      <4>1. SamePlaces(home, Show(home, {c}))
        BY <2>6 DEF Desk, SamePlaces, Show
      <4> QED BY <2>6, <3>1, <3>3, <4>1, ShowTidy, PlacesOnScreen
    <3> QED BY <3>1, <3>3, <3>4, <3>5
  <2> QED BY <2>9, <2>10, <2>11
<1> QED BY <1>1, <1>2

\* A window moved to a special workspace is mapped only if that one is shown.
LEMMA MoveOneToSpecialTidy ==
  ASSUME NEW was, NEW d, Good(was, d), Tidy(d), NEW c \in d.live, NEW s \in SpecialNames
  PROVE  Tidy(MoveOneToSpecial(d, c, s))
<1> DEFINE out == LeaveSpecial(d, c)
           in  == [out EXCEPT !.special[c] = s, !.members[s] = Append(@, c)]
           given == FocusSuccessorOf(in, c)
           away == Hide(given, {c})
<1>0. c \in Client /\ d.live \subseteq Client /\ s # NoSpecial
  BY NoSpecialAssumption DEF Good, Desk
<1>1. Good(was, out) /\ Good(was, in) /\ in \in Desk
  <2>1. in = Enrolled(d, c, s)
    BY DEF Enrolled
  <2>2. Good(was, in)
    BY <2>1, EnrolledGood
  <2>3. Good(was, out)
    BY <1>0, LeaveSpecialGood
  <2> HIDE DEF in, out
  <2> QED BY <2>2, <2>3 DEF Good
<1>2. /\ SameBut(c, d, out) /\ out.mapped = d.mapped /\ out.live = d.live
      /\ out.minimized = d.minimized /\ out.shown = d.shown
  BY <1>0, HomedBut, LeaveSpecialSame, MaxWorkspacesAssumption DEF Good, SameSession, Desk
<1>3. CASE d.special[c] = s
  BY <1>3 DEF MoveOneToSpecial
<1>4. CASE d.special[c] # s
  <2>1. /\ in.shown = out.shown /\ in.current = out.current /\ in.live = out.live
        /\ in.minimized = out.minimized /\ in.sticky = out.sticky
        /\ in.workspace = out.workspace /\ in.special = [out.special EXCEPT ![c] = s]
        /\ in.mapped = out.mapped
    BY <1>1 DEF Good, Desk
  <2>2. out.special \in [Client -> SpecialOrNone]
    BY <1>1 DEF Good, Desk
  <2> HIDE DEF in, out
  <2>4. SameBut(c, out, in) /\ in.special[c] = s
    BY <1>0, <2>1, <2>2 DEF SameBut
  <2>5. SameBut(c, d, in) /\ in.mapped = d.mapped
    BY <1>2, <2>1, <2>4, SameButChain
  <2>6. CASE d.shown = s
    <3>1. c \in Normal(d) => c \in OnScreen(in)
      BY <1>0, <1>2, <2>1, <2>4, <2>6 DEF OnScreen, Normal, Placed
    <3>2. Tidy(in)
      BY <1>0, <2>5, <3>1, TidyBut DEF Tidy, OnScreen
    <3>3. c \in Normal(d) => Tidy(Show(in, {c}))
      BY <1>1, <3>1, <3>2, ShowTidy
    <3>4. MoveOneToSpecial(d, c, s) = IF c \in Normal(d) THEN Show(in, {c}) ELSE in
      BY <1>4, <2>6 DEF MoveOneToSpecial, in, out
    <3> QED BY <3>2, <3>3, <3>4
  <2>7. CASE d.shown # s
    <3>1. MoveOneToSpecial(d, c, s) = away
      BY <1>4, <2>7 DEF MoveOneToSpecial, in, out
    <3>2. SameScreen(in, given)
      BY <1>1, FocusSame
    <3>3. SameBut(c, in, given) /\ given.mapped = d.mapped
      BY <2>5, <3>2, FocusBut
    <3>4. away.mapped = d.mapped \ {c} /\ SameBut(c, given, away)
      <4>1. given \in Desk
        BY <1>1, FocusSuccessorOfGood DEF Good
      <4> QED BY <4>1, <3>3, MappedBut
    <3> HIDE DEF given, away
    <3>5. SameBut(c, d, away)
      BY <2>5, <3>3, <3>4, SameButChain
    <3>6. Tidy(away)
      BY <1>0, <3>4, <3>5, TidyBut
    <3> QED BY <3>1, <3>6
  <2> QED BY <2>6, <2>7
<1> QED BY <1>3, <1>4

\* A window back from its icon is on the workspace on screen.
LEMMA DeminiaturizeOneTidy ==
  ASSUME NEW was, NEW d, Good(was, d), Tidy(d), NEW c \in d.live
  PROVE  Tidy(DeminiaturizeOne(d, c))
<1> DEFINE e  == [d EXCEPT !.minimized = @ \ {c}]
           up == MoveOneToWorkspace(e, c, e.current)
<1>1. CASE c \notin d.minimized
  BY <1>1 DEF DeminiaturizeOne
<1>2. CASE c \in d.minimized
  <2>1. d.minimized \ {c} \in SUBSET d.live
    BY DEF Good
  <2>2. Good(was, e)
    BY <2>1, IconsGood
  <2>3. /\ SameBut(c, d, e) /\ e.mapped = d.mapped /\ e.current = d.current
        /\ e.live = d.live /\ e.minimized = d.minimized \ {c}
    BY DEF Good, Desk, SameBut
  <2>4. c \notin d.mapped /\ c \in Client /\ d.live \subseteq Client
    BY <1>2 DEF Tidy, OnScreen, Normal, Good, Desk
  <2>5. DeminiaturizeOne(d, c) = FocusClient(Show(up, {c}), c)
    BY <1>2, <2>3 DEF DeminiaturizeOne
  <2> HIDE DEF e
  <2>6. Tidy(e) /\ c \in Normal(e)
    BY <2>3, <2>4, TidyBut DEF Normal
  <2>7. e.current \in Nat
    BY <2>2, MaxWorkspacesAssumption DEF Good, Desk, Workspace
  <2>8. Good(was, up) /\ Tidy(up) /\ c \in OnScreen(up)
    BY <2>2, <2>4, <2>6, <2>7, MoveOneToWorkspaceGood, MoveOneToWorkspaceTidy
  <2> HIDE DEF up
  <2>9. Tidy(Show(up, {c})) /\ Show(up, {c}) \in Desk
    <3>1. {c} \in SUBSET Client /\ {c} \subseteq OnScreen(up)
      BY <2>4, <2>8
    <3> QED BY <2>8, <3>1, ShowTidy, ShowGood DEF Good
  <2> QED BY <2>5, <2>9, FocusSame, FocusTidy
<1> QED BY <1>1, <1>2

\* One round of a family loop is tidy, whichever the operation.
LEMMA StepTidy ==
  ASSUME NEW op \in Ops, NEW was, NEW d, Good(was, d), Tidy(d), NEW c \in was.live
  PROVE  Tidy(Step(op, d, c))
<1>0. c \in Client /\ c \in d.live
  BY DEF Good, Desk, SameSession
<1>1. CASE op = ToIcon
  <2>1. Step(op, d, c) = MiniaturizeOne(d, c)
    BY <1>1 DEF Step, ToIcon
  <2> QED BY <2>1, MiniaturizeOneTidy
<1>2. CASE op = FromIcon
  <2>1. Step(op, d, c) = DeminiaturizeOne(d, c)
    BY <1>2 DEF Step, FromIcon
  <2> QED BY <1>0, <2>1, DeminiaturizeOneTidy
<1>3. ASSUME NEW w \in Nat, op = ToWorkspace(w) PROVE Tidy(Step(op, d, c))
  <2>1. Step(op, d, c) = MoveOneToWorkspace(d, c, w)
    BY <1>3 DEF Step, ToWorkspace
  <2> QED BY <1>0, <2>1, MoveOneToWorkspaceTidy
<1>4. ASSUME NEW s \in SpecialNames, op = ToSpecial(s) PROVE Tidy(Step(op, d, c))
  <2>1. Step(op, d, c) = MoveOneToSpecial(d, c, s)
    BY <1>4 DEF Step, ToSpecial
  <2> QED BY <1>0, <2>1, MoveOneToSpecialTidy
<1> QED BY <1>1, <1>2, <1>3, <1>4 DEF Ops

\* A family operation is tidy.
LEMMA ForFamilyTidy ==
  ASSUME NEW op \in Ops, NEW was, NEW d, Good(was, d), Tidy(d), NEW c \in was.live
  PROVE  Tidy(ForFamily(op, d, c))
<1> DEFINE V == {e \in Desk : Good(was, e) /\ Tidy(e)}
<1>1. \A e : e \in V <=> Good(was, e) /\ Tidy(e)
  BY DEF Good
<1> HIDE DEF V
<1>2. \A e \in V : \A k \in was.live : Step(op, e, k) \in V
  BY <1>1, StepGood, StepTidy
<1>3. FamilyOrder(d, c) \in Seq(was.live)
  <2>1. d \in Desk /\ d.live = was.live
    BY DEF Good, SameSession
  <2> QED BY <2>1, FamilyOrderType
<1>4. ForFamily(op, d, c) \in V
  BY <1>1, <1>2, <1>3, ForEachKeeps DEF ForFamily
<1> QED BY <1>1, <1>4

\* A family that moves to a special, followed or not, leaves the screen tidy.
LEMMA MoveToSpecialTidy ==
  ASSUME NEW was, NEW d, Good(was, d), Tidy(d), NEW c \in was.live, NEW s \in SpecialNames, NEW follow
  PROVE  Tidy(MoveToSpecial(d, c, s, follow))
<1> DEFINE made  == Create(d, s)
           moved == ForFamily(ToSpecial(s), made, c)
           shown == ShowSpecial(moved, s)
<1>1. SamePlaces(d, made) /\ made.mapped = d.mapped
  BY DEF Good, Desk, Create, SamePlaces
<1>2. Tidy(made) /\ Good(was, made) /\ ToSpecial(s) \in Ops
  BY <1>1, PlacesOnScreen, CreateGood DEF Tidy, Ops
<1>3. MoveToSpecial(d, c, s, follow) = IF follow THEN FocusClient(shown, c) ELSE moved
  BY DEF MoveToSpecial, Followed
<1> HIDE DEF made
<1>4. Good(was, moved) /\ Tidy(moved)
  BY <1>2, ForFamilyGood, ForFamilyTidy
<1> HIDE DEF moved
<1>5. Good(was, shown) /\ Tidy(shown)
  BY <1>4, ShowSpecialGood, ShowSpecialTidy
<1> HIDE DEF shown
<1>6. Tidy(FocusClient(shown, c))
  BY <1>5, FocusSame, FocusTidy DEF Good
<1> QED BY <1>3, <1>4, <1>6

\* A redrawn screen is tidy whatever was mapped, icons apart.
LEMMA RedrawnTidy ==
  ASSUME NEW d \in Desk, d.mapped \subseteq Normal(d)
  PROVE  Tidy(Redrawn(d))
<1>1. SamePlaces(d, Redrawn(d)) /\ Redrawn(d).mapped = OnScreen(d)
  BY DEF Desk, Redrawn, SamePlaces
<1> QED BY <1>1, PlacesOnScreen DEF Tidy

\* A switch of workspace is tidy.
LEMMA SwitchToTidy ==
  ASSUME NEW was, NEW d, Good(was, d), Tidy(d), NEW w \in Nat, NEW arriving
  PROVE  Tidy(SwitchTo(d, w, arriving))
<1>1. CASE TooFar(w) \/ w = d.current
  BY <1>1 DEF SwitchTo
<1>2. CASE ~(TooFar(w) \/ w = d.current)
  <2> DEFINE bare == IF HideSpecialOnSwitch THEN HideSpecial(d) ELSE d
             there == Entered(bare, w)
             drawn == Redrawn(there)
  <2>1. Good(was, bare) /\ Tidy(bare) /\ w \in Workspace
    BY <1>2, HideSpecialGood, HideSpecialTidy, InRange
  <2>2. SwitchTo(d, w, arriving) = KeyboardFor(drawn, arriving)
    BY <1>2 DEF SwitchTo
  <2> HIDE DEF bare
  <2>3. Good(was, there) /\ there.mapped = bare.mapped /\ Normal(there) = Normal(bare)
    <3> DEFINE g == Grown(bare, w)
    <3>1. g.mapped = bare.mapped /\ g.live = bare.live /\ g.minimized = bare.minimized /\ g \in Desk
      BY <2>1, GrownIs, GrownGood DEF Good, SameSession
    <3>2. there = [g EXCEPT !.previous = bare.current, !.current = w]
      BY DEF Entered
    <3> HIDE DEF g, there
    <3>3. there.mapped = g.mapped /\ there.live = g.live /\ there.minimized = g.minimized
      BY <3>1, <3>2 DEF Desk
    <3> QED BY <2>1, <3>1, <3>3, EnteredGood DEF Normal, there
  <2> HIDE DEF there
  <2>4. Good(was, drawn) /\ Tidy(drawn)
    BY <2>1, <2>3, RedrawnGood, RedrawnTidy DEF Good, Tidy, OnScreen
  <2> HIDE DEF drawn
  <2>5. drawn \in Desk
    BY <2>4 DEF Good
  <2>6. /\ Tidy(FocusClient(drawn, arriving))
        /\ Tidy(FocusSuccessorOf(drawn, drawn.focused))
        /\ Tidy(FocusIfAny(drawn, Successor(drawn, NoClient)))
    BY <2>4, <2>5, FocusSame, FocusTidy
  <2>7. KeyboardFor(drawn, arriving) \in
          {drawn, FocusClient(drawn, arriving), FocusSuccessorOf(drawn, drawn.focused),
           FocusIfAny(drawn, Successor(drawn, NoClient))}
    BY DEF KeyboardFor
  <2> QED BY <2>2, <2>4, <2>6, <2>7
<1> QED BY <1>1, <1>2

\* So is the removal of a workspace: the windows of the one on screen stay on
\* it, and those the merge brings to it are on it.
LEMMA WithoutWorkspaceTidy ==
  ASSUME NEW was, NEW d, Good(was, d), Tidy(d), d.count > 1, NEW w \in Nat, w < d.count
  PROVE  Tidy(WithoutWorkspace(d, w))
<1> DEFINE merged == Merged(d, w)
           joined == Show(merged, Revealed(d, merged))
<1>1. Good(was, merged)
  BY MergedGood
<1>2. /\ merged.live = d.live /\ merged.minimized = d.minimized /\ merged.sticky = d.sticky
      /\ merged.special = d.special /\ merged.shown = d.shown /\ merged.mapped = d.mapped
      /\ merged.current = Remap(w, d.current)
      /\ merged.workspace = [c \in Client |-> Remap(w, d.workspace[c])]
  BY DEF Good, Desk, Merged
<1>3. WithoutWorkspace(d, w) = FocusSomebody(joined)
  BY DEF WithoutWorkspace
<1>4. d.live \subseteq Client
  BY DEF Good, Desk
<1> HIDE DEF merged
<1>5. \A c \in Client : merged.workspace[c] = Remap(w, d.workspace[c])
  BY <1>2
<1>6. Tidy(merged)
  <2> SUFFICES ASSUME NEW c \in d.mapped PROVE c \in OnScreen(merged)
    BY <1>2 DEF Tidy
  <2>1. c \in OnScreen(d) /\ c \in Client
    BY <1>4 DEF Tidy, OnScreen, Normal
  <2> QED BY <1>2, <1>5, <2>1 DEF OnScreen, Normal, Placed
<1>7. Revealed(d, merged) \subseteq OnScreen(merged)
  BY <1>2 DEF Revealed, OnScreen, Normal, Placed
<1>8. Tidy(joined) /\ joined \in Desk
  <2>1. Revealed(d, merged) \in SUBSET Client
    BY <1>4 DEF Revealed, Normal
  <2> QED BY <1>1, <1>6, <1>7, <2>1, ShowTidy, ShowGood DEF Good
<1> HIDE DEF joined
<1>9. Tidy(FocusIfAny(joined, Successor(joined, NoClient)))
  BY <1>8, FocusSame, FocusTidy
<1> QED BY <1>3, <1>8, <1>9 DEF FocusSomebody

\* Records with the same places and the same windows mapped are as tidy.
LEMMA SameTidy ==
  ASSUME NEW d, NEW e, SamePlaces(d, e), e.mapped = d.mapped, Tidy(d)
  PROVE  Tidy(e)
  BY PlacesOnScreen DEF Tidy

\* Bringing a window on screen is tidy.
LEMMA BroughtTidy ==
  ASSUME NEW was, NEW d, Good(was, d), Tidy(d), NEW c
  PROVE  Tidy(Brought(d, c))
<1>1. CASE c \notin Normal(d) \/ Placed(d, c)
  BY <1>1 DEF Brought
<1>2. CASE ~(c \notin Normal(d) \/ Placed(d, c))
  <2>1. c \in Client
    BY <1>2 DEF Normal, Good, Desk
  <2>2. d.workspace[c] \in Nat /\ d.special[c] \in SpecialOrNone
    BY <2>1, MaxWorkspacesAssumption DEF Good, Desk, Workspace
  <2>3. Tidy(SwitchTo(d, d.workspace[c], c))
    BY <2>2, SwitchToTidy
  <2>4. d.special[c] # NoSpecial => Tidy(ShowSpecial(d, d.special[c]))
    BY <2>2, ShowSpecialTidy DEF SpecialOrNone
  <2>5. Brought(d, c) = IF d.special[c] # NoSpecial THEN ShowSpecial(d, d.special[c])
                        ELSE SwitchTo(d, d.workspace[c], c)
    BY <1>2 DEF Brought
  <2> QED BY <2>3, <2>4, <2>5
<1> QED BY <1>1, <1>2

\* Restoring a window, bringing it on screen and focusing it is tidy.
LEMMA PresentedTidy ==
  ASSUME NEW was, NEW d, Good(was, d), Tidy(d), NEW c
  PROVE  Tidy(Presented(d, c))
<1> DEFINE up    == Restored(d, c)
           there == BringIntoView(up, c)
<1>1. Tidy(up)
  <2>1. CASE c \in d.minimized
    <3>1. c \in was.live /\ FromIcon \in Ops
      BY <2>1 DEF Good, SameSession, Ops
    <3> QED BY <2>1, <3>1, ForFamilyTidy DEF Restored
  <2>2. CASE c \notin d.minimized
    BY <2>2 DEF Restored
  <2> QED BY <2>1, <2>2
<1>2. Good(was, up)
  BY RestoredGood
<1>3. Presented(d, c) = FocusClient(there, c)
  BY DEF Presented
<1> HIDE DEF up
<1>4. Good(was, there) /\ Tidy(there)
  BY <1>1, <1>2, BringIntoViewGood, BroughtTidy DEF BringIntoView
<1> HIDE DEF there
<1> QED BY <1>3, <1>4, FocusSame, FocusTidy DEF Good

\* An activation is tidy, deferred or done.
LEMMA ActivateClientTidy ==
  ASSUME NEW was, NEW d, Good(was, d), Tidy(d), NEW c \in Client
  PROVE  Tidy(ActivateClient(d, c))
<1> DEFINE asked == [d EXCEPT !.urgent = @ \cup {c}]
<1>1. Tidy(asked)
  <2>1. SamePlaces(d, asked) /\ asked.mapped = d.mapped
    BY DEF Good, Desk, SamePlaces
  <2> QED BY <2>1, SameTidy
<1>2. ActivateClient(d, c) \in {d, asked, Presented(d, c)}
  BY DEF ActivateClient, asked
<1> QED BY <1>1, <1>2, PresentedTidy

\* Opening, turning and closing the switcher moves no window.
LEMMA CycleTidy ==
  ASSUME NEW was, NEW d, Good(was, d), Tidy(d), NEW delta, NEW c
  PROVE  Tidy(CycleBy(d, delta)) /\ Tidy(CycleClosed(d)) /\ Tidy(CycleWithout(d, c))
<1>1. ASSUME NEW session, NEW on PROVE Tidy([d EXCEPT !.cycle = session, !.grabbed = on])
  <2> DEFINE e == [d EXCEPT !.cycle = session, !.grabbed = on]
  <2>1. SamePlaces(d, e) /\ e.mapped = d.mapped
    BY DEF Good, Desk, SamePlaces
  <2> HIDE DEF e
  <2>2. Tidy(e)
    BY <2>1, SameTidy
  <2> QED BY <2>2 DEF e
<1>2. ASSUME NEW session PROVE Tidy([d EXCEPT !.cycle = session])
  <2> DEFINE e == [d EXCEPT !.cycle = session]
  <2>1. SamePlaces(d, e) /\ e.mapped = d.mapped
    BY DEF Good, Desk, SamePlaces
  <2> HIDE DEF e
  <2>2. Tidy(e)
    BY <2>1, SameTidy
  <2> QED BY <2>2 DEF e
<1>3. \A session : Tidy(Turned(d, session, delta))
  BY <1>1 DEF Turned
<1>4. Tidy(CycleBy(d, delta))
  BY <1>3 DEF CycleBy
<1>5. Tidy(CycleClosed(d))
  BY <1>1 DEF CycleClosed
<1>6. Tidy(CycleWithout(d, c))
  <2> DEFINE order == Without(d.cycle.order, c)
             selected == IF d.cycle.selected > Len(order) - 1 THEN Len(order) - 1
                         ELSE d.cycle.selected
             session == [d.cycle EXCEPT !.order = order, !.selected = selected]
             e == [d EXCEPT !.cycle = session]
  <2>1. d.cycle \in CycleSession
    BY DEF Good, Desk
  <2>2. CASE ~d.cycle.open
    BY <2>2 DEF CycleWithout
  <2>3. CASE order = <<>> /\ d.cycle.open
    BY <1>5, <2>3 DEF CycleWithout
  <2>4. CASE order # <<>> /\ d.cycle.open
    <3>1. CycleWithout(d, c) = e
      <4> HIDE DEF order
      <4> QED BY <2>1, <2>4 DEF CycleWithout, order, Good, Desk, CycleSession
    <3> HIDE DEF session
    <3> QED BY <1>2, <3>1
  <2> QED BY <2>2, <2>3, <2>4
<1> QED BY <1>4, <1>5, <1>6

\* So is releasing Alt, which presents the selection.
LEMMA CycleCommittedTidy ==
  ASSUME NEW was, NEW d, Good(was, d), Tidy(d)
  PROVE  Tidy(CycleCommitted(d))
<1> DEFINE closed == CycleClosed(d)
<1>1. Good(closed, closed) /\ Tidy(closed)
  BY CycleClosedGood, CycleTidy
<1>2. CycleCommitted(d) = Presented(closed, d.cycle.order[d.cycle.selected + 1])
  BY DEF CycleCommitted
<1> HIDE DEF closed
<1> QED BY <1>1, <1>2, PresentedTidy

\* Whether a fresh window with parent p is filed on the workspace on screen.
FiledHere(d, p) == p = NoClient \/ d.workspace[p] = d.current

\* A window filed on the workspace on screen arrives on screen.
LEMMA FreshTidy ==
  ASSUME NEW was, NEW d, Good(was, d), Tidy(d), NEW c \in Client \ d.live,
         NEW p \in d.live \cup {NoClient}, FiledHere(d, p),
         NEW modal \in BOOLEAN, NEW rule \in MapRule
  PROVE  Tidy(Fresh(d, c, p, modal, rule))
<1> DEFINE e == Fresh(d, c, p, modal, rule)
           sticky == IF rule.pin THEN d.sticky \cup {c} ELSE d.sticky
           home == IF p = NoClient THEN d.current ELSE d.workspace[p]
<1>0. home = d.current
  BY DEF FiledHere
<1> HIDE DEF home
<1>1. /\ e.live = d.live \cup {c} /\ e.minimized = d.minimized /\ e.sticky = sticky
      /\ e.special = d.special /\ e.workspace = [d.workspace EXCEPT ![c] = home]
      /\ e.shown = d.shown /\ e.current = d.current /\ e.mapped = d.mapped \cup {c}
  BY DEF Good, Desk, Fresh, home
<1>2. \A k \in Client \ {c} : k \in sticky <=> k \in d.sticky
  OBVIOUS
<1>3. d.workspace \in [Client -> Workspace] /\ d.live \subseteq Client
  BY DEF Good, Desk
<1> HIDE DEF e, sticky
<1>4. \A k \in Client : e.workspace[k] = IF k = c THEN d.current ELSE d.workspace[k]
  BY <1>0, <1>1, <1>3
<1>5. SameBut(c, d, e)
  BY <1>1, <1>2, <1>4 DEF SameBut
<1>6. d.special[c] = NoSpecial /\ c \notin d.minimized
  BY DEF Good, MembersHold
<1>7. c \in OnScreen(e)
  BY <1>1, <1>4, <1>6 DEF OnScreen, Normal, Placed
<1>8. Tidy(e)
  BY <1>1, <1>3, <1>5, <1>7, TidyBut
<1> QED BY <1>8 DEF e

\* It settles tidily wherever its rule, or its parent's special, sends it.
LEMMA SettledTidy ==
  ASSUME NEW was, NEW d, Good(was, d), Tidy(d), NEW c \in was.live, NEW p \in ClientOrNone,
         NEW target \in RuleTarget
  PROVE  Tidy(Settled(d, c, p, target))
<1>1. /\ target.kind \in {"inherit", "numbered", "special"}
      /\ target.kind = "numbered" => target.to \in Nat
      /\ target.kind = "special" => target.to \in SpecialNames
  BY DEF RuleTarget
<1>2. CASE target.kind = "numbered"
  <2> DEFINE moved == ForFamily(ToWorkspace(target.to), d, c)
  <2>1. target.to \in Nat /\ ToWorkspace(target.to) \in Ops
    BY <1>1, <1>2 DEF Ops
  <2>2. Good(was, moved) /\ Tidy(moved)
    BY <2>1, ForFamilyGood, ForFamilyTidy
  <2>3. Settled(d, c, p, target) = IF target.silent THEN moved
                                   ELSE SwitchTo(moved, target.to, c)
    BY <1>2 DEF Settled
  <2> HIDE DEF moved
  <2> QED BY <2>1, <2>2, <2>3, SwitchToTidy
<1>3. CASE target.kind = "special" /\ CanCreate(d, target.to)
  <2>1. Settled(d, c, p, target) = MoveToSpecial(d, c, target.to, ~target.silent)
    BY <1>3 DEF Settled
  <2> QED BY <1>1, <1>3, <2>1, MoveToSpecialTidy
<1>4. CASE ~(target.kind = "numbered" \/ (target.kind = "special" /\ CanCreate(d, target.to)))
  <2>1. Settled(d, c, p, target) = Inherited(d, c, p)
    BY <1>4 DEF Settled
  <2>2. c \in d.live
    BY DEF Good, SameSession
  <2>3. p # NoClient /\ d.special[p] # NoSpecial => d.special[p] \in SpecialNames
    BY DEF Good, Desk, SpecialOrNone, ClientOrNone
  <2> QED BY <2>1, <2>2, <2>3, MoveOneToSpecialTidy DEF Inherited
<1> QED BY <1>2, <1>3, <1>4

\* So the arrival of a window filed on the workspace on screen is tidy.
LEMMA MapClientTidy ==
  ASSUME NEW was, NEW d, Good(was, d), Honest(d), Tidy(d), NEW c \in Client \ d.live,
         NEW p \in d.live \cup {NoClient}, FiledHere(d, p),
         NEW modal \in BOOLEAN, NEW rule \in MapRule
  PROVE  Tidy(MapClient(d, c, p, modal, rule))
<1> DEFINE fresh == Fresh(d, c, p, modal, rule)
           homed == Settled(fresh, c, p, rule.target)
           e == MapClient(d, c, p, modal, rule)
<1>1. rule.target \in RuleTarget /\ p \in Client \cup {NoClient} /\ p \in ClientOrNone
  BY DEF MapRule, Good, Desk, ClientOrNone
<1>2. Good(fresh, fresh) /\ c \in fresh.live /\ Tidy(fresh)
  BY FreshGood, FreshTidy
<1> HIDE DEF fresh
<1>3. Good(fresh, homed) /\ Tidy(homed)
  BY <1>1, <1>2, SettledGood, SettledTidy
<1>4. e \in {homed, FocusClient(homed, c)}
  BY DEF MapClient, fresh
<1> HIDE DEF homed, e
<1>5. homed \in Desk
  BY <1>3 DEF Good
<1>6. Tidy(FocusClient(homed, c))
  BY <1>3, <1>5, FocusSame, FocusTidy
<1>7. Tidy(e)
  BY <1>3, <1>4, <1>6
<1> QED BY <1>7 DEF e

\* A window that is gone is not mapped, and the others stay where they are.
LEMMA ErasedTidy ==
  ASSUME NEW was, NEW d, Good(was, d), Tidy(d), NEW c \in Client
  PROVE  Tidy(Erased(d, c))
<1> DEFINE e == Erased(d, c)
<1>1. /\ e.live = d.live \ {c} /\ e.minimized = d.minimized \ {c} /\ e.sticky = d.sticky \ {c}
      /\ e.special = [d.special EXCEPT ![c] = NoSpecial]
      /\ e.workspace = [d.workspace EXCEPT ![c] = 0]
      /\ e.shown = d.shown /\ e.current = d.current /\ e.mapped = d.mapped \ {c}
  BY DEF Good, Desk, Erased
<1>2. /\ d.workspace \in [Client -> Workspace] /\ d.special \in [Client -> SpecialOrNone]
      /\ d.live \subseteq Client
  BY DEF Good, Desk
<1> HIDE DEF e
<1>3. SameBut(c, d, e)
  BY <1>1, <1>2 DEF SameBut
<1>4. Tidy(e)
  BY <1>1, <1>2, <1>3, TidyBut
<1> QED BY <1>4 DEF e

\* Its departure is tidy, whoever inherits the keyboard.
LEMMA ForgottenTidy ==
  ASSUME NEW was, NEW d, Good(was, d), Tidy(d), NEW c \in Client
  PROVE  Tidy(Forgotten(d, c))
<1> DEFINE gone    == Erased(d, c)
           settled == IF d.focused = c THEN Inheriting(gone, d.special[c]) ELSE gone
<1>1. Good(gone, gone) /\ Tidy(gone)
  BY ErasedGood, ErasedTidy
<1>2. Forgotten(d, c) = CycleWithout(settled, c)
  BY DEF Forgotten
<1> HIDE DEF gone
<1>3. \A k : Tidy(HandOver(gone, k)) /\ Good(gone, HandOver(gone, k))
  <2> TAKE k
  <2>1. gone \in Desk
    BY <1>1 DEF Good
  <2>2. SameScreen(gone, FocusClient(gone, k))
    BY <2>1, FocusSame
  <2>4. SameScreen(gone, DropFocus(gone))
    BY <2>1 DEF DropFocus, Desk, SameScreen, SameSession, SameHomes
  <2>3. Tidy(FocusClient(gone, k)) /\ Tidy(DropFocus(gone))
    BY <1>1, <2>2, <2>4, FocusTidy
  <2> QED BY <1>1, <2>3, HandOverGood DEF HandOver
<1>4. Good(gone, settled) /\ Tidy(settled)
  BY <1>1, <1>3 DEF Inheriting
<1> HIDE DEF settled
<1> QED BY <1>2, <1>4, CycleTidy

\* Pinning shows a window and unpinning hides it when its place is not on screen.
LEMMA PinnedTidy ==
  ASSUME NEW was, NEW d, Good(was, d), Tidy(d), NEW c \in Client, NEW on \in BOOLEAN
  PROVE  Tidy(Pinned(d, c, on))
<1> DEFINE sticky == IF on THEN d.sticky \cup {c} ELSE d.sticky \ {c}
           set == [d EXCEPT !.sticky = sticky]
           given == FocusSuccessorOf(set, c)
<1>1. sticky \in SUBSET Client /\ \A k \in Client \ {c} : k \in sticky <=> k \in d.sticky
  BY DEF Good, Desk
<1>2. Pinned(d, c, on) = IF (c \in d.sticky) = on THEN d
                         ELSE IF c \notin OnScreen(set) THEN Hide(given, {c})
                         ELSE IF on THEN Show(set, {c}) ELSE set
  BY DEF Pinned, Good, Desk
<1> HIDE DEF sticky
<1>3. /\ set \in Desk /\ set.mapped = d.mapped /\ set.live = d.live
      /\ set.minimized = d.minimized /\ set.sticky = sticky /\ set.special = d.special
      /\ set.workspace = d.workspace /\ set.shown = d.shown /\ set.current = d.current
  BY <1>1 DEF Good, Desk
<1>0. SameRecords(d, set)
  BY DEF Good, Desk, SameRecords, SameSession, SameHomes
<1> HIDE DEF set
<1>4. SameBut(c, d, set) /\ d.live \subseteq Client
  BY <1>1, <1>3 DEF SameBut, Good, Desk
<1>5. CASE c \in OnScreen(set)
  <2>1. Tidy(set)
    BY <1>3, <1>4, <1>5, TidyBut
  <2>2. Tidy(Show(set, {c}))
    BY <1>3, <1>5, <2>1, ShowTidy
  <2> QED BY <1>2, <1>5, <2>1, <2>2
<1>6. CASE c \notin OnScreen(set)
  <2>1. SameScreen(set, given)
    BY <1>3, FocusSame
  <2>2. SameBut(c, d, given) /\ given.mapped = d.mapped
    BY <1>3, <1>4, <2>1, FocusBut, SameButChain
  <2>3. SameBut(c, given, Hide(given, {c})) /\ Hide(given, {c}).mapped = d.mapped \ {c}
    <3>1. SameRecords(d, set)
      BY <1>0
    <3>2. given \in Desk
      BY <1>3, <3>1, OtherFields, FocusSuccessorOfGood DEF Good
    <3> QED BY <2>2, <3>2, MappedBut
  <2> HIDE DEF given
  <2>4. SameBut(c, d, Hide(given, {c}))
    BY <2>2, <2>3, SameButChain
  <2>5. Tidy(Hide(given, {c}))
    BY <1>4, <2>3, <2>4, TidyBut
  <2> QED BY <1>2, <1>6, <2>5
<1> QED BY <1>5, <1>6

\* A window that gets a new parent follows it tidily.
LEMMA ReparentedTidy ==
  ASSUME NEW was, NEW d, Good(was, d), Tidy(d), NEW c \in was.live, NEW p \in ClientOrNone
  PROVE  Tidy(Reparented(d, c, p))
<1> DEFINE set == [d EXCEPT !.parent[c] = p]
<1>1. SamePlaces(d, set) /\ set.mapped = d.mapped
  BY DEF Good, Desk, SamePlaces
<1>0. set \in Desk /\ SameRecords(d, set)
  BY DEF Good, Desk, SameRecords, SameSession, SameHomes
<1> HIDE DEF set
<1>2. Good(was, set) /\ Tidy(set)
  BY <1>0, <1>1, OtherFields, SameTidy
<1>3. CASE d.parent[c] = p \/ p = NoClient
  BY <1>2, <1>3 DEF Reparented, set
<1>4. CASE ~(d.parent[c] = p \/ p = NoClient)
  <2>1. p \in Client
    BY <1>4 DEF ClientOrNone
  <2>2. d.special[p] # NoSpecial => ToSpecial(d.special[p]) \in Ops
    BY <2>1 DEF Good, Desk, SpecialOrNone, Ops
  <2>3. d.workspace[p] \in Nat
    BY <2>1, MaxWorkspacesAssumption DEF Good, Desk, Workspace
  <2>4. ToWorkspace(d.workspace[p]) \in Ops
    BY <2>3 DEF Ops
  <2>5. Reparented(d, c, p) = IF d.special[p] # NoSpecial
                              THEN ForFamily(ToSpecial(d.special[p]), set, c)
                              ELSE ForFamily(ToWorkspace(d.workspace[p]), set, c)
    BY <1>4 DEF Reparented, set
  <2> QED BY <1>2, <2>2, <2>4, <2>5, ForFamilyTidy
<1> QED BY <1>3, <1>4

\* A window that turns modal or calls for attention moves nothing.
LEMMA MarkedTidy ==
  ASSUME NEW was, NEW d, Good(was, d), Tidy(d), NEW c \in Client, NEW on \in BOOLEAN
  PROVE  /\ Tidy(ModalSet(d, c, on))
         /\ Tidy([d EXCEPT !.urgent = IF on THEN @ \cup {c} ELSE @ \ {c}])
<1> DEFINE modal == IF on THEN d.modal \cup {c} ELSE d.modal \ {c}
           urgent == IF on THEN d.urgent \cup {c} ELSE d.urgent \ {c}
           set == [d EXCEPT !.modal = modal]
           marked == [d EXCEPT !.urgent = urgent]
<1>1. ModalSet(d, c, on) \in {set, FocusClient(set, c)}
  BY DEF ModalSet
<1>2. [d EXCEPT !.urgent = IF on THEN @ \cup {c} ELSE @ \ {c}] = marked
  OBVIOUS
<1>3. modal \in SUBSET Client
  BY DEF Good, Desk
<1> HIDE DEF modal, urgent
<1>4. /\ set \in Desk /\ SamePlaces(d, set) /\ set.mapped = d.mapped
      /\ SamePlaces(d, marked) /\ marked.mapped = d.mapped
  BY <1>3 DEF Good, Desk, SamePlaces
<1> HIDE DEF set, marked
<1>5. Tidy(set) /\ Tidy(marked)
  BY <1>4, SameTidy
<1>6. Tidy(FocusClient(set, c))
  BY <1>4, <1>5, FocusSame, FocusTidy
<1> QED BY <1>1, <1>2, <1>5, <1>6

\* The one event that may leave a ghost: the arrival of a dialog filed with a
\* parent on a workspace that is not on screen.
DialogElsewhere ==
  \E c \in Client, p \in ClientOrNone, modal \in BOOLEAN, rule \in MapRules :
    MapRequest(c, p, modal, rule) /\ ~FiledHere(wm, p)

\* What clients and their windows do is tidy, but for that event.
LEMMA ClientEventTidy ==
  ASSUME IInv, Tidy(wm), ~DialogElsewhere, NEW c \in Client, ClientEvent(c)
  PROVE  Tidy(wm')
<1>0. Good(wm, wm) /\ Honest(wm)
  BY DEF IInv
<1>1. ASSUME NEW p \in ClientOrNone, NEW modal \in BOOLEAN, NEW rule \in MapRules,
             MapRequest(c, p, modal, rule)
      PROVE  Tidy(wm')
  <2>1. rule \in MapRule /\ p \in wm.live \cup {NoClient} /\ FiledHere(wm, p)
    BY <1>1, MapRulesAssumption DEF MapRequest, DialogElsewhere
  <2>2. c \in Client \ wm.live /\ wm' = MapClient(wm, c, p, modal, rule)
    BY <1>1 DEF MapRequest, FreshSlot, Dispatched
  <2> QED BY <1>0, <2>1, <2>2, MapClientTidy
<1>2. CASE Forget(c)
  BY <1>0, <1>2, ForgottenTidy DEF Forget, Dispatched
<1>3. CASE Activate(c)
  BY <1>0, <1>3, ActivateClientTidy DEF Activate, Dispatched
<1>4. CASE ChromeChanged(c)
  <2>1. wm \in Desk /\ wm.mapped \ {c} \subseteq OnScreen(wm)
    BY <1>0 DEF Good, Tidy
  <2>2. Tidy(Hide(wm, {c})) /\ (c \in OnScreen(wm) => Tidy(Show(wm, {c})))
    BY <2>1, HideTidy, ShowTidy
  <2> QED BY <1>4, <2>2 DEF ChromeChanged, Dispatched
<1>5. ASSUME NEW on \in BOOLEAN, SetUrgent(c, on) \/ ModalChanged(c, on) PROVE Tidy(wm')
  <2> DEFINE marked == [wm EXCEPT !.urgent = IF on THEN @ \cup {c} ELSE @ \ {c}]
  <2>1. Tidy(marked) /\ Tidy(ModalSet(wm, c, on))
    BY <1>0, MarkedTidy
  <2>2. wm' = marked \/ wm' = ModalSet(wm, c, on)
    BY <1>5 DEF SetUrgent, ModalChanged, Dispatched
  <2> HIDE DEF marked
  <2> QED BY <2>1, <2>2
<1>6. ASSUME NEW p \in ClientOrNone, ParentChanged(c, p) PROVE Tidy(wm')
  BY <1>0, <1>6, ReparentedTidy DEF ParentChanged, Dispatched
<1> QED BY <1>1, <1>2, <1>3, <1>4, <1>5, <1>6 DEF ClientEvent

\* So is what the user does to one window.
LEMMA UserEventTidy ==
  ASSUME IInv, Tidy(wm), NEW c \in Client, UserEvent(c)
  PROVE  Tidy(wm')
<1>0. Good(wm, wm) /\ wm \in Desk
  BY DEF IInv, Good
<1>1. CASE Click(c) \/ PointerEnter(c) \/ FocusRequest(c)
  <2>1. wm' \in {FocusClient(wm, FocusTarget(wm, c)), FocusClient(wm, c)}
    BY <1>1 DEF Click, PointerEnter, FocusRequest, Dispatched
  <2>2. \A k : Tidy(FocusClient(wm, k))
    BY <1>0, FocusSame, FocusTidy
  <2> QED BY <2>1, <2>2
<1>2. CASE Miniaturize(c) \/ Deminiaturize(c)
  <2>1. ToIcon \in Ops /\ FromIcon \in Ops
    BY DEF Ops
  <2> QED BY <1>0, <1>2, <2>1, ForFamilyTidy DEF Miniaturize, Deminiaturize, Dispatched
<1>3. ASSUME NEW w \in 0 .. MaxWorkspaces, MoveToWorkspace(c, w) PROVE Tidy(wm')
  <2>1. ToWorkspace(w) \in Ops
    BY MaxWorkspacesAssumption DEF Ops
  <2> QED BY <1>0, <1>3, <2>1, ForFamilyTidy DEF MoveToWorkspace, Dispatched
<1>4. ASSUME NEW s \in SpecialNames, NEW follow \in BOOLEAN, MoveClientToSpecial(c, s, follow)
      PROVE  Tidy(wm')
  BY <1>0, <1>4, MoveToSpecialTidy DEF MoveClientToSpecial, Dispatched
<1>5. ASSUME NEW on \in BOOLEAN, SetPinned(c, on) PROVE Tidy(wm')
  BY <1>0, <1>5, PinnedTidy DEF SetPinned, Dispatched
<1> QED BY <1>1, <1>2, <1>3, <1>4, <1>5 DEF UserEvent

\* The client with the keyboard is alive.
LEMMA FocusedLives ==
  ASSUME NEW was, NEW d, Good(was, d), d.focused # NoClient
  PROVE  d.focused \in d.live
<1>1. d.history \in Seq(Client) /\ d.history # <<>> /\ d.history[Len(d.history)] = d.focused
  BY DEF Good, Desk, TrueHistory
<1>2. Len(d.history) \in DOMAIN d.history
  BY <1>1
<1> QED BY <1>1, <1>2 DEF Good, TrueHistory, Elements

\* And what the user does to the whole desk.
LEMMA DeskEventTidy ==
  ASSUME IInv, Tidy(wm), DeskEvent
  PROVE  Tidy(wm')
<1>0. Good(wm, wm) /\ wm \in Desk
  BY DEF IInv, Good
<1>1. ASSUME NEW forward \in BOOLEAN, FocusNext(forward) PROVE Tidy(wm')
  BY <1>0, <1>1, FocusSame, FocusTidy DEF FocusNext, Dispatched
<1>2. ASSUME NEW w \in 0 .. MaxWorkspaces, SwitchWorkspace(w) \/ RemoveWorkspace(w) \/ CarryFocused(w)
      PROVE  Tidy(wm')
  <2>0. w \in Nat
    BY MaxWorkspacesAssumption
  <2>1. CASE SwitchWorkspace(w)
    BY <1>0, <2>0, <2>1, SwitchToTidy DEF SwitchWorkspace, Dispatched
  <2>2. CASE RemoveWorkspace(w)
    BY <1>0, <2>0, <2>2, WithoutWorkspaceTidy DEF RemoveWorkspace, Dispatched
  <2>3. CASE CarryFocused(w)
    <3> DEFINE c == wm.focused
               moved == ForFamily(ToWorkspace(w), wm, c)
               there == SwitchTo(moved, w, NoClient)
    <3>1. c \in wm.live /\ c \in Client
      BY <1>0, <2>3, FocusedLives DEF CarryFocused, Good, Desk
    <3>2. ToWorkspace(w) \in Ops
      BY <2>0 DEF Ops
    <3>3. wm' = ActivateClient(there, c)
      BY <2>3 DEF CarryFocused, Dispatched
    <3> HIDE DEF c
    <3>4. Good(wm, moved) /\ Tidy(moved)
      BY <1>0, <3>1, <3>2, ForFamilyGood, ForFamilyTidy
    <3> HIDE DEF moved
    <3>5. Good(wm, there) /\ Tidy(there)
      BY <2>0, <3>4, SwitchToGood, SwitchToTidy
    <3> HIDE DEF there
    <3> QED BY <3>1, <3>3, <3>5, ActivateClientTidy
  <2> QED BY <1>2, <2>1, <2>2, <2>3
<1>3. CASE SwitchToPrevious
  <2>1. wm.previous \in Nat
    BY <1>0, <1>3, MaxWorkspacesAssumption DEF SwitchToPrevious, Good, Desk
  <2> QED BY <1>0, <1>3, <2>1, SwitchToTidy DEF SwitchToPrevious, Dispatched
<1>4. ASSUME NEW delta \in {-1, 1}, SwitchToOccupied(delta) \/ CycleStep(delta)
      PROVE  Tidy(wm')
  <2>1. CASE SwitchToOccupied(delta)
    <3> DEFINE w == OccupiedStep(wm, delta)
    <3>1. w \in Nat
      BY <1>0, <2>1, OccupiedStepType DEF SwitchToOccupied
    <3>2. wm' = SwitchTo(wm, w, NoClient)
      BY <2>1 DEF SwitchToOccupied, Dispatched
    <3> HIDE DEF w
    <3> QED BY <1>0, <3>1, <3>2, SwitchToTidy
  <2>2. CASE CycleStep(delta)
    BY <1>0, <2>2, CycleTidy DEF CycleStep, Dispatched
  <2> QED BY <1>4, <2>1, <2>2
<1>5. ASSUME NEW s \in SpecialNames, ToggleSpecial(s) PROVE Tidy(wm')
  <2> DEFINE made == Create(wm, s)
  <2>1. wm' = HideSpecial(wm) \/ wm' = ShowSpecial(made, s)
    BY <1>5 DEF ToggleSpecial, Dispatched
  <2>2. Good(wm, made)
    BY <1>0, CreateGood
  <2>3. SamePlaces(wm, made) /\ made.mapped = wm.mapped
    BY <1>0 DEF Desk, Create, SamePlaces
  <2> HIDE DEF made
  <2>4. Tidy(made)
    BY <2>3, SameTidy
  <2> QED BY <1>0, <2>1, <2>2, <2>4, HideSpecialTidy, ShowSpecialTidy
<1>6. CASE CycleCancel \/ CycleCommit
  BY <1>0, <1>6, CycleTidy, CycleCommittedTidy DEF CycleCancel, CycleCommit, Dispatched
<1>7. CASE LockChanges
  BY <1>7 DEF LockChanges
<1> QED BY <1>1, <1>2, <1>3, <1>4, <1>5, <1>6, <1>7 DEF DeskEvent

\* Every step but the arrival of a dialog elsewhere leaves the screen tidy.
LEMMA NextTidy ==
  ASSUME IInv, Tidy(wm), [Next]_vars, ~DialogElsewhere
  PROVE  Tidy(wm')
<1>1. CASE Next
  BY <1>1, DeskEventTidy, ClientEventTidy, UserEventTidy DEF Next
<1>2. CASE UNCHANGED vars
  BY <1>2 DEF vars
<1> QED BY <1>1, <1>2

\* No step makes the first ghost but the arrival of a dialog whose parent is
\* filed on a workspace that is not on screen, which handle_map_request files
\* with its parent and has mapped by then (manager.rs:2369).
THEOREM GhostSafety ==
  Spec => [][NothingLeftMapped => NothingLeftMapped' \/ DialogElsewhere]_vars
<1>1. IInv /\ [Next]_vars => [NothingLeftMapped => NothingLeftMapped' \/ DialogElsewhere]_vars
  BY NextTidy DEF NothingLeftMapped, Tidy
<1> QED BY <1>1, InitIInv, NextIInv, PTL DEF Spec

\* So where no dialog arrives there is never a ghost: a window whose place is
\* not on screen has no mapped surface, whatever else is asked.
THEOREM NothingLeftSafety ==
  ASSUME "parent" \notin Gestures
  PROVE  Spec => []NothingLeftMapped
<1> DEFINE TInv == IInv /\ Tidy(wm)
<1>1. Init => TInv
  <2>1. Init => Tidy(wm)
    BY DEF Init, Tidy
  <2> QED BY <2>1, InitIInv
<1>2. TInv /\ [Next]_vars => TInv'
  <2> SUFFICES ASSUME IInv, Tidy(wm), [Next]_vars PROVE IInv' /\ Tidy(wm')
    BY DEF Tidy
  <2>1. ~DialogElsewhere
    BY DEF DialogElsewhere, MapRequest, FiledHere
  <2> QED BY <2>1, NextIInv, NextTidy
<1>3. TInv => NothingLeftMapped
  BY DEF NothingLeftMapped, Tidy
<1> QED BY <1>1, <1>2, <1>3, PTL DEF Spec

-----------------------------------------------------------------------------
(* Behind the lock screen.  An activation may restore its target, with its   *)
(* family, to the workspace on screen, but enters no other and shows no      *)
(* overlay: whoever it would bring into view is in view already.             *)

\* Records with the same families, in the same order.
SameKin(d, e) == e.parent = d.parent /\ e.order = d.order /\ e.modal = d.modal

\* A change of focus, of what is mapped or of where a window is filed leaves
\* the families alone.
LEMMA KinIsKept ==
  ASSUME NEW d \in Desk, NEW c, NEW S, NEW w
  PROVE  /\ SameKin(d, FocusClient(d, c)) /\ SameKin(d, Show(d, S)) /\ SameKin(d, Homed(d, c, w))
         /\ SameKin(d, LeaveSpecial(d, c)) /\ SameKin(d, Grown(d, w))
<1>1. ASSUME NEW k PROVE SameKin(d, FocusOn(d, k))
  <2> DEFINE h == Remembered(d.history, k)
             u == d.urgent \ {k}
             e == [d EXCEPT !.focused = k, !.history = h, !.seat = k, !.urgent = u]
  <2>1. FocusOn(d, k) \in {d, [d EXCEPT !.seat = k], e}
    BY DEF FocusOn
  <2> HIDE DEF h, u
  <2>2. SameKin(d, d) /\ SameKin(d, [d EXCEPT !.seat = k]) /\ SameKin(d, e)
    BY DEF Desk, SameKin
  <2> QED BY <2>1, <2>2
<1>2. SameKin(d, FocusClient(d, c))
  BY <1>1 DEF FocusClient
<1>3. SameKin(d, Show(d, S)) /\ SameKin(d, Homed(d, c, w))
  BY DEF Desk, SameKin, Show, Homed
<1>4. SameKin(d, LeaveSpecial(d, c))
  BY DEF Desk, SameKin, LeaveSpecial
<1>5. SameKin(d, Grown(d, w))
  BY DEF Desk, SameKin, Grown
<1> QED BY <1>2, <1>3, <1>4, <1>5

\* A window moved to the workspace on screen has its place there, and no other
\* window's place is another.
LEMMA MoveHereIs ==
  ASSUME NEW was, NEW d, Good(was, d), NEW c \in Client
  PROVE  LET e == MoveOneToWorkspace(d, c, d.current) IN
         /\ SameKin(d, e) /\ SameBut(c, d, e) /\ Placed(e, c)
         /\ e.live = d.live /\ e.minimized = d.minimized /\ e.sticky = d.sticky
<1> DEFINE w     == d.current
           e     == MoveOneToWorkspace(d, c, w)
           grown == Grown(d, w)
           out   == LeaveSpecial(grown, c)
           home  == Homed(out, c, w)
<1>1. w \in Workspace /\ w \in Nat /\ ~TooFar(w)
  BY MaxWorkspacesAssumption DEF Good, Desk, Workspace, TooFar
<1>3. \/ e = grown /\ d.workspace[c] = w /\ d.special[c] = NoSpecial
      \/ e \in {home, Show(home, {c})}
  BY <1>1 DEF MoveOneToWorkspace
<1>4. Good(was, grown)
  BY <1>1, GrownGood
<1>5. SamePlaces(d, grown) /\ w < grown.count
  BY <1>1, GrownIs DEF Good, SameSession, SamePlaces
<1>6. SameKin(d, grown)
  BY KinIsKept DEF Good
<1> HIDE DEF e, grown
<1>7. SameBut(c, d, grown)
  BY <1>5 DEF SamePlaces, SameBut
<1>8. Good(was, out)
  BY <1>4, LeaveSpecialGood
<1>9. /\ SameBut(c, grown, out) /\ SameKin(grown, out) /\ w < out.count
      /\ out.live = d.live /\ out.minimized = d.minimized /\ out.sticky = d.sticky
      /\ out.current = d.current /\ out.special[c] = NoSpecial
  <2>1. LET o == LeaveSpecial(grown, c) IN
        /\ SameSession(grown, o) /\ o.special = [grown.special EXCEPT ![c] = NoSpecial]
        /\ o.minimized = grown.minimized /\ o.sticky = grown.sticky
        /\ o.current = grown.current /\ o.count = grown.count
    BY <1>4, LeaveSpecialSame DEF Good
  <2>2. SameBut(c, grown, out)
    BY <1>1, <1>4, HomedBut DEF Good
  <2>3. SameKin(grown, out)
    BY <1>4, KinIsKept DEF Good
  <2>4. grown.special \in [Client -> SpecialOrNone]
    BY <1>4 DEF Good, Desk
  <2> QED BY <1>5, <2>1, <2>2, <2>3, <2>4 DEF SamePlaces, SameSession
<1> HIDE DEF out
<1>10. /\ SameBut(c, out, home) /\ SameKin(out, home) /\ home \in Desk
       /\ home.live = d.live /\ home.minimized = d.minimized /\ home.sticky = d.sticky
       /\ home.current = d.current /\ home.special[c] = NoSpecial /\ home.workspace[c] = w
  BY <1>1, <1>8, <1>9, HomedBut, HomedGood, KinIsKept DEF Good
<1> HIDE DEF home
<1>11. SameBut(c, d, home) /\ SameKin(d, home) /\ Placed(home, c)
  BY <1>6, <1>7, <1>9, <1>10, SameButChain DEF SameKin, Placed
<1>12. CASE e = home
  BY <1>10, <1>11, <1>12 DEF e
<1>13. CASE e = Show(home, {c})
  <2>1. SamePlaces(home, e) /\ SameKin(home, e)
    BY <1>10, <1>13, KinIsKept DEF Desk, SamePlaces, Show
  <2>2. SameBut(c, home, e)
    BY <2>1 DEF SamePlaces, SameBut
  <2>3. SameBut(c, d, e) /\ SameKin(d, e) /\ Placed(e, c)
    BY <1>11, <2>1, <2>2, SameButChain DEF SamePlaces, SameKin, Placed
  <2> QED BY <1>10, <2>1, <2>3 DEF SamePlaces, e
<1>14. CASE e = grown /\ d.workspace[c] = w /\ d.special[c] = NoSpecial
  <2>1. Placed(e, c)
    BY <1>5, <1>14 DEF SamePlaces, Placed
  <2> QED BY <1>5, <1>6, <1>7, <1>14, <2>1 DEF SamePlaces, e
<1> QED BY <1>3, <1>12, <1>13, <1>14

\* How far the restoring of a family has come: the windows that are icons no
\* more are in view, and nothing has changed for those that were none.
Restoring(d, e) ==
  /\ SameKin(d, e)
  /\ e.live = d.live /\ e.shown = d.shown /\ e.current = d.current
  /\ e.minimized \subseteq d.minimized
  /\ \A k \in Normal(e) : IF k \in d.minimized THEN Placed(e, k) ELSE Placed(e, k) <=> Placed(d, k)

LEMMA RestoreOneHolds ==
  ASSUME NEW was, NEW d, NEW e, Good(was, e), Restoring(d, e), NEW c \in was.live
  PROVE  Restoring(d, DeminiaturizeOne(e, c))
<1> DEFINE i  == [e EXCEPT !.minimized = @ \ {c}]
           up == MoveOneToWorkspace(i, c, i.current)
           there == Show(up, {c})
           f  == FocusClient(there, c)
<1>1. CASE c \notin e.minimized
  BY <1>1 DEF DeminiaturizeOne
<1>2. CASE c \in e.minimized
  <2>1. e.minimized \ {c} \in SUBSET e.live /\ c \in Client /\ e.live \subseteq Client
    BY DEF Good, Desk, SameSession
  <2>2. Good(was, i)
    BY <2>1, IconsGood
  <2>3. /\ SameBut(c, e, i) /\ SameKin(e, i)
        /\ i.current = e.current /\ i.live = e.live /\ i.minimized = e.minimized \ {c}
    BY DEF Good, Desk, SameBut, SameKin
  <2>4. DeminiaturizeOne(e, c) = f
    BY <1>2, <2>3 DEF DeminiaturizeOne
  <2> HIDE DEF i
  <2>5. /\ SameKin(i, up) /\ SameBut(c, i, up) /\ Placed(up, c)
        /\ up.live = i.live /\ up.minimized = i.minimized
    BY <2>1, <2>2, MoveHereIs
  <2>6. up \in Desk
    <3>1. i.current \in Nat
      BY <2>2, MaxWorkspacesAssumption DEF Good, Desk, Workspace
    <3> QED BY <2>1, <2>2, <3>1, MoveOneToWorkspaceGood DEF Good
  <2> HIDE DEF up
  <2>7. SamePlaces(up, there) /\ SameKin(up, there) /\ there \in Desk
    BY <2>1, <2>6, KinIsKept DEF Desk, SamePlaces, Show
  <2> HIDE DEF there
  <2>8. SameKin(there, f) /\ SamePlaces(there, f)
    BY <2>7, KinIsKept, FocusSame DEF SameScreen, SameSession, SameHomes, SamePlaces
  <2> HIDE DEF f
  <2>9. SameKin(d, f)
    BY <2>3, <2>5, <2>7, <2>8 DEF Restoring, SameKin
  <2>10. SamePlaces(up, f)
    BY <2>7, <2>8 DEF SamePlaces
  <2>11. /\ SameBut(c, e, f) /\ Placed(f, c) /\ f.live = d.live
         /\ f.minimized = e.minimized \ {c} /\ f.shown = d.shown /\ f.current = d.current
    <3>1. SameBut(c, up, f)
      BY <2>10 DEF SamePlaces, SameBut
    <3>2. SameBut(c, e, f)
      BY <2>3, <2>5, <3>1, SameButChain
    <3> QED BY <2>3, <2>5, <2>10, <3>2 DEF SamePlaces, SameBut, Placed, Restoring
  <2>12. ASSUME NEW k \in Normal(f)
         PROVE  IF k \in d.minimized THEN Placed(f, k) ELSE Placed(f, k) <=> Placed(d, k)
    <3>1. CASE k = c
      BY <1>2, <2>11, <3>1 DEF Restoring
    <3>2. CASE k # c
      <4>1. k \in Normal(e) /\ k \in Client
        BY <2>1, <2>11, <3>2 DEF Normal, Restoring
      <4>2. Placed(f, k) <=> Placed(e, k)
        BY <2>11, <3>2, <4>1 DEF SameBut, Placed
      <4> QED BY <4>1, <4>2 DEF Restoring
    <3> QED BY <3>1, <3>2
  <2> QED BY <2>4, <2>9, <2>11, <2>12 DEF Restoring
<1> QED BY <1>1, <1>2

LEMMA RestoredHolds ==
  ASSUME NEW d, Good(d, d), NEW c \in d.minimized
  PROVE  Restoring(d, Restored(d, c))
<1> DEFINE V == {e \in Desk : Good(d, e) /\ Restoring(d, e)}
<1>1. \A e : e \in V <=> Good(d, e) /\ Restoring(d, e)
  BY DEF Good
<1>2. Restoring(d, d)
  BY DEF Restoring, SameKin, Normal
<1> HIDE DEF V
<1>3. ASSUME NEW e \in V, NEW k \in d.live PROVE Step(FromIcon, e, k) \in V
  <2>1. Step(FromIcon, e, k) = DeminiaturizeOne(e, k)
    BY DEF Step, FromIcon
  <2>2. Good(d, Step(FromIcon, e, k))
    <3>1. FromIcon \in Ops
      BY DEF Ops
    <3> QED BY <1>1, <3>1, StepGood
  <2> QED BY <1>1, <2>1, <2>2, RestoreOneHolds
<1>4. FamilyOrder(d, c) \in Seq(d.live)
  BY FamilyOrderType DEF Good
<1>5. ForFamily(FromIcon, d, c) \in V
  BY <1>1, <1>2, <1>3, <1>4, ForEachKeeps DEF ForFamily
<1> QED BY <1>1, <1>5 DEF Restored

\* Who blocks a window in the restored family, and was no icon, blocked it before.
LEMMA BlockerStays ==
  ASSUME NEW d \in Desk, NEW e, Restoring(d, e), NEW c,
         ModalBlocker(e, c) # NoClient, ModalBlocker(e, c) \notin d.minimized
  PROVE  ModalBlocker(d, c) = ModalBlocker(e, c)
<1> DEFINE S == (Family(e, c) \ {c}) \cap Normal(e) \cap e.modal
           T == (Family(d, c) \ {c}) \cap Normal(d) \cap d.modal
<1>1. Family(e, c) = Family(d, c)
  BY DEF Restoring, SameKin, Family, Ancestors
<1>2. T \subseteq S /\ \A k \in S : k \notin d.minimized => k \in T
  BY <1>1 DEF Restoring, SameKin, Normal
<1>3. ModalBlocker(e, c) = LastOf(d.order, S, NoClient) /\ ModalBlocker(d, c) = LastOf(d.order, T, NoClient)
  BY DEF ModalBlocker, LastIn, Restoring, SameKin
<1>4. d.order \in Seq(Client)
  BY DEF Desk
<1> HIDE DEF S, T
<1>5. LastOf(d.order, S, NoClient) \in S
  BY <1>3, <1>4, LastIsIn
<1> QED BY <1>2, <1>3, <1>4, <1>5, LastFewer

\* When the target is in view, presenting a window changes neither the workspace
\* nor the overlay on screen.
LEMMA PresentedStays ==
  ASSUME NEW d, Good(d, d), NEW c, Placed(d, FocusTarget(d, c))
  PROVE  Presented(d, c).current = d.current /\ Presented(d, c).shown = d.shown
<1> DEFINE e == Restored(d, c)
           t == FocusTarget(e, c)
<1>1. Good(d, e)
  BY RestoredGood
<1>2. Presented(d, c) = FocusClient(Brought(e, t), c)
  BY DEF Presented, BringIntoView
<1>3. e.current = d.current /\ e.shown = d.shown /\ (t \in Normal(e) => Placed(e, t))
  <2>1. CASE c \notin d.minimized
    BY <2>1 DEF Restored
  <2>2. CASE c \in d.minimized
    <3>1. Restoring(d, e)
      BY <2>2, RestoredHolds
    <3> HIDE DEF e
    <3>2. CASE t \in d.minimized
      BY <3>1, <3>2 DEF Restoring
    <3>3. CASE t \notin d.minimized
      <4>1. t = ModalBlocker(e, c) /\ t # NoClient
        BY <2>2, <3>3 DEF FocusTarget, OrElse
      <4>2. ModalBlocker(d, c) = t
        BY <3>1, <3>3, <4>1, BlockerStays DEF Good
      <4>3. Placed(d, t)
        BY <4>1, <4>2 DEF FocusTarget, OrElse
      <4> HIDE DEF t
      <4> QED BY <3>1, <3>3, <4>3 DEF Restoring
    <3> QED BY <3>2, <3>3
  <2> QED BY <2>1, <2>2
<1> HIDE DEF e
<1>4. Brought(e, t) = e
  BY <1>3 DEF Brought
<1> HIDE DEF t
<1> QED BY <1>1, <1>2, <1>3, <1>4, FocusSame DEF Good, SameScreen, SameHomes

\* Behind the lock screen an activation never changes the workspace or the
\* overlay underneath, whatever families, rules and overlays there are: not even
\* that of an icon whose family brings back a dialog that takes its place
\* (activate_window, restore_window).
THEOREM LockSafety == Spec => LockKeepsDesktop
<1> DEFINE Kept == locked /\ <<wm'.current, wm'.shown>> # <<wm.current, wm.shown>>
                     => ~ \E c \in Client : Activate(c)
<1>1. IInv => [Kept]_vars
  <2> SUFFICES ASSUME IInv, locked, NEW c \in Client, Activate(c)
               PROVE  wm'.current = wm.current /\ wm'.shown = wm.shown
    OBVIOUS
  <2>1. Good(wm, wm) /\ wm' = ActivateClient(wm, c)
    BY DEF IInv, Activate, Dispatched
  <2>2. CASE c \in wm.noActivate
    BY <2>1, <2>2 DEF ActivateClient
  <2>3. CASE c \notin wm.noActivate /\ ~Placed(wm, FocusTarget(wm, c))
    <3>1. wm' = [wm EXCEPT !.urgent = @ \cup {c}]
      BY <2>1, <2>3 DEF ActivateClient
    <3> QED BY <2>1, <3>1 DEF Good, Desk
  <2>4. CASE c \notin wm.noActivate /\ Placed(wm, FocusTarget(wm, c))
    <3>1. wm' = Presented(wm, c)
      BY <2>1, <2>4 DEF ActivateClient
    <3> QED BY <2>1, <2>4, <3>1, PresentedStays
  <2> QED BY <2>2, <2>3, <2>4
<1> QED BY <1>1, InitIInv, NextIInv, PTL DEF Spec, LockKeepsDesktop

=============================================================================
