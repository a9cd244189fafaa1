------------------------ MODULE SeatKeyboard_proofs ------------------------
(***************************************************************************)
(* The keyboard of the seat, for any windows, layer surfaces, grabs, lock  *)
(* surfaces and outputs.                                                   *)
(***************************************************************************)
EXTENDS SeatKeyboard, LoopTheorems, FiniteSetTheorems

USE DEF Interactivity

\* A sequence without its element at i.
LEMMA RemoveAtIs ==
  ASSUME NEW E, NEW s \in Seq(E), NEW i \in 1 .. Len(s)
  PROVE  /\ RemoveAt(s, i) \in Seq(E) /\ Len(RemoveAt(s, i)) = Len(s) - 1
         /\ \A j \in 1 .. Len(s) - 1 : RemoveAt(s, i)[j] = IF j < i THEN s[j] ELSE s[j + 1]
<1> DEFINE a == SubSeq(s, 1, i - 1)
           b == SubSeq(s, i + 1, Len(s))
<1>1. /\ a \in Seq(E) /\ Len(a) = i - 1 /\ \A j \in 1 .. i - 1 : a[j] = s[j]
      /\ b \in Seq(E) /\ Len(b) = Len(s) - i /\ \A j \in 1 .. Len(s) - i : b[j] = s[i + j]
  OBVIOUS
<1>2. RemoveAt(s, i) = a \o b
  BY DEF RemoveAt
<1> HIDE DEF a, b
<1>3. a \o b \in Seq(E) /\ Len(a \o b) = Len(s) - 1
  <2>0. a \in Seq(E) /\ b \in Seq(E)
    BY <1>1
  <2>1. a \o b \in Seq(E) /\ Len(a \o b) = Len(a) + Len(b)
    BY ONLY <2>0
  <2>2. Len(s) \in Nat
    OBVIOUS
  <2> QED BY ONLY <1>1, <2>1, <2>2, i \in 1 .. Len(s)
<1>4. ASSUME NEW j \in 1 .. Len(s) - 1
      PROVE  (a \o b)[j] = IF j < i THEN s[j] ELSE s[j + 1]
  <2>1. CASE j < i
    BY <1>1, <2>1
  <2>2. CASE ~(j < i)
    <3>1. j - (i - 1) \in 1 .. Len(s) - i /\ i + (j - (i - 1)) = j + 1
      BY <2>2
    <3>2. (a \o b)[j] = b[j - (i - 1)]
      BY <1>1, <2>2
    <3> QED BY <1>1, <2>2, <3>1, <3>2
  <2> QED BY <2>1, <2>2
<1> QED BY <1>2, <1>3, <1>4

\* SetToSeq lists a finite set, each member once.
LEMMA SetToSeqIs ==
  ASSUME NEW S, IsFiniteSet(S)
  PROVE  /\ Cardinality(S) \in Nat
         /\ SetToSeq(S) \in Seq(S) /\ Len(SetToSeq(S)) = Cardinality(S) /\ Distinct(SetToSeq(S))
<1> DEFINE n == Cardinality(S)
<1>1. n \in Nat /\ ExistsBijection(1 .. n, S)
  BY FS_CardinalityType, FS_NatBijection
<1>2. PICK f \in [1 .. n -> S] : IsInjective(f)
  BY <1>1 DEF ExistsBijection, Bijection, Injection, IsInjective
<1>3. SetToSeq(S) \in [1 .. n -> S] /\ IsInjective(SetToSeq(S))
  BY <1>2 DEF SetToSeq
<1>4. Distinct(SetToSeq(S))
  BY <1>3 DEF Distinct, IsInjective
<1> QED BY <1>1, <1>3, <1>4

-----------------------------------------------------------------------------
(* The inductive invariant.                                                  *)

Holders == Windows \cup Layers \cup LockSurfaces \cup {None, Gone}

\* The active grab, and no other, has a whitelist and is owed its `cleared'.
GrabsHold(s) ==
  /\ \A i, j \in DOMAIN s.grabs : s.grabs[i].id = s.grabs[j].id => i = j
  /\ s.active \in 0 .. Len(s.grabs)
  /\ \A i \in DOMAIN s.grabs :
       /\ s.grabs[i].committed # <<>> <=> i = s.active
       /\ s.owed[s.grabs[i].id] = IF i = s.active THEN 1 ELSE 0

Names(s) ==
  \A i \in DOMAIN s.ledger : s.ledger[i].output # 0 =>
    /\ s.ledger[i].output \in DOMAIN s.outputs
    /\ s.outputs[s.ledger[i].output] = s.ledger[i].named

LedgerHolds(s) == Distinct(s.outputs) /\ Names(s)

\* A locker with a surface on a screen can type, unless a refresh is due.
LockHolds(s) ==
  s.locked => /\ s.kb \in LockSurfaces \cup {None, Gone}
              /\ ~s.dirty /\ OnOutput(s) # {} => Typeable(s, s.kb)

\* What is noted of the layers is so, unless they are to be arranged; with no
\* lock the keyboard is where the note says, unless an unlock missed that, or
\* with the grab, unless the grab is to be settled.
ClaimHolds(s) ==
  /\ ~s.arrange => s.exclusive = Claimant(s)
  /\ ~s.locked =>
       /\ s.exclusive \in Layers /\ ~s.missed => s.kb = s.exclusive
       /\ s.exclusive = None /\ s.active # 0 /\ ~s.refocus => Inside(s, s.kb)

Good(s) == s \in Seat /\ GrabsHold(s) /\ LedgerHolds(s) /\ LockHolds(s) /\ ClaimHolds(s)

\* All of it but where the keyboard is.
Noted(s) ==
  s \in Seat /\ GrabsHold(s) /\ LedgerHolds(s) /\ (~s.arrange => s.exclusive = Claimant(s))

Quiet(s) == ~s.arrange /\ ~s.refocus /\ ~s.dirty

\* A locker that was told `locked' finds no grab in force, unless one is to be
\* settled.
Told(s) ==
  /\ s.locker = "alive" => s.locked
  /\ s.confirmed => s.locker = "alive" /\ (s.active # 0 => s.refocus)

IInv == TypeOK /\ Good(seat) /\ Told(seat) /\ (settled => Quiet(seat))

-----------------------------------------------------------------------------
(* The parts of the invariant and the fields they look at.                   *)

LEMMA GrabsStand ==
  ASSUME NEW s, NEW u, u.grabs = s.grabs, u.active = s.active, u.owed = s.owed
  PROVE  /\ GrabsHold(s) => GrabsHold(u)
         /\ Whitelist(u) = Whitelist(s) /\ \A x : Inside(u, x) <=> Inside(s, x)
<1>1. Whitelist(u) = Whitelist(s)
  BY DEF Whitelist
<1> QED BY <1>1 DEF GrabsHold, Inside

LEMMA LedgerStands ==
  ASSUME NEW s, NEW u, u.outputs = s.outputs, u.ledger = s.ledger
  PROVE  LedgerHolds(s) => LedgerHolds(u)
BY DEF LedgerHolds, Names

LEMMA LockStands ==
  ASSUME NEW s, NEW u, u.ledger = s.ledger
  PROVE  /\ OnOutput(u) = OnOutput(s) /\ \A x : Typeable(u, x) <=> Typeable(s, x)
         /\ u.locked = s.locked /\ u.kb = s.kb /\ u.dirty = s.dirty /\ LockHolds(s) => LockHolds(u)
<1>1. OnOutput(u) = OnOutput(s)
  BY DEF OnOutput
<1> QED BY <1>1 DEF Typeable, LockHolds

LEMMA ClaimantStands ==
  ASSUME NEW s, NEW u, u.layers = s.layers, u.hidden = s.hidden
  PROVE  Claimant(u) = Claimant(s) /\ Presented(u) = Presented(s)
<1>1. Presented(u) = Presented(s)
  BY DEF Presented
<1> QED BY <1>1 DEF Claimant

\* What the invariant looks at.
Alike(s, u) ==
  /\ u.kb = s.kb /\ u.layers = s.layers /\ u.hidden = s.hidden /\ u.arrange = s.arrange
  /\ u.exclusive = s.exclusive /\ u.grabs = s.grabs /\ u.active = s.active /\ u.owed = s.owed
  /\ u.refocus = s.refocus /\ u.locked = s.locked /\ u.ledger = s.ledger /\ u.dirty = s.dirty
  /\ u.outputs = s.outputs /\ u.missed = s.missed

LEMMA AlikeGood ==
  ASSUME NEW s, Good(s), NEW u \in Seat, Alike(s, u)
  PROVE  Good(u)
<1>1. GrabsHold(u) /\ \A x : Inside(u, x) <=> Inside(s, x)
  BY GrabsStand DEF Good, Alike
<1>2. LedgerHolds(u) /\ LockHolds(u)
  BY LedgerStands, LockStands DEF Good, Alike
<1>3. ClaimHolds(u)
  BY <1>1, ClaimantStands DEF Good, Alike, ClaimHolds
<1> QED BY <1>1, <1>2, <1>3 DEF Good

LEMMA NotedStands ==
  ASSUME NEW s, Noted(s), NEW u \in Seat,
         u.layers = s.layers, u.hidden = s.hidden, u.arrange = s.arrange, u.exclusive = s.exclusive,
         u.grabs = s.grabs, u.active = s.active, u.owed = s.owed,
         u.ledger = s.ledger, u.outputs = s.outputs
  PROVE  Noted(u)
BY GrabsStand, LedgerStands, ClaimantStands DEF Noted

LEMMA GoodIsNoted == ASSUME NEW s, Good(s) PROVE Noted(s)
BY DEF Good, Noted, ClaimHolds

LEMMA GreatestInRange ==
  ASSUME NEW n \in Nat, NEW R \in SUBSET (1 .. n), R # {}
  PROVE  \E i \in R : \A j \in R : j <= i
<1> DEFINE T == {n - i : i \in R}
<1>1. T \in SUBSET Nat /\ T # {}
  <2>1. \A i \in R : n - i \in Nat
    OBVIOUS
  <2> QED BY <2>1
<1>2. PICK x \in T : \A y \in T : ~(y < x)
  <2> HIDE DEF T
  <2> QED BY <1>1, LeastNatural
<1>3. PICK i \in R : x = n - i
  BY <1>2
<1>4. ASSUME NEW j \in R PROVE j <= i
  BY <1>2, <1>3
<1> QED BY <1>4

\* The one with the highest claim is a layer surface.
LEMMA ClaimantType ==
  ASSUME NEW s \in Seat
  PROVE  Claimant(s) \in Layers \cup {None}
<1> DEFINE claims(band) == {i \in Presented(s) : s.layers[i].asks = "exclusive" /\ s.layers[i].band = band}
           ranked == IF claims("overlay") # {} THEN claims("overlay") ELSE claims("top")
           n == Len(s.layers)
<1>1. n \in Nat /\ ranked \subseteq 1 .. n /\ \A i \in 1 .. n : s.layers[i] \in LayerRecord
  BY DEF Seat, Presented
<1> HIDE DEF ranked, n
<1>2. ASSUME ranked # {}
      PROVE  \E i \in ranked : \A j \in ranked : j <= i
  BY <1>1, <1>2, GreatestInRange
<1> DEFINE last == CHOOSE i \in ranked : \A j \in ranked : j <= i
<1>3. ranked # {} => last \in ranked
  BY <1>2
<1>4. Claimant(s) = IF ranked = {} THEN None ELSE s.layers[last].id
  BY DEF Claimant, ranked
<1> HIDE DEF last
<1>5. ranked # {} => s.layers[last].id \in Layers
  BY <1>1, <1>3 DEF LayerRecord
<1> QED BY <1>4, <1>5

\* A grab in force has a whitelist, and the keyboard it asks for is on it.
LEMMA GrabTargetIs ==
  ASSUME NEW s \in Seat, GrabsHold(s)
  PROVE  /\ s.active # 0 <=> Whitelist(s) # <<>>
         /\ s.active = 0 => GrabTarget(s) = None
         /\ s.active # 0 => GrabTarget(s) \in (Windows \cup Layers) \ {None} /\ Inside(s, GrabTarget(s))
<1> DEFINE w == Whitelist(s)
<1>1. s.active \in 0 .. Len(s.grabs) /\ s.grabs \in Seq(Grab) /\ s.kb \in Holders
  BY DEF Seat, GrabsHold, Holders
<1>2. s.active # 0 => s.active \in DOMAIN s.grabs
  BY <1>1
<1>3. w \in Seq(Whitelistable) /\ (s.active # 0 <=> w # <<>>)
  <2>1. CASE s.active = 0
    BY <2>1 DEF Whitelist
  <2>2. CASE s.active # 0
    <3>1. s.grabs[s.active] \in Grab /\ s.grabs[s.active].committed # <<>>
      BY <1>1, <1>2, <2>2 DEF GrabsHold
    <3>2. w = s.grabs[s.active].committed
      BY <2>2 DEF Whitelist
    <3> QED BY <2>2, <3>1, <3>2 DEF Grab
  <2> QED BY <2>1, <2>2
<1>4. \A x : Inside(s, x) <=> \E i \in 1 .. Len(w) : w[i] = x
  BY DEF Inside, Contains
<1>5. GrabTarget(s) = IF Inside(s, s.kb) THEN s.kb ELSE IF w # <<>> THEN Head(w) ELSE None
  BY DEF GrabTarget
<1> HIDE DEF w
<1>6. \A i \in 1 .. Len(w) : w[i] \in (Windows \cup Layers) \ {None}
  BY <1>3, SeatAssumption
<1>7. w # <<>> => Head(w) = w[1] /\ 1 \in 1 .. Len(w)
  BY <1>3
<1>8. w = <<>> => ~Inside(s, s.kb)
  BY <1>4
<1>9. s.active # 0 => GrabTarget(s) \in (Windows \cup Layers) \ {None} /\ Inside(s, GrabTarget(s))
  <2>1. CASE Inside(s, s.kb)
    BY <2>1, <1>4, <1>5, <1>6
  <2>2. CASE ~Inside(s, s.kb)
    BY <2>2, <1>3, <1>4, <1>5, <1>6, <1>7
  <2> QED BY <2>1, <2>2
<1> QED BY <1>3, <1>5, <1>8, <1>9 DEF w

LEMMA FocusedSurfaceType ==
  ASSUME NEW s \in Seat
  PROVE  FocusedSurface(s) \in Windows \cup {None} /\ WindowTarget(s) \in Windows \cup {None}
BY DEF Seat, FocusedSurface, WindowTarget

\* Where the keyboard belongs is where the claims say.
LEMMA KeyboardTargetIs ==
  ASSUME NEW s \in Seat, GrabsHold(s)
  PROVE  /\ KeyboardTarget(s) \in Holders
         /\ Claimant(s) \in Layers => KeyboardTarget(s) = Claimant(s)
         /\ Claimant(s) = None /\ s.active # 0 => Inside(s, KeyboardTarget(s))
<1>1. Claimant(s) \in Layers \cup {None} /\ None \notin Layers
  BY ClaimantType, SeatAssumption
<1>2. CASE Claimant(s) # None
  <2>1. KeyboardTarget(s) = Claimant(s)
    BY <1>2 DEF KeyboardTarget
  <2> QED BY <1>1, <1>2, <2>1 DEF Holders
<1>3. CASE Claimant(s) = None /\ s.active # 0
  <2>1. GrabTarget(s) # None /\ GrabTarget(s) \in Windows \cup Layers /\ Inside(s, GrabTarget(s))
    BY <1>3, GrabTargetIs
  <2>2. KeyboardTarget(s) = GrabTarget(s)
    BY <1>3, <2>1 DEF KeyboardTarget
  <2> QED BY <1>1, <1>3, <2>1, <2>2 DEF Holders
<1>4. CASE Claimant(s) = None /\ s.active = 0
  <2>1. GrabTarget(s) = None
    BY <1>4, GrabTargetIs
  <2>2. KeyboardTarget(s) = WindowTarget(s)
    BY <1>4, <2>1 DEF KeyboardTarget
  <2> QED BY <1>1, <1>4, <2>2, FocusedSurfaceType DEF Holders
<1> QED BY <1>1, <1>2, <1>3, <1>4

\* The keyboard may go where no claim forbids it.
LEMMA SetFocusGood ==
  ASSUME NEW s, Noted(s), NEW x \in Holders,
         s.locked => /\ x \in LockSurfaces \cup {None, Gone}
                     /\ ~s.dirty /\ OnOutput(s) # {} => Typeable(s, x),
         ~s.locked => /\ s.exclusive \in Layers /\ ~s.missed => x = s.exclusive
                      /\ s.exclusive = None /\ s.active # 0 /\ ~s.refocus => Inside(s, x)
  PROVE  /\ Good(SetFocus(s, x))
         /\ SetFocus(s, x).arrange = s.arrange /\ SetFocus(s, x).refocus = s.refocus
         /\ SetFocus(s, x).dirty = s.dirty
<1> DEFINE u == SetFocus(s, x)
<1>1. /\ u \in Seat /\ u.kb = x /\ u.layers = s.layers /\ u.hidden = s.hidden
      /\ u.arrange = s.arrange /\ u.exclusive = s.exclusive /\ u.grabs = s.grabs
      /\ u.active = s.active /\ u.owed = s.owed /\ u.refocus = s.refocus /\ u.locked = s.locked
      /\ u.ledger = s.ledger /\ u.dirty = s.dirty /\ u.outputs = s.outputs /\ u.missed = s.missed
  <2>0. u = [s EXCEPT !.kb = x] /\ s \in Seat /\ x \in Windows \cup Layers \cup LockSurfaces \cup {None, Gone}
    BY DEF SetFocus, Noted, Holders
  <2> HIDE DEF u
  <2>1. u \in Seat
    BY ONLY <2>0 DEF Seat
  <2> QED BY ONLY <2>0, <2>1 DEF Seat
<1> HIDE DEF u
<1>2. GrabsHold(u) /\ \A y : Inside(u, y) <=> Inside(s, y)
  BY <1>1, GrabsStand DEF Noted
<1>3. LedgerHolds(u)
  BY <1>1, LedgerStands DEF Noted
<1>4. LockHolds(u)
  BY <1>1, LockStands DEF LockHolds
<1>5. ClaimHolds(u)
  BY <1>1, <1>2, ClaimantStands DEF Noted, ClaimHolds
<1> QED BY <1>1, <1>2, <1>3, <1>4, <1>5 DEF Good, u

-----------------------------------------------------------------------------
(* The steps of a pass.                                                      *)

LEMMA CoreSettlesGood ==
  ASSUME NEW s, Good(s), NEW next \in Windows \cup {None}
  PROVE  Good(CoreSettles(s, next))
<1> DEFINE intent == IF next = None THEN Nothing ELSE next
           u == [s EXCEPT !.focused = next, !.intent = intent]
<1>0. intent \in Windows \cup {NoIntent, Nothing} /\ s \in Seat
  BY DEF Good
<1> HIDE DEF intent
<1>1. u \in Seat /\ Alike(s, u)
  <2>1. u \in Seat
    BY <1>0 DEF Seat
  <2>2. Alike(s, u)
    BY <1>0 DEF Seat, Alike
  <2> QED BY <2>1, <2>2
<1>2. Good(u)
  BY <1>1, AlikeGood
<1>3. CoreSettles(s, next) = u \/ CoreSettles(s, next) = s
  BY DEF CoreSettles, intent
<1> QED BY <1>2, <1>3

LEMMA ApplyIntentGood ==
  ASSUME NEW s, Good(s)
  PROVE  Good(ApplyIntent(s))
<1> DEFINE parked == s.intent \in Windows /\ s.window[s.intent] = Unbound
           surface == IF s.intent \in Windows /\ ~s.modal /\ s.window[s.intent] = "live"
                      THEN s.intent ELSE None
           taken == [s EXCEPT !.intent = NoIntent]
<1>1. taken \in Seat /\ Alike(s, taken)
  <2>0. s \in Seat
    BY DEF Good
  <2>1. taken \in Seat
    BY ONLY <2>0 DEF Seat
  <2> QED BY ONLY <2>0, <2>1 DEF Seat, Alike
<1>2. Good(taken)
  <2> HIDE DEF taken
  <2> QED BY <1>1, AlikeGood
<1>3. surface \in Holders
  BY DEF Holders
<1> HIDE DEF taken, surface, parked
<1>4. CASE s.locked \/ s.intent = NoIntent \/ parked
  BY <1>4 DEF ApplyIntent, parked
<1>5. CASE ~(s.locked \/ s.intent = NoIntent \/ parked) /\ (s.exclusive # None \/ s.active # 0)
  <2>1. ApplyIntent(s) = taken
    BY <1>5 DEF ApplyIntent, taken, parked
  <2> QED BY <1>2, <2>1
<1>6. CASE ~(s.locked \/ s.intent = NoIntent \/ parked) /\ ~(s.exclusive # None \/ s.active # 0)
  <2>1. ApplyIntent(s) = SetFocus(taken, surface)
    BY <1>6 DEF ApplyIntent, taken, parked, surface
  <2>2. ~taken.locked /\ taken.exclusive = None /\ taken.active = 0 /\ None \notin Layers
    BY <1>1, <1>6, SeatAssumption DEF Alike, Good, Seat
  <2> QED BY <1>2, <1>3, <2>1, <2>2, SetFocusGood, GoodIsNoted
<1> QED BY <1>4, <1>5, <1>6

LEMMA LayersRefreshGood ==
  ASSUME NEW s, Good(s)
  PROVE  Good(LayersRefresh(s)) /\ ~LayersRefresh(s).arrange
<1> DEFINE r == [s EXCEPT !.arrange = FALSE]
           t == [r EXCEPT !.exclusive = Claimant(r)]
<1>0. s \in Seat
  BY DEF Good
<1>1. CASE ~s.arrange
  BY <1>1 DEF LayersRefresh
<1>2. CASE s.arrange
  <2>1. /\ r \in Seat /\ r.layers = s.layers /\ r.hidden = s.hidden /\ r.exclusive = s.exclusive
        /\ r.locked = s.locked
    <3>1. r \in Seat
      BY ONLY <1>0 DEF Seat
    <3> QED BY ONLY <1>0, <3>1 DEF Seat
  <2>2. Claimant(r) = Claimant(s) /\ Claimant(s) \in Layers \cup {None}
    <3> HIDE DEF r
    <3> QED BY <1>0, <2>1, ClaimantType, ClaimantStands
  <2>3. /\ t \in Seat /\ t.kb = s.kb /\ t.layers = s.layers /\ t.hidden = s.hidden
        /\ t.arrange = FALSE /\ t.exclusive = Claimant(s) /\ t.grabs = s.grabs
        /\ t.active = s.active /\ t.owed = s.owed /\ t.refocus = s.refocus /\ t.locked = s.locked
        /\ t.ledger = s.ledger /\ t.dirty = s.dirty /\ t.outputs = s.outputs /\ t.missed = s.missed
    <3> DEFINE c == Claimant(s)
    <3>1. t = [s EXCEPT !.arrange = FALSE, !.exclusive = c] /\ c \in Layers \cup {None, Gone}
      BY <1>0, <2>2 DEF Seat
    <3> HIDE DEF t, c
    <3>2. t \in Seat
      BY ONLY <1>0, <3>1 DEF Seat
    <3>3. /\ t.kb = s.kb /\ t.layers = s.layers /\ t.hidden = s.hidden
          /\ t.arrange = FALSE /\ t.exclusive = c /\ t.grabs = s.grabs
          /\ t.active = s.active /\ t.owed = s.owed /\ t.refocus = s.refocus /\ t.locked = s.locked
          /\ t.ledger = s.ledger /\ t.dirty = s.dirty /\ t.outputs = s.outputs /\ t.missed = s.missed
      BY ONLY <1>0, <3>1, <3>2 DEF Seat
    <3> QED BY <3>2, <3>3 DEF c
  <2>4. LayersRefresh(s) = IF s.exclusive = Claimant(s) \/ s.locked THEN t
                           ELSE SetFocus([t EXCEPT !.missed = FALSE], KeyboardTarget(t))
    <3>1. LayersRefresh(s) = SyncKeyboard(r)
      BY <1>2 DEF LayersRefresh
    <3> QED BY <2>1, <2>2, <3>1 DEF SyncKeyboard
  <2> HIDE DEF t
  <2>5. GrabsHold(t) /\ LedgerHolds(t) /\ LockHolds(t) /\ Claimant(t) = Claimant(s)
        /\ \A x : Inside(t, x) <=> Inside(s, x)
    BY <2>3, GrabsStand, LedgerStands, LockStands, ClaimantStands DEF Good
  <2>6. Noted(t)
    BY <2>3, <2>5 DEF Noted
  <2>7. CASE s.exclusive = Claimant(s) \/ s.locked
    <3>1. ClaimHolds(t)
      BY <2>3, <2>5, <2>7 DEF Good, ClaimHolds
    <3> QED BY <2>3, <2>4, <2>5, <2>7, <3>1 DEF Good
  <2>8. CASE ~(s.exclusive = Claimant(s) \/ s.locked)
    <3>1. /\ KeyboardTarget(t) \in Holders
          /\ Claimant(t) \in Layers => KeyboardTarget(t) = Claimant(t)
          /\ Claimant(t) = None /\ t.active # 0 => Inside(t, KeyboardTarget(t))
      BY <2>3, <2>5, KeyboardTargetIs
    <3> DEFINE v == [t EXCEPT !.missed = FALSE]
    <3>2. /\ v \in Seat /\ v.layers = t.layers /\ v.hidden = t.hidden /\ v.arrange = t.arrange
          /\ v.exclusive = t.exclusive /\ v.grabs = t.grabs /\ v.active = t.active
          /\ v.owed = t.owed /\ v.locked = t.locked /\ v.ledger = t.ledger
          /\ v.outputs = t.outputs
      <4>1. t \in Seat
        BY <2>3
      <4>2. v \in Seat
        BY ONLY <4>1 DEF Seat
      <4> QED BY ONLY <4>1, <4>2 DEF Seat
    <3> HIDE DEF v
    <3>3. Noted(v) /\ \A x : Inside(v, x) <=> Inside(t, x)
      BY <2>6, <3>2, NotedStands, GrabsStand
    <3>4. Good(SetFocus(v, KeyboardTarget(t)))
          /\ SetFocus(v, KeyboardTarget(t)).arrange = v.arrange
      BY <2>3, <2>5, <2>8, <3>1, <3>2, <3>3, SetFocusGood
    <3> QED BY <2>3, <2>4, <2>8, <3>2, <3>4 DEF v
  <2> QED BY <2>7, <2>8
<1> QED BY <1>1, <1>2

\* The grab in force is cleared, and nobody is owed anything.
LEMMA ClearActiveGood ==
  ASSUME NEW s, Good(s)
  PROVE  /\ Good(ClearActive(s)) /\ ClearActive(s).active = 0
         /\ ClearActive(s).arrange = s.arrange /\ ClearActive(s).exclusive = s.exclusive
         /\ ClearActive(s).locked = s.locked /\ Len(ClearActive(s).grabs) = Len(s.grabs)
         /\ \A i \in DOMAIN s.grabs : i # s.active => ClearActive(s).grabs[i] = s.grabs[i]
<1> DEFINE a == s.active
           g == s.grabs[a].id
           inert == Inert(g)
           grabs == [s.grabs EXCEPT ![a] = inert]
           owed == [s.owed EXCEPT ![g] = s.owed[g] - 1]
           u == [s EXCEPT !.grabs = grabs, !.active = 0, !.refocus = TRUE, !.owed = owed]
<1>0. s \in Seat /\ GrabsHold(s) /\ s.grabs \in Seq(Grab) /\ s.owed \in [Grabs -> Int]
  BY DEF Good, Seat
<1>1. CASE a = 0
  BY <1>1 DEF ClearActive
<1>2. CASE a # 0
  <2>1. a \in DOMAIN s.grabs /\ s.grabs[a] \in Grab
    BY <1>0, <1>2 DEF GrabsHold
  <2>2. inert \in Grab /\ inert.id = g /\ inert.committed = <<>> /\ g \in Grabs
    BY <2>1 DEF Grab, Inert
  <2> HIDE DEF inert
  <2>3. /\ grabs \in Seq(Grab) /\ Len(grabs) = Len(s.grabs) /\ DOMAIN grabs = DOMAIN s.grabs
        /\ \A i \in DOMAIN s.grabs : grabs[i] = IF i = a THEN inert ELSE s.grabs[i]
    BY <1>0, <2>1, <2>2
  <2>4. owed \in [Grabs -> Int] /\ \A h \in Grabs : owed[h] = IF h = g THEN s.owed[g] - 1 ELSE s.owed[h]
    BY <1>0, <2>2
  <2>5. ClearActive(s) = u
    BY <1>0, <1>2 DEF ClearActive, Cleared, inert, Seat
  <2> HIDE DEF grabs, owed
  <2>6. /\ u \in Seat /\ u.kb = s.kb /\ u.layers = s.layers /\ u.hidden = s.hidden
        /\ u.arrange = s.arrange /\ u.exclusive = s.exclusive /\ u.grabs = grabs
        /\ u.active = 0 /\ u.owed = owed /\ u.refocus = TRUE /\ u.locked = s.locked
        /\ u.ledger = s.ledger /\ u.dirty = s.dirty /\ u.outputs = s.outputs /\ u.missed = s.missed
    <3>1. s \in Seat /\ grabs \in Seq(Grab) /\ owed \in [Grabs -> Int]
      BY <1>0, <2>3, <2>4
    <3>2. u \in Seat
      BY ONLY <3>1 DEF Seat
    <3> QED BY ONLY <3>1, <3>2 DEF Seat
  <2> HIDE DEF u
  <2>7. GrabsHold(u)
    <3>0. \A i \in DOMAIN s.grabs : s.grabs[i] \in Grab
      BY <1>0
    <3>1. \A i \in DOMAIN s.grabs : grabs[i].id = s.grabs[i].id /\ s.grabs[i].id \in Grabs
      BY <2>2, <2>3, <3>0 DEF Grab
    <3>2. ASSUME NEW i \in DOMAIN s.grabs
          PROVE  (grabs[i].committed # <<>> <=> i = 0) /\ owed[grabs[i].id] = IF i = 0 THEN 1 ELSE 0
      <4>1. i # 0
        BY <1>0
      <4>2. CASE i = a
        BY <4>1, <4>2, <2>2, <2>3, <2>4, <3>1, <1>0 DEF GrabsHold
      <4>3. CASE i # a
        <5>1. s.grabs[i].id # g
          BY <1>0, <2>1, <4>3 DEF GrabsHold
        <5> QED BY <4>1, <4>3, <5>1, <2>3, <2>4, <3>1, <1>0 DEF GrabsHold
      <4> QED BY <4>2, <4>3
    <3>3. 0 \in 0 .. Len(grabs)
      BY <1>0, <2>3
    <3> QED BY <2>3, <2>6, <3>1, <3>2, <3>3, <1>0 DEF GrabsHold
  <2>8. LedgerHolds(u) /\ LockHolds(u) /\ Claimant(u) = Claimant(s)
    BY <2>6, LedgerStands, LockStands, ClaimantStands DEF Good
  <2>9. ClaimHolds(u)
    BY <2>6, <2>8 DEF Good, ClaimHolds
  <2> QED BY <2>3, <2>5, <2>6, <2>7, <2>8, <2>9 DEF Good
<1> QED BY <1>1, <1>2

LEMMA SettleKeyboardGood ==
  ASSUME NEW s, Good(s)
  PROVE  /\ Good(SettleKeyboard(s)) /\ ~SettleKeyboard(s).refocus
         /\ SettleKeyboard(s).arrange = s.arrange
<1> DEFINE t == [s EXCEPT !.refocus = FALSE]
           h == [t EXCEPT !.held = TRUE]
           f == [t EXCEPT !.held = FALSE]
<1>0. s \in Seat /\ GrabsHold(s) /\ None \notin Layers
  BY SeatAssumption DEF Good
<1>1. /\ t \in Seat /\ t.kb = s.kb /\ t.layers = s.layers /\ t.hidden = s.hidden
      /\ t.arrange = s.arrange /\ t.exclusive = s.exclusive /\ t.grabs = s.grabs
      /\ t.active = s.active /\ t.owed = s.owed /\ t.refocus = FALSE /\ t.locked = s.locked
      /\ t.ledger = s.ledger /\ t.dirty = s.dirty /\ t.outputs = s.outputs /\ t.missed = s.missed
  <2>1. t \in Seat
    BY ONLY <1>0 DEF Seat
  <2> QED BY ONLY <1>0, <2>1 DEF Seat
<1> HIDE DEF t
<1>2. h \in Seat /\ Alike(t, h) /\ f \in Seat /\ Alike(t, f)
  <2>1. t \in Seat
    BY <1>1
  <2>2. h \in Seat /\ f \in Seat
    <3>1. h \in Seat
      BY <2>1 DEF Seat
    <3>2. f \in Seat
      BY <2>1 DEF Seat
    <3> QED BY <3>1, <3>2
  <2>3. Alike(t, h) /\ Alike(t, f)
    BY <2>1 DEF Seat, Alike
  <2> QED BY <2>2, <2>3
<1> HIDE DEF h, f
<1>3. Noted(t) /\ GrabsHold(t) /\ LockHolds(t) /\ (\A x : Inside(t, x) <=> Inside(s, x))
      /\ Whitelist(t) = Whitelist(s) /\ Claimant(t) = Claimant(s)
  BY <1>1, GrabsStand, LockStands, ClaimantStands, NotedStands, GoodIsNoted DEF Good
<1>4. Noted(h) /\ Noted(f)
  BY <1>2, <1>3, NotedStands DEF Alike
<1>5. CASE ~s.refocus
  BY <1>5 DEF SettleKeyboard
<1>6. CASE s.refocus /\ (s.locked \/ s.exclusive # None)
  <2>1. SettleKeyboard(s) = t
    BY <1>6 DEF SettleKeyboard, t
  <2>2. ClaimHolds(t)
    BY <1>1, <1>3, <1>6 DEF Good, ClaimHolds
  <2> QED BY <1>1, <1>3, <2>1, <2>2 DEF Good, Noted
<1>7. CASE s.refocus /\ ~s.locked /\ s.exclusive = None /\ Whitelist(s) # <<>>
  <2>1. SettleKeyboard(s) = SetFocus(h, GrabTarget(t))
    BY <1>7 DEF SettleKeyboard, t, h
  <2>2. GrabTarget(t) \in Holders /\ Inside(t, GrabTarget(t))
    BY <1>1, <1>3, <1>7, GrabTargetIs DEF Holders
  <2>3. Inside(h, GrabTarget(t))
    BY <1>2, <2>2, GrabsStand DEF Alike
  <2>4. ~h.locked /\ h.exclusive = None /\ h.refocus = FALSE /\ h.arrange = s.arrange
    BY <1>1, <1>2, <1>7 DEF Alike
  <2> QED BY <1>0, <1>4, <2>1, <2>2, <2>3, <2>4, SetFocusGood
<1>8. CASE s.refocus /\ ~s.locked /\ s.exclusive = None /\ Whitelist(s) = <<>>
  <2>1. SettleKeyboard(s) = IF s.held THEN SetFocus(f, Fallback(t)) ELSE t
    BY <1>8 DEF SettleKeyboard, t, f
  <2>2. Fallback(t) \in Holders
    <3>1. Present(t, t.onDemand) => t.onDemand \in Layers
      <4>1. \A i \in DOMAIN t.layers : t.layers[i] \in LayerRecord
        BY <1>1 DEF Seat
      <4> QED BY <4>1 DEF Present, LayerRecord
    <3> QED BY <1>1, <3>1, FocusedSurfaceType DEF Fallback, Holders
  <2>3. s.active = 0
    BY <1>0, <1>8, GrabTargetIs
  <2>4. ~f.locked /\ f.exclusive = None /\ f.active = 0 /\ f.refocus = FALSE /\ f.arrange = s.arrange
    BY <1>1, <1>2, <1>8, <2>3 DEF Alike
  <2>5. Good(SetFocus(f, Fallback(t))) /\ ~SetFocus(f, Fallback(t)).refocus
        /\ SetFocus(f, Fallback(t)).arrange = s.arrange
    BY <1>0, <1>4, <2>2, <2>4, SetFocusGood
  <2>6. Good(t)
    BY <1>0, <1>1, <1>3, <1>8, <2>3 DEF Good, Noted, ClaimHolds
  <2> QED BY <1>1, <2>1, <2>5, <2>6
<1> QED BY <1>5, <1>6, <1>7, <1>8

LEMMA GrabRefreshGood ==
  ASSUME NEW s, Good(s)
  PROVE  /\ Good(GrabRefresh(s)) /\ ~GrabRefresh(s).refocus
         /\ GrabRefresh(s).arrange = s.arrange
BY ClearActiveGood, SettleKeyboardGood DEF GrabRefresh

LEMMA SyncModalGood ==
  ASSUME NEW s, Good(s)
  PROVE  /\ Good(SyncModal(s))
         /\ SyncModal(s).refocus = s.refocus /\ SyncModal(s).arrange = s.arrange
<1> DEFINE t == [s EXCEPT !.changed = FALSE]
<1>0. s \in Seat /\ None \notin Layers
  BY SeatAssumption DEF Good
<1>1. t \in Seat /\ Alike(s, t)
  <2>1. t \in Seat
    BY ONLY <1>0 DEF Seat
  <2> QED BY ONLY <1>0, <2>1 DEF Seat, Alike
<1> HIDE DEF t
<1>2. Good(t) /\ t.refocus = s.refocus /\ t.arrange = s.arrange
  BY <1>1, AlikeGood DEF Alike
<1>3. SyncModal(s) = IF ~s.changed \/ s.locked \/ s.exclusive # None \/ s.active # 0 THEN t
                     ELSE SetFocus(t, KeyboardTarget(t))
  BY DEF SyncModal, t
<1>4. ASSUME ~s.locked, s.exclusive = None, s.active = 0
      PROVE  /\ Good(SetFocus(t, KeyboardTarget(t)))
             /\ SetFocus(t, KeyboardTarget(t)).refocus = t.refocus
             /\ SetFocus(t, KeyboardTarget(t)).arrange = t.arrange
  <2>1. KeyboardTarget(t) \in Holders
    BY <1>2, KeyboardTargetIs DEF Good
  <2>2. ~t.locked /\ t.exclusive = None /\ t.active = 0
    BY <1>1, <1>4 DEF Alike
  <2> QED BY <1>0, <1>2, <2>1, <2>2, SetFocusGood, GoodIsNoted
<1> QED BY <1>2, <1>3, <1>4

\* The first surface of the ledger that is on a screen.
LEMMA FirstOnOutputIs ==
  ASSUME NEW s \in Seat
  PROVE  IF OnOutput(s) = {} THEN FirstOnOutput(s) = None
         ELSE FirstOnOutput(s) \in LockSurfaces /\ Typeable(s, FirstOnOutput(s))
<1> DEFINE first == CHOOSE i \in OnOutput(s) : \A j \in OnOutput(s) : i <= j
<1>1. OnOutput(s) \in SUBSET Nat /\ \A i \in OnOutput(s) : s.ledger[i] \in LockEntry
  BY DEF Seat, OnOutput
<1>2. CASE OnOutput(s) # {}
  <2>1. PICK i \in OnOutput(s) : \A j \in OnOutput(s) : ~(j < i)
    BY <1>1, <1>2, LeastNatural
  <2>2. \A j \in OnOutput(s) : i <= j
    BY <1>1, <2>1
  <2>3. first \in OnOutput(s)
    BY <2>1, <2>2
  <2>4. FirstOnOutput(s) = s.ledger[first].surface
    BY <1>2 DEF FirstOnOutput
  <2> HIDE DEF first
  <2> QED BY <1>1, <1>2, <2>3, <2>4 DEF Typeable, LockEntry
<1> QED BY <1>2 DEF FirstOnOutput

LEMMA LockRefreshGood ==
  ASSUME NEW s, Good(s)
  PROVE  /\ Good(LockRefresh(s)) /\ ~LockRefresh(s).dirty
         /\ LockRefresh(s).refocus = s.refocus /\ LockRefresh(s).arrange = s.arrange
<1> DEFINE t == [s EXCEPT !.dirty = FALSE]
<1>0. s \in Seat /\ GrabsHold(s)
  BY DEF Good
<1>1. /\ t \in Seat /\ t.kb = s.kb /\ t.layers = s.layers /\ t.hidden = s.hidden
      /\ t.arrange = s.arrange /\ t.exclusive = s.exclusive /\ t.grabs = s.grabs
      /\ t.active = s.active /\ t.owed = s.owed /\ t.refocus = s.refocus /\ t.locked = s.locked
      /\ t.ledger = s.ledger /\ t.dirty = FALSE /\ t.outputs = s.outputs /\ t.missed = s.missed
  <2>1. t \in Seat
    BY ONLY <1>0 DEF Seat
  <2> QED BY ONLY <1>0, <2>1 DEF Seat
<1>2. LockRefresh(s) = IF ~s.locked \/ ~s.dirty \/ Typeable(s, s.kb) THEN t
                       ELSE SetFocus(t, FirstOnOutput(s))
  BY DEF LockRefresh
<1> HIDE DEF t
<1>3. /\ Noted(t) /\ GrabsHold(t) /\ LedgerHolds(t) /\ OnOutput(t) = OnOutput(s)
      /\ \A x : Typeable(t, x) <=> Typeable(s, x)
      /\ \A x : Inside(t, x) <=> Inside(s, x)
      /\ Claimant(t) = Claimant(s)
  BY <1>1, GrabsStand, LockStands, LedgerStands, ClaimantStands, NotedStands, GoodIsNoted DEF Good
<1>4. ClaimHolds(t)
  BY <1>1, <1>3 DEF Good, ClaimHolds
<1>5. CASE ~s.locked \/ ~s.dirty \/ Typeable(s, s.kb)
  <2>1. LockHolds(t)
    BY <1>1, <1>3, <1>5 DEF Good, LockHolds
  <2> QED BY <1>1, <1>2, <1>3, <1>4, <1>5, <2>1 DEF Good
<1>6. CASE ~(~s.locked \/ ~s.dirty \/ Typeable(s, s.kb))
  <2>1. FirstOnOutput(s) \in LockSurfaces \cup {None}
        /\ (OnOutput(t) # {} => Typeable(t, FirstOnOutput(s)))
    BY <1>0, <1>3, FirstOnOutputIs
  <2>2. FirstOnOutput(s) \in Holders /\ t.locked
    BY <1>1, <1>6, <2>1 DEF Holders
  <2>3. Good(SetFocus(t, FirstOnOutput(s)))
        /\ SetFocus(t, FirstOnOutput(s)).dirty = t.dirty
        /\ SetFocus(t, FirstOnOutput(s)).refocus = t.refocus
        /\ SetFocus(t, FirstOnOutput(s)).arrange = t.arrange
    BY <1>3, <2>1, <2>2, SetFocusGood
  <2> QED BY <1>1, <1>2, <1>6, <2>3
<1> QED BY <1>5, <1>6

LEMMA PassedGood ==
  ASSUME NEW s, Good(s), NEW next \in Windows \cup {None}
  PROVE  Good(Passed(s, next)) /\ Quiet(Passed(s, next))
<1> DEFINE a == LayersRefresh(ApplyIntent(CoreSettles(s, next)))
           b == SyncModal(GrabRefresh(a))
<1>1. Good(a) /\ ~a.arrange
  BY CoreSettlesGood, ApplyIntentGood, LayersRefreshGood
<1>2. Passed(s, next) = LockRefresh(b)
  BY DEF Passed
<1> HIDE DEF a
<1>3. Good(b) /\ ~b.arrange /\ ~b.refocus
  BY <1>1, GrabRefreshGood, SyncModalGood
<1> HIDE DEF b
<1> QED BY <1>2, <1>3, LockRefreshGood DEF Quiet

-----------------------------------------------------------------------------
(* Grabs and the surfaces on their whitelists.                               *)

LEMMA GrabFields ==
  ASSUME NEW s \in Seat
  PROVE  /\ s.grabs \in Seq(Grab) /\ s.owed \in [Grabs -> Int]
         /\ \A i \in DOMAIN s.grabs : /\ s.grabs[i] \in Grab /\ s.grabs[i].id \in Grabs
                                      /\ s.grabs[i].staged \in Seq(Whitelistable)
                                      /\ s.grabs[i].committed \in Seq(Whitelistable)
<1>1. s.grabs \in Seq(Grab) /\ s.owed \in [Grabs -> Int]
  BY DEF Seat
<1>2. \A i \in DOMAIN s.grabs : s.grabs[i] \in Grab
  BY <1>1
<1> QED BY <1>1, <1>2 DEF Grab

\* A grab loses a surface: what it had not committed stays so, and a whitelist
\* that is as before did not name the surface.
LEMMA RetainedIs ==
  ASSUME NEW g \in Grab, NEW x
  PROVE  /\ Retained(g, x) \in Grab /\ Retained(g, x).id = g.id
         /\ g.committed = <<>> => Retained(g, x).committed = <<>>
         /\ Retained(g, x) = g => ~Contains(g.committed, x)
<1> DEFINE others == Whitelistable \ {x}
           staged == Keep(g.staged, others)
           committed == Keep(g.committed, others)
           left == [g EXCEPT !.staged = staged, !.committed = committed]
           ended == [left EXCEPT !.staged = <<>>]
<1>1. g.staged \in Seq(Whitelistable) /\ g.committed \in Seq(Whitelistable)
  BY DEF Grab
<1>2. staged \in Seq(Whitelistable) /\ committed \in Seq(Whitelistable)
      /\ Elements(committed) \subseteq others
  BY <1>1, KeepElements
<1>3. Len(committed) <= Len(g.committed)
  <2> HIDE DEF others
  <2> QED BY <1>1, KeepFewer
<1> HIDE DEF staged, committed
<1>4. left \in Grab /\ left.id = g.id /\ left.committed = committed
      /\ ended \in Grab /\ ended.id = g.id /\ ended.committed = committed
  <2>1. left \in Grab /\ left.id = g.id /\ left.committed = committed
    BY <1>2 DEF Grab
  <2> HIDE DEF left
  <2>2. <<>> \in Seq(Whitelistable)
    OBVIOUS
  <2>3. ended = [id |-> left.id, staged |-> <<>>, committed |-> left.committed]
    BY <2>1, SMTT(60) DEF Grab
  <2>4. ended \in Grab /\ ended.id = left.id /\ ended.committed = left.committed
    <3> HIDE DEF ended
    <3> QED BY <2>1, <2>2, <2>3 DEF Grab
  <2> QED BY <2>1, <2>4
<1>5. Retained(g, x) = IF Ends(g, left) THEN ended ELSE left
  BY DEF Retained, staged, committed
<1>6. Retained(g, x) \in Grab /\ Retained(g, x).id = g.id /\ Retained(g, x).committed = committed
  <2> HIDE DEF left, ended
  <2> QED BY <1>4, <1>5
<1>7. g.committed = <<>> => committed = <<>>
  BY <1>1, <1>2, <1>3
<1>8. committed = g.committed => ~Contains(g.committed, x)
  BY <1>1, <1>2 DEF Contains, Elements
<1> QED BY <1>6, <1>7, <1>8

LEMMA SurfaceDestroyedGood ==
  ASSUME NEW s, Good(s), NEW x \in Windows \cup Layers, s.exclusive # x
  PROVE  Good(SurfaceDestroyed(s, x))
<1> DEFINE a == s.active
           left == [i \in DOMAIN s.grabs |-> Retained(s.grabs[i], x)]
           ended == {i \in DOMAIN s.grabs : Ends(s.grabs[i], left[i])}
           rewhitelisted == {i \in DOMAIN s.grabs : left[i].committed # <<>> /\ left[i] # s.grabs[i]}
           active == IF a \in ended THEN 0 ELSE a
           refocus == s.refocus \/ ended \cup rewhitelisted # {}
           owed == [g \in Grabs |-> IF \E i \in ended : s.grabs[i].id = g
                                    THEN s.owed[g] - 1 ELSE s.owed[g]]
           kb == IF s.kb = x THEN Gone ELSE s.kb
           u == [s EXCEPT !.grabs = left, !.active = active, !.refocus = refocus,
                          !.owed = owed, !.kb = kb]
<1>0. /\ s \in Seat /\ GrabsHold(s) /\ s.grabs \in Seq(Grab) /\ s.owed \in [Grabs -> Int]
      /\ \A i \in DOMAIN s.grabs : s.grabs[i] \in Grab /\ s.grabs[i].id \in Grabs
  BY GrabFields DEF Good
<1>1. u = SurfaceDestroyed(s, x)
  BY DEF SurfaceDestroyed
<1>2. /\ left \in Seq(Grab) /\ DOMAIN left = DOMAIN s.grabs /\ Len(left) = Len(s.grabs)
      /\ \A i \in DOMAIN s.grabs : /\ left[i].id = s.grabs[i].id
                                   /\ s.grabs[i].committed = <<>> => left[i].committed = <<>>
                                   /\ left[i] = s.grabs[i] => ~Contains(s.grabs[i].committed, x)
  <2>1. \A i \in DOMAIN s.grabs :
          /\ left[i] \in Grab /\ left[i].id = s.grabs[i].id
          /\ s.grabs[i].committed = <<>> => left[i].committed = <<>>
          /\ left[i] = s.grabs[i] => ~Contains(s.grabs[i].committed, x)
    BY <1>0, RetainedIs
  <2> DEFINE n == Len(s.grabs)
  <2>2. n \in Nat /\ DOMAIN s.grabs = 1 .. n
    BY <1>0
  <2> HIDE DEF n
  <2>3. left = [i \in 1 .. n |-> left[i]]
    BY <2>2
  <2> HIDE DEF left
  <2>4. \A i \in 1 .. n : left[i] \in Grab
    BY <2>1, <2>2
  <2>5. left \in [1 .. n -> Grab]
    BY <2>3, <2>4
  <2>6. left \in Seq(Grab) /\ DOMAIN left = 1 .. n /\ Len(left) = n
    BY <2>2, <2>5
  <2> QED BY <2>1, <2>2, <2>6 DEF n
<1> HIDE DEF left
<1>3. \A i \in DOMAIN s.grabs : i \in ended <=> s.grabs[i].committed # <<>> /\ left[i].committed = <<>>
  BY DEF Ends
<1>4. ended \subseteq {a} /\ ended \subseteq DOMAIN s.grabs /\ a \in 0 .. Len(s.grabs)
  BY <1>0, <1>3 DEF GrabsHold
<1> HIDE DEF ended
<1>5. active \in 0 .. Len(s.grabs) /\ active \in Nat /\ owed \in [Grabs -> Int] /\ refocus \in BOOLEAN
      /\ kb \in Holders
  BY <1>0, <1>4 DEF Seat, Holders
<1>6. /\ u \in Seat /\ u.kb = kb /\ u.layers = s.layers /\ u.hidden = s.hidden
      /\ u.arrange = s.arrange /\ u.exclusive = s.exclusive /\ u.grabs = left
      /\ u.active = active /\ u.owed = owed /\ u.refocus = refocus /\ u.locked = s.locked
      /\ u.ledger = s.ledger /\ u.dirty = s.dirty /\ u.outputs = s.outputs /\ u.missed = s.missed
  <2> HIDE DEF active, refocus, owed, kb
  <2>1. s \in Seat /\ left \in Seq(Grab) /\ active \in Nat /\ owed \in [Grabs -> Int]
        /\ refocus \in BOOLEAN /\ kb \in Windows \cup Layers \cup LockSurfaces \cup {None, Gone}
    BY <1>0, <1>2, <1>5 DEF Holders
  <2>2. u \in Seat
    BY <2>1 DEF Seat
  <2> QED BY <2>1, <2>2 DEF Seat
<1> HIDE DEF u
<1>7. GrabsHold(u)
  <2>1. ASSUME NEW i \in DOMAIN s.grabs
        PROVE  (left[i].committed # <<>> <=> i = active) /\ owed[left[i].id] = IF i = active THEN 1 ELSE 0
    <3>0. i # 0 /\ s.grabs[i].id \in Grabs /\ left[i].id = s.grabs[i].id
      BY <1>0, <1>2
    <3>1. (\E j \in ended : s.grabs[j].id = s.grabs[i].id) <=> i \in ended
      BY <1>0, <1>4 DEF GrabsHold
    <3>2. s.owed[s.grabs[i].id] = IF i = a THEN 1 ELSE 0
      BY <1>0 DEF GrabsHold
    <3>3. owed[left[i].id] = IF i \in ended THEN s.owed[s.grabs[i].id] - 1 ELSE s.owed[s.grabs[i].id]
      BY <3>0, <3>1
    <3>4. s.grabs[i].committed # <<>> <=> i = a
      BY <1>0 DEF GrabsHold
    <3> HIDE DEF owed
    <3>5. CASE i \in ended
      BY <1>3, <1>4, <3>0, <3>2, <3>3, <3>5
    <3>6. CASE i \notin ended
      BY <1>2, <1>3, <1>4, <3>0, <3>2, <3>3, <3>4, <3>6
    <3> QED BY <3>5, <3>6
  <2>2. \A i, j \in DOMAIN left : left[i].id = left[j].id => i = j
    BY <1>0, <1>2 DEF GrabsHold
  <2> HIDE DEF active, owed
  <2>3. DOMAIN u.grabs = DOMAIN s.grabs /\ u.active \in 0 .. Len(u.grabs)
    BY <1>2, <1>5, <1>6
  <2> QED BY <1>6, <2>1, <2>2, <2>3 DEF GrabsHold
<1>8. LedgerHolds(u) /\ Claimant(u) = Claimant(s)
  BY <1>6, LedgerStands, ClaimantStands DEF Good
<1>9. LockHolds(u)
  <2>1. s.locked => kb = s.kb
    BY SeatAssumption DEF Good, LockHolds
  <2> QED BY <1>6, <2>1, LockStands DEF Good, LockHolds
<1>10. ClaimHolds(u)
  <2>1. ASSUME ~s.locked, s.exclusive \in Layers, ~s.missed
        PROVE  kb = s.exclusive
    BY <2>1 DEF Good, ClaimHolds
  <2>2. ASSUME ~s.locked, s.exclusive = None, active # 0, ~refocus
        PROVE  Inside(u, kb)
    <3>1. active = a /\ a \in DOMAIN s.grabs /\ a \notin ended /\ a \notin rewhitelisted /\ ~s.refocus
      BY <1>0, <1>4, <2>2
    <3>2. s.grabs[a].committed # <<>>
      BY <1>0, <3>1 DEF GrabsHold
    <3>3. left[a] = s.grabs[a]
      BY <1>3, <3>1, <3>2
    <3>4. Inside(s, s.kb) /\ Whitelist(s) = s.grabs[a].committed
      BY <2>2, <3>1 DEF Good, ClaimHolds, Whitelist
    <3>5. Whitelist(u) = s.grabs[a].committed
      BY <1>6, <2>2, <3>1, <3>3 DEF Whitelist
    <3>6. s.kb # x
      BY <1>2, <3>1, <3>3, <3>4 DEF Inside
    <3> QED BY <3>4, <3>5, <3>6 DEF Inside
  <2> QED BY <1>6, <1>8, <2>1, <2>2 DEF Good, ClaimHolds
<1> QED BY <1>1, <1>6, <1>7, <1>8, <1>9, <1>10 DEF Good

\* A whitelist that is staged says nothing yet.
LEMMA StagedGood ==
  ASSUME NEW s, Good(s), NEW i \in DOMAIN s.grabs, NEW w \in Seq(Whitelistable)
  PROVE  Good([s EXCEPT !.grabs[i].staged = w])
<1> DEFINE old == s.grabs[i]
           new == [old EXCEPT !.staged = w]
           grabs == [s.grabs EXCEPT ![i] = new]
           u == [s EXCEPT !.grabs = grabs]
<1>0. s \in Seat /\ s.grabs \in Seq(Grab) /\ old \in Grab /\ GrabsHold(s)
  BY GrabFields DEF Good
<1>1. new \in Grab /\ new.id = old.id /\ new.committed = old.committed
  BY <1>0 DEF Grab
<1> HIDE DEF new
<1>2. /\ grabs \in Seq(Grab) /\ Len(grabs) = Len(s.grabs) /\ DOMAIN grabs = DOMAIN s.grabs
      /\ \A j \in DOMAIN s.grabs : grabs[j].id = s.grabs[j].id /\ grabs[j].committed = s.grabs[j].committed
  BY <1>0, <1>1
<1>3. [s EXCEPT !.grabs[i].staged = w] = u
  BY DEF new
<1> HIDE DEF grabs
<1>4. /\ u \in Seat /\ u.kb = s.kb /\ u.layers = s.layers /\ u.hidden = s.hidden
      /\ u.arrange = s.arrange /\ u.exclusive = s.exclusive /\ u.grabs = grabs
      /\ u.active = s.active /\ u.owed = s.owed /\ u.refocus = s.refocus /\ u.locked = s.locked
      /\ u.ledger = s.ledger /\ u.dirty = s.dirty /\ u.outputs = s.outputs /\ u.missed = s.missed
  <2>1. s \in Seat /\ grabs \in Seq(Grab)
    BY <1>0, <1>2
  <2>2. u \in Seat
    BY ONLY <2>1 DEF Seat
  <2> QED BY ONLY <2>1, <2>2 DEF Seat
<1> HIDE DEF u
<1>5. GrabsHold(u)
  <2>1. DOMAIN u.grabs = DOMAIN s.grabs /\ Len(u.grabs) = Len(s.grabs)
    BY <1>2, <1>4
  <2>2. \A j \in DOMAIN s.grabs : u.grabs[j].id = s.grabs[j].id /\ u.grabs[j].committed = s.grabs[j].committed
    BY <1>2, <1>4
  <2> QED BY <1>0, <1>4, <2>1, <2>2, SMTT(60) DEF GrabsHold
<1>6. LedgerHolds(u) /\ LockHolds(u) /\ Claimant(u) = Claimant(s)
  BY <1>4, LedgerStands, LockStands, ClaimantStands DEF Good
<1>7. Whitelist(u) = Whitelist(s)
  <2>1. s.active # 0 => s.active \in DOMAIN s.grabs
    BY <1>0 DEF GrabsHold
  <2> QED BY <1>2, <1>4, <2>1 DEF Whitelist
<1>8. ClaimHolds(u)
  BY <1>4, <1>6, <1>7 DEF Good, ClaimHolds, Inside
<1> QED BY <1>3, <1>4, <1>5, <1>6, <1>8 DEF Good

\* u is s but for the grab at i, which has committed w.
Recommitted(s, u, i, w) ==
  /\ u \in Seat
  /\ u.kb = s.kb /\ u.layers = s.layers /\ u.hidden = s.hidden /\ u.arrange = s.arrange
  /\ u.exclusive = s.exclusive /\ u.refocus = TRUE /\ u.locked = s.locked
  /\ u.ledger = s.ledger /\ u.dirty = s.dirty /\ u.outputs = s.outputs /\ u.missed = s.missed
  /\ u.grabs = [s.grabs EXCEPT ![i] = [s.grabs[i] EXCEPT !.committed = w]]
  /\ u.active = IF w = <<>> THEN 0 ELSE i
  /\ u.owed = [s.owed EXCEPT ![s.grabs[i].id] = IF w = <<>> THEN 0 ELSE 1]

LEMMA CommitType ==
  ASSUME NEW s \in Seat, NEW i \in DOMAIN s.grabs, NEW w \in Seq(Whitelistable)
  PROVE  [s.grabs EXCEPT ![i] = [s.grabs[i] EXCEPT !.committed = w]] \in Seq(Grab) /\ i \in Nat
<1> DEFINE old == s.grabs[i]
           new == [old EXCEPT !.committed = w]
<1>1. s.grabs \in Seq(Grab) /\ old \in Grab
  BY GrabFields
<1>2. new \in Grab
  BY <1>1 DEF Grab
<1> HIDE DEF new
<1>3. [s.grabs EXCEPT ![i] = new] \in Seq(Grab) /\ i \in Nat
  BY <1>1, <1>2
<1> QED BY <1>3 DEF new

LEMMA RecommittedIs ==
  ASSUME NEW s \in Seat, NEW i \in DOMAIN s.grabs, NEW w \in Seq(Whitelistable), NEW u,
         NEW grabs, grabs = [s.grabs EXCEPT ![i] = [s.grabs[i] EXCEPT !.committed = w]],
         NEW active, active = (IF w = <<>> THEN 0 ELSE i),
         NEW owed \in [Grabs -> Int],
         owed = [s.owed EXCEPT ![s.grabs[i].id] = IF w = <<>> THEN 0 ELSE 1],
         \/ u = [s EXCEPT !.grabs = grabs, !.refocus = TRUE, !.active = active, !.owed = owed]
         \/ u = [s EXCEPT !.grabs = grabs, !.refocus = TRUE, !.active = active] /\ owed = s.owed
  PROVE  Recommitted(s, u, i, w)
<1>1. grabs \in Seq(Grab) /\ i \in Nat
  BY CommitType
<1>2. active \in Nat
  BY <1>1
<1>3. u = [s EXCEPT !.grabs = grabs, !.refocus = TRUE, !.active = active, !.owed = owed]
  <2>1. CASE u = [s EXCEPT !.grabs = grabs, !.refocus = TRUE, !.active = active] /\ owed = s.owed
    BY ONLY <2>1, s \in Seat DEF Seat
  <2> QED BY <2>1
<1>4. /\ u \in Seat
      /\ u.kb = s.kb /\ u.layers = s.layers /\ u.hidden = s.hidden /\ u.arrange = s.arrange
      /\ u.exclusive = s.exclusive /\ u.refocus = TRUE /\ u.locked = s.locked
      /\ u.ledger = s.ledger /\ u.dirty = s.dirty /\ u.outputs = s.outputs /\ u.missed = s.missed
      /\ u.grabs = grabs /\ u.active = active /\ u.owed = owed
  <2>1. u \in Seat
    BY ONLY s \in Seat, <1>1, <1>2, owed \in [Grabs -> Int], <1>3 DEF Seat
  <2> QED BY ONLY s \in Seat, <1>3, <2>1 DEF Seat
<1> QED BY <1>4 DEF Recommitted

\* The grab at i commits w, when no other is in force.
LEMMA CommittedGood ==
  ASSUME NEW s, Good(s), NEW i \in DOMAIN s.grabs, s.active \in {0, i},
         NEW w \in Seq(Whitelistable), NEW u, Recommitted(s, u, i, w)
  PROVE  Good(u)
<1> DEFINE old == s.grabs[i]
           new == [old EXCEPT !.committed = w]
<1>0. /\ s \in Seat /\ s.grabs \in Seq(Grab) /\ GrabsHold(s) /\ s.owed \in [Grabs -> Int]
      /\ old \in Grab /\ \A j \in DOMAIN s.grabs : s.grabs[j].id \in Grabs
  BY GrabFields DEF Good
<1>1. new \in Grab /\ new.id = old.id /\ new.committed = w
  BY <1>0 DEF Grab
<1>2. /\ u \in Seat
      /\ u.kb = s.kb /\ u.layers = s.layers /\ u.hidden = s.hidden /\ u.arrange = s.arrange
      /\ u.exclusive = s.exclusive /\ u.refocus = TRUE /\ u.locked = s.locked
      /\ u.ledger = s.ledger /\ u.dirty = s.dirty /\ u.outputs = s.outputs /\ u.missed = s.missed
      /\ u.grabs = [s.grabs EXCEPT ![i] = new] /\ u.active = (IF w = <<>> THEN 0 ELSE i)
      /\ u.owed = [s.owed EXCEPT ![s.grabs[i].id] = IF w = <<>> THEN 0 ELSE 1]
  BY DEF Recommitted, new
<1> HIDE DEF new
<1>3. /\ DOMAIN u.grabs = DOMAIN s.grabs /\ Len(u.grabs) = Len(s.grabs)
      /\ \A j \in DOMAIN s.grabs : u.grabs[j] = IF j = i THEN new ELSE s.grabs[j]
  <2> DEFINE grabs == s.grabs
  <2>1. grabs \in Seq(Grab) /\ i \in DOMAIN grabs
    BY <1>0
  <2> HIDE DEF grabs
  <2>2. LET g == [grabs EXCEPT ![i] = new] IN
          /\ DOMAIN g = DOMAIN grabs /\ Len(g) = Len(grabs)
          /\ \A j \in DOMAIN grabs : g[j] = IF j = i THEN new ELSE grabs[j]
    BY <1>1, <2>1
  <2> QED BY <1>2, <2>2 DEF grabs
<1>4. GrabsHold(u)
  <2>1. \A j \in DOMAIN s.grabs : u.grabs[j].id = s.grabs[j].id
    BY <1>1, <1>3
  <2>2. ASSUME NEW j \in DOMAIN s.grabs
        PROVE  (u.grabs[j].committed # <<>> <=> j = u.active)
               /\ u.owed[u.grabs[j].id] = IF j = u.active THEN 1 ELSE 0
    <3>0. j # 0
      BY <1>0
    <3>1. CASE j = i
      BY <1>0, <1>1, <1>2, <1>3, <2>1, <3>0, <3>1
    <3>2. CASE j # i
      <4>1. s.grabs[j].id # s.grabs[i].id
        BY <1>0, <3>2 DEF GrabsHold
      <4>2. s.grabs[j].committed = <<>> /\ s.owed[s.grabs[j].id] = 0
        BY <1>0, <3>0, <3>2 DEF GrabsHold
      <4>3. u.grabs[j] = s.grabs[j] /\ u.owed[s.grabs[j].id] = 0
        BY <1>0, <1>2, <1>3, <3>2, <4>1, <4>2
      <4> QED BY <1>2, <3>0, <3>2, <4>2, <4>3
    <3> QED BY <3>1, <3>2
  <2>3. u.active \in 0 .. Len(u.grabs)
    BY <1>0, <1>2, <1>3
  <2> QED BY <1>0, <1>3, <2>1, <2>2, <2>3 DEF GrabsHold
<1>5. LedgerHolds(u) /\ LockHolds(u) /\ Claimant(u) = Claimant(s)
  BY <1>2, LedgerStands, LockStands, ClaimantStands DEF Good
<1>6. ClaimHolds(u)
  BY <1>2, <1>5 DEF Good, ClaimHolds
<1> QED BY <1>2, <1>4, <1>5, <1>6 DEF Good

-----------------------------------------------------------------------------
(* Windows, the core and layer surfaces.                                     *)

LEMMA MapsGood ==
  ASSUME Good(seat), NEW w \in Windows,
         Maps(w, "live") \/ Maps(w, Unbound) \/ Binds(w)
  PROVE  Good(seat')
<1>1. seat \in Seat
  BY DEF Good
<1>2. PICK how \in {"absent", Unbound, "live"} : seat' = [seat EXCEPT !.window[w] = how]
  BY DEF Maps, Binds
<1>3. [seat.window EXCEPT ![w] = how] \in [Windows -> {"absent", Unbound, "live"}]
  BY <1>1 DEF Seat
<1>4. seat' \in Seat
  BY <1>1, <1>2, <1>3 DEF Seat
<1>5. Alike(seat, seat')
  BY <1>1, <1>2 DEF Seat, Alike
<1> QED BY <1>4, <1>5, AlikeGood

LEMMA ClosesGood ==
  ASSUME Good(seat), NEW w \in Windows, Closes(w)
  PROVE  Good(seat')
<1> DEFINE u == [seat EXCEPT !.window[w] = "absent"]
<1>1. seat \in Seat
  BY DEF Good
<1>2. u \in Seat
  <2>1. [seat.window EXCEPT ![w] = "absent"] \in [Windows -> {"absent", Unbound, "live"}]
    BY <1>1 DEF Seat
  <2> QED BY <1>1, <2>1 DEF Seat
<1>3. Alike(seat, u)
  BY <1>1 DEF Seat, Alike
<1>4. seat' = SurfaceDestroyed(u, w)
  BY DEF Closes
<1> HIDE DEF u
<1>5. Good(u)
  BY <1>2, <1>3, AlikeGood
<1>6. u.exclusive # w
  <2>1. u.exclusive \in Layers \cup {None, Gone}
    BY <1>2 DEF Seat
  <2> QED BY <2>1, SeatAssumption
<1> QED BY <1>4, <1>5, <1>6, SurfaceDestroyedGood

LEMMA CoreFocusesGood ==
  ASSUME Good(seat), NEW w \in Windows \cup {None}, CoreFocuses(w)
  PROVE  Good(seat')
<1> DEFINE intent == IF w = None THEN Nothing ELSE w
<1>1. seat \in Seat /\ intent \in Windows \cup {NoIntent, Nothing}
  BY DEF Good
<1>2. seat' = [seat EXCEPT !.focused = w, !.intent = intent]
  BY DEF CoreFocuses
<1> HIDE DEF intent
<1>3. seat' \in Seat
  BY <1>1, <1>2 DEF Seat
<1>4. Alike(seat, seat')
  BY <1>1, <1>2 DEF Seat, Alike
<1> QED BY <1>3, <1>4, AlikeGood

LEMMA ModalChangesGood ==
  ASSUME Good(seat), ModalChanges
  PROVE  Good(seat')
<1>1. seat \in Seat
  BY DEF Good
<1>2. \/ seat' = [seat EXCEPT !.modal = TRUE, !.changed = TRUE]
      \/ seat' = [seat EXCEPT !.modal = FALSE, !.changed = TRUE]
  BY <1>1 DEF ModalChanges
<1>3. CASE seat' = [seat EXCEPT !.modal = TRUE, !.changed = TRUE]
  <2>1. seat' \in Seat
    BY ONLY <1>1, <1>3 DEF Seat
  <2>2. Alike(seat, seat')
    BY ONLY <1>1, <1>3 DEF Seat, Alike
  <2> QED BY <2>1, <2>2, AlikeGood
<1>4. CASE seat' = [seat EXCEPT !.modal = FALSE, !.changed = TRUE]
  <2>1. seat' \in Seat
    BY ONLY <1>1, <1>4 DEF Seat
  <2>2. Alike(seat, seat')
    BY ONLY <1>1, <1>4 DEF Seat, Alike
  <2> QED BY <2>1, <2>2, AlikeGood
<1> QED BY <1>2, <1>3, <1>4

\* While they are to be arranged, the layers may change.
LEMMA LayersChangeGood ==
  ASSUME NEW s, Good(s), NEW u \in Seat,
         u.kb = s.kb, u.arrange, u.exclusive = s.exclusive, u.grabs = s.grabs,
         u.active = s.active, u.owed = s.owed, u.refocus = s.refocus, u.locked = s.locked,
         u.ledger = s.ledger, u.dirty = s.dirty, u.outputs = s.outputs, u.missed = s.missed
  PROVE  Good(u)
<1>1. GrabsHold(u) /\ \A x : Inside(u, x) <=> Inside(s, x)
  BY GrabsStand DEF Good
<1>2. LedgerHolds(u) /\ LockHolds(u)
  BY LedgerStands, LockStands DEF Good
<1>3. ClaimHolds(u)
  BY <1>1 DEF Good, ClaimHolds
<1> QED BY <1>1, <1>2, <1>3 DEF Good

LEMMA NewLayerGood ==
  ASSUME Good(seat), NEW l \in Layers, NEW band \in Bands, NewLayer(l, band)
  PROVE  Good(seat')
<1> DEFINE new == Unmapped(l, band)
           n == Len(seat.layers)
           layers == Append(seat.layers, new)
<1>1. seat \in Seat /\ seat.layers \in Seq(LayerRecord) /\ seat' = [seat EXCEPT !.layers = layers]
  BY DEF NewLayer, Good, Seat
<1>2. new \in LayerRecord /\ new.mapped = FALSE
  BY DEF Unmapped, LayerRecord
<1> HIDE DEF new
<1>3. /\ layers \in Seq(LayerRecord) /\ Len(layers) = n + 1 /\ layers[n + 1] = new
      /\ \A i \in 1 .. n : layers[i] = seat.layers[i]
  BY <1>1, <1>2
<1> HIDE DEF layers
<1>4. seat' \in Seat
  BY <1>1, <1>3 DEF Seat
<1>5. /\ seat'.kb = seat.kb /\ seat'.layers = layers /\ seat'.hidden = seat.hidden
      /\ seat'.arrange = seat.arrange /\ seat'.exclusive = seat.exclusive
      /\ seat'.grabs = seat.grabs /\ seat'.active = seat.active /\ seat'.owed = seat.owed
      /\ seat'.refocus = seat.refocus /\ seat'.locked = seat.locked
      /\ seat'.ledger = seat.ledger /\ seat'.dirty = seat.dirty /\ seat'.outputs = seat.outputs /\ seat'.missed = seat.missed
  BY <1>1 DEF Seat
<1>6. Presented(seat') = Presented(seat)
  <2>1. n \in Nat /\ DOMAIN seat.layers = 1 .. n /\ DOMAIN layers = 1 .. n + 1
    BY <1>1, <1>3
  <2>2. ASSUME NEW i \in 1 .. n + 1
        PROVE  i \in 1 .. n \/ ~layers[i].mapped
    BY <1>2, <1>3, <2>1
  <2>3. \A i \in 1 .. n : i \in 1 .. n + 1
    BY <2>1
  <2> HIDE DEF n
  <2> QED BY <1>3, <1>5, <2>1, <2>2, <2>3 DEF Presented
<1>7. \A i \in Presented(seat) : layers[i] = seat.layers[i]
  BY <1>1, <1>3 DEF Presented
<1>8. Claimant(seat') = Claimant(seat)
  <2> DEFINE claims(s, band1) == {i \in Presented(s) : s.layers[i].asks = "exclusive"
                                                          /\ s.layers[i].band = band1}
             ranked(s) == IF claims(s, "overlay") # {} THEN claims(s, "overlay") ELSE claims(s, "top")
             last(s) == CHOOSE i \in ranked(s) : \A j \in ranked(s) : j <= i
  <2>1. claims(seat', "overlay") = claims(seat, "overlay") /\ claims(seat', "top") = claims(seat, "top")
    BY <1>5, <1>6, <1>7
  <2>2. ranked(seat') = ranked(seat)
    BY <2>1
  <2>3. /\ Claimant(seat) = IF ranked(seat) = {} THEN None ELSE seat.layers[last(seat)].id
        /\ Claimant(seat') = IF ranked(seat') = {} THEN None ELSE layers[last(seat')].id
    BY <1>5 DEF Claimant
  <2>4. ranked(seat) # {} => last(seat) \in Presented(seat)
    <3>1. ranked(seat) \subseteq Presented(seat)
      OBVIOUS
    <3>2. ASSUME ranked(seat) # {}
          PROVE  \E i \in ranked(seat) : \A j \in ranked(seat) : j <= i
      <4>1. ranked(seat) \in SUBSET (1 .. n) /\ n \in Nat
        BY <1>1, <3>1 DEF Presented
      <4> HIDE DEF ranked
      <4> QED BY <3>2, <4>1, GreatestInRange
    <3> HIDE DEF ranked
    <3> QED BY <3>1, <3>2
  <2>5. last(seat') = last(seat)
    BY <2>2
  <2> HIDE DEF last, ranked
  <2> QED BY <1>7, <2>2, <2>3, <2>4, <2>5
<1>9. GrabsHold(seat') /\ \A x : Inside(seat', x) <=> Inside(seat, x)
  BY <1>5, GrabsStand DEF Good
<1>10. LedgerHolds(seat') /\ LockHolds(seat')
  BY <1>5, LedgerStands, LockStands DEF Good
<1>11. ClaimHolds(seat')
  BY <1>5, <1>8, <1>9 DEF Good, ClaimHolds
<1> QED BY <1>4, <1>9, <1>10, <1>11 DEF Good

LEMMA LayerCommitsGood ==
  ASSUME Good(seat), NEW i \in DOMAIN seat.layers, NEW mapped \in BOOLEAN,
         NEW asks \in Interactivity, LayerCommits(i, mapped, asks)
  PROVE  Good(seat')
<1> DEFINE new == [seat.layers[i] EXCEPT !.mapped = mapped, !.asks = asks]
           layers == [seat.layers EXCEPT ![i] = new]
           u == [seat EXCEPT !.layers = layers, !.arrange = TRUE]
<1>1. seat \in Seat /\ seat.layers \in Seq(LayerRecord) /\ seat.layers[i] \in LayerRecord
  BY DEF Good, Seat
<1>2. new \in LayerRecord
  BY <1>1 DEF LayerRecord
<1>3. seat' = LayersRefresh(u)
  BY <1>1 DEF LayerCommits, Seat
<1> HIDE DEF new
<1>4. layers \in Seq(LayerRecord)
  BY <1>1, <1>2
<1> HIDE DEF layers
<1>5. /\ u \in Seat /\ u.kb = seat.kb /\ u.arrange /\ u.exclusive = seat.exclusive
      /\ u.grabs = seat.grabs /\ u.active = seat.active /\ u.owed = seat.owed
      /\ u.refocus = seat.refocus /\ u.locked = seat.locked /\ u.ledger = seat.ledger
      /\ u.dirty = seat.dirty /\ u.outputs = seat.outputs /\ u.missed = seat.missed
  BY <1>1, <1>4 DEF Seat
<1> HIDE DEF u
<1> QED BY <1>3, <1>5, LayersChangeGood, LayersRefreshGood

LEMMA LayerDestroyedGood ==
  ASSUME Good(seat), NEW l \in Layers, LayerDestroyed(l)
  PROVE  Good(seat')
<1> DEFINE others == {record \in LayerRecord : record.id # l}
           layers == Keep(seat.layers, others)
           exclusive == IF seat.exclusive = l THEN Gone ELSE seat.exclusive
           onDemand == IF seat.onDemand = l THEN Gone ELSE seat.onDemand
           u == [seat EXCEPT !.layers = layers, !.arrange = TRUE,
                             !.exclusive = exclusive, !.onDemand = onDemand]
<1>1. seat \in Seat /\ seat.layers \in Seq(LayerRecord)
  BY DEF Good, Seat
<1>2. /\ layers \in Seq(LayerRecord) /\ exclusive \in Layers \cup {None, Gone}
      /\ onDemand \in Layers \cup {None, Gone}
  BY <1>1, KeepElements DEF Seat
<1>3. seat' = SurfaceDestroyed(u, l)
  BY DEF LayerDestroyed
<1>4. exclusive # l
  BY SeatAssumption
<1>5. exclusive \in Layers => exclusive = seat.exclusive
  BY SeatAssumption
<1>6. exclusive = None => seat.exclusive = None
  BY SeatAssumption
<1> HIDE DEF layers, exclusive, onDemand
<1>7. /\ u \in Seat /\ u.kb = seat.kb /\ u.arrange /\ u.exclusive = exclusive
      /\ u.grabs = seat.grabs /\ u.active = seat.active /\ u.owed = seat.owed
      /\ u.refocus = seat.refocus /\ u.locked = seat.locked /\ u.ledger = seat.ledger
      /\ u.dirty = seat.dirty /\ u.outputs = seat.outputs /\ u.missed = seat.missed
  <2>1. u \in Seat
    BY <1>1, <1>2 DEF Seat
  <2> QED BY <1>1, <2>1 DEF Seat
<1> HIDE DEF u
<1>8. GrabsHold(u) /\ \A x : Inside(u, x) <=> Inside(seat, x)
  BY <1>7, GrabsStand DEF Good
<1>9. LedgerHolds(u) /\ LockHolds(u)
  BY <1>7, LedgerStands, LockStands DEF Good
<1>10. ClaimHolds(u)
  BY <1>5, <1>6, <1>7, <1>8 DEF Good, ClaimHolds
<1> QED BY <1>3, <1>4, <1>7, <1>8, <1>9, <1>10, SurfaceDestroyedGood DEF Good

LEMMA HideLayerGood ==
  ASSUME Good(seat), NEW l \in Layers, HideLayer(l)
  PROVE  Good(seat')
<1> DEFINE hidden == IF l \in seat.hidden THEN seat.hidden \ {l} ELSE seat.hidden \cup {l}
<1>1. seat \in Seat /\ hidden \in SUBSET Layers
  BY DEF Good, Seat
<1>2. seat' = [seat EXCEPT !.hidden = hidden, !.arrange = TRUE]
  BY DEF HideLayer
<1> HIDE DEF hidden
<1>3. seat' \in Seat
  BY <1>1, <1>2 DEF Seat
<1>4. /\ seat'.kb = seat.kb /\ seat'.arrange
      /\ seat'.exclusive = seat.exclusive
      /\ seat'.grabs = seat.grabs /\ seat'.active = seat.active /\ seat'.owed = seat.owed
      /\ seat'.refocus = seat.refocus /\ seat'.locked = seat.locked
      /\ seat'.ledger = seat.ledger /\ seat'.dirty = seat.dirty /\ seat'.outputs = seat.outputs /\ seat'.missed = seat.missed
  BY <1>1, <1>2 DEF Seat
<1> QED BY <1>3, <1>4, LayersChangeGood

-----------------------------------------------------------------------------
(* Presses.                                                                  *)

LEMMA ClaimGood ==
  ASSUME NEW s, Good(s), ~s.locked, s.active = 0, NEW l \in Layers
  PROVE  Good(Claim(s, l))
<1> DEFINE accepts == \E i \in Presented(s) : s.layers[i].id = l /\ s.layers[i].asks # "none"
           t == [s EXCEPT !.onDemand = l]
<1>1. s \in Seat /\ None \notin Layers
  BY SeatAssumption DEF Good
<1>2. t \in Seat /\ Alike(s, t)
  BY <1>1 DEF Seat, Alike
<1>3. Claim(s, l) = s \/ Claim(s, l) = t \/ (s.exclusive = None /\ Claim(s, l) = SetFocus(t, l))
  <2>1. CASE ~accepts
    BY <2>1 DEF Claim
  <2>2. CASE accepts /\ s.exclusive # None
    BY <2>2 DEF Claim
  <2>3. CASE accepts /\ s.exclusive = None
    BY <2>3 DEF Claim
  <2> QED BY <2>1, <2>2, <2>3
<1> HIDE DEF t
<1>4. Good(t)
  BY <1>2, AlikeGood
<1>5. ASSUME s.exclusive = None PROVE Good(SetFocus(t, l))
  BY <1>1, <1>2, <1>4, <1>5, SetFocusGood, GoodIsNoted DEF Alike, Holders
<1> QED BY <1>3, <1>4, <1>5

LEMMA ReleaseGood ==
  ASSUME NEW s, Good(s), ~s.locked, s.active = 0
  PROVE  Good(Release(s))
<1> DEFINE t == [s EXCEPT !.onDemand = None]
<1>1. s \in Seat /\ None \notin Layers
  BY SeatAssumption DEF Good
<1>2. t \in Seat /\ Alike(s, t)
  BY <1>1 DEF Seat, Alike
<1>3. Release(s) = IF s.onDemand = None \/ s.exclusive # None THEN t
                   ELSE SetFocus(t, FocusedSurface(t))
  BY DEF Release
<1> HIDE DEF t
<1>4. Good(t) /\ FocusedSurface(t) \in Holders
  BY <1>2, AlikeGood, FocusedSurfaceType DEF Holders
<1>5. ASSUME s.exclusive = None PROVE Good(SetFocus(t, FocusedSurface(t)))
  BY <1>1, <1>2, <1>4, <1>5, SetFocusGood, GoodIsNoted DEF Alike
<1> QED BY <1>3, <1>4, <1>5

LEMMA PressesGood ==
  ASSUME Good(seat), NEW x, Presses(x)
  PROVE  Good(seat')
<1>1. ~seat.locked /\ seat' = Press(seat, x)
  BY DEF Presses
<1>2. CASE seat.active # 0 /\ ~Inside(seat, x)
  <2>1. seat' = ClearActive(seat)
    BY <1>1, <1>2 DEF Press
  <2> QED BY <2>1, ClearActiveGood
<1>3. CASE seat.active # 0 /\ Inside(seat, x)
  <2>1. seat' = seat
    BY <1>1, <1>3 DEF Press
  <2> QED BY <2>1
<1>4. CASE seat.active = 0 /\ x \in Layers
  <2>1. seat' = Claim(seat, x)
    BY <1>1, <1>4 DEF Press
  <2> QED BY <1>1, <1>4, <2>1, ClaimGood
<1>5. CASE seat.active = 0 /\ x \notin Layers
  <2>1. seat' = Release(seat)
    BY <1>1, <1>5 DEF Press
  <2> QED BY <1>1, <1>5, <2>1, ReleaseGood
<1> QED BY <1>2, <1>3, <1>4, <1>5

-----------------------------------------------------------------------------
(* Requests on a grab.                                                       *)

LEMMA CreateGrabGood ==
  ASSUME Good(seat), NEW g \in Grabs, CreateGrab(g)
  PROVE  Good(seat')
<1> DEFINE n == Len(seat.grabs)
           new == Inert(g)
           grabs == Append(seat.grabs, new)
           owed == [seat.owed EXCEPT ![g] = 0]
<1>0. /\ seat \in Seat /\ seat.grabs \in Seq(Grab) /\ GrabsHold(seat)
      /\ seat.owed \in [Grabs -> Int] /\ n \in Nat /\ DOMAIN seat.grabs = 1 .. n
      /\ \A i \in DOMAIN seat.grabs : seat.grabs[i].id \in Grabs
  BY GrabFields DEF Good
<1>1. seat' = [seat EXCEPT !.grabs = grabs, !.owed = owed] /\ \A i \in DOMAIN seat.grabs : seat.grabs[i].id # g
  BY DEF CreateGrab
<1>2. new \in Grab /\ new.id = g /\ new.committed = <<>>
  BY DEF Inert, Grab
<1> HIDE DEF new
<1>3. /\ grabs \in Seq(Grab) /\ Len(grabs) = n + 1 /\ DOMAIN grabs = 1 .. n + 1
      /\ grabs[n + 1] = new /\ \A i \in 1 .. n : grabs[i] = seat.grabs[i]
  BY <1>0, <1>2
<1>4. owed \in [Grabs -> Int] /\ \A h \in Grabs : owed[h] = IF h = g THEN 0 ELSE seat.owed[h]
  BY <1>0
<1> HIDE DEF grabs, owed, n
<1>5. /\ seat' \in Seat /\ seat'.kb = seat.kb /\ seat'.layers = seat.layers
      /\ seat'.hidden = seat.hidden /\ seat'.arrange = seat.arrange
      /\ seat'.exclusive = seat.exclusive /\ seat'.grabs = grabs /\ seat'.active = seat.active
      /\ seat'.owed = owed /\ seat'.refocus = seat.refocus /\ seat'.locked = seat.locked
      /\ seat'.ledger = seat.ledger /\ seat'.dirty = seat.dirty /\ seat'.outputs = seat.outputs /\ seat'.missed = seat.missed
  BY <1>0, <1>1, <1>3, <1>4 DEF Seat
<1>6. seat.active \in 0 .. n
  BY <1>0 DEF GrabsHold, n
<1>7. GrabsHold(seat')
  <2>1. \A i \in 1 .. n + 1 : i \in 1 .. n \/ i = n + 1
    BY <1>0
  <2>2. ASSUME NEW i \in 1 .. n + 1, NEW j \in 1 .. n + 1, grabs[i].id = grabs[j].id
        PROVE  i = j
    BY <1>0, <1>1, <1>2, <1>3, <2>1, <2>2 DEF GrabsHold
  <2>3. ASSUME NEW i \in 1 .. n + 1
        PROVE  (grabs[i].committed # <<>> <=> i = seat.active)
               /\ owed[grabs[i].id] = IF i = seat.active THEN 1 ELSE 0
    <3>1. CASE i \in 1 .. n
      BY <1>0, <1>1, <1>3, <1>4, <3>1 DEF GrabsHold
    <3>2. CASE i = n + 1
      <4>1. i # seat.active
        BY <1>0, <1>6, <3>2
      <4> QED BY <1>2, <1>3, <1>4, <3>2, <4>1
    <3> QED BY <2>1, <3>1, <3>2
  <2>4. seat.active \in 0 .. n + 1
    BY <1>0, <1>6
  <2> QED BY <1>3, <1>5, <2>2, <2>3, <2>4 DEF GrabsHold
<1>8. LedgerHolds(seat') /\ LockHolds(seat') /\ Claimant(seat') = Claimant(seat)
  BY <1>5, LedgerStands, LockStands, ClaimantStands DEF Good
<1>9. Whitelist(seat') = Whitelist(seat)
  <2>1. seat.active # 0 => seat.active \in 1 .. n
    BY <1>0, <1>6
  <2> QED BY <1>3, <1>5, <2>1 DEF Whitelist
<1>10. ClaimHolds(seat')
  BY <1>5, <1>8, <1>9 DEF Good, ClaimHolds, Inside
<1> QED BY <1>5, <1>7, <1>8, <1>10 DEF Good

LEMMA StagesGood ==
  ASSUME Good(seat), NEW i \in DOMAIN seat.grabs, NEW x \in Whitelistable,
         AddSurface(i, x) \/ RemoveSurface(i, x)
  PROVE  Good(seat')
<1>1. seat.grabs[i].staged \in Seq(Whitelistable)
  BY GrabFields DEF Good
<1>2. Append(seat.grabs[i].staged, x) \in Seq(Whitelistable)
  BY <1>1
<1>3. Keep(seat.grabs[i].staged, Whitelistable \ {x}) \in Seq(Whitelistable)
  BY <1>1, KeepElements
<1>4. PICK w \in Seq(Whitelistable) : seat' = [seat EXCEPT !.grabs[i].staged = w]
  BY <1>2, <1>3 DEF AddSurface, RemoveSurface
<1> QED BY <1>4, StagedGood

LEMMA CommitGood ==
  ASSUME Good(seat), NEW i \in DOMAIN seat.grabs, CommitGrab(i)
  PROVE  Good(seat')
<1> DEFINE g == seat.grabs[i]
           id == g.id
           w == g.staged
           commits(t) == [t EXCEPT !.grabs[i].committed = w, !.refocus = TRUE]
           t == ClearActive(seat)
<1>0. /\ seat \in Seat /\ g \in Grab /\ id \in Grabs /\ w \in Seq(Whitelistable)
      /\ g.committed \in Seq(Whitelistable) /\ GrabsHold(seat) /\ i # 0
      /\ seat.owed \in [Grabs -> Int] /\ seat.grabs \in Seq(Grab)
  BY GrabFields DEF Good
<1>1. (g.committed # <<>> <=> i = seat.active) /\ seat.owed[id] = IF i = seat.active THEN 1 ELSE 0
  BY <1>0 DEF GrabsHold
<1>2. CASE w = g.committed
  <2>1. seat' = seat
    BY <1>2 DEF CommitGrab, Commit
  <2> QED BY <2>1
<1>3. CASE w # g.committed /\ w = <<>>
  <2> DEFINE grabs == [seat.grabs EXCEPT ![i] = [seat.grabs[i] EXCEPT !.committed = w]]
             active == IF seat.active = i THEN 0 ELSE seat.active
             owed == [seat.owed EXCEPT ![id] = seat.owed[id] - 1]
  <2>1. i = seat.active /\ seat.owed[id] = 1
    BY <1>0, <1>1, <1>3
  <2>2. seat' = [seat EXCEPT !.grabs = grabs, !.refocus = TRUE, !.active = active, !.owed = owed]
    BY <1>0, <1>3 DEF CommitGrab, Commit, Cleared, Seat
  <2>3. /\ active = (IF w = <<>> THEN 0 ELSE i) /\ owed \in [Grabs -> Int]
        /\ owed = [seat.owed EXCEPT ![id] = IF w = <<>> THEN 0 ELSE 1]
    BY <1>0, <1>3, <2>1
  <2> HIDE DEF active, owed, grabs
  <2>4. Recommitted(seat, seat', i, w)
    BY <1>0, <2>2, <2>3, RecommittedIs DEF grabs
  <2> QED BY <1>0, <2>1, <2>4, CommittedGood
<1>4. CASE w # g.committed /\ w # <<>> /\ g.committed = <<>>
  <2> DEFINE grabs == [t.grabs EXCEPT ![i] = [t.grabs[i] EXCEPT !.committed = w]]
             owed == [t.owed EXCEPT ![id] = t.owed[id] + 1]
  <2>1. /\ Good(t) /\ t.active = 0 /\ Len(t.grabs) = Len(seat.grabs) /\ t.grabs[i] = g
    BY <1>0, <1>1, <1>4, ClearActiveGood
  <2>2. seat' = [commits(t) EXCEPT !.active = i, !.owed[id] = @ + 1]
    BY <1>4 DEF CommitGrab, Commit
  <2> HIDE DEF t
  <2>3. t \in Seat /\ t.grabs \in Seq(Grab) /\ t.owed \in [Grabs -> Int] /\ i \in DOMAIN t.grabs
    BY <1>0, <2>1, GrabFields DEF Good
  <2>4. t.owed[id] = 0
    BY <1>0, <2>1, <2>3 DEF Good, GrabsHold
  <2>5. seat' = [t EXCEPT !.grabs = grabs, !.refocus = TRUE, !.active = i, !.owed = owed]
    BY <2>2, <2>3 DEF Seat
  <2>6. /\ i = (IF w = <<>> THEN 0 ELSE i) /\ owed \in [Grabs -> Int]
        /\ owed = [t.owed EXCEPT ![t.grabs[i].id] = IF w = <<>> THEN 0 ELSE 1]
    BY <1>0, <1>4, <2>1, <2>3, <2>4
  <2> HIDE DEF owed, grabs
  <2>7. Recommitted(t, seat', i, w)
    BY <1>0, <2>3, <2>5, <2>6, RecommittedIs DEF grabs
  <2> QED BY <1>0, <2>1, <2>3, <2>7, CommittedGood
<1>5. CASE w # g.committed /\ w # <<>> /\ g.committed # <<>>
  <2> DEFINE grabs == [seat.grabs EXCEPT ![i] = [seat.grabs[i] EXCEPT !.committed = w]]
  <2>1. i = seat.active /\ seat.owed[id] = 1
    BY <1>0, <1>1, <1>5
  <2>2. seat' = [seat EXCEPT !.grabs = grabs, !.refocus = TRUE, !.active = i]
    BY <1>0, <1>5 DEF CommitGrab, Commit, Seat
  <2>3. /\ i = (IF w = <<>> THEN 0 ELSE i)
        /\ seat.owed = [seat.owed EXCEPT ![id] = IF w = <<>> THEN 0 ELSE 1]
    BY <1>0, <1>5, <2>1
  <2> HIDE DEF grabs
  <2>4. Recommitted(seat, seat', i, w)
    BY <1>0, <2>2, <2>3, RecommittedIs DEF grabs
  <2> QED BY <1>0, <2>1, <2>4, CommittedGood
<1> QED BY <1>2, <1>3, <1>4, <1>5

LEMMA DestroyGrabGood ==
  ASSUME Good(seat), NEW i \in DOMAIN seat.grabs, DestroyGrab(i)
  PROVE  Good(seat')
<1> DEFINE n == Len(seat.grabs)
           a == seat.active
           id == seat.grabs[i].id
           grabs == RemoveAt(seat.grabs, i)
           active == ActiveAfterRemove(a, i)
           refocus == seat.refocus \/ seat.grabs[i].committed # <<>>
           owed == [seat.owed EXCEPT ![id] = 0]
           old(j) == IF j < i THEN j ELSE j + 1
<1>0. /\ seat \in Seat /\ seat.grabs \in Seq(Grab) /\ GrabsHold(seat) /\ a \in 0 .. n
      /\ seat.owed \in [Grabs -> Int] /\ n \in Nat /\ DOMAIN seat.grabs = 1 .. n /\ id \in Grabs
      /\ \A j \in 1 .. n : seat.grabs[j].id \in Grabs
  BY GrabFields DEF Good, GrabsHold
<1>1. seat' = [seat EXCEPT !.grabs = grabs, !.active = active, !.refocus = refocus, !.owed = owed]
  BY DEF DestroyGrab
<1>2. /\ grabs \in Seq(Grab) /\ Len(grabs) = n - 1 /\ DOMAIN grabs = 1 .. n - 1
      /\ \A j \in 1 .. n - 1 : grabs[j] = seat.grabs[old(j)] /\ old(j) \in 1 .. n /\ old(j) # i
  <2>1. /\ grabs \in Seq(Grab) /\ Len(grabs) = n - 1
        /\ \A j \in 1 .. n - 1 : grabs[j] = IF j < i THEN seat.grabs[j] ELSE seat.grabs[j + 1]
    BY <1>0, RemoveAtIs
  <2> HIDE DEF grabs
  <2>2. DOMAIN grabs = 1 .. n - 1
    BY <2>1
  <2> QED BY <1>0, <2>1, <2>2
<1>3. owed \in [Grabs -> Int] /\ \A h \in Grabs : owed[h] = IF h = id THEN 0 ELSE seat.owed[h]
  BY <1>0
<1>4. active \in Nat /\ active \in 0 .. n - 1
      /\ \A j \in 1 .. n - 1 : j = active <=> old(j) = a
  BY <1>0, SMTT(60) DEF ActiveAfterRemove
<1>5. (a # 0 /\ a # i => active # 0 /\ active \in 1 .. n - 1 /\ old(active) = a) /\ (a = 0 \/ a = i => active = 0)
  BY <1>0 DEF ActiveAfterRemove
<1>6. refocus \in BOOLEAN /\ (~refocus => ~seat.refocus /\ a # i)
  <2>1. seat.grabs[i].committed # <<>> <=> i = a
    BY <1>0 DEF GrabsHold
  <2> QED BY <1>0, <2>1 DEF Seat
<1> HIDE DEF grabs, owed, active, refocus, n
<1>7. /\ seat' \in Seat /\ seat'.kb = seat.kb /\ seat'.layers = seat.layers
      /\ seat'.hidden = seat.hidden /\ seat'.arrange = seat.arrange
      /\ seat'.exclusive = seat.exclusive /\ seat'.grabs = grabs /\ seat'.active = active
      /\ seat'.owed = owed /\ seat'.refocus = refocus /\ seat'.locked = seat.locked
      /\ seat'.ledger = seat.ledger /\ seat'.dirty = seat.dirty /\ seat'.outputs = seat.outputs /\ seat'.missed = seat.missed
  <2>1. seat' \in Seat
    <3> DEFINE r == [seat EXCEPT !.grabs = grabs, !.active = active, !.owed = owed]
    <3>0. seat \in Seat /\ grabs \in Seq(Grab) /\ active \in Nat /\ owed \in [Grabs -> Int] /\ refocus \in BOOLEAN
      BY <1>0, <1>2, <1>3, <1>4, <1>6
    <3>1. r \in Seat
      BY ONLY <3>0 DEF Seat
    <3>2. seat' = [r EXCEPT !.refocus = refocus]
      BY ONLY <3>0, <1>1 DEF Seat
    <3> HIDE DEF r
    <3> QED BY ONLY <3>0, <3>1, <3>2 DEF Seat
  <2>2. seat \in Seat
    BY <1>0
  <2> QED BY ONLY <1>1, <2>1, <2>2, SMTT(60) DEF Seat
<1>8. GrabsHold(seat')
  <2>0. \A j, k \in 1 .. n - 1 : old(j) = old(k) => j = k
    BY <1>0
  <2> HIDE DEF old
  <2>1. ASSUME NEW j \in 1 .. n - 1
        PROVE  /\ grabs[j].committed # <<>> <=> j = active
               /\ owed[grabs[j].id] = IF j = active THEN 1 ELSE 0
    <3>1. old(j) \in DOMAIN seat.grabs /\ old(j) # i /\ grabs[j] = seat.grabs[old(j)]
      BY <1>0, <1>2
    <3>2. seat.grabs[old(j)].id # id /\ seat.grabs[old(j)].id \in Grabs
      BY <1>0, <3>1 DEF GrabsHold
    <3>3. /\ seat.grabs[old(j)].committed # <<>> <=> old(j) = a
          /\ seat.owed[seat.grabs[old(j)].id] = IF old(j) = a THEN 1 ELSE 0
      BY <1>0, <3>1 DEF GrabsHold
    <3> QED BY <1>3, <1>4, <3>1, <3>2, <3>3
  <2>2. ASSUME NEW j \in 1 .. n - 1, NEW k \in 1 .. n - 1, grabs[j].id = grabs[k].id
        PROVE  j = k
    <3>1. /\ old(j) \in DOMAIN seat.grabs /\ grabs[j] = seat.grabs[old(j)]
          /\ old(k) \in DOMAIN seat.grabs /\ grabs[k] = seat.grabs[old(k)]
      BY <1>0, <1>2
    <3>2. old(j) = old(k)
      BY <1>0, <2>2, <3>1 DEF GrabsHold
    <3> QED BY <2>0, <3>2
  <2> QED BY <1>2, <1>4, <1>7, <2>1, <2>2 DEF GrabsHold
<1>9. LedgerHolds(seat') /\ LockHolds(seat') /\ Claimant(seat') = Claimant(seat)
  BY <1>7, LedgerStands, LockStands, ClaimantStands DEF Good
<1>10. ASSUME active # 0, ~refocus
       PROVE  Whitelist(seat') = Whitelist(seat) /\ a # 0 /\ ~seat.refocus
  <2>1. a # 0 /\ a # i /\ ~seat.refocus
    BY <1>5, <1>6, <1>10
  <2>2. grabs[active] = seat.grabs[a]
    BY <1>2, <1>5, <2>1
  <2> QED BY <1>7, <1>10, <2>1, <2>2 DEF Whitelist
<1>11. ClaimHolds(seat')
  BY <1>7, <1>9, <1>10 DEF Good, ClaimHolds, Inside
<1> QED BY <1>7, <1>8, <1>9, <1>11 DEF Good

LEMMA GrabRequestGood ==
  ASSUME Good(seat), GrabRequest
  PROVE  Good(seat')
BY CreateGrabGood, StagesGood, CommitGood, DestroyGrabGood DEF GrabRequest

-----------------------------------------------------------------------------
(* The session lock, its ledger and the outputs.                             *)

LEMMA InsideType ==
  ASSUME NEW s \in Seat, GrabsHold(s), NEW x, Inside(s, x)
  PROVE  x \in Windows \cup Layers
<1>1. s.active \in 0 .. Len(s.grabs) /\ s.grabs \in Seq(Grab)
  BY DEF Seat, GrabsHold
<1>2. Whitelist(s) \in Seq(Whitelistable)
  <2>1. CASE s.active = 0
    BY <2>1 DEF Whitelist
  <2>2. CASE s.active # 0
    <3>1. s.grabs[s.active].committed \in Seq(Whitelistable)
      BY <1>1, <2>2, GrabFields
    <3> QED BY <2>2, <3>1 DEF Whitelist
  <2> QED BY <2>1, <2>2
<1>3. \E i \in DOMAIN Whitelist(s) : Whitelist(s)[i] = x
  BY DEF Inside, Contains
<1> QED BY <1>2, <1>3, SeatAssumption

LEMMA EmptyLedger ==
  ASSUME NEW s, s.ledger = <<>>
  PROVE  OnOutput(s) = {} /\ Names(s)
BY DEF OnOutput, Names

\* While it is locked, no claim on the keyboard counts.
LEMMA LockedGood ==
  ASSUME NEW s, Good(s), NEW u \in Seat, u.locked,
         u.layers = s.layers, u.hidden = s.hidden, u.arrange \in {TRUE, s.arrange},
         u.exclusive = s.exclusive, u.grabs = s.grabs, u.active = s.active, u.owed = s.owed,
         u.refocus = s.refocus, LedgerHolds(u), LockHolds(u)
  PROVE  Good(u)
<1>1. GrabsHold(u) /\ Claimant(u) = Claimant(s)
  BY GrabsStand, ClaimantStands DEF Good
<1>2. ClaimHolds(u)
  BY <1>1 DEF Good, ClaimHolds
<1> QED BY <1>1, <1>2 DEF Good

\* Surfaces of the locker go, and the keyboard with them.
LEMMA LockerLosesGood ==
  ASSUME NEW s, Good(s), NEW u \in Seat, NEW K \in SUBSET LockSurfaces,
         u.kb = IF s.kb \in K THEN Gone ELSE s.kb,
         u.layers = s.layers, u.hidden = s.hidden, u.arrange = s.arrange,
         u.exclusive = s.exclusive, u.grabs = s.grabs, u.active = s.active, u.owed = s.owed,
         u.refocus = s.refocus, u.locked = s.locked, u.outputs = s.outputs, u.missed = s.missed,
         Names(u), u.dirty \/ OnOutput(u) = {}
  PROVE  Good(u)
<1>1. /\ GrabsHold(u) /\ Claimant(u) = Claimant(s) /\ \A x : Inside(u, x) <=> Inside(s, x)
      /\ s \in Seat /\ GrabsHold(s)
  BY GrabsStand, ClaimantStands DEF Good
<1>2. LedgerHolds(u) /\ LockHolds(u)
  BY DEF Good, LedgerHolds, LockHolds
<1>3. Layers \cap LockSurfaces = {} /\ Windows \cap LockSurfaces = {}
  BY SeatAssumption
<1>4. ASSUME ~s.locked, s.exclusive \in Layers, ~s.missed
      PROVE  u.kb = s.exclusive
  BY <1>3, <1>4 DEF Good, ClaimHolds
<1>5. ASSUME ~s.locked, s.exclusive = None, s.active # 0, ~s.refocus
      PROVE  Inside(s, u.kb)
  <2>1. Inside(s, s.kb)
    BY <1>5 DEF Good, ClaimHolds
  <2>2. s.kb \in Windows \cup Layers
    BY <1>1, <2>1, InsideType
  <2> QED BY <1>3, <2>1, <2>2
<1>6. ClaimHolds(u)
  BY <1>1, <1>4, <1>5 DEF Good, ClaimHolds
<1> QED BY <1>1, <1>2, <1>6 DEF Good

LEMMA LocksGood ==
  ASSUME Good(seat), Locks
  PROVE  Good(seat')
<1>0. seat \in Seat /\ None \in Windows \cup Layers \cup LockSurfaces \cup {None, Gone}
      /\ <<>> \in Seq(LockEntry)
  BY DEF Good
<1>1. seat' = [seat EXCEPT !.locked = TRUE, !.locker = "alive", !.confirmed = FALSE,
                           !.ledger = <<>>, !.dirty = TRUE, !.kb = None]
  BY <1>0 DEF Locks, SetFocus, Seat
<1>2. seat' \in Seat
  BY <1>0, <1>1 DEF Seat
<1>3. /\ seat'.kb = None /\ seat'.layers = seat.layers /\ seat'.hidden = seat.hidden
      /\ seat'.arrange = seat.arrange /\ seat'.exclusive = seat.exclusive
      /\ seat'.grabs = seat.grabs /\ seat'.active = seat.active /\ seat'.owed = seat.owed
      /\ seat'.refocus = seat.refocus /\ seat'.locked = TRUE
      /\ seat'.ledger = <<>> /\ seat'.dirty = TRUE /\ seat'.outputs = seat.outputs /\ seat'.missed = seat.missed
  BY <1>0, <1>1 DEF Seat
<1>4. LedgerHolds(seat') /\ LockHolds(seat')
  BY <1>3, EmptyLedger DEF Good, LedgerHolds, LockHolds
<1> QED BY <1>2, <1>3, <1>4, LockedGood

LEMMA OutputAtIs ==
  ASSUME NEW s \in Seat, NEW o
  PROVE  /\ OutputAt(s, o) \in Nat
         /\ OutputAt(s, o) # 0 => OutputAt(s, o) \in DOMAIN s.outputs /\ s.outputs[OutputAt(s, o)] = o
         /\ OutputAt(s, o) = 0 => \A i \in DOMAIN s.outputs : s.outputs[i] # o
<1>1. s.outputs \in Seq(Outputs)
  BY DEF Seat
<1>2. CASE \E i \in DOMAIN s.outputs : s.outputs[i] = o
  <2>1. OutputAt(s, o) \in DOMAIN s.outputs /\ s.outputs[OutputAt(s, o)] = o
    BY <1>2 DEF OutputAt
  <2> QED BY <1>1, <2>1
<1>3. CASE ~ \E i \in DOMAIN s.outputs : s.outputs[i] = o
  BY <1>3 DEF OutputAt
<1> QED BY <1>2, <1>3

LEMMA NewLockSurfaceGood ==
  ASSUME Good(seat), NEW k \in LockSurfaces, NEW o \in Outputs, NewLockSurface(k, o)
  PROVE  Good(seat')
<1> DEFINE at == OutputAt(seat, o)
           entry == [surface |-> k, output |-> at, named |-> o]
           n == Len(seat.ledger)
           ledger == Append(seat.ledger, entry)
           t == [seat EXCEPT !.ledger = ledger, !.dirty = TRUE]
           f == [t EXCEPT !.kb = k]
<1>0. seat \in Seat /\ seat.ledger \in Seq(LockEntry) /\ n \in Nat /\ seat.locked
  BY DEF Good, Seat, NewLockSurface
<1>1. /\ at \in Nat
      /\ at # 0 => at \in DOMAIN seat.outputs /\ seat.outputs[at] = o
  BY <1>0, OutputAtIs
<1>2. seat' = f \/ seat' = t
  BY DEF NewLockSurface, SetFocus
<1> HIDE DEF at
<1>3. entry \in LockEntry /\ entry.output = at /\ entry.named = o
  BY <1>1 DEF LockEntry
<1> HIDE DEF entry
<1>4. /\ ledger \in Seq(LockEntry) /\ DOMAIN ledger = 1 .. n + 1 /\ ledger[n + 1] = entry
      /\ \A i \in 1 .. n : ledger[i] = seat.ledger[i]
  BY <1>0, <1>3
<1> HIDE DEF ledger
<1>5. t \in Seat /\ f \in Seat
  <2>1. t \in Seat
    BY <1>0, <1>4 DEF Seat
  <2> HIDE DEF t
  <2>2. f \in Seat
    BY <2>1 DEF Seat
  <2> QED BY <2>1, <2>2
<1>6. /\ seat' \in Seat /\ seat'.kb \in {k, seat.kb}
      /\ seat'.layers = seat.layers /\ seat'.hidden = seat.hidden
      /\ seat'.arrange = seat.arrange /\ seat'.exclusive = seat.exclusive
      /\ seat'.grabs = seat.grabs /\ seat'.active = seat.active /\ seat'.owed = seat.owed
      /\ seat'.refocus = seat.refocus /\ seat'.locked = seat.locked
      /\ seat'.ledger = ledger /\ seat'.dirty = TRUE /\ seat'.outputs = seat.outputs /\ seat'.missed = seat.missed
  <2>1. CASE seat' = t
    <3>1. seat' \in Seat
      BY <1>5, <2>1
    <3> QED BY <1>0, <2>1, <3>1 DEF Seat
  <2>2. CASE seat' = f
    <3>1. seat' \in Seat
      BY <1>5, <2>2
    <3> QED BY <1>0, <2>2, <3>1 DEF Seat
  <2> QED BY <1>2, <2>1, <2>2
<1>7. Names(seat')
  <2>1. \A i \in 1 .. n + 1 : i \in 1 .. n \/ i = n + 1
    BY <1>0
  <2>2. DOMAIN seat.ledger = 1 .. n
    BY <1>0
  <2> HIDE DEF n
  <2> QED BY <1>1, <1>3, <1>4, <1>6, <2>1, <2>2 DEF Good, LedgerHolds, Names
<1>8. LedgerHolds(seat') /\ LockHolds(seat')
  BY <1>0, <1>6, <1>7 DEF Good, LedgerHolds, LockHolds
<1> QED BY <1>0, <1>6, <1>8, LockedGood

LEMMA LockSurfaceDiesGood ==
  ASSUME Good(seat), NEW k \in LockSurfaces, LockSurfaceDies(k)
  PROVE  Good(seat')
<1> DEFINE others == {entry \in LockEntry : entry.surface # k}
           ledger == Keep(seat.ledger, others)
           kb == IF seat.kb = k THEN Gone ELSE seat.kb
<1>0. seat \in Seat /\ seat.ledger \in Seq(LockEntry) /\ kb \in Windows \cup Layers \cup LockSurfaces \cup {None, Gone}
  BY DEF Good, Seat
<1>1. seat' = [seat EXCEPT !.ledger = ledger, !.dirty = TRUE, !.kb = kb]
  BY DEF LockSurfaceDies
<1>2. ledger \in Seq(LockEntry) /\ Elements(ledger) \subseteq Elements(seat.ledger)
  BY <1>0, KeepElements
<1> HIDE DEF ledger, kb
<1>3. seat' \in Seat
  BY <1>0, <1>1, <1>2 DEF Seat
<1>4. /\ seat'.kb = kb /\ seat'.layers = seat.layers /\ seat'.hidden = seat.hidden
      /\ seat'.arrange = seat.arrange /\ seat'.exclusive = seat.exclusive
      /\ seat'.grabs = seat.grabs /\ seat'.active = seat.active /\ seat'.owed = seat.owed
      /\ seat'.refocus = seat.refocus /\ seat'.locked = seat.locked
      /\ seat'.ledger = ledger /\ seat'.dirty = TRUE /\ seat'.outputs = seat.outputs /\ seat'.missed = seat.missed
  BY <1>0, <1>1 DEF Seat
<1>5. Names(seat')
  <2>1. \A i \in DOMAIN ledger : \E j \in DOMAIN seat.ledger : ledger[i] = seat.ledger[j]
    BY <1>2 DEF Elements
  <2> QED BY <1>4, <2>1 DEF Good, LedgerHolds, Names
<1>6. seat'.kb = IF seat.kb \in {k} THEN Gone ELSE seat.kb
  BY <1>4 DEF kb
<1> QED BY <1>3, <1>4, <1>5, <1>6, LockerLosesGood

LEMMA LockerDiesGood ==
  ASSUME Good(seat), LockerDies
  PROVE  Good(seat')
<1> DEFINE kb == IF seat.kb \in LockSurfaces THEN Gone ELSE seat.kb
<1>0. /\ seat \in Seat /\ kb \in Windows \cup Layers \cup LockSurfaces \cup {None, Gone}
      /\ <<>> \in Seq(LockEntry)
  BY DEF Good, Seat
<1>1. PICK dirty \in BOOLEAN :
        seat' = [seat EXCEPT !.locker = "dead", !.confirmed = FALSE, !.ledger = <<>>,
                             !.dirty = dirty, !.kb = kb]
  BY <1>0 DEF LockerDies
<1> HIDE DEF kb
<1>2. seat' \in Seat
  <2> DEFINE r == [seat EXCEPT !.locker = "dead", !.confirmed = FALSE, !.ledger = <<>>]
  <2>1. r \in Seat
    BY <1>0 DEF Seat
  <2> DEFINE q == [r EXCEPT !.dirty = dirty]
  <2>2. seat' = [q EXCEPT !.kb = kb]
    BY <1>0, <1>1 DEF Seat
  <2> HIDE DEF r
  <2>3. q \in Seat
    BY ONLY <2>1, dirty \in BOOLEAN DEF Seat
  <2> HIDE DEF q
  <2> QED BY ONLY <1>0, <2>2, <2>3 DEF Seat
<1>3. /\ seat'.kb = kb /\ seat'.layers = seat.layers /\ seat'.hidden = seat.hidden
      /\ seat'.arrange = seat.arrange /\ seat'.exclusive = seat.exclusive
      /\ seat'.grabs = seat.grabs /\ seat'.active = seat.active /\ seat'.owed = seat.owed
      /\ seat'.refocus = seat.refocus /\ seat'.locked = seat.locked
      /\ seat'.ledger = <<>> /\ seat'.outputs = seat.outputs /\ seat'.missed = seat.missed
  BY <1>0, <1>1 DEF Seat
<1>4. Names(seat') /\ OnOutput(seat') = {}
  BY <1>3, EmptyLedger
<1> QED BY <1>2, <1>3, <1>4, LockerLosesGood DEF kb

LEMMA UnlockedType ==
  ASSUME NEW s \in Seat, NEW missed \in BOOLEAN
  PROVE  [s EXCEPT !.locked = FALSE, !.locker = "none", !.confirmed = FALSE,
                   !.ledger = <<>>, !.dirty = FALSE, !.missed = missed] \in Seat
<1> DEFINE r == [s EXCEPT !.locked = FALSE, !.locker = "none", !.confirmed = FALSE,
                          !.ledger = <<>>, !.dirty = FALSE]
           q == [r EXCEPT !.missed = missed]
<1>0. s \in Seat /\ <<>> \in Seq(LockEntry) /\ missed \in BOOLEAN
  OBVIOUS
<1>1. r \in Seat
  BY <1>0 DEF Seat
<1>2. q = [s EXCEPT !.locked = FALSE, !.locker = "none", !.confirmed = FALSE,
                    !.ledger = <<>>, !.dirty = FALSE, !.missed = missed]
  BY <1>0 DEF Seat
<1> HIDE DEF r
<1>3. q \in Seat
  <2>1. CASE missed
    <3>1. q = [r EXCEPT !.missed = TRUE]
      BY <2>1
    <3> HIDE DEF q
    <3> QED BY <1>1, <3>1 DEF Seat
  <2>2. CASE ~missed
    <3>1. q = [r EXCEPT !.missed = FALSE]
      BY <2>2
    <3> HIDE DEF q
    <3> QED BY <1>1, <3>1 DEF Seat
  <2> QED BY <2>1, <2>2
<1> QED BY <1>2, <1>3

\* The keyboard returns to the one with the highest claim, and if that is not
\* the one noted, it is missed.
LEMMA UnlocksGood ==
  ASSUME Good(seat), Told(seat), Unlocks
  PROVE  Good(seat')
<1> DEFINE missed == seat.exclusive \notin {Claimant(seat), Gone}
           t == [seat EXCEPT !.locked = FALSE, !.locker = "none", !.confirmed = FALSE,
                             !.ledger = <<>>, !.dirty = FALSE, !.missed = missed]
<1>0. /\ seat \in Seat /\ <<>> \in Seq(LockEntry) /\ missed \in BOOLEAN
      /\ None # Gone /\ None \notin Layers /\ Gone \notin Layers
  BY SeatAssumption DEF Good
<1>3. seat' = SetFocus(t, KeyboardTarget(t))
  BY DEF Unlocks
<1>7. ~missed => seat.exclusive = Claimant(seat) \/ seat.exclusive = Gone
  OBVIOUS
<1> HIDE DEF missed
<1>1. t \in Seat
  BY <1>0, UnlockedType
<1>2. /\ t.kb = seat.kb /\ t.layers = seat.layers /\ t.hidden = seat.hidden
      /\ t.arrange = seat.arrange /\ t.exclusive = seat.exclusive
      /\ t.grabs = seat.grabs /\ t.active = seat.active /\ t.owed = seat.owed
      /\ t.refocus = seat.refocus /\ t.locked = FALSE
      /\ t.ledger = <<>> /\ t.outputs = seat.outputs /\ t.missed = missed
  BY <1>0 DEF Seat
<1> HIDE DEF t
<1>4. GrabsHold(t) /\ Claimant(t) = Claimant(seat)
  BY <1>2, GrabsStand, ClaimantStands DEF Good
<1>5. LedgerHolds(t)
  BY <1>2, EmptyLedger DEF Good, LedgerHolds
<1>6. Noted(t)
  BY <1>1, <1>2, <1>4, <1>5 DEF Good, ClaimHolds, Noted
<1>8. /\ KeyboardTarget(t) \in Holders
      /\ t.exclusive \in Layers /\ ~t.missed => KeyboardTarget(t) = t.exclusive
      /\ ~(t.active # 0 /\ ~t.refocus)
  <2>1. KeyboardTarget(t) \in Holders /\ (Claimant(t) \in Layers => KeyboardTarget(t) = Claimant(t))
    BY <1>1, <1>4, KeyboardTargetIs
  <2>2. ~(t.active # 0 /\ ~t.refocus)
    BY <1>2 DEF Told, Unlocks
  <2> QED BY <1>0, <1>2, <1>4, <1>7, <2>1, <2>2
<1> QED BY <1>2, <1>3, <1>6, <1>8, SetFocusGood

LEMMA OutputGoesGood ==
  ASSUME Good(seat), NEW i \in DOMAIN seat.outputs, OutputGoes(i)
  PROVE  Good(seat')
<1> DEFINE outputs == RemoveAt(seat.outputs, i)
           moved(j) == [seat.ledger[j] EXCEPT !.output = Reindex(seat.ledger[j].output, i)]
           ledger == [j \in DOMAIN seat.ledger |-> moved(j)]
           n == Len(seat.outputs)
           m == Len(seat.ledger)
<1>0. /\ seat \in Seat /\ seat.locked /\ seat.outputs \in Seq(Outputs) /\ n \in Nat
      /\ DOMAIN seat.outputs = 1 .. n /\ i \in 1 .. n
      /\ seat.ledger \in Seq(LockEntry) /\ m \in Nat /\ DOMAIN seat.ledger = 1 .. m
      /\ \A j \in 1 .. m : seat.ledger[j] \in LockEntry
  BY DEF Good, Seat, OutputGoes
<1>1. seat' = [seat EXCEPT !.outputs = outputs, !.dirty = TRUE, !.arrange = TRUE, !.ledger = ledger]
  BY DEF OutputGoes
<1>2. /\ outputs \in Seq(Outputs) /\ Len(outputs) = n - 1
      /\ \A j \in 1 .. n - 1 : outputs[j] = IF j < i THEN seat.outputs[j] ELSE seat.outputs[j + 1]
  BY <1>0, RemoveAtIs
<1> HIDE DEF outputs
<1>3. DOMAIN outputs = 1 .. n - 1
  BY <1>2
<1>4. ASSUME NEW j \in 1 .. m
      PROVE  /\ moved(j) \in LockEntry /\ moved(j).named = seat.ledger[j].named
             /\ moved(j).output = Reindex(seat.ledger[j].output, i)
  <2> DEFINE old == seat.ledger[j]
             at == Reindex(old.output, i)
  <2>1. old \in LockEntry /\ old.output \in Nat
    BY <1>0 DEF LockEntry
  <2>2. at \in Nat
    BY <1>0, <2>1 DEF Reindex
  <2> HIDE DEF old, at
  <2>3. LET u == [old EXCEPT !.output = at] IN u \in LockEntry /\ u.named = old.named /\ u.output = at
    BY <2>1, <2>2 DEF LockEntry
  <2> QED BY <2>3 DEF old, at
<1> HIDE DEF moved
<1>5. ledger \in Seq(LockEntry) /\ DOMAIN ledger = 1 .. m /\ \A j \in 1 .. m : ledger[j] = moved(j)
  <2>1. ledger = [j \in 1 .. m |-> moved(j)]
    BY <1>0
  <2> HIDE DEF ledger, m
  <2> QED BY <1>0, <1>4, <2>1
<1> HIDE DEF ledger, n, m
<1>6. seat' \in Seat
  BY <1>0, <1>1, <1>2, <1>5 DEF Seat
<1>7. /\ seat'.kb = seat.kb /\ seat'.layers = seat.layers /\ seat'.hidden = seat.hidden
      /\ seat'.arrange = TRUE /\ seat'.exclusive = seat.exclusive
      /\ seat'.grabs = seat.grabs /\ seat'.active = seat.active /\ seat'.owed = seat.owed
      /\ seat'.refocus = seat.refocus /\ seat'.locked = seat.locked
      /\ seat'.ledger = ledger /\ seat'.dirty = TRUE /\ seat'.outputs = outputs /\ seat'.missed = seat.missed
  BY <1>0, <1>1 DEF Seat
<1>8. Distinct(outputs)
  <2>1. \A j, k \in 1 .. n : seat.outputs[j] = seat.outputs[k] => j = k
    BY <1>0 DEF Good, LedgerHolds, Distinct
  <2>2. ASSUME NEW j \in 1 .. n - 1, NEW k \in 1 .. n - 1, outputs[j] = outputs[k]
        PROVE  j = k
    <3> DEFINE a == IF j < i THEN j ELSE j + 1
               b == IF k < i THEN k ELSE k + 1
    <3>1. a \in 1 .. n /\ b \in 1 .. n /\ outputs[j] = seat.outputs[a] /\ outputs[k] = seat.outputs[b]
      BY <1>0, <1>2
    <3>2. a = b
      <4> HIDE DEF a, b
      <4> QED BY <2>1, <2>2, <3>1
    <3> QED BY <1>0, <3>2
  <2> QED BY <1>3, <2>2 DEF Distinct
<1>9. Names(seat')
  <2>1. ASSUME NEW j \in 1 .. m, ledger[j].output # 0
        PROVE  ledger[j].output \in 1 .. n - 1 /\ outputs[ledger[j].output] = ledger[j].named
    <3> DEFINE at == seat.ledger[j].output
    <3>1. ledger[j].output = Reindex(at, i) /\ ledger[j].named = seat.ledger[j].named /\ at \in Nat
      BY <1>0, <1>4, <1>5 DEF LockEntry
    <3>2. at # 0 /\ at # i
      BY <1>0, <2>1, <3>1 DEF Reindex
    <3>3. at \in 1 .. n /\ seat.outputs[at] = seat.ledger[j].named
      BY <1>0, <3>2 DEF Good, LedgerHolds, Names
    <3> HIDE DEF at
    <3>4. CASE at > i
      <4>1. ledger[j].output = at - 1 /\ at - 1 \in 1 .. n - 1 /\ ~(at - 1 < i) /\ at - 1 + 1 = at
        BY <1>0, <3>1, <3>2, <3>3, <3>4 DEF Reindex
      <4> QED BY <1>2, <3>1, <3>3, <4>1
    <3>5. CASE ~(at > i)
      <4>1. ledger[j].output = at /\ at \in 1 .. n - 1 /\ at < i
        BY <1>0, <3>1, <3>2, <3>3, <3>5 DEF Reindex
      <4> QED BY <1>2, <3>1, <3>3, <4>1
    <3> QED BY <3>4, <3>5
  <2> QED BY <1>3, <1>5, <1>7, <2>1 DEF Names
<1>10. LedgerHolds(seat') /\ LockHolds(seat')
  BY <1>0, <1>7, <1>8, <1>9 DEF Good, LedgerHolds, LockHolds
<1> QED BY <1>0, <1>6, <1>7, <1>10, LockedGood

LEMMA OutputComesGood ==
  ASSUME Good(seat), NEW o \in Outputs, OutputComes(o)
  PROVE  Good(seat')
<1> DEFINE n == Len(seat.outputs)
           outputs == Append(seat.outputs, o)
<1>0. /\ seat \in Seat /\ seat.locked /\ seat.outputs \in Seq(Outputs) /\ n \in Nat
      /\ DOMAIN seat.outputs = 1 .. n
  BY DEF Good, Seat, OutputComes
<1>1. seat' = [seat EXCEPT !.outputs = outputs, !.dirty = TRUE, !.arrange = TRUE]
  BY DEF OutputComes
<1>2. \A i \in 1 .. n : seat.outputs[i] # o
  BY <1>0, OutputAtIs DEF OutputComes
<1>3. /\ outputs \in Seq(Outputs) /\ DOMAIN outputs = 1 .. n + 1 /\ outputs[n + 1] = o
      /\ \A i \in 1 .. n : outputs[i] = seat.outputs[i]
  BY <1>0
<1> HIDE DEF outputs, n
<1>4. seat' \in Seat
  BY <1>0, <1>1, <1>3 DEF Seat
<1>5. /\ seat'.kb = seat.kb /\ seat'.layers = seat.layers /\ seat'.hidden = seat.hidden
      /\ seat'.arrange = TRUE /\ seat'.exclusive = seat.exclusive
      /\ seat'.grabs = seat.grabs /\ seat'.active = seat.active /\ seat'.owed = seat.owed
      /\ seat'.refocus = seat.refocus /\ seat'.locked = seat.locked
      /\ seat'.ledger = seat.ledger /\ seat'.dirty = TRUE /\ seat'.outputs = outputs /\ seat'.missed = seat.missed
  BY <1>0, <1>1 DEF Seat
<1>6. \A i \in 1 .. n + 1 : i \in 1 .. n \/ i = n + 1
  BY <1>0
<1>7. Distinct(outputs)
  BY <1>0, <1>2, <1>3, <1>6 DEF Good, LedgerHolds, Distinct
<1>8. Names(seat')
  <2>1. \A i \in 1 .. n : i \in 1 .. n + 1
    BY <1>0
  <2> QED BY <1>0, <1>3, <1>5, <2>1 DEF Good, LedgerHolds, Names
<1>9. LedgerHolds(seat') /\ LockHolds(seat')
  BY <1>0, <1>5, <1>7, <1>8 DEF Good, LedgerHolds, LockHolds
<1> QED BY <1>0, <1>4, <1>5, <1>9, LockedGood

LEMMA LockRequestGood ==
  ASSUME Good(seat), Told(seat), LockRequest
  PROVE  Good(seat')
BY LocksGood, LockerDiesGood, UnlocksGood, LockSurfaceDiesGood, NewLockSurfaceGood DEF LockRequest

-----------------------------------------------------------------------------
(* A grab in force under a lock.                                             *)

\* A step that leaves the lock alone puts a grab in force only when it is to be
\* settled.
Lets(s, u) ==
  /\ u.locked = s.locked /\ u.locker = s.locker /\ u.confirmed = s.confirmed
  /\ u.active # 0 /\ ~u.refocus => s.active # 0 /\ ~s.refocus

LEMMA LetsTold ==
  ASSUME NEW s, Told(s), NEW u, Lets(s, u)
  PROVE  Told(u)
BY DEF Told, Lets

LEMMA SetFocusLets ==
  ASSUME NEW s \in Seat, NEW x
  PROVE  Lets(s, SetFocus(s, x)) /\ SetFocus(s, x).active = s.active
BY ONLY s \in Seat DEF Seat, SetFocus, Lets

LEMMA ClearActiveLets ==
  ASSUME NEW s \in Seat
  PROVE  Lets(s, ClearActive(s)) /\ (s.active # 0 => ClearActive(s).active = 0)
         /\ (s.active = 0 => ClearActive(s) = s)
<1>1. CASE s.active = 0
  BY <1>1 DEF ClearActive, Lets
<1>2. CASE s.active # 0
  <2> DEFINE g == s.grabs[s.active].id
             grabs == [s.grabs EXCEPT ![s.active] = Inert(g)]
             owed == [s.owed EXCEPT ![g] = s.owed[g] - 1]
  <2>1. ClearActive(s) = [s EXCEPT !.grabs = grabs, !.active = 0, !.refocus = TRUE, !.owed = owed]
    BY <1>2 DEF ClearActive, Cleared, Seat
  <2> HIDE DEF grabs, owed
  <2>2. Lets(s, ClearActive(s)) /\ ClearActive(s).active = 0
    BY ONLY s \in Seat, <2>1 DEF Seat, Lets
  <2> QED BY <1>2, <2>2
<1> QED BY <1>1, <1>2

LEMMA SurfaceDestroyedLets ==
  ASSUME NEW s \in Seat, NEW x
  PROVE  Lets(s, SurfaceDestroyed(s, x))
<1> DEFINE left == [i \in DOMAIN s.grabs |-> Retained(s.grabs[i], x)]
           ended == {i \in DOMAIN s.grabs : Ends(s.grabs[i], left[i])}
           rewhitelisted == {i \in DOMAIN s.grabs : left[i].committed # <<>> /\ left[i] # s.grabs[i]}
           active == IF s.active \in ended THEN 0 ELSE s.active
           refocus == s.refocus \/ ended \cup rewhitelisted # {}
           owed == [g \in Grabs |-> IF \E i \in ended : s.grabs[i].id = g
                                    THEN s.owed[g] - 1 ELSE s.owed[g]]
           kb == IF s.kb = x THEN Gone ELSE s.kb
           u == [s EXCEPT !.grabs = left, !.active = active, !.refocus = refocus,
                          !.owed = owed, !.kb = kb]
<1>1. u = SurfaceDestroyed(s, x)
  BY DEF SurfaceDestroyed
<1>2. active # 0 /\ ~refocus => s.active # 0 /\ ~s.refocus
  OBVIOUS
<1> HIDE DEF left, ended, rewhitelisted, active, refocus, owed, kb
<1> QED BY ONLY s \in Seat, <1>1, <1>2 DEF Seat, Lets

LEMMA LayersRefreshLets ==
  ASSUME NEW s \in Seat
  PROVE  Lets(s, LayersRefresh(s)) /\ LayersRefresh(s).active = s.active
<1> DEFINE r == [s EXCEPT !.arrange = FALSE]
           c == Claimant(r)
           t == [r EXCEPT !.exclusive = c]
           x == KeyboardTarget(t)
           v == [t EXCEPT !.missed = FALSE]
           w == [v EXCEPT !.kb = x]
<1>1. LayersRefresh(s) \in {s, t, w}
  BY DEF LayersRefresh, SyncKeyboard, SetFocus
<1> HIDE DEF c, x
<1>2. Lets(s, t) /\ t.active = s.active
  BY ONLY s \in Seat DEF Seat, Lets
<1>3. Lets(s, w) /\ w.active = s.active
  BY ONLY s \in Seat DEF Seat, Lets
<1> HIDE DEF t, w
<1> QED BY <1>1, <1>2, <1>3 DEF Lets

LEMMA WindowsTold ==
  ASSUME seat \in Seat, Told(seat),
         \/ \E w \in Windows :
              Maps(w, "live") \/ Maps(w, Unbound) \/ Binds(w) \/ Closes(w) \/ CoreFocuses(w)
         \/ CoreFocuses(None) \/ ModalChanges
  PROVE  Told(seat')
<1>1. ASSUME NEW w \in Windows, Maps(w, "live") \/ Maps(w, Unbound) \/ Binds(w)
      PROVE  Told(seat')
  <2>1. PICK how \in {"absent", Unbound, "live"} : seat' = [seat EXCEPT !.window[w] = how]
    BY <1>1 DEF Maps, Binds
  <2> DEFINE window == [seat.window EXCEPT ![w] = how]
  <2>2. seat' = [seat EXCEPT !.window = window]
    BY <2>1
  <2> HIDE DEF window
  <2>3. Lets(seat, seat')
    BY ONLY seat \in Seat, <2>2 DEF Seat, Lets
  <2> QED BY <2>3, LetsTold
<1>2. ASSUME NEW w \in Windows, Closes(w)
      PROVE  Told(seat')
  <2> DEFINE window == [seat.window EXCEPT ![w] = "absent"]
             u == [seat EXCEPT !.window = window]
  <2>1. seat' = SurfaceDestroyed(u, w)
    BY <1>2 DEF Closes
  <2>2. window \in [Windows -> {"absent", Unbound, "live"}]
    BY DEF Seat
  <2> HIDE DEF window
  <2>3. u \in Seat
    BY <2>2 DEF Seat
  <2>4. Lets(seat, u)
    BY ONLY seat \in Seat DEF Seat, Lets
  <2> HIDE DEF u
  <2> QED BY <2>1, <2>3, <2>4, LetsTold, SurfaceDestroyedLets
<1>3. ASSUME NEW w \in Windows \cup {None}, CoreFocuses(w)
      PROVE  Told(seat')
  <2>1. PICK intent : seat' = [seat EXCEPT !.focused = w, !.intent = intent]
    BY <1>3 DEF CoreFocuses
  <2>2. Lets(seat, seat')
    BY ONLY seat \in Seat, <2>1 DEF Seat, Lets
  <2> QED BY <2>2, LetsTold
<1>4. ASSUME ModalChanges
      PROVE  Told(seat')
  <2>1. PICK modal : seat' = [seat EXCEPT !.modal = modal, !.changed = TRUE]
    BY <1>4 DEF ModalChanges
  <2>2. Lets(seat, seat')
    BY ONLY seat \in Seat, <2>1 DEF Seat, Lets
  <2> QED BY <2>2, LetsTold
<1> QED BY <1>1, <1>2, <1>3, <1>4

LEMMA LayersTold ==
  ASSUME seat \in Seat, Told(seat),
         \/ \E l \in Layers :
              LayerDestroyed(l) \/ HideLayer(l) \/ \E band \in Bands : NewLayer(l, band)
         \/ \E i \in DOMAIN seat.layers, mapped \in BOOLEAN, asks \in Interactivity :
              LayerCommits(i, mapped, asks)
  PROVE  Told(seat')
<1>1. ASSUME NEW l \in Layers, HideLayer(l)
      PROVE  Told(seat')
  <2>1. PICK hidden : seat' = [seat EXCEPT !.hidden = hidden, !.arrange = TRUE]
    BY <1>1 DEF HideLayer
  <2>2. Lets(seat, seat')
    BY ONLY seat \in Seat, <2>1 DEF Seat, Lets
  <2> QED BY <2>2, LetsTold
<1>2. ASSUME NEW l \in Layers, NEW band \in Bands, NewLayer(l, band)
      PROVE  Told(seat')
  <2>1. PICK layers : seat' = [seat EXCEPT !.layers = layers]
    BY <1>2 DEF NewLayer
  <2>2. Lets(seat, seat')
    BY ONLY seat \in Seat, <2>1 DEF Seat, Lets
  <2> QED BY <2>2, LetsTold
<1>3. ASSUME NEW l \in Layers, LayerDestroyed(l)
      PROVE  Told(seat')
  <2> DEFINE others == {record \in LayerRecord : record.id # l}
             layers == Keep(seat.layers, others)
             exclusive == IF seat.exclusive = l THEN Gone ELSE seat.exclusive
             onDemand == IF seat.onDemand = l THEN Gone ELSE seat.onDemand
             s == [seat EXCEPT !.layers = layers, !.arrange = TRUE,
                               !.exclusive = exclusive, !.onDemand = onDemand]
  <2>1. seat.layers \in Seq(LayerRecord)
    BY DEF Seat
  <2>2. /\ layers \in Seq(LayerRecord) /\ exclusive \in Layers \cup {None, Gone}
        /\ onDemand \in Layers \cup {None, Gone}
    BY <2>1, KeepElements DEF Seat
  <2>3. seat' = SurfaceDestroyed(s, l)
    BY <1>3 DEF LayerDestroyed
  <2> HIDE DEF layers, exclusive, onDemand
  <2>4. s \in Seat
    BY <2>2 DEF Seat
  <2>5. Lets(seat, s)
    BY ONLY seat \in Seat DEF Seat, Lets
  <2> HIDE DEF s
  <2> QED BY <2>3, <2>4, <2>5, LetsTold, SurfaceDestroyedLets
<1>4. ASSUME NEW i \in DOMAIN seat.layers, NEW mapped \in BOOLEAN, NEW asks \in Interactivity,
             LayerCommits(i, mapped, asks)
      PROVE  Told(seat')
  <2> DEFINE new == [seat.layers[i] EXCEPT !.mapped = mapped, !.asks = asks]
             layers == [seat.layers EXCEPT ![i] = new]
             u == [seat EXCEPT !.layers = layers, !.arrange = TRUE]
  <2>1. seat.layers \in Seq(LayerRecord) /\ seat.layers[i] \in LayerRecord
    BY DEF Seat
  <2>2. new \in LayerRecord
    BY <2>1 DEF LayerRecord
  <2>3. seat' = LayersRefresh(u)
    BY <1>4 DEF LayerCommits, Seat
  <2> HIDE DEF new
  <2>4. layers \in Seq(LayerRecord)
    BY <2>1, <2>2
  <2> HIDE DEF layers
  <2>5. u \in Seat
    BY <2>4 DEF Seat
  <2>6. Lets(seat, u)
    BY ONLY seat \in Seat DEF Seat, Lets
  <2> HIDE DEF u
  <2> QED BY <2>3, <2>5, <2>6, LetsTold, LayersRefreshLets
<1> QED BY <1>1, <1>2, <1>3, <1>4

LEMMA PressesTold ==
  ASSUME seat \in Seat, Told(seat), NEW x, Presses(x)
  PROVE  Told(seat')
<1>1. seat' = Press(seat, x)
  BY DEF Presses
<1>2. CASE seat.active # 0 /\ ~Inside(seat, x)
  <2>1. seat' = ClearActive(seat)
    BY <1>1, <1>2 DEF Press
  <2> QED BY <2>1, ClearActiveLets, LetsTold
<1>3. CASE seat.active # 0 /\ Inside(seat, x)
  BY <1>1, <1>3 DEF Press
<1>4. CASE seat.active = 0 /\ x \in Layers
  <2> DEFINE t == [seat EXCEPT !.onDemand = x]
  <2>0. x \in Layers
    BY <1>4
  <2>1. t \in Seat
    BY ONLY seat \in Seat, <2>0 DEF Seat
  <2>2. Lets(seat, t)
    BY ONLY seat \in Seat, <2>1 DEF Seat, Lets
  <2>3. seat' \in {seat, t, SetFocus(t, x)}
    BY <1>1, <1>4 DEF Press, Claim
  <2> HIDE DEF t
  <2>4. Told(t) /\ Told(SetFocus(t, x))
    BY <2>1, <2>2, SetFocusLets, LetsTold
  <2> QED BY <2>3, <2>4
<1>5. CASE seat.active = 0 /\ x \notin Layers
  <2> DEFINE t == [seat EXCEPT !.onDemand = None]
             y == FocusedSurface(t)
  <2>1. t \in Seat
    BY ONLY seat \in Seat DEF Seat
  <2>2. Lets(seat, t)
    BY ONLY seat \in Seat, <2>1 DEF Seat, Lets
  <2>3. seat' \in {t, SetFocus(t, y)}
    BY <1>1, <1>5 DEF Press, Release
  <2> HIDE DEF t, y
  <2>4. Told(t) /\ Told(SetFocus(t, y))
    BY <2>1, <2>2, SetFocusLets, LetsTold
  <2> QED BY <2>3, <2>4
<1> QED BY <1>2, <1>3, <1>4, <1>5

\* A request on a grab that puts it in force is to be settled.
LEMMA GrabRequestTold ==
  ASSUME Good(seat), Told(seat), GrabRequest
  PROVE  Told(seat')
<1>0. seat \in Seat /\ GrabsHold(seat) /\ seat.active \in Nat
  BY DEF Good, Seat
<1>1. ASSUME NEW g \in Grabs, CreateGrab(g)
      PROVE  Lets(seat, seat')
  <2>1. PICK grabs, owed : seat' = [seat EXCEPT !.grabs = grabs, !.owed = owed]
    BY <1>0, <1>1 DEF CreateGrab, Seat
  <2> QED BY ONLY <1>0, <2>1 DEF Seat, Lets
<1>2. ASSUME NEW i \in DOMAIN seat.grabs, NEW x \in Whitelistable, AddSurface(i, x) \/ RemoveSurface(i, x)
      PROVE  Lets(seat, seat')
  <2>1. PICK grabs : seat' = [seat EXCEPT !.grabs = grabs]
    <3>1. \E staged : seat' = [seat EXCEPT !.grabs[i].staged = staged]
      BY <1>2 DEF AddSurface, RemoveSurface
    <3> QED BY <3>1
  <2> QED BY ONLY <1>0, <2>1 DEF Seat, Lets
<1>3. ASSUME NEW i \in DOMAIN seat.grabs, DestroyGrab(i)
      PROVE  Lets(seat, seat')
  <2> DEFINE grabs == RemoveAt(seat.grabs, i)
             active == ActiveAfterRemove(seat.active, i)
             refocus == seat.refocus \/ seat.grabs[i].committed # <<>>
             owed == [seat.owed EXCEPT ![seat.grabs[i].id] = 0]
  <2>1. seat' = [seat EXCEPT !.grabs = grabs, !.active = active, !.refocus = refocus, !.owed = owed]
    BY <1>0, <1>3 DEF DestroyGrab, Seat
  <2>2. active # 0 /\ ~refocus => seat.active # 0 /\ ~seat.refocus
    <3>1. active # 0 => seat.active # 0
      BY <1>0, i \in Nat DEF ActiveAfterRemove, Seat
    <3> HIDE DEF active
    <3>2. ~refocus => ~seat.refocus
      OBVIOUS
    <3> QED BY <3>1, <3>2
  <2> HIDE DEF grabs, active, refocus, owed
  <2> QED BY ONLY <1>0, <2>1, <2>2 DEF Seat, Lets
<1>4. ASSUME NEW i \in DOMAIN seat.grabs, CommitGrab(i)
      PROVE  Lets(seat, seat')
  <2> DEFINE g == seat.grabs[i]
             c == ClearActive(seat)
  <2>1. seat' = Commit(seat, i) /\ c \in Seat /\ Lets(seat, c)
    BY <1>0, <1>4, ClearActiveLets, ClearActiveGood DEF CommitGrab, Good
  <2>2. CASE g.staged = g.committed
    <3>1. seat' = seat
      BY <2>1, <2>2 DEF Commit
    <3> QED BY <3>1 DEF Lets
  <2>3. CASE g.staged # g.committed /\ g.staged = <<>>
    <3> DEFINE u == [seat EXCEPT !.grabs[i].committed = g.staged, !.refocus = TRUE]
               a == IF u.active = i THEN 0 ELSE u.active
               v == [u EXCEPT !.active = a]
    <3>1. seat' = Cleared(v, g.id)
      BY <2>1, <2>3 DEF Commit
    <3>2. PICK grabs, active : v = [seat EXCEPT !.grabs = grabs, !.refocus = TRUE, !.active = active]
      <4> DEFINE grabs == [seat.grabs EXCEPT ![i] = [seat.grabs[i] EXCEPT !.committed = g.staged]]
      <4>1. u = [seat EXCEPT !.grabs = grabs, !.refocus = TRUE]
        BY <1>0 DEF Seat
      <4> HIDE DEF a, grabs, u
      <4>2. v = [seat EXCEPT !.grabs = grabs, !.refocus = TRUE, !.active = a]
        BY <1>0, <4>1 DEF Seat
      <4> QED BY <4>2
    <3> HIDE DEF v
    <3>3. PICK owed : seat' = [v EXCEPT !.owed = owed]
      BY <3>1 DEF Cleared
    <3> QED BY ONLY <1>0, <3>2, <3>3 DEF Seat, Lets
  <2>4. CASE g.staged # g.committed /\ g.staged # <<>> /\ g.committed = <<>>
    <3>1. PICK grabs, owed :
            seat' = [c EXCEPT !.grabs = grabs, !.refocus = TRUE, !.active = i, !.owed = owed]
      <4>1. seat' = [[c EXCEPT !.grabs[i].committed = g.staged, !.refocus = TRUE]
                        EXCEPT !.active = i, !.owed[g.id] = @ + 1]
        BY <2>1, <2>4 DEF Commit
      <4> DEFINE grabs == [c.grabs EXCEPT ![i] = [c.grabs[i] EXCEPT !.committed = g.staged]]
                 owed == [c.owed EXCEPT ![g.id] = c.owed[g.id] + 1]
      <4> HIDE DEF c
      <4>2. seat' = [c EXCEPT !.grabs = grabs, !.refocus = TRUE, !.active = i, !.owed = owed]
        BY <2>1, <4>1 DEF Seat
      <4> QED BY <4>2
    <3> HIDE DEF c
    <3>2. Lets(c, seat') /\ seat'.refocus = TRUE
      BY ONLY <2>1, <3>1 DEF Seat, Lets
    <3> QED BY <2>1, <3>2 DEF Lets
  <2>5. CASE g.staged # g.committed /\ g.staged # <<>> /\ g.committed # <<>>
    <3>1. PICK grabs : seat' = [seat EXCEPT !.grabs = grabs, !.refocus = TRUE, !.active = i]
      <4>1. seat' = [[seat EXCEPT !.grabs[i].committed = g.staged, !.refocus = TRUE] EXCEPT !.active = i]
        BY <2>1, <2>5 DEF Commit
      <4> QED BY <1>0, <4>1 DEF Seat
    <3> QED BY ONLY <1>0, <3>1 DEF Seat, Lets
  <2> QED BY <2>2, <2>3, <2>4, <2>5
<1> QED BY <1>1, <1>2, <1>3, <1>4, LetsTold DEF GrabRequest

\* A locker is told only by a pass.
LEMMA LockTold ==
  ASSUME seat \in Seat, Told(seat),
         \/ LockRequest
         \/ \E i \in DOMAIN seat.outputs : OutputGoes(i)
         \/ \E o \in Outputs : OutputComes(o)
  PROVE  Told(seat')
<1>1. CASE Locks
  <2>1. seat' = [[seat EXCEPT !.locked = TRUE, !.locker = "alive", !.confirmed = FALSE,
                              !.ledger = <<>>, !.dirty = TRUE] EXCEPT !.kb = None]
    BY <1>1 DEF Locks, SetFocus
  <2> QED BY ONLY seat \in Seat, <2>1 DEF Seat, Told
<1>2. CASE LockerDies
  <2>1. PICK dirty, kb : seat' = [seat EXCEPT !.locker = "dead", !.confirmed = FALSE, !.ledger = <<>>,
                                              !.dirty = dirty, !.kb = kb]
    BY <1>2 DEF LockerDies
  <2> QED BY ONLY seat \in Seat, <2>1 DEF Seat, Told
<1>3. CASE Unlocks
  <2>1. PICK missed, x :
          seat' = [[seat EXCEPT !.locked = FALSE, !.locker = "none", !.confirmed = FALSE,
                                !.ledger = <<>>, !.dirty = FALSE, !.missed = missed] EXCEPT !.kb = x]
    <3> DEFINE missed == seat.exclusive \notin {Claimant(seat), Gone}
               t == [seat EXCEPT !.locked = FALSE, !.locker = "none", !.confirmed = FALSE,
                                 !.ledger = <<>>, !.dirty = FALSE, !.missed = missed]
               x == KeyboardTarget(t)
    <3>1. seat' = [t EXCEPT !.kb = x]
      BY <1>3 DEF Unlocks, SetFocus
    <3> HIDE DEF x, missed
    <3> QED BY <3>1
  <2> QED BY ONLY seat \in Seat, <2>1 DEF Seat, Told
<1>4. ASSUME NEW k \in LockSurfaces, LockSurfaceDies(k)
      PROVE  Told(seat')
  <2>1. PICK ledger, kb : seat' = [seat EXCEPT !.ledger = ledger, !.dirty = TRUE, !.kb = kb]
    BY <1>4 DEF LockSurfaceDies
  <2>2. Lets(seat, seat')
    BY ONLY seat \in Seat, <2>1 DEF Seat, Lets
  <2> QED BY <2>2, LetsTold
<1>5. ASSUME NEW k \in LockSurfaces, NEW o \in Outputs, NewLockSurface(k, o)
      PROVE  Told(seat')
  <2> DEFINE ledger == Append(seat.ledger, [surface |-> k, output |-> OutputAt(seat, o), named |-> o])
             t == [seat EXCEPT !.ledger = ledger, !.dirty = TRUE]
  <2>1. seat' \in {t, [t EXCEPT !.kb = k]}
    BY <1>5 DEF NewLockSurface, SetFocus
  <2> HIDE DEF ledger
  <2>2. Lets(seat, t) /\ Lets(seat, [t EXCEPT !.kb = k])
    BY ONLY seat \in Seat DEF Seat, Lets
  <2> HIDE DEF t
  <2> QED BY <2>1, <2>2, LetsTold
<1>6. ASSUME NEW i \in DOMAIN seat.outputs, OutputGoes(i)
      PROVE  Told(seat')
  <2>1. PICK outputs, ledger :
          seat' = [seat EXCEPT !.outputs = outputs, !.dirty = TRUE, !.arrange = TRUE, !.ledger = ledger]
    BY <1>6 DEF OutputGoes
  <2>2. Lets(seat, seat')
    BY ONLY seat \in Seat, <2>1 DEF Seat, Lets
  <2> QED BY <2>2, LetsTold
<1>7. ASSUME NEW o \in Outputs, OutputComes(o)
      PROVE  Told(seat')
  <2> DEFINE outputs == Append(seat.outputs, o)
  <2>1. seat' = [seat EXCEPT !.outputs = outputs, !.dirty = TRUE, !.arrange = TRUE]
    BY <1>7 DEF OutputComes
  <2> HIDE DEF outputs
  <2>2. Lets(seat, seat')
    BY ONLY seat \in Seat, <2>1 DEF Seat, Lets
  <2> QED BY <2>2, LetsTold
<1> QED BY <1>1, <1>2, <1>3, <1>4, <1>5, <1>6, <1>7 DEF LockRequest

LEMMA EventTold ==
  ASSUME Good(seat), Told(seat), Event
  PROVE  Told(seat')
<1>1. seat \in Seat /\ "none" \in Interactivity /\ TRUE \in BOOLEAN /\ FALSE \in BOOLEAN
  BY DEF Good, Interactivity
<1>2. ASSUME NEW i \in DOMAIN seat.layers,
             LayerCommits(i, FALSE, "none") \/ \E asks \in Interactivity : LayerCommits(i, TRUE, asks)
      PROVE  Told(seat')
  <2>1. \E mapped \in BOOLEAN, asks \in Interactivity : LayerCommits(i, mapped, asks)
    BY <1>1, <1>2
  <2> QED BY <1>1, <2>1, LayersTold
<1>3. ASSUME NEW x, Presses(x)
      PROVE  Told(seat')
  BY <1>1, <1>3, PressesTold
<1>4. ASSUME NEW w \in Windows,
             Maps(w, "live") \/ Maps(w, Unbound) \/ Binds(w) \/ Closes(w) \/ CoreFocuses(w)
      PROVE  Told(seat')
  BY <1>1, <1>4, WindowsTold
<1>5. ASSUME CoreFocuses(None) \/ ModalChanges
      PROVE  Told(seat')
  BY <1>1, <1>5, WindowsTold
<1>6. ASSUME NEW l \in Layers,
             LayerDestroyed(l) \/ HideLayer(l) \/ \E band \in Bands : NewLayer(l, band)
      PROVE  Told(seat')
  BY <1>1, <1>6, LayersTold
<1>7. ASSUME LockRequest
      PROVE  Told(seat')
  BY <1>1, <1>7, LockTold
<1>8. ASSUME \/ \E i \in DOMAIN seat.outputs : OutputGoes(i)
             \/ \E o \in Outputs : OutputComes(o)
      PROVE  Told(seat')
  BY <1>1, <1>8, LockTold
<1> QED BY <1>2, <1>3, <1>4, <1>5, <1>6, <1>7, <1>8, GrabRequestTold DEF Event

\* A pass under a lock ends the grab in force before the locker is told.
Ended(s) == s.locked => s.active = 0

LEMMA GrabRefreshEnds ==
  ASSUME NEW s, Good(s)
  PROVE  /\ Ended(GrabRefresh(s))
         /\ GrabRefresh(s).locked = s.locked /\ GrabRefresh(s).locker = s.locker
<1> DEFINE c == IF s.locked THEN ClearActive(s) ELSE s
           t == [c EXCEPT !.refocus = FALSE]
           h == [t EXCEPT !.held = TRUE]
           f == [t EXCEPT !.held = FALSE]
           x == GrabTarget(t)
           y == Fallback(t)
<1>1. c \in Seat /\ (c.locked => c.active = 0) /\ c.locked = s.locked /\ c.locker = s.locker
  BY ClearActiveGood, ClearActiveLets DEF Good, Lets
<1>2. GrabRefresh(s) \in {c, t, [h EXCEPT !.kb = x], [f EXCEPT !.kb = y]}
  BY DEF GrabRefresh, SettleKeyboard, SetFocus
<1> HIDE DEF c, x, y
<1>3. t.active = c.active /\ t.locked = c.locked /\ t.locker = c.locker
  BY ONLY <1>1 DEF Seat
<1>4. LET u == [h EXCEPT !.kb = x] IN u.active = c.active /\ u.locked = c.locked /\ u.locker = c.locker
  BY ONLY <1>1 DEF Seat
<1>5. LET u == [f EXCEPT !.kb = y] IN u.active = c.active /\ u.locked = c.locked /\ u.locker = c.locker
  BY ONLY <1>1 DEF Seat
<1> DEFINE hx == [h EXCEPT !.kb = x]
           fy == [f EXCEPT !.kb = y]
<1>6. GrabRefresh(s) \in {c, t, hx, fy}
  BY <1>2
<1>7. hx.active = c.active /\ hx.locked = c.locked /\ hx.locker = c.locker
  BY <1>4
<1>8. fy.active = c.active /\ fy.locked = c.locked /\ fy.locker = c.locker
  BY <1>5
<1> HIDE DEF t, hx, fy
<1> QED BY <1>1, <1>3, <1>6, <1>7, <1>8 DEF Ended

\* The other steps of a pass leave the lock and the grab in force alone.
Leaves(s, u) == u.locked = s.locked /\ u.locker = s.locker /\ u.active = s.active

LEMMA StepsLeave ==
  ASSUME NEW s \in Seat, NEW next
  PROVE  /\ Leaves(s, CoreSettles(s, next)) /\ Leaves(s, ApplyIntent(s)) /\ Leaves(s, LayersRefresh(s))
         /\ Leaves(s, SyncModal(s)) /\ Leaves(s, LockRefresh(s))
<1>1. Leaves(s, CoreSettles(s, next))
  <2> DEFINE intent == IF next = None THEN Nothing ELSE next
             u == [s EXCEPT !.focused = next, !.intent = intent]
  <2>1. CoreSettles(s, next) \in {s, u}
    BY DEF CoreSettles
  <2> HIDE DEF intent
  <2>2. Leaves(s, u)
    BY ONLY s \in Seat DEF Seat, Leaves
  <2> HIDE DEF u
  <2> QED BY <2>1, <2>2 DEF Leaves
<1>2. Leaves(s, ApplyIntent(s))
  <2> DEFINE surface == IF s.intent \in Windows /\ ~s.modal /\ s.window[s.intent] = "live"
                        THEN s.intent ELSE None
             t == [s EXCEPT !.intent = NoIntent]
             u == [t EXCEPT !.kb = surface]
  <2>1. ApplyIntent(s) \in {s, t, u}
    BY DEF ApplyIntent, SetFocus
  <2> HIDE DEF surface
  <2>2. Leaves(s, t) /\ Leaves(s, u)
    BY ONLY s \in Seat DEF Seat, Leaves
  <2> HIDE DEF t, u
  <2> QED BY <2>1, <2>2 DEF Leaves
<1>3. Leaves(s, LayersRefresh(s))
  BY LayersRefreshLets DEF Lets, Leaves
<1>4. Leaves(s, SyncModal(s))
  <2> DEFINE t == [s EXCEPT !.changed = FALSE]
             x == KeyboardTarget(t)
             u == [t EXCEPT !.kb = x]
  <2>1. SyncModal(s) \in {t, u}
    BY DEF SyncModal, SetFocus
  <2> HIDE DEF x
  <2>2. Leaves(s, t) /\ Leaves(s, u)
    BY ONLY s \in Seat DEF Seat, Leaves
  <2> HIDE DEF t, u
  <2> QED BY <2>1, <2>2
<1>5. Leaves(s, LockRefresh(s))
  <2> DEFINE t == [s EXCEPT !.dirty = FALSE]
             x == FirstOnOutput(s)
             u == [t EXCEPT !.kb = x]
  <2>1. LockRefresh(s) \in {t, u}
    BY DEF LockRefresh, SetFocus
  <2> HIDE DEF x
  <2>2. Leaves(s, t) /\ Leaves(s, u)
    BY ONLY s \in Seat DEF Seat, Leaves
  <2> HIDE DEF t, u
  <2> QED BY <2>1, <2>2
<1> QED BY <1>1, <1>2, <1>3, <1>4, <1>5

LEMMA PassTold ==
  ASSUME Good(seat), Told(seat), NEW next \in Windows \cup {None}, Pass(next)
  PROVE  Told(seat')
<1> DEFINE a == CoreSettles(seat, next)
           b == ApplyIntent(a)
           c == LayersRefresh(b)
           d == GrabRefresh(c)
           e == SyncModal(d)
           s == LockRefresh(e)
           confirmed == seat.locker = "alive"
<1>1. Good(a) /\ Leaves(seat, a)
  BY CoreSettlesGood, StepsLeave DEF Good
<1>2. Good(b) /\ Leaves(a, b)
  <2> HIDE DEF a
  <2> QED BY <1>1, ApplyIntentGood, StepsLeave DEF Good
<1>3. Good(c) /\ Leaves(b, c)
  <2> HIDE DEF b
  <2> QED BY <1>2, LayersRefreshGood, StepsLeave DEF Good
<1>4. Good(d) /\ Ended(d) /\ d.locked = c.locked /\ d.locker = c.locker
  <2> HIDE DEF c
  <2> QED BY <1>3, GrabRefreshGood, GrabRefreshEnds
<1>5. Good(e) /\ Leaves(d, e)
  <2> HIDE DEF d
  <2> QED BY <1>4, SyncModalGood, StepsLeave DEF Good
<1>6. Good(s) /\ Leaves(e, s)
  <2> HIDE DEF e
  <2> QED BY <1>5, LockRefreshGood, StepsLeave DEF Good
<1>7. seat' = [s EXCEPT !.confirmed = confirmed]
  BY DEF Pass, Passed
<1> HIDE DEF a, b, c, d, e, s
<1>8. s.locker = seat.locker /\ s.locked = seat.locked /\ (s.locked => s.active = 0) /\ s \in Seat
  BY <1>1, <1>2, <1>3, <1>4, <1>5, <1>6 DEF Leaves, Ended, Good
<1>9. seat'.locker = s.locker /\ seat'.locked = s.locked /\ seat'.active = s.active
      /\ seat'.confirmed = confirmed
  <2> HIDE DEF confirmed
  <2> QED BY ONLY <1>7, <1>8 DEF Seat
<1> QED BY <1>8, <1>9 DEF Told

-----------------------------------------------------------------------------
(* The first state and every step.                                           *)

LEMMA EventGood ==
  ASSUME Good(seat), Told(seat), Event
  PROVE  Good(seat')
<1>1. ASSUME NEW w \in Windows,
             Maps(w, "live") \/ Maps(w, Unbound) \/ Binds(w) \/ Closes(w) \/ CoreFocuses(w)
      PROVE  Good(seat')
  BY <1>1, MapsGood, ClosesGood, CoreFocusesGood
<1>2. ASSUME CoreFocuses(None) \/ ModalChanges
      PROVE  Good(seat')
  BY <1>2, CoreFocusesGood, ModalChangesGood
<1>3. ASSUME NEW l \in Layers,
             LayerDestroyed(l) \/ HideLayer(l) \/ \E band \in Bands : NewLayer(l, band)
      PROVE  Good(seat')
  BY <1>3, LayerDestroyedGood, HideLayerGood, NewLayerGood
<1>4. ASSUME NEW i \in DOMAIN seat.layers,
             LayerCommits(i, FALSE, "none") \/ \E asks \in Interactivity : LayerCommits(i, TRUE, asks)
      PROVE  Good(seat')
  BY <1>4, LayerCommitsGood
<1>5. ASSUME NEW x, Presses(x)
      PROVE  Good(seat')
  BY <1>5, PressesGood
<1> QED BY <1>1, <1>2, <1>3, <1>4, <1>5, GrabRequestGood, LockRequestGood, OutputGoesGood, OutputComesGood
        DEF Event

LEMMA PassGood ==
  ASSUME Good(seat), NEW next \in Windows \cup {None}, Pass(next)
  PROVE  Good(seat') /\ Quiet(seat')
<1> DEFINE s == Passed(seat, next)
           confirmed == seat.locker = "alive"
<1>1. Good(s) /\ Quiet(s)
  BY PassedGood
<1>2. seat' = [s EXCEPT !.confirmed = confirmed] /\ confirmed \in BOOLEAN
  BY DEF Pass
<1> HIDE DEF s, confirmed
<1>3. s \in Seat
  BY <1>1 DEF Good
<1>4. seat' \in Seat
  BY <1>2, <1>3 DEF Seat
<1>5. Alike(s, seat')
  BY <1>2, <1>3 DEF Seat, Alike
<1> QED BY <1>1, <1>4, <1>5, AlikeGood DEF Quiet, Alike

LEMMA InitIInv == Init => IInv
<1> SUFFICES ASSUME Init PROVE IInv
  OBVIOUS
<1> DEFINE n == Cardinality(Layers)
           ids == SetToSeq(Layers)
           names == SetToSeq(Grabs)
           outputs == SetToSeq(Outputs)
           layer(bands, i) == Unmapped(ids[i], bands[i])
           grab(i) == Inert(names[i])
<1>1. /\ n \in Nat /\ ids \in Seq(Layers) /\ Len(ids) = n
      /\ names \in Seq(Grabs) /\ Distinct(names) /\ outputs \in Seq(Outputs) /\ Distinct(outputs)
  BY SetToSeqIs, SeatAssumption
<1>2. PICK w \in Windows, bands \in [1 .. n -> Bands] :
        seat = [kb |-> w, window |-> [v \in Windows |-> "live"], focused |-> w,
                intent |-> NoIntent, modal |-> FALSE, changed |-> FALSE,
                layers |-> [i \in 1 .. n |-> layer(bands, i)],
                hidden |-> {}, arrange |-> FALSE, exclusive |-> None, onDemand |-> None,
                grabs |-> [i \in DOMAIN names |-> grab(i)],
                active |-> 0, refocus |-> FALSE, held |-> FALSE,
                locked |-> FALSE, locker |-> "none", confirmed |-> FALSE, missed |-> FALSE,
                ledger |-> <<>>, dirty |-> FALSE,
                outputs |-> outputs, owed |-> [g \in Grabs |-> 0]]
  BY DEF Init
<1> DEFINE layers == [i \in 1 .. n |-> layer(bands, i)]
           grabs == [i \in DOMAIN names |-> grab(i)]
<1>3. settled = TRUE /\ spent = 0
  BY DEF Init
<1> HIDE DEF n, ids, names, outputs
<1>4. \A i \in 1 .. n : layer(bands, i) \in LayerRecord /\ ~layer(bands, i).mapped
  BY <1>1 DEF Unmapped, LayerRecord
<1>5. \A i \in DOMAIN names : grab(i) \in Grab /\ grab(i).id = names[i] /\ grab(i).committed = <<>>
                              /\ names[i] \in Grabs
  BY <1>1 DEF Inert, Grab
<1> HIDE DEF layer, grab
<1>6. layers \in Seq(LayerRecord) /\ DOMAIN layers = 1 .. n /\ \A i \in 1 .. n : ~layers[i].mapped
  BY <1>1, <1>4
<1>7. /\ grabs \in Seq(Grab) /\ DOMAIN grabs = DOMAIN names /\ Len(grabs) \in Nat
      /\ \A i \in DOMAIN names : /\ i # 0 /\ grabs[i].id = names[i] /\ grabs[i].committed = <<>>
                                 /\ names[i] \in Grabs
  <2> DEFINE m == Len(names)
  <2>1. m \in Nat /\ DOMAIN names = 1 .. m
    BY <1>1
  <2> HIDE DEF m
  <2> QED BY <1>5, <2>1
<1> DEFINE window == [v \in Windows |-> "live"]
           owed == [g \in Grabs |-> 0]
<1>8. /\ window \in [Windows -> {"absent", Unbound, "live"}] /\ owed \in [Grabs -> Int]
      /\ <<>> \in Seq(LockEntry) /\ \A g \in Grabs : owed[g] = 0
  OBVIOUS
<1>9. seat = [kb |-> w, window |-> window, focused |-> w,
              intent |-> NoIntent, modal |-> FALSE, changed |-> FALSE,
              layers |-> layers,
              hidden |-> {}, arrange |-> FALSE, exclusive |-> None, onDemand |-> None,
              grabs |-> grabs,
              active |-> 0, refocus |-> FALSE, held |-> FALSE,
              locked |-> FALSE, locker |-> "none", confirmed |-> FALSE, missed |-> FALSE,
              ledger |-> <<>>, dirty |-> FALSE,
              outputs |-> outputs, owed |-> owed]
  BY <1>2
<1> HIDE DEF layers, grabs, window, owed
<1>10. seat \in Seat
  BY <1>1, <1>6, <1>7, <1>8, <1>9 DEF Seat
<1>11. Presented(seat) = {}
  BY <1>6, <1>9 DEF Presented
<1>12. Claimant(seat) = None
  BY <1>11 DEF Claimant
<1>13. GrabsHold(seat)
  BY <1>1, <1>7, <1>8, <1>9 DEF GrabsHold, Distinct
<1>14. LedgerHolds(seat)
  BY <1>1, <1>9, EmptyLedger DEF LedgerHolds
<1>15. LockHolds(seat) /\ ClaimHolds(seat) /\ Quiet(seat) /\ Told(seat)
  BY <1>9, <1>12, SeatAssumption DEF LockHolds, ClaimHolds, Quiet, Told
<1>16. TypeOK
  BY <1>3, <1>10, SeatAssumption DEF TypeOK
<1> QED BY <1>10, <1>13, <1>14, <1>15, <1>16 DEF IInv, Good

LEMMA NextIInv == IInv /\ [Next]_vars => IInv'
<1> SUFFICES ASSUME IInv, [Next]_vars PROVE IInv'
  OBVIOUS
<1>1. ASSUME NEW next \in Windows \cup {None}, Pass(next)
      PROVE  IInv'
  <2>1. Good(seat') /\ Told(seat') /\ Quiet(seat') /\ settled' = TRUE /\ spent' = spent
    BY <1>1, PassGood, PassTold DEF IInv, Pass
  <2> QED BY <2>1 DEF IInv, TypeOK, Good, GrabsHold, LedgerHolds, LockHolds, ClaimHolds, Quiet, Told
<1>2. ASSUME Event, spent < MaxEvents, spent' = spent + 1, settled' = FALSE
      PROVE  IInv'
  <2>1. Good(seat') /\ Told(seat')
    BY <1>2, EventGood, EventTold DEF IInv
  <2>2. spent' \in 0 .. MaxEvents
    BY <1>2, SeatAssumption DEF IInv, TypeOK
  <2> QED BY <1>2, <2>1, <2>2 DEF IInv, TypeOK, Good
<1>3. CASE UNCHANGED vars
  BY <1>3 DEF IInv, TypeOK, vars
<1> QED BY <1>1, <1>2, <1>3 DEF Next

-----------------------------------------------------------------------------
(* What follows.                                                             *)

\* The inductive invariant of the seat: what is noted of the claims on the
\* keyboard, of the grabs and of the locker's surfaces is so, or is about to be
\* looked at again (dispatch_pending).
THEOREM Safety == Spec => []IInv
<1> QED BY InitIInv, NextIInv, PTL DEF Spec

\* The state of the seat keeps its type, positions in the vectors included.
THEOREM TypeSafety == Spec => []TypeOK
<1>1. IInv => TypeOK
  BY DEF IInv
<1> QED BY <1>1, Safety, PTL

\* Each start of a grab is answered with `cleared' exactly once, and only the
\* grab in force is owed it, for any number of grabs and surfaces
\* (focus_grab.rs: on_commit, Whitelist::settle, active_after_remove).
THEOREM ClearSafety == Spec => []ClearedOnce
<1>1. IInv => ClearedOnce
  BY DEF IInv, Good, GrabsHold, ClearedOnce
<1> QED BY <1>1, Safety, PTL

\* An entry of the lock's ledger stands for the output its surface was made
\* for, whichever outputs go and come (lock.rs: reindex_after_removal).
THEOREM LedgerSafety == Spec => []LedgerNamesItsOutput
<1>1. IInv => LedgerNamesItsOutput
  BY DEF IInv, Good, LedgerHolds, Names, LedgerNamesItsOutput
<1> QED BY <1>1, Safety, PTL

\* A locked session keeps the keyboard on surfaces of the locker, and after a
\* pass on one that is on a screen (lock.rs: enter_lock_domain, refresh).
THEOREM LockSafety == Spec => []LockOwnsKeyboard
<1>1. IInv => LockOwnsKeyboard
  BY DEF IInv, Good, LockHolds, Quiet, LockOwnsKeyboard
<1> QED BY <1>1, Safety, PTL

\* After a pass the keyboard is with the exclusive layer surface of the highest
\* claim, else on the whitelist of the active grab (layers.rs: sync_keyboard;
\* focus_grab.rs: settle_keyboard; lock.rs: unlock), but for a layer surface's
\* claim after an unlock that found another claimant than the one noted, until
\* the next change of claimant is noticed.
THEOREM ClaimSafety == Spec => []ClaimsAreTypeable
<1>1. ASSUME IInv, settled, ~seat.locked
      PROVE  IF Claimant(seat) # None THEN seat.missed \/ seat.kb = Claimant(seat)
             ELSE seat.active # 0 => Inside(seat, seat.kb)
  <2>1. seat \in Seat /\ ClaimHolds(seat) /\ Quiet(seat)
    BY <1>1 DEF IInv, Good
  <2>2. Claimant(seat) \in Layers \cup {None}
    BY <2>1, ClaimantType
  <2> QED BY <1>1, <2>1, <2>2 DEF ClaimHolds, Quiet
<1>2. IInv => ClaimsAreTypeable
  BY <1>1 DEF ClaimsAreTypeable
<1> QED BY <1>2, Safety, PTL

-----------------------------------------------------------------------------
(* The window that has the keyboard, when grabs name layer surfaces alone.   *)

\* A pass is to move the keyboard, or leaves it to a modal interface.
Due(s) == s.intent # NoIntent \/ s.modal \/ s.changed \/ FocusedClosed(s)

\* With no exclusive layer and no lock, a window with the keyboard is the one
\* the core focuses, unless something is due.
RightHolds(s) ==
  ~s.locked /\ s.exclusive = None /\ s.kb \in Windows \cup {None} /\ ~Due(s) =>
    s.kb = FocusedSurface(s)

\* An intent is the focus of the core, and it is parked until the surface of
\* the focused window is bound.
IntentHolds(s) ==
  /\ s.intent \in Windows => s.intent = s.focused
  /\ s.intent = Nothing => s.focused = None
  /\ s.focused # None /\ s.window[s.focused] = Unbound => s.intent = s.focused

WIInv ==
  /\ IInv /\ IntentHolds(seat) /\ RightHolds(seat)
  /\ settled => ~seat.changed /\ ~FocusedClosed(seat)

\* What these look at.
Minds(s, u) ==
  /\ u.kb = s.kb /\ u.locked = s.locked /\ u.exclusive = s.exclusive /\ u.intent = s.intent
  /\ u.modal = s.modal /\ u.changed = s.changed /\ u.focused = s.focused /\ u.window = s.window

\* What they say but for where the keyboard is.
Wants(s, u) ==
  u.intent = s.intent /\ u.modal = s.modal /\ u.focused = s.focused /\ u.window = s.window

\* What they say of the core's intent stands with the windows and the intent.
LEMMA WantsStand ==
  ASSUME NEW s, NEW u, Wants(s, u)
  PROVE  /\ IntentHolds(s) => IntentHolds(u)
         /\ FocusedClosed(u) <=> FocusedClosed(s)
         /\ FocusedSurface(u) = FocusedSurface(s) /\ WindowTarget(u) = WindowTarget(s)
         /\ u.changed = s.changed => (Due(u) <=> Due(s))
<1>1. FocusedSurface(u) = FocusedSurface(s) /\ (FocusedClosed(u) <=> FocusedClosed(s))
  BY DEF Wants, FocusedSurface, FocusedClosed
<1> QED BY <1>1 DEF Wants, IntentHolds, WindowTarget, Due

LEMMA MindsStand ==
  ASSUME NEW s, NEW u, Minds(s, u)
  PROVE  /\ IntentHolds(s) => IntentHolds(u)
         /\ RightHolds(s) => RightHolds(u)
         /\ FocusedClosed(u) <=> FocusedClosed(s)
<1>1. Wants(s, u) /\ u.changed = s.changed
  BY DEF Minds, Wants
<1> QED BY <1>1, WantsStand DEF Minds, RightHolds

\* The keyboard goes to a layer surface, is lost, or goes where the windows
\* want it.
LEMMA SetFocusRight ==
  ASSUME NEW s \in Seat, NEW x, x \in Layers \cup {Gone, FocusedSurface(s), WindowTarget(s)}
  PROVE  /\ Wants(s, SetFocus(s, x)) /\ SetFocus(s, x).changed = s.changed
         /\ RightHolds(SetFocus(s, x))
<1> DEFINE u == SetFocus(s, x)
<1>0. u = [s EXCEPT !.kb = x]
  BY DEF SetFocus
<1>1. Wants(s, u) /\ u.changed = s.changed /\ u.kb = x
  BY ONLY <1>0, s \in Seat DEF Seat, Wants
<1> HIDE DEF u
<1>2. FocusedSurface(u) = FocusedSurface(s)
  BY <1>1, WantsStand
<1>3. x \in Layers \cup {Gone} => x \notin Windows \cup {None}
  BY SeatAssumption
<1>4. ~Due(u) => WindowTarget(s) = FocusedSurface(s)
  BY <1>1 DEF Due, Wants, WindowTarget
<1>5. RightHolds(u)
  BY <1>1, <1>2, <1>3, <1>4 DEF RightHolds
<1> QED BY <1>1, <1>5 DEF u

\* A surface of a whitelist is a layer surface, and no window's.
LEMMA InsideIsLayer ==
  ASSUME Whitelistable \subseteq Layers, NEW s \in Seat, GrabsHold(s), NEW x, Inside(s, x)
  PROVE  x \in Layers
<1>1. s.grabs \in Seq(Grab) /\ s.active \in 0 .. Len(s.grabs)
  BY DEF Seat, GrabsHold
<1>2. s.active # 0 => s.grabs[s.active] \in Grab
  BY <1>1
<1>3. Whitelist(s) \in Seq(Whitelistable)
  BY <1>2 DEF Whitelist, Grab
<1> QED BY <1>3 DEF Inside, Contains

\* Where the keyboard belongs when it is not with the layer that asks for it.
LEMMA TargetRight ==
  ASSUME Whitelistable \subseteq Layers, NEW s \in Seat, GrabsHold(s)
  PROVE  KeyboardTarget(s) \in Layers \cup {Gone, FocusedSurface(s), WindowTarget(s)}
<1>1. Claimant(s) \in Layers \cup {None}
  BY ClaimantType
<1>2. CASE Claimant(s) # None
  BY <1>1, <1>2 DEF KeyboardTarget
<1>3. CASE Claimant(s) = None /\ s.active # 0
  <2>1. Inside(s, KeyboardTarget(s))
    BY <1>3, KeyboardTargetIs
  <2> QED BY <2>1, InsideIsLayer
<1>4. CASE Claimant(s) = None /\ s.active = 0
  <2>1. GrabTarget(s) = None
    BY <1>4, GrabTargetIs
  <2>2. KeyboardTarget(s) = WindowTarget(s)
    BY <1>4, <2>1 DEF KeyboardTarget
  <2> QED BY <2>2
<1> QED BY <1>2, <1>3, <1>4

\* The core answers for a focused window that closed.
LEMMA CoreSettlesRight ==
  ASSUME NEW s, Good(s), IntentHolds(s), RightHolds(s), NEW next \in Windows \cup {None},
         next # None => s.window[next] # "absent", next = s.focused \/ FocusedClosed(s)
  PROVE  LET u == CoreSettles(s, next)
         IN IntentHolds(u) /\ RightHolds(u) /\ ~FocusedClosed(u)
<1> DEFINE intent == IF next = None THEN Nothing ELSE next
           u == [s EXCEPT !.focused = next, !.intent = intent]
<1>0. s \in Seat /\ None \notin Windows /\ intent # NoIntent
  BY SeatAssumption, IntentAssumption DEF Good, NoIntent, Nothing
<1>1. CASE ~FocusedClosed(s)
  BY <1>1 DEF CoreSettles
<1>2. CASE FocusedClosed(s)
  <2>1. CoreSettles(s, next) = u
    BY <1>2 DEF CoreSettles
  <2>2. intent \in Windows => intent = next
    BY IntentAssumption
  <2>3. intent = Nothing => next = None
    BY IntentAssumption
  <2>4. next # None => intent = next
    OBVIOUS
  <2> HIDE DEF intent
  <2>5. u.focused = next /\ u.intent = intent /\ u.window = s.window
    BY ONLY <1>0 DEF Seat
  <2> HIDE DEF u
  <2>6. IntentHolds(u)
    BY <2>2, <2>3, <2>4, <2>5 DEF IntentHolds
  <2>7. RightHolds(u) /\ ~FocusedClosed(u)
    BY <1>0, <2>5 DEF RightHolds, Due, FocusedClosed
  <2> QED BY <2>1, <2>6, <2>7
<1> QED BY <1>1, <1>2

\* The keyboard is on a layer of a whitelist, or the grab is to be settled.
LEMMA GrabbedRight ==
  ASSUME Whitelistable \subseteq Layers, NEW s, Good(s), ~s.locked, s.exclusive = None,
         s.active # 0, ~s.refocus
  PROVE  s.kb \in Layers /\ s.kb \notin Windows \cup {None}
<1>1. Inside(s, s.kb) /\ s \in Seat /\ GrabsHold(s)
  BY DEF Good, ClaimHolds
<1> QED BY <1>1, InsideIsLayer, SeatAssumption

\* Between two steps of a pass: right, or a grab is to be settled.
Righted(s) == RightHolds(s) \/ (s.active # 0 /\ s.refocus)

LEMMA ApplyIntentRight ==
  ASSUME Whitelistable \subseteq Layers, NEW s, Good(s), IntentHolds(s), RightHolds(s),
         ~FocusedClosed(s)
  PROVE  LET u == ApplyIntent(s)
         IN IntentHolds(u) /\ Righted(u) /\ ~FocusedClosed(u)
<1> DEFINE parked == s.intent \in Windows /\ s.window[s.intent] = Unbound
           surface == IF s.intent \in Windows /\ ~s.modal /\ s.window[s.intent] = "live"
                      THEN s.intent ELSE None
           t == [s EXCEPT !.intent = NoIntent]
<1>0. /\ s \in Seat /\ None \notin Windows /\ s.focused \in Windows \cup {None}
      /\ s.intent \in Windows \cup {NoIntent, Nothing}
      /\ s.window \in [Windows -> {"absent", Unbound, "live"}]
  BY SeatAssumption DEF Good, Seat
<1>1. t \in Seat /\ t.kb = s.kb /\ t.locked = s.locked /\ t.exclusive = s.exclusive
      /\ t.intent = NoIntent /\ t.modal = s.modal /\ t.changed = s.changed
      /\ t.focused = s.focused /\ t.window = s.window /\ t.active = s.active /\ t.refocus = s.refocus
  <2>0. s \in Seat
    BY <1>0
  <2>1. t \in Seat
    BY ONLY <2>0 DEF Seat
  <2> QED BY ONLY <2>0, <2>1 DEF Seat
<1>2. ApplyIntent(s) = IF s.locked \/ s.intent = NoIntent \/ parked THEN s
                       ELSE IF s.exclusive # None \/ s.active # 0 THEN t ELSE SetFocus(t, surface)
  BY DEF ApplyIntent
<1>3. CASE s.locked \/ s.intent = NoIntent \/ parked
  BY <1>2, <1>3 DEF Righted
<1>4. CASE ~(s.locked \/ s.intent = NoIntent \/ parked)
  <2> HIDE DEF t
  <2>1. FocusedSurface(t) = FocusedSurface(s) /\ ~FocusedClosed(t)
    BY <1>1 DEF FocusedSurface, FocusedClosed
  <2>2. IntentHolds(t)
    <3>1. ~(s.focused # None /\ s.window[s.focused] = Unbound)
      BY <1>0, <1>4 DEF IntentHolds
    <3> QED BY <1>1, <3>1, IntentAssumption DEF IntentHolds, NoIntent, Nothing
  <2>3. CASE s.exclusive # None \/ s.active # 0
    <3>1. ApplyIntent(s) = t
      BY <1>2, <1>4, <2>3
    <3>2. CASE s.exclusive # None
      BY <1>1, <2>1, <2>2, <3>1, <3>2 DEF RightHolds, Righted
    <3>3. CASE s.exclusive = None /\ s.active # 0 /\ s.refocus
      BY <1>1, <2>1, <2>2, <3>1, <3>3 DEF Righted
    <3>4. CASE s.exclusive = None /\ s.active # 0 /\ ~s.refocus
      <4>1. t.kb \notin Windows \cup {None}
        BY <1>1, <1>4, <3>4, GrabbedRight
      <4> QED BY <2>1, <2>2, <3>1, <4>1 DEF RightHolds, Righted
    <3> QED BY <2>3, <3>2, <3>3, <3>4
  <2>4. CASE ~(s.exclusive # None \/ s.active # 0)
    <3>1. ApplyIntent(s) = SetFocus(t, surface)
      BY <1>2, <1>4, <2>4
    <3>2. surface = WindowTarget(t)
      <4>1. CASE s.intent \in Windows
        <5>1. s.intent = s.focused /\ s.window[s.focused] # "absent" /\ s.window[s.focused] # Unbound
          BY <1>0, <1>4, <4>1 DEF IntentHolds, FocusedClosed
        <5>2. s.window[s.focused] = "live"
          BY <1>0, <4>1, <5>1
        <5> QED BY <1>0, <1>1, <2>1, <4>1, <5>1, <5>2 DEF WindowTarget, FocusedSurface
      <4>2. CASE s.intent = Nothing
        BY <1>1, <2>1, <4>2, IntentAssumption DEF WindowTarget, FocusedSurface, IntentHolds
      <4> QED BY <1>0, <1>4, <4>1, <4>2
    <3> HIDE DEF surface
    <3>3. Wants(t, SetFocus(t, surface)) /\ RightHolds(SetFocus(t, surface))
      BY <1>1, <3>2, SetFocusRight
    <3> QED BY <2>1, <2>2, <3>1, <3>3, WantsStand DEF Righted
  <2> QED BY <2>3, <2>4
<1> QED BY <1>3, <1>4

\* The layers are settled: the keyboard stays, or goes where it belongs.
LEMMA LayersRefreshRight ==
  ASSUME Whitelistable \subseteq Layers, NEW s, Good(s)
  PROVE  LET u == LayersRefresh(s)
         IN /\ Wants(s, u) /\ u.changed = s.changed
            /\ u.active = s.active /\ u.refocus = s.refocus
            /\ RightHolds(s) => RightHolds(u)
<1> DEFINE r == [s EXCEPT !.arrange = FALSE]
           c == Claimant(r)
           t == [r EXCEPT !.exclusive = c]
<1>0. s \in Seat /\ GrabsHold(s)
  BY DEF Good
<1>1. CASE ~s.arrange
  <2>1. LayersRefresh(s) = s
    BY <1>1 DEF LayersRefresh
  <2> QED BY <2>1 DEF Wants
<1>2. CASE s.arrange
  <2>1. r \in Seat /\ r.exclusive = s.exclusive /\ r.locked = s.locked
    <3>0. s \in Seat
      BY <1>0
    <3>1. r \in Seat
      BY ONLY <3>0 DEF Seat
    <3> QED BY ONLY <3>0, <3>1 DEF Seat
  <2>2. c \in Layers \cup {None}
    <3> HIDE DEF r
    <3> QED BY <2>1, ClaimantType
  <2>3. t = [s EXCEPT !.arrange = FALSE, !.exclusive = c]
    BY <1>0 DEF Seat
  <2>4. LayersRefresh(s) = IF s.exclusive = c \/ s.locked THEN t
                           ELSE SetFocus([t EXCEPT !.missed = FALSE], KeyboardTarget(t))
    <3>1. LayersRefresh(s) = SyncKeyboard(r)
      BY <1>2 DEF LayersRefresh
    <3> QED BY <2>1, <3>1 DEF SyncKeyboard
  <2> HIDE DEF r, t, c
  <2>5. /\ t \in Seat /\ t.kb = s.kb /\ t.locked = s.locked /\ t.exclusive = c
        /\ t.intent = s.intent /\ t.modal = s.modal /\ t.changed = s.changed
        /\ t.focused = s.focused /\ t.window = s.window
        /\ t.grabs = s.grabs /\ t.active = s.active /\ t.owed = s.owed /\ t.refocus = s.refocus
    <3>0. s \in Seat /\ c \in Layers \cup {None, Gone}
      BY <1>0, <2>2
    <3>1. t \in Seat
      BY ONLY <2>3, <3>0 DEF Seat
    <3> QED BY ONLY <2>3, <3>0, <3>1 DEF Seat
  <2>6. Wants(s, t) /\ GrabsHold(t)
    BY <1>0, <2>5, GrabsStand DEF Wants
  <2>7. CASE s.exclusive = c \/ s.locked
    <3>1. RightHolds(s) => RightHolds(t)
      <4>1. CASE s.locked
        BY <2>5, <4>1 DEF RightHolds
      <4>2. CASE s.exclusive = c
        BY <2>5, <4>2, MindsStand DEF Minds
      <4> QED BY <2>7, <4>1, <4>2
    <3> QED BY <2>4, <2>5, <2>6, <2>7, <3>1
  <2>8. CASE ~(s.exclusive = c \/ s.locked)
    <3> DEFINE x == KeyboardTarget(t)
    <3>1. x \in Layers \cup {Gone, FocusedSurface(t), WindowTarget(t)}
      BY <2>5, <2>6, TargetRight
    <3> DEFINE v == [t EXCEPT !.missed = FALSE]
    <3>2. LayersRefresh(s) = SetFocus(v, x)
      BY <2>4, <2>8
    <3>0. /\ v \in Seat /\ Wants(t, v) /\ v.changed = t.changed /\ v.active = t.active
          /\ v.refocus = t.refocus
      <4>0. t \in Seat
        BY <2>5
      <4>1. v \in Seat
        BY ONLY <4>0 DEF Seat
      <4> QED BY ONLY <4>0, <4>1 DEF Seat, Wants
    <3> HIDE DEF x, v
    <3>3. x \in Layers \cup {Gone, FocusedSurface(v), WindowTarget(v)}
      BY <3>0, <3>1, WantsStand
    <3>4. /\ Wants(v, SetFocus(v, x)) /\ SetFocus(v, x).changed = v.changed
          /\ RightHolds(SetFocus(v, x))
      BY <3>0, <3>3, SetFocusRight
    <3>5. SetFocus(v, x).active = v.active /\ SetFocus(v, x).refocus = v.refocus
      <4>1. v \in Seat
        BY <3>0
      <4> QED BY ONLY <4>1 DEF Seat, SetFocus
    <3> QED BY <2>5, <2>6, <3>0, <3>2, <3>4, <3>5 DEF Wants
  <2> QED BY <2>7, <2>8
<1> QED BY <1>1, <1>2

\* A grab that ends moves no keyboard.
LEMMA ClearActiveMinds ==
  ASSUME NEW s \in Seat
  PROVE  Minds(s, ClearActive(s))
<1>1. CASE s.active = 0
  BY <1>1 DEF ClearActive, Minds
<1>2. CASE s.active # 0
  <2>1. PICK grabs, owed :
          ClearActive(s) = [s EXCEPT !.grabs = grabs, !.active = 0, !.refocus = TRUE, !.owed = owed]
    <3> DEFINE u == [s EXCEPT !.grabs[s.active] = Inert(s.grabs[s.active].id),
                              !.active = 0, !.refocus = TRUE]
               g == s.grabs[s.active].id
               grabs == [s.grabs EXCEPT ![s.active] = Inert(g)]
               owed == [s.owed EXCEPT ![g] = s.owed[g] - 1]
    <3>1. ClearActive(s) = [s EXCEPT !.grabs = grabs, !.active = 0, !.refocus = TRUE, !.owed = owed]
      BY <1>2 DEF ClearActive, Cleared, Seat
    <3> QED BY <3>1
  <2> QED BY ONLY s \in Seat, <2>1 DEF Seat, Minds
<1> QED BY <1>1, <1>2

\* A grab that is settled takes the keyboard to a layer, or hands it back.
LEMMA SettleKeyboardRight ==
  ASSUME Whitelistable \subseteq Layers, NEW s, Good(s), Righted(s)
  PROVE  LET u == SettleKeyboard(s)
         IN Wants(s, u) /\ u.changed = s.changed /\ RightHolds(u)
<1> DEFINE t == [s EXCEPT !.refocus = FALSE]
           h == [t EXCEPT !.held = TRUE]
           f == [t EXCEPT !.held = FALSE]
<1>0. s \in Seat /\ GrabsHold(s)
  BY DEF Good
<1>1. t \in Seat /\ Minds(s, t) /\ t.grabs = s.grabs /\ t.active = s.active /\ t.owed = s.owed
      /\ t.onDemand = s.onDemand /\ t.layers = s.layers
  <2>0. s \in Seat
    BY <1>0
  <2>1. t \in Seat
    BY ONLY <2>0 DEF Seat
  <2> QED BY ONLY <2>0, <2>1 DEF Seat, Minds
<1> HIDE DEF t
<1>2. h \in Seat /\ Minds(t, h) /\ f \in Seat /\ Minds(t, f)
  <2>0. t \in Seat
    BY <1>1
  <2>1. h \in Seat
    BY ONLY <2>0 DEF Seat
  <2>2. f \in Seat
    BY ONLY <2>0 DEF Seat
  <2> QED BY ONLY <2>0, <2>1, <2>2 DEF Seat, Minds
<1> HIDE DEF h, f
<1>3. GrabsHold(t) /\ Whitelist(t) = Whitelist(s)
  BY <1>0, <1>1, GrabsStand
<1>4. Minds(s, h) /\ Minds(s, f)
  BY <1>1, <1>2 DEF Minds
<1>5. CASE ~s.refocus
  <2>1. SettleKeyboard(s) = s
    BY <1>5 DEF SettleKeyboard
  <2> QED BY <1>5, <2>1 DEF Wants, Righted
<1>6. CASE s.refocus /\ (s.locked \/ s.exclusive # None)
  <2>1. SettleKeyboard(s) = t
    BY <1>6 DEF SettleKeyboard, t
  <2> QED BY <1>1, <1>6, <2>1 DEF Minds, Wants, RightHolds
<1>7. CASE s.refocus /\ ~s.locked /\ s.exclusive = None /\ Whitelist(s) # <<>>
  <2> DEFINE x == GrabTarget(t)
  <2>1. SettleKeyboard(s) = SetFocus(h, x)
    BY <1>7 DEF SettleKeyboard, t, h
  <2>2. Inside(t, x)
    BY <1>1, <1>3, <1>7, GrabTargetIs
  <2> HIDE DEF x
  <2>3. x \in Layers
    BY <1>1, <1>3, <2>2, InsideIsLayer
  <2>4. Wants(h, SetFocus(h, x)) /\ SetFocus(h, x).changed = h.changed /\ RightHolds(SetFocus(h, x))
    BY <1>2, <2>3, SetFocusRight
  <2> QED BY <1>4, <2>1, <2>4 DEF Minds, Wants
<1>8. CASE s.refocus /\ ~s.locked /\ s.exclusive = None /\ Whitelist(s) = <<>>
  <2> DEFINE x == Fallback(t)
  <2>1. SettleKeyboard(s) = IF s.held THEN SetFocus(f, x) ELSE t
    BY <1>8 DEF SettleKeyboard, t, f
  <2>2. s.active = 0
    BY <1>0, <1>8, GrabTargetIs
  <2>3. Wants(t, f)
    BY <1>2 DEF Minds, Wants
  <2>4. x \in Layers \cup {Gone, FocusedSurface(f), WindowTarget(f)}
    <3>1. Present(t, t.onDemand) => t.onDemand \in Layers
      <4>1. \A i \in DOMAIN t.layers : t.layers[i] \in LayerRecord
        BY <1>1 DEF Seat
      <4> QED BY <4>1 DEF Present, LayerRecord
    <3>2. WindowTarget(f) = WindowTarget(t)
      BY <2>3, WantsStand
    <3> QED BY <3>1, <3>2 DEF Fallback
  <2> HIDE DEF x
  <2>5. Wants(f, SetFocus(f, x)) /\ SetFocus(f, x).changed = f.changed /\ RightHolds(SetFocus(f, x))
    BY <1>2, <2>4, SetFocusRight
  <2>6. RightHolds(t)
    BY <1>1, <2>2, MindsStand DEF Righted
  <2> QED BY <1>1, <1>4, <2>1, <2>5, <2>6 DEF Minds, Wants
<1> QED BY <1>5, <1>6, <1>7, <1>8

LEMMA GrabRefreshRight ==
  ASSUME Whitelistable \subseteq Layers, NEW s, Good(s), Righted(s)
  PROVE  LET u == GrabRefresh(s)
         IN Wants(s, u) /\ u.changed = s.changed /\ RightHolds(u)
<1> DEFINE c == ClearActive(s)
<1>1. CASE ~s.locked
  <2>1. GrabRefresh(s) = SettleKeyboard(s)
    BY <1>1 DEF GrabRefresh
  <2> QED BY <2>1, SettleKeyboardRight
<1>2. CASE s.locked
  <2>1. GrabRefresh(s) = SettleKeyboard(c)
    BY <1>2 DEF GrabRefresh
  <2>2. Good(c) /\ Minds(s, c)
    BY ClearActiveGood, ClearActiveMinds DEF Good
  <2> HIDE DEF c
  <2>3. Righted(c)
    BY <1>2, <2>2 DEF Minds, Righted, RightHolds
  <2>4. Wants(c, SettleKeyboard(c)) /\ SettleKeyboard(c).changed = c.changed
        /\ RightHolds(SettleKeyboard(c))
    BY <2>2, <2>3, SettleKeyboardRight
  <2> QED BY <2>1, <2>2, <2>4 DEF Minds, Wants
<1> QED BY <1>1, <1>2

\* The keyboard after a modal interface opened or closed.
LEMMA SyncModalRight ==
  ASSUME Whitelistable \subseteq Layers, NEW s, Good(s), RightHolds(s), ~s.refocus, ~s.arrange
  PROVE  LET u == SyncModal(s)
         IN Wants(s, u) /\ ~u.changed /\ RightHolds(u)
<1> DEFINE t == [s EXCEPT !.changed = FALSE]
           x == KeyboardTarget(t)
<1>0. s \in Seat /\ GrabsHold(s) /\ s.changed \in BOOLEAN
  BY DEF Good, Seat
<1>1. t \in Seat /\ Wants(s, t) /\ t.changed = FALSE /\ t.kb = s.kb /\ t.locked = s.locked
      /\ t.exclusive = s.exclusive /\ t.grabs = s.grabs /\ t.active = s.active /\ t.owed = s.owed
  <2>0. s \in Seat
    BY <1>0
  <2>1. t \in Seat
    BY ONLY <2>0 DEF Seat
  <2> QED BY ONLY <2>0, <2>1 DEF Seat, Wants
<1>2. SyncModal(s) = IF ~s.changed \/ s.locked \/ s.exclusive # None \/ s.active # 0 THEN t
                     ELSE SetFocus(t, x)
  BY DEF SyncModal
<1> HIDE DEF t
<1>3. GrabsHold(t)
  BY <1>0, <1>1, GrabsStand
<1>4. x \in Layers \cup {Gone, FocusedSurface(t), WindowTarget(t)}
  BY <1>1, <1>3, TargetRight
<1> HIDE DEF x
<1>5. Wants(t, SetFocus(t, x)) /\ SetFocus(t, x).changed = t.changed /\ RightHolds(SetFocus(t, x))
  BY <1>1, <1>4, SetFocusRight
<1>6. CASE ~s.changed
  <2>1. t.changed = s.changed
    BY <1>0, <1>1, <1>6
  <2>2. RightHolds(t)
    BY <1>1, <2>1, MindsStand DEF Wants, Minds
  <2> QED BY <1>1, <1>2, <1>6, <2>2
<1>7. CASE s.locked \/ s.exclusive # None
  BY <1>1, <1>2, <1>7 DEF RightHolds
<1>8. CASE ~s.locked /\ s.exclusive = None /\ s.active # 0
  <2>1. s.kb \notin Windows \cup {None}
    BY <1>8, GrabbedRight
  <2> QED BY <1>1, <1>2, <1>8, <2>1 DEF RightHolds
<1>9. CASE s.changed /\ ~s.locked /\ s.exclusive = None /\ s.active = 0
  BY <1>1, <1>2, <1>5, <1>9 DEF Wants
<1> QED BY <1>6, <1>7, <1>8, <1>9

LEMMA LockRefreshRight ==
  ASSUME NEW s \in Seat, RightHolds(s)
  PROVE  LET u == LockRefresh(s)
         IN Wants(s, u) /\ u.changed = s.changed /\ RightHolds(u)
<1> DEFINE t == [s EXCEPT !.dirty = FALSE]
           x == FirstOnOutput(s)
<1>1. t \in Seat /\ Minds(s, t)
  <2>1. t \in Seat
    BY ONLY s \in Seat DEF Seat
  <2> QED BY ONLY s \in Seat, <2>1 DEF Seat, Minds
<1>2. LockRefresh(s) = IF ~s.locked \/ ~s.dirty \/ Typeable(s, s.kb) THEN t ELSE SetFocus(t, x)
  BY DEF LockRefresh
<1> HIDE DEF t, x
<1>3. RightHolds(t)
  BY <1>1, MindsStand
<1>4. Minds(s, t) /\ Wants(s, t)
  BY <1>1 DEF Minds, Wants
<1>5. CASE ~s.locked \/ ~s.dirty \/ Typeable(s, s.kb)
  BY <1>2, <1>3, <1>4, <1>5 DEF Minds
<1>6. CASE ~(~s.locked \/ ~s.dirty \/ Typeable(s, s.kb))
  <2>1. SetFocus(t, x).locked = t.locked /\ SetFocus(t, x).changed = t.changed
        /\ Wants(t, SetFocus(t, x))
    BY ONLY <1>1 DEF Seat, SetFocus, Wants
  <2> QED BY <1>2, <1>4, <1>6, <2>1 DEF Minds, Wants, RightHolds
<1> QED BY <1>5, <1>6

\* A pass leaves the keyboard right and nothing due but a parked intent and a
\* modal interface.
LEMMA PassedRight ==
  ASSUME Whitelistable \subseteq Layers, NEW s, Good(s), IntentHolds(s), RightHolds(s),
         NEW next \in Windows \cup {None},
         next # None => s.window[next] # "absent", next = s.focused \/ FocusedClosed(s)
  PROVE  LET u == Passed(s, next)
         IN IntentHolds(u) /\ RightHolds(u) /\ ~FocusedClosed(u) /\ ~u.changed
<1> DEFINE a == CoreSettles(s, next)
           b == ApplyIntent(a)
           c == LayersRefresh(b)
           d == GrabRefresh(c)
           e == SyncModal(d)
<1>0. Passed(s, next) = LockRefresh(e)
  BY DEF Passed
<1>1. Good(a) /\ IntentHolds(a) /\ RightHolds(a) /\ ~FocusedClosed(a)
  BY CoreSettlesGood, CoreSettlesRight
<1> HIDE DEF a
<1>2. Good(b) /\ IntentHolds(b) /\ Righted(b) /\ ~FocusedClosed(b)
  BY <1>1, ApplyIntentGood, ApplyIntentRight
<1> HIDE DEF b
<1>3. Good(c) /\ ~c.arrange
  BY <1>2, LayersRefreshGood
<1>4. Wants(b, c) /\ Righted(c)
  BY <1>2, LayersRefreshRight DEF Righted
<1>5. IntentHolds(c) /\ ~FocusedClosed(c)
  BY <1>2, <1>4, WantsStand
<1> HIDE DEF c
<1>6. Good(d) /\ ~d.refocus /\ ~d.arrange
  BY <1>3, GrabRefreshGood
<1>7. Wants(c, d) /\ RightHolds(d)
  BY <1>3, <1>4, GrabRefreshRight
<1>8. IntentHolds(d) /\ ~FocusedClosed(d)
  BY <1>5, <1>7, WantsStand
<1> HIDE DEF d
<1>9. Good(e) /\ e \in Seat
  BY <1>6, SyncModalGood DEF Good
<1>10. Wants(d, e) /\ ~e.changed /\ RightHolds(e)
  BY <1>6, <1>7, SyncModalRight
<1>11. IntentHolds(e) /\ ~FocusedClosed(e)
  BY <1>8, <1>10, WantsStand
<1> HIDE DEF e
<1>12. Wants(e, LockRefresh(e)) /\ LockRefresh(e).changed = e.changed /\ RightHolds(LockRefresh(e))
  BY <1>9, <1>10, LockRefreshRight
<1> QED BY <1>0, <1>10, <1>11, <1>12, WantsStand

-----------------------------------------------------------------------------
(* Events, and the window that has the keyboard.                             *)

\* What holds of the seat whatever is under way.
Held(s) == IntentHolds(s) /\ RightHolds(s)

\* A surface or a layer is lost: the keyboard stays or is with nobody.
LEMMA LostRight ==
  ASSUME NEW s \in Seat, Held(s), NEW u, Wants(s, u), u.locked = s.locked, u.changed = s.changed,
         u.kb \in {s.kb, Gone}, u.exclusive \in {s.exclusive, Gone}
  PROVE  Held(u)
<1>1. Gone \notin Windows \cup {None}
  BY SeatAssumption
<1>2. IntentHolds(u) /\ FocusedSurface(u) = FocusedSurface(s) /\ (Due(u) <=> Due(s))
  BY WantsStand DEF Held
<1>3. RightHolds(u)
  BY <1>1, <1>2 DEF Held, RightHolds
<1> QED BY <1>2, <1>3 DEF Held

\* A surface goes, and the keyboard with it if it was there.
LEMMA DestroyedMinds ==
  ASSUME NEW s \in Seat, NEW x
  PROVE  LET u == SurfaceDestroyed(s, x)
         IN /\ Wants(s, u) /\ u.locked = s.locked /\ u.changed = s.changed
            /\ u.exclusive = s.exclusive /\ u.kb = IF s.kb = x THEN Gone ELSE s.kb
<1> DEFINE kb == IF s.kb = x THEN Gone ELSE s.kb
<1>1. PICK grabs, active, refocus, owed :
        SurfaceDestroyed(s, x) = [s EXCEPT !.grabs = grabs, !.active = active, !.refocus = refocus,
                                           !.owed = owed, !.kb = kb]
  BY DEF SurfaceDestroyed
<1> HIDE DEF kb
<1>2. LET u == SurfaceDestroyed(s, x)
      IN /\ Wants(s, u) /\ u.locked = s.locked /\ u.changed = s.changed
         /\ u.exclusive = s.exclusive /\ u.kb = kb
  BY ONLY s \in Seat, <1>1 DEF Seat, Wants
<1> QED BY <1>2 DEF kb

\* A new window is not the one with the focus; binding the focused one finds
\* its intent parked.
LEMMA MapsRight ==
  ASSUME seat \in Seat, Held(seat), NEW w \in Windows,
         Maps(w, "live") \/ Maps(w, Unbound) \/ Binds(w)
  PROVE  Held(seat')
<1>1. PICK how \in {Unbound, "live"} : seat' = [seat EXCEPT !.window[w] = how]
  BY DEF Maps, Binds
<1>2. /\ seat.window \in [Windows -> {"absent", Unbound, "live"}]
      /\ seat.focused \in Windows \cup {None} /\ None \notin Windows
      /\ seat.intent \in Windows \cup {NoIntent, Nothing}
  BY SeatAssumption DEF Seat
<1>3. /\ seat'.kb = seat.kb /\ seat'.locked = seat.locked /\ seat'.exclusive = seat.exclusive
      /\ seat'.intent = seat.intent /\ seat'.modal = seat.modal /\ seat'.changed = seat.changed
      /\ seat'.focused = seat.focused /\ seat'.window = [seat.window EXCEPT ![w] = how]
  BY <1>1 DEF Seat
<1>4. \A v \in Windows : seat'.window[v] = IF v = w THEN how ELSE seat.window[v]
  BY <1>2, <1>3
<1>5. CASE seat.focused # w
  <2>1. FocusedSurface(seat') = FocusedSurface(seat) /\ (FocusedClosed(seat') <=> FocusedClosed(seat))
    BY <1>2, <1>3, <1>4, <1>5 DEF FocusedSurface, FocusedClosed
  <2>2. IntentHolds(seat')
    BY <1>2, <1>3, <1>4, <1>5 DEF Held, IntentHolds
  <2>3. RightHolds(seat')
    BY <1>3, <2>1 DEF Held, RightHolds, Due
  <2> QED BY <2>2, <2>3 DEF Held
<1>6. CASE seat.focused = w
  <2>1. Binds(w) /\ seat.window[w] = Unbound /\ how = "live"
    <3>1. Binds(w) /\ seat.window[w] = Unbound /\ seat' = [seat EXCEPT !.window[w] = "live"]
      BY <1>6 DEF Maps, Binds
    <3>2. seat'.window = [seat.window EXCEPT ![w] = "live"]
      BY <3>1 DEF Seat
    <3> QED BY <1>2, <1>3, <3>1, <3>2
  <2>2. seat.intent = w /\ seat.intent # NoIntent
    BY <1>2, <1>6, <2>1, IntentAssumption DEF Held, IntentHolds
  <2>3. IntentHolds(seat')
    BY <1>2, <1>3, <1>4, <1>6, <2>1, <2>2, IntentAssumption DEF IntentHolds, Unbound
  <2>4. RightHolds(seat')
    BY <1>3, <2>2 DEF RightHolds, Due
  <2> QED BY <2>3, <2>4 DEF Held
<1> QED BY <1>5, <1>6

LEMMA ClosesRight ==
  ASSUME seat \in Seat, Held(seat), NEW w \in Windows, Closes(w)
  PROVE  Held(seat')
<1> DEFINE s == [seat EXCEPT !.window[w] = "absent"]
<1>1. /\ seat.window \in [Windows -> {"absent", Unbound, "live"}]
      /\ seat.focused \in Windows \cup {None} /\ None \notin Windows
  BY SeatAssumption DEF Seat
<1>2. [seat.window EXCEPT ![w] = "absent"] \in [Windows -> {"absent", Unbound, "live"}]
  BY <1>1
<1>3. s \in Seat
  BY <1>2 DEF Seat
<1>4. /\ s.kb = seat.kb /\ s.locked = seat.locked /\ s.exclusive = seat.exclusive
      /\ s.intent = seat.intent /\ s.modal = seat.modal /\ s.changed = seat.changed
      /\ s.focused = seat.focused /\ s.window = [seat.window EXCEPT ![w] = "absent"]
  BY DEF Seat
<1>5. seat' = SurfaceDestroyed(s, w)
  BY DEF Closes
<1> HIDE DEF s
<1>6. \A v \in Windows : s.window[v] = IF v = w THEN "absent" ELSE seat.window[v]
  BY <1>1, <1>4
<1>7. IntentHolds(s)
  BY <1>1, <1>4, <1>6 DEF Held, IntentHolds, Unbound
<1>8. RightHolds(s)
  <2>1. CASE seat.focused = w
    BY <1>1, <1>4, <1>6, <2>1 DEF RightHolds, Due, FocusedClosed
  <2>2. CASE seat.focused # w
    <3>1. FocusedSurface(s) = FocusedSurface(seat) /\ (FocusedClosed(s) <=> FocusedClosed(seat))
      BY <1>1, <1>4, <1>6, <2>2 DEF FocusedSurface, FocusedClosed
    <3> QED BY <1>4, <3>1 DEF Held, RightHolds, Due
  <2> QED BY <2>1, <2>2
<1>9. Held(s)
  BY <1>7, <1>8 DEF Held
<1> QED BY <1>3, <1>5, <1>9, DestroyedMinds, LostRight

LEMMA CoreFocusesRight ==
  ASSUME seat \in Seat, NEW w \in Windows \cup {None}, CoreFocuses(w)
  PROVE  Held(seat')
<1> DEFINE intent == IF w = None THEN Nothing ELSE w
<1>1. seat' = [seat EXCEPT !.focused = w, !.intent = intent] /\ None \notin Windows
  BY SeatAssumption DEF CoreFocuses
<1>2. intent # NoIntent /\ (intent \in Windows => intent = w) /\ (intent = Nothing => w = None)
      /\ (w # None => intent = w)
  BY SeatAssumption, IntentAssumption DEF NoIntent, Nothing
<1> HIDE DEF intent
<1>3. seat'.focused = w /\ seat'.intent = intent
  BY ONLY seat \in Seat, <1>1 DEF Seat
<1>4. IntentHolds(seat') /\ RightHolds(seat')
  BY <1>2, <1>3 DEF IntentHolds, RightHolds, Due
<1> QED BY <1>4 DEF Held

LEMMA ModalChangesRight ==
  ASSUME seat \in Seat, Held(seat), ModalChanges
  PROVE  Held(seat')
<1> DEFINE modal == ~seat.modal
<1>1. seat' = [seat EXCEPT !.modal = modal, !.changed = TRUE]
  BY DEF ModalChanges, Seat
<1> HIDE DEF modal
<1>2. seat'.changed = TRUE /\ seat'.intent = seat.intent /\ seat'.focused = seat.focused
      /\ seat'.window = seat.window
  BY ONLY seat \in Seat, <1>1 DEF Seat
<1>3. IntentHolds(seat')
  BY <1>2 DEF Held, IntentHolds
<1>4. RightHolds(seat')
  BY <1>2 DEF RightHolds, Due
<1> QED BY <1>3, <1>4 DEF Held

LEMMA MindsHeld ==
  ASSUME NEW s, Held(s), NEW u, Minds(s, u)
  PROVE  Held(u)
BY MindsStand DEF Held

\* Layers come, change, are hidden and go.
LEMMA LayersRight ==
  ASSUME Whitelistable \subseteq Layers, Good(seat), Held(seat), NEW l \in Layers,
         \/ LayerDestroyed(l) \/ HideLayer(l)
         \/ \E band \in Bands : NewLayer(l, band)
  PROVE  Held(seat')
<1>0. seat \in Seat
  BY DEF Good
<1>1. CASE HideLayer(l)
  <2>1. PICK hidden : seat' = [seat EXCEPT !.hidden = hidden, !.arrange = TRUE]
    BY <1>1 DEF HideLayer
  <2>2. Minds(seat, seat')
    BY ONLY <1>0, <2>1 DEF Seat, Minds
  <2> QED BY <2>2, MindsHeld
<1>2. CASE \E band \in Bands : NewLayer(l, band)
  <2>1. PICK layers : seat' = [seat EXCEPT !.layers = layers]
    BY <1>2 DEF NewLayer
  <2>2. Minds(seat, seat')
    BY ONLY <1>0, <2>1 DEF Seat, Minds
  <2> QED BY <2>2, MindsHeld
<1>3. CASE LayerDestroyed(l)
  <2> DEFINE others == {record \in LayerRecord : record.id # l}
             layers == Keep(seat.layers, others)
             exclusive == IF seat.exclusive = l THEN Gone ELSE seat.exclusive
             onDemand == IF seat.onDemand = l THEN Gone ELSE seat.onDemand
             s == [seat EXCEPT !.layers = layers, !.arrange = TRUE,
                               !.exclusive = exclusive, !.onDemand = onDemand]
  <2>1. seat.layers \in Seq(LayerRecord)
    BY <1>0 DEF Seat
  <2>2. /\ layers \in Seq(LayerRecord) /\ exclusive \in Layers \cup {None, Gone}
        /\ onDemand \in Layers \cup {None, Gone}
    BY <1>0, <2>1, KeepElements DEF Seat
  <2>3. seat' = SurfaceDestroyed(s, l)
    BY <1>3 DEF LayerDestroyed
  <2>4. exclusive \in {seat.exclusive, Gone}
    OBVIOUS
  <2> HIDE DEF layers, exclusive, onDemand
  <2>5. /\ s \in Seat /\ Wants(seat, s) /\ s.locked = seat.locked /\ s.changed = seat.changed
        /\ s.kb = seat.kb /\ s.exclusive = exclusive
    <3>1. s \in Seat
      BY <1>0, <2>2 DEF Seat
    <3> QED BY ONLY <1>0, <3>1 DEF Seat, Wants
  <2> HIDE DEF s
  <2>6. Held(s)
    BY <1>0, <2>4, <2>5, LostRight
  <2> QED BY <2>3, <2>5, <2>6, DestroyedMinds, LostRight
<1> QED BY <1>1, <1>2, <1>3

LEMMA LayerCommitsRight ==
  ASSUME Whitelistable \subseteq Layers, Good(seat), Held(seat),
         NEW i \in DOMAIN seat.layers, NEW mapped \in BOOLEAN,
         NEW asks \in Interactivity, LayerCommits(i, mapped, asks)
  PROVE  Held(seat')
<1> DEFINE new == [seat.layers[i] EXCEPT !.mapped = mapped, !.asks = asks]
           layers == [seat.layers EXCEPT ![i] = new]
           u == [seat EXCEPT !.layers = layers, !.arrange = TRUE]
<1>1. seat \in Seat /\ seat.layers \in Seq(LayerRecord) /\ seat.layers[i] \in LayerRecord
  BY DEF Good, Seat
<1>2. new \in LayerRecord
  BY <1>1 DEF LayerRecord
<1>3. seat' = LayersRefresh(u)
  BY <1>1 DEF LayerCommits, Seat
<1> HIDE DEF new
<1>4. layers \in Seq(LayerRecord)
  BY <1>1, <1>2
<1> HIDE DEF layers
<1>5. /\ u \in Seat /\ Minds(seat, u) /\ u.kb = seat.kb /\ u.arrange /\ u.exclusive = seat.exclusive
      /\ u.grabs = seat.grabs /\ u.active = seat.active /\ u.owed = seat.owed
      /\ u.refocus = seat.refocus /\ u.locked = seat.locked /\ u.ledger = seat.ledger
      /\ u.dirty = seat.dirty /\ u.outputs = seat.outputs /\ u.missed = seat.missed
  BY <1>1, <1>4 DEF Seat, Minds
<1> HIDE DEF u
<1>6. Good(u) /\ Held(u)
  BY <1>5, LayersChangeGood, MindsHeld
<1>7. Wants(u, seat') /\ RightHolds(seat')
  BY <1>3, <1>6, LayersRefreshRight DEF Held
<1> QED BY <1>6, <1>7, WantsStand DEF Held

\* A press keeps the keyboard, gives it to a layer, or back to the window.
LEMMA PressesRight ==
  ASSUME Good(seat), Held(seat), NEW x, Presses(x)
  PROVE  Held(seat')
<1>0. seat \in Seat /\ seat' = Press(seat, x)
  BY DEF Good, Presses
<1>1. CASE seat.active # 0 /\ ~Inside(seat, x)
  <2>1. seat' = ClearActive(seat)
    BY <1>0, <1>1 DEF Press
  <2> QED BY <1>0, <2>1, ClearActiveMinds, MindsHeld
<1>2. CASE seat.active # 0 /\ Inside(seat, x)
  <2>1. seat' = seat
    BY <1>0, <1>2 DEF Press
  <2> QED BY <2>1
<1>3. CASE seat.active = 0 /\ x \in Layers
  <2> DEFINE t == [seat EXCEPT !.onDemand = x]
  <2>1. t \in Seat /\ Minds(seat, t)
    <3>1. x \in Layers
      BY <1>3
    <3>2. t \in Seat
      BY ONLY <1>0, <3>1 DEF Seat
    <3> QED BY ONLY <1>0, <3>2 DEF Seat, Minds
  <2>2. seat' \in {seat, t, SetFocus(t, x)}
    BY <1>0, <1>3 DEF Press, Claim
  <2> HIDE DEF t
  <2>3. Held(t) /\ Wants(t, SetFocus(t, x)) /\ RightHolds(SetFocus(t, x))
    BY <1>3, <2>1, MindsHeld, SetFocusRight
  <2>4. Held(SetFocus(t, x))
    BY <2>3, WantsStand DEF Held
  <2> QED BY <2>2, <2>3, <2>4
<1>4. CASE seat.active = 0 /\ x \notin Layers
  <2> DEFINE t == [seat EXCEPT !.onDemand = None]
             y == FocusedSurface(t)
  <2>1. t \in Seat /\ Minds(seat, t)
    <3>1. t \in Seat
      BY ONLY <1>0 DEF Seat
    <3> QED BY ONLY <1>0, <3>1 DEF Seat, Minds
  <2>2. seat' \in {t, SetFocus(t, y)}
    BY <1>0, <1>4 DEF Press, Release
  <2> HIDE DEF t
  <2>3. Held(t) /\ Wants(t, SetFocus(t, y)) /\ RightHolds(SetFocus(t, y))
    BY <2>1, MindsHeld, SetFocusRight
  <2>4. Held(SetFocus(t, y))
    BY <2>3, WantsStand DEF Held
  <2> QED BY <2>2, <2>3, <2>4
<1> QED BY <1>1, <1>2, <1>3, <1>4

\* A request on a grab moves no keyboard before the pass.
LEMMA GrabRequestRight ==
  ASSUME Good(seat), Held(seat), GrabRequest
  PROVE  Held(seat')
<1>0. seat \in Seat
  BY DEF Good
<1>1. ASSUME NEW g \in Grabs, CreateGrab(g)
      PROVE  Minds(seat, seat')
  <2>1. PICK grabs, owed : seat' = [seat EXCEPT !.grabs = grabs, !.owed = owed]
    BY <1>0, <1>1 DEF CreateGrab, Seat
  <2> QED BY ONLY <1>0, <2>1 DEF Seat, Minds
<1>2. ASSUME NEW i \in DOMAIN seat.grabs, NEW x \in Whitelistable, AddSurface(i, x) \/ RemoveSurface(i, x)
      PROVE  Minds(seat, seat')
  <2>1. PICK grabs : seat' = [seat EXCEPT !.grabs = grabs]
    <3>1. \E staged : seat' = [seat EXCEPT !.grabs[i].staged = staged]
      BY <1>2 DEF AddSurface, RemoveSurface
    <3> QED BY <3>1
  <2> QED BY ONLY <1>0, <2>1 DEF Seat, Minds
<1>3. ASSUME NEW i \in DOMAIN seat.grabs, DestroyGrab(i)
      PROVE  Minds(seat, seat')
  <2>1. PICK grabs, active, refocus, owed :
          seat' = [seat EXCEPT !.grabs = grabs, !.active = active, !.refocus = refocus, !.owed = owed]
    BY <1>0, <1>3 DEF DestroyGrab, Seat
  <2> QED BY ONLY <1>0, <2>1 DEF Seat, Minds
<1>4. ASSUME NEW i \in DOMAIN seat.grabs, CommitGrab(i)
      PROVE  Minds(seat, seat')
  <2> DEFINE g == seat.grabs[i]
             c == ClearActive(seat)
  <2>1. seat' = Commit(seat, i) /\ c \in Seat /\ Minds(seat, c)
    BY <1>0, <1>4, ClearActiveMinds, ClearActiveGood DEF CommitGrab, Good
  <2>2. CASE g.staged = g.committed
    <3>1. seat' = seat
      BY <2>1, <2>2 DEF Commit
    <3> QED BY <3>1 DEF Minds
  <2>3. CASE g.staged # g.committed /\ g.staged = <<>>
    <3> DEFINE u == [seat EXCEPT !.grabs[i].committed = g.staged, !.refocus = TRUE]
               a == IF u.active = i THEN 0 ELSE u.active
               v == [u EXCEPT !.active = a]
    <3>1. seat' = Cleared(v, g.id)
      BY <2>1, <2>3 DEF Commit
    <3>2. PICK grabs, active : v = [seat EXCEPT !.grabs = grabs, !.refocus = TRUE, !.active = active]
      <4> DEFINE grabs == [seat.grabs EXCEPT ![i] = [seat.grabs[i] EXCEPT !.committed = g.staged]]
      <4>1. u = [seat EXCEPT !.grabs = grabs, !.refocus = TRUE]
        BY <1>0 DEF Seat
      <4> HIDE DEF a, grabs, u
      <4>2. v = [seat EXCEPT !.grabs = grabs, !.refocus = TRUE, !.active = a]
        BY <1>0, <4>1 DEF Seat
      <4> QED BY <4>2
    <3> HIDE DEF v
    <3>3. PICK owed : seat' = [v EXCEPT !.owed = owed]
      BY <3>1 DEF Cleared
    <3> QED BY ONLY <1>0, <3>2, <3>3 DEF Seat, Minds
  <2>4. CASE g.staged # g.committed /\ g.staged # <<>> /\ g.committed = <<>>
    <3>1. PICK grabs, owed :
            seat' = [c EXCEPT !.grabs = grabs, !.refocus = TRUE, !.active = i, !.owed = owed]
      <4>1. seat' = [[c EXCEPT !.grabs[i].committed = g.staged, !.refocus = TRUE]
                        EXCEPT !.active = i, !.owed[g.id] = @ + 1]
        BY <2>1, <2>4 DEF Commit
      <4> DEFINE grabs == [c.grabs EXCEPT ![i] = [c.grabs[i] EXCEPT !.committed = g.staged]]
                 owed == [c.owed EXCEPT ![g.id] = c.owed[g.id] + 1]
      <4> HIDE DEF c
      <4>2. seat' = [c EXCEPT !.grabs = grabs, !.refocus = TRUE, !.active = i, !.owed = owed]
        BY <2>1, <4>1 DEF Seat
      <4> QED BY <4>2
    <3> HIDE DEF c
    <3>2. Minds(c, seat')
      BY ONLY <2>1, <3>1 DEF Seat, Minds
    <3> QED BY <2>1, <3>2 DEF Minds
  <2>5. CASE g.staged # g.committed /\ g.staged # <<>> /\ g.committed # <<>>
    <3>1. PICK grabs : seat' = [seat EXCEPT !.grabs = grabs, !.refocus = TRUE, !.active = i]
      <4>1. seat' = [[seat EXCEPT !.grabs[i].committed = g.staged, !.refocus = TRUE] EXCEPT !.active = i]
        BY <2>1, <2>5 DEF Commit
      <4> QED BY <1>0, <4>1 DEF Seat
    <3> QED BY ONLY <1>0, <3>1 DEF Seat, Minds
  <2> QED BY <2>2, <2>3, <2>4, <2>5
<1>5. Minds(seat, seat')
  BY <1>1, <1>2, <1>3, <1>4 DEF GrabRequest
<1> QED BY <1>5, MindsHeld

\* The lock comes and goes; the keyboard it hands back is the right one.
LEMMA LockRequestRight ==
  ASSUME Whitelistable \subseteq Layers, Good(seat), Held(seat), LockRequest
  PROVE  Held(seat')
<1>0. seat \in Seat /\ GrabsHold(seat) /\ Gone \notin Windows \cup Layers \cup {None}
  BY SeatAssumption DEF Good
<1>1. CASE Locks
  <2>1. seat' = [[seat EXCEPT !.locked = TRUE, !.locker = "alive", !.confirmed = FALSE,
                              !.ledger = <<>>, !.dirty = TRUE] EXCEPT !.kb = None]
    BY <1>1 DEF Locks, SetFocus
  <2>2. seat'.locked /\ Wants(seat, seat')
    BY ONLY <1>0, <2>1 DEF Seat, Wants
  <2> QED BY <2>2, WantsStand DEF Held, RightHolds
<1>2. CASE LockerDies
  <2> DEFINE kb == IF seat.kb \in LockSurfaces THEN Gone ELSE seat.kb
  <2>1. PICK dirty : seat' = [seat EXCEPT !.locker = "dead", !.confirmed = FALSE, !.ledger = <<>>,
                                          !.dirty = dirty, !.kb = kb]
    BY <1>2 DEF LockerDies
  <2>2. kb \in {seat.kb, Gone}
    OBVIOUS
  <2> HIDE DEF kb
  <2>3. /\ Wants(seat, seat') /\ seat'.locked = seat.locked /\ seat'.changed = seat.changed
        /\ seat'.kb = kb /\ seat'.exclusive = seat.exclusive
    BY ONLY <1>0, <2>1 DEF Seat, Wants
  <2> QED BY <1>0, <2>2, <2>3, LostRight
<1>3. CASE \E k \in LockSurfaces : LockSurfaceDies(k)
  <2>1. PICK k \in LockSurfaces : LockSurfaceDies(k)
    BY <1>3
  <2> DEFINE kb == IF seat.kb = k THEN Gone ELSE seat.kb
  <2>2. PICK ledger : seat' = [seat EXCEPT !.ledger = ledger, !.dirty = TRUE, !.kb = kb]
    BY <2>1 DEF LockSurfaceDies
  <2>3. kb \in {seat.kb, Gone}
    OBVIOUS
  <2> HIDE DEF kb
  <2>4. /\ Wants(seat, seat') /\ seat'.locked = seat.locked /\ seat'.changed = seat.changed
        /\ seat'.kb = kb /\ seat'.exclusive = seat.exclusive
    BY ONLY <1>0, <2>2 DEF Seat, Wants
  <2> QED BY <1>0, <2>3, <2>4, LostRight
<1>4. CASE \E k \in LockSurfaces, o \in Outputs : NewLockSurface(k, o)
  <2>1. PICK k \in LockSurfaces, o \in Outputs : NewLockSurface(k, o)
    BY <1>4
  <2>2. PICK ledger, kb : seat' = [seat EXCEPT !.ledger = ledger, !.dirty = TRUE, !.kb = kb]
    <3> DEFINE ledger == Append(seat.ledger, [surface |-> k, output |-> OutputAt(seat, o), named |-> o])
               t == [seat EXCEPT !.ledger = ledger, !.dirty = TRUE]
    <3>1. seat' \in {t, SetFocus(t, k)}
      BY <2>1 DEF NewLockSurface
    <3> HIDE DEF ledger
    <3>2. t = [seat EXCEPT !.ledger = ledger, !.dirty = TRUE, !.kb = seat.kb]
      BY <1>0 DEF Seat
    <3> QED BY <3>1, <3>2 DEF SetFocus
  <2>3. Wants(seat, seat') /\ seat'.locked = seat.locked
    BY ONLY <1>0, <2>2 DEF Seat, Wants
  <2>4. seat.locked
    BY <2>1 DEF NewLockSurface
  <2> QED BY <2>3, <2>4, WantsStand DEF Held, RightHolds
<1>5. CASE Unlocks
  <2> DEFINE missed == seat.exclusive \notin {Claimant(seat), Gone}
             t == [seat EXCEPT !.locked = FALSE, !.locker = "none", !.confirmed = FALSE,
                               !.ledger = <<>>, !.dirty = FALSE, !.missed = missed]
  <2>1. seat \in Seat /\ <<>> \in Seq(LockEntry) /\ missed \in BOOLEAN
    BY <1>0
  <2>2. seat' = SetFocus(t, KeyboardTarget(t))
    BY <1>5 DEF Unlocks
  <2> HIDE DEF missed
  <2>3. /\ t \in Seat /\ Wants(seat, t) /\ t.changed = seat.changed
        /\ t.grabs = seat.grabs /\ t.active = seat.active /\ t.owed = seat.owed
    <3>1. t \in Seat
      BY <2>1, UnlockedType
    <3> QED BY ONLY <1>0, <3>1 DEF Seat, Wants
  <2> HIDE DEF t
  <2> DEFINE x == KeyboardTarget(t)
  <2>4. x \in Layers \cup {Gone, FocusedSurface(t), WindowTarget(t)}
    BY <1>0, <2>3, GrabsStand, TargetRight
  <2> HIDE DEF x
  <2>5. Wants(t, seat') /\ RightHolds(seat')
    BY <2>2, <2>3, <2>4, SetFocusRight DEF x
  <2>6. IntentHolds(seat')
    BY <2>3, <2>5, WantsStand DEF Held
  <2> QED BY <2>5, <2>6 DEF Held
<1> QED BY <1>1, <1>2, <1>3, <1>4, <1>5 DEF LockRequest

\* Outputs come and go under a lock.
LEMMA OutputsRight ==
  ASSUME seat \in Seat, Held(seat),
         \/ \E i \in DOMAIN seat.outputs : OutputGoes(i)
         \/ \E o \in Outputs : OutputComes(o)
  PROVE  Held(seat')
<1>1. PICK outputs, ledger :
        seat' = [seat EXCEPT !.outputs = outputs, !.dirty = TRUE, !.arrange = TRUE, !.ledger = ledger]
  <2>1. ASSUME NEW i \in DOMAIN seat.outputs, OutputGoes(i)
        PROVE  \E outputs, ledger :
                 seat' = [seat EXCEPT !.outputs = outputs, !.dirty = TRUE, !.arrange = TRUE, !.ledger = ledger]
    BY <2>1 DEF OutputGoes
  <2>2. ASSUME NEW o \in Outputs, OutputComes(o)
        PROVE  \E outputs, ledger :
                 seat' = [seat EXCEPT !.outputs = outputs, !.dirty = TRUE, !.arrange = TRUE, !.ledger = ledger]
    <3> DEFINE outputs == Append(seat.outputs, o)
    <3>1. seat' = [seat EXCEPT !.outputs = outputs, !.dirty = TRUE, !.arrange = TRUE]
      BY <2>2 DEF OutputComes
    <3> HIDE DEF outputs
    <3>2. seat' = [seat EXCEPT !.outputs = outputs, !.dirty = TRUE, !.arrange = TRUE, !.ledger = seat.ledger]
      BY <3>1 DEF Seat
    <3> QED BY <3>2
  <2> QED BY <2>1, <2>2
<1>2. Minds(seat, seat')
  BY ONLY seat \in Seat, <1>1 DEF Seat, Minds
<1> QED BY <1>2, MindsHeld

LEMMA EventRight ==
  ASSUME Whitelistable \subseteq Layers, Good(seat), Held(seat), Event
  PROVE  Held(seat')
<1>0. seat \in Seat
  BY DEF Good
<1>1. ASSUME NEW w \in Windows,
             Maps(w, "live") \/ Maps(w, Unbound) \/ Binds(w) \/ Closes(w) \/ CoreFocuses(w)
      PROVE  Held(seat')
  BY <1>0, <1>1, MapsRight, ClosesRight, CoreFocusesRight
<1>2. ASSUME CoreFocuses(None) \/ ModalChanges
      PROVE  Held(seat')
  BY <1>0, <1>2, CoreFocusesRight, ModalChangesRight
<1>3. ASSUME NEW l \in Layers,
             LayerDestroyed(l) \/ HideLayer(l) \/ \E band \in Bands : NewLayer(l, band)
      PROVE  Held(seat')
  BY <1>3, LayersRight
<1>4. ASSUME NEW i \in DOMAIN seat.layers,
             LayerCommits(i, FALSE, "none") \/ \E asks \in Interactivity : LayerCommits(i, TRUE, asks)
      PROVE  Held(seat')
  <2>1. ASSUME NEW asks \in Interactivity, LayerCommits(i, TRUE, asks) PROVE Held(seat')
    BY <2>1, LayerCommitsRight
  <2>2. ASSUME LayerCommits(i, FALSE, "none") PROVE Held(seat')
    <3>1. "none" \in Interactivity /\ FALSE \in BOOLEAN
      BY DEF Interactivity
    <3> QED BY <2>2, <3>1, LayerCommitsRight
  <2> QED BY <1>4, <2>1, <2>2
<1>5. ASSUME NEW x, Presses(x)
      PROVE  Held(seat')
  BY <1>5, PressesRight
<1> QED BY <1>0, <1>1, <1>2, <1>3, <1>4, <1>5, GrabRequestRight, LockRequestRight, OutputsRight
        DEF Event

LEMMA PassRight ==
  ASSUME Whitelistable \subseteq Layers, Good(seat), Held(seat),
         NEW next \in Windows \cup {None}, Pass(next)
  PROVE  Held(seat') /\ ~seat'.changed /\ ~FocusedClosed(seat')
<1> DEFINE s == Passed(seat, next)
           confirmed == seat.locker = "alive"
<1>1. /\ next = seat.focused \/ FocusedClosed(seat)
      /\ next # None => seat.window[next] # "absent"
      /\ seat' = [s EXCEPT !.confirmed = confirmed]
  BY DEF Pass
<1>2. IntentHolds(s) /\ RightHolds(s) /\ ~FocusedClosed(s) /\ ~s.changed
  BY <1>1, PassedRight DEF Held
<1>3. s \in Seat
  BY PassedGood DEF Good
<1> HIDE DEF s, confirmed
<1>4. Minds(s, seat')
  BY ONLY <1>1, <1>3 DEF Seat, Minds
<1> QED BY <1>2, <1>4, MindsStand DEF Held, Minds

LEMMA InitWIInv == Init => WIInv
<1> SUFFICES ASSUME Init PROVE WIInv
  OBVIOUS
<1>1. PICK w \in Windows : /\ seat.kb = w /\ seat.focused = w /\ seat.intent = NoIntent
                           /\ seat.changed = FALSE /\ seat.window = [v \in Windows |-> "live"]
  <2> DEFINE window == [v \in Windows |-> "live"]
             layers(bands) == [i \in 1 .. Cardinality(Layers) |-> Unmapped(SetToSeq(Layers)[i], bands[i])]
             grabs == [i \in DOMAIN SetToSeq(Grabs) |-> Inert(SetToSeq(Grabs)[i])]
             outputs == SetToSeq(Outputs)
             owed == [g \in Grabs |-> 0]
  <2>1. PICK w \in Windows, bands \in [1 .. Cardinality(Layers) -> Bands] :
          seat = [kb |-> w, window |-> window, focused |-> w,
                  intent |-> NoIntent, modal |-> FALSE, changed |-> FALSE,
                  layers |-> layers(bands),
                  hidden |-> {}, arrange |-> FALSE, exclusive |-> None, onDemand |-> None,
                  grabs |-> grabs,
                  active |-> 0, refocus |-> FALSE, held |-> FALSE,
                  locked |-> FALSE, locker |-> "none", confirmed |-> FALSE, missed |-> FALSE,
                  ledger |-> <<>>, dirty |-> FALSE,
                  outputs |-> outputs, owed |-> owed]
    BY DEF Init
  <2> HIDE DEF window, layers, grabs, outputs, owed
  <2>2. /\ seat.kb = w /\ seat.focused = w /\ seat.intent = NoIntent
        /\ seat.changed = FALSE /\ seat.window = window
    BY ONLY <2>1
  <2> QED BY <2>2 DEF window
<1>2. FocusedSurface(seat) = w /\ ~FocusedClosed(seat)
  BY <1>1, SeatAssumption DEF FocusedSurface, FocusedClosed
<1>3. IntentHolds(seat)
  BY <1>1, IntentAssumption DEF IntentHolds, NoIntent, Nothing, Unbound
<1>4. RightHolds(seat)
  BY <1>1, <1>2 DEF RightHolds
<1> QED BY <1>1, <1>2, <1>3, <1>4, InitIInv DEF WIInv

LEMMA NextWIInv ==
  ASSUME Whitelistable \subseteq Layers
  PROVE  WIInv /\ [Next]_vars => WIInv'
<1> SUFFICES ASSUME WIInv, [Next]_vars PROVE WIInv'
  OBVIOUS
<1>0. IInv' /\ Good(seat) /\ Told(seat) /\ Held(seat)
  BY NextIInv DEF WIInv, IInv, Held
<1>1. ASSUME NEW next \in Windows \cup {None}, Pass(next)
      PROVE  WIInv'
  <2>1. Held(seat') /\ ~seat'.changed /\ ~FocusedClosed(seat')
    BY <1>0, <1>1, PassRight
  <2> QED BY <1>0, <2>1 DEF WIInv, Held, IntentHolds, RightHolds, Due, FocusedClosed, FocusedSurface
<1>2. ASSUME Event, settled' = FALSE
      PROVE  WIInv'
  <2>1. Held(seat')
    BY <1>0, <1>2, EventRight
  <2> QED BY <1>0, <1>2, <2>1 DEF WIInv, Held, IntentHolds, RightHolds, Due, FocusedClosed, FocusedSurface
<1>3. CASE UNCHANGED vars
  BY <1>0, <1>3 DEF WIInv, vars, IntentHolds, RightHolds, Due, FocusedClosed, FocusedSurface
<1> QED BY <1>1, <1>2, <1>3 DEF Next

\* After a pass, with no lock, no exclusive layer, no grab and no modal
\* interface, a window with the keyboard is the one the core focuses, and none
\* goes without while the core focuses one, when grabs name layer surfaces, as
\* those of a shell do (state.rs: apply_pending_focus; input/keyboard.rs:
\* sync_modal_focus; focus_grab.rs: keyboard_fallback; lock.rs: unlock).
THEOREM WindowSafety ==
  ASSUME Whitelistable \subseteq Layers
  PROVE  Spec => []NoWrongWindow
<1>1. ASSUME WIInv PROVE NoWrongWindow
  <2>1. ASSUME settled, Free(seat), seat.intent = NoIntent, seat.kb \in Windows \cup {None}
        PROVE  seat.kb = FocusedSurface(seat)
    <3>1. seat.exclusive = None /\ ~seat.locked /\ ~seat.modal
      BY <1>1, <2>1 DEF WIInv, IInv, Good, ClaimHolds, Quiet, Free
    <3>2. ~Due(seat)
      BY <1>1, <2>1, <3>1 DEF WIInv, Due
    <3> QED BY <1>1, <2>1, <3>1, <3>2 DEF WIInv, RightHolds
  <2> QED BY <2>1 DEF NoWrongWindow
<1>2. Init => WIInv
  BY InitWIInv
<1>3. WIInv /\ [Next]_vars => WIInv'
  BY NextWIInv
<1> QED BY <1>1, <1>2, <1>3, PTL DEF Spec
=============================================================================
