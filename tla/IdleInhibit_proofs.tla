------------------------ MODULE IdleInhibit_proofs ------------------------
(***************************************************************************)
(* Theorems about IdleInhibit, for any peers, portal handles and calls     *)
(* under way, and any limits with fewer requests than cookies.  The first  *)
(* part is about the ledger alone: what its two ways of growing and its    *)
(* ways of shrinking preserve.  The second has one lemma per step of the   *)
(* three threads; the third one per step of a portal request, for each     *)
(* handle.                                                                 *)
(***************************************************************************)
EXTENDS IdleInhibit, LoopTheorems, FiniteSetTheorems

\* A well-formed ledger.
LedgerOK(l) ==
  /\ DOMAIN l = {"next", "direct", "portal"} /\ l.next \in 0 .. CookieSpace - 1
  /\ DOMAIN l.direct \subseteq Cookies /\ DOMAIN l.portal \subseteq Paths
  /\ \A k \in DOMAIN l.direct : l.direct[k] \in Peers
  /\ \A h \in DOMAIN l.portal : l.portal[h] \in [peer : Peers, idle : BOOLEAN]
  /\ RequestCount(l) <= MaxRequests
  /\ IsFiniteSet(DOMAIN l.portal)

\* m holds requests of l and no other.
PartOf(m, l) ==
  /\ DOMAIN m = DOMAIN l /\ m.next = l.next
  /\ DOMAIN m.direct \subseteq DOMAIN l.direct /\ DOMAIN m.portal \subseteq DOMAIN l.portal
  /\ \A k \in DOMAIN m.direct : m.direct[k] = l.direct[k]
  /\ \A h \in DOMAIN m.portal : m.portal[h] = l.portal[h]

-----------------------------------------------------------------------------
(***************************************************************************)
(* Counting.                                                               *)
(***************************************************************************)

\* The cookies are finitely many, so is any set of them; they outnumber the
\* requests.
LEMMA CookiesFinite ==
  /\ IsFiniteSet(Cookies) /\ Cardinality(Cookies) = CookieSpace - 1
  /\ CookieSpace \in Nat \ {0}
<1>1. CookieSpace \in Nat /\ CookieSpace >= 1
  BY InhibitAssumption
<1>2. /\ IsFiniteSet(1 .. CookieSpace - 1)
      /\ Cardinality(1 .. CookieSpace - 1) = IF 1 > CookieSpace - 1 THEN 0 ELSE CookieSpace - 1 - 1 + 1
  <2>1. 1 \in Int /\ CookieSpace - 1 \in Int
    BY <1>1
  <2> QED BY <2>1, FS_Interval
<1> QED BY <1>1, <1>2 DEF Cookies

LEMMA CountsAreNat ==
  ASSUME NEW l, LedgerOK(l)
  PROVE  /\ IsFiniteSet(DOMAIN l.direct)
         /\ Cardinality(DOMAIN l.direct) \in Nat /\ Cardinality(DOMAIN l.portal) \in Nat
<1>1. IsFiniteSet(DOMAIN l.direct)
  BY CookiesFinite, FS_Subset DEF LedgerOK
<1> QED BY <1>1, FS_CardinalityType DEF LedgerOK

LEMMA CountInRange ==
  ASSUME NEW l, LedgerOK(l)
  PROVE  ExternalCount(l) \in 0 .. MaxRequests
<1> DEFINE idle == {h \in DOMAIN l.portal : l.portal[h].idle}
<1>1. IsFiniteSet(DOMAIN l.portal) /\ idle \in SUBSET (DOMAIN l.portal)
  BY DEF LedgerOK
<1>2. Cardinality(idle) \in Nat /\ Cardinality(idle) <= Cardinality(DOMAIN l.portal)
  <2> HIDE DEF idle
  <2> QED BY <1>1, FS_Subset, FS_CardinalityType
<1>3. ExternalCount(l) = Cardinality(DOMAIN l.direct) + Cardinality(idle)
  BY DEF ExternalCount
<1>4. Cardinality(DOMAIN l.direct) + Cardinality(DOMAIN l.portal) <= MaxRequests /\ MaxRequests \in Nat
  BY InhibitAssumption DEF LedgerOK, RequestCount
<1> HIDE DEF idle
<1> QED BY <1>2, <1>3, <1>4, CountsAreNat

-----------------------------------------------------------------------------
(***************************************************************************)
(* What shrinks a ledger.                                                  *)
(***************************************************************************)

LEMMA PartIsOK ==
  ASSUME NEW l, NEW m, LedgerOK(l), PartOf(m, l)
  PROVE  LedgerOK(m)
<1>1. IsFiniteSet(DOMAIN m.direct) /\ Cardinality(DOMAIN m.direct) <= Cardinality(DOMAIN l.direct)
  BY CountsAreNat, FS_Subset DEF PartOf
<1>2. IsFiniteSet(DOMAIN m.portal) /\ Cardinality(DOMAIN m.portal) <= Cardinality(DOMAIN l.portal)
  BY FS_Subset DEF PartOf, LedgerOK
<1>3. Cardinality(DOMAIN m.direct) \in Nat /\ Cardinality(DOMAIN m.portal) \in Nat
  BY <1>1, <1>2, FS_CardinalityType
<1>4. RequestCount(m) <= MaxRequests
  BY <1>1, <1>2, <1>3, CountsAreNat, InhibitAssumption DEF RequestCount, LedgerOK
<1> QED BY <1>2, <1>4 DEF PartOf, LedgerOK

LEMMA DropDirect ==
  ASSUME NEW l, LedgerOK(l), NEW S
  PROVE  LET m == [l EXCEPT !.direct = Without(@, S)] IN
           /\ PartOf(m, l)
           /\ m.direct = Without(l.direct, S)
<1> DEFINE m == [l EXCEPT !.direct = Without(@, S)]
<1>1. DOMAIN m = DOMAIN l /\ m.next = l.next /\ m.portal = l.portal /\ m.direct = Without(l.direct, S)
  BY DEF LedgerOK
<1> HIDE DEF m
<1>2. /\ DOMAIN m.direct = DOMAIN l.direct \ S
      /\ \A k \in DOMAIN m.direct : m.direct[k] = l.direct[k]
  BY <1>1 DEF Without
<1>3. PartOf(m, l)
  BY <1>1, <1>2 DEF PartOf
<1> QED BY <1>1, <1>3 DEF m

LEMMA DropPortal ==
  ASSUME NEW l, LedgerOK(l), NEW S
  PROVE  LET m == [l EXCEPT !.portal = Without(@, S)] IN
           /\ PartOf(m, l)
           /\ m.direct = l.direct
<1> DEFINE m == [l EXCEPT !.portal = Without(@, S)]
<1>1. DOMAIN m = DOMAIN l /\ m.next = l.next /\ m.direct = l.direct /\ m.portal = Without(l.portal, S)
  BY DEF LedgerOK
<1> HIDE DEF m
<1>2. /\ DOMAIN m.portal = DOMAIN l.portal \ S
      /\ \A h \in DOMAIN m.portal : m.portal[h] = l.portal[h]
  BY <1>1 DEF Without
<1>3. PartOf(m, l)
  BY <1>1, <1>2 DEF PartOf
<1> QED BY <1>1, <1>3 DEF m

\* A peer's cleanup takes away its own requests and leaves those of others.
LEMMA ReleaseIsPart ==
  ASSUME NEW l, LedgerOK(l), NEW p
  PROVE  /\ PartOf(Releasing(l, p), l)
         /\ \A k \in DOMAIN l.direct : l.direct[k] # p => k \in DOMAIN Releasing(l, p).direct
<1> DEFINE own == {k \in DOMAIN l.direct : l.direct[k] = p}
           m == Releasing(l, p)
<1>1. /\ DOMAIN m = DOMAIN l /\ m.next = l.next
      /\ m.direct = Without(l.direct, own) /\ m.portal = Without(l.portal, Theirs(l, p))
  BY DEF LedgerOK, Releasing
<1> HIDE DEF m, own
<1>2. /\ DOMAIN m.direct = DOMAIN l.direct \ own
      /\ \A k \in DOMAIN m.direct : m.direct[k] = l.direct[k]
  BY <1>1 DEF Without
<1>3. /\ DOMAIN m.portal = DOMAIN l.portal \ Theirs(l, p)
      /\ \A h \in DOMAIN m.portal : m.portal[h] = l.portal[h]
  BY <1>1 DEF Without
<1>4. PartOf(m, l)
  BY <1>1, <1>2, <1>3 DEF PartOf
<1>5. \A k \in DOMAIN l.direct : l.direct[k] # p => k \in DOMAIN m.direct
  BY <1>2 DEF own
<1> QED BY <1>4, <1>5 DEF m

-----------------------------------------------------------------------------
(***************************************************************************)
(* What grows it.                                                          *)
(***************************************************************************)

LEMMA ModSmall == ASSUME NEW N \in Nat \ {0}, NEW k \in 0 .. N - 1 PROVE k % N = k
  OBVIOUS
LEMMA ModOnce == ASSUME NEW N \in Nat \ {0}, NEW k \in 0 .. N - 1 PROVE (k + N) % N = k
  OBVIOUS
LEMMA ModRange == ASSUME NEW N \in Nat \ {0}, NEW k \in Nat PROVE k % N \in 0 .. N - 1
  OBVIOUS

\* While there is room for a request there is a cookie nobody has, and the
\* search that starts after the last one given comes to it, wrap included.
LEMMA NextCookieIsFree ==
  ASSUME NEW l, LedgerOK(l), ~Full(l)
  PROVE  NextCookie(l) \in Cookies \ DOMAIN l.direct
<1> DEFINE ahead(i) == (l.next + i) % CookieSpace
           free(i) == ahead(i) # 0 /\ ahead(i) \notin DOMAIN l.direct
           first == CHOOSE i \in 1 .. CookieSpace : free(i) /\ \A j \in 1 .. i - 1 : ~free(j)
           T == {i \in 1 .. CookieSpace : free(i)}
<1>1. PICK k \in Cookies : k \notin DOMAIN l.direct
  <2>1. Cardinality(DOMAIN l.direct) < CookieSpace - 1
    <3>1. Cardinality(DOMAIN l.direct) + Cardinality(DOMAIN l.portal) < MaxRequests
      BY CountsAreNat, InhibitAssumption DEF Full, RequestCount
    <3> QED BY <3>1, CountsAreNat, InhibitAssumption
  <2>2. DOMAIN l.direct # Cookies
    BY <2>1, CookiesFinite, CountsAreNat
  <2> QED BY <2>2 DEF LedgerOK
<1>2. \E i \in 1 .. CookieSpace : ahead(i) = k
  <2>0. CookieSpace \in Nat \ {0} /\ k \in 1 .. CookieSpace - 1 /\ l.next \in 0 .. CookieSpace - 1
    BY CookiesFinite DEF LedgerOK, Cookies
  <2>1. CASE k > l.next
    <3>1. k - l.next \in 1 .. CookieSpace /\ l.next + (k - l.next) = k /\ k \in 0 .. CookieSpace - 1
      BY <2>0, <2>1
    <3>2. k % CookieSpace = k
      BY <2>0, <3>1, ModSmall
    <3> QED BY <3>1, <3>2
  <2>2. CASE ~(k > l.next)
    <3> DEFINE i == k - l.next + CookieSpace
    <3>1. i \in 1 .. CookieSpace /\ l.next + i = k + CookieSpace /\ k \in 0 .. CookieSpace - 1
      BY <2>0, <2>2
    <3>2. (k + CookieSpace) % CookieSpace = k
      BY <2>0, <3>1, ModOnce
    <3> HIDE DEF i
    <3> QED BY <3>1, <3>2
  <2> QED BY <2>1, <2>2
<1>3. T # {} /\ T \in SUBSET Nat
  <2>1. PICK i \in 1 .. CookieSpace : ahead(i) = k
    BY <1>2
  <2>2. k # 0
    BY CookiesFinite DEF Cookies
  <2>3. free(i)
    BY <1>1, <2>1, <2>2
  <2>4. i \in T
    <3> HIDE DEF free
    <3> QED BY <2>3
  <2>5. 1 .. CookieSpace \subseteq Nat
    BY CookiesFinite
  <2> QED BY <2>4, <2>5
<1>4. PICK i \in T : \A j \in T : ~(j < i)
  <2> HIDE DEF T
  <2> QED BY <1>3, LeastNatural
<1>5. i \in 1 .. CookieSpace /\ free(i) /\ \A j \in 1 .. i - 1 : ~free(j)
  <2>1. i \in 1 .. CookieSpace /\ free(i)
    <3> HIDE DEF free
    <3> QED BY <1>4
  <2>2. ASSUME NEW j \in 1 .. i - 1 PROVE ~free(j)
    <3>1. j \in 1 .. CookieSpace /\ j < i
      BY <2>1, CookiesFinite
    <3> HIDE DEF free
    <3> QED BY <3>1, <1>4
  <2> QED
    <3> HIDE DEF free
    <3> QED BY <2>1, <2>2
<1>6. first \in 1 .. CookieSpace /\ free(first)
  <2> HIDE DEF free
  <2> QED BY <1>5
<1>7. ahead(first) \in 0 .. CookieSpace - 1
  <2>1. l.next + first \in Nat
    <3> HIDE DEF first
    <3> QED BY <1>6, CookiesFinite DEF LedgerOK
  <2> HIDE DEF first
  <2> QED BY <2>1, CookiesFinite, ModRange
<1>8. NextCookie(l) = ahead(first)
  BY DEF NextCookie
<1>9. ahead(first) # 0 /\ ahead(first) \notin DOMAIN l.direct
  BY <1>6
<1> HIDE DEF ahead, first
<1> QED BY <1>7, <1>8, <1>9, CookiesFinite DEF Cookies

LEMMA AcquireIsOK ==
  ASSUME NEW l, LedgerOK(l), ~Full(l), NEW p \in Peers
  PROVE  LET m == AcquireDirect(l, p, NextCookie(l)) IN
           /\ LedgerOK(m)
           /\ m.direct = With(l.direct, NextCookie(l), p)
<1> DEFINE k == NextCookie(l)
           m == AcquireDirect(l, p, k)
<1>1. k \in Cookies /\ k \notin DOMAIN l.direct
  BY NextCookieIsFree
<1> HIDE DEF k
<1>2. DOMAIN m = DOMAIN l /\ m.next = k /\ m.portal = l.portal /\ m.direct = With(l.direct, k, p)
  BY DEF LedgerOK, AcquireDirect
<1> HIDE DEF m
<1>3. /\ DOMAIN m.direct = DOMAIN l.direct \cup {k}
      /\ \A c \in DOMAIN m.direct : m.direct[c] = IF c = k THEN p ELSE l.direct[c]
  BY <1>2 DEF With
<1>4. Cardinality(DOMAIN m.direct) = Cardinality(DOMAIN l.direct) + 1
  BY <1>1, <1>3, CountsAreNat, FS_AddElement
<1>5. RequestCount(m) <= MaxRequests
  BY <1>2, <1>4, CountsAreNat, InhibitAssumption DEF RequestCount, Full
<1>6. k \in 0 .. CookieSpace - 1
  BY <1>1, CookiesFinite DEF Cookies
<1>7. /\ DOMAIN m.direct \subseteq Cookies
      /\ \A c \in DOMAIN m.direct : m.direct[c] \in Peers
  BY <1>1, <1>3 DEF LedgerOK
<1>8. LedgerOK(m)
  BY <1>2, <1>5, <1>6, <1>7 DEF LedgerOK
<1> QED BY <1>2, <1>8 DEF m, k

LEMMA ReserveIsOK ==
  ASSUME NEW l, LedgerOK(l), ~Full(l), NEW h \in Paths, h \notin DOMAIN l.portal,
         NEW entry \in [peer : Peers, idle : BOOLEAN]
  PROVE  LET m == [l EXCEPT !.portal = With(@, h, entry)] IN
           /\ LedgerOK(m)
           /\ m.direct = l.direct
<1> DEFINE m == [l EXCEPT !.portal = With(@, h, entry)]
<1>1. DOMAIN m = DOMAIN l /\ m.next = l.next /\ m.direct = l.direct /\ m.portal = With(l.portal, h, entry)
  BY DEF LedgerOK
<1> HIDE DEF m
<1>2. /\ DOMAIN m.portal = DOMAIN l.portal \cup {h}
      /\ \A g \in DOMAIN m.portal : m.portal[g] = IF g = h THEN entry ELSE l.portal[g]
  BY <1>1 DEF With
<1>3. /\ IsFiniteSet(DOMAIN m.portal)
      /\ Cardinality(DOMAIN m.portal) = Cardinality(DOMAIN l.portal) + 1
  BY <1>2, FS_AddElement DEF LedgerOK
<1>4. RequestCount(m) <= MaxRequests
  BY <1>1, <1>3, CountsAreNat, InhibitAssumption DEF RequestCount, Full
<1>5. /\ DOMAIN m.portal \subseteq Paths
      /\ \A g \in DOMAIN m.portal : m.portal[g] \in [peer : Peers, idle : BOOLEAN]
  BY <1>2 DEF LedgerOK
<1>6. LedgerOK(m)
  BY <1>1, <1>3, <1>4, <1>5 DEF LedgerOK
<1> QED BY <1>1, <1>6 DEF m

-----------------------------------------------------------------------------
(***************************************************************************)
(* The inductive invariant, in three parts.  The count is the ledger's in  *)
(* every state, not only with the mutex free: whoever changes the ledger   *)
(* stores the count in the same critical section, and only the wake is     *)
(* late.  That is what NoLostWake rests on.                                *)
(***************************************************************************)

LedgerInv ==
  /\ LedgerOK(ledger)
  /\ status.count = ExternalCount(ledger)
  /\ peers \in [bus : BOOLEAN, here : SUBSET Peers, unread : SUBSET Peers,
                holds : [Peers -> SUBSET Cookies]]
  /\ peers.unread \cap peers.here = {}
  /\ CookieIsHeld

CallsOK ==
  /\ call \in [Slots -> {NoCall} \cup
       [at : {"received", "exporting", "checking", "undoing", "removing", "waking"},
        op : Ops, peer : Peers, path : Paths \cup {None},
        cookie : 0 .. CookieSpace - 1, idle : BOOLEAN]]
  /\ \A c \in Slots : call[c].op \in {"portal", "close"} => call[c].path \in Paths
  /\ received \in 0 .. MaxCalls

BusInv ==
  /\ mutex \in Slots \cup {Service, None}
  /\ exported \subseteq Paths /\ service \subseteq Paths
  /\ CallsOK

LoopInv ==
  /\ status \in [count : 0 .. MaxRequests, activity : BOOLEAN]
  /\ wake \in BOOLEAN
  /\ loop \in [at : {"idle", "loading", "taking"}, external : 0 .. MaxRequests,
               dirty : BOOLEAN, locked : BOOLEAN, inhibited : BOOLEAN]
  /\ NoLostWake
  /\ PolicyFollows

IInv == LedgerInv /\ BusInv /\ LoopInv

LEMMA InvGivesTypes == IInv => TypeOK
  BY DEF IInv, LedgerInv, BusInv, CallsOK, LoopInv, LedgerOK, TypeOK

LEMMA InitInv == Init => IInv
<1> SUFFICES ASSUME Init PROVE IInv
  OBVIOUS
<1>1. /\ DOMAIN ledger = {"next", "direct", "portal"} /\ ledger.next = 0
      /\ DOMAIN ledger.direct = {} /\ DOMAIN ledger.portal = {}
  BY DEF Init
<1>2. RequestCount(ledger) = 0 /\ ExternalCount(ledger) = 0
  <2>1. {h \in DOMAIN ledger.portal : ledger.portal[h].idle} = {}
    BY <1>1
  <2> QED BY <1>1, <2>1, FS_EmptySet DEF RequestCount, ExternalCount
<1>3. LedgerOK(ledger)
  BY <1>1, <1>2, FS_EmptySet, InhibitAssumption DEF LedgerOK
<1>4. LedgerInv
  BY <1>2, <1>3 DEF LedgerInv, Init, CookieIsHeld
<1>5. BusInv
  BY InhibitAssumption DEF BusInv, CallsOK, Init, NoCall
<1>6. LoopInv
  <2>1. 0 \in 0 .. MaxRequests
    BY InhibitAssumption
  <2>2. status = [count |-> 0, activity |-> FALSE] /\ wake = FALSE
    BY DEF Init
  <2>3. loop = [at |-> "idle", external |-> 0, dirty |-> TRUE, locked |-> FALSE, inhibited |-> FALSE]
    BY DEF Init
  <2> QED BY <2>1, <2>2, <2>3 DEF LoopInv, NoLostWake, PolicyFollows
<1> QED BY <1>4, <1>5, <1>6 DEF IInv

-----------------------------------------------------------------------------
(***************************************************************************)
(* What the steps share.                                                   *)
(***************************************************************************)

\* A step that leaves the ledger, its count and the peers alone.
LEMMA LedgerStands ==
  ASSUME LedgerInv, UNCHANGED <<ledger, peers>>, status'.count = status.count
  PROVE  LedgerInv'
  BY DEF LedgerInv, CookieIsHeld

\* A call that goes on, and one that ends.
LEMMA CallGoes ==
  ASSUME CallsOK, NEW c \in Slots, call[c].at # "free",
         NEW where \in {"received", "exporting", "checking", "undoing", "removing", "waking"},
         Goes(c, where), received' = received
  PROVE  CallsOK'
<1>1. call[c] \in [at : {"received", "exporting", "checking", "undoing", "removing", "waking"},
        op : Ops, peer : Peers, path : Paths \cup {None},
        cookie : 0 .. CookieSpace - 1, idle : BOOLEAN]
  BY DEF CallsOK, NoCall
<1>2. call' = [call EXCEPT ![c] = [call[c] EXCEPT !.at = where]]
  BY DEF Goes, CallsOK
<1>3. [call[c] EXCEPT !.at = where] \in
        [at : {"received", "exporting", "checking", "undoing", "removing", "waking"},
        op : Ops, peer : Peers, path : Paths \cup {None},
        cookie : 0 .. CookieSpace - 1, idle : BOOLEAN]
  BY <1>1
<1>4. /\ [call[c] EXCEPT !.at = where].op = call[c].op
      /\ [call[c] EXCEPT !.at = where].path = call[c].path
  BY <1>1
<1> QED BY <1>2, <1>3, <1>4 DEF CallsOK

LEMMA CallEnds ==
  ASSUME CallsOK, NEW c \in Slots, Ends(c), received' = received
  PROVE  CallsOK'
  BY DEF CallsOK, Ends, NoCall

LEMMA CallTyped ==
  ASSUME CallsOK, NEW c \in Slots, call[c].at # "free"
  PROVE  /\ call[c].peer \in Peers /\ call[c].idle \in BOOLEAN
         /\ call[c].op \in {"portal", "close"} => call[c].path \in Paths
  BY DEF CallsOK, NoCall

\* A thread that publishes a well-formed ledger has yet to wake the loop, and
\* so owes it nothing.
LEMMA PublishKeepsLoop ==
  ASSUME IInv, NEW who \in Slots \cup {Service}, NEW l, LedgerOK(l), Publishes(who, l),
         UNCHANGED <<wake, loop>>
  PROVE  LoopInv' /\ mutex' \in Slots \cup {Service, None} /\ status'.count = ExternalCount(l)
<1>1. status \in [count : 0 .. MaxRequests, activity : BOOLEAN]
  BY DEF IInv, LoopInv
<1>2. /\ status' \in [count : 0 .. MaxRequests, activity : BOOLEAN]
      /\ status'.count = ExternalCount(l)
  <2>1. ExternalCount(l) \in 0 .. MaxRequests
    BY CountInRange
  <2> HIDE DEF LedgerOK
  <2> QED BY <1>1, <2>1 DEF Publishes
<1>3. mutex' = who /\ who # None
  BY InhibitAssumption DEF Publishes
<1> QED BY <1>2, <1>3 DEF IInv, LoopInv, NoLostWake, PolicyFollows

\* A step of one call that keeps the loop's view, and knocks no longer nowhere.
LEMMA LoopStands ==
  ASSUME LoopInv, UNCHANGED <<status, mutex, wake, loop>>,
         \A c \in Slots : call[c].at = "waking" => call'[c].at = "waking"
  PROVE  LoopInv'
  BY DEF LoopInv, NoLostWake, PolicyFollows

\* Moving a call that was not knocking silences nobody.
LEMMA OthersKnock ==
  ASSUME CallsOK, NEW c \in Slots, call[c].at # "waking",
         Ends(c) \/ \E where : Goes(c, where)
  PROVE  \A d \in Slots : call[d].at = "waking" => call'[d].at = "waking"
  BY DEF CallsOK, Ends, Goes

-----------------------------------------------------------------------------
(***************************************************************************)
(* The method calls.                                                       *)
(***************************************************************************)

\* What a caller may send.
Requests ==
  {r \in [at : {"received"}, op : Ops, peer : Peers, path : Paths \cup {None},
          cookie : 0 .. CookieSpace - 1, idle : BOOLEAN] :
     r.op \in {"portal", "close"} => r.path \in Paths}

LEMMA CallsAreRequests ==
  ASSUME NEW c \in Slots, NEW p \in Peers, Calls(c, p)
  PROVE  \E request \in Requests : Received(c, request)
<1>1. 0 \in 0 .. CookieSpace - 1 /\ Cookies \subseteq 0 .. CookieSpace - 1
  BY CookiesFinite DEF Cookies
<1>2. CASE \E op \in {"inhibit", "activity"} : Received(c, Request(op, p))
  <2>1. \A op \in {"inhibit", "activity"} : Request(op, p) \in Requests
    BY <1>1 DEF Request, Requests, NoCall, Ops
  <2> QED BY <1>2, <2>1
<1>3. CASE \E k \in Cookies : Received(c, [Request("unInhibit", p) EXCEPT !.cookie = k])
  <2>1. \A k \in Cookies : [Request("unInhibit", p) EXCEPT !.cookie = k] \in Requests
    BY <1>1 DEF Request, Requests, NoCall, Ops
  <2> QED BY <1>3, <2>1
<1>4. CASE \E h \in Paths, i \in BOOLEAN :
             Received(c, [Request("portal", p) EXCEPT !.path = h, !.idle = i])
  <2>1. \A h \in Paths, i \in BOOLEAN :
          [Request("portal", p) EXCEPT !.path = h, !.idle = i] \in Requests
    BY <1>1 DEF Request, Requests, NoCall, Ops
  <2> QED BY <1>4, <2>1
<1>5. CASE \E h \in Paths : Received(c, [Request("close", p) EXCEPT !.path = h])
  <2>1. \A h \in Paths : [Request("close", p) EXCEPT !.path = h] \in Requests
    BY <1>1 DEF Request, Requests, NoCall, Ops
  <2> QED BY <1>5, <2>1
<1> QED BY <1>2, <1>3, <1>4, <1>5 DEF Calls

LEMMA ReceivedStep ==
  ASSUME IInv, NEW c \in Slots, NEW request \in Requests, Received(c, request)
  PROVE  IInv'
<1>1. LedgerInv'
  <2>1. UNCHANGED <<ledger, status>>
    BY DEF Received
  <2>2. /\ peers' \in [bus : BOOLEAN, here : SUBSET Peers, unread : SUBSET Peers,
                      holds : [Peers -> SUBSET Cookies]]
        /\ peers'.here = peers.here /\ peers'.unread = peers.unread
        /\ \A p \in Peers : peers'.holds[p] \subseteq peers.holds[p]
    BY DEF Received, IInv, LedgerInv
  <2> QED BY <2>1, <2>2 DEF IInv, LedgerInv, CookieIsHeld
<1>2. CallsOK'
  <2>1. /\ request \in [at : {"received", "exporting", "checking", "undoing", "removing", "waking"},
              op : Ops, peer : Peers, path : Paths \cup {None},
              cookie : 0 .. CookieSpace - 1, idle : BOOLEAN]
        /\ request.op \in {"portal", "close"} => request.path \in Paths
    BY DEF Requests
  <2>3. received' \in 0 .. MaxCalls
    BY InhibitAssumption DEF Received, IInv, BusInv, CallsOK
  <2> QED BY <2>1, <2>3 DEF Received, IInv, BusInv, CallsOK
<1>3. \A d \in Slots : call[d].at = "waking" => call'[d].at = "waking"
  BY DEF Received, IInv, BusInv, CallsOK
<1>4. LoopInv'
  BY <1>3, LoopStands DEF Received, IInv
<1> QED BY <1>1, <1>2, <1>4 DEF Received, IInv, BusInv

LEMMA InhibitStep ==
  ASSUME IInv, NEW c \in Slots, Inhibit(c)
  PROVE  IInv'
<1> DEFINE p == call[c].peer
           k == NextCookie(ledger)
           l == AcquireDirect(ledger, p, k)
<1>1. CallsOK /\ call[c].at = "received" /\ p \in Peers
  BY CallTyped DEF Inhibit, At, IInv, BusInv
<1>2. CallsOK'
  BY <1>1, CallEnds DEF Inhibit
<1>3. \A d \in Slots : call[d].at = "waking" => call'[d].at = "waking"
  BY <1>1, OthersKnock DEF Inhibit
<1>4. CASE Full(ledger)
  <2>1. UNCHANGED <<ledger, status, mutex, peers>>
    BY <1>4 DEF Inhibit, Leaves
  <2>2. LedgerInv'
    BY <2>1, LedgerStands DEF IInv
  <2>3. LoopInv'
    BY <1>3, <2>1, LoopStands DEF Inhibit, IInv
  <2> QED BY <1>2, <2>1, <2>2, <2>3 DEF Inhibit, IInv, BusInv
<1>5. CASE ~Full(ledger)
  <2>1. LedgerOK(ledger)
    BY DEF IInv, LedgerInv
  <2>2. LedgerOK(l) /\ l.direct = With(ledger.direct, k, p) /\ k \in Cookies \ DOMAIN ledger.direct
    BY <1>1, <1>5, <2>1, AcquireIsOK, NextCookieIsFree
  <2>3. /\ Publishes(c, l)
        /\ peers' = IF p \in peers.here THEN [peers EXCEPT !.holds[p] = @ \cup {k}] ELSE peers
    BY <1>5 DEF Inhibit
  <2>4. UNCHANGED <<exported, service, wake, loop, received>>
    BY DEF Inhibit
  <2> HIDE DEF l, k, p
  <2>5. LoopInv' /\ mutex' \in Slots \cup {Service, None} /\ status'.count = ExternalCount(l)
    BY <2>2, <2>3, <2>4, PublishKeepsLoop
  <2>6. ledger' = l
    BY <2>3 DEF Publishes
  <2>7. /\ peers' \in [bus : BOOLEAN, here : SUBSET Peers, unread : SUBSET Peers,
                      holds : [Peers -> SUBSET Cookies]]
        /\ peers'.here = peers.here /\ peers'.unread = peers.unread
        /\ \A q \in Peers : peers'.holds[q] \subseteq peers.holds[q] \cup (IF q = p THEN {k} ELSE {})
    BY <1>1, <2>2, <2>3 DEF IInv, LedgerInv
  <2>8. /\ k \in DOMAIN l.direct /\ l.direct[k] = p
        /\ \A j \in DOMAIN ledger.direct : j \in DOMAIN l.direct /\ l.direct[j] = ledger.direct[j]
    BY <2>2 DEF With
  <2>9. CookieIsHeld'
    BY <2>6, <2>7, <2>8 DEF CookieIsHeld, IInv, LedgerInv
  <2>10. LedgerInv'
    BY <2>2, <2>5, <2>6, <2>7, <2>9 DEF IInv, LedgerInv
  <2> QED BY <1>2, <2>4, <2>5, <2>10 DEF IInv, BusInv
<1> QED BY <1>4, <1>5

LEMMA UnInhibitStep ==
  ASSUME IInv, NEW c \in Slots, UnInhibit(c)
  PROVE  IInv'
<1> DEFINE p == call[c].peer
           k == call[c].cookie
           l == [ledger EXCEPT !.direct = Without(@, {k})]
<1>1. CallsOK /\ call[c].at = "received" /\ p \in Peers
  BY CallTyped DEF UnInhibit, At, IInv, BusInv
<1>2. CallsOK'
  BY <1>1, CallEnds DEF UnInhibit
<1>3. \A d \in Slots : call[d].at = "waking" => call'[d].at = "waking"
  BY <1>1, OthersKnock DEF UnInhibit
<1>4. /\ peers' = [peers EXCEPT !.holds[p] = @ \ {k}]
      /\ UNCHANGED <<exported, service, wake, loop, received>>
  BY DEF UnInhibit
<1>5. LedgerOK(ledger)
  BY DEF IInv, LedgerInv
<1>6. CASE OwnsDirect(ledger, p, k)
  <2>1. PartOf(l, ledger) /\ l.direct = Without(ledger.direct, {k}) /\ LedgerOK(l)
    BY <1>5, DropDirect, PartIsOK
  <2>2. Publishes(c, l)
    BY <1>6 DEF UnInhibit
  <2> HIDE DEF l, k, p
  <2>3. LoopInv' /\ mutex' \in Slots \cup {Service, None} /\ status'.count = ExternalCount(l)
    BY <1>4, <2>1, <2>2, PublishKeepsLoop
  <2>4. ledger' = l
    BY <2>2 DEF Publishes
  <2>5. /\ peers' \in [bus : BOOLEAN, here : SUBSET Peers, unread : SUBSET Peers,
                      holds : [Peers -> SUBSET Cookies]]
        /\ peers'.here = peers.here /\ peers'.unread = peers.unread
        /\ \A q \in Peers : peers'.holds[q] \subseteq peers.holds[q]
        /\ k \notin peers'.holds[p]
    BY <1>1, <1>4 DEF IInv, LedgerInv
  <2>6. \A j \in DOMAIN ledger.direct : j # k => j \in DOMAIN l.direct /\ l.direct[j] = ledger.direct[j]
    BY <2>1 DEF Without
  <2>7. ledger.direct[k] = p
    BY <1>6 DEF OwnsDirect
  <2>8. ASSUME NEW q \in peers'.here, NEW j \in peers'.holds[q]
        PROVE  j \in DOMAIN l.direct /\ l.direct[j] = q
    <3>1. q \in Peers /\ q \in peers.here /\ j \in peers.holds[q]
      BY <2>5 DEF IInv, LedgerInv
    <3>2. j \in DOMAIN ledger.direct /\ ledger.direct[j] = q
      BY <3>1 DEF IInv, LedgerInv, CookieIsHeld
    <3>3. j # k
      BY <2>5, <2>7, <3>2
    <3> QED BY <2>6, <3>2, <3>3
  <2>9. CookieIsHeld'
    BY <2>4, <2>8 DEF CookieIsHeld
  <2>10. LedgerInv'
    BY <2>1, <2>3, <2>4, <2>5, <2>9 DEF IInv, LedgerInv
  <2> QED BY <1>2, <1>4, <2>3, <2>10 DEF IInv, BusInv
<1>7. CASE ~OwnsDirect(ledger, p, k)
  <2>1. UNCHANGED <<ledger, status, mutex>>
    BY <1>7 DEF UnInhibit, Leaves
  <2>2. /\ peers' \in [bus : BOOLEAN, here : SUBSET Peers, unread : SUBSET Peers,
                      holds : [Peers -> SUBSET Cookies]]
        /\ peers'.here = peers.here /\ peers'.unread = peers.unread
        /\ \A q \in Peers : peers'.holds[q] \subseteq peers.holds[q]
    BY <1>1, <1>4 DEF IInv, LedgerInv
  <2>3. LedgerInv'
    BY <2>1, <2>2 DEF IInv, LedgerInv, CookieIsHeld
  <2>4. LoopInv'
    BY <1>3, <1>4, <2>1, LoopStands DEF IInv
  <2> QED BY <1>2, <1>4, <2>1, <2>3, <2>4 DEF IInv, BusInv
<1> QED BY <1>6, <1>7

\* A step that publishes part of the portal requests and moves one call.
LEMMA PublishPortal ==
  ASSUME IInv, NEW who \in Slots \cup {Service}, NEW l, LedgerOK(l), l.direct = ledger.direct,
         Publishes(who, l), UNCHANGED <<wake, loop, peers>>
  PROVE  LedgerInv' /\ LoopInv' /\ mutex' \in Slots \cup {Service, None}
<1>1. LoopInv' /\ mutex' \in Slots \cup {Service, None} /\ status'.count = ExternalCount(l)
  BY PublishKeepsLoop
<1>2. ledger' = l
  BY DEF Publishes
<1>3. CookieIsHeld'
  BY <1>2 DEF CookieIsHeld, IInv, LedgerInv
<1> QED BY <1>1, <1>2, <1>3 DEF IInv, LedgerInv

LEMMA ReserveStep ==
  ASSUME IInv, NEW c \in Slots, Reserve(c)
  PROVE  IInv'
<1> DEFINE path == call[c].path
           entry == [peer |-> call[c].peer, idle |-> call[c].idle]
           l == [ledger EXCEPT !.portal = With(@, path, entry)]
<1>1. CallsOK /\ call[c].at = "received" /\ path \in Paths /\ entry \in [peer : Peers, idle : BOOLEAN]
  BY CallTyped DEF Reserve, At, IInv, BusInv
<1>2. UNCHANGED <<exported, service, wake, loop, peers, received>>
  BY DEF Reserve
<1>3. CASE Full(ledger) \/ path \in DOMAIN ledger.portal
  <2>1. UNCHANGED <<ledger, status, mutex>> /\ Ends(c)
    BY <1>3 DEF Reserve, Leaves
  <2>2. CallsOK' /\ \A d \in Slots : call[d].at = "waking" => call'[d].at = "waking"
    BY <1>1, <1>2, <2>1, CallEnds, OthersKnock
  <2>3. LedgerInv' /\ LoopInv'
    BY <1>2, <2>1, <2>2, LedgerStands, LoopStands DEF IInv
  <2> QED BY <1>2, <2>1, <2>2, <2>3 DEF IInv, BusInv
<1>4. CASE ~(Full(ledger) \/ path \in DOMAIN ledger.portal)
  <2>1. Publishes(c, l) /\ Goes(c, "exporting")
    BY <1>4 DEF Reserve
  <2>2. LedgerOK(l) /\ l.direct = ledger.direct
    BY <1>1, <1>4, ReserveIsOK DEF IInv, LedgerInv
  <2> HIDE DEF l
  <2>3. LedgerInv' /\ LoopInv' /\ mutex' \in Slots \cup {Service, None}
    BY <1>2, <2>1, <2>2, PublishPortal
  <2>4. CallsOK'
    BY <1>1, <1>2, <2>1, CallGoes
  <2> QED BY <1>2, <2>3, <2>4 DEF IInv, BusInv
<1> QED BY <1>3, <1>4

LEMMA RollBackStep ==
  ASSUME IInv, NEW c \in Slots, RollBack(c)
  PROVE  IInv'
<1> DEFINE l == [ledger EXCEPT !.portal = Without(@, {call[c].path})]
<1>1. CallsOK /\ call[c].at = "undoing" /\ Ends(c)
  BY DEF RollBack, At, IInv, BusInv
<1>2. UNCHANGED <<exported, service, wake, loop, peers, received>>
  BY DEF RollBack
<1>3. CallsOK' /\ \A d \in Slots : call[d].at = "waking" => call'[d].at = "waking"
  BY <1>1, <1>2, CallEnds, OthersKnock
<1>4. CASE call[c].path \in DOMAIN ledger.portal
  <2>1. Publishes(c, l)
    BY <1>4 DEF RollBack
  <2>2. LedgerOK(l) /\ l.direct = ledger.direct
    BY DropPortal, PartIsOK DEF IInv, LedgerInv
  <2> HIDE DEF l
  <2>3. LedgerInv' /\ LoopInv' /\ mutex' \in Slots \cup {Service, None}
    BY <1>2, <2>1, <2>2, PublishPortal
  <2> QED BY <1>2, <1>3, <2>3 DEF IInv, BusInv
<1>5. CASE call[c].path \notin DOMAIN ledger.portal
  <2>1. UNCHANGED <<ledger, status, mutex>>
    BY <1>5 DEF RollBack, Leaves
  <2>2. LedgerInv' /\ LoopInv'
    BY <1>2, <1>3, <2>1, LedgerStands, LoopStands DEF IInv
  <2> QED BY <1>2, <1>3, <2>1, <2>2 DEF IInv, BusInv
<1> QED BY <1>4, <1>5

LEMMA CloseStep ==
  ASSUME IInv, NEW c \in Slots, Close(c)
  PROVE  IInv'
<1> DEFINE path == call[c].path
           l == [ledger EXCEPT !.portal = Without(@, {path})]
<1>1. CallsOK /\ call[c].at = "received"
  BY DEF Close, At, IInv, BusInv
<1>2. UNCHANGED <<exported, service, wake, loop, peers, received>>
  BY DEF Close
<1>3. CASE Leaves /\ Ends(c)
  <2>1. CallsOK' /\ \A d \in Slots : call[d].at = "waking" => call'[d].at = "waking"
    BY <1>1, <1>2, <1>3, CallEnds, OthersKnock
  <2>2. LedgerInv' /\ LoopInv'
    BY <1>2, <1>3, <2>1, LedgerStands, LoopStands DEF IInv, Leaves
  <2> QED BY <1>2, <1>3, <2>1, <2>2 DEF IInv, BusInv, Leaves
<1>4. CASE Publishes(c, l) /\ Goes(c, "removing")
  <2>1. LedgerOK(l) /\ l.direct = ledger.direct
    BY DropPortal, PartIsOK DEF IInv, LedgerInv
  <2> HIDE DEF l
  <2>2. LedgerInv' /\ LoopInv' /\ mutex' \in Slots \cup {Service, None}
    BY <1>2, <1>4, <2>1, PublishPortal
  <2>3. CallsOK'
    BY <1>1, <1>2, <1>4, CallGoes
  <2> QED BY <1>2, <2>2, <2>3 DEF IInv, BusInv
<1> QED BY <1>3, <1>4 DEF Close

\* The steps of a call that touch neither the ledger nor the loop.
LEMMA ExportStep ==
  ASSUME IInv, NEW c \in Slots, Export(c) \/ Check(c) \/ RemoveObject(c)
  PROVE  IInv'
<1>1. CallsOK /\ call[c].at \in {"exporting", "checking", "removing"}
  BY DEF Export, Check, RemoveObject, At, IInv, BusInv
<1>2. UNCHANGED <<ledger, mutex, service, status, wake, loop, peers, received>>
  BY DEF Export, Check, RemoveObject
<1>3. exported' \subseteq Paths
  BY <1>1, CallTyped DEF Export, Check, RemoveObject, At, IInv, BusInv
<1>4. \/ Ends(c)
      \/ \E where \in {"checking", "undoing", "removing"} : Goes(c, where)
  BY DEF Export, Check, RemoveObject
<1>5. CallsOK'
  BY <1>1, <1>2, <1>4, CallEnds, CallGoes
<1>6. \A d \in Slots : call[d].at = "waking" => call'[d].at = "waking"
  BY <1>1, <1>4, OthersKnock
<1>7. LedgerInv' /\ LoopInv'
  BY <1>2, <1>6, LedgerStands, LoopStands DEF IInv
<1> QED BY <1>2, <1>3, <1>5, <1>7 DEF IInv, BusInv

LEMMA ActivityStep ==
  ASSUME IInv, NEW c \in Slots, RequestActivity(c)
  PROVE  IInv'
<1>1. CallsOK /\ call[c].at = "received" /\ Goes(c, "waking")
  BY DEF RequestActivity, At, IInv, BusInv
<1>2. UNCHANGED <<ledger, mutex, exported, service, wake, loop, peers, received>>
  BY DEF RequestActivity
<1>3. /\ status' \in [count : 0 .. MaxRequests, activity : BOOLEAN]
      /\ status'.count = status.count
  BY DEF RequestActivity, IInv, LoopInv
<1>4. CallsOK' /\ call'[c].at = "waking"
  <2>1. CallsOK'
    BY <1>1, <1>2, CallGoes
  <2>2. call'[c].at = "waking"
    BY <1>1 DEF Goes, CallsOK, NoCall
  <2> QED BY <2>1, <2>2
<1>5. LedgerInv'
  BY <1>2, <1>3, LedgerStands DEF IInv
<1>6. LoopInv'
  BY <1>2, <1>3, <1>4 DEF IInv, LoopInv, NoLostWake, PolicyFollows
<1> QED BY <1>2, <1>4, <1>5, <1>6 DEF IInv, BusInv

LEMMA KnockStep ==
  ASSUME IInv, NEW c \in Slots, WakeForActivity(c)
  PROVE  IInv'
<1>1. CallsOK /\ Ends(c) /\ wake' = TRUE
  BY DEF WakeForActivity, Wakes, At, IInv, BusInv
<1>2. UNCHANGED <<ledger, mutex, exported, service, status, loop, peers, received>>
  BY DEF WakeForActivity
<1>3. CallsOK'
  BY <1>1, <1>2, CallEnds
<1>4. LedgerInv'
  BY <1>2, LedgerStands DEF IInv
<1>5. LoopInv'
  BY <1>1, <1>2 DEF IInv, LoopInv, NoLostWake, PolicyFollows
<1> QED BY <1>2, <1>3, <1>4, <1>5 DEF IInv, BusInv

-----------------------------------------------------------------------------
(***************************************************************************)
(* The service thread, the peers and the loop.                             *)
(***************************************************************************)

LEMMA WakeStep ==
  ASSUME IInv, WakeCompositor
  PROVE  IInv'
<1>1. LedgerInv'
  BY LedgerStands DEF WakeCompositor, IInv
<1>2. wake' = TRUE /\ UNCHANGED <<status, loop>>
  BY DEF WakeCompositor, Wakes
<1>3. LoopInv'
  BY <1>2 DEF IInv, LoopInv, NoLostWake, PolicyFollows
<1> QED BY <1>1, <1>3 DEF WakeCompositor, IInv, BusInv, CallsOK

LEMMA VanishStep ==
  ASSUME IInv, NEW p \in Peers, Vanishes(p)
  PROVE  IInv'
<1>1. /\ peers' \in [bus : BOOLEAN, here : SUBSET Peers, unread : SUBSET Peers,
                    holds : [Peers -> SUBSET Cookies]]
      /\ peers'.here = peers.here \ {p} /\ peers'.unread = peers.unread \cup {p}
      /\ \A q \in Peers : peers'.holds[q] \subseteq peers.holds[q]
  BY DEF Vanishes, IInv, LedgerInv
<1>2. UNCHANGED <<ledger, mutex, exported, call, service, status, wake, loop, received>>
  BY DEF Vanishes
<1>3. LedgerInv'
  BY <1>1, <1>2 DEF IInv, LedgerInv, CookieIsHeld
<1>4. LoopInv'
  BY <1>2, LoopStands DEF IInv
<1> QED BY <1>2, <1>3, <1>4 DEF IInv, BusInv, CallsOK

LEMMA ReleaseStep ==
  ASSUME IInv, NEW p \in Peers, ReleasePeer(p)
  PROVE  IInv'
<1> DEFINE l == Releasing(ledger, p)
<1>1. LedgerOK(ledger)
  BY DEF IInv, LedgerInv
<1>2. PartOf(l, ledger) /\ LedgerOK(l)
  BY <1>1, ReleaseIsPart, PartIsOK
<1>3. \A k \in DOMAIN ledger.direct : ledger.direct[k] # p =>
        k \in DOMAIN l.direct /\ l.direct[k] = ledger.direct[k]
  BY <1>1, <1>2, ReleaseIsPart DEF PartOf
<1>4. /\ peers' \in [bus : BOOLEAN, here : SUBSET Peers, unread : SUBSET Peers,
                    holds : [Peers -> SUBSET Cookies]]
      /\ peers'.here = peers.here /\ peers'.unread = peers.unread \ {p}
      /\ peers'.holds = peers.holds /\ p \notin peers.here
  BY DEF ReleasePeer, IInv, LedgerInv
<1>5. UNCHANGED <<exported, call, wake, loop, received>> /\ service' \subseteq Paths
  BY <1>1 DEF ReleasePeer, Theirs, LedgerOK
<1>6. \/ l = ledger /\ UNCHANGED <<ledger, status, mutex>>
      \/ Publishes(Service, l)
  BY DEF ReleasePeer, Leaves
<1> HIDE DEF l
<1>7. CASE l = ledger /\ UNCHANGED <<ledger, status, mutex>>
  <2>1. LedgerInv'
    BY <1>4, <1>7 DEF IInv, LedgerInv, CookieIsHeld
  <2>2. LoopInv'
    BY <1>5, <1>7, LoopStands DEF IInv
  <2> QED BY <1>5, <1>7, <2>1, <2>2 DEF IInv, BusInv, CallsOK
<1>8. CASE Publishes(Service, l)
  <2>1. LoopInv' /\ mutex' \in Slots \cup {Service, None} /\ status'.count = ExternalCount(l)
    BY <1>2, <1>5, <1>8, PublishKeepsLoop
  <2>2. ledger' = l
    BY <1>8 DEF Publishes
  <2>3. ASSUME NEW q \in peers'.here, NEW j \in peers'.holds[q]
        PROVE  j \in DOMAIN l.direct /\ l.direct[j] = q
    <3>1. j \in DOMAIN ledger.direct /\ ledger.direct[j] = q /\ q # p
      BY <1>4 DEF IInv, LedgerInv, CookieIsHeld
    <3> QED BY <1>3, <3>1
  <2>4. CookieIsHeld'
    BY <2>2, <2>3 DEF CookieIsHeld
  <2>5. LedgerInv'
    BY <1>2, <1>4, <2>1, <2>2, <2>4 DEF IInv, LedgerInv
  <2> QED BY <1>5, <2>1, <2>5 DEF IInv, BusInv, CallsOK
<1> QED BY <1>6, <1>7, <1>8

LEMMA RemoveStep ==
  ASSUME IInv, NEW h \in Paths, RemovePath(h)
  PROVE  IInv'
<1>1. LedgerInv' /\ LoopInv'
  BY LedgerStands, LoopStands DEF RemovePath, IInv
<1> QED BY <1>1 DEF RemovePath, IInv, BusInv, CallsOK

LEMMA BusDiesStep ==
  ASSUME IInv, BusDies
  PROVE  IInv'
<1> DEFINE l == [ledger EXCEPT !.direct = Without(@, DOMAIN @), !.portal = Without(@, DOMAIN @)]
<1>1. PartOf(l, ledger) /\ LedgerOK(l)
  <2>1. /\ DOMAIN l = DOMAIN ledger /\ l.next = ledger.next
        /\ l.direct = Without(ledger.direct, DOMAIN ledger.direct)
        /\ l.portal = Without(ledger.portal, DOMAIN ledger.portal)
    BY DEF IInv, LedgerInv, LedgerOK
  <2> HIDE DEF l
  <2>2. DOMAIN l.direct = {} /\ DOMAIN l.portal = {}
    BY <2>1 DEF Without
  <2>3. PartOf(l, ledger)
    BY <2>1, <2>2 DEF PartOf
  <2> QED BY <2>3, PartIsOK DEF IInv, LedgerInv
<1>2. /\ peers' \in [bus : BOOLEAN, here : SUBSET Peers, unread : SUBSET Peers,
                    holds : [Peers -> SUBSET Cookies]]
      /\ peers'.here = {} /\ peers'.unread = {}
  BY DEF BusDies
<1>3. UNCHANGED <<exported, call, service, wake, loop, received>>
  BY DEF BusDies
<1>4. UNCHANGED <<ledger, status, mutex>> \/ Publishes(Service, l)
  BY DEF BusDies, Leaves
<1> HIDE DEF l
<1>5. CASE UNCHANGED <<ledger, status, mutex>>
  <2>1. LedgerInv'
    BY <1>2, <1>5 DEF IInv, LedgerInv, CookieIsHeld
  <2>2. LoopInv'
    BY <1>3, <1>5, LoopStands DEF IInv
  <2> QED BY <1>3, <1>5, <2>1, <2>2 DEF IInv, BusInv, CallsOK
<1>6. CASE Publishes(Service, l)
  <2>1. LoopInv' /\ mutex' \in Slots \cup {Service, None} /\ status'.count = ExternalCount(l)
    BY <1>1, <1>3, <1>6, PublishKeepsLoop
  <2>2. ledger' = l
    BY <1>6 DEF Publishes
  <2>3. LedgerInv'
    BY <1>1, <1>2, <2>1, <2>2 DEF IInv, LedgerInv, CookieIsHeld
  <2> QED BY <1>3, <2>1, <2>3 DEF IInv, BusInv, CallsOK
<1> QED BY <1>4, <1>5, <1>6

\* The loop takes the message before it reads the count, so a count stored
\* after the reading has a message of its own.
LEMMA CallbackStep ==
  ASSUME IInv, Callback
  PROVE  IInv'
<1>1. UNCHANGED <<ledger, mutex, exported, call, service, peers, received>> /\ status'.count = status.count
  BY DEF Callback, Receives, Loads, TakesActivity, IInv, LoopInv
<1>2. LedgerInv'
  BY <1>1, LedgerStands DEF IInv
<1>3. CASE Receives
  BY <1>1, <1>2, <1>3 DEF Receives, IInv, BusInv, CallsOK, LoopInv, NoLostWake, PolicyFollows
<1>4. CASE Loads
  <2>1. LoopInv'
    BY <1>4 DEF Loads, SetExternalInhibitors, IInv, LoopInv, NoLostWake, PolicyFollows
  <2> QED BY <1>1, <1>2, <2>1 DEF IInv, BusInv, CallsOK
<1>5. CASE TakesActivity
  <2>1. LoopInv'
    BY <1>1, <1>5 DEF TakesActivity, IInv, LoopInv, NoLostWake, PolicyFollows
  <2> QED BY <1>1, <1>2, <2>1 DEF IInv, BusInv, CallsOK
<1> QED BY <1>3, <1>4, <1>5 DEF Callback

LEMMA PolicyStep ==
  ASSUME IInv, LockChanges \/ Refresh
  PROVE  IInv'
<1>1. UNCHANGED <<ledger, mutex, exported, call, service, status, wake, peers, received>>
  BY DEF LockChanges, Refresh
<1>2. LedgerInv'
  BY <1>1, LedgerStands DEF IInv
<1>3. LoopInv'
  BY <1>1 DEF LockChanges, Refresh, IInv, LoopInv, NoLostWake, PolicyFollows
<1> QED BY <1>1, <1>2, <1>3 DEF IInv, BusInv, CallsOK

LEMMA HandlesStep ==
  ASSUME IInv, NEW c \in Slots, Handles(c)
  PROVE  IInv'
  BY InhibitStep, UnInhibitStep, ReserveStep, ExportStep, RollBackStep, CloseStep,
     ActivityStep, KnockStep DEF Handles

LEMMA NextStep == IInv /\ [Next]_vars => IInv'
<1> SUFFICES ASSUME IInv, [Next]_vars PROVE IInv'
  OBVIOUS
<1>1. CASE Bus
  BY <1>1, WakeStep, HandlesStep, ReleaseStep, RemoveStep DEF Bus
<1>2. CASE Callback
  BY <1>2, CallbackStep
<1>3. CASE LockChanges \/ Refresh
  BY <1>3, PolicyStep
<1>4. CASE BusDies
  BY <1>4, BusDiesStep
<1>5. CASE \E c \in Slots, p \in Peers : Calls(c, p)
  BY <1>5, CallsAreRequests, ReceivedStep
<1>6. CASE \E p \in Peers : Vanishes(p)
  BY <1>6, VanishStep
<1>7. CASE UNCHANGED vars
  <2>1. LedgerInv' /\ LoopInv'
    BY <1>7, LedgerStands, LoopStands DEF vars, IInv
  <2> QED BY <1>7, <2>1 DEF vars, IInv, BusInv, CallsOK
<1> QED BY <1>1, <1>2, <1>3, <1>4, <1>5, <1>6, <1>7 DEF Next

-----------------------------------------------------------------------------
(***************************************************************************)
(* The handles of the portal.  A request is reserved, exported and looked  *)
(* at again, each with the mutex let go in between; a closing or the loss  *)
(* of its peer may fall on any of these.                                   *)
(***************************************************************************)

\* A call that asks for the handle h, and one that takes its object down.
Asks(c, h) == call[c].op = "portal" /\ call[c].path = h
Removes(c, h) == call[c].at = "removing" /\ call[c].path = h

OneAsks(h) == \A c, d \in Slots : Asks(c, h) /\ Asks(d, h) => c = d

\* Before the reservation nothing of the handle exists.
AskedIsNew(h) ==
  \A c \in Slots : Asks(c, h) /\ call[c].at = "received" =>
    /\ h \notin exported \cup service \cup DOMAIN ledger.portal
    /\ \A d \in Slots : ~Removes(d, h)

\* Who takes an object down has seen its reservation gone.
RemovedIsReleased(h) ==
  h \in service \/ (\E c \in Slots : Removes(c, h)) => h \notin DOMAIN ledger.portal

NotYetExported(h) ==
  \A c \in Slots : Asks(c, h) /\ call[c].at \in {"exporting", "undoing"} => h \notin exported

\* A reservation with no object is one its call still works on.
ReservedIsMade(h) ==
  h \in DOMAIN ledger.portal \ exported =>
    \E c \in Slots : Asks(c, h) /\ call[c].at \in {"exporting", "undoing"}

\* An object with no reservation is about to be taken down, or to be looked at
\* by the call that made it.
StrandedIsRemoved(h) ==
  peers.bus /\ h \in exported \ DOMAIN ledger.portal =>
    \/ h \in service
    \/ \E c \in Slots : Removes(c, h) \/ (Asks(c, h) /\ call[c].at = "checking")

HandleFits(h) ==
  /\ OneAsks(h) /\ AskedIsNew(h) /\ RemovedIsReleased(h)
  /\ NotYetExported(h) /\ ReservedIsMade(h) /\ StrandedIsRemoved(h)
PortalInv == \A h \in Paths : HandleFits(h)

\* Where a call that moves on, or ends, is then.
LEMMA Moved ==
  ASSUME IInv, NEW c \in Slots, NEW where, Goes(c, where)
  PROVE  /\ call'[c].at = where /\ call'[c].op = call[c].op /\ call'[c].path = call[c].path
         /\ \A d \in Slots \ {c} : call'[d] = call[d]
<1>1. call'[c] = [call[c] EXCEPT !.at = where] /\ DOMAIN call[c] = DOMAIN NoCall
  BY DEF Goes, IInv, BusInv, CallsOK, NoCall
<1> QED BY <1>1 DEF Goes, IInv, BusInv, CallsOK, NoCall

LEMMA Ended ==
  ASSUME IInv, NEW c \in Slots, Ends(c)
  PROVE  /\ call'[c].at = "free" /\ call'[c].op = "activity" /\ call'[c].path = None
         /\ \A d \in Slots \ {c} : call'[d] = call[d]
  BY DEF Ends, IInv, BusInv, CallsOK, NoCall

\* A step that moves no call of the handle, and neither its object nor its
\* reservation.
LEMMA HandleStands ==
  ASSUME PortalInv, NEW h \in Paths, exported' = exported, service' = service,
         DOMAIN ledger'.portal = DOMAIN ledger.portal, peers'.bus => peers.bus,
         \A c \in Slots : \/ call'[c] = call[c]
                          \/ call[c].path # h /\ call'[c].path # h
  PROVE  HandleFits(h)'
<1>1. HandleFits(h)
  BY DEF PortalInv
<1> QED BY <1>1 DEF HandleFits, OneAsks, AskedIsNew, RemovedIsReleased, NotYetExported,
           ReservedIsMade, StrandedIsRemoved, Asks, Removes

LEMMA InitPortal == Init => PortalInv
  BY InhibitAssumption DEF Init, NoCall, PortalInv, HandleFits, OneAsks, AskedIsNew,
     RemovedIsReleased, NotYetExported, ReservedIsMade, StrandedIsRemoved, Asks, Removes

LEMMA ReceivedPortal ==
  ASSUME IInv, PortalInv, NEW c \in Slots, NEW request \in Requests, Received(c, request),
         NEW h \in Paths
  PROVE  HandleFits(h)'
<1>0. HandleFits(h)
  BY DEF PortalInv
<1>1. /\ UNCHANGED <<ledger, exported, service>> /\ peers'.bus = peers.bus
      /\ call[c].at = "free" /\ \A d \in Slots \ {c} : call'[d] = call[d]
      /\ call'[c] = request
  BY DEF Received, IInv, LedgerInv, BusInv, CallsOK
<1>2. /\ call'[c].at = "received"
      /\ Asks(c, h)' => Fresh(h)
  BY <1>1 DEF Received, Requests, Asks
<1>3. call[c].path # h /\ call[c].op = "activity"
  BY <1>1, InhibitAssumption DEF IInv, BusInv, CallsOK, NoCall
<1> QED
  BY <1>0, <1>1, <1>2, <1>3
  DEF HandleFits, OneAsks, AskedIsNew, RemovedIsReleased, NotYetExported, ReservedIsMade,
      StrandedIsRemoved, Asks, Removes, Fresh, Settled

LEMMA ReservePortal ==
  ASSUME IInv, PortalInv, NEW c \in Slots, Reserve(c), NEW h \in Paths
  PROVE  HandleFits(h)'
<1> USE DEF HandleFits, OneAsks, AskedIsNew, RemovedIsReleased, NotYetExported, ReservedIsMade,
            StrandedIsRemoved, Asks, Removes
<1>0. HandleFits(h)
  BY DEF PortalInv
<1>1. /\ call[c].at = "received" /\ call[c].op = "portal"
      /\ UNCHANGED <<exported, service, peers>>
  BY DEF Reserve, At
<1>2. CASE Leaves /\ Ends(c)
  BY <1>0, <1>1, <1>2, Ended, InhibitAssumption DEF Leaves
<1>3. CASE /\ Publishes(c, [ledger EXCEPT !.portal = With(@, call[c].path,
                             [peer |-> call[c].peer, idle |-> call[c].idle])])
           /\ Goes(c, "exporting")
  <2>1. DOMAIN ledger'.portal = DOMAIN ledger.portal \cup {call[c].path}
    BY <1>3 DEF Publishes, With, IInv, LedgerInv, LedgerOK
  <2>2. /\ call'[c].at = "exporting" /\ call'[c].op = call[c].op /\ call'[c].path = call[c].path
        /\ \A d \in Slots \ {c} : call'[d] = call[d]
    BY <1>3, Moved
  <2> QED BY <1>0, <1>1, <2>1, <2>2
<1> QED BY <1>2, <1>3 DEF Reserve

LEMMA ExportPortal ==
  ASSUME IInv, PortalInv, NEW c \in Slots, Export(c), NEW h \in Paths
  PROVE  HandleFits(h)'
<1> USE DEF HandleFits, OneAsks, AskedIsNew, RemovedIsReleased, NotYetExported, ReservedIsMade,
            StrandedIsRemoved, Asks, Removes
<1>0. HandleFits(h)
  BY DEF PortalInv
<1>1. /\ call[c].at = "exporting" /\ call[c].op = "portal"
      /\ UNCHANGED <<ledger, service, peers>>
  BY DEF Export, At
<1>2. CASE exported' = exported \cup {call[c].path} /\ Goes(c, "checking")
  <2>1. /\ call'[c].at = "checking" /\ call'[c].op = call[c].op /\ call'[c].path = call[c].path
        /\ \A d \in Slots \ {c} : call'[d] = call[d]
    BY <1>2, Moved
  <2> QED BY <1>0, <1>1, <1>2, <2>1
<1>3. CASE UNCHANGED exported /\ Goes(c, "undoing")
  <2>1. /\ call'[c].at = "undoing" /\ call'[c].op = call[c].op /\ call'[c].path = call[c].path
        /\ \A d \in Slots \ {c} : call'[d] = call[d]
    BY <1>3, Moved
  <2> QED BY <1>0, <1>1, <1>3, <2>1
<1> QED BY <1>2, <1>3 DEF Export

LEMMA RollBackPortal ==
  ASSUME IInv, PortalInv, NEW c \in Slots, RollBack(c), NEW h \in Paths
  PROVE  HandleFits(h)'
<1> USE DEF HandleFits, OneAsks, AskedIsNew, RemovedIsReleased, NotYetExported, ReservedIsMade,
            StrandedIsRemoved, Asks, Removes
<1>0. HandleFits(h)
  BY DEF PortalInv
<1>1. /\ call[c].at = "undoing" /\ call[c].op = "portal"
      /\ UNCHANGED <<exported, service, peers>>
  BY DEF RollBack, At
<1>2. DOMAIN ledger'.portal = DOMAIN ledger.portal \ {call[c].path}
  BY DEF RollBack, Publishes, Leaves, Without, IInv, LedgerInv, LedgerOK
<1>3. /\ call'[c].at = "free" /\ call'[c].op = "activity" /\ call'[c].path = None
      /\ \A d \in Slots \ {c} : call'[d] = call[d]
  BY Ended DEF RollBack
<1> QED BY <1>0, <1>1, <1>2, <1>3, InhibitAssumption

LEMMA CheckPortal ==
  ASSUME IInv, PortalInv, NEW c \in Slots, Check(c), NEW h \in Paths
  PROVE  HandleFits(h)'
<1> USE DEF HandleFits, OneAsks, AskedIsNew, RemovedIsReleased, NotYetExported, ReservedIsMade,
            StrandedIsRemoved, Asks, Removes
<1>0. HandleFits(h)
  BY DEF PortalInv
<1>1. /\ call[c].at = "checking" /\ call[c].op = "portal"
      /\ UNCHANGED <<ledger, exported, service, peers>>
  BY DEF Check, At
<1>2. CASE call[c].path \in DOMAIN ledger.portal /\ Ends(c)
  <2>1. /\ call'[c].at = "free" /\ call'[c].op = "activity" /\ call'[c].path = None
        /\ \A d \in Slots \ {c} : call'[d] = call[d]
    BY <1>2, Ended
  <2> QED BY <1>0, <1>1, <1>2, <2>1, InhibitAssumption
<1>3. CASE call[c].path \notin DOMAIN ledger.portal /\ Goes(c, "removing")
  <2>1. /\ call'[c].at = "removing" /\ call'[c].op = call[c].op /\ call'[c].path = call[c].path
        /\ \A d \in Slots \ {c} : call'[d] = call[d]
    BY <1>3, Moved
  <2> QED BY <1>0, <1>1, <1>3, <2>1
<1> QED BY <1>2, <1>3 DEF Check

LEMMA ClosePortal ==
  ASSUME IInv, PortalInv, NEW c \in Slots, Close(c), NEW h \in Paths
  PROVE  HandleFits(h)'
<1> USE DEF HandleFits, OneAsks, AskedIsNew, RemovedIsReleased, NotYetExported, ReservedIsMade,
            StrandedIsRemoved, Asks, Removes
<1>0. HandleFits(h)
  BY DEF PortalInv
<1>1. /\ call[c].at = "received" /\ call[c].op = "close"
      /\ UNCHANGED <<exported, service, peers>>
  BY DEF Close, At
<1>2. CASE Leaves /\ Ends(c)
  <2>1. /\ call'[c].at = "free" /\ call'[c].op = "activity" /\ call'[c].path = None
        /\ \A d \in Slots \ {c} : call'[d] = call[d]
    BY <1>2, Ended
  <2> QED BY <1>0, <1>1, <1>2, <2>1, InhibitAssumption DEF Leaves
<1>3. CASE /\ call[c].path \in exported
           /\ Publishes(c, [ledger EXCEPT !.portal = Without(@, {call[c].path})])
           /\ Goes(c, "removing")
  <2>1. DOMAIN ledger'.portal = DOMAIN ledger.portal \ {call[c].path}
    BY <1>3 DEF Publishes, Without, IInv, LedgerInv, LedgerOK
  <2>2. /\ call'[c].at = "removing" /\ call'[c].op = call[c].op /\ call'[c].path = call[c].path
        /\ \A d \in Slots \ {c} : call'[d] = call[d]
    BY <1>3, Moved
  <2> QED BY <1>0, <1>1, <1>3, <2>1, <2>2
<1> QED BY <1>2, <1>3 DEF Close

LEMMA RemovePortal ==
  ASSUME IInv, PortalInv, NEW c \in Slots, RemoveObject(c), NEW h \in Paths
  PROVE  HandleFits(h)'
<1> USE DEF HandleFits, OneAsks, AskedIsNew, RemovedIsReleased, NotYetExported, ReservedIsMade,
            StrandedIsRemoved, Asks, Removes
<1>0. HandleFits(h)
  BY DEF PortalInv
<1>1. /\ call[c].at = "removing" /\ exported' = exported \ {call[c].path}
      /\ UNCHANGED <<ledger, service, peers>>
  BY DEF RemoveObject
<1>2. /\ call'[c].at = "free" /\ call'[c].op = "activity" /\ call'[c].path = None
      /\ \A d \in Slots \ {c} : call'[d] = call[d]
  BY Ended DEF RemoveObject
<1> QED BY <1>0, <1>1, <1>2, InhibitAssumption

\* The service thread: the handles of a lost peer are in its hands before their
\* reservations can be anyone else's.
LEMMA ReleasePortal ==
  ASSUME IInv, PortalInv, NEW p \in Peers, ReleasePeer(p), NEW h \in Paths
  PROVE  HandleFits(h)'
<1> USE DEF HandleFits, OneAsks, AskedIsNew, RemovedIsReleased, NotYetExported, ReservedIsMade,
            StrandedIsRemoved, Asks, Removes
<1>0. HandleFits(h)
  BY DEF PortalInv
<1>1. /\ service = {} /\ service' = Theirs(ledger, p) /\ peers'.bus = peers.bus
      /\ UNCHANGED <<exported, call>>
  BY DEF ReleasePeer, IInv, LedgerInv
<1>2. DOMAIN ledger'.portal = DOMAIN ledger.portal \ Theirs(ledger, p)
  <2>1. DOMAIN Releasing(ledger, p).portal = DOMAIN ledger.portal \ Theirs(ledger, p)
    BY DEF Releasing, Without, IInv, LedgerInv, LedgerOK
  <2>2. ledger' = Releasing(ledger, p)
    BY DEF ReleasePeer, Publishes, Leaves
  <2> QED BY <2>1, <2>2
<1>3. Theirs(ledger, p) \subseteq DOMAIN ledger.portal
  BY DEF Theirs
<1> QED BY <1>0, <1>1, <1>2, <1>3

LEMMA RemovePathPortal ==
  ASSUME IInv, PortalInv, NEW gone \in Paths, RemovePath(gone), NEW h \in Paths
  PROVE  HandleFits(h)'
<1>0. HandleFits(h)
  BY DEF PortalInv
<1>1. /\ gone \in service /\ service' = service \ {gone} /\ exported' = exported \ {gone}
      /\ UNCHANGED <<ledger, call, peers>>
  BY DEF RemovePath
<1> QED
  BY <1>0, <1>1
  DEF HandleFits, OneAsks, AskedIsNew, RemovedIsReleased, NotYetExported, ReservedIsMade,
      StrandedIsRemoved, Asks, Removes

LEMMA BusDiesPortal ==
  ASSUME IInv, PortalInv, BusDies, NEW h \in Paths
  PROVE  HandleFits(h)'
<1>0. HandleFits(h)
  BY DEF PortalInv
<1>1. ~peers'.bus /\ UNCHANGED <<exported, call, service>>
  BY DEF BusDies
<1>2. DOMAIN ledger'.portal = {}
  <2> DEFINE rest == [ledger EXCEPT !.direct = Without(@, DOMAIN @),
                                    !.portal = Without(@, DOMAIN @)]
  <2>1. ledger' = rest
    BY DEF BusDies, Publishes, Leaves
  <2>2. DOMAIN rest.portal = {}
    BY DEF Without, IInv, LedgerInv, LedgerOK
  <2> QED BY <2>1, <2>2
<1> QED
  BY <1>0, <1>1, <1>2
  DEF HandleFits, OneAsks, AskedIsNew, RemovedIsReleased, NotYetExported, ReservedIsMade,
      StrandedIsRemoved, Asks, Removes

\* What the other interfaces do with the ledger leaves the handles alone.
LEMMA DirectPortal ==
  ASSUME IInv, PortalInv, NEW c \in Slots,
         Inhibit(c) \/ UnInhibit(c) \/ RequestActivity(c) \/ WakeForActivity(c), NEW h \in Paths
  PROVE  HandleFits(h)'
<1>0. HandleFits(h)
  BY DEF PortalInv
<1>1. DOMAIN ledger'.portal = DOMAIN ledger.portal
  BY DEF Inhibit, UnInhibit, RequestActivity, WakeForActivity, Publishes, Leaves, AcquireDirect,
     IInv, LedgerInv, LedgerOK
<1>2. exported' = exported /\ service' = service /\ peers'.bus = peers.bus
  BY DEF Inhibit, UnInhibit, RequestActivity, WakeForActivity, IInv, LedgerInv
<1>3. call[c].at \in {"received", "waking"} /\ call[c].op \in {"inhibit", "unInhibit", "activity"}
  BY DEF Inhibit, UnInhibit, RequestActivity, WakeForActivity, At
<1>4. Ends(c) \/ Goes(c, "waking")
  BY DEF Inhibit, UnInhibit, RequestActivity, WakeForActivity
<1>5. /\ call'[c].at \in {"free", "waking"} /\ call'[c].op # "portal"
      /\ \A d \in Slots \ {c} : call'[d] = call[d]
  BY <1>3, <1>4, Moved, Ended
<1> QED
  BY <1>0, <1>1, <1>2, <1>3, <1>5
  DEF HandleFits, OneAsks, AskedIsNew, RemovedIsReleased, NotYetExported, ReservedIsMade,
      StrandedIsRemoved, Asks, Removes

LEMMA NextPortal == IInv /\ PortalInv /\ [Next]_vars => PortalInv'
<1> SUFFICES ASSUME IInv, PortalInv, [Next]_vars, NEW h \in Paths PROVE HandleFits(h)'
  BY DEF PortalInv
<1>1. CASE \/ WakeCompositor \/ Callback \/ Refresh \/ LockChanges
           \/ (\E p \in Peers : Vanishes(p)) \/ UNCHANGED vars
  <2>1. UNCHANGED <<ledger, exported, service, call>> /\ peers'.bus = peers.bus
    BY <1>1 DEF WakeCompositor, Callback, Receives, Loads, TakesActivity, Refresh, LockChanges,
       Vanishes, vars, IInv, LedgerInv
  <2> QED BY <2>1, HandleStands
<1>2. CASE \E c \in Slots : Handles(c)
  BY <1>2, DirectPortal, ReservePortal, ExportPortal, RollBackPortal, CheckPortal, ClosePortal,
     RemovePortal DEF Handles
<1>3. CASE (\E p \in Peers : ReleasePeer(p)) \/ (\E gone \in Paths : RemovePath(gone))
  BY <1>3, ReleasePortal, RemovePathPortal
<1>4. CASE BusDies
  BY <1>4, BusDiesPortal
<1>5. CASE \E c \in Slots, p \in Peers : Calls(c, p)
  BY <1>5, CallsAreRequests, ReceivedPortal
<1> QED BY <1>1, <1>2, <1>3, <1>4, <1>5 DEF Next, Bus

LEMMA PortalInvHolds == Spec => [](IInv /\ PortalInv)
<1>1. Init => IInv /\ PortalInv
  BY InitInv, InitPortal
<1>2. IInv /\ PortalInv /\ [Next]_vars => IInv' /\ PortalInv'
  BY NextStep, NextPortal
<1> QED BY <1>1, <1>2, PTL DEF Spec

-----------------------------------------------------------------------------
(***************************************************************************)
(* The theorems.                                                           *)
(***************************************************************************)

LEMMA InvHolds == Spec => []IInv
<1>1. Init => IInv
  BY InitInv
<1>2. IInv /\ [Next]_vars => IInv'
  BY NextStep
<1> QED BY <1>1, <1>2, PTL DEF Spec

\* Types, and the limit on requests: however calls, failures and departures
\* interleave, the two interfaces together never hold more than MaxRequests.
THEOREM TypeSafety == Spec => []TypeOK
<1>1. IInv => TypeOK
  BY InvGivesTypes
<1> QED BY <1>1, InvHolds, PTL

\* The count the loop will read is the ledger's (Shared::publish_count and its
\* callers).
THEOREM CountSafety == Spec => []CountIsTheLedgers
<1>1. IInv => CountIsTheLedgers
  BY DEF IInv, LedgerInv, CountIsTheLedgers
<1> QED BY <1>1, InvHolds, PTL

\* A wake dropped on the full channel loses neither a count nor a request for
\* activity (Shared::wake_compositor, the callback of init).
THEOREM WakeSafety == Spec => []NoLostWake
<1>1. IInv => NoLostWake
  BY DEF IInv, LoopInv
<1> QED BY <1>1, InvHolds, PTL

\* A cookie belongs to its caller until the caller gives it up, across the wrap
\* of the counter (Ledger::acquire_direct, release_direct, release_peer).
THEOREM CookieSafety == Spec => []CookieIsHeld
<1>1. IInv => CookieIsHeld
  BY DEF IInv, LedgerInv
<1> QED BY <1>1, InvHolds, PTL

\* The notifier follows the count and the lock (set_external_inhibitors,
\* idle::refresh).
THEOREM PolicySafety == Spec => []PolicyFollows
<1>1. IInv => PolicyFollows
  BY DEF IInv, LoopInv
<1> QED BY <1>1, InvHolds, PTL

\* A handle about which nothing is under way has its object exactly when it has
\* its reservation, on whichever await of the request its closing, its failed
\* export or the loss of its peer fell (PortalInhibit::inhibit,
\* PortalRequest::close, the loop of serve).
THEOREM PortalSafety == Spec => []PortalAgrees
<1>1. PortalInv => PortalAgrees
  BY InhibitAssumption DEF PortalInv, HandleFits, ReservedIsMade, StrandedIsRemoved, Asks, Removes,
     PortalAgrees, Settled
<1> QED BY <1>1, PortalInvHolds, PTL
=============================================================================
