----------------------------- MODULE IdleInhibit -----------------------------
(* Idle inhibition asked for over the session bus: inhibit_bus.rs with the   *)
(* half of idle.rs that turns it into the compositor's policy.               *)
(*                                                                           *)
(* Three threads work here.  The bus library runs every method call as a     *)
(* task of its own (a call in a slot); the service thread reads the          *)
(* departures of peers, in their order but in no order with the calls; the   *)
(* compositor's loop is told through two atomics and a channel of one        *)
(* message.  A mutex guards the ledger; whoever changed it stores the count  *)
(* and wakes the loop before letting go, and the loop reads the atomics      *)
(* without the mutex.                                                        *)
EXTENDS Integers, FiniteSets

CONSTANTS
  Peers,        \* connections to the session bus
  Paths,        \* handles of portal requests
  Slots,        \* bound: calls under way at once
  None,
  Service,      \* the service thread
  MaxRequests,  \* MAX_EXTERNAL_REQUESTS
  CookieSpace,  \* 2^32 in the code: cookies wrap here
  MaxCalls      \* bound: calls received

ASSUME InhibitAssumption ==
  /\ None \notin Peers \cup Paths \cup Slots \cup {Service}
  /\ Service \notin Slots
  /\ MaxRequests \in Nat /\ CookieSpace \in Nat /\ MaxRequests < CookieSpace
  /\ MaxCalls \in Nat

VARIABLES
  ledger,    \* Ledger: next_cookie, direct, portal
  mutex,     \* who changed the ledger and has still to wake the loop
  exported,  \* paths with a PortalRequest at the object server
  call,      \* the method calls under way
  service,   \* paths the service thread has still to take down
  status,    \* ScreenSaverStatus: the count, the pending activity
  wake,      \* the channel of one Refresh
  loop,      \* Idle, and where the loop is in its callback
  peers,     \* who is on the bus, whose departure is unread, what they hold
  received   \* calls received, of MaxCalls

vars == <<ledger, mutex, exported, call, service, status, wake, loop, peers, received>>

Cookies == 1 .. CookieSpace - 1
Ops == {"inhibit", "unInhibit", "portal", "close", "activity"}

NoCall == [at |-> "free", op |-> "activity", peer |-> None, path |-> None,
           cookie |-> 0, idle |-> FALSE]

-----------------------------------------------------------------------------
(* The ledger.                                                               *)

RequestCount(l) == Cardinality(DOMAIN l.direct) + Cardinality(DOMAIN l.portal)

ExternalCount(l) ==
  Cardinality(DOMAIN l.direct) + Cardinality({h \in DOMAIN l.portal : l.portal[h].idle})

FullOfDirect(l) == Cardinality(DOMAIN l.direct) >= MaxRequests  \* mutant
Full(l) == RequestCount(l) >= MaxRequests

Without(f, S) == [x \in DOMAIN f \ S |-> f[x]]
With(f, x, y) == [z \in DOMAIN f \cup {x} |-> IF z = x THEN y ELSE f[z]]

NextCookie(l) ==
  LET ahead(i) == (l.next + i) % CookieSpace
      free(i) == ahead(i) # 0 /\ ahead(i) \notin DOMAIN l.direct
      first == CHOOSE i \in 1 .. CookieSpace : free(i) /\ \A j \in 1 .. i - 1 : ~free(j)
  IN ahead(first)

AcquireDirect(l, peer, cookie) ==
  [l EXCEPT !.next = cookie, !.direct = With(@, cookie, peer)]

OwnsDirectAny(l, peer, cookie) == cookie \in DOMAIN l.direct  \* mutant
OwnsDirect(l, peer, cookie) == cookie \in DOMAIN l.direct /\ l.direct[cookie] = peer

Theirs(l, peer) == {h \in DOMAIN l.portal : l.portal[h].peer = peer}

Releasing(l, peer) ==
  [l EXCEPT !.direct = Without(@, {k \in DOMAIN @ : @[k] = peer}),
            !.portal = Without(@, Theirs(l, peer))]

-----------------------------------------------------------------------------
(* The mutex, the count and the wake.                                        *)

\* The new ledger and its count, with the mutex kept until the loop is woken.
Publishes(who, l) ==
  /\ mutex = None
  /\ ledger' = l
  /\ status' = [status EXCEPT !.count = ExternalCount(l)]
  /\ mutex' = who

Leaves == UNCHANGED <<ledger, status, mutex>>

WakesLazily ==  \* mutant: the callback under way will see it
  wake' = (wake \/ loop.at = "idle")

\* try_send: a full channel keeps the message it has.
Wakes == wake' = TRUE

WakeCompositor ==
  /\ mutex # None
  /\ Wakes
  /\ mutex' = None
  /\ UNCHANGED <<ledger, exported, call, service, status, loop, peers, received>>

-----------------------------------------------------------------------------
(* Method calls.                                                             *)

At(c, where, op) == call[c].at = where /\ call[c].op = op /\ mutex # c
Goes(c, where) == call' = [call EXCEPT ![c].at = where]
Ends(c) == call' = [call EXCEPT ![c] = NoCall]

Settled(path) == path \notin service /\ \A c \in Slots : call[c].path # path

\* What the portal's handles promise: a handle names one request, and is not
\* used again while anything of that request is left.
Fresh(path) == Settled(path) /\ path \notin exported \cup DOMAIN ledger.portal

Received(c, request) ==
  /\ call[c].at = "free"
  /\ received < MaxCalls
  /\ request.peer \in peers.here
  /\ request.op = "portal" => Fresh(request.path)
  /\ request.op = "unInhibit" => \E p \in Peers : request.cookie \in peers.holds[p]
  /\ call' = [call EXCEPT ![c] = request]
  /\ received' = received + 1
  /\ peers' = IF request.op = "unInhibit"
              THEN [peers EXCEPT !.holds[request.peer] = @ \ {request.cookie}] ELSE peers
  /\ UNCHANGED <<ledger, mutex, exported, service, status, wake, loop>>

Inhibit(c) ==
  /\ At(c, "received", "inhibit") /\ mutex = None
  /\ LET peer == call[c].peer
         cookie == NextCookie(ledger)
     IN IF Full(ledger) THEN Leaves /\ UNCHANGED peers
        ELSE /\ Publishes(c, AcquireDirect(ledger, peer, cookie))
             /\ peers' = IF peer \in peers.here
                         THEN [peers EXCEPT !.holds[peer] = @ \cup {cookie}] ELSE peers
  /\ Ends(c)
  /\ UNCHANGED <<exported, service, wake, loop, received>>

UnInhibit(c) ==
  /\ At(c, "received", "unInhibit") /\ mutex = None
  /\ IF OwnsDirect(ledger, call[c].peer, call[c].cookie)
     THEN Publishes(c, [ledger EXCEPT !.direct = Without(@, {call[c].cookie})])
     ELSE Leaves
  /\ peers' = [peers EXCEPT !.holds[call[c].peer] = @ \ {call[c].cookie}]
  /\ Ends(c)
  /\ UNCHANGED <<exported, service, wake, loop, received>>

\* PortalInhibit::inhibit up to its await.
Reserve(c) ==
  /\ At(c, "received", "portal") /\ mutex = None
  /\ LET path == call[c].path
         entry == [peer |-> call[c].peer, idle |-> call[c].idle]
     IN IF Full(ledger) \/ path \in DOMAIN ledger.portal
        THEN Leaves /\ Ends(c)
        ELSE /\ Publishes(c, [ledger EXCEPT !.portal = With(@, path, entry)])
             /\ Goes(c, "exporting")
  /\ UNCHANGED <<exported, service, wake, loop, peers, received>>

\* The object server takes the object, or does not.
Export(c) ==
  /\ At(c, "exporting", "portal")
  /\ \/ /\ call[c].path \notin exported
        /\ exported' = exported \cup {call[c].path}
        /\ Goes(c, "checking")
     \/ /\ UNCHANGED exported
        /\ Goes(c, "undoing")
  /\ UNCHANGED <<ledger, mutex, service, status, wake, loop, peers, received>>

RollBackQuietly(c) ==  \* mutant: the count is not published
  /\ At(c, "undoing", "portal") /\ mutex = None
  /\ ledger' = [ledger EXCEPT !.portal = Without(@, {call[c].path})]
  /\ Ends(c)
  /\ UNCHANGED <<mutex, status, exported, service, wake, loop, peers, received>>

RollBack(c) ==
  /\ At(c, "undoing", "portal") /\ mutex = None
  /\ IF call[c].path \in DOMAIN ledger.portal
     THEN Publishes(c, [ledger EXCEPT !.portal = Without(@, {call[c].path})])
     ELSE Leaves
  /\ Ends(c)
  /\ UNCHANGED <<exported, service, wake, loop, peers, received>>

CheckTrusting(c) ==  \* mutant: the reservation is taken to be still there
  /\ At(c, "checking", "portal") /\ mutex = None
  /\ Ends(c)
  /\ UNCHANGED <<ledger, mutex, exported, service, status, wake, loop, peers, received>>

\* After the await: a reservation that is gone takes its object with it.
Check(c) ==
  /\ At(c, "checking", "portal") /\ mutex = None
  /\ IF call[c].path \in DOMAIN ledger.portal THEN Ends(c) ELSE Goes(c, "removing")
  /\ UNCHANGED <<ledger, mutex, exported, service, status, wake, loop, peers, received>>

\* PortalRequest::close: an unknown path is closed already.
Close(c) ==
  /\ At(c, "received", "close") /\ mutex = None
  /\ LET path == call[c].path
         reserved == path \in DOMAIN ledger.portal
     IN IF path \notin exported \/ (reserved /\ path \notin Theirs(ledger, call[c].peer))
        THEN Leaves /\ Ends(c)
        ELSE /\ Publishes(c, [ledger EXCEPT !.portal = Without(@, {path})])
             /\ Goes(c, "removing")
  /\ UNCHANGED <<exported, service, wake, loop, peers, received>>

\* The object is taken down by the call that made it or by the task of a close.
RemoveObject(c) ==
  /\ call[c].at = "removing" /\ mutex # c
  /\ exported' = exported \ {call[c].path}
  /\ Ends(c)
  /\ UNCHANGED <<ledger, mutex, service, status, wake, loop, peers, received>>

\* SimulateUserActivity: a flag, then a wake, with no mutex.
RequestActivity(c) ==
  /\ At(c, "received", "activity")
  /\ status' = [status EXCEPT !.activity = TRUE]
  /\ Goes(c, "waking")
  /\ UNCHANGED <<ledger, mutex, exported, service, wake, loop, peers, received>>

WakeForActivity(c) ==
  /\ At(c, "waking", "activity")
  /\ Wakes
  /\ Ends(c)
  /\ UNCHANGED <<ledger, mutex, exported, service, status, loop, peers, received>>

Handles(c) ==
  \/ Inhibit(c) \/ UnInhibit(c)
  \/ Reserve(c) \/ Export(c) \/ RollBack(c) \/ Check(c)
  \/ Close(c) \/ RemoveObject(c)
  \/ RequestActivity(c) \/ WakeForActivity(c)

-----------------------------------------------------------------------------
(* Peers that leave, and the service thread that learns of it.               *)

Vanishes(p) ==
  /\ p \in peers.here
  /\ peers' = [peers EXCEPT !.here = @ \ {p}, !.unread = @ \cup {p}, !.holds[p] = {}]
  /\ UNCHANGED <<ledger, mutex, exported, call, service, status, wake, loop, received>>

ReleasePeer(p) ==
  /\ p \in peers.unread /\ service = {} /\ mutex = None
  /\ LET rest == Releasing(ledger, p)
     IN IF rest = ledger THEN Leaves ELSE Publishes(Service, rest)
  /\ service' = Theirs(ledger, p)
  /\ peers' = [peers EXCEPT !.unread = @ \ {p}]
  /\ UNCHANGED <<exported, call, wake, loop, received>>

RemovePath(path) ==
  /\ path \in service /\ mutex # Service
  /\ exported' = exported \ {path}
  /\ service' = service \ {path}
  /\ UNCHANGED <<ledger, mutex, call, status, wake, loop, peers, received>>

\* The bus itself goes: every peer with it, and no departure is announced.
BusDies ==
  /\ peers.bus /\ service = {} /\ mutex = None
  /\ LET rest == [ledger EXCEPT !.direct = Without(@, DOMAIN @),
                                !.portal = Without(@, DOMAIN @)]
     IN IF rest = ledger THEN Leaves ELSE Publishes(Service, rest)
  /\ peers' = [bus |-> FALSE, here |-> {}, unread |-> {}, holds |-> [p \in Peers |-> {}]]
  /\ UNCHANGED <<exported, call, service, wake, loop, received>>

-----------------------------------------------------------------------------
(* The compositor's loop.                                                    *)

Receives ==
  /\ loop.at = "idle" /\ wake
  /\ wake' = FALSE
  /\ loop' = [loop EXCEPT !.at = "loading"]
  /\ UNCHANGED <<ledger, mutex, exported, call, service, status, peers, received>>

LoadsCleanly(count) == [loop EXCEPT !.at = "taking", !.external = count]  \* mutant

SetExternalInhibitors(count) ==
  [loop EXCEPT !.at = "taking", !.external = count,
               !.dirty = @ \/ loop.external # count]

Loads ==
  /\ loop.at = "loading"
  /\ loop' = SetExternalInhibitors(status.count)
  /\ UNCHANGED <<ledger, mutex, exported, call, service, status, wake, peers, received>>

TakesActivity ==
  /\ loop.at = "taking"
  /\ status' = [status EXCEPT !.activity = FALSE]
  /\ loop' = [loop EXCEPT !.at = "idle"]
  /\ UNCHANGED <<ledger, mutex, exported, call, service, wake, peers, received>>

\* The lock domain is entered or left; either way the policy is reconciled at
\* the end of the pass.  A surface of a client that inhibits, or a window whose
\* rule does, comes to the policy by the same flag and is left out.
LockChanges ==
  /\ loop.at = "idle"
  /\ loop' = [loop EXCEPT !.locked = ~@, !.dirty = TRUE]
  /\ UNCHANGED <<ledger, mutex, exported, call, service, status, wake, peers, received>>

Refresh ==
  /\ loop.at = "idle" /\ loop.dirty
  /\ loop' = [loop EXCEPT !.dirty = FALSE, !.inhibited = ~loop.locked /\ loop.external > 0]
  /\ UNCHANGED <<ledger, mutex, exported, call, service, status, wake, peers, received>>

-----------------------------------------------------------------------------
Init ==
  /\ ledger = [next |-> 0, direct |-> [k \in {} |-> None], portal |-> [h \in {} |-> None]]
  /\ mutex = None /\ exported = {} /\ service = {} /\ wake = FALSE
  /\ call = [c \in Slots |-> NoCall]
  /\ status = [count |-> 0, activity |-> FALSE]
  /\ loop = [at |-> "idle", external |-> 0, dirty |-> TRUE,
             locked |-> FALSE, inhibited |-> FALSE]
  /\ peers = [bus |-> TRUE, here |-> Peers, unread |-> {}, holds |-> [p \in Peers |-> {}]]
  /\ received = 0

Request(op, p) == [NoCall EXCEPT !.at = "received", !.op = op, !.peer = p]

Calls(c, p) ==
  \/ \E op \in {"inhibit", "activity"} : Received(c, Request(op, p))
  \/ \E k \in Cookies : Received(c, [Request("unInhibit", p) EXCEPT !.cookie = k])
  \/ \E h \in Paths, i \in BOOLEAN :
       Received(c, [Request("portal", p) EXCEPT !.path = h, !.idle = i])
  \/ \E h \in Paths : Received(c, [Request("close", p) EXCEPT !.path = h])

Bus ==
  \/ WakeCompositor
  \/ \E c \in Slots : Handles(c)
  \/ \E p \in Peers : ReleasePeer(p)
  \/ \E h \in Paths : RemovePath(h)

Callback == Receives \/ Loads \/ TakesActivity

Next ==
  \/ Bus \/ Callback \/ Refresh \/ LockChanges \/ BusDies
  \/ \E c \in Slots, p \in Peers : Calls(c, p)
  \/ \E p \in Peers : Vanishes(p)

Spec == Init /\ [][Next]_vars

-----------------------------------------------------------------------------
(* Properties.                                                               *)

\* Every variable has its type, and the requests of both interfaces together
\* never exceed the limit, reservations of requests still being made included
\* (Ledger::acquire_direct, Ledger::reserve_portal).
TypeOK ==
  /\ DOMAIN ledger = {"next", "direct", "portal"} /\ ledger.next \in 0 .. CookieSpace - 1
  /\ DOMAIN ledger.direct \subseteq Cookies /\ DOMAIN ledger.portal \subseteq Paths
  /\ \A k \in DOMAIN ledger.direct : ledger.direct[k] \in Peers
  /\ \A h \in DOMAIN ledger.portal : ledger.portal[h] \in [peer : Peers, idle : BOOLEAN]
  /\ RequestCount(ledger) <= MaxRequests
  /\ mutex \in Slots \cup {Service, None}
  /\ exported \subseteq Paths /\ service \subseteq Paths
  /\ call \in [Slots -> {NoCall} \cup
       [at : {"received", "exporting", "checking", "undoing", "removing", "waking"},
        op : Ops, peer : Peers, path : Paths \cup {None},
        cookie : 0 .. CookieSpace - 1, idle : BOOLEAN]]
  /\ status \in [count : 0 .. MaxRequests, activity : BOOLEAN]
  /\ wake \in BOOLEAN
  /\ loop \in [at : {"idle", "loading", "taking"}, external : 0 .. MaxRequests,
               dirty : BOOLEAN, locked : BOOLEAN, inhibited : BOOLEAN]
  /\ peers \in [bus : BOOLEAN, here : SUBSET Peers, unread : SUBSET Peers,
                holds : [Peers -> SUBSET Cookies]]
  /\ received \in 0 .. MaxCalls

\* The count the loop will read is the ledger's whenever nobody is at work on
\* the ledger: no way of giving up a request, a failed export and a lost peer
\* included, forgets to publish (Shared::publish_count and its callers).
CountIsTheLedgers == mutex = None => status.count = ExternalCount(ledger)

\* A wake dropped because the channel is full loses nothing: whatever the loop
\* has not read yet, a count or a request for activity, a message is queued for
\* it, a callback that has yet to load it is running, or whoever stored it is
\* about to wake (Shared::wake_compositor, the callback of init).
NoLostWake ==
  LET coming == wake \/ mutex # None \/ loop.at = "loading"
      knocking == \E c \in Slots : call[c].at = "waking"
  IN /\ status.count # loop.external => coming
     /\ status.activity => coming \/ knocking \/ loop.at = "taking"

\* A cookie handed to a caller that is still on the bus stays its own until it
\* gives it up: no other caller, no cleanup of another peer and no wrap of the
\* counter takes it (Ledger::acquire_direct, release_direct, release_peer).
CookieIsHeld ==
  \A p \in peers.here : \A k \in peers.holds[p] :
    k \in DOMAIN ledger.direct /\ ledger.direct[k] = p

\* Once nothing about a handle is under way, its object is exported exactly
\* when its reservation is held: no object is stranded, and no inhibition is
\* left that nobody can close, whichever await of the request the loss of its
\* peer or its closing fell on (PortalInhibit::inhibit, PortalRequest::close,
\* the loop of serve).
PortalAgrees ==
  \A h \in Paths : peers.bus /\ Settled(h) => (h \in exported <=> h \in DOMAIN ledger.portal)

\* A pass that leaves nothing to reconcile leaves the notifier inhibited exactly
\* when the session is unlocked and something asks for it: no change of the
\* count reaches Idle without marking the policy (set_external_inhibitors,
\* idle::refresh).
PolicyFollows == ~loop.dirty => loop.inhibited = (~loop.locked /\ loop.external > 0)
=============================================================================
