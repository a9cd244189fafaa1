------------------------- MODULE DockTile_proofs -------------------------
(***************************************************************************)
(* Theorems about DockTile, for any processes, deadlines, bounds and       *)
(* restart policy.  Everything that happens to a tile is a composition of  *)
(* a few functions on its record, and most of them may lose the connection *)
(* on the way.  So the first part says of each function that it leaves the *)
(* tile as it was but for what is queued, or loses it; the second carries  *)
(* the invariant over the steps.                                           *)
(***************************************************************************)
EXTENDS DockTile, LoopTheorems, SequenceTheorems

\* The type of a tile, with the bounds of its queue and its socket.
Typed(t) ==
  /\ t \in Tile
  /\ Len(t.conn.queue) <= Capacity /\ Len(t.conn.wire) <= Room

\* A reaped process has exited; what runs unasked and was launched by this shell
\* is the child.
Attended(t) ==
  \A p \in Procs :
    /\ t.procs[p].reaped => t.procs[p].at = "exited"
    /\ Running(t.procs[p]) /\ ~t.procs[p].asked /\ ~t.procs[p].inherited => p = t.child

Base(t) == Typed(t) /\ Attended(t)

\* u is t but for its process, what is queued and sent, and the panel.
Stands(t, u) ==
  /\ u.mode = t.mode /\ u.reason = t.reason /\ u.timer = t.timer /\ u.token = t.token
  /\ u.failures = t.failures /\ u.attempts = t.attempts
  /\ u.passing = t.passing /\ u.forks = t.forks
  /\ u.conn.peer = t.conn.peer /\ u.conn.box = t.conn.box /\ u.conn.eof = t.conn.eof
  /\ u.conn.unanswered = t.conn.unanswered /\ u.conn.quiet = t.conn.quiet
  /\ u.conn.mute = t.conn.mute
  /\ ~Connected(t) => u.conn = t.conn
Kept(t, u) == Stands(t, u) /\ u.child = t.child /\ u.procs = t.procs

\* u is what a failure leaves of t.
Lost(t, u) ==
  /\ u.conn = NoConnection /\ u.child = None
  /\ u.token = t.token /\ u.passing = t.passing /\ u.forks = t.forks
  /\ \/ u.mode = "stopped" /\ u.failures \in {t.failures, Append(Recent(t.failures), 0)}
     \/ /\ u.mode = "waiting" /\ u.timer > 0
        /\ u.failures = Append(Recent(t.failures), 0) /\ Len(u.failures) < MaxFailures

LEMMA NoConnectionType ==
  NoConnection \in Connection /\ Len(NoConnection.queue) = 0 /\ Len(NoConnection.wire) = 0
  BY DEF NoConnection, Connection, ProcOrNone

LEMMA RecentType ==
  ASSUME NEW s \in Seq(Nat)
  PROVE  Recent(s) \in Seq(Nat)
  BY KeepElements DEF Recent

LEMMA AskToLeaveIsBase ==
  ASSUME NEW t, Base(t)
  PROVE  LET u == AskToLeave(t)
         IN  Base(u) /\ Stands(t, u) /\ u.child = None /\ u.conn = t.conn
<1> DEFINE u == AskToLeave(t)
           asked == [t.procs EXCEPT ![t.child].asked = TRUE]
<1>1. CASE t.child = None
  BY <1>1 DEF AskToLeave, Stands
<1>2. CASE t.child # None
  <2>1. t.child \in Procs /\ u = [t EXCEPT !.procs = asked, !.child = None]
    BY <1>2 DEF AskToLeave, Base, Typed, Tile, ProcOrNone
  <2>2. t.procs \in [Procs -> Process] /\ t \in Tile
    BY DEF Base, Typed, Tile
  <2>3. ASSUME NEW p \in Procs
        PROVE  /\ asked[p] \in Process /\ asked[p].at = t.procs[p].at
               /\ asked[p].reaped = t.procs[p].reaped
               /\ asked[p].inherited = t.procs[p].inherited
               /\ asked[p].asked = (p = t.child \/ t.procs[p].asked)
    <3>1. t.procs[p] \in Process /\ t.procs[t.child] \in Process
      BY <2>1, <2>2
    <3>2. asked[p] = IF p = t.child THEN [t.procs[p] EXCEPT !.asked = TRUE] ELSE t.procs[p]
      BY <2>1, <2>2
    <3> HIDE DEF asked
    <3> QED BY <3>1, <3>2 DEF Process
  <2>4. asked \in [Procs -> Process]
    <3>1. DOMAIN asked = Procs /\ asked = [p \in Procs |-> asked[p]]
      BY <2>2
    <3> HIDE DEF asked
    <3> QED BY <2>3, <3>1
  <2> HIDE DEF asked, u
  <2>5. u \in Tile /\ u.procs = asked /\ u.child = None /\ u.conn = t.conn
    BY <2>1, <2>2, <2>4 DEF Tile, ProcOrNone
  <2>6. Attended(u)
    BY <2>3, <2>5 DEF Base, Attended, Running
  <2>7. Stands(t, u)
    BY <2>1, <2>2, <2>5 DEF Tile, Stands
  <2> QED BY <2>5, <2>6, <2>7 DEF Base, Typed, u
<1> QED BY <1>1, <1>2

\* What is left when the process has been let go: nothing that a fate could
\* still change.
Forgotten(t, u) ==
  /\ Base(u) /\ u.conn = NoConnection /\ u.child = None
  /\ u.token = t.token /\ u.passing = t.passing /\ u.forks = t.forks
  /\ u.failures = t.failures /\ u.attempts = t.attempts

LEMMA StoppedIsLost ==
  ASSUME NEW t, NEW u, Forgotten(t, u), NEW reason \in Reasons
  PROVE  Base(Stopped(u, reason)) /\ Lost(t, Stopped(u, reason))
<1> DEFINE v == Stopped(u, reason)
<1>1. u \in Tile /\ v = [u EXCEPT !.mode = "stopped", !.reason = reason, !.timer = 0]
  BY DEF Forgotten, Base, Typed, Stopped
<1> HIDE DEF v
<1>2. /\ v \in Tile /\ v.conn = u.conn /\ v.child = u.child /\ v.procs = u.procs /\ v.mode = "stopped"
      /\ v.token = u.token /\ v.passing = u.passing /\ v.forks = u.forks /\ v.failures = u.failures
  BY <1>1 DEF Tile, Modes
<1> QED BY <1>2 DEF v, Forgotten, Lost, Base, Typed, Attended

LEMMA FailedIsLost ==
  ASSUME NEW t, NEW u, Forgotten(t, u), NEW stable
  PROVE  Base(Failed(u, stable)) /\ Lost(t, Failed(u, stable))
<1> DEFINE failures == Append(Recent(u.failures), 0)
           attempts == IF stable THEN 0 ELSE u.attempts
           step == Least(attempts + 1, Len(Backoff))
           v == Failed(u, stable)
<1>1. u \in Tile /\ u.failures = t.failures
  BY DEF Forgotten, Base, Typed
<1>2. failures \in Seq(Nat)
  BY <1>1, RecentType DEF Tile
<1>3. step \in Nat /\ step \in DOMAIN Backoff /\ Backoff[step] \in Nat \ {0}
  BY <1>1, DockAssumption DEF Tile, Least
<1> HIDE DEF failures, step
<1>4. CASE Len(failures) >= MaxFailures
  <2> DEFINE w == [u EXCEPT !.failures = failures]
  <2>1. v = [w EXCEPT !.mode = "stopped", !.reason = "crashLooped", !.timer = 0]
    BY <1>4 DEF Failed, Stopped, failures
  <2>2. w \in Tile /\ w.conn = u.conn /\ w.child = u.child /\ w.procs = u.procs
        /\ w.token = u.token /\ w.passing = u.passing /\ w.forks = u.forks /\ w.failures = failures
    BY <1>1, <1>2 DEF Tile
  <2> HIDE DEF w, v
  <2>3. v \in Tile /\ v.conn = u.conn /\ v.child = u.child /\ v.procs = u.procs /\ v.mode = "stopped"
        /\ v.token = u.token /\ v.passing = u.passing /\ v.forks = u.forks /\ v.failures = failures
    BY <2>1, <2>2 DEF Tile, Modes, Reasons
  <2> QED BY <1>1, <2>3 DEF v, Forgotten, Lost, Base, Typed, Attended, failures
<1>5. CASE ~(Len(failures) >= MaxFailures)
  <2> DEFINE w == [u EXCEPT !.failures = failures, !.attempts = step]
  <2>1. v = [w EXCEPT !.mode = "waiting", !.reason = "none", !.timer = Backoff[step]]
    BY <1>5 DEF Failed, Waiting, failures, step
  <2>2. w \in Tile /\ w.conn = u.conn /\ w.child = u.child /\ w.procs = u.procs
        /\ w.token = u.token /\ w.passing = u.passing /\ w.forks = u.forks /\ w.failures = failures
    BY <1>1, <1>2, <1>3 DEF Tile
  <2> HIDE DEF w, v
  <2> DEFINE ticks == Backoff[step]
  <2> HIDE DEF ticks
  <2>3. v \in Tile /\ v.conn = u.conn /\ v.child = u.child /\ v.procs = u.procs /\ v.mode = "waiting"
        /\ v.token = u.token /\ v.passing = u.passing /\ v.forks = u.forks /\ v.failures = failures
        /\ v.timer > 0
    <3>1. ticks \in Nat /\ ticks > 0 /\ v = [w EXCEPT !.mode = "waiting", !.reason = "none", !.timer = ticks]
      BY <1>3, <2>1 DEF ticks
    <3> QED BY <2>2, <3>1 DEF Tile, Modes, Reasons
  <2>4. Len(failures) < MaxFailures
    BY <1>2, <1>5, DockAssumption
  <2> QED BY <1>1, <2>3, <2>4 DEF v, Forgotten, Lost, Base, Typed, Attended, failures
<1> QED BY <1>4, <1>5

LEMMA DisconnectedIsLost ==
  ASSUME NEW t, Base(t)
  PROVE  Base(Disconnected(t)) /\ Lost(t, Disconnected(t))
<1> DEFINE stable == Connected(t) /\ t.conn.age >= CrashWindow
           reported == t.child # None /\ t.procs[t.child].reaped
           clean == reported /\ t.procs[t.child].clean
           alone == [t EXCEPT !.conn = NoConnection, !.panel = FALSE]
           left == IF reported THEN [alone EXCEPT !.child = None] ELSE AskToLeave(alone)
<1>1. t \in Tile
  BY DEF Base, Typed
<1>2. /\ alone \in Tile /\ alone.conn = NoConnection /\ alone.child = t.child /\ alone.procs = t.procs
      /\ alone.token = t.token /\ alone.passing = t.passing /\ alone.forks = t.forks
      /\ alone.failures = t.failures /\ alone.attempts = t.attempts
  BY <1>1, NoConnectionType DEF Tile
<1>3. Base(alone)
  BY <1>2, NoConnectionType, DockAssumption, SMTT(60) DEF Base, Typed, Attended
<1>4. Forgotten(t, left)
  <2> HIDE DEF alone
  <2>1. CASE reported
    <3>1. left = [alone EXCEPT !.child = None] /\ t.child \in Procs
      BY <1>1, <2>1 DEF Tile, ProcOrNone
    <3> HIDE DEF left
    <3>2. /\ left \in Tile /\ left.conn = NoConnection /\ left.child = None /\ left.procs = t.procs
          /\ left.token = t.token /\ left.passing = t.passing /\ left.forks = t.forks
          /\ left.failures = t.failures /\ left.attempts = t.attempts
      BY <1>2, <3>1 DEF Tile, ProcOrNone
    <3>3. ~Running(t.procs[t.child])
      BY <2>1, <3>1 DEF Base, Attended, Running
    <3>4. Attended(left)
      BY <3>1, <3>2, <3>3 DEF Base, Attended
    <3> QED BY <1>2, <1>3, <3>2, <3>4 DEF Forgotten, Base, Typed
  <2>2. CASE ~reported
    <3>1. left = AskToLeave(alone)
      BY <2>2
    <3>2. Base(left) /\ Stands(alone, left) /\ left.child = None /\ left.conn = alone.conn
      BY <1>3, <3>1, AskToLeaveIsBase
    <3> HIDE DEF left
    <3> QED BY <1>2, <3>2 DEF Stands, Forgotten
  <2> QED BY <2>1, <2>2
<1>5. \/ Disconnected(t) \in {Stopped(left, "policyNever"), Stopped(left, "cleanExit")}
      \/ Disconnected(t) = Failed(left, stable)
  BY DEF Disconnected
<1> HIDE DEF left
<1> QED BY <1>4, <1>5, StoppedIsLost, FailedIsLost DEF Reasons

-----------------------------------------------------------------------------
(***************************************************************************)
(* What is said to the peer.                                               *)
(***************************************************************************)

\* What a function may do to a tile: keep it, or lose it.
Outcome(t, u) ==
  /\ Base(u)
  /\ \/ Kept(t, u)
     \/ Connected(t) /\ Lost(t, u)

LEMMA OutcomesCompose ==
  ASSUME NEW t, NEW u, NEW v, Outcome(t, u), Outcome(u, v)
  PROVE  Outcome(t, v)
<1>1. CASE Kept(t, u) /\ Kept(u, v)
  BY <1>1 DEF Outcome, Kept, Stands, Connected
<1>2. CASE Kept(t, u) /\ Connected(u) /\ Lost(u, v)
  BY <1>2 DEF Outcome, Kept, Stands, Lost, Connected
<1>3. CASE Connected(t) /\ Lost(t, u)
  <2>1. ~Connected(u)
    BY <1>3 DEF Lost, Connected, NoConnection
  <2>2. Kept(u, v)
    BY <2>1 DEF Outcome
  <2> QED BY <1>3, <2>1, <2>2 DEF Outcome, Kept, Stands, Lost
<1> QED BY <1>1, <1>2, <1>3 DEF Outcome

LEMMA KeptIsOutcome ==
  ASSUME NEW t, Base(t)
  PROVE  Outcome(t, t)
<1>1. Kept(t, t)
  BY DEF Kept, Stands
<1> QED BY <1>1 DEF Outcome

\* A connection with other contents.
LEMMA Refilled ==
  ASSUME NEW t, Base(t), Connected(t), NEW conn \in Connection,
         Len(conn.queue) <= Capacity, Len(conn.wire) <= Room,
         conn.peer = t.conn.peer, conn.box = t.conn.box, conn.eof = t.conn.eof,
         conn.unanswered = t.conn.unanswered, conn.quiet = t.conn.quiet,
         conn.mute = t.conn.mute
  PROVE  LET u == [t EXCEPT !.conn = conn] IN Base(u) /\ Kept(t, u)
<1> DEFINE u == [t EXCEPT !.conn = conn]
<1>1. t \in Tile
  BY DEF Base, Typed
<1>2. /\ u \in Tile /\ u.conn = conn /\ u.mode = t.mode /\ u.reason = t.reason /\ u.timer = t.timer
      /\ u.token = t.token /\ u.failures = t.failures /\ u.attempts = t.attempts
      /\ u.passing = t.passing /\ u.forks = t.forks /\ u.child = t.child /\ u.procs = t.procs
  BY <1>1 DEF Tile
<1> HIDE DEF u
<1>3. Base(u) /\ Kept(t, u)
  BY <1>2 DEF Base, Typed, Attended, Kept, Stands, Connected
<1> QED BY <1>3 DEF u

LEMMA EnqueueOutcome ==
  ASSUME NEW t, Base(t), NEW message \in ToPeer
  PROVE  Outcome(t, Enqueue(t, message))
<1> DEFINE q == t.conn.queue
           since == IF t.conn.full = Never THEN 0 ELSE t.conn.full
           longer == Append(q, message)
           shifted == Append(Tail(q), message)
           added == [t.conn EXCEPT !.queue = longer, !.full = Never]
           pushed == [t.conn EXCEPT !.queue = shifted, !.full = since]
<1>1. /\ t \in Tile /\ t.conn \in Connection /\ q \in Seq(ToPeer)
      /\ Len(q) \in Nat /\ Len(q) <= Capacity /\ since \in {Never} \cup Nat
      /\ Len(t.conn.wire) <= Room
  BY DEF Base, Typed, Tile, Connection
<1>2. CASE ~Connected(t)
  BY <1>2, KeptIsOutcome DEF Enqueue
<1>3. CASE Connected(t) /\ Len(q) < Capacity
  <2>1. longer \in Seq(ToPeer) /\ Len(longer) <= Capacity
    BY <1>1, <1>3, DockAssumption
  <2>2. Enqueue(t, message) = [t EXCEPT !.conn = added]
    <3>1. ~(Len(q) >= Capacity)
      BY <1>1, <1>3, DockAssumption
    <3> HIDE DEF q, longer, added
    <3> QED BY <1>3, <3>1 DEF Enqueue, q, longer, added
  <2> HIDE DEF longer
  <2>3. /\ added \in Connection /\ added.queue = longer /\ added.wire = t.conn.wire
        /\ added.peer = t.conn.peer /\ added.box = t.conn.box /\ added.eof = t.conn.eof
        /\ added.unanswered = t.conn.unanswered /\ added.quiet = t.conn.quiet
        /\ added.mute = t.conn.mute
    BY <1>1, <2>1 DEF Connection
  <2> HIDE DEF added
  <2> QED BY <1>1, <1>3, <2>1, <2>2, <2>3, Refilled DEF Outcome
<1>4. CASE Connected(t) /\ Len(q) >= Capacity
  <2>1. shifted \in Seq(ToPeer) /\ Len(shifted) <= Capacity
    <3>1. Len(q) # 0 /\ q # <<>>
      BY <1>1, <1>4, DockAssumption
    <3>2. Tail(q) \in Seq(ToPeer) /\ Len(Tail(q)) = Len(q) - 1
      BY <1>1, <3>1
    <3> QED BY <1>1, <3>1, <3>2, DockAssumption
  <2>2. Enqueue(t, message) \in {[t EXCEPT !.conn = pushed], Disconnected([t EXCEPT !.conn = pushed])}
    <3>1. ~(Len(q) < Capacity)
      BY <1>1, <1>4, DockAssumption
    <3>2. CASE since < Overflow
      BY <1>4, <3>1, <3>2 DEF Enqueue
    <3>3. CASE ~(since < Overflow)
      BY <1>4, <3>1, <3>3 DEF Enqueue
    <3> QED BY <3>2, <3>3
  <2> HIDE DEF shifted, since
  <2>3. /\ pushed \in Connection /\ pushed.queue = shifted /\ pushed.wire = t.conn.wire
        /\ pushed.peer = t.conn.peer /\ pushed.box = t.conn.box /\ pushed.eof = t.conn.eof
        /\ pushed.unanswered = t.conn.unanswered /\ pushed.quiet = t.conn.quiet
        /\ pushed.mute = t.conn.mute
    BY <1>1, <2>1 DEF Connection
  <2> HIDE DEF pushed
  <2> DEFINE u == [t EXCEPT !.conn = pushed]
  <2>4. Base(u) /\ Kept(t, u)
    BY <1>1, <1>4, <2>1, <2>3, Refilled
  <2> HIDE DEF u
  <2>5. Connected(u)
    BY <1>4, <2>4 DEF Kept, Stands, Connected
  <2>6. Outcome(u, Disconnected(u))
    BY <2>4, <2>5, DisconnectedIsLost DEF Outcome
  <2>7. Outcome(t, u)
    BY <2>4 DEF Outcome
  <2>8. Enqueue(t, message) \in {u, Disconnected(u)}
    BY <2>2 DEF u
  <2> QED BY <2>6, <2>7, <2>8, OutcomesCompose
<1>5. Len(q) < Capacity \/ Len(q) >= Capacity
  BY <1>1, DockAssumption
<1> HIDE DEF q
<1> QED BY <1>2, <1>3, <1>4, <1>5

LEMMA FlushOutcome ==
  ASSUME NEW t, Base(t)
  PROVE  Outcome(t, Flush(t))
<1> DEFINE q == t.conn.queue
           n == Least(Len(q), Room - Len(t.conn.wire))
           rest == SubSeq(q, n + 1, Len(q))
           head == SubSeq(q, 1, n)
           sent == t.conn.wire \o head
           full == IF rest = <<>> THEN Never ELSE t.conn.full
           flushed == [t.conn EXCEPT !.queue = rest, !.wire = sent, !.full = full]
<1>1. /\ t \in Tile /\ t.conn \in Connection /\ q \in Seq(ToPeer)
      /\ Len(q) \in Nat /\ Len(q) <= Capacity /\ t.conn.full \in {Never} \cup Nat
      /\ t.conn.wire \in Seq(ToPeer) /\ Len(t.conn.wire) \in Nat /\ Len(t.conn.wire) <= Room
  BY DEF Base, Typed, Tile, Connection
<1>2. CASE ~Connected(t) \/ q = <<>>
  <2>1. Flush(t) = t
    BY <1>2 DEF Flush
  <2> QED BY <2>1, KeptIsOutcome
<1>3. CASE Connected(t) /\ q # <<>> /\ t.conn.eof
  <2>1. Flush(t) = Disconnected(t)
    BY <1>3 DEF Flush
  <2> QED BY <1>3, <2>1, DisconnectedIsLost DEF Outcome
<1>4. CASE Connected(t) /\ q # <<>> /\ ~t.conn.eof
  <2>1. Flush(t) = [t EXCEPT !.conn = flushed]
    BY <1>4 DEF Flush
  <2>2. n \in Nat /\ n <= Len(q) /\ n <= Room - Len(t.conn.wire)
    <3> DEFINE room == Room - Len(t.conn.wire)
    <3>1. room \in Nat
      BY <1>1, DockAssumption
    <3> HIDE DEF room, q
    <3>2. Least(Len(q), room) \in Nat /\ Least(Len(q), room) <= Len(q) /\ Least(Len(q), room) <= room
      BY <1>1, <3>1 DEF Least
    <3> QED BY <3>2 DEF room, q
  <2> HIDE DEF q, n
  <2>3. head \in Seq(ToPeer) /\ Len(head) = n
    <3>1. \A i \in 1 .. n : q[i] \in ToPeer
      BY <1>1, <2>2
    <3> QED BY <1>1, <2>2, <3>1, SubSeqProperties
  <2>4. rest \in Seq(ToPeer) /\ Len(rest) <= Capacity
    <3>1. \A i \in n + 1 .. Len(q) : q[i] \in ToPeer
      BY <1>1, <2>2
    <3>2. rest \in Seq(ToPeer) /\ Len(rest) = IF n + 1 <= Len(q) THEN Len(q) - n ELSE 0
      BY <1>1, <2>2, <3>1, SubSeqProperties
    <3> QED BY <1>1, <2>2, <3>2, DockAssumption
  <2> HIDE DEF head, rest
  <2>5. sent \in Seq(ToPeer) /\ Len(sent) <= Room
    <3>1. sent \in Seq(ToPeer) /\ Len(sent) = Len(t.conn.wire) + Len(head)
      BY <1>1, <2>3, ConcatProperties
    <3> HIDE DEF sent
    <3> QED BY <1>1, <2>2, <2>3, <3>1, DockAssumption
  <2>6. full \in {Never} \cup Nat
    BY <1>1
  <2> HIDE DEF sent, full
  <2>7. /\ flushed \in Connection /\ flushed.queue = rest /\ flushed.wire = sent
        /\ flushed.peer = t.conn.peer /\ flushed.box = t.conn.box /\ flushed.eof = t.conn.eof
        /\ flushed.unanswered = t.conn.unanswered /\ flushed.quiet = t.conn.quiet
        /\ flushed.mute = t.conn.mute
    BY <1>1, <2>4, <2>5, <2>6 DEF Connection
  <2> HIDE DEF flushed
  <2> QED BY <1>1, <1>4, <2>1, <2>4, <2>5, <2>7, Refilled DEF Outcome
<1> HIDE DEF q
<1> QED BY <1>2, <1>3, <1>4

\* The panel comes down and the peer is told; its state is no part of the rest.
LEMMA PanelOutcome ==
  ASSUME NEW t, Base(t), NEW panel \in BOOLEAN
  PROVE  Outcome(t, [t EXCEPT !.panel = panel])
<1> DEFINE u == [t EXCEPT !.panel = panel]
<1>1. t \in Tile
  BY DEF Base, Typed
<1>2. /\ u \in Tile /\ u.conn = t.conn /\ u.mode = t.mode /\ u.reason = t.reason /\ u.timer = t.timer
      /\ u.token = t.token /\ u.failures = t.failures /\ u.attempts = t.attempts
      /\ u.passing = t.passing /\ u.forks = t.forks /\ u.child = t.child /\ u.procs = t.procs
  BY <1>1 DEF Tile
<1> HIDE DEF u
<1>3. Outcome(t, u)
  BY <1>2 DEF Outcome, Base, Typed, Attended, Kept, Stands
<1> QED BY <1>3 DEF u

LEMMA ClosePanelOutcome ==
  ASSUME NEW t, Base(t)
  PROVE  Outcome(t, ClosePanel(t))
<1> DEFINE shut == [t EXCEPT !.panel = FALSE]
<1>1. Outcome(t, shut)
  BY PanelOutcome
<1> HIDE DEF shut
<1>2. Outcome(shut, Enqueue(shut, "other"))
  BY <1>1, EnqueueOutcome DEF Outcome, ToPeer
<1>3. Outcome(Enqueue(shut, "other"), Flush(Enqueue(shut, "other")))
  BY <1>2, FlushOutcome DEF Outcome
<1>4. ClosePanel(t) \in {t, Flush(Enqueue(shut, "other"))}
  BY DEF ClosePanel, shut
<1> QED BY <1>1, <1>2, <1>3, <1>4, KeptIsOutcome, OutcomesCompose

LEMMA PushThemeOutcome ==
  ASSUME NEW t, Base(t)
  PROVE  Outcome(t, PushTheme(t))
<1> DEFINE conn == [t.conn EXCEPT !.current = TRUE]
           u == [t EXCEPT !.conn.current = TRUE]
<1>1. t \in Tile /\ t.conn \in Connection
  BY DEF Base, Typed, Tile
<1>2. CASE Connected(t) /\ ~t.conn.current
  <2>1. /\ conn \in Connection /\ conn.queue = t.conn.queue /\ conn.wire = t.conn.wire
        /\ conn.peer = t.conn.peer /\ conn.box = t.conn.box /\ conn.eof = t.conn.eof
        /\ conn.unanswered = t.conn.unanswered /\ conn.quiet = t.conn.quiet
        /\ conn.mute = t.conn.mute
    BY <1>1 DEF Connection
  <2>2. u = [t EXCEPT !.conn = conn]
    BY <1>1 DEF Tile
  <2>3. PushTheme(t) = Enqueue(u, "other")
    BY <1>2 DEF PushTheme
  <2> HIDE DEF conn, u
  <2>4. /\ u \in Tile /\ u.conn = conn /\ u.mode = t.mode /\ u.reason = t.reason /\ u.timer = t.timer
        /\ u.token = t.token /\ u.failures = t.failures /\ u.attempts = t.attempts
        /\ u.passing = t.passing /\ u.forks = t.forks /\ u.child = t.child /\ u.procs = t.procs
    BY <1>1, <2>1, <2>2 DEF Tile
  <2>5. Outcome(t, u)
    BY <1>2, <2>1, <2>4 DEF Outcome, Base, Typed, Attended, Kept, Stands
  <2> QED BY <2>3, <2>5, EnqueueOutcome, OutcomesCompose DEF Outcome, ToPeer
<1>3. CASE ~(Connected(t) /\ ~t.conn.current)
  BY <1>3, KeptIsOutcome DEF PushTheme
<1> QED BY <1>2, <1>3

-----------------------------------------------------------------------------
(***************************************************************************)
(* The launch budget. A crash window sees as many launches as failures, or *)
(* one more while the last launch has not failed; so the bound on failures *)
(* that decides between waiting and giving up bounds the launches.         *)
(***************************************************************************)

\* How many of the ages s are below w.
Within(s, w) == Len(Keep(s, 0 .. w - 1))

\* Every launch but one has failed.
Spent(forks, failures) ==
  /\ Within(forks, CrashWindow) <= MaxFailures
  /\ \A w \in 1 .. CrashWindow : Within(forks, w) <= Within(failures, w) + 1
\* Every launch has, and one more may be made.
Owed(forks, failures) ==
  /\ Len(failures) < MaxFailures
  /\ \A w \in 1 .. CrashWindow : Within(forks, w) <= Within(failures, w)

LEMMA WithinNat ==
  ASSUME NEW s \in Seq(Nat), NEW w
  PROVE  Within(s, w) \in Nat /\ Within(s, w) <= Len(s)
<1>1. Keep(s, 0 .. w - 1) \in Seq(Nat)
  BY KeepElements
<1>2. Within(s, w) \in Nat
  BY <1>1 DEF Within
<1>3. Within(s, w) <= Len(s)
  BY KeepFewer DEF Within
<1> QED BY <1>2, <1>3

\* A new entry counts in every window, and what Recent forgets in none.
LEMMA WithinRecorded ==
  ASSUME NEW s \in Seq(Nat), NEW w \in 1 .. CrashWindow
  PROVE  /\ Append(Recent(s), 0) \in Seq(Nat)
         /\ Within(Recent(s), w) = Within(s, w)
         /\ Within(Append(Recent(s), 0), w) = Within(s, w) + 1
<1> DEFINE S == 0 .. CrashWindow - 1
           T == 0 .. w - 1
           r == Keep(s, S)
<1>1. S \cap T = T /\ 0 \in T
  BY DockAssumption
<1>2. r \in Seq(Nat) /\ 0 \in Nat
  BY KeepElements
<1> HIDE DEF S, T
<1>3. Keep(r, T) = Keep(s, T)
  BY <1>1, KeepKeep
<1>4. Keep(s, T) \in Seq(Nat)
  BY KeepElements
<1> HIDE DEF r
<1>5. Append(r, 0) \in Seq(Nat)
  BY <1>2
<1>6. Keep(Append(r, 0), T) = Append(Keep(r, T), 0)
  <2> DEFINE new == 0
             E == Nat
  <2>1. r \in Seq(E) /\ new \in E /\ new \in T
    BY <1>1, <1>2
  <2> HIDE DEF new, E
  <2>2. Keep(Append(r, new), T) = Append(Keep(r, T), new)
    BY <2>1, KeepAppend
  <2> QED BY <2>2 DEF new
<1>7. Len(Append(Keep(s, T), 0)) = Len(Keep(s, T)) + 1
  BY <1>4
<1> QED BY <1>3, <1>5, <1>6, <1>7 DEF Recent, Within, S, T, r

\* A failure is recorded for the last launch.
LEMMA FailureIsOwed ==
  ASSUME NEW forks \in Seq(Nat), NEW failures \in Seq(Nat), Spent(forks, failures)
  PROVE  LET later == Append(Recent(failures), 0)
         IN  Spent(forks, later) /\ (Len(later) < MaxFailures => Owed(forks, later))
<1> DEFINE later == Append(Recent(failures), 0)
<1>1. ASSUME NEW w \in 1 .. CrashWindow
      PROVE  /\ Within(later, w) = Within(failures, w) + 1
             /\ Within(failures, w) \in Nat /\ Within(forks, w) \in Nat
             /\ Within(forks, w) <= Within(failures, w) + 1
  BY WithinRecorded, WithinNat DEF Spent
<1> HIDE DEF later
<1>2. \A w \in 1 .. CrashWindow :
        Within(forks, w) <= Within(later, w) /\ Within(forks, w) <= Within(later, w) + 1
  BY <1>1
<1> QED BY <1>2 DEF Spent, Owed, later

\* A launch is made when one is owed.
LEMMA LaunchIsSpent ==
  ASSUME NEW forks \in Seq(Nat), NEW failures \in Seq(Nat), Owed(forks, failures)
  PROVE  Spent(Append(Recent(forks), 0), failures)
<1> DEFINE more == Append(Recent(forks), 0)
<1>1. ASSUME NEW w \in 1 .. CrashWindow
      PROVE  /\ Within(more, w) = Within(forks, w) + 1
             /\ Within(failures, w) \in Nat /\ Within(forks, w) \in Nat
             /\ Within(forks, w) <= Within(failures, w) /\ Within(failures, w) < MaxFailures
  <2>1. /\ Within(more, w) = Within(forks, w) + 1
        /\ Within(failures, w) \in Nat /\ Within(forks, w) \in Nat
        /\ Within(failures, w) <= Len(failures)
    BY WithinRecorded, WithinNat
  <2>2. Within(forks, w) <= Within(failures, w) /\ Len(failures) < MaxFailures /\ Len(failures) \in Nat
    BY DEF Owed
  <2> HIDE DEF more
  <2> QED BY <2>1, <2>2, DockAssumption
<1> HIDE DEF more
<1>2. CrashWindow \in 1 .. CrashWindow
  BY DockAssumption
<1>3. \A w \in 1 .. CrashWindow : Within(more, w) <= Within(failures, w) + 1
  BY <1>1
<1>4. Within(more, CrashWindow) <= MaxFailures
  BY <1>1, <1>2, DockAssumption
<1> QED BY <1>3, <1>4 DEF Spent, more

\* A tick later.
LEMMA WithinOlder ==
  ASSUME NEW s \in Seq(Nat), NEW w \in 1 .. CrashWindow
  PROVE  /\ Older(s) \in Seq(Nat) /\ Len(Older(s)) = Len(s)
         /\ Within(Older(s), w) = Within(s, w - 1)
         /\ Within(s, w - 1) <= Within(s, w)
<1>1. Older(s) \in Seq(Nat) /\ Len(Older(s)) = Len(s)
      /\ \A i \in 1 .. Len(s) : Older(s)[i] = Least(s[i] + 1, CrashWindow) /\ s[i] \in Nat
  <2>1. \A i \in 1 .. Len(s) : s[i] \in Nat /\ Least(s[i] + 1, CrashWindow) \in Nat
    BY DockAssumption DEF Least
  <2> DEFINE n == Len(s)
  <2>2. n \in Nat /\ DOMAIN s = 1 .. n
    OBVIOUS
  <2> HIDE DEF n
  <2>3. Older(s) \in [1 .. n -> Nat] /\ \A i \in 1 .. n : Older(s)[i] = Least(s[i] + 1, CrashWindow)
    BY <2>1, <2>2 DEF Older, n
  <2>4. Older(s) \in Seq(Nat) /\ Len(Older(s)) = n
    BY <2>2, <2>3
  <2> QED BY <2>1, <2>3, <2>4 DEF n
<1>2. \A i \in 1 .. Len(s) : Older(s)[i] \in 0 .. w - 1 <=> s[i] \in 0 .. (w - 1) - 1
  BY <1>1, DockAssumption, SMTT(60) DEF Least
<1>3. Within(Older(s), w) = Within(s, w - 1)
  <2> DEFINE E == Nat
             r == Older(s)
             S == 0 .. w - 1
             T == 0 .. (w - 1) - 1
  <2>1. /\ r \in Seq(E) /\ s \in Seq(E) /\ Len(r) = Len(s)
        /\ \A i \in 1 .. Len(r) : r[i] \in S <=> s[i] \in T
    BY <1>1, <1>2
  <2> HIDE DEF E, r, S, T
  <2>2. Len(Keep(r, S)) = Len(Keep(s, T))
    BY ONLY <2>1, KeepAlike
  <2> QED BY <2>2 DEF Within, r, S, T
<1>4. 0 .. (w - 1) - 1 \subseteq 0 .. w - 1
  BY DockAssumption
<1>5. Within(s, w - 1) <= Within(s, w)
  BY <1>4, KeepFewer DEF Within
<1> QED BY <1>1, <1>3, <1>5

LEMMA TickIsSpent ==
  ASSUME NEW forks \in Seq(Nat), NEW failures \in Seq(Nat), Spent(forks, failures)
  PROVE  /\ Older(failures) \in Seq(Nat) /\ Recent(Older(forks)) \in Seq(Nat)
         /\ Spent(Recent(Older(forks)), Older(failures))
         /\ Owed(forks, failures) => Owed(Recent(Older(forks)), Older(failures))
<1> DEFINE more == Recent(Older(forks))
<1>1. CrashWindow \in 1 .. CrashWindow
  BY DockAssumption
<1>2. Older(failures) \in Seq(Nat) /\ Len(Older(failures)) = Len(failures) /\ Older(forks) \in Seq(Nat)
  BY <1>1, WithinOlder
<1>3. more \in Seq(Nat)
  BY <1>2, RecentType
<1>4. ASSUME NEW w \in 1 .. CrashWindow
      PROVE  Within(more, w) = Within(forks, w - 1) /\ Within(Older(failures), w) = Within(failures, w - 1)
             /\ Within(forks, w - 1) <= Within(forks, w)
             /\ Within(forks, w - 1) \in Nat /\ Within(failures, w - 1) \in Nat /\ Within(forks, w) \in Nat
  BY <1>2, WithinOlder, WithinRecorded, WithinNat
<1>5. Within(forks, 0) = 0
  <2>1. 0 .. 0 - 1 = {}
    OBVIOUS
  <2>2. Keep(forks, {}) \in Seq(Nat) /\ Elements(Keep(forks, {})) \subseteq {}
    BY KeepElements
  <2>3. Keep(forks, {}) = <<>>
    <3>1. \A i \in DOMAIN Keep(forks, {}) : Keep(forks, {})[i] \in Elements(Keep(forks, {}))
      BY DEF Elements
    <3> QED BY <2>2, <3>1, SMTT(60)
  <2> QED BY <2>1, <2>3 DEF Within
<1> HIDE DEF more
<1>6. \A w \in 1 .. CrashWindow : w - 1 = 0 \/ w - 1 \in 1 .. CrashWindow
  BY DockAssumption
<1>7. Within(more, CrashWindow) <= MaxFailures
  BY <1>1, <1>4, DockAssumption DEF Spent
<1>8. \A w \in 1 .. CrashWindow : Within(more, w) <= Within(Older(failures), w) + 1
  BY <1>4, <1>5, <1>6 DEF Spent
<1>9. ASSUME Owed(forks, failures)
      PROVE  \A w \in 1 .. CrashWindow : Within(more, w) <= Within(Older(failures), w)
  BY <1>4, <1>5, <1>6, <1>9 DEF Owed
<1> QED BY <1>2, <1>3, <1>7, <1>8, <1>9 DEF Spent, Owed, more

-----------------------------------------------------------------------------
(***************************************************************************)
(* The invariant.                                                          *)
(***************************************************************************)

\* The connection is that of the process the token was last given to, and a tile
\* without one has nothing of it left.
Linked(t) ==
  IF Connected(t) THEN t.mode \in {"starting", "live", "hung"} /\ t.conn.peer = t.token
  ELSE t.conn = NoConnection

Launched(t) == t.child # None => t.child = t.token /\ t.mode \in {"starting", "live", "hung"}

\* The last answer is no older than the pings it has not given.
Heard(t) ==
  /\ t.mode = "live" => Connected(t)
  /\ t.conn.quiet <= PingEvery
  /\ Connected(t) /\ t.mode \in {"starting", "live"} =>
       /\ t.conn.unanswered < MaxUnanswered
       /\ t.conn.mute <= t.conn.unanswered * PingEvery + t.conn.quiet

Budgeted(t) ==
  /\ Spent(t.forks, t.failures)
  /\ t.mode \in {"waiting", "rejoining"} => Owed(t.forks, t.failures)
  /\ t.mode = "off" => t.forks = <<>> /\ t.failures = <<>>

Sound(t) == Base(t) /\ Linked(t) /\ Launched(t) /\ Heard(t) /\ Budgeted(t)

\* u is t in everything the invariant is about.
Alike(t, u) ==
  /\ u.mode = t.mode /\ u.token = t.token /\ u.child = t.child
  /\ u.failures = t.failures /\ u.forks = t.forks
  /\ u.conn.peer = t.conn.peer /\ u.conn.unanswered = t.conn.unanswered
  /\ u.conn.quiet = t.conn.quiet /\ u.conn.mute = t.conn.mute
  /\ ~Connected(t) => u.conn = t.conn

LEMMA AlikeIsSound ==
  ASSUME NEW t, Sound(t), NEW u, Base(u), Alike(t, u)
  PROVE  Sound(u)
<1>1. Linked(u) /\ Launched(u)
  BY DEF Sound, Alike, Linked, Launched, Connected
<1>2. Heard(u) /\ Budgeted(u)
  BY DEF Sound, Alike, Heard, Budgeted, Connected
<1> QED BY <1>1, <1>2 DEF Sound

LEMMA LostIsSound ==
  ASSUME NEW t, Base(t), Spent(t.forks, t.failures), NEW u, Base(u), Lost(t, u)
  PROVE  Sound(u) /\ ~Overdue(u)
<1>1. t.forks \in Seq(Nat) /\ t.failures \in Seq(Nat)
  BY DEF Base, Typed, Tile
<1>2. Spent(u.forks, u.failures) /\ (u.mode = "waiting" => Owed(u.forks, u.failures))
  <2>1. CASE u.failures = t.failures /\ u.mode = "stopped"
    BY <2>1 DEF Lost
  <2>2. CASE u.failures = Append(Recent(t.failures), 0)
    <3>1. Spent(t.forks, u.failures) /\ (Len(u.failures) < MaxFailures => Owed(t.forks, u.failures))
      BY <1>1, <2>2, FailureIsOwed
    <3> QED BY <3>1 DEF Lost
  <2> QED BY <2>1, <2>2 DEF Lost
<1>3. ~Connected(u) /\ u.conn.quiet = 0 /\ u.mode \in {"stopped", "waiting"}
  BY DEF Lost, Connected, NoConnection
<1>4. Linked(u) /\ Launched(u)
  BY <1>3 DEF Lost, Linked, Launched
<1>5. Heard(u) /\ Budgeted(u)
  BY <1>2, <1>3, DockAssumption DEF Heard, Budgeted
<1>6. ~Overdue(u)
  BY <1>3 DEF Lost, Overdue, Due, Late
<1> QED BY <1>4, <1>5, <1>6 DEF Sound

\* No ping is left to be sent.
Pinged(t) == Connected(t) => t.conn.quiet < PingEvery

LEMMA OutcomeIsSound ==
  ASSUME NEW t, Sound(t), NEW u, Outcome(t, u)
  PROVE  Sound(u) /\ u.passing = t.passing /\ (Pinged(t) => Pinged(u))
<1>1. CASE Kept(t, u)
  BY <1>1, AlikeIsSound DEF Outcome, Kept, Stands, Alike, Pinged, Connected
<1>2. CASE Lost(t, u)
  <2>1. Sound(u)
    BY <1>2, LostIsSound DEF Sound, Budgeted, Outcome
  <2> QED BY <1>2, <2>1 DEF Lost, Pinged, Connected, NoConnection
<1> QED BY <1>1, <1>2 DEF Outcome

\* Other processes, or the same otherwise.
LEMMA PeopledIsSound ==
  ASSUME NEW t, Sound(t), NEW p \in Procs, NEW process \in Process,
         process.reaped => process.at = "exited",
         Running(process) /\ ~process.asked /\ ~process.inherited => p = t.child
  PROVE  LET u == [t EXCEPT !.procs[p] = process]
         IN  Sound(u) /\ u.passing = t.passing
             /\ u.conn = t.conn /\ u.mode = t.mode /\ u.token = t.token /\ u.child = t.child
             /\ u.procs[p] = process
<1> DEFINE procs == [t.procs EXCEPT ![p] = process]
           u == [t EXCEPT !.procs = procs]
<1>1. t \in Tile /\ t.procs \in [Procs -> Process]
  BY DEF Sound, Base, Typed, Tile
<1>2. procs \in [Procs -> Process] /\ \A q \in Procs : procs[q] = IF q = p THEN process ELSE t.procs[q]
  BY <1>1
<1> HIDE DEF procs
<1>3. /\ u \in Tile /\ u.conn = t.conn /\ u.mode = t.mode /\ u.token = t.token /\ u.child = t.child
      /\ u.failures = t.failures /\ u.forks = t.forks /\ u.passing = t.passing /\ u.procs = procs
  BY <1>1, <1>2 DEF Tile
<1> HIDE DEF u
<1>4. Attended(u)
  BY <1>2, <1>3 DEF Attended, Sound, Base
<1>5. Base(u) /\ Alike(t, u)
  BY <1>3, <1>4 DEF Base, Typed, Alike, Sound
<1>6. Sound(u)
  BY <1>5, AlikeIsSound
<1> QED BY <1>2, <1>3, <1>6 DEF u, procs

\* Another connection of the same peer.
LEMMA RewiredIsSound ==
  ASSUME NEW t, Sound(t), Connected(t), NEW conn \in Connection,
         Len(conn.queue) <= Capacity, Len(conn.wire) <= Room,
         conn.peer = t.conn.peer, conn.quiet = t.conn.quiet,
         conn.unanswered = t.conn.unanswered, conn.mute = t.conn.mute
  PROVE  LET u == [t EXCEPT !.conn = conn]
         IN  Sound(u) /\ u.passing = t.passing /\ u.conn = conn
             /\ u.mode = t.mode /\ u.child = t.child /\ u.procs = t.procs /\ u.token = t.token
<1> DEFINE u == [t EXCEPT !.conn = conn]
<1>1. t \in Tile
  BY DEF Sound, Base, Typed
<1>2. /\ u \in Tile /\ u.conn = conn /\ u.mode = t.mode /\ u.token = t.token /\ u.child = t.child
      /\ u.failures = t.failures /\ u.forks = t.forks /\ u.passing = t.passing /\ u.procs = t.procs
  BY <1>1 DEF Tile
<1> HIDE DEF u
<1>3. Base(u) /\ Alike(t, u)
  BY <1>2 DEF Base, Typed, Attended, Alike, Sound, Connected
<1>4. Sound(u)
  BY <1>3, AlikeIsSound
<1> QED BY <1>2, <1>4 DEF u

-----------------------------------------------------------------------------
(***************************************************************************)
(* The parts of a servicing pass.                                          *)
(***************************************************************************)

LEMMA PongIsSound ==
  ASSUME NEW t, Sound(t), Connected(t)
  PROVE  Sound(Handled(t, "pong", FALSE)) /\ Handled(t, "pong", FALSE).passing = t.passing
<1> DEFINE conn == [t.conn EXCEPT !.unanswered = 0, !.mute = 0]
           mode == IF t.mode = "hung" THEN "live" ELSE t.mode
           u == [t EXCEPT !.conn = conn, !.mode = mode]
<1>1. t \in Tile /\ t.conn \in Connection
  BY DEF Sound, Base, Typed, Tile
<1>2. Handled(t, "pong", FALSE) = u
  BY <1>1 DEF Handled, Tile
<1>3. /\ conn \in Connection /\ conn.unanswered = 0 /\ conn.mute = 0 /\ conn.peer = t.conn.peer
      /\ conn.quiet = t.conn.quiet /\ conn.queue = t.conn.queue /\ conn.wire = t.conn.wire
  BY <1>1 DEF Connection
<1>4. mode \in {"starting", "live"}
  BY DEF Sound, Linked
<1> HIDE DEF conn, mode
<1>5. /\ u \in Tile /\ u.conn = conn /\ u.mode = mode /\ u.token = t.token /\ u.child = t.child
      /\ u.failures = t.failures /\ u.forks = t.forks /\ u.passing = t.passing /\ u.procs = t.procs
  BY <1>1, <1>3, <1>4 DEF Tile, Modes
<1> HIDE DEF u
<1>6. Base(u) /\ Linked(u) /\ Launched(u)
  BY <1>3, <1>4, <1>5 DEF Sound, Base, Typed, Attended, Linked, Launched, Connected
<1>7. conn.quiet \in Nat
  BY <1>3 DEF Connection
<1>8. Heard(u) /\ Budgeted(u)
  BY <1>3, <1>4, <1>5, <1>7, DockAssumption DEF Sound, Heard, Budgeted, Connected
<1> QED BY <1>2, <1>5, <1>6, <1>8 DEF Sound

LEMMA FrameIsSound ==
  ASSUME NEW t, Sound(t), Connected(t)
  PROVE  Sound(Handled(t, "frame", FALSE)) /\ Handled(t, "frame", FALSE).passing = t.passing
<1> DEFINE u == [t EXCEPT !.mode = "live", !.timer = 0]
<1>1. t \in Tile
  BY DEF Sound, Base, Typed
<1>2. Handled(t, "frame", FALSE) = IF t.mode = "starting" THEN u ELSE t
  BY DEF Handled
<1>3. CASE t.mode = "starting"
  <2>1. /\ u \in Tile /\ u.conn = t.conn /\ u.mode = "live" /\ u.token = t.token /\ u.child = t.child
        /\ u.failures = t.failures /\ u.forks = t.forks /\ u.passing = t.passing /\ u.procs = t.procs
    BY <1>1 DEF Tile, Modes
  <2> HIDE DEF u
  <2>2. Base(u) /\ Linked(u) /\ Launched(u) /\ Heard(u) /\ Budgeted(u)
    BY <1>3, <2>1
    DEF Sound, Base, Typed, Attended, Linked, Launched, Heard, Budgeted, Connected
  <2> QED BY <1>2, <1>3, <2>1, <2>2 DEF Sound
<1> QED BY <1>2, <1>3

LEMMA HandledIsSound ==
  ASSUME NEW t, Sound(t), Connected(t), NEW message \in FromPeer, NEW granted \in BOOLEAN
  PROVE  LET u == Handled(t, message, granted) IN Sound(u) /\ u.passing = t.passing
<1>0. Base(t)
  BY DEF Sound
<1>1. CASE message = "frame"
  <2>1. Handled(t, message, granted) = Handled(t, "frame", FALSE)
    BY <1>1 DEF Handled
  <2> QED BY <2>1, FrameIsSound
<1>2. CASE message = "pong"
  <2>1. Handled(t, message, granted) = Handled(t, "pong", FALSE)
    BY <1>2 DEF Handled
  <2> QED BY <2>1, PongIsSound
<1>3. CASE message = "openPanel"
  <2> DEFINE panel == t.panel \/ granted
             shown == [t EXCEPT !.panel = panel]
             said == Enqueue(shown, "other")
  <2>1. Handled(t, message, granted) = Flush(said)
    BY <1>3 DEF Handled
  <2>2. panel \in BOOLEAN
    OBVIOUS
  <2> HIDE DEF panel
  <2>3. Outcome(t, shown)
    BY <1>0, <2>2, PanelOutcome
  <2> HIDE DEF shown
  <2>4. Outcome(shown, said)
    BY <2>3, EnqueueOutcome DEF Outcome, ToPeer
  <2> HIDE DEF said
  <2>5. Outcome(said, Flush(said))
    BY <2>4, FlushOutcome DEF Outcome
  <2> QED BY <2>1, <2>3, <2>4, <2>5, OutcomesCompose, OutcomeIsSound
<1>4. CASE message = "closePanel"
  <2>1. Handled(t, message, granted) = ClosePanel(t)
    BY <1>4 DEF Handled
  <2> QED BY <1>0, <2>1, ClosePanelOutcome, OutcomeIsSound
<1>5. CASE message = "bad"
  <2>1. Handled(t, message, granted) = Disconnected(t)
    BY <1>5 DEF Handled
  <2> QED BY <1>0, <2>1, DisconnectedIsLost, OutcomeIsSound DEF Outcome
<1> QED BY <1>1, <1>2, <1>3, <1>4, <1>5 DEF FromPeer

LEMMA OneMorePing ==
  ASSUME NEW a \in Nat, NEW b \in Nat
  PROVE  a * b \in Nat /\ (a + 1) * b = a * b + b
  OBVIOUS

LEMMA CheckLivenessIsSound ==
  ASSUME NEW t, Sound(t)
  PROVE  LET u == CheckLiveness(t) IN Sound(u) /\ u.passing = t.passing /\ Pinged(u)
<1> DEFINE count == Least(t.conn.unanswered + 1, MaxUnanswered)
           conn == [t.conn EXCEPT !.quiet = 0, !.unanswered = count]
           asked == [t EXCEPT !.conn = conn]
           pinged == Enqueue(asked, "ping")
           hung == [pinged EXCEPT !.mode = "hung", !.reason = "none", !.timer = 0]
<1>1. t \in Tile /\ t.conn \in Connection /\ t.conn.quiet \in Nat /\ t.conn.unanswered \in Nat
      /\ t.conn.mute \in Nat
  BY DEF Sound, Base, Typed, Tile, Connection
<1>2. CASE ~Connected(t) \/ t.conn.quiet < PingEvery
  <2>1. CheckLiveness(t) = t
    <3>1. ~(Connected(t) /\ t.conn.quiet >= PingEvery)
      BY <1>1, <1>2, DockAssumption
    <3>2. CASE ~Connected(t)
      BY <3>2 DEF CheckLiveness
    <3>3. CASE t.conn.quiet < PingEvery
      BY <3>1, <3>3 DEF CheckLiveness
    <3> QED BY <1>2, <3>2, <3>3
  <2> QED BY <1>2, <2>1 DEF Pinged
<1>3. CASE Connected(t) /\ ~(t.conn.quiet < PingEvery)
  <2>1. CheckLiveness(t) = IF count >= MaxUnanswered /\ pinged.mode # "hung"
                           THEN ClosePanel(hung) ELSE pinged
    <3>1. t.conn.quiet >= PingEvery
      BY <1>1, <1>3, DockAssumption
    <3> HIDE DEF pinged, hung, count
    <3> QED BY <1>3, <3>1 DEF CheckLiveness, pinged, hung, count, asked, conn
  <2>2. count \in Nat /\ count <= t.conn.unanswered + 1 /\ (count < MaxUnanswered => count = t.conn.unanswered + 1)
    BY <1>1, DockAssumption DEF Least
  <2> HIDE DEF count
  <2>3. /\ conn \in Connection /\ conn.unanswered = count /\ conn.quiet = 0 /\ conn.mute = t.conn.mute
        /\ conn.peer = t.conn.peer /\ conn.queue = t.conn.queue /\ conn.wire = t.conn.wire
    BY <1>1, <2>2 DEF Connection
  <2> HIDE DEF conn
  <2>4. /\ asked \in Tile /\ asked.conn = conn /\ asked.mode = t.mode /\ asked.token = t.token
        /\ asked.child = t.child /\ asked.failures = t.failures /\ asked.forks = t.forks
        /\ asked.passing = t.passing /\ asked.procs = t.procs
    BY <1>1, <2>3 DEF Tile
  <2> HIDE DEF asked
  <2>5. Base(asked) /\ Linked(asked) /\ Launched(asked) /\ Budgeted(asked) /\ Connected(asked) /\ Pinged(asked)
    BY <1>3, <2>3, <2>4, DockAssumption
    DEF Sound, Base, Typed, Attended, Linked, Launched, Budgeted, Connected, Pinged
  <2>6. Outcome(asked, pinged)
    BY <2>5, EnqueueOutcome DEF ToPeer
  <2> HIDE DEF pinged
  <2>7. CASE ~(count >= MaxUnanswered /\ pinged.mode # "hung")
    <3>0. count < MaxUnanswered \/ asked.mode = "hung"
      <4>1. pinged.mode = "hung" => asked.mode = "hung"
        BY <2>6 DEF Outcome, Kept, Stands, Lost
      <4> QED BY <2>2, <2>7, <4>1, DockAssumption
    <3>1. Heard(asked)
      <4>1. CASE asked.mode = "hung"
        BY <2>3, <2>4, <4>1, DockAssumption DEF Heard
      <4>2. CASE asked.mode # "hung"
        <5>1. count = t.conn.unanswered + 1 /\ count < MaxUnanswered
          BY <2>2, <3>0, <4>2
        <5>2. t.mode \in {"starting", "live"}
          BY <2>4, <2>5, <4>2 DEF Linked
        <5>3. t.conn.mute <= t.conn.unanswered * PingEvery + t.conn.quiet /\ t.conn.quiet <= PingEvery
          BY <1>3, <5>2 DEF Sound, Heard
        <5>4. t.conn.unanswered * PingEvery + PingEvery = count * PingEvery
              /\ t.conn.unanswered * PingEvery \in Nat
          BY <1>1, <5>1, OneMorePing, DockAssumption
        <5>5. t.conn.mute <= count * PingEvery + 0
          <6> DEFINE before == t.conn.unanswered * PingEvery
                     after == count * PingEvery
                     quiet == t.conn.quiet
                     mute == t.conn.mute
          <6>1. /\ before \in Nat /\ quiet \in Nat /\ mute \in Nat /\ PingEvery \in Nat
                /\ after = before + PingEvery /\ mute <= before + quiet /\ quiet <= PingEvery
            BY <1>1, <5>3, <5>4, DockAssumption
          <6> HIDE DEF before, after, quiet, mute
          <6>2. mute <= after + 0
            BY <6>1
          <6> QED BY <6>2 DEF after, mute
        <5> QED BY <2>3, <2>4, <2>5, <5>1, <5>5, DockAssumption DEF Heard
      <4> QED BY <4>1, <4>2
    <3>2. Sound(asked)
      BY <2>5, <3>1 DEF Sound
    <3>3. Sound(pinged) /\ pinged.passing = t.passing /\ Pinged(pinged)
      BY <2>4, <2>5, <2>6, <3>2, OutcomeIsSound
    <3> QED BY <2>1, <2>7, <3>3
  <2>8. CASE count >= MaxUnanswered /\ pinged.mode # "hung"
    <3>1. pinged \in Tile
      BY <2>6 DEF Outcome, Base, Typed
    <3>2. /\ hung \in Tile /\ hung.conn = pinged.conn /\ hung.mode = "hung" /\ hung.token = pinged.token
          /\ hung.child = pinged.child /\ hung.failures = pinged.failures /\ hung.forks = pinged.forks
          /\ hung.passing = pinged.passing /\ hung.procs = pinged.procs
      BY <3>1 DEF Tile, Modes, Reasons
    <3> HIDE DEF hung
    <3>3. Base(hung)
      BY <2>6, <3>2 DEF Outcome, Base, Typed, Attended
    <3>4. ASSUME Kept(asked, pinged)
          PROVE  Linked(hung) /\ Launched(hung) /\ Heard(hung) /\ Budgeted(hung) /\ Pinged(hung)
      <4>1. Linked(hung) /\ Launched(hung)
        BY <2>5, <3>2, <3>4 DEF Kept, Stands, Linked, Launched, Connected
      <4>2. Heard(hung) /\ Budgeted(hung) /\ Pinged(hung)
        BY <2>3, <2>4, <2>5, <3>2, <3>4, DockAssumption
        DEF Kept, Stands, Heard, Budgeted, Connected, Pinged
      <4> QED BY <4>1, <4>2
    <3>5. ASSUME Lost(asked, pinged)
          PROVE  Linked(hung) /\ Launched(hung) /\ Heard(hung) /\ Budgeted(hung) /\ Pinged(hung)
      <4>1. Sound(pinged)
        BY <2>5, <2>6, <3>5, LostIsSound DEF Budgeted, Outcome
      <4>2. ~Connected(hung) /\ hung.conn = NoConnection /\ hung.conn.quiet = 0 /\ hung.child = None
        BY <3>2, <3>5 DEF Lost, Connected, NoConnection
      <4>3. Linked(hung) /\ Launched(hung) /\ Heard(hung) /\ Budgeted(hung) /\ Pinged(hung)
        BY <3>2, <4>1, <4>2, DockAssumption DEF Sound, Linked, Launched, Heard, Budgeted, Pinged
      <4> QED BY <4>3
    <3>6. Sound(hung) /\ Pinged(hung) /\ hung.passing = t.passing
      BY <2>4, <2>6, <3>2, <3>3, <3>4, <3>5 DEF Sound, Outcome, Kept, Stands, Lost
    <3> QED BY <2>1, <2>8, <3>3, <3>6, ClosePanelOutcome, OutcomeIsSound
  <2> QED BY <2>1, <2>2, <2>7, <2>8, DockAssumption
<1> QED BY <1>2, <1>3

\* A process that was not running takes the slot.
LEMMA LaunchIsSound ==
  ASSUME NEW t, Sound(t), Due(t), NEW outcome \in LaunchOutcomes(t)
  PROVE  LET u == Launch(t, outcome) IN Sound(u) /\ u.passing = t.passing /\ ~Overdue(u)
<1> DEFINE forks == Append(Recent(t.forks), 0)
           forked == [t EXCEPT !.forks = forks, !.token = None]
           u == Launch(t, outcome)
<1>1. t \in Tile /\ t.forks \in Seq(Nat) /\ t.failures \in Seq(Nat)
  BY DEF Sound, Base, Typed, Tile
<1>2. t.mode \in {"waiting", "rejoining"} /\ ~Connected(t) /\ t.conn = NoConnection /\ t.child = None
  BY DEF Due, Sound, Linked, Launched
<1>3. forks \in Seq(Nat) /\ Spent(forks, t.failures) /\ Spent(t.forks, t.failures)
  <2>1. Owed(t.forks, t.failures) /\ Spent(t.forks, t.failures)
    BY <1>2 DEF Sound, Budgeted
  <2>2. Append(Recent(t.forks), 0) \in Seq(Nat)
    <3>1. Recent(t.forks) \in Seq(Nat)
      BY <1>1, RecentType
    <3> QED BY <3>1
  <2> QED BY <1>1, <2>1, <2>2, LaunchIsSpent
<1>4. CASE outcome = "noToken"
  <2> DEFINE v == [t EXCEPT !.mode = "stopped", !.reason = "crashLooped", !.timer = 0]
  <2>1. u = v
    BY <1>4 DEF Launch, Stopped
  <2>2. /\ v \in Tile /\ v.conn = t.conn /\ v.mode = "stopped" /\ v.token = t.token /\ v.child = t.child
        /\ v.failures = t.failures /\ v.forks = t.forks /\ v.passing = t.passing /\ v.procs = t.procs
    BY <1>1 DEF Tile, Modes, Reasons
  <2> HIDE DEF u, v
  <2>3. Base(v) /\ Linked(v) /\ Launched(v) /\ ~Overdue(v)
    BY <1>2, <2>2 DEF Sound, Base, Typed, Attended, Linked, Launched, Connected, Overdue, Due, Late
  <2>4. Heard(v) /\ Budgeted(v)
    BY <1>2, <1>3, <2>2 DEF Sound, Heard, Budgeted, Connected
  <2> QED BY <2>1, <2>2, <2>3, <2>4 DEF Sound, u
<1>5. CASE outcome = "noProgram"
  <2>1. u = Disconnected(forked)
    BY <1>5 DEF Launch
  <2> HIDE DEF forks, u
  <2>2. /\ forked \in Tile /\ forked.conn = t.conn /\ forked.child = t.child /\ forked.procs = t.procs
        /\ forked.failures = t.failures /\ forked.forks = forks /\ forked.passing = t.passing
    BY <1>1, <1>3 DEF Tile, ProcOrNone
  <2> HIDE DEF forked
  <2>3. Base(forked) /\ Spent(forked.forks, forked.failures)
    BY <1>3, <2>2 DEF Sound, Base, Typed, Attended
  <2>4. Base(u) /\ Lost(forked, u)
    BY <2>1, <2>3, DisconnectedIsLost
  <2> QED BY <2>2, <2>3, <2>4, LostIsSound DEF Lost, u
<1>6. CASE outcome \in Free(t) \ {"noToken", "noProgram"}
  <2> DEFINE process == [NoProcess EXCEPT !.at = "starting"]
             procs == [t.procs EXCEPT ![outcome] = process]
             v == [forked EXCEPT !.procs = procs, !.mode = "starting", !.reason = "none", !.timer = 0,
                                 !.token = outcome, !.child = outcome]
  <2>0. outcome \in Procs /\ outcome # None
    BY <1>6, DockAssumption DEF Free
  <2> HIDE DEF forks, process
  <2>1. /\ forked \in Tile /\ forked.conn = t.conn /\ forked.procs = t.procs
        /\ forked.failures = t.failures /\ forked.forks = forks /\ forked.passing = t.passing
    BY <1>1, <1>3 DEF Tile, ProcOrNone
  <2>2. u = v
    <3>1. u = [forked EXCEPT !.procs[outcome] = process, !.mode = "starting", !.reason = "none", !.timer = 0,
                             !.token = outcome, !.child = outcome]
      BY <1>6 DEF Launch, process, forks
    <3> HIDE DEF forked, u
    <3> QED BY <2>1, <3>1
  <2> HIDE DEF forked, u
  <2>3. process \in Process /\ ~process.reaped
    BY DEF process, NoProcess, Process
  <2>4. procs \in [Procs -> Process] /\ \A q \in Procs : procs[q] = IF q = outcome THEN process ELSE t.procs[q]
    BY <1>1, <2>0, <2>3 DEF Tile
  <2> HIDE DEF procs
  <2>5. /\ v \in Tile /\ v.conn = t.conn /\ v.mode = "starting" /\ v.token = outcome /\ v.child = outcome
        /\ v.timer = 0 /\ v.failures = t.failures /\ v.forks = forks /\ v.passing = t.passing
        /\ v.procs = procs
    BY <2>0, <2>1, <2>4 DEF Tile, Modes, Reasons, ProcOrNone
  <2> HIDE DEF v
  <2>6. Attended(v)
    BY <1>2, <2>3, <2>4, <2>5, DockAssumption, ZenonT(60) DEF Attended, Sound, Base, Typed, Tile
  <2>7. Base(v) /\ Linked(v) /\ Launched(v) /\ ~Overdue(v)
    BY <1>2, <2>5, <2>6, DockAssumption
    DEF Sound, Base, Typed, Linked, Launched, Connected, Overdue, Due, Late
  <2>8. Heard(v) /\ Budgeted(v)
    BY <1>2, <1>3, <2>5 DEF Sound, Heard, Budgeted, Connected
  <2> QED BY <2>2, <2>5, <2>7, <2>8 DEF Sound, u
<1> QED BY <1>4, <1>5, <1>6 DEF LaunchOutcomes

\* What is due is done, and what is late is given up.
LEMMA MaybeLaunchIsSound ==
  ASSUME NEW t, Sound(t), Pinged(t), NEW outcome, Due(t) => outcome \in LaunchOutcomes(t)
  PROVE  LET u == MaybeLaunch(t, outcome) IN Sound(u) /\ u.passing = t.passing /\ ~Overdue(u)
<1>1. CASE Due(t)
  <2>1. MaybeLaunch(t, outcome) = Launch(t, outcome)
    BY <1>1 DEF MaybeLaunch, Due, Late
  <2> QED BY <1>1, <2>1, LaunchIsSound
<1>2. CASE Late(t)
  <2>1. MaybeLaunch(t, outcome) = Disconnected(t)
    BY <1>2 DEF MaybeLaunch, Due, Late
  <2>2. LET u == Disconnected(t) IN Base(u) /\ Lost(t, u) /\ Spent(t.forks, t.failures) /\ Base(t)
    BY DisconnectedIsLost DEF Sound, Budgeted
  <2> QED BY <2>1, <2>2, LostIsSound DEF Lost
<1>3. CASE ~Due(t) /\ ~Late(t)
  <2>1. MaybeLaunch(t, outcome) = t
    BY <1>3 DEF MaybeLaunch
  <2>2. t.conn.quiet \in Nat
    BY DEF Sound, Base, Typed, Tile, Connection
  <2> QED BY <1>3, <2>1, <2>2, DockAssumption DEF Overdue, Pinged
<1> QED BY <1>1, <1>2, <1>3

\* The panel, the servicing flag and the timer are no part of the invariant.
LEMMA PassingIsSound ==
  ASSUME NEW t, Sound(t), NEW passing \in BOOLEAN
  PROVE  LET u == [t EXCEPT !.passing = passing]
         IN  Sound(u) /\ u.passing = passing /\ (Overdue(u) <=> Overdue(t))
<1> DEFINE u == [t EXCEPT !.passing = passing]
<1>1. t \in Tile
  BY DEF Sound, Base, Typed
<1>2. /\ u \in Tile /\ u.conn = t.conn /\ u.mode = t.mode /\ u.token = t.token /\ u.child = t.child
      /\ u.failures = t.failures /\ u.forks = t.forks /\ u.passing = passing /\ u.procs = t.procs
      /\ u.timer = t.timer
  BY <1>1 DEF Tile
<1> HIDE DEF u
<1>3. Base(u) /\ Alike(t, u) /\ (Overdue(u) <=> Overdue(t))
  BY <1>2 DEF Base, Typed, Attended, Alike, Sound, Overdue, Due, Late, Connected
<1>4. Sound(u)
  BY <1>3, AlikeIsSound
<1> QED BY <1>2, <1>3, <1>4 DEF u

-----------------------------------------------------------------------------
(***************************************************************************)
(* The steps of the shell.                                                 *)
(***************************************************************************)

Settles == tile.passing /\ ~tile'.passing => ~Overdue(tile')

LEMMA PassStartsSound ==
  ASSUME Sound(tile), PassStarts
  PROVE  Sound(tile)' /\ Settles
  BY PassingIsSound DEF PassStarts, Idle, Settles

LEMMA PassEndsSound ==
  ASSUME Sound(tile), NEW outcome, PassEnds(outcome)
  PROVE  Sound(tile)' /\ Settles
<1> DEFINE heard == IF tile.conn.eof THEN Disconnected(tile) ELSE tile
           told == PushTheme(heard)
           checked == CheckLiveness(told)
           served == Flush(checked)
           launched == MaybeLaunch(served, outcome)
<1>1. Sound(heard)
  <2>1. LET u == Disconnected(tile) IN Base(u) /\ Lost(tile, u) /\ Spent(tile.forks, tile.failures) /\ Base(tile)
    BY DisconnectedIsLost DEF Sound, Budgeted
  <2>2. Sound(Disconnected(tile))
    BY <2>1, LostIsSound
  <2> QED BY <2>2
<1>2. (Due(served) => outcome \in LaunchOutcomes(served)) /\ tile' = [launched EXCEPT !.passing = FALSE]
  BY DEF PassEnds
<1> HIDE DEF heard
<1>3. Sound(told)
  BY <1>1, PushThemeOutcome, OutcomeIsSound DEF Sound
<1> HIDE DEF told
<1>4. Sound(checked) /\ Pinged(checked)
  BY <1>3, CheckLivenessIsSound
<1> HIDE DEF checked
<1>5. Sound(served) /\ Pinged(served)
  BY <1>4, FlushOutcome, OutcomeIsSound DEF Sound
<1> HIDE DEF served
<1>6. Sound(launched) /\ ~Overdue(launched)
  BY <1>2, <1>5, MaybeLaunchIsSound
<1> HIDE DEF launched
<1>7. FALSE \in BOOLEAN
  OBVIOUS
<1> QED BY <1>2, <1>6, <1>7, PassingIsSound DEF Settles

\* Adopting a Hello, the only step that makes a connection.
LEMMA AdoptIsSound ==
  ASSUME NEW t, Sound(t), NEW p \in Procs, AwaitingHello(t), t.token = p,
         t.procs[p].at \in {"starting", "knocking"}
  PROVE  Sound(Adopt(t, p))
<1> DEFINE conn == [NoConnection EXCEPT !.peer = p, !.queue = <<"other", "other">>]
           procs == [t.procs EXCEPT ![p].at = "serving"]
           u == [t EXCEPT !.procs = procs, !.conn = conn, !.mode = "starting", !.timer = 0]
<1>1. t \in Tile /\ t.procs \in [Procs -> Process] /\ t.procs[p] \in Process
  BY DEF Sound, Base, Typed, Tile
<1>2. Adopt(t, p) = u
  BY DEF Adopt
<1>3. /\ conn \in Connection /\ conn.peer = p /\ conn.quiet = 0 /\ conn.unanswered = 0 /\ conn.mute = 0
      /\ Len(conn.queue) <= Capacity /\ Len(conn.wire) <= Room
  <2> DEFINE hello == <<"other", "other">>
             none == NoConnection
  <2>1. hello \in Seq(ToPeer) /\ Len(hello) = 2
    BY DEF ToPeer
  <2>2. /\ none \in Connection /\ none.quiet = 0 /\ none.unanswered = 0 /\ none.mute = 0
        /\ none.wire = <<>> /\ Len(none.wire) = 0
    BY NoConnectionType DEF NoConnection
  <2> HIDE DEF hello, none
  <2>3. conn = [none EXCEPT !.peer = p, !.queue = hello]
    BY DEF hello, none
  <2> HIDE DEF conn
  <2>4. /\ conn \in Connection /\ conn.peer = p /\ conn.queue = hello /\ conn.wire = none.wire
        /\ conn.quiet = 0 /\ conn.unanswered = 0 /\ conn.mute = 0
    BY <2>1, <2>2, <2>3 DEF Connection, ProcOrNone
  <2>5. Len(conn.queue) <= Capacity
    BY <2>1, <2>4, DockAssumption
  <2>6. Len(conn.wire) <= Room
    BY <2>2, <2>4, DockAssumption
  <2> QED BY <2>4, <2>5, <2>6
<1>4. procs \in [Procs -> Process]
      /\ \A q \in Procs : /\ procs[q].asked = t.procs[q].asked /\ procs[q].inherited = t.procs[q].inherited
                          /\ procs[q].reaped = t.procs[q].reaped
                          /\ procs[q].at = IF q = p THEN "serving" ELSE t.procs[q].at
  <2> DEFINE process == [t.procs[p] EXCEPT !.at = "serving"]
  <2>1. /\ process \in Process /\ process.at = "serving" /\ process.asked = t.procs[p].asked
        /\ process.inherited = t.procs[p].inherited /\ process.reaped = t.procs[p].reaped
    BY <1>1 DEF Process
  <2>2. procs = [t.procs EXCEPT ![p] = process]
    OBVIOUS
  <2> HIDE DEF process
  <2> QED BY <1>1, <2>1, <2>2
<1> HIDE DEF conn, procs
<1>5. /\ u \in Tile /\ u.conn = conn /\ u.mode = "starting" /\ u.token = t.token /\ u.child = t.child
      /\ u.failures = t.failures /\ u.forks = t.forks /\ u.procs = procs
  BY <1>1, <1>3, <1>4 DEF Tile, Modes
<1> HIDE DEF u
<1>6. Attended(u)
  BY <1>4, <1>5 DEF Attended, Sound, Base, Running
<1>7. Base(u) /\ Linked(u) /\ Launched(u)
  BY <1>3, <1>5, <1>6, DockAssumption DEF Sound, Base, Typed, Linked, Launched, Connected
<1>8. Heard(u) /\ Budgeted(u)
  BY <1>3, <1>5, DockAssumption DEF Sound, Heard, Budgeted, Connected
<1> QED BY <1>2, <1>7, <1>8 DEF Sound

LEMMA HelloArrivesSound ==
  ASSUME Sound(tile), NEW p \in Procs, NEW fits \in BOOLEAN, HelloArrives(p, fits)
  PROVE  Sound(tile)' /\ Settles
<1> DEFINE u == Admit(tile, p, fits)
<1>1. tile.procs[p].at \in {"starting", "knocking"} /\ ~tile.passing /\ tile' = [u EXCEPT !.passing = TRUE]
  BY DEF HelloArrives, Idle
<1>2. Sound(u)
  <2>1. CASE AwaitingHello(tile) /\ tile.token = p /\ fits
    BY <1>1, <2>1, AdoptIsSound DEF Admit
  <2>2. CASE ~(AwaitingHello(tile) /\ tile.token = p /\ fits)
    <3> DEFINE process == [tile.procs[p] EXCEPT !.at = "astray"]
    <3>1. u = [tile EXCEPT !.procs[p] = process]
      BY <2>2 DEF Admit, Refuse
    <3>2. tile.procs[p] \in Process
      BY DEF Sound, Base, Typed, Tile
    <3>3. /\ process \in Process /\ process.at = "astray" /\ process.asked = tile.procs[p].asked
          /\ process.inherited = tile.procs[p].inherited /\ process.reaped = tile.procs[p].reaped
      BY <3>2 DEF Process
    <3> HIDE DEF process
    <3>4. /\ process.reaped => process.at = "exited"
          /\ Running(process) /\ ~process.asked /\ ~process.inherited => p = tile.child
      BY <1>1, <3>3 DEF Sound, Base, Attended, Running
    <3> QED BY <3>1, <3>3, <3>4, PeopledIsSound
  <2> QED BY <2>1, <2>2
<1> HIDE DEF u
<1>3. TRUE \in BOOLEAN
  OBVIOUS
<1> QED BY <1>1, <1>2, <1>3, PassingIsSound DEF Settles

LEMMA ReadsSound ==
  ASSUME Sound(tile), NEW granted \in BOOLEAN, Reads(granted)
  PROVE  Sound(tile)' /\ Settles
<1> DEFINE conn == [tile.conn EXCEPT !.box = Tail(tile.conn.box)]
           read == [tile EXCEPT !.conn = conn]
           message == Head(tile.conn.box)
<1>1. tile.passing /\ tile.conn.box # <<>> /\ tile' = Handled(read, message, granted)
  BY DEF Reads
<1>2. Connected(tile)
  BY <1>1 DEF Sound, Linked, NoConnection
<1>3. tile.conn \in Connection /\ tile.conn.box \in Seq(FromPeer)
  BY DEF Sound, Base, Typed, Tile, Connection
<1>4. message \in FromPeer /\ Tail(tile.conn.box) \in Seq(FromPeer)
  BY <1>1, <1>3
<1>5. /\ conn \in Connection /\ conn.peer = tile.conn.peer /\ conn.quiet = tile.conn.quiet
      /\ conn.unanswered = tile.conn.unanswered /\ conn.mute = tile.conn.mute
      /\ conn.queue = tile.conn.queue /\ conn.wire = tile.conn.wire
  BY <1>3, <1>4 DEF Connection
<1> HIDE DEF conn, message
<1>6. Sound(read) /\ read.passing = tile.passing /\ read.conn = conn
  BY <1>2, <1>5, RewiredIsSound DEF Sound, Base, Typed
<1> HIDE DEF read
<1>7. Connected(read)
  BY <1>2, <1>5, <1>6 DEF Connected
<1> QED BY <1>1, <1>4, <1>6, <1>7, HandledIsSound DEF Settles

LEMMA ThemeChangesSound ==
  ASSUME Sound(tile), ThemeChanges
  PROVE  Sound(tile)' /\ Settles
<1> DEFINE conn == [tile.conn EXCEPT !.current = FALSE]
<1>1. ~tile.passing /\ Connected(tile) /\ tile' = [tile EXCEPT !.conn = conn]
  BY DEF ThemeChanges, Idle
<1>2. tile.conn \in Connection
  BY DEF Sound, Base, Typed, Tile
<1>3. /\ conn \in Connection /\ conn.peer = tile.conn.peer /\ conn.quiet = tile.conn.quiet
      /\ conn.unanswered = tile.conn.unanswered /\ conn.mute = tile.conn.mute
      /\ conn.queue = tile.conn.queue /\ conn.wire = tile.conn.wire
  BY <1>2 DEF Connection
<1> HIDE DEF conn
<1> QED BY <1>1, <1>3, RewiredIsSound DEF Sound, Base, Typed, Settles

LEMMA QueuedSound ==
  ASSUME Sound(tile), Input \/ Dismiss
  PROVE  Sound(tile)' /\ Settles
  BY EnqueueOutcome, ClosePanelOutcome, OutcomeIsSound DEF Input, Dismiss, Idle, ToPeer, Sound, Settles

\* What every end of a connection by the shell starts with.
LEMMA ReleasedIsBase ==
  ASSUME NEW t, Sound(t)
  PROVE  LET u == AskToLeave(ClosePanel(t))
         IN  Base(u) /\ u.child = None /\ u.passing = t.passing /\ Spent(u.forks, u.failures)
<1> DEFINE shut == ClosePanel(t)
<1>1. Sound(shut) /\ shut.passing = t.passing
  BY ClosePanelOutcome, OutcomeIsSound DEF Sound
<1> HIDE DEF shut
<1>2. LET u == AskToLeave(shut) IN Base(u) /\ Stands(shut, u) /\ u.child = None
  BY <1>1, AskToLeaveIsBase DEF Sound
<1> QED BY <1>1, <1>2 DEF Stands, Sound, Budgeted, shut

LEMMA ClearBudget == Spent(<<>>, <<>>) /\ Owed(<<>>, <<>>)
<1>1. <<>> \in Seq(Nat) /\ Len(<<>>) = 0
  OBVIOUS
<1>2. \A w : Within(<<>>, w) \in Nat /\ Within(<<>>, w) <= 0
  BY <1>1, WithinNat
<1>3. \A w : Within(<<>>, w) = 0
  BY <1>2
<1> QED BY <1>1, <1>3, DockAssumption DEF Spent, Owed

LEMMA UserRestartSound ==
  ASSUME Sound(tile), UserRestart
  PROVE  Sound(tile)' /\ Settles
<1> DEFINE left == AskToLeave(ClosePanel(tile))
           cleared == [left EXCEPT !.conn = NoConnection, !.failures = <<>>, !.attempts = 0, !.forks = <<>>]
           u == [cleared EXCEPT !.mode = "waiting", !.reason = "none", !.timer = 0]
<1>1. tile' = u /\ ~tile.passing
  BY DEF UserRestart, Waiting, Idle
<1>2. Base(left) /\ left.child = None
  BY ReleasedIsBase
<1> HIDE DEF left
<1>3. left \in Tile /\ <<>> \in Seq(Nat)
  BY <1>2 DEF Base, Typed
<1>4. /\ cleared \in Tile /\ cleared.conn = NoConnection /\ cleared.child = None
      /\ cleared.failures = <<>> /\ cleared.forks = <<>> /\ cleared.procs = left.procs
  BY <1>2, <1>3, NoConnectionType DEF Tile
<1> HIDE DEF cleared
<1>5. /\ u \in Tile /\ u.conn = NoConnection /\ u.child = None /\ u.mode = "waiting"
      /\ u.failures = <<>> /\ u.forks = <<>> /\ u.procs = left.procs
  BY <1>4 DEF Tile, Modes, Reasons
<1> HIDE DEF u
<1>6. ~Connected(u) /\ u.conn.quiet = 0
  BY <1>5 DEF Connected, NoConnection
<1>7. Base(u) /\ Linked(u) /\ Launched(u)
  BY <1>2, <1>5, <1>6, NoConnectionType, DockAssumption
  DEF Base, Typed, Attended, Linked, Launched
<1>8. Heard(u) /\ Budgeted(u)
  BY <1>5, <1>6, ClearBudget, DockAssumption DEF Heard, Budgeted
<1> QED BY <1>1, <1>7, <1>8 DEF Sound, Settles

LEMMA ShutDownIsSound ==
  ASSUME NEW t, Sound(t)
  PROVE  LET u == ShutDown(t)
         IN  Sound(u) /\ u.passing = t.passing /\ u.mode = "stopped" /\ u.conn = NoConnection /\ u.child = None
<1> DEFINE left == AskToLeave(ClosePanel(t))
           cut == [left EXCEPT !.conn = NoConnection]
           u == [cut EXCEPT !.mode = "stopped", !.reason = "removed", !.timer = 0]
<1>1. ShutDown(t) = u
  BY DEF ShutDown, Stopped
<1>2. Base(left) /\ left.child = None /\ left.passing = t.passing /\ Spent(left.forks, left.failures)
  BY ReleasedIsBase
<1> HIDE DEF left
<1>3. left \in Tile
  BY <1>2 DEF Base, Typed
<1>4. /\ cut \in Tile /\ cut.conn = NoConnection /\ cut.child = None /\ cut.passing = t.passing
      /\ cut.failures = left.failures /\ cut.forks = left.forks /\ cut.procs = left.procs
  BY <1>2, <1>3, NoConnectionType DEF Tile
<1> HIDE DEF cut
<1>5. /\ u \in Tile /\ u.conn = NoConnection /\ u.child = None /\ u.mode = "stopped" /\ u.passing = t.passing
      /\ u.failures = left.failures /\ u.forks = left.forks /\ u.procs = left.procs
  BY <1>4 DEF Tile, Modes, Reasons
<1> HIDE DEF u
<1>6. ~Connected(u) /\ u.conn.quiet = 0
  BY <1>5 DEF Connected, NoConnection
<1>7. Base(u) /\ Linked(u) /\ Launched(u)
  BY <1>2, <1>5, <1>6, NoConnectionType, DockAssumption
  DEF Base, Typed, Attended, Linked, Launched
<1>8. Heard(u) /\ Budgeted(u)
  BY <1>2, <1>5, <1>6, DockAssumption DEF Heard, Budgeted
<1> QED BY <1>1, <1>5, <1>7, <1>8 DEF Sound

\* The shell goes; what it launched is nobody's child.
LEMMA OrphanedIsSound ==
  ASSUME NEW t, t \in Tile, t.conn = NoConnection, t.child = None,
         \A p \in Procs : t.procs[p].reaped => t.procs[p].at = "exited"
  PROVE  Sound(Orphaned(t))
<1> DEFINE procs == [p \in Procs |-> [t.procs[p] EXCEPT !.inherited = TRUE]]
           u == Orphaned(t)
<1>1. \A p \in Procs : /\ procs[p] \in Process /\ procs[p].inherited
                       /\ procs[p].reaped = t.procs[p].reaped /\ procs[p].at = t.procs[p].at
  <2> TAKE p \in Procs
  <2>1. t.procs[p] \in Process
    BY DEF Tile
  <2> QED BY <2>1 DEF Process
<1>2. procs \in [Procs -> Process]
  BY <1>1
<1>3. u = [t EXCEPT !.mode = "off", !.reason = "none", !.timer = 0, !.failures = <<>>,
                    !.attempts = 0, !.forks = <<>>, !.procs = procs]
  BY DEF Orphaned
<1>4. <<>> \in Seq(Nat)
  OBVIOUS
<1> HIDE DEF procs, u
<1>5. /\ u \in Tile /\ u.conn = NoConnection /\ u.child = None /\ u.mode = "off"
      /\ u.failures = <<>> /\ u.forks = <<>> /\ u.procs = procs
  BY <1>2, <1>3, <1>4 DEF Tile, Modes, Reasons
<1>6. ~Connected(u) /\ u.conn.quiet = 0
  BY <1>5 DEF Connected, NoConnection
<1>7. Base(u) /\ Linked(u) /\ Launched(u)
  BY <1>1, <1>5, <1>6, NoConnectionType, DockAssumption
  DEF Base, Typed, Attended, Linked, Launched
<1>8. Heard(u) /\ Budgeted(u)
  BY <1>5, <1>6, ClearBudget, DockAssumption DEF Heard, Budgeted
<1> QED BY <1>7, <1>8 DEF Sound, u

LEMMA EndedIsSound ==
  ASSUME NEW t, Sound(t)
  PROVE  Sound(Orphaned([ShutDown(t) EXCEPT !.token = None]))
<1> DEFINE down == ShutDown(t)
           u == [down EXCEPT !.token = None]
<1>1. Sound(down) /\ down.conn = NoConnection /\ down.child = None
  BY ShutDownIsSound
<1> HIDE DEF down
<1>2. down \in Tile
  BY <1>1 DEF Sound, Base, Typed
<1>3. u \in Tile /\ u.conn = NoConnection /\ u.child = None /\ u.procs = down.procs
  BY <1>1, <1>2 DEF Tile, ProcOrNone
<1> HIDE DEF u
<1>4. Sound(Orphaned(u))
  BY <1>1, <1>3, OrphanedIsSound DEF Sound, Base, Attended
<1> QED BY <1>4 DEF u, down

LEMMA ShellGoesSound ==
  ASSUME Sound(tile), Remove \/ ShellExecs \/ SessionEnds
  PROVE  Sound(tile)' /\ Settles
<1>1. ~tile.passing
  BY DEF Remove, ShellExecs, SessionEnds, Idle
<1>2. CASE Remove
  BY <1>1, <1>2, ShutDownIsSound DEF Remove, Settles
<1>3. CASE tile' = Orphaned([ShutDown(tile) EXCEPT !.token = None])
  BY <1>1, <1>3, EndedIsSound DEF Settles
<1>4. CASE tile' = Orphaned(HandOff(tile))
  <2> DEFINE u == HandOff(tile)
  <2>1. tile \in Tile
    BY DEF Sound, Base, Typed
  <2>2. u \in Tile /\ u.conn = NoConnection /\ u.child = None /\ u.procs = tile.procs
    BY <2>1, NoConnectionType DEF HandOff, Tile, ProcOrNone
  <2> HIDE DEF u
  <2>3. Sound(Orphaned(u))
    BY <2>2, OrphanedIsSound DEF Sound, Base, Attended
  <2> QED BY <1>1, <1>4, <2>3 DEF u, Settles
<1> QED BY <1>2, <1>3, <1>4 DEF ShellExecs, SessionEnds

LEMMA ShellStartsSound ==
  ASSUME Sound(tile), ShellStarts
  PROVE  Sound(tile)' /\ Settles
<1> DEFINE mode == IF tile.token = None THEN "waiting" ELSE "rejoining"
           timer == IF tile.token = None THEN 0 ELSE RejoinWindow
           reason == IF tile.token = None THEN "none" ELSE tile.reason
           u == [tile EXCEPT !.mode = mode, !.reason = reason, !.timer = timer]
<1>1. tile \in Tile /\ tile.mode = "off"
  BY DEF Sound, Base, Typed, ShellStarts, Up
<1>2. tile' = u
  <2>1. CASE tile.token = None
    BY <2>1 DEF ShellStarts, Waiting
  <2>2. CASE tile.token # None
    <3>1. tile' = [tile EXCEPT !.mode = "rejoining", !.timer = RejoinWindow]
      BY <2>2 DEF ShellStarts
    <3>2. u = [tile EXCEPT !.mode = "rejoining", !.timer = RejoinWindow]
      BY <1>1, <2>2 DEF Tile
    <3> QED BY <3>1, <3>2
  <2> QED BY <2>1, <2>2
<1>3. mode \in {"waiting", "rejoining"} /\ timer \in Nat /\ reason \in Reasons
  BY <1>1, DockAssumption DEF Tile, Reasons
<1> HIDE DEF mode, timer, reason
<1>4. /\ u \in Tile /\ u.conn = tile.conn /\ u.mode = mode /\ u.token = tile.token /\ u.child = tile.child
      /\ u.failures = tile.failures /\ u.forks = tile.forks /\ u.passing = tile.passing
      /\ u.procs = tile.procs
  BY <1>1, <1>3 DEF Tile, Modes
<1> HIDE DEF u
<1>5. tile.conn = NoConnection /\ ~Connected(tile) /\ tile.child = None
      /\ tile.failures = <<>> /\ tile.forks = <<>>
  BY <1>1 DEF Sound, Linked, Launched, Budgeted
<1>6. Base(u) /\ Linked(u) /\ Launched(u)
  BY <1>4, <1>5 DEF Sound, Base, Typed, Attended, Linked, Launched, Connected
<1>7. Heard(u) /\ Budgeted(u)
  BY <1>3, <1>4, <1>5, ClearBudget DEF Sound, Heard, Budgeted, Connected
<1> QED BY <1>2, <1>4, <1>6, <1>7 DEF Sound, Settles

-----------------------------------------------------------------------------
(***************************************************************************)
(* The steps of the processes, and of time.                                *)
(***************************************************************************)

LEMMA TalkSound ==
  ASSUME Sound(tile), NEW p \in Procs, (\E message \in FromPeer : Speaks(p, message)) \/ ReadsWire(p)
  PROVE  Sound(tile)' /\ tile'.passing = tile.passing
<1>1. Connected(tile)
  BY DockAssumption DEF Speaks, ReadsWire, Connected
<1>2. tile.conn \in Connection /\ tile.conn.box \in Seq(FromPeer) /\ tile.conn.wire \in Seq(ToPeer)
      /\ Len(tile.conn.queue) <= Capacity /\ Len(tile.conn.wire) <= Room
  BY DEF Sound, Base, Typed, Tile, Connection
<1>3. CASE \E message \in FromPeer : Speaks(p, message)
  <2>1. PICK message \in FromPeer : Speaks(p, message)
    BY <1>3
  <2> DEFINE box == Append(tile.conn.box, message)
             conn == [tile.conn EXCEPT !.box = box]
  <2>2. tile' = [tile EXCEPT !.conn = conn] /\ box \in Seq(FromPeer)
    BY <1>2, <2>1 DEF Speaks
  <2> HIDE DEF box
  <2>3. /\ conn \in Connection /\ conn.peer = tile.conn.peer /\ conn.quiet = tile.conn.quiet
        /\ conn.unanswered = tile.conn.unanswered /\ conn.mute = tile.conn.mute
        /\ conn.queue = tile.conn.queue /\ conn.wire = tile.conn.wire
    BY <1>2, <2>2 DEF Connection
  <2> HIDE DEF conn
  <2> QED BY <1>1, <1>2, <2>2, <2>3, RewiredIsSound
<1>4. CASE ReadsWire(p)
  <2> DEFINE wire == Tail(tile.conn.wire)
             box == IF Head(tile.conn.wire) = "ping" THEN Append(tile.conn.box, "pong") ELSE tile.conn.box
             conn == [tile.conn EXCEPT !.wire = wire, !.box = box]
  <2>1. tile.conn.wire # <<>> /\ tile' = [tile EXCEPT !.conn = conn]
    BY <1>4 DEF ReadsWire
  <2>2. wire \in Seq(ToPeer) /\ Len(wire) <= Room
    <3> DEFINE w == tile.conn.wire
    <3>1. w \in Seq(ToPeer) /\ w # <<>> /\ Len(w) <= Room
      BY <1>2, <2>1
    <3> HIDE DEF w
    <3>2. Tail(w) \in Seq(ToPeer) /\ Len(Tail(w)) = Len(w) - 1 /\ Len(w) \in Nat
      BY <3>1
    <3>3. Len(Tail(w)) <= Room
      BY <3>1, <3>2, DockAssumption
    <3> QED BY <3>2, <3>3 DEF w
  <2>3. box \in Seq(FromPeer)
    BY <1>2 DEF FromPeer
  <2> HIDE DEF wire, box
  <2>4. /\ conn \in Connection /\ conn.peer = tile.conn.peer /\ conn.quiet = tile.conn.quiet
        /\ conn.unanswered = tile.conn.unanswered /\ conn.mute = tile.conn.mute
        /\ conn.queue = tile.conn.queue /\ conn.wire = wire
    BY <1>2, <2>2, <2>3 DEF Connection
  <2> HIDE DEF conn
  <2> QED BY <1>1, <1>2, <2>1, <2>2, <2>4, RewiredIsSound
<1> QED BY <1>3, <1>4

LEMMA ProcessSound ==
  ASSUME Sound(tile), NEW p \in Procs, SeesEof(p) \/ Reaped(p) \/ Sticks(p)
  PROVE  Sound(tile)' /\ tile'.passing = tile.passing
<1>1. tile.procs[p] \in Process
  BY DEF Sound, Base, Typed, Tile
<1>2. CASE SeesEof(p)
  <2> DEFINE process == [tile.procs[p] EXCEPT !.at = "knocking"]
  <2>1. tile' = [tile EXCEPT !.procs[p] = process] /\ tile.procs[p].at = "serving"
    BY <1>2 DEF SeesEof
  <2>2. /\ process \in Process /\ process.at = "knocking" /\ process.asked = tile.procs[p].asked
        /\ process.inherited = tile.procs[p].inherited /\ process.reaped = tile.procs[p].reaped
    BY <1>1 DEF Process
  <2> HIDE DEF process
  <2>3. /\ process.reaped => process.at = "exited"
        /\ Running(process) /\ ~process.asked /\ ~process.inherited => p = tile.child
    BY <2>1, <2>2 DEF Sound, Base, Attended, Running
  <2> QED BY <2>1, <2>2, <2>3, PeopledIsSound
<1>3. CASE Reaped(p)
  <2> DEFINE process == [tile.procs[p] EXCEPT !.reaped = TRUE]
  <2>1. tile' = [tile EXCEPT !.procs[p] = process] /\ tile.procs[p].at = "exited"
    BY <1>3 DEF Reaped
  <2>2. process \in Process /\ process.at = "exited"
    BY <1>1, <2>1 DEF Process
  <2> HIDE DEF process
  <2> QED BY <2>1, <2>2, PeopledIsSound DEF Running
<1>4. CASE Sticks(p)
  <2> DEFINE process == [tile.procs[p] EXCEPT !.stuck = ~tile.procs[p].stuck]
  <2>1. tile' = [tile EXCEPT !.procs[p] = process]
    BY <1>4 DEF Sticks
  <2>2. /\ process \in Process /\ process.at = tile.procs[p].at /\ process.asked = tile.procs[p].asked
        /\ process.inherited = tile.procs[p].inherited /\ process.reaped = tile.procs[p].reaped
    BY <1>1 DEF Process
  <2> HIDE DEF process
  <2>3. /\ process.reaped => process.at = "exited"
        /\ Running(process) /\ ~process.asked /\ ~process.inherited => p = tile.child
    BY <2>2 DEF Sound, Base, Attended, Running
  <2> QED BY <2>1, <2>2, <2>3, PeopledIsSound
<1> QED BY <1>2, <1>3, <1>4

LEMMA ClosedIsSound ==
  ASSUME NEW t, Sound(t), NEW p \in Procs
  PROVE  LET u == Closed(t, p)
         IN  Sound(u) /\ u.passing = t.passing /\ u.child = t.child /\ u.procs = t.procs
<1> DEFINE conn == [t.conn EXCEPT !.eof = TRUE]
<1>1. CASE t.conn.peer = p
  <2>1. Connected(t) /\ t.conn \in Connection /\ Len(t.conn.queue) <= Capacity /\ Len(t.conn.wire) <= Room
    BY <1>1, DockAssumption DEF Sound, Base, Typed, Tile, Connected
  <2>2. Closed(t, p) = [t EXCEPT !.conn = conn]
    BY <1>1 DEF Closed
  <2>3. /\ conn \in Connection /\ conn.peer = t.conn.peer /\ conn.quiet = t.conn.quiet
        /\ conn.unanswered = t.conn.unanswered /\ conn.mute = t.conn.mute
        /\ conn.queue = t.conn.queue /\ conn.wire = t.conn.wire
    BY <2>1 DEF Connection
  <2> HIDE DEF conn
  <2> QED BY <2>1, <2>2, <2>3, RewiredIsSound
<1>2. CASE t.conn.peer # p
  BY <1>2 DEF Closed
<1> QED BY <1>1, <1>2

LEMMA EndsSound ==
  ASSUME Sound(tile), NEW p \in Procs,
         (\E clean \in BOOLEAN : tile' = Ended(tile, p, clean)) \/ HangsUp(p)
  PROVE  Sound(tile)' /\ tile'.passing = tile.passing
<1> DEFINE closed == Closed(tile, p)
<1>1. Sound(closed) /\ closed.passing = tile.passing /\ closed.child = tile.child /\ closed.procs = tile.procs
  BY ClosedIsSound
<1> HIDE DEF closed
<1>2. tile.procs[p] \in Process
  BY DEF Sound, Base, Typed, Tile
<1>3. CASE \E clean \in BOOLEAN : tile' = Ended(tile, p, clean)
  <2>1. PICK clean \in BOOLEAN : tile' = Ended(tile, p, clean)
    BY <1>3
  <2> DEFINE exited == [tile.procs[p] EXCEPT !.at = "exited", !.clean = clean, !.stuck = FALSE]
             process == IF tile.child = p THEN exited ELSE NoProcess
  <2>2. tile' = [closed EXCEPT !.procs[p] = process]
    BY <1>1, <2>1 DEF Ended, closed
  <2>3. exited \in Process /\ exited.at = "exited" /\ NoProcess \in Process
        /\ NoProcess.at = "absent" /\ ~NoProcess.reaped
    BY <1>2 DEF Process, NoProcess
  <2> HIDE DEF exited
  <2>4. process \in Process /\ (process.reaped => process.at = "exited") /\ ~Running(process)
    BY <2>3 DEF Running
  <2> HIDE DEF process
  <2> QED BY <1>1, <2>2, <2>4, PeopledIsSound
<1>4. CASE HangsUp(p)
  <2> DEFINE process == [tile.procs[p] EXCEPT !.at = "astray"]
  <2>1. tile' = [closed EXCEPT !.procs[p] = process] /\ tile.procs[p].at = "serving"
    BY <1>1, <1>4 DEF HangsUp, closed
  <2>2. /\ process \in Process /\ process.at = "astray" /\ process.asked = tile.procs[p].asked
        /\ process.inherited = tile.procs[p].inherited /\ process.reaped = tile.procs[p].reaped
    BY <1>2 DEF Process
  <2> HIDE DEF process
  <2>3. /\ process.reaped => process.at = "exited"
        /\ Running(process) /\ ~process.asked /\ ~process.inherited => p = closed.child
    BY <1>1, <2>1, <2>2 DEF Sound, Base, Attended, Running
  <2> QED BY <1>1, <2>1, <2>2, <2>3, PeopledIsSound
<1> QED BY <1>3, <1>4

LEMMA TickSound ==
  ASSUME Sound(tile), Tick
  PROVE  Sound(tile)' /\ tile'.passing = tile.passing
<1> DEFINE timer == IF tile.mode = "starting" THEN Least(tile.timer + 1, Grace)
                    ELSE IF tile.timer = 0 THEN 0 ELSE tile.timer - 1
           failures == Older(tile.failures)
           forks == Recent(Older(tile.forks))
           conn == IF ~Connected(tile) THEN tile.conn ELSE Aged(tile.conn)
           u == [tile EXCEPT !.timer = timer, !.failures = failures, !.forks = forks, !.conn = conn]
<1>1. tile \in Tile /\ tile.conn \in Connection /\ tile.timer \in Nat
      /\ tile.forks \in Seq(Nat) /\ tile.failures \in Seq(Nat)
      /\ Len(tile.conn.queue) <= Capacity /\ Len(tile.conn.wire) <= Room
  BY DEF Sound, Base, Typed, Tile
<1>2. ~Overdue(tile) /\ tile' = u
  BY <1>1 DEF Tick, Tile
<1>3. timer \in Nat
  BY <1>1, DockAssumption, SMTT(60) DEF Least
<1>4. /\ failures \in Seq(Nat) /\ forks \in Seq(Nat) /\ Spent(forks, failures)
      /\ Owed(tile.forks, tile.failures) => Owed(forks, failures)
  BY <1>1, TickIsSpent DEF Sound, Budgeted
<1>5. tile.mode = "off" => failures = <<>> /\ forks = <<>>
  <2>1. ASSUME tile.mode = "off"
        PROVE  failures = <<>> /\ forks = <<>>
    <3>1. tile.failures = <<>> /\ tile.forks = <<>>
      BY <2>1 DEF Sound, Budgeted
    <3>2. Older(<<>>) = <<>>
      <4>1. <<>> \in Seq(Nat) /\ Len(<<>>) = 0 /\ CrashWindow \in 1 .. CrashWindow
        BY DockAssumption
      <4>2. Older(<<>>) \in Seq(Nat) /\ Len(Older(<<>>)) = 0
        BY <4>1, WithinOlder
      <4> QED BY <4>2
    <3>3. Recent(<<>>) = <<>>
      <4>1. <<>> \in Seq(Nat) /\ Len(<<>>) = 0
        OBVIOUS
      <4>2. Recent(<<>>) \in Seq(Nat) /\ Len(Recent(<<>>)) <= 0
        BY <4>1, RecentType, KeepFewer DEF Recent
      <4> QED BY <4>2
    <3> QED BY <3>1, <3>2, <3>3
  <2> QED BY <2>1
<1> HIDE DEF timer, failures, forks
<1>6. /\ conn \in Connection /\ conn.peer = tile.conn.peer
      /\ conn.queue = tile.conn.queue /\ conn.wire = tile.conn.wire
      /\ ~Connected(tile) => conn = tile.conn
      /\ Connected(tile) => /\ conn.unanswered = tile.conn.unanswered
                            /\ conn.quiet = tile.conn.quiet + 1 /\ conn.quiet <= PingEvery
                            /\ conn.mute <= tile.conn.mute + 1
  <2>1. CASE ~Connected(tile)
    BY <1>1, <2>1
  <2>2. CASE Connected(tile)
    <3> DEFINE c == tile.conn
               quiet == Least(c.quiet + 1, PingEvery)
               age == Least(c.age + 1, CrashWindow)
               most == MaxUnanswered * PingEvery
               mute == Least(c.mute + 1, most + 1)
               full == IF c.full = Never THEN Never ELSE Least(c.full + 1, Overflow)
    <3>1. c \in Connection /\ c.quiet \in Nat /\ c.age \in Nat /\ c.mute \in Nat /\ c.full \in {Never} \cup Nat
      BY <1>1 DEF Connection
    <3>2. c.quiet < PingEvery
      <4>1. ~(tile.conn.quiet >= PingEvery)
        BY <1>2, <2>2 DEF Overdue
      <4>2. tile.conn.quiet \in Nat
        BY <3>1
      <4> QED BY <4>1, <4>2, DockAssumption
    <3>3. most \in Nat
      BY OneMorePing, DockAssumption
    <3>4. conn = [c EXCEPT !.quiet = quiet, !.age = age, !.mute = mute, !.full = full]
      BY <2>2 DEF Aged
    <3> HIDE DEF c, most
    <3>5. quiet \in Nat /\ quiet = c.quiet + 1 /\ quiet <= PingEvery /\ age \in Nat
          /\ mute \in Nat /\ mute <= c.mute + 1 /\ full \in {Never} \cup Nat
      <4>1. \A a, b \in Nat : Least(a, b) \in Nat /\ Least(a, b) <= a /\ Least(a, b) <= b
                               /\ (a <= b => Least(a, b) = a)
        BY DEF Least
      <4>2. c.quiet + 1 \in Nat /\ c.age + 1 \in Nat /\ c.mute + 1 \in Nat /\ most + 1 \in Nat
            /\ PingEvery \in Nat /\ CrashWindow \in Nat /\ Overflow \in Nat /\ c.quiet + 1 <= PingEvery
        BY <3>1, <3>2, <3>3, DockAssumption
      <4>3. c.full # Never => c.full + 1 \in Nat
        BY <3>1
      <4>4. quiet \in Nat /\ quiet = c.quiet + 1 /\ quiet <= PingEvery
        BY <4>1, <4>2
      <4>5. age \in Nat /\ mute \in Nat /\ mute <= c.mute + 1
        BY <4>1, <4>2
      <4>6. full \in {Never} \cup Nat
        <5>1. CASE c.full = Never
          BY <5>1
        <5>2. CASE c.full # Never
          BY <4>1, <4>2, <4>3, <5>2
        <5> QED BY <5>1, <5>2
      <4> QED BY <4>4, <4>5, <4>6
    <3> HIDE DEF quiet, age, mute, full, conn
    <3>6. /\ conn \in Connection /\ conn.peer = c.peer /\ conn.queue = c.queue /\ conn.wire = c.wire
          /\ conn.unanswered = c.unanswered /\ conn.quiet = quiet /\ conn.mute = mute
      BY <3>1, <3>4, <3>5 DEF Connection
    <3> QED BY <2>2, <3>5, <3>6 DEF c
  <2> QED BY <2>1, <2>2
<1> HIDE DEF conn
<1>7. /\ u \in Tile /\ u.conn = conn /\ u.mode = tile.mode /\ u.token = tile.token /\ u.child = tile.child
      /\ u.failures = failures /\ u.forks = forks /\ u.passing = tile.passing /\ u.procs = tile.procs
  BY <1>1, <1>3, <1>4, <1>6 DEF Tile
<1> HIDE DEF u
<1>8. Base(u) /\ Linked(u) /\ Launched(u)
  BY <1>1, <1>6, <1>7 DEF Sound, Base, Typed, Attended, Linked, Launched, Connected
<1>9. Budgeted(u)
  BY <1>4, <1>5, <1>7 DEF Sound, Budgeted
<1>10. Heard(u)
  <2>1. CASE ~Connected(tile)
    BY <1>6, <1>7, <2>1 DEF Sound, Heard, Connected
  <2>2. CASE Connected(tile)
    <3> DEFINE owed == tile.conn.unanswered * PingEvery
    <3>1. /\ tile.conn.unanswered \in Nat /\ tile.conn.quiet \in Nat /\ tile.conn.mute \in Nat
          /\ conn.mute \in Nat
      BY <1>1, <1>6 DEF Connection
    <3>2. owed \in Nat
      BY <3>1, OneMorePing, DockAssumption
    <3>3. u.mode \in {"starting", "live"} =>
            tile.conn.unanswered < MaxUnanswered /\ tile.conn.mute <= owed + tile.conn.quiet
      BY <1>7, <2>2 DEF Sound, Heard
    <3>4. conn.unanswered * PingEvery = owed
      BY <1>6, <2>2
    <3> HIDE DEF owed
    <3>5. u.mode \in {"starting", "live"} =>
            conn.unanswered < MaxUnanswered /\ conn.mute <= owed + conn.quiet
      BY <1>6, <2>2, <3>1, <3>2, <3>3
    <3> QED BY <1>6, <1>7, <2>2, <3>4, <3>5 DEF Heard, Connected
  <2> QED BY <2>1, <2>2
<1> QED BY <1>2, <1>7, <1>8, <1>9, <1>10 DEF Sound

-----------------------------------------------------------------------------
(***************************************************************************)
(* The theorems.                                                           *)
(***************************************************************************)

LEMMA InitSound == Init => Sound(tile)
<1> SUFFICES ASSUME Init
             PROVE  Sound(tile)
  OBVIOUS
<1> DEFINE procs == [p \in Procs |-> NoProcess]
<1>1. procs \in [Procs -> Process] /\ \A p \in Procs : procs[p].at = "absent" /\ ~procs[p].reaped
  <2>1. NoProcess \in Process /\ NoProcess.at = "absent" /\ ~NoProcess.reaped
    BY DEF NoProcess, Process
  <2> QED BY <2>1
<1>2. <<>> \in Seq(Nat)
  OBVIOUS
<1> HIDE DEF procs
<1>3. tile = [mode |-> "waiting", reason |-> "none", timer |-> 0, conn |-> NoConnection,
              child |-> None, token |-> None, panel |-> FALSE, failures |-> <<>>,
              attempts |-> 0, passing |-> FALSE, procs |-> procs, forks |-> <<>>]
  BY DEF Init, procs
<1>4. /\ tile \in Tile /\ tile.conn = NoConnection /\ tile.child = None /\ tile.mode = "waiting"
      /\ tile.failures = <<>> /\ tile.forks = <<>> /\ tile.procs = procs
  BY <1>1, <1>2, <1>3, NoConnectionType DEF Tile, Modes, Reasons, ProcOrNone
<1>5. ~Connected(tile) /\ tile.conn.quiet = 0
  BY <1>4 DEF Connected, NoConnection
<1>6. Base(tile) /\ Linked(tile) /\ Launched(tile)
  BY <1>1, <1>4, <1>5, NoConnectionType, DockAssumption
  DEF Base, Typed, Attended, Linked, Launched, Running
<1>7. Heard(tile) /\ Budgeted(tile)
  BY <1>4, <1>5, ClearBudget, DockAssumption DEF Heard, Budgeted
<1> QED BY <1>6, <1>7 DEF Sound

LEMMA NextSound ==
  ASSUME Sound(tile), [Next]_vars
  PROVE  Sound(tile)' /\ Settles
<1>1. CASE UNCHANGED vars
  BY <1>1 DEF vars, Settles
<1>2. CASE Routine
  <2>1. CASE Tick
    BY <2>1, TickSound DEF Settles
  <2>2. CASE Loop
    <3>1. TRUE \in BOOLEAN
      OBVIOUS
    <3> QED BY <2>2, <3>1, PassStartsSound, HelloArrivesSound, ReadsSound, PassEndsSound DEF Loop
  <2>3. CASE Ending
    <3>1. PICK p \in Procs : tile' = Ended(tile, p, FALSE)
      BY <2>3 DEF Ending, Leaves
    <3>2. \E clean \in BOOLEAN : tile' = Ended(tile, p, clean)
      BY <3>1
    <3> QED BY <3>2, EndsSound DEF Settles
  <2>4. CASE ShellStarts
    BY <2>4, ShellStartsSound
  <2>5. CASE \E p \in Procs : Speaks(p, "frame") \/ ReadsWire(p)
    BY <2>5, TalkSound DEF FromPeer, Settles
  <2>6. CASE \E p \in Procs : SeesEof(p) \/ Reaped(p)
    BY <2>6, ProcessSound DEF Settles
  <2> QED BY <1>2, <2>1, <2>2, <2>3, <2>4, <2>5, <2>6 DEF Routine
<1>3. CASE Event
  <2>1. CASE ThemeChanges
    BY <2>1, ThemeChangesSound
  <2>2. CASE Input \/ Dismiss
    BY <2>2, QueuedSound
  <2>3. CASE UserRestart
    BY <2>3, UserRestartSound
  <2>4. CASE Remove \/ ShellExecs \/ SessionEnds
    BY <2>4, ShellGoesSound
  <2>5. CASE \E p \in Procs : HelloArrives(p, FALSE)
    <3>1. FALSE \in BOOLEAN
      OBVIOUS
    <3> QED BY <2>5, <3>1, HelloArrivesSound
  <2>6. CASE \E outcome \in {"noToken", "noProgram"} : PassEnds(outcome)
    BY <2>6, PassEndsSound
  <2>7. CASE \E p \in Procs, message \in {"openPanel", "closePanel", "bad"} : Speaks(p, message)
    BY <2>7, TalkSound DEF FromPeer, Settles
  <2>8. CASE \E p \in Procs, clean \in BOOLEAN : Exits(p, clean)
    BY <2>8, EndsSound DEF Exits, Settles
  <2>9. CASE \E p \in Procs : HangsUp(p) \/ Sticks(p)
    BY <2>9, EndsSound, ProcessSound DEF Settles
  <2> QED BY <1>3, <2>1, <2>2, <2>3, <2>4, <2>5, <2>6, <2>7, <2>8, <2>9 DEF Event
<1> QED BY <1>1, <1>2, <1>3 DEF Next, Steady

LEMMA SoundHolds == Spec => []Sound(tile)
<1>1. Sound(tile) /\ [Next]_vars => Sound(tile)'
  BY NextSound
<1> QED BY <1>1, InitSound, PTL DEF Spec

\* For any processes, policy, deadlines and bounds: the tile keeps its type, the
\* send queue its capacity and the socket what the kernel lets it hold.
\* (chonk-dock-proto/src/queue.rs, SendQueue::push; tile.rs, enqueue)
THEOREM TypeSafety == Spec => []TypeOK
<1>1. Sound(tile) => TypeOK
  BY DEF Sound, Base, Typed, TypeOK
<1> QED BY <1>1, SoundHolds, PTL

\* The slot is drawn in by the process it was last launched for, and by nobody
\* else, across restarts of the shell and of the process.
\* (tile.rs, awaiting_hello, adopt; mod.rs, admit)
THEOREM SlotSafety == Spec => []SlotIsItsOwn
<1>1. Sound(tile) => SlotIsItsOwn
  BY DEF Sound, Linked, Launched, SlotIsItsOwn
<1> QED BY <1>1, SoundHolds, PTL

\* No process this shell launched is left running and not told to leave, but the
\* one in the slot. (tile.rs, disconnected, user_restart, shut_down)
THEOREM NothingLeftSafety == Spec => []NothingLeftRunning
<1>1. Sound(tile) => NothingLeftRunning
  BY DEF Sound, Base, Attended, NothingLeftRunning
<1> QED BY <1>1, SoundHolds, PTL

\* Whatever the processes do, a crash window sees at most MAX_FAILURES launches
\* between two restarts by the user.
\* (tile.rs, LaunchBudget::record_failure, maybe_launch)
THEOREM LaunchSafety == Spec => []LaunchesBounded
<1>1. Sound(tile) => LaunchesBounded
  BY DEF Sound, Budgeted, Spent, Within, Recent, LaunchesBounded
<1> QED BY <1>1, SoundHolds, PTL

\* A tile shown as live is connected, and was heard of within the time its pings
\* allow. (tile.rs, check_liveness, next_service_deadline)
THEOREM ReadingSafety == Spec => []NoStaleReading
<1>1. Sound(tile) => NoStaleReading
  <2> SUFFICES ASSUME Sound(tile), tile.mode = "live"
               PROVE  Connected(tile) /\ tile.conn.mute <= MaxUnanswered * PingEvery
    BY DEF NoStaleReading
  <2> DEFINE n == tile.conn.unanswered
             owed == n * PingEvery
             rest == MaxUnanswered - (n + 1)
             spare == rest * PingEvery
             most == MaxUnanswered * PingEvery
  <2>1. /\ Connected(tile) /\ n < MaxUnanswered
        /\ tile.conn.mute <= owed + tile.conn.quiet /\ tile.conn.quiet <= PingEvery
    BY DEF Sound, Heard
  <2>2. n \in Nat /\ tile.conn.quiet \in Nat /\ tile.conn.mute \in Nat /\ PingEvery \in Nat /\ MaxUnanswered \in Nat
    BY DockAssumption DEF Sound, Base, Typed, Tile, Connection
  <2> HIDE DEF n
  <2>3. rest \in Nat /\ owed \in Nat /\ MaxUnanswered = n + 1 + rest
    BY <2>1, <2>2, OneMorePing
  <2>4. spare \in Nat
    BY <2>2, <2>3, OneMorePing
  <2>5. most = owed + PingEvery + spare
    <3> HIDE DEF rest
    <3> QED BY <2>2, <2>3
  <2> HIDE DEF owed, spare, most
  <2>6. tile.conn.mute <= most
    BY <2>1, <2>2, <2>3, <2>4, <2>5
  <2> QED BY <2>1, <2>6 DEF most
<1> QED BY <1>1, SoundHolds, PTL

\* A servicing pass leaves nothing of the tile's undone that was due in it.
\* (tile.rs, service, maybe_launch, next_service_deadline)
THEOREM PassSafety == Spec => PassSettles
<1>1. Sound(tile) /\ [Next]_vars => [tile.passing /\ ~tile'.passing => ~Overdue(tile')]_vars
  BY NextSound DEF Settles
<1> QED BY <1>1, SoundHolds, PTL DEF Spec, PassSettles
=============================================================================
