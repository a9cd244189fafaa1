------------------------------ MODULE DockTile ------------------------------
(* One dock tile that runs outside the shell: RemoteTile of                  *)
(* chonk-dock/src/dockapp/tile.rs with the processes launched for it, the    *)
(* socket between them, the admission of a Hello (dockapp/mod.rs), the       *)
(* bounded send queue (dock-proto/src/queue.rs) and the hand-over of its     *)
(* token across a restart of the shell (dockapp/handoff.rs).                 *)
(*                                                                           *)
(* A token is minted per launch and given to that process alone, so a token  *)
(* is the process it was minted for; None is a token no process holds.       *)
(* Time is counted in ticks: a deadline is the number of ticks left to it,   *)
(* an instant in the past is its age, and an age stops at the bound the code *)
(* compares it with.  The dock's servicing pass is one thread: it starts, it *)
(* reads the socket message by message while the peer goes on, and it ends;  *)
(* the clock it was given does not move meanwhile.                           *)
EXTENDS Integers, Sequences, Orders

CONSTANTS
  Procs,         \* processes
  None,
  Policy,        \* RestartPolicy: "never", "onCrash", "always"
  PingEvery,     \* PING_INTERVAL
  MaxUnanswered, \* UNANSWERED_PINGS_BEFORE_HUNG
  Grace,         \* HANDSHAKE_GRACE
  RejoinWindow,  \* REJOIN_WINDOW, and the client's RECONNECT_WINDOW
  CrashWindow,   \* CRASH_LOOP_WINDOW
  MaxFailures,   \* LaunchBudget::MAX_FAILURES
  Backoff,       \* LaunchBudget::BACKOFF_SECONDS
  Capacity,      \* SEND_QUEUE_CAPACITY
  Overflow,      \* SUSTAINED_OVERFLOW
  Room,          \* bound: messages the kernel holds towards the peer
  MaxInbox,      \* bound: messages the kernel holds towards the shell
  MaxEvents      \* bound: events out of the routine

ASSUME DockAssumption ==
  /\ None \notin Procs
  /\ Policy \in {"never", "onCrash", "always"}
  /\ PingEvery \in Nat \ {0} /\ MaxUnanswered \in Nat \ {0}
  /\ Grace \in Nat \ {0} /\ RejoinWindow \in Nat
  /\ CrashWindow \in Nat \ {0} /\ MaxFailures \in Nat \ {0}
  /\ Backoff \in Seq(Nat \ {0}) /\ Backoff # <<>>
  /\ Capacity \in Nat /\ Capacity >= 2 /\ Overflow \in Nat
  /\ Room \in Nat /\ MaxInbox \in Nat /\ MaxEvents \in Nat

VARIABLES
  tile,   \* RemoteTile, its socket, its processes
  spent   \* events of the user, the desktop and the processes, of MaxEvents

vars == <<tile, spent>>

ProcOrNone == Procs \cup {None}
Policies == {"never", "onCrash", "always"}

\* TileState, and "off": no shell is running.
Modes == {"waiting", "starting", "rejoining", "live", "hung", "stopped", "off"}
Reasons == {"none", "crashLooped", "policyNever", "cleanExit", "removed"}

\* What travels: the shell's pings among everything else it says, and the
\* messages of a dockapp that change something.
ToPeer == {"ping", "other"}
FromPeer == {"frame", "pong", "openPanel", "closePanel", "bad"}

Process == [
  at        : {"absent", "starting", "serving", "knocking", "astray", "exited"},
  stuck     : BOOLEAN,   \* does not run its event loop
  clean     : BOOLEAN,   \* exited with success
  reaped    : BOOLEAN,   \* the reaper thread has recorded the exit
  asked     : BOOLEAN,   \* got SIGTERM
  inherited : BOOLEAN]   \* launched by a shell that is gone

NoProcess == [at |-> "absent", stuck |-> FALSE, clean |-> FALSE, reaped |-> FALSE,
              asked |-> FALSE, inherited |-> FALSE]

Never == -1

Connection == [
  peer       : ProcOrNone,          \* None: no connection
  queue      : Seq(ToPeer),         \* SendQueue
  full       : {Never} \cup Nat,    \* age of overflow_since
  wire       : Seq(ToPeer),         \* sent, not yet read by the peer
  box        : Seq(FromPeer),       \* sent by the peer, not yet read
  eof        : BOOLEAN,             \* the peer closed its end
  current    : BOOLEAN,             \* told is the theme of the dock
  unanswered : Nat,
  quiet      : Nat,                 \* age of last_ping
  age        : Nat,                 \* age of since
  mute       : Nat]                 \* history: age of the last answer read

NoConnection == [peer |-> None, queue |-> <<>>, full |-> Never, wire |-> <<>>,
                 box |-> <<>>, eof |-> FALSE, current |-> TRUE,
                 unanswered |-> 0, quiet |-> 0, age |-> 0, mute |-> 0]

Tile == [
  mode     : Modes,
  reason   : Reasons,
  timer    : Nat,           \* waiting, rejoining: ticks left; starting: age
  conn     : Connection,
  child    : ProcOrNone,
  token    : ProcOrNone,    \* when off: the token in the handoff file
  panel    : BOOLEAN,
  failures : Seq(Nat),      \* ages, oldest first
  attempts : Nat,
  passing  : BOOLEAN,       \* inside a servicing pass, reading the socket
  procs    : [Procs -> Process],
  forks    : Seq(Nat)]      \* history: ages of the launches of this budget

-----------------------------------------------------------------------------
Connected(t) == t.conn.peer # None
Up(t) == t.mode # "off"
Running(p) == p.at \notin {"absent", "exited"}
Least(a, b) == IF a < b THEN a ELSE b
Recent(s) == Keep(s, 0 .. CrashWindow - 1)

LetGo(t) == [t EXCEPT !.child = None]  \* mutant

AskToLeave(t) ==
  IF t.child = None THEN t
  ELSE [t EXCEPT !.procs[t.child].asked = TRUE, !.child = None]

Stopped(t, reason) == [t EXCEPT !.mode = "stopped", !.reason = reason, !.timer = 0]
Waiting(t, ticks) == [t EXCEPT !.mode = "waiting", !.reason = "none", !.timer = ticks]

\* LaunchBudget::record_failure, and the fate it decides.
Failed(t, stable) ==
  LET failures == Append(Recent(t.failures), 0)
      attempts == IF stable THEN 0 ELSE t.attempts
      step == Least(attempts + 1, Len(Backoff))
  IN IF Len(failures) >= MaxFailures
     THEN Stopped([t EXCEPT !.failures = failures], "crashLooped")
     ELSE Waiting([t EXCEPT !.failures = failures, !.attempts = step], Backoff[step])

Disconnected(t) ==
  LET stable == Connected(t) /\ t.conn.age >= CrashWindow
      reported == t.child # None /\ t.procs[t.child].reaped
      clean == reported /\ t.procs[t.child].clean
      alone == [t EXCEPT !.conn = NoConnection, !.panel = FALSE]
      left == IF reported THEN [alone EXCEPT !.child = None] ELSE AskToLeave(alone)
  IN CASE Policy = "never" -> Stopped(left, "policyNever")
       [] Policy = "onCrash" /\ clean -> Stopped(left, "cleanExit")
       [] OTHER -> Failed(left, stable)

-----------------------------------------------------------------------------
(* The send queue.                                                           *)

EnqueueAlways(t, message) ==  \* mutant: no bound
  IF Connected(t) THEN [t EXCEPT !.conn.queue = Append(@, message)] ELSE t

Enqueue(t, message) ==
  LET since == IF t.conn.full = Never THEN 0 ELSE t.conn.full
      pushed == [t EXCEPT !.conn = [@ EXCEPT !.queue = Append(Tail(t.conn.queue), message),
                                             !.full = since]]
  IN CASE ~Connected(t) -> t
       [] Connected(t) /\ Len(t.conn.queue) < Capacity ->
            [t EXCEPT !.conn = [@ EXCEPT !.queue = Append(t.conn.queue, message), !.full = Never]]
       [] Connected(t) /\ Len(t.conn.queue) >= Capacity /\ since < Overflow -> pushed
       [] OTHER -> Disconnected(pushed)

Flush(t) ==
  LET n == Least(Len(t.conn.queue), Room - Len(t.conn.wire))
      rest == SubSeq(t.conn.queue, n + 1, Len(t.conn.queue))
  IN CASE ~Connected(t) \/ t.conn.queue = <<>> -> t
       [] Connected(t) /\ t.conn.queue # <<>> /\ t.conn.eof -> Disconnected(t)
       [] OTHER -> [t EXCEPT !.conn = [@ EXCEPT
                      !.queue = rest,
                      !.wire = t.conn.wire \o SubSeq(t.conn.queue, 1, n),
                      !.full = IF rest = <<>> THEN Never ELSE t.conn.full]]

ClosePanel(t) ==
  IF t.panel THEN Flush(Enqueue([t EXCEPT !.panel = FALSE], "other")) ELSE t

-----------------------------------------------------------------------------
(* Admission.                                                                *)

AwaitingHello(t) == t.mode \in {"starting", "rejoining"} /\ ~Connected(t)

AdoptForgiving(t, p) ==  \* mutant: a success clears the budget
  [t EXCEPT !.conn = [NoConnection EXCEPT !.peer = p, !.queue = <<"other", "other">>],
            !.mode = "starting", !.timer = 0, !.failures = <<>>,
            !.procs[p].at = "serving"]

Adopt(t, p) ==
  [t EXCEPT !.procs[p].at = "serving",
            !.conn = [NoConnection EXCEPT !.peer = p, !.queue = <<"other", "other">>],
            !.mode = "starting", !.timer = 0]

Refuse(t, p) == [t EXCEPT !.procs[p].at = "astray"]

AdmitAnyToken(t, p, fits) ==  \* mutant
  IF AwaitingHello(t) /\ fits THEN Adopt(t, p) ELSE Refuse(t, p)

\* fits: it asked for the height the tile is registered with.
Admit(t, p, fits) ==
  IF AwaitingHello(t) /\ t.token = p /\ fits THEN Adopt(t, p) ELSE Refuse(t, p)

-----------------------------------------------------------------------------
(* The parts of a servicing pass.                                            *)

\* "bad": undecodable, a second Hello, a malformed frame or band, or a panel
\* message of a protocol-1 client.  A panel is granted or refused.
Handled(t, message, granted) ==
  CASE message = "frame" ->
         IF t.mode = "starting" THEN [t EXCEPT !.mode = "live", !.timer = 0] ELSE t
    [] message = "pong" ->
         [t EXCEPT !.conn = [@ EXCEPT !.unanswered = 0, !.mute = 0],
                   !.mode = IF @ = "hung" THEN "live" ELSE @]
    [] message = "openPanel" ->
         Flush(Enqueue([t EXCEPT !.panel = @ \/ granted], "other"))
    [] message = "closePanel" -> ClosePanel(t)
    [] OTHER -> Disconnected(t)

PushTheme(t) ==
  IF Connected(t) /\ ~t.conn.current
  THEN Enqueue([t EXCEPT !.conn.current = TRUE], "other") ELSE t

CheckLivenessBefore(t) ==  \* mutant: the count before this ping
  LET pinged == Enqueue([t EXCEPT !.conn = [@ EXCEPT
                          !.quiet = 0, !.unanswered = Least(t.conn.unanswered + 1, MaxUnanswered)]], "ping")
  IN CASE ~Connected(t) \/ t.conn.quiet < PingEvery -> t
       [] Connected(t) /\ t.conn.quiet >= PingEvery /\ t.conn.unanswered >= MaxUnanswered ->
            ClosePanel([pinged EXCEPT !.mode = "hung", !.timer = 0])
       [] OTHER -> pinged

\* The ping may cost the tile its connection, and the count taken before it
\* is acted on whatever happened.
CheckLiveness(t) ==
  LET count == Least(t.conn.unanswered + 1, MaxUnanswered)
      pinged == Enqueue([t EXCEPT !.conn = [@ EXCEPT !.quiet = 0, !.unanswered = count]], "ping")
      hung == [pinged EXCEPT !.mode = "hung", !.reason = "none", !.timer = 0]
  IN CASE ~Connected(t) \/ t.conn.quiet < PingEvery -> t
       [] Connected(t) /\ t.conn.quiet >= PingEvery
            /\ count >= MaxUnanswered /\ pinged.mode # "hung" -> ClosePanel(hung)
       [] OTHER -> pinged

Free(t) == {p \in Procs : ~Running(t.procs[p]) /\ p # t.child}
LaunchOutcomes(t) == Free(t) \cup {"noToken", "noProgram"}

Launch(t, outcome) ==
  LET forked == [t EXCEPT !.forks = Append(Recent(@), 0), !.token = None]
  IN CASE outcome = "noToken" -> Stopped(t, "crashLooped")
       [] outcome = "noProgram" -> Disconnected(forked)
       [] OTHER -> [forked EXCEPT !.procs[outcome] = [NoProcess EXCEPT !.at = "starting"],
                                  !.mode = "starting", !.reason = "none", !.timer = 0,
                                  !.token = outcome, !.child = outcome]

Due(t) == t.mode \in {"waiting", "rejoining"} /\ t.timer = 0
Late(t) == t.mode = "starting" /\ ~Connected(t) /\ t.timer >= Grace

LaunchWaiting(t, outcome) ==  \* mutant: an unclaimed slot is forgotten
  CASE t.mode = "waiting" /\ t.timer = 0 -> Launch(t, outcome)
    [] Late(t) -> Disconnected(t)
    [] OTHER -> t

MaybeLaunch(t, outcome) ==
  CASE Due(t) -> Launch(t, outcome)
    [] Late(t) -> Disconnected(t)
    [] OTHER -> t

-----------------------------------------------------------------------------
(* The shell's steps.                                                        *)

Idle == Up(tile) /\ ~tile.passing

PassStarts ==
  /\ Idle
  /\ tile' = [tile EXCEPT !.passing = TRUE]

\* A Hello waiting at the listener when the pass starts.
HelloArrives(p, fits) ==
  /\ Idle
  /\ tile.procs[p].at \in {"starting", "knocking"}
  /\ tile' = [Admit(tile, p, fits) EXCEPT !.passing = TRUE]

Reads(granted) ==
  /\ tile.passing
  /\ tile.conn.box # <<>>
  /\ tile' = Handled([tile EXCEPT !.conn.box = Tail(@)], Head(tile.conn.box), granted)

\* Everything was read: EOF, theme, ping, flush, launch.
PassEnds(outcome) ==
  /\ tile.passing
  /\ tile.conn.box = <<>>
  /\ LET heard == IF tile.conn.eof THEN Disconnected(tile) ELSE tile
         served == Flush(CheckLiveness(PushTheme(heard)))
     IN /\ Due(served) => outcome \in LaunchOutcomes(served)
        /\ tile' = [MaybeLaunch(served, outcome) EXCEPT !.passing = FALSE]

ThemeChanges ==
  /\ Idle
  /\ Connected(tile)
  /\ tile' = [tile EXCEPT !.conn.current = FALSE]

\* A pointer event the dockapp wants.
Input ==
  /\ Idle
  /\ tile.mode = "live"
  /\ tile' = Enqueue(tile, "other")

\* The desktop takes the panel down.
Dismiss ==
  /\ Idle
  /\ tile' = ClosePanel(tile)

\* A press on a hung or stopped face, or Restart in the tile's menu.
UserRestart ==
  /\ Idle
  /\ tile' = LET left == AskToLeave(ClosePanel(tile))
             IN Waiting([left EXCEPT !.conn = NoConnection, !.failures = <<>>,
                                     !.attempts = 0, !.forks = <<>>], 0)

ShutDown(t) ==
  LET left == AskToLeave(ClosePanel(t))
  IN Stopped([left EXCEPT !.conn = NoConnection], "removed")

Remove ==
  /\ Idle
  /\ tile' = ShutDown(tile)

-----------------------------------------------------------------------------
(* A restart of the shell, and the end of a session.                         *)

WorthKeeping(t) == t.mode \in {"starting", "live", "rejoining"}

\* What a process has lost when the shell that launched it is gone.
Orphaned(t) ==
  [t EXCEPT !.mode = "off", !.reason = "none", !.timer = 0, !.failures = <<>>,
            !.attempts = 0, !.forks = <<>>,
            !.procs = [p \in Procs |-> [t.procs[p] EXCEPT !.inherited = TRUE]]]

HandOff(t) == [t EXCEPT !.conn = NoConnection, !.panel = FALSE, !.child = None]

ShellExecs ==
  /\ Idle
  /\ tile' = IF WorthKeeping(tile) THEN Orphaned(HandOff(tile))
             ELSE Orphaned([ShutDown(tile) EXCEPT !.token = None])

SessionEnds ==
  /\ Idle
  /\ tile' = Orphaned([ShutDown(tile) EXCEPT !.token = None])

ShellStarts ==
  /\ ~Up(tile)
  /\ tile' = IF tile.token = None THEN Waiting(tile, 0)
             ELSE [tile EXCEPT !.mode = "rejoining", !.timer = RejoinWindow]

-----------------------------------------------------------------------------
(* The processes: the client library, and what the kernel does to them.      *)

\* A message of the peer; a pong only answers a ping.
Speaks(p, message) ==
  /\ tile.conn.peer = p /\ ~tile.conn.eof
  /\ tile.procs[p].at = "serving" /\ ~tile.procs[p].stuck
  /\ Len(tile.conn.box) < MaxInbox
  /\ tile' = [tile EXCEPT !.conn.box = Append(@, message)]

ReadsWire(p) ==
  /\ tile.conn.peer = p /\ ~tile.conn.eof
  /\ tile.procs[p].at = "serving" /\ ~tile.procs[p].stuck
  /\ tile.conn.wire # <<>>
  /\ Len(tile.conn.box) < MaxInbox
  /\ tile' = [tile EXCEPT !.conn = [@ EXCEPT
                 !.wire = Tail(tile.conn.wire),
                 !.box = IF Head(tile.conn.wire) = "ping"
                         THEN Append(tile.conn.box, "pong") ELSE tile.conn.box]]

\* After an EOF it knocks again, after a Goodbye it leaves.
SeesEof(p) ==
  /\ tile.conn.peer # p
  /\ tile.procs[p].at = "serving" /\ ~tile.procs[p].stuck
  /\ tile' = [tile EXCEPT !.procs[p].at = "knocking"]

\* The socket of p, closed at its end.
Closed(t, p) == IF t.conn.peer = p THEN [t EXCEPT !.conn.eof = TRUE] ELSE t

Ended(t, p, clean) ==
  [Closed(t, p) EXCEPT !.procs[p] =
     IF t.child = p THEN [@ EXCEPT !.at = "exited", !.clean = clean, !.stuck = FALSE]
     ELSE NoProcess]

\* Of its own accord; a stuck process only ends by a signal.
Exits(p, clean) ==
  /\ Running(tile.procs[p])
  /\ clean => ~tile.procs[p].stuck
  /\ tile' = Ended(tile, p, clean)

\* Told to by SIGTERM or a Goodbye, or at the end of its RECONNECT_WINDOW.
Leaves(p) ==
  /\ Running(tile.procs[p])
  /\ \/ tile.procs[p].asked
     \/ /\ ~tile.procs[p].stuck
        /\ \/ tile.procs[p].at \in {"knocking", "astray"}
           \/ tile.procs[p].at = "starting" /\ tile.procs[p].inherited
  /\ tile' = Ended(tile, p, FALSE)

\* Closes its socket and goes on running.
HangsUp(p) ==
  /\ tile.procs[p].at = "serving" /\ ~tile.procs[p].stuck
  /\ tile' = [Closed(tile, p) EXCEPT !.procs[p].at = "astray"]

Reaped(p) ==
  /\ tile.child = p /\ tile.procs[p].at = "exited"
  /\ ~tile.procs[p].reaped
  /\ tile' = [tile EXCEPT !.procs[p].reaped = TRUE]

Sticks(p) ==
  /\ Running(tile.procs[p])
  /\ tile' = [tile EXCEPT !.procs[p].stuck = ~@]

Older(s) == [i \in DOMAIN s |-> Least(s[i] + 1, CrashWindow)]

\* The loop sleeps until next_service_deadline, so no deadline is a tick late.
Overdue(t) ==
  \/ Connected(t) /\ t.conn.quiet >= PingEvery
  \/ Due(t)
  \/ Late(t)

Aged(conn) ==
  [conn EXCEPT !.quiet = Least(conn.quiet + 1, PingEvery),
               !.age = Least(conn.age + 1, CrashWindow),
               !.mute = Least(conn.mute + 1, MaxUnanswered * PingEvery + 1),
               !.full = IF conn.full = Never THEN Never ELSE Least(conn.full + 1, Overflow)]

Tick ==
  /\ ~tile.passing
  /\ ~Overdue(tile)
  /\ tile' = [tile EXCEPT
       !.timer = IF tile.mode = "starting" THEN Least(@ + 1, Grace)
                 ELSE IF @ = 0 THEN 0 ELSE @ - 1,
       !.failures = Older(@),
       !.forks = Recent(Older(@)),
       !.conn = IF ~Connected(tile) THEN @ ELSE Aged(@)]

-----------------------------------------------------------------------------
Init ==
  /\ spent = 0
  /\ tile = [mode |-> "waiting", reason |-> "none", timer |-> 0, conn |-> NoConnection,
          child |-> None, token |-> None, panel |-> FALSE, failures |-> <<>>,
          attempts |-> 0, passing |-> FALSE, procs |-> [p \in Procs |-> NoProcess],
          forks |-> <<>>]

Loop ==
  \/ PassStarts
  \/ \E p \in Procs : HelloArrives(p, TRUE)
  \/ \E granted \in BOOLEAN : Reads(granted)
  \/ \E outcome \in Procs : PassEnds(outcome)

Ending == \E p \in Procs : Leaves(p)

Routine ==
  \/ Tick \/ Loop \/ Ending \/ ShellStarts
  \/ \E p \in Procs : Speaks(p, "frame") \/ ReadsWire(p) \/ SeesEof(p) \/ Reaped(p)

Event ==
  \/ ThemeChanges \/ Input \/ Dismiss \/ UserRestart \/ Remove
  \/ ShellExecs \/ SessionEnds
  \/ \E p \in Procs : HelloArrives(p, FALSE)
  \/ \E outcome \in {"noToken", "noProgram"} : PassEnds(outcome)
  \/ \E p \in Procs, message \in {"openPanel", "closePanel", "bad"} : Speaks(p, message)
  \/ \E p \in Procs, clean \in BOOLEAN : Exits(p, clean)
  \/ \E p \in Procs : HangsUp(p) \/ Sticks(p)

Steady(A) == A /\ UNCHANGED spent

Next ==
  \/ Steady(Routine)
  \/ Event /\ spent < MaxEvents /\ spent' = spent + 1

Spec == Init /\ [][Next]_vars

-----------------------------------------------------------------------------
(* Properties.                                                               *)

\* Every component of the tile has its type, the send queue never exceeds its
\* capacity whatever is queued by a pass, an input, a theme or a panel
\* (SendQueue::push), and the socket holds what the kernel lets it hold.
TypeOK ==
  /\ tile \in Tile
  /\ Len(tile.conn.queue) <= Capacity
  /\ Len(tile.conn.wire) <= Room

\* The process that draws in the slot is the one the slot was last launched
\* for: the child when this shell launched it, the holder of the inherited
\* token otherwise.  Whatever was launched earlier and knocks later, before or
\* after a restart of the shell, is refused (awaiting_hello, admit, launch).
SlotIsItsOwn ==
  Connected(tile) => tile.conn.peer = IF tile.child # None THEN tile.child ELSE tile.token

\* Of the processes this shell launched only the current one still runs
\* without having been told to leave: however its predecessors lost the slot,
\* by a disconnection, an expired handshake, a restart by the user or the end
\* of the tile, the user never pays for two (disconnected, user_restart,
\* shut_down).
NothingLeftRunning ==
  \A p \in Procs :
    Running(tile.procs[p]) /\ ~tile.procs[p].asked /\ ~tile.procs[p].inherited
      => p = tile.child

\* Between two restarts asked for by the user, a crash window sees at most
\* MAX_FAILURES launches, whatever mixture of crashes, connections that
\* succeed, overflows, refusals and missing programs it is made of: the tile is
\* not a fork bomb (LaunchBudget, record_failure, maybe_launch).
LaunchesBounded == Len(Recent(tile.forks)) <= MaxFailures

\* A tile shown as live has a dockapp that answered a ping within the time the
\* pings allow it: a stale reading is dimmed before it is older than that
\* (check_liveness, next_service_deadline).
NoStaleReading ==
  tile.mode = "live" => Connected(tile) /\ tile.conn.mute <= MaxUnanswered * PingEvery

\* A servicing pass leaves no deadline of the tile behind it: the ping is sent,
\* the launch that is due is made, the handshake that is late is given up.  The
\* loop sleeps until next_service_deadline, so one left behind would have it
\* spin (service, maybe_launch, next_service_deadline).
PassSettles == [][tile.passing /\ ~tile'.passing => ~Overdue(tile')]_vars
=============================================================================
