------------------------------ MODULE Capture ------------------------------
(* Screenshots and recordings: the capture tool of the compositor           *)
(* (wm-wayland/src/capture_tool.rs) and the worker thread that does its I/O  *)
(* (capture_tool/worker.rs), with the two bounded channels between them.     *)
(*                                                                           *)
(* The compositor's side is `desk` and its steps are key bindings, clicks on *)
(* the overlay and the tick of a dispatch pass; the worker's side is         *)
(* `worker`.  Each owns the channel it sends on.  Neither ever waits for the *)
(* other, except at logout.  A photograph is only the place it goes to.  The *)
(* files a job writes, notifications, previews and review windows are left   *)
(* out, and so is where on the screen the selection is.                      *)
EXTENDS Integers, Sequences, FiniteSets

CONSTANTS
  JobRoom,       \* capacity of the channel of jobs
  UpdateRoom,    \* capacity of the channel of updates
  MaxShots,      \* photographs under way at once
  MaxClipboard,  \* MAX_CLIPBOARD_JOBS
  Destinations,  \* where photographs go in this instance
  None

ASSUME CaptureAssumption ==
  /\ JobRoom \in Nat \ {0} /\ UpdateRoom \in Nat \ {0}
  /\ MaxShots \in Nat \ {0} /\ MaxClipboard \in Nat \ {0}
  /\ Destinations \subseteq {"legacy", "file", "clipboard"}
  /\ None \notin {"legacy", "file", "clipboard"}

\* The sizes the code has are 2, 8, 2 and 2.  The worker drops an update that
\* finds no room and the clipboard refuses one photograph too many; both matter,
\* and neither can happen with rooms like these.
ASSUME RoomAssumption ==
  /\ UpdateRoom >= MaxShots + JobRoom + 4
  /\ MaxClipboard >= MaxShots

VARIABLES
  desk,     \* the capture tool: Service, Overlay
  worker,   \* the worker thread and its children
  locked,   \* WaylandBackend::locked
  life      \* of the compositor: "up", "leaving", "joining", "over"

vars == <<desk, worker, locked, life>>

DestinationOrNone == Destinations \cup {None}

Shot(to) == [kind |-> "shot", to |-> to]
Plain(kind) == [kind |-> kind, to |-> None]
Shots == {Shot(to) : to \in Destinations}
Job == Shots \cup {Plain(k) : k \in {"record", "stop", "error", "shutdown"}}
NoJob == Plain("none")

Desk == [
  ui          : {"none", "select", "badge"},   \* capture_ui
  recording   : BOOLEAN,
  finishing   : BOOLEAN,
  screenshots : Nat,                           \* photographs charged
  downloads   : Seq(DestinationOrNone),        \* None: canceled, not yet read
  jobs        : Seq(Job)]

\* The wl-copy that is being watched for its first moments.
Candidate == [to : DestinationOrNone, at : {"none", "probing", "ended"}]
NoCandidate == [to |-> None, at |-> "none"]

Worker == [
  pc        : {"wait", "work", "left"},
  job       : Job \cup {NoJob},
  recorder  : {"none", "running", "exited"},
  candidate : Candidate,
  waiting   : Seq(Destinations),
  temporary : Nat,                             \* files to remove afterwards
  updates   : Seq({"shotDone", "ended"})]

-----------------------------------------------------------------------------
(* The compositor.                                                           *)

Accepts(d) == Len(d.jobs) < JobRoom
Submitted(d, job) == IF Accepts(d) THEN [d EXCEPT !.jobs = Append(@, job)] ELSE d

Refunded(d) == [d EXCEPT !.screenshots = IF @ = 0 THEN 0 ELSE @ - 1]
Dismissed(d) == [d EXCEPT !.ui = "none"]

HasRoomByCount(d) == d.screenshots < MaxShots  \* mutant: canceled downloads forgotten

HasRoom(d) == d.screenshots < MaxShots /\ Len(d.downloads) < MaxShots

PhotographedEarly(d, to, readable) ==  \* mutant: charged before the pixels are there
  IF ~HasRoom(d) THEN Submitted(d, Plain("error"))
  ELSE IF readable THEN [d EXCEPT !.downloads = Append(@, to), !.screenshots = @ + 1]
  ELSE Submitted([d EXCEPT !.screenshots = @ + 1], Plain("error"))

\* photograph: readable is whether the pixels could be captured.
Photographed(d, to, readable) ==
  IF HasRoom(d) /\ readable
  THEN [d EXCEPT !.downloads = Append(@, to), !.screenshots = @ + 1]
  ELSE Submitted(d, Plain("error"))

StoppedUnsent(d) ==  \* mutant: finishing without a place for the job
  IF d.recording /\ ~d.finishing
  THEN [Submitted(d, Plain("stop")) EXCEPT !.finishing = TRUE]
  ELSE d

\* stop: once, and not before the job has its place in the channel.
Stopped(d) ==
  IF d.recording /\ ~d.finishing /\ Accepts(d)
  THEN [Submitted(d, Plain("stop")) EXCEPT !.finishing = TRUE]
  ELSE d

\* One photograph of service_screenshots.  Canceled by the lock or by its age it
\* is refunded at once, and keeps its slot until the GPU has let go of it; pixels
\* that cannot be copied end like a cancellation.
Served(d, to, ready, late) ==
  LET canceled == to # None /\ (locked \/ late)
      left == IF canceled THEN None ELSE to
      s == IF canceled THEN Submitted(Refunded(d), Plain("error")) ELSE d
  IN  IF ~ready THEN [s EXCEPT !.downloads = Append(@, left)]
      ELSE IF left = None THEN s
      ELSE IF Accepts(s) THEN Submitted(s, Shot(left))
      ELSE Refunded(s)

AllServed(d, ready, late) ==
  LET n == Len(d.downloads)
      after[i \in 0 .. n] ==
        IF i = 0 THEN [d EXCEPT !.downloads = <<>>]
        ELSE Served(after[i - 1], d.downloads[i], i \in ready, i \in late)
  IN  after[n]

\* An end says nothing of which recording ended.
Informed(d, update) ==
  IF update = "shotDone" THEN Refunded(d)
  ELSE [Dismissed(d) EXCEPT !.recording = FALSE, !.finishing = FALSE]

AllInformed(d, updates) ==
  LET after[i \in 0 .. Len(updates)] ==
        IF i = 0 THEN d ELSE Informed(after[i - 1], updates[i])
  IN  after[Len(updates)]

Ticked(d, due, ready, late) ==
  LET served == IF due THEN AllServed(d, ready, late) ELSE d
      quiet == IF served.ui = "select" THEN Dismissed(served) ELSE served
  IN  AllInformed(IF locked THEN Stopped(quiet) ELSE served, worker.updates)

-----------------------------------------------------------------------------
(* The worker.                                                               *)

\* try_send: an update that finds no room is gone.
Sent(w, update) ==
  IF Len(w.updates) < UpdateRoom THEN [w EXCEPT !.updates = Append(@, update)] ELSE w

\* The end of a photograph: its slot is given back, its temporary file removed.
Settled(w, to) ==
  LET s == Sent(w, "shotDone")
  IN  IF to = "clipboard" THEN [s EXCEPT !.temporary = @ - 1] ELSE s

\* The watched child outlived its deadline, and serves from now on, or it left.
Resolved(w) ==
  IF w.candidate.at = "ended"
  THEN Settled([w EXCEPT !.candidate = NoCandidate], w.candidate.to)
  ELSE w

\* A photograph whose wl-copy does not start.
Unlaunched(w) == Settled([w EXCEPT !.waiting = Tail(@)], Head(w.waiting))

\* With none watched the next is launched; the first `failing` do not start.
Launched(w, failing) ==
  LET n == IF failing < Len(w.waiting) THEN failing ELSE Len(w.waiting)
      after[i \in 0 .. n] == IF i = 0 THEN w ELSE Unlaunched(after[i - 1])
      rest == after[n].waiting
  IN  IF w.candidate # NoCandidate THEN w
      ELSE IF rest = <<>> THEN after[n]
      ELSE [after[n] EXCEPT !.candidate = [to |-> Head(rest), at |-> "probing"],
                            !.waiting = Tail(rest)]

ClipboardHasRoom(w) ==
  Len(w.waiting) + (IF w.candidate = NoCandidate THEN 0 ELSE 1) < MaxClipboard

\* Job::Screenshot.
Stored(w, to, works) ==
  IF ~works \/ to = "file" THEN Sent(w, "shotDone")
  ELSE LET s == IF to = "clipboard" THEN [w EXCEPT !.temporary = @ + 1] ELSE w
       IN  IF ClipboardHasRoom(s) THEN [s EXCEPT !.waiting = Append(@, to)]
           ELSE Settled(s, to)

\* Job::Record: a second recorder is never started.
Recorded(w, works) ==
  IF w.recorder # "none" THEN w
  ELSE IF works THEN [w EXCEPT !.recorder = "running"]
  ELSE Sent(w, "ended")

\* Job::Stop is answered whether or not there is a recorder to finish.
Finished(w) == Sent([w EXCEPT !.recorder = "none"], "ended")

Retired(w) == [w EXCEPT !.pc = "left", !.recorder = "none",
                        !.candidate = NoCandidate, !.waiting = <<>>, !.temporary = 0]

Performed(w, works) ==
  CASE w.job.kind = "shot" -> Stored(w, w.job.to, works)
    [] w.job.kind = "record" -> Recorded(w, works)
    [] w.job.kind = "stop" -> Finished(w)
    [] w.job.kind = "error" -> w

\* The end of a turn of the loop, which looks for a recorder that left by itself.
Watched(w) ==
  IF w.recorder = "exited" THEN Sent([w EXCEPT !.recorder = "none"], "ended") ELSE w

\* After a photograph that is settled at once the loop continues past that look.
Skips(w, works) ==
  /\ w.job.kind = "shot" /\ works
  /\ \/ w.job.to = "file"
     \/ w.job.to = "clipboard" /\ ~ClipboardHasRoom(w)

\* From the end of one turn to the wait of the next.
Turned(w, failing) == [Launched(Resolved(w), failing) EXCEPT !.pc = "wait", !.job = NoJob]

-----------------------------------------------------------------------------
(* Steps of the compositor.                                                  *)

Desktop(d) == life = "up" /\ desk' = d /\ UNCHANGED <<worker, locked, life>>

\* A photograph of the whole screen needs no selection.
BeginScreen(to, readable) == ~locked /\ Desktop(Photographed(desk, to, readable))

\* The key for stopping, the toolbar's while recording, or a click on the badge.
Stops == desk.recording /\ Desktop(Stopped(desk))

BeginSelection ==
  /\ ~locked /\ ~desk.recording /\ ~desk.finishing /\ desk.ui # "select"
  /\ Desktop([desk EXCEPT !.ui = "select"])

\* Escape, the other button, the same key again, a display that goes, a seat that
\* is taken away, an exclusive layer or a grab that comes.
Dismisses == desk.ui = "select" /\ Desktop(Dismissed(desk))

CommitPhotograph(to, readable) ==
  /\ ~locked /\ desk.ui = "select"
  /\ Desktop(LET d == Photographed(desk, to, readable)
             IN  IF HasRoom(desk) /\ readable THEN Dismissed(d) ELSE d)

\* representable: the area is within one display and on its capture grid.
CommitRecording(representable) ==
  /\ ~locked /\ desk.ui = "select"
  /\ Desktop(IF ~representable THEN Submitted(desk, Plain("error"))
             ELSE IF Accepts(desk)
             THEN [Submitted(desk, Plain("record")) EXCEPT !.recording = TRUE, !.ui = "badge"]
             ELSE desk)

\* The tick of a dispatch pass.  due: the poll of the downloads is; ready: the GPU
\* has written them; late: they are older than the time allowed to one.
Tick(due, ready, late) ==
  /\ life = "up"
  /\ desk' = Ticked(desk, due, ready, late)
  /\ worker' = [worker EXCEPT !.updates = <<>>]
  /\ UNCHANGED <<locked, life>>

LockChanges == life = "up" /\ locked' = ~locked /\ UNCHANGED <<desk, worker, life>>

\* Drop for Worker, at logout only: the one send that waits, and the join.
LogsOut == life = "up" /\ life' = "leaving" /\ UNCHANGED <<desk, worker, locked>>

SendsShutdown ==
  /\ life = "leaving" /\ Accepts(desk)
  /\ desk' = Submitted(desk, Plain("shutdown"))
  /\ life' = "joining"
  /\ UNCHANGED <<worker, locked>>

Joins ==
  /\ life = "joining" /\ worker.pc = "left"
  /\ life' = "over"
  /\ UNCHANGED <<desk, worker, locked>>

\* The one place where everything may stop.
Over == life = "over" /\ UNCHANGED vars

-----------------------------------------------------------------------------
(* Steps of the worker, and of its children.                                 *)

Works(w) == worker' = w /\ UNCHANGED <<locked, life>>

Receives ==
  /\ worker.pc = "wait" /\ desk.jobs # <<>>
  /\ Works([worker EXCEPT !.pc = "work", !.job = Head(desk.jobs)])
  /\ desk' = [desk EXCEPT !.jobs = Tail(@)]

\* With nothing to look after it sleeps until there is a job.
TimesOut(failing) ==
  /\ worker.pc = "wait" /\ desk.jobs = <<>>
  /\ \/ worker.recorder # "none"
     \/ worker.candidate # NoCandidate
  /\ Works(Turned(Watched(worker), failing))
  /\ UNCHANGED desk

Performs(works, failing) ==
  /\ worker.pc = "work" /\ worker.job.kind # "shutdown"
  /\ Works(LET w == Performed(worker, works)
           IN  Turned(IF Skips(worker, works) THEN w ELSE Watched(w), failing))
  /\ UNCHANGED desk

ShutsDown ==
  /\ worker.pc = "work" /\ worker.job.kind = "shutdown"
  /\ Works(Retired(worker))
  /\ UNCHANGED desk

Failing == 0 .. MaxClipboard

WorkerStep ==
  \/ Receives
  \/ \E failing \in Failing : TimesOut(failing)
  \/ \E works \in BOOLEAN, failing \in Failing : Performs(works, failing)
  \/ ShutsDown

Child(w) == worker' = w /\ UNCHANGED <<desk, locked, life>>

RecorderExits ==
  worker.recorder = "running" /\ Child([worker EXCEPT !.recorder = "exited"])

\* The child that is watched survives its first moments, or leaves.
ProbeEnds ==
  worker.candidate.at = "probing" /\ Child([worker EXCEPT !.candidate.at = "ended"])

-----------------------------------------------------------------------------
Init ==
  /\ desk = [ui |-> "none", recording |-> FALSE, finishing |-> FALSE,
             screenshots |-> 0, downloads |-> <<>>, jobs |-> <<>>]
  /\ worker = [pc |-> "wait", job |-> NoJob, recorder |-> "none",
               candidate |-> NoCandidate, waiting |-> <<>>, temporary |-> 0,
               updates |-> <<>>]
  /\ locked = FALSE
  /\ life = "up"

UserStep ==
  \/ \E to \in Destinations, readable \in BOOLEAN :
       BeginScreen(to, readable) \/ CommitPhotograph(to, readable)
  \/ \E representable \in BOOLEAN : CommitRecording(representable)
  \/ BeginSelection \/ Dismisses \/ Stops
  \/ LockChanges \/ LogsOut

Slots == DOMAIN desk.downloads

Next ==
  \/ UserStep
  \/ \E due \in BOOLEAN, ready, late \in SUBSET Slots : Tick(due, ready, late)
  \/ SendsShutdown \/ Joins \/ Over
  \/ WorkerStep
  \/ RecorderExits \/ ProbeEnds

Spec == Init /\ [][Next]_vars

\* The loop passes again and again: its wait is bounded by the shell's idle poll
\* and by the deadline of the downloads, which the GPU completes.  The worker
\* takes its next step, the children of it are given bounded time.
FairSpec ==
  /\ Spec
  /\ WF_vars(Tick(TRUE, Slots, {}))
  /\ WF_vars(WorkerStep)
  /\ WF_vars(ProbeEnds)
  /\ WF_vars(SendsShutdown) /\ WF_vars(Joins)

-----------------------------------------------------------------------------
(* Properties.                                                               *)

\* Types, and the channels and slots within their bounds.
TypeOK ==
  /\ desk \in Desk /\ worker \in Worker
  /\ Len(desk.jobs) <= JobRoom /\ Len(worker.updates) <= UpdateRoom
  /\ Len(desk.downloads) <= MaxShots /\ desk.screenshots <= MaxShots
  /\ locked \in BOOLEAN /\ life \in {"up", "leaving", "joining", "over"}

Count(s, S) == Cardinality({i \in DOMAIN s : s[i] \in S})
Watching(w) == IF w.candidate = NoCandidate THEN 0 ELSE 1
InHand(w, S) == IF w.job \in S THEN 1 ELSE 0

\* Photographs under way, wherever they are: with the GPU and not canceled, on
\* the way to the worker, in its hands, at the clipboard, or on the way back.
UnderWay ==
  Count(desk.downloads, Destinations) + Count(desk.jobs, Shots) + InHand(worker, Shots)
    + Watching(worker) + Len(worker.waiting) + Count(worker.updates, {"shotDone"})

\* The count that admits photographs is what is under way, whatever was refused,
\* canceled, failed or crossed a lock: it neither leaks, which would end
\* screenshots for the session, nor is refunded twice, which would let the memory
\* they hold grow.  It is what makes the clipboard's own limit never bite, as the
\* comment of Clipboard says, and temporary files are those on their way to it
\* (photograph, service_screenshots, tick, the worker's loop).
EveryPhotographIsCharged ==
  worker.pc # "left" =>
    /\ desk.screenshots = UnderWay
    /\ worker.job.kind = "shot" => ClipboardHasRoom(worker)
    /\ worker.temporary = Count(worker.waiting, {"clipboard"})
                            + (IF worker.candidate.to = "clipboard" THEN 1 ELSE 0)

Pending(kind) ==
  worker.job.kind = kind \/ \E i \in DOMAIN desk.jobs : desk.jobs[i].kind = kind
EndIsComing ==
  Pending("stop") \/ \E i \in DOMAIN worker.updates : worker.updates[i] = "ended"

\* The badge is up exactly while the tool thinks it records, and then something
\* is left that will end it: a recorder that runs or is about to, or an end on
\* its way; once it is finishing, an end on its way.  Otherwise no recording could
\* be made or stopped any more (commit, stop, tick, the worker's loop).
RecordingCanEnd ==
  worker.pc # "left" =>
    /\ desk.recording <=> desk.ui = "badge"
    /\ desk.finishing => desk.recording /\ EndIsComing
    /\ desk.recording => Pending("record") \/ worker.recorder # "none" \/ EndIsComing

\* docs/capture.md: "Locking the session stops recording."  The code does not keep
\* it: an end says nothing of which recording ended, so the second of two ends of
\* one recording, a crash and the answer to a stop, can be taken for the end of
\* the next, which then runs on with nobody to stop it.
LockStopsRecording ==
  locked /\ worker.recorder = "running"
    ~> ~locked \/ worker.recorder # "running" \/ life # "up"
=============================================================================
