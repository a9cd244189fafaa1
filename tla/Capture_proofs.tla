--------------------------- MODULE Capture_proofs ---------------------------
(***************************************************************************)
(* Proofs about the capture tool, for any sizes of its rooms that satisfy  *)
(* RoomAssumption.                                                         *)
(***************************************************************************)
EXTENDS Capture, LoopTheorems, FiniteSetTheorems, TLAPS

-----------------------------------------------------------------------------
(* Counting.                                                                *)

\* The places of a sequence that hold a member of S are finitely many.
LEMMA CountIs ==
  ASSUME NEW E, NEW s \in Seq(E), NEW S
  PROVE  /\ IsFiniteSet({i \in DOMAIN s : s[i] \in S})
         /\ Count(s, S) \in Nat /\ Count(s, S) <= Len(s)
<1> DEFINE hits == {i \in DOMAIN s : s[i] \in S}
<1>1. Len(s) \in Nat /\ DOMAIN s = 1 .. Len(s)
  OBVIOUS
<1>2. IsFiniteSet(1 .. Len(s)) /\ Cardinality(1 .. Len(s)) = Len(s)
  BY <1>1, FS_Interval
<1>3. hits \in SUBSET (1 .. Len(s))
  BY <1>1
<1>4. IsFiniteSet(hits) /\ Cardinality(hits) <= Len(s) /\ Cardinality(hits) \in Nat
  BY <1>2, <1>3, FS_Subset, FS_CardinalityType
<1> QED BY <1>4 DEF Count

\* An empty sequence holds none.
LEMMA CountEmpty ==
  ASSUME NEW S
  PROVE  Count(<<>>, S) = 0
<1>1. {i \in DOMAIN <<>> : <<>>[i] \in S} = {}
  OBVIOUS
<1> QED BY <1>1, FS_EmptySet DEF Count

\* What is appended counts when it is one of S.
LEMMA CountAppend ==
  ASSUME NEW E, NEW s \in Seq(E), NEW x \in E, NEW S
  PROVE  Count(Append(s, x), S) = Count(s, S) + (IF x \in S THEN 1 ELSE 0)
<1> DEFINE n == Len(s)
           r == Append(s, x)
           hits == {i \in DOMAIN s : s[i] \in S}
           more == {i \in DOMAIN r : r[i] \in S}
<1>1. /\ n \in Nat /\ DOMAIN s = 1 .. n /\ DOMAIN r = 1 .. (n + 1)
      /\ r[n + 1] = x /\ \A i \in 1 .. n : r[i] = s[i]
  OBVIOUS
<1>2. IsFiniteSet(hits) /\ Cardinality(hits) \in Nat /\ n + 1 \notin hits
  <2>1. IsFiniteSet(hits)
    BY CountIs
  <2>2. n + 1 \notin hits
    BY <1>1
  <2> HIDE DEF hits, n
  <2> QED BY <2>1, <2>2, FS_CardinalityType
<1>3. more = IF x \in S THEN hits \cup {n + 1} ELSE hits
  <2> HIDE DEF r, n
  <2>1. \A i : i \in 1 .. (n + 1) <=> i \in 1 .. n \/ i = n + 1
    BY <1>1
  <2> QED BY <1>1, <2>1
<1> HIDE DEF hits, more
<1>4. Cardinality(hits \cup {n + 1}) = Cardinality(hits) + 1
  BY <1>2, FS_AddElement
<1>5. Cardinality(more) = Cardinality(hits) + (IF x \in S THEN 1 ELSE 0)
  BY <1>2, <1>3, <1>4
<1> QED BY <1>5 DEF Count, hits, more

\* A place that holds one of S makes the count positive.
LEMMA CountSome ==
  ASSUME NEW E, NEW s \in Seq(E), NEW S, NEW i \in DOMAIN s, s[i] \in S
  PROVE  Count(s, S) >= 1
<1> DEFINE hits == {k \in DOMAIN s : s[k] \in S}
<1>1. IsFiniteSet(hits) /\ Cardinality(hits) \in Nat
  BY CountIs DEF Count
<1>2. hits # {}
  OBVIOUS
<1> HIDE DEF hits
<1>3. Cardinality(hits) # 0
  BY <1>1, <1>2, FS_EmptySet
<1> QED BY <1>1, <1>3 DEF Count, hits

\* Two kinds that share nothing and leave nothing over make up the length.
LEMMA CountSplit ==
  ASSUME NEW S, NEW T, S \cap T = {}, NEW s \in Seq(S \cup T)
  PROVE  Len(s) = Count(s, S) + Count(s, T)
<1> DEFINE A == {i \in DOMAIN s : s[i] \in S}
           B == {i \in DOMAIN s : s[i] \in T}
<1>1. Len(s) \in Nat /\ DOMAIN s = 1 .. Len(s) /\ \A i \in 1 .. Len(s) : s[i] \in S \cup T
  OBVIOUS
<1>2. A \cup B = 1 .. Len(s) /\ A \cap B = {}
  BY <1>1
<1>3. IsFiniteSet(A) /\ IsFiniteSet(B) /\ Cardinality(A) \in Nat /\ Cardinality(B) \in Nat
  BY CountIs DEF Count
<1> HIDE DEF A, B
<1>4. Cardinality(A \cup B) = Cardinality(A) + Cardinality(B) - Cardinality(A \cap B)
  BY <1>3, FS_Union
<1>5. Cardinality(1 .. Len(s)) = Len(s) /\ Cardinality({}) = 0
  BY <1>1, FS_Interval, FS_EmptySet
<1>6. Count(s, S) = Cardinality(A) /\ Count(s, T) = Cardinality(B)
  BY DEF Count, A, B
<1>7. Cardinality(A \cap B) = 0 /\ Cardinality(A \cup B) = Len(s)
  BY <1>2, <1>5
<1> QED BY ONLY <1>3, <1>4, <1>6, <1>7

\* How many of S are held after place i.
Rest(s, S, i) == Cardinality({j \in DOMAIN s : j > i /\ s[j] \in S})

\* It starts with all of them and ends with none.
LEMMA RestIs ==
  ASSUME NEW E, NEW s \in Seq(E), NEW S
  PROVE  /\ \A i \in 0 .. Len(s) : Rest(s, S, i) \in Nat
         /\ Rest(s, S, 0) = Count(s, S)
         /\ Rest(s, S, Len(s)) = 0
<1> DEFINE n == Len(s)
           hits == {j \in DOMAIN s : s[j] \in S}
           After(i) == {j \in DOMAIN s : j > i /\ s[j] \in S}
<1>1. n \in Nat /\ DOMAIN s = 1 .. n
  OBVIOUS
<1>2. IsFiniteSet(hits)
  BY CountIs
<1>3. \A i \in 0 .. n : Cardinality(After(i)) \in Nat
  <2> TAKE i \in 0 .. n
  <2>1. After(i) \in SUBSET hits
    OBVIOUS
  <2> HIDE DEF After, hits
  <2> QED BY <1>2, <2>1, FS_Subset, FS_CardinalityType
<1>4. After(0) = hits
  BY <1>1
<1>5. After(n) = {}
  BY <1>1
<1>6. Cardinality({}) = 0
  BY FS_EmptySet
<1>7. \A i : Rest(s, S, i) = Cardinality(After(i))
  BY DEF Rest
<1>8. Count(s, S) = Cardinality(hits)
  BY DEF Count
<1> HIDE DEF After, hits, n
<1>9. \A i \in 0 .. n : Rest(s, S, i) \in Nat
  BY <1>3, <1>7
<1> QED BY <1>4, <1>5, <1>6, <1>7, <1>8, <1>9 DEF n

\* It drops by what is passed.
LEMMA RestDrops ==
  ASSUME NEW E, NEW s \in Seq(E), NEW S, NEW i \in 1 .. Len(s)
  PROVE  Rest(s, S, i - 1) = Rest(s, S, i) + (IF s[i] \in S THEN 1 ELSE 0)
<1> DEFINE n == Len(s)
           hits == {j \in DOMAIN s : s[j] \in S}
           now == {j \in DOMAIN s : j > i /\ s[j] \in S}
           before == {j \in DOMAIN s : j > i - 1 /\ s[j] \in S}
<1>1. n \in Nat /\ DOMAIN s = 1 .. n /\ i \in 1 .. n
  OBVIOUS
<1>2. IsFiniteSet(hits)
  BY CountIs
<1>3. IsFiniteSet(now) /\ Cardinality(now) \in Nat
  <2>1. now \in SUBSET hits
    OBVIOUS
  <2> HIDE DEF now, hits
  <2> QED BY <1>2, <2>1, FS_Subset, FS_CardinalityType
<1>4. before = IF s[i] \in S THEN now \cup {i} ELSE now
  <2>1. \A j \in 1 .. n : j > i - 1 <=> j > i \/ j = i
    BY <1>1
  <2> QED BY <1>1, <2>1
<1>5. i \notin now
  BY <1>1
<1>6. Rest(s, S, i - 1) = Cardinality(before) /\ Rest(s, S, i) = Cardinality(now)
  BY DEF Rest
<1> HIDE DEF now, before, hits, n
<1>7. Cardinality(now \cup {i}) = Cardinality(now) + 1
  BY <1>3, <1>5, FS_AddElement
<1> QED BY <1>3, <1>4, <1>6, <1>7

\* The head of a sequence is the one its tail no longer counts.
LEMMA CountTail ==
  ASSUME NEW E, NEW s \in Seq(E), s # <<>>, NEW S
  PROVE  /\ Tail(s) \in Seq(E) /\ Len(Tail(s)) = Len(s) - 1 /\ Head(s) = s[1] /\ Head(s) \in E
         /\ Count(s, S) = Count(Tail(s), S) + (IF Head(s) \in S THEN 1 ELSE 0)
<1> DEFINE n == Len(s)
           t == Tail(s)
           A == {j \in DOMAIN s : j > 1 /\ s[j] \in S}
           B == {j \in DOMAIN t : t[j] \in S}
           f == [j \in A |-> j - 1]
<1>1. /\ n \in Nat \ {0} /\ DOMAIN s = 1 .. n /\ t \in Seq(E) /\ DOMAIN t = 1 .. (n - 1)
      /\ Len(t) = n - 1
      /\ \A j \in 1 .. (n - 1) : t[j] = s[j + 1]
      /\ Head(s) = s[1] /\ s[1] \in E
  OBVIOUS
<1> HIDE DEF n, t
<1>2. f \in Bijection(A, B)
  <2>1. \A j \in A : j \in Int /\ j - 1 \in 1 .. (n - 1) /\ t[j - 1] = s[j]
    BY <1>1
  <2>2. f \in [A -> B]
    BY <1>1, <2>1
  <2>3. \A j, k \in A : f[j] = f[k] => j = k
    BY <2>1
  <2>4. \A k \in B : k + 1 \in A /\ f[k + 1] = k
    BY <1>1
  <2> HIDE DEF f, A, B
  <2>5. \A k \in B : \E j \in A : f[j] = k
    BY <2>4
  <2> QED BY <2>2, <2>3, <2>5, Zenon DEF Bijection, Injection, Surjection, IsInjective
<1>3. IsFiniteSet(B)
  BY <1>1, CountIs
<1>4. Cardinality(A) = Cardinality(B)
  <2>1. IsFiniteSet(A)
    <3> DEFINE hits == {j \in DOMAIN s : s[j] \in S}
    <3>1. A \in SUBSET hits
      OBVIOUS
    <3>2. IsFiniteSet(hits)
      BY CountIs
    <3> HIDE DEF A, hits
    <3> QED BY <3>1, <3>2, FS_Subset
  <2>2. ExistsBijection(A, B)
    BY <1>2 DEF ExistsBijection
  <2> HIDE DEF A, B
  <2> QED BY <2>1, <2>2, FS_Bijection
<1>5. Rest(s, S, 1) = Count(t, S)
  BY <1>4 DEF Rest, Count
<1>6. 1 \in 1 .. n
  BY <1>1
<1>7. Rest(s, S, 0) = Rest(s, S, 1) + (IF s[1] \in S THEN 1 ELSE 0) /\ Rest(s, S, 0) = Count(s, S)
  <2>1. Rest(s, S, 1 - 1) = Rest(s, S, 1) + (IF s[1] \in S THEN 1 ELSE 0)
    BY <1>6, RestDrops DEF n
  <2> QED BY <2>1, RestIs
<1> QED BY <1>1, <1>5, <1>7 DEF n, t

-----------------------------------------------------------------------------
(* The invariant.  Each part is about the two records, so that it can also be *)
(* said of what lies between two steps.                                       *)

\* At most one end for the recorder, one each for the jobs that start or stop one
\* and two for what the tool may yet ask for.
EndsMax == JobRoom + 4

Control == {Plain("record"), Plain("stop")}

\* Photographs the worker has taken over, and recordings it will report the end of.
Held(w) == Watching(w) + Len(w.waiting) + Count(w.updates, {"shotDone"})
Ends(w) == Count(w.updates, {"ended"}) + (IF w.recorder = "none" THEN 0 ELSE 1)

\* Ends the tool may still ask for: two when it may start a recording, one when it
\* may stop the one it has.
Credit(d) == IF ~d.recording THEN 2 ELSE IF ~d.finishing THEN 1 ELSE 0

Files(w) == Count(w.waiting, {"clipboard"}) + (IF w.candidate.to = "clipboard" THEN 1 ELSE 0)

\* Jobs of a kind that is not a photograph, in the channel or in hand.
Due(d, w, k) == InHand(w, {Plain(k)}) + Count(d.jobs, {Plain(k)})
Ending(w) == Count(w.updates, {"ended"}) > 0

EndOwed(d, w) ==
  /\ d.recording <=> d.ui = "badge"
  /\ d.finishing => d.recording /\ (Due(d, w, "stop") > 0 \/ Ending(w))
  /\ d.recording => \/ Due(d, w, "record") > 0 \/ w.recorder # "none"
                    \/ Due(d, w, "stop") > 0 \/ Ending(w)

Charged(d, w) ==
  /\ d.screenshots = Count(d.downloads, Destinations) + Count(d.jobs, Shots)
                       + InHand(w, Shots) + Held(w)
  /\ w.temporary = Files(w)

EndsFit(d, w) == Ends(w) + InHand(w, Control) + Count(d.jobs, Control) + Credit(d) <= EndsMax

DeskFits(d) == d \in Desk /\ Len(d.jobs) <= JobRoom /\ Len(d.downloads) <= MaxShots
                 /\ d.screenshots <= MaxShots

WorkerFits(w) ==
  /\ w \in Worker /\ Len(w.updates) <= UpdateRoom
  /\ w.pc = "wait" => w.job = NoJob
  /\ w.pc = "work" => w.job # NoJob
  /\ w.pc = "left" => w.job = Plain("shutdown") /\ w.recorder = "none" /\ w.candidate = NoCandidate

Alive(d, w) == w.pc # "left" => Charged(d, w) /\ EndsFit(d, w) /\ EndOwed(d, w)

\* The job that ends the worker is the last one, and sent only at logout.
Leaving == Due(desk, worker, "shutdown") > 0 => life \in {"joining", "over"}

IInv ==
  /\ DeskFits(desk) /\ WorkerFits(worker) /\ Alive(desk, worker) /\ Leaving
  /\ locked \in BOOLEAN /\ life \in {"up", "leaving", "joining", "over"}

-----------------------------------------------------------------------------
(* Kinds.                                                                    *)

LEMMA Kinds ==
  /\ Shots \subseteq Job /\ Control \subseteq Job /\ NoJob \notin Job
  /\ \A k \in {"record", "stop", "error", "shutdown"} : Plain(k) \in Job /\ Plain(k) \notin Shots
  /\ Plain("error") \notin Control /\ Plain("shutdown") \notin Control
  /\ Plain("record") # Plain("stop") /\ Plain("record") # Plain("shutdown")
  /\ Plain("stop") # Plain("shutdown") /\ Plain("error") # Plain("record")
  /\ Plain("error") # Plain("stop") /\ Plain("error") # Plain("shutdown")
  /\ \A j \in Job : j.kind = "shot" <=> j \in Shots
  /\ \A j \in Job, k \in {"record", "stop", "error", "shutdown"} : j.kind = k <=> j = Plain(k)
  /\ \A to \in Destinations : Shot(to) \in Shots /\ Shot(to) \notin Control /\ Shot(to).to = to
  /\ \A j \in Shots : j.to \in Destinations /\ j \notin Control
                        /\ \A k \in {"record", "stop", "error", "shutdown"} : j # Plain(k)
  /\ NoJob \notin Shots /\ NoJob \notin Control /\ NoJob.kind = "none"
<1>1. \A k : Plain(k).kind = k /\ Plain(k).to = None
  BY DEF Plain
<1>2. \A to : Shot(to).kind = "shot" /\ Shot(to).to = to
  BY DEF Shot
<1>3. \A j \in Shots : \E to \in Destinations : j = Shot(to)
  BY DEF Shots
<1>4. \A to \in Destinations : Shot(to) \in Shots
  BY DEF Shots
<1>5. \A j \in Job : j \in Shots \/ \E k \in {"record", "stop", "error", "shutdown"} : j = Plain(k)
  BY DEF Job
<1>6. \A k \in {"record", "stop", "error", "shutdown"} : Plain(k) \in Job
  BY DEF Job
<1>7. Shots \subseteq Job
  BY DEF Job
<1>8. NoJob = Plain("none") /\ Control = {Plain("record"), Plain("stop")}
  BY DEF NoJob, Control
<1>9. NoJob \notin Job /\ NoJob.kind = "none" /\ NoJob \notin Shots
  BY <1>1, <1>2, <1>3, <1>5, <1>8
<1>10. \A j \in Job : j.kind = "shot" <=> j \in Shots
  BY <1>1, <1>2, <1>3, <1>5
<1>11. \A j \in Job, k \in {"record", "stop", "error", "shutdown"} : j.kind = k <=> j = Plain(k)
  BY <1>1, <1>2, <1>3, <1>5
<1>12. \A k \in {"record", "stop", "error", "shutdown"} : Plain(k) \notin Shots
  BY <1>1, <1>2, <1>3
<1>13. \A to \in Destinations : Shot(to) \notin Control
  BY <1>1, <1>2, <1>8
<1>14. \A j \in Shots : j.to \in Destinations /\ j \notin Control
  BY <1>2, <1>3, <1>13
<1>15. NoJob \notin Control /\ Plain("error") \notin Control /\ Plain("shutdown") \notin Control
  BY <1>1, <1>8
<1> QED BY <1>1, <1>2, <1>4, <1>6, <1>7, <1>8, <1>9, <1>10, <1>11, <1>12, <1>13, <1>14, <1>15

-----------------------------------------------------------------------------
(* The worker.                                                               *)

LEMMA Sizes ==
  /\ JobRoom \in Nat \ {0} /\ UpdateRoom \in Nat \ {0} /\ MaxShots \in Nat \ {0}
  /\ MaxClipboard \in Nat \ {0} /\ EndsMax = JobRoom + 4
  /\ UpdateRoom >= MaxShots + EndsMax /\ MaxClipboard >= MaxShots
BY CaptureAssumption, RoomAssumption DEF EndsMax

LEMMA WorkerFields ==
  ASSUME NEW w \in Worker
  PROVE  /\ w.pc \in {"wait", "work", "left"} /\ w.job \in Job \cup {NoJob}
         /\ w.recorder \in {"none", "running", "exited"} /\ w.candidate \in Candidate
         /\ w.waiting \in Seq(Destinations) /\ w.temporary \in Nat
         /\ w.updates \in Seq({"shotDone", "ended"})
BY DEF Worker

LEMMA WorkerCounts ==
  ASSUME NEW w \in Worker
  PROVE  /\ Watching(w) \in {0, 1} /\ Len(w.waiting) \in Nat
         /\ Count(w.updates, {"shotDone"}) \in Nat /\ Count(w.updates, {"ended"}) \in Nat
         /\ Len(w.updates) = Count(w.updates, {"shotDone"}) + Count(w.updates, {"ended"})
         /\ Count(w.waiting, {"clipboard"}) \in Nat
         /\ Held(w) \in Nat /\ Ends(w) \in Nat /\ Files(w) \in Nat
         /\ Len(w.updates) <= Held(w) + Ends(w)
<1>1. /\ w.updates \in Seq({"shotDone", "ended"}) /\ w.waiting \in Seq(Destinations)
  BY WorkerFields
<1>2. Count(w.updates, {"shotDone"}) \in Nat /\ Count(w.updates, {"ended"}) \in Nat
  BY <1>1, CountIs
<1>3. Count(w.waiting, {"clipboard"}) \in Nat
  BY <1>1, CountIs
<1>4. Len(w.updates) = Count(w.updates, {"shotDone"}) + Count(w.updates, {"ended"})
  <2>1. {"shotDone"} \cup {"ended"} = {"shotDone", "ended"} /\ {"shotDone"} \cap {"ended"} = {}
    OBVIOUS
  <2> QED BY <1>1, <2>1, CountSplit
<1>5. Len(w.waiting) \in Nat /\ Watching(w) \in {0, 1}
  BY <1>1 DEF Watching
<1> HIDE DEF Count
<1>6. Held(w) \in Nat /\ Ends(w) \in Nat /\ Files(w) \in Nat
  BY <1>2, <1>3, <1>5 DEF Held, Ends, Files
<1>7. Len(w.updates) <= Held(w) + Ends(w)
  BY <1>2, <1>4, <1>5 DEF Held, Ends
<1> QED BY <1>2, <1>3, <1>4, <1>5, <1>6, <1>7

\* Room for an update while not all that could be reported has been.
LEMMA SentKeeps ==
  ASSUME NEW w \in Worker, NEW x \in {"shotDone", "ended"},
         Held(w) + Ends(w) < MaxShots + EndsMax,
         NEW e, e = Sent(w, x)
  PROVE  /\ e \in Worker /\ e.pc = w.pc /\ e.job = w.job /\ e.recorder = w.recorder
         /\ e.candidate = w.candidate /\ e.waiting = w.waiting /\ e.temporary = w.temporary
         /\ Files(e) = Files(w)
         /\ Held(e) = Held(w) + (IF x = "shotDone" THEN 1 ELSE 0)
         /\ Ends(e) = Ends(w) + (IF x = "ended" THEN 1 ELSE 0)
         /\ Count(e.updates, {"ended"}) = Count(w.updates, {"ended"}) + (IF x = "ended" THEN 1 ELSE 0)
<1>1. w.updates \in Seq({"shotDone", "ended"})
  BY WorkerFields
<1>2. Len(w.updates) < UpdateRoom
  BY WorkerCounts, Sizes
<1>3. e = [w EXCEPT !.updates = Append(w.updates, x)]
  BY <1>2 DEF Sent
<1>4. Append(w.updates, x) \in Seq({"shotDone", "ended"})
  BY <1>1
<1>5. e \in Worker
  BY <1>3, <1>4 DEF Worker
<1>6. /\ e.pc = w.pc /\ e.job = w.job /\ e.recorder = w.recorder
      /\ e.candidate = w.candidate /\ e.waiting = w.waiting /\ e.temporary = w.temporary
      /\ e.updates = Append(w.updates, x)
  BY <1>3 DEF Worker
<1>7. /\ Count(e.updates, {"ended"}) = Count(w.updates, {"ended"}) + (IF x \in {"ended"} THEN 1 ELSE 0)
      /\ Count(e.updates, {"shotDone"})
           = Count(w.updates, {"shotDone"}) + (IF x \in {"shotDone"} THEN 1 ELSE 0)
  BY <1>1, <1>6, CountAppend
<1>8. Files(e) = Files(w) /\ Watching(e) = Watching(w)
  BY <1>6 DEF Files, Watching
<1>9. Held(e) = Held(w) + (IF x = "shotDone" THEN 1 ELSE 0)
  <2>1. Watching(w) \in {0, 1} /\ Len(w.waiting) \in Nat /\ Count(w.updates, {"shotDone"}) \in Nat
    BY WorkerCounts
  <2>2. Count(e.updates, {"shotDone"})
          = Count(w.updates, {"shotDone"}) + (IF x = "shotDone" THEN 1 ELSE 0)
    BY <1>7
  <2> QED BY <1>6, <1>8, <2>1, <2>2 DEF Held
<1>10. Ends(e) = Ends(w) + (IF x = "ended" THEN 1 ELSE 0)
  BY <1>6, <1>7, WorkerCounts DEF Ends
<1> QED BY <1>5, <1>6, <1>7, <1>8, <1>9, <1>10

\* A photograph that is settled: its temporary file goes, its slot is reported.
LEMMA SettledKeeps ==
  ASSUME NEW w \in Worker, NEW to, Held(w) < MaxShots, Ends(w) <= EndsMax,
         w.temporary = Files(w) + (IF to = "clipboard" THEN 1 ELSE 0),
         NEW e, e = Settled(w, to)
  PROVE  /\ e \in Worker /\ e.pc = w.pc /\ e.job = w.job /\ e.recorder = w.recorder
         /\ e.candidate = w.candidate /\ e.waiting = w.waiting
         /\ e.temporary = Files(e)
         /\ Held(e) = Held(w) + 1 /\ Ends(e) = Ends(w)
         /\ Count(e.updates, {"ended"}) = Count(w.updates, {"ended"})
<1> DEFINE s == Sent(w, "shotDone")
<1>1. /\ s \in Worker /\ s.pc = w.pc /\ s.job = w.job /\ s.recorder = w.recorder
      /\ s.candidate = w.candidate /\ s.waiting = w.waiting /\ s.temporary = w.temporary
      /\ Files(s) = Files(w) /\ Held(s) = Held(w) + 1 /\ Ends(s) = Ends(w)
      /\ Count(s.updates, {"ended"}) = Count(w.updates, {"ended"})
  <2>1. Held(w) + Ends(w) < MaxShots + EndsMax
    BY WorkerCounts, Sizes
  <2> QED BY <2>1, SentKeeps, WorkerCounts
<1>2. e = IF to = "clipboard" THEN [s EXCEPT !.temporary = s.temporary - 1] ELSE s
  BY DEF Settled
<1> HIDE DEF s
<1>3. CASE to # "clipboard"
  <2>1. e = s
    BY <1>2, <1>3
  <2>2. w.temporary = Files(w) + 0 /\ Files(w) \in Nat
    BY <1>3, WorkerCounts
  <2>3. e.temporary = Files(e)
    BY <1>1, <2>1, <2>2
  <2> QED BY <1>1, <2>1, <2>3
<1>4. CASE to = "clipboard"
  <2>1. s.temporary - 1 = Files(w) /\ Files(w) \in Nat
    BY <1>1, <1>4, WorkerCounts
  <2>2. e = [s EXCEPT !.temporary = Files(w)]
    BY <1>2, <1>4, <2>1
  <2>3. e \in Worker
    BY <1>1, <2>1, <2>2 DEF Worker
  <2>4. /\ e.pc = s.pc /\ e.job = s.job /\ e.recorder = s.recorder /\ e.candidate = s.candidate
        /\ e.waiting = s.waiting /\ e.updates = s.updates /\ e.temporary = Files(w)
    BY <1>1, <2>2 DEF Worker
  <2>5. Files(e) = Files(s) /\ Held(e) = Held(s) /\ Ends(e) = Ends(s)
    BY <2>4 DEF Files, Held, Ends, Watching
  <2> QED BY <1>1, <2>3, <2>4, <2>5
<1> QED BY <1>3, <1>4

\* One part of a turn of the worker's loop: no photograph and no end is lost.
Sane(w) ==
  w \in Worker /\ w.temporary = Files(w) /\ Held(w) <= MaxShots /\ Ends(w) <= EndsMax

Stage(w, s) ==
  /\ Sane(s) /\ s.job = w.job /\ s.pc = w.pc
  /\ Held(s) = Held(w) /\ Ends(s) <= Ends(w)
  /\ Ending(w) => Ending(s)
  /\ w.recorder # "none" => s.recorder # "none" \/ Ending(s)

LEMMA StageSame ==
  ASSUME NEW w, Sane(w)
  PROVE  Stage(w, w)
BY WorkerCounts DEF Stage, Sane

LEMMA StageThen ==
  ASSUME NEW w, NEW s, NEW u, Sane(w), Stage(w, s), Stage(s, u)
  PROVE  Stage(w, u)
<1>1. Ends(w) \in Nat /\ Ends(s) \in Nat /\ Ends(u) \in Nat
  BY WorkerCounts DEF Stage, Sane
<1> QED BY <1>1 DEF Stage

\* A recorder that left by itself is reported once.
LEMMA WatchedKeeps ==
  ASSUME NEW w, Sane(w)
  PROVE  Stage(w, Watched(w))
<1> DEFINE r == [w EXCEPT !.recorder = "none"]
           e == Sent(r, "ended")
<1>1. CASE w.recorder # "exited"
  BY <1>1, StageSame DEF Watched
<1>2. CASE w.recorder = "exited"
  <2>1. w \in Worker /\ w.temporary = Files(w) /\ Held(w) <= MaxShots /\ Ends(w) <= EndsMax
    BY DEF Sane
  <2>2. r \in Worker
    BY <2>1 DEF Worker
  <2>3. /\ r.pc = w.pc /\ r.job = w.job /\ r.recorder = "none" /\ r.candidate = w.candidate
        /\ r.waiting = w.waiting /\ r.updates = w.updates /\ r.temporary = w.temporary
    BY <2>1 DEF Worker
  <2>4. Watched(w) = e
    BY <1>2 DEF Watched
  <2> HIDE DEF r
  <2>5. Files(r) = Files(w) /\ Held(r) = Held(w)
    BY <2>3 DEF Files, Held, Watching
  <2>6. Ends(w) = Ends(r) + 1
    BY <1>2, <2>1, <2>3, WorkerCounts DEF Ends
  <2>7. Held(r) + Ends(r) < MaxShots + EndsMax
    <3>1. Held(r) <= MaxShots /\ Ends(r) + 1 <= EndsMax
      BY <2>1, <2>5, <2>6
    <3>2. Held(r) \in Nat /\ Ends(r) \in Nat /\ MaxShots \in Nat /\ EndsMax \in Nat
      BY <2>2, WorkerCounts, Sizes
    <3> QED BY ONLY <3>1, <3>2
  <2>8. /\ e \in Worker /\ e.pc = r.pc /\ e.job = r.job /\ e.temporary = r.temporary
        /\ Files(e) = Files(r) /\ Held(e) = Held(r) /\ Ends(e) = Ends(r) + 1
        /\ Count(e.updates, {"ended"}) = Count(r.updates, {"ended"}) + 1
    BY <2>2, <2>7, SentKeeps, WorkerCounts
  <2> HIDE DEF e
  <2>9. Count(r.updates, {"ended"}) \in Nat
    BY <2>2, WorkerCounts
  <2>10. Ending(e)
    BY <2>8, <2>9 DEF Ending
  <2>11. Sane(e)
    BY <2>1, <2>3, <2>5, <2>6, <2>8 DEF Sane
  <2>12. Ends(e) = Ends(w) /\ Ends(w) \in Nat
    BY <2>1, <2>6, <2>8, WorkerCounts
  <2> QED BY <2>3, <2>4, <2>5, <2>8, <2>10, <2>11, <2>12 DEF Stage
<1> QED BY <1>1, <1>2

\* The child that is watched ends its time, and its slot is reported.
LEMMA ResolvedKeeps ==
  ASSUME NEW w, Sane(w)
  PROVE  Stage(w, Resolved(w))
<1> DEFINE r == [w EXCEPT !.candidate = NoCandidate]
           e == Settled(r, w.candidate.to)
<1>1. CASE w.candidate.at # "ended"
  BY <1>1, StageSame DEF Resolved
<1>2. CASE w.candidate.at = "ended"
  <2>1. w \in Worker /\ w.temporary = Files(w) /\ Held(w) <= MaxShots /\ Ends(w) <= EndsMax
    BY DEF Sane
  <2>2. NoCandidate \in Candidate /\ NoCandidate.at = "none" /\ NoCandidate.to = None
    BY DEF NoCandidate, Candidate, DestinationOrNone
  <2>3. r \in Worker
    BY <2>1, <2>2 DEF Worker
  <2>4. /\ r.pc = w.pc /\ r.job = w.job /\ r.recorder = w.recorder /\ r.candidate = NoCandidate
        /\ r.waiting = w.waiting /\ r.updates = w.updates /\ r.temporary = w.temporary
    BY <2>1 DEF Worker
  <2>5. Resolved(w) = e
    BY <1>2 DEF Resolved
  <2> HIDE DEF r
  <2>6. Ends(r) = Ends(w)
    BY <2>4 DEF Ends
  <2>7. Watching(w) = 1 /\ Watching(r) = 0
    BY <1>2, <2>2, <2>4 DEF Watching
  <2>8. Held(w) = Held(r) + 1
    <3>1. Len(w.waiting) \in Nat /\ Count(w.updates, {"shotDone"}) \in Nat
      BY <2>1, WorkerCounts
    <3> QED BY <2>4, <2>7, <3>1 DEF Held
  <2>9. None # "clipboard"
    BY CaptureAssumption
  <2>10. Files(w) = Files(r) + (IF w.candidate.to = "clipboard" THEN 1 ELSE 0)
    <3>1. Count(w.waiting, {"clipboard"}) \in Nat
      BY <2>1, WorkerCounts
    <3> QED BY <2>2, <2>4, <2>9, <3>1 DEF Files
  <2>11. Held(r) < MaxShots /\ Ends(r) <= EndsMax
    BY <2>1, <2>3, <2>6, <2>8, WorkerCounts, Sizes
  <2>12. /\ e \in Worker /\ e.pc = r.pc /\ e.job = r.job /\ e.recorder = r.recorder
         /\ e.temporary = Files(e) /\ Held(e) = Held(r) + 1 /\ Ends(e) = Ends(r)
         /\ Count(e.updates, {"ended"}) = Count(r.updates, {"ended"})
    BY <2>1, <2>3, <2>4, <2>10, <2>11, SettledKeeps
  <2> HIDE DEF e
  <2>13. Held(e) = Held(w) /\ Ends(e) = Ends(w) /\ Ends(w) \in Nat /\ Ends(w) <= Ends(w)
    BY <2>1, <2>6, <2>8, <2>12, WorkerCounts
  <2>14. Sane(e)
    BY <2>1, <2>12, <2>13 DEF Sane
  <2>15. Ending(w) => Ending(e)
    BY <2>4, <2>12 DEF Ending
  <2> QED BY <2>4, <2>5, <2>12, <2>13, <2>14, <2>15 DEF Stage
<1> QED BY <1>1, <1>2

\* A photograph whose wl-copy does not start leaves the queue, and is reported.
LEMMA UnlaunchedKeeps ==
  ASSUME NEW w, Sane(w), w.waiting # <<>>
  PROVE  /\ Stage(w, Unlaunched(w))
         /\ Unlaunched(w).waiting = Tail(w.waiting)
         /\ Unlaunched(w).candidate = w.candidate
<1> DEFINE r == [w EXCEPT !.waiting = Tail(w.waiting)]
           to == Head(w.waiting)
           e == Settled(r, to)
<1>1. w \in Worker /\ w.temporary = Files(w) /\ Held(w) <= MaxShots /\ Ends(w) <= EndsMax
  BY DEF Sane
<1>2. /\ w.waiting \in Seq(Destinations) /\ Tail(w.waiting) \in Seq(Destinations)
      /\ Len(Tail(w.waiting)) = Len(w.waiting) - 1
      /\ Count(w.waiting, {"clipboard"})
           = Count(Tail(w.waiting), {"clipboard"}) + (IF to \in {"clipboard"} THEN 1 ELSE 0)
  <2>1. w.waiting \in Seq(Destinations)
    BY <1>1, WorkerFields
  <2> QED BY <2>1, CountTail
<1>3. r \in Worker
  BY <1>1, <1>2 DEF Worker
<1>4. /\ r.pc = w.pc /\ r.job = w.job /\ r.recorder = w.recorder /\ r.candidate = w.candidate
      /\ r.waiting = Tail(w.waiting) /\ r.updates = w.updates /\ r.temporary = w.temporary
  BY <1>1 DEF Worker
<1>5. Unlaunched(w) = e
  BY DEF Unlaunched
<1> HIDE DEF r, to
<1>6. Ends(r) = Ends(w) /\ Watching(r) = Watching(w)
  BY <1>4 DEF Ends, Watching
<1>7. Held(w) = Held(r) + 1
  <2>1. Len(w.waiting) \in Nat /\ Count(w.updates, {"shotDone"}) \in Nat /\ Watching(w) \in {0, 1}
    BY <1>1, WorkerCounts
  <2> QED BY <1>2, <1>4, <1>6, <2>1 DEF Held
<1>8. w.temporary = Files(r) + (IF to = "clipboard" THEN 1 ELSE 0)
  <2>1. Count(w.waiting, {"clipboard"}) \in Nat /\ Count(r.waiting, {"clipboard"}) \in Nat
    BY <1>1, <1>3, WorkerCounts
  <2>2. Files(w) = Files(r) + (IF to = "clipboard" THEN 1 ELSE 0)
    BY <1>2, <1>4, <2>1 DEF Files
  <2> QED BY <1>1, <2>2
<1>9. Held(r) < MaxShots /\ Ends(r) <= EndsMax
  BY <1>1, <1>3, <1>6, <1>7, WorkerCounts, Sizes
<1>10. /\ e \in Worker /\ e.pc = r.pc /\ e.job = r.job /\ e.recorder = r.recorder
       /\ e.candidate = r.candidate /\ e.waiting = r.waiting
       /\ e.temporary = Files(e) /\ Held(e) = Held(r) + 1 /\ Ends(e) = Ends(r)
       /\ Count(e.updates, {"ended"}) = Count(r.updates, {"ended"})
  BY <1>3, <1>4, <1>8, <1>9, SettledKeeps
<1> HIDE DEF e
<1>11. Held(e) = Held(w) /\ Ends(e) = Ends(w) /\ Ends(w) \in Nat /\ Ends(w) <= Ends(w)
  BY <1>1, <1>6, <1>7, <1>10, WorkerCounts
<1>12. Sane(e)
  BY <1>1, <1>10, <1>11 DEF Sane
<1>13. Ending(w) => Ending(e)
  BY <1>4, <1>10 DEF Ending
<1>14. Stage(w, e)
  BY <1>4, <1>10, <1>11, <1>12, <1>13 DEF Stage
<1> QED BY <1>4, <1>5, <1>10, <1>14

\* The next photograph is watched, after those whose wl-copy does not start.
LEMMA LaunchedKeeps ==
  ASSUME NEW w, Sane(w), NEW failing \in Nat
  PROVE  Stage(w, Launched(w, failing))
<1>1. CASE w.candidate # NoCandidate
  BY <1>1, StageSame DEF Launched
<1>2. CASE w.candidate = NoCandidate
  <2>0. w \in Worker /\ w.waiting \in Seq(Destinations) /\ Len(w.waiting) \in Nat
    BY WorkerFields DEF Sane
  <2> DEFINE n == IF failing < Len(w.waiting) THEN failing ELSE Len(w.waiting)
             V == Worker
             S == [i \in 0 .. n |-> {e \in Worker : /\ Stage(w, e)
                                                    /\ Len(e.waiting) = Len(w.waiting) - i
                                                    /\ e.candidate = NoCandidate}]
             G == [i \in 1 .. n |-> [e \in Worker |-> IF e \in S[i - 1] THEN Unlaunched(e) ELSE w]]
  <2>1. n \in Nat /\ n <= Len(w.waiting)
    BY <2>0
  <2> HIDE DEF n
  <2>2. S \in [0 .. n -> SUBSET Worker]
    OBVIOUS
  <2>3. w \in S[0]
    <3>1. 0 \in 0 .. n /\ Len(w.waiting) = Len(w.waiting) - 0
      BY <2>0, <2>1
    <3>2. Stage(w, w)
      BY StageSame
    <3> QED BY <1>2, <2>0, <3>1, <3>2
  <2>4. ASSUME NEW i \in 1 .. n, NEW e \in S[i - 1]
        PROVE  Unlaunched(e) \in S[i]
    <3>1. i \in 0 .. n /\ i - 1 \in 0 .. n /\ i \in Nat /\ i <= Len(w.waiting)
      BY <2>0, <2>1
    <3>2. /\ e \in Worker /\ Stage(w, e) /\ Len(e.waiting) = Len(w.waiting) - (i - 1)
          /\ e.candidate = NoCandidate
      BY <3>1
    <3>3. Sane(e) /\ e.waiting \in Seq(Destinations) /\ e.waiting # <<>>
      <4>1. Sane(e) /\ e.waiting \in Seq(Destinations)
        BY <3>2, WorkerFields DEF Stage
      <4>2. Len(e.waiting) # 0
        BY <2>0, <3>1, <3>2
      <4> QED BY <4>1, <4>2
    <3> DEFINE u == Unlaunched(e)
    <3>4. Stage(e, u) /\ u.waiting = Tail(e.waiting) /\ u.candidate = NoCandidate
      BY <3>2, <3>3, UnlaunchedKeeps
    <3> HIDE DEF u
    <3>5. Stage(w, u) /\ u \in Worker
      BY <3>2, <3>4, StageThen DEF Stage, Sane
    <3>6. Len(u.waiting) = Len(w.waiting) - i
      <4>1. Len(Tail(e.waiting)) = Len(e.waiting) - 1
        BY <3>3
      <4> QED BY <2>0, <3>1, <3>2, <3>4, <4>1
    <3>7. u \in S[i]
      BY <3>1, <3>4, <3>5, <3>6
    <3> QED BY <3>7 DEF u
  <2>5. \A i \in 0 .. n : S[i] \subseteq Worker
    OBVIOUS
  <2>6. \A i \in 1 .. n : i \in 0 .. n /\ i - 1 \in 0 .. n
    BY <2>1
  <2> HIDE DEF S
  <2>7. G \in Bodies(n, Worker)
    <3>1. \A i \in 1 .. n : \A e \in Worker : (IF e \in S[i - 1] THEN Unlaunched(e) ELSE w) \in Worker
      BY <2>0, <2>4, <2>5, <2>6
    <3> QED BY <3>1 DEF Bodies
  <2>8. \A i \in 1 .. n : \A e \in S[i - 1] : G[i][e] = Unlaunched(e) /\ G[i][e] \in S[i]
    BY <2>4, <2>5, <2>6
  <2> HIDE DEF G
  <2>9. PICK f \in [0 .. n -> Worker] :
          /\ f[0] = w
          /\ \A i \in 1 .. n : f[i] = G[i][f[i - 1]]
          /\ \A i \in 0 .. n : f[i] \in S[i]
    BY <2>1, <2>2, <2>3, <2>7, <2>8, LoopKeeps
  <2> DEFINE Done(g) == g = [i \in 0 .. n |-> IF i = 0 THEN w ELSE Unlaunched(g[i - 1])]
             after == CHOOSE g : Done(g)
  <2>10. Done(f)
    <3>1. \A i \in 1 .. n : f[i] = Unlaunched(f[i - 1])
      BY <2>6, <2>8, <2>9
    <3>2. \A i \in 0 .. n : f[i] = IF i = 0 THEN w ELSE Unlaunched(f[i - 1])
      <4>1. \A i \in 0 .. n : i = 0 \/ i \in 1 .. n
        BY <2>1
      <4> QED BY <2>9, <3>1, <4>1
    <3> QED BY <2>9, <3>2
  <2>11. Done(after)
    <3> HIDE DEF Done
    <3> QED BY <2>10
  <2>12. after[n] \in S[n]
    <3> DEFINE T == {i \in 0 .. n : after[i] \in S[i]}
    <3> HIDE DEF after
    <3>1. 0 \in 0 .. n /\ n \in 0 .. n
      BY <2>1
    <3>2. after[0] = w /\ \A i \in 1 .. n : after[i] = Unlaunched(after[i - 1])
      BY <2>6, <2>11, <3>1
    <3> HIDE DEF Done
    <3>3. 0 \in T
      BY <2>3, <3>1, <3>2
    <3>4. ASSUME NEW i \in 1 .. n, i - 1 \in T PROVE i \in T
      BY <2>4, <2>6, <3>2, <3>4
    <3> HIDE DEF T
    <3>5. 0 .. n \subseteq T
      BY <2>1, <3>3, <3>4, IntervalInduction
    <3> QED BY <3>1, <3>5 DEF T
  <2> DEFINE r == after[n]
             e == [r EXCEPT !.candidate = [to |-> Head(r.waiting), at |-> "probing"],
                            !.waiting = Tail(r.waiting)]
  <2>13. Launched(w, failing) = IF r.waiting = <<>> THEN r ELSE e
    BY <1>2 DEF Launched, n
  <2> HIDE DEF after, r
  <2>14. r \in Worker /\ Stage(w, r) /\ r.candidate = NoCandidate
    <3>1. n \in 0 .. n
      BY <2>1
    <3> QED BY <2>12, <3>1 DEF S, r
  <2>15. CASE r.waiting = <<>>
    BY <2>13, <2>14, <2>15
  <2>16. CASE r.waiting # <<>>
    <3>1. /\ Tail(r.waiting) \in Seq(Destinations) /\ Head(r.waiting) \in Destinations
          /\ Len(Tail(r.waiting)) = Len(r.waiting) - 1
          /\ Count(r.waiting, {"clipboard"}) = Count(Tail(r.waiting), {"clipboard"})
               + (IF Head(r.waiting) \in {"clipboard"} THEN 1 ELSE 0)
      <4>1. r.waiting \in Seq(Destinations)
        BY <2>14, WorkerFields
      <4> QED BY <2>16, <4>1, CountTail
    <3> DEFINE c == [to |-> Head(r.waiting), at |-> "probing"]
    <3>2. c \in Candidate /\ c # NoCandidate /\ c.to = Head(r.waiting)
      BY <3>1 DEF Candidate, DestinationOrNone, NoCandidate
    <3>3. e = [r EXCEPT !.candidate = c, !.waiting = Tail(r.waiting)]
      OBVIOUS
    <3> HIDE DEF c, e
    <3>4. e \in Worker
      BY <2>14, <3>1, <3>2, <3>3 DEF Worker
    <3>5. /\ e.pc = r.pc /\ e.job = r.job /\ e.recorder = r.recorder /\ e.candidate = c
          /\ e.waiting = Tail(r.waiting) /\ e.updates = r.updates /\ e.temporary = r.temporary
      BY <2>14, <3>3 DEF Worker
    <3>6. Sane(r) /\ Ends(e) = Ends(r) /\ (Ending(r) => Ending(e))
      BY <2>14, <3>5 DEF Ends, Ending, Stage
    <3>7. Watching(e) = 1 /\ Watching(r) = 0
      BY <2>14, <3>2, <3>5 DEF Watching
    <3>8. Held(e) = Held(r)
      <4>1. Len(r.waiting) \in Nat /\ Count(r.updates, {"shotDone"}) \in Nat
        BY <2>14, WorkerCounts
      <4> QED BY <3>1, <3>5, <3>7, <4>1 DEF Held
    <3>9. Files(e) = Files(r)
      <4>1. Count(r.waiting, {"clipboard"}) \in Nat /\ Count(e.waiting, {"clipboard"}) \in Nat
        BY <2>14, <3>4, WorkerCounts
      <4>2. NoCandidate.to = None /\ None # "clipboard"
        BY CaptureAssumption DEF NoCandidate
      <4> QED BY <2>14, <3>1, <3>2, <3>5, <4>1, <4>2 DEF Files
    <3>10. Sane(e)
      BY <3>4, <3>5, <3>6, <3>8, <3>9 DEF Sane
    <3>11. Ends(r) \in Nat
      BY <2>14, WorkerCounts
    <3>12. Stage(r, e)
      BY <3>5, <3>6, <3>8, <3>10, <3>11 DEF Stage
    <3> QED BY <2>13, <2>14, <2>16, <3>12, StageThen
  <2> QED BY <2>15, <2>16
<1> QED BY <1>1, <1>2

\* One turn of the worker's loop, from the job it may have performed to its wait.
LEMMA TurnedKeeps ==
  ASSUME NEW w, Sane(w), NEW failing \in Nat, NEW t, t = Turned(w, failing)
  PROVE  /\ t \in Worker /\ t.pc = "wait" /\ t.job = NoJob
         /\ t.temporary = Files(t) /\ Len(t.updates) <= UpdateRoom
         /\ Held(t) = Held(w) /\ Ends(t) <= Ends(w)
         /\ Ending(w) => Ending(t)
         /\ w.recorder # "none" => t.recorder # "none" \/ Ending(t)
<1> DEFINE r == Resolved(w)
           s == Launched(r, failing)
<1>1. Stage(w, r)
  BY ResolvedKeeps
<1>2. t = [s EXCEPT !.pc = "wait", !.job = NoJob]
  BY DEF Turned
<1> HIDE DEF r
<1>3. Stage(r, s)
  BY <1>1, LaunchedKeeps DEF Stage
<1> HIDE DEF s
<1>4. Stage(w, s)
  BY <1>1, <1>3, StageThen
<1>5. s \in Worker /\ s.temporary = Files(s) /\ Held(s) <= MaxShots /\ Ends(s) <= EndsMax
  BY <1>4 DEF Stage, Sane
<1>6. t \in Worker
  BY <1>2, <1>5 DEF Worker
<1>7. /\ t.pc = "wait" /\ t.job = NoJob /\ t.recorder = s.recorder /\ t.candidate = s.candidate
      /\ t.waiting = s.waiting /\ t.updates = s.updates /\ t.temporary = s.temporary
  BY <1>2, <1>5 DEF Worker
<1>8. Held(t) = Held(s) /\ Ends(t) = Ends(s) /\ Files(t) = Files(s) /\ (Ending(s) <=> Ending(t))
  BY <1>7 DEF Held, Ends, Files, Ending, Watching
<1>9. Len(t.updates) <= UpdateRoom
  <2>1. Len(t.updates) \in Nat /\ Held(t) \in Nat /\ Ends(t) \in Nat
        /\ Len(t.updates) <= Held(t) + Ends(t)
    BY <1>6, WorkerCounts, WorkerFields
  <2> QED BY <1>5, <1>8, <2>1, Sizes
<1> QED BY <1>4, <1>5, <1>6, <1>7, <1>8, <1>9 DEF Stage

\* A job that is performed: the photograph it was is held, the recording it
\* started or stopped will be reported.
LEMMA PerformedKeeps ==
  ASSUME NEW w \in Worker, w.temporary = Files(w), w.job \in Job, w.job.kind # "shutdown",
         Held(w) + InHand(w, Shots) <= MaxShots, Ends(w) + InHand(w, Control) <= EndsMax,
         NEW works \in BOOLEAN, NEW p, p = Performed(w, works)
  PROVE  /\ Sane(p)
         /\ Held(p) = Held(w) + InHand(w, Shots)
         /\ Ends(p) <= Ends(w) + InHand(w, Control)
         /\ Ending(w) => Ending(p)
         /\ w.recorder # "none" => p.recorder # "none" \/ Ending(p)
         /\ w.job = Plain("stop") => Ending(p)
         /\ w.job = Plain("record") => p.recorder # "none" \/ Ending(p)
<1>1. /\ Held(w) \in Nat /\ Ends(w) \in Nat /\ Files(w) \in Nat /\ w.temporary \in Nat
      /\ Count(w.updates, {"ended"}) \in Nat
  BY WorkerCounts
<1>2. CASE w.job \in Shots
  <2>1. w.job.kind = "shot" /\ w.job.to \in Destinations /\ w.job \notin Control
        /\ w.job # Plain("stop") /\ w.job # Plain("record")
    BY <1>2, Kinds
  <2> DEFINE to == w.job.to
  <2>2. InHand(w, Shots) = 1 /\ InHand(w, Control) = 0
    BY <1>2, <2>1 DEF InHand
  <2>3. p = Stored(w, to, works)
    BY <2>1 DEF Performed
  <2>4. Held(w) < MaxShots /\ Ends(w) <= EndsMax /\ Held(w) + Ends(w) < MaxShots + EndsMax
    BY <1>1, <2>2, Sizes
  <2>5. SUFFICES /\ p \in Worker /\ p.temporary = Files(p)
                 /\ Held(p) = Held(w) + 1 /\ Ends(p) = Ends(w) /\ p.recorder = w.recorder
                 /\ Count(p.updates, {"ended"}) = Count(w.updates, {"ended"})
    BY <1>1, <2>1, <2>2, <2>4 DEF Sane, Ending
  <2> HIDE DEF to
  <2>6. CASE ~works \/ to = "file"
    <3>1. p = Sent(w, "shotDone")
      BY <2>3, <2>6 DEF Stored
    <3> QED BY <1>1, <2>4, <3>1, SentKeeps
  <2>7. CASE works /\ to # "file"
    <3> DEFINE s == IF to = "clipboard" THEN [w EXCEPT !.temporary = w.temporary + 1] ELSE w
               extra == IF to = "clipboard" THEN 1 ELSE 0
    <3>1. /\ s \in Worker /\ s.temporary = w.temporary + extra
          /\ s.pc = w.pc /\ s.job = w.job /\ s.recorder = w.recorder
          /\ s.candidate = w.candidate /\ s.waiting = w.waiting /\ s.updates = w.updates
      <4>1. CASE to # "clipboard"
        BY <1>1, <4>1
      <4>2. CASE to = "clipboard"
        <5>1. s = [w EXCEPT !.temporary = w.temporary + 1] /\ extra = 1 /\ w.temporary + 1 \in Nat
          BY <1>1, <4>2
        <5> HIDE DEF s, extra
        <5> QED BY <5>1 DEF Worker
      <4> QED BY <4>1, <4>2
    <3>2. p = IF ClipboardHasRoom(s) THEN [s EXCEPT !.waiting = Append(s.waiting, to)]
              ELSE Settled(s, to)
      BY <2>3, <2>7 DEF Stored
    <3>3. extra \in Nat /\ extra = IF to \in {"clipboard"} THEN 1 ELSE 0
      OBVIOUS
    <3> HIDE DEF s, extra
    <3>4. Len(w.waiting) \in Nat /\ Watching(w) \in {0, 1} /\ Count(w.updates, {"shotDone"}) \in Nat
          /\ Count(w.waiting, {"clipboard"}) \in Nat
      BY WorkerCounts
    <3>5. Len(w.waiting) + Watching(w) < MaxClipboard
      <4>1. Len(w.waiting) + Watching(w) <= Held(w)
        BY <3>4 DEF Held
      <4> QED BY <1>1, <2>4, <3>4, <4>1, Sizes
    <3>6. ClipboardHasRoom(s)
      BY <3>1, <3>5 DEF ClipboardHasRoom, Watching
    <3>7. p = [s EXCEPT !.waiting = Append(w.waiting, to)]
      BY <3>1, <3>2, <3>6
    <3>8. /\ Append(w.waiting, to) \in Seq(Destinations)
          /\ Len(Append(w.waiting, to)) = Len(w.waiting) + 1
          /\ Count(Append(w.waiting, to), {"clipboard"})
               = Count(w.waiting, {"clipboard"}) + (IF to \in {"clipboard"} THEN 1 ELSE 0)
      <4>1. w.waiting \in Seq(Destinations) /\ to \in Destinations
        BY <2>1, WorkerFields DEF to
      <4> QED BY <4>1, CountAppend
    <3>9. p \in Worker
      BY <3>1, <3>7, <3>8 DEF Worker
    <3>10. /\ p.recorder = w.recorder /\ p.candidate = w.candidate /\ p.updates = w.updates
           /\ p.waiting = Append(w.waiting, to) /\ p.temporary = w.temporary + extra
      BY <3>1, <3>7 DEF Worker
    <3>11. Files(p) = Files(w) + extra
      BY <3>3, <3>4, <3>8, <3>10 DEF Files
    <3>12. Ends(p) = Ends(w) /\ Watching(p) = Watching(w)
      BY <3>10 DEF Ends, Watching
    <3>13. Held(p) = Held(w) + 1
      BY <3>4, <3>8, <3>10, <3>12 DEF Held
    <3> QED BY <3>9, <3>10, <3>11, <3>12, <3>13
  <2> QED BY <2>6, <2>7
<1>3. CASE w.job = Plain("record")
  <2>1. w.job.kind = "record" /\ w.job \notin Shots /\ w.job \in Control /\ w.job # Plain("stop")
    BY <1>3, Kinds DEF Plain, Control
  <2>2. InHand(w, Shots) = 0 /\ InHand(w, Control) = 1
    BY <2>1 DEF InHand
  <2>3. p = Recorded(w, works)
    BY <2>1 DEF Performed
  <2>4. Held(w) <= MaxShots /\ Ends(w) < EndsMax /\ Held(w) + Ends(w) < MaxShots + EndsMax
    BY <1>1, <2>2, Sizes
  <2>5. CASE w.recorder # "none"
    <3>1. p = w
      BY <2>3, <2>5 DEF Recorded
    <3> QED BY <1>1, <2>1, <2>2, <2>4, <2>5, <3>1, Sizes DEF Sane
  <2>6. CASE w.recorder = "none" /\ works
    <3>1. p = [w EXCEPT !.recorder = "running"]
      BY <2>3, <2>6 DEF Recorded
    <3>2. p \in Worker
      BY <3>1 DEF Worker
    <3>3. /\ p.recorder = "running" /\ p.candidate = w.candidate /\ p.waiting = w.waiting
          /\ p.updates = w.updates /\ p.temporary = w.temporary
      BY <3>1 DEF Worker
    <3>4. Held(p) = Held(w) /\ Files(p) = Files(w) /\ (Ending(w) <=> Ending(p))
      BY <3>3 DEF Held, Files, Watching, Ending
    <3>5. Ends(p) = Ends(w) + 1
      <4>1. Ends(w) = Count(w.updates, {"ended"}) + 0
        BY <2>6 DEF Ends
      <4>2. Ends(p) = Count(w.updates, {"ended"}) + 1
        BY <3>3 DEF Ends
      <4> QED BY ONLY <1>1, <4>1, <4>2
    <3>6. Sane(p)
      BY <1>1, <2>4, <3>2, <3>3, <3>4, <3>5, Sizes DEF Sane
    <3> QED BY <1>1, <2>1, <2>2, <3>3, <3>4, <3>5, <3>6
  <2>7. CASE w.recorder = "none" /\ ~works
    <3>1. p = Sent(w, "ended")
      BY <2>3, <2>7 DEF Recorded
    <3>2. /\ p \in Worker /\ p.recorder = w.recorder /\ p.temporary = w.temporary
          /\ Files(p) = Files(w) /\ Held(p) = Held(w) /\ Ends(p) = Ends(w) + 1
          /\ Count(p.updates, {"ended"}) = Count(w.updates, {"ended"}) + 1
      BY <1>1, <2>4, <3>1, SentKeeps
    <3>3. Ending(p)
      BY <1>1, <3>2 DEF Ending
    <3>4. Sane(p)
      BY <1>1, <2>4, <3>2, Sizes DEF Sane
    <3> QED BY <1>1, <2>1, <2>2, <3>2, <3>3, <3>4
  <2> QED BY <2>5, <2>6, <2>7
<1>4. CASE w.job = Plain("stop")
  <2>1. w.job.kind = "stop" /\ w.job \notin Shots /\ w.job \in Control /\ w.job # Plain("record")
    BY <1>4, Kinds DEF Plain, Control
  <2>2. InHand(w, Shots) = 0 /\ InHand(w, Control) = 1
    BY <2>1 DEF InHand
  <2> DEFINE r == [w EXCEPT !.recorder = "none"]
  <2>3. p = Sent(r, "ended")
    BY <2>1 DEF Performed, Finished
  <2>4. r \in Worker
    BY DEF Worker
  <2>5. /\ r.recorder = "none" /\ r.candidate = w.candidate /\ r.waiting = w.waiting
        /\ r.updates = w.updates /\ r.temporary = w.temporary
    BY DEF Worker
  <2> HIDE DEF r
  <2>6. Held(r) = Held(w) /\ Files(r) = Files(w)
    BY <2>5 DEF Held, Files, Watching
  <2>7. Ends(r) \in Nat /\ Ends(r) <= Ends(w)
    BY <1>1, <2>5 DEF Ends
  <2>8. Held(r) + Ends(r) < MaxShots + EndsMax /\ Held(w) <= MaxShots /\ Ends(r) + 1 <= EndsMax
    BY <1>1, <2>2, <2>6, <2>7, Sizes
  <2>9. /\ p \in Worker /\ p.temporary = r.temporary /\ Files(p) = Files(r)
        /\ Held(p) = Held(r) /\ Ends(p) = Ends(r) + 1
        /\ Count(p.updates, {"ended"}) = Count(r.updates, {"ended"}) + 1
    <3>1. Held(r) \in Nat
      BY <2>4, WorkerCounts
    <3> QED BY <2>3, <2>4, <2>8, <3>1, SentKeeps
  <2>10. Ending(p)
    BY <1>1, <2>5, <2>9 DEF Ending
  <2>11. Sane(p)
    BY <1>1, <2>5, <2>6, <2>7, <2>8, <2>9 DEF Sane
  <2> QED BY <1>1, <2>1, <2>2, <2>6, <2>7, <2>9, <2>10, <2>11
<1>5. CASE w.job = Plain("error")
  <2>1. w.job.kind = "error" /\ w.job \notin Shots /\ w.job \notin Control
        /\ w.job # Plain("record") /\ w.job # Plain("stop")
    BY <1>5, Kinds DEF Plain
  <2>2. InHand(w, Shots) = 0 /\ InHand(w, Control) = 0
    BY <2>1 DEF InHand
  <2>3. p = w
    BY <2>1 DEF Performed
  <2> QED BY <1>1, <2>1, <2>2, <2>3 DEF Sane
<1>6. w.job \in Shots \/ \E k \in {"record", "stop", "error"} : w.job = Plain(k)
  <2>1. w.job # Plain("shutdown")
    BY Kinds DEF Plain
  <2> QED BY <2>1 DEF Job
<1> QED BY <1>2, <1>3, <1>4, <1>5, <1>6

-----------------------------------------------------------------------------
(* The capture tool.                                                         *)

LEMMA DeskFields ==
  ASSUME NEW d \in Desk
  PROVE  /\ d.ui \in {"none", "select", "badge"} /\ d.recording \in BOOLEAN
         /\ d.finishing \in BOOLEAN /\ d.screenshots \in Nat
         /\ d.downloads \in Seq(DestinationOrNone) /\ d.jobs \in Seq(Job)
BY DEF Desk

LEMMA DeskCounts ==
  ASSUME NEW d \in Desk
  PROVE  /\ Len(d.downloads) \in Nat /\ Len(d.jobs) \in Nat
         /\ Count(d.downloads, Destinations) \in Nat
         /\ \A S : Count(d.jobs, S) \in Nat /\ Count(d.jobs, S) <= Len(d.jobs)
         /\ Credit(d) \in {0, 1, 2}
<1>1. d.downloads \in Seq(DestinationOrNone) /\ d.jobs \in Seq(Job)
  BY DeskFields
<1>2. Count(d.downloads, Destinations) \in Nat
  BY <1>1, CountIs
<1>3. \A S : Count(d.jobs, S) \in Nat /\ Count(d.jobs, S) <= Len(d.jobs)
  <2> TAKE S
  <2> QED BY <1>1, CountIs
<1>4. Credit(d) \in {0, 1, 2}
  BY DEF Credit
<1> QED BY <1>1, <1>2, <1>3, <1>4

LEMMA InHandIs ==
  ASSUME NEW w, NEW S
  PROVE  InHand(w, S) \in {0, 1}
BY DEF InHand

\* What the invariant says of the tool while the worker lives.
Good(d, w) == DeskFits(d) /\ Charged(d, w) /\ EndsFit(d, w) /\ EndOwed(d, w)

\* Jobs that are not photographs, and the error that counts for nothing.
Signals == {Control, {Plain("record")}, {Plain("stop")}, {Plain("shutdown")}}
SameSignals(d, e) == \A S \in Signals : Count(e.jobs, S) = Count(d.jobs, S)
SameFace(d, e) == e.ui = d.ui /\ e.recording = d.recording /\ e.finishing = d.finishing

LEMMA SignalFacts ==
  /\ \A S \in Signals : Plain("error") \notin S /\ \A to \in Destinations : Shot(to) \notin S
  /\ Control \in Signals /\ {Plain("record")} \in Signals /\ {Plain("stop")} \in Signals
  /\ {Plain("shutdown")} \in Signals
BY Kinds DEF Signals

\* A job is sent when the channel has room for it.
LEMMA SubmittedKeeps ==
  ASSUME NEW d \in Desk, Len(d.jobs) <= JobRoom, NEW job \in Job, NEW e, e = Submitted(d, job)
  PROVE  /\ e \in Desk /\ SameFace(d, e) /\ Len(e.jobs) <= JobRoom
         /\ e.downloads = d.downloads /\ e.screenshots = d.screenshots
         /\ Accepts(d) => \A S : Count(e.jobs, S) = Count(d.jobs, S) + (IF job \in S THEN 1 ELSE 0)
         /\ ~Accepts(d) => e = d
         /\ \A S : job \notin S => Count(e.jobs, S) = Count(d.jobs, S)
<1>1. d.jobs \in Seq(Job) /\ Len(d.jobs) \in Nat
  BY DeskFields
<1>2. CASE ~Accepts(d)
  <2>1. e = d
    BY <1>2 DEF Submitted
  <2> QED BY <1>2, <2>1 DEF SameFace
<1>3. CASE Accepts(d)
  <2> DEFINE more == Append(d.jobs, job)
  <2>1. e = [d EXCEPT !.jobs = more]
    BY <1>3 DEF Submitted
  <2>2. more \in Seq(Job) /\ Len(more) = Len(d.jobs) + 1
    BY <1>1
  <2>3. \A S : Count(more, S) = Count(d.jobs, S) + (IF job \in S THEN 1 ELSE 0)
    <3> TAKE S
    <3> QED BY <1>1, CountAppend
  <2>4. \A S : Count(d.jobs, S) \in Nat
    BY DeskCounts
  <2> HIDE DEF more
  <2>5. e \in Desk
    BY <2>1, <2>2 DEF Desk
  <2>6. /\ e.ui = d.ui /\ e.recording = d.recording /\ e.finishing = d.finishing
        /\ e.downloads = d.downloads /\ e.screenshots = d.screenshots /\ e.jobs = more
    BY <2>1 DEF Desk
  <2>7. Len(e.jobs) <= JobRoom
    BY <1>1, <1>3, <2>2, <2>6, Sizes DEF Accepts
  <2>8. \A S : Count(e.jobs, S) = Count(d.jobs, S) + (IF job \in S THEN 1 ELSE 0)
    BY <2>3, <2>6
  <2>9. \A S : job \notin S => Count(e.jobs, S) = Count(d.jobs, S)
    BY <2>4, <2>8
  <2> QED BY <1>3, <2>5, <2>6, <2>7, <2>8, <2>9 DEF SameFace
<1> QED BY <1>2, <1>3

\* A tool that differs in nothing the invariant speaks of.
LEMMA GoodSame ==
  ASSUME NEW d, NEW w, Good(d, w), NEW e \in Desk, SameFace(d, e), Len(e.jobs) <= JobRoom,
         e.downloads = d.downloads, e.screenshots = d.screenshots, SameSignals(d, e),
         Count(e.jobs, Shots) = Count(d.jobs, Shots)
  PROVE  Good(e, w) /\ Due(e, w, "shutdown") = Due(d, w, "shutdown")
<1>1. DeskFits(e)
  BY DEF Good, DeskFits
<1>2. Charged(e, w)
  BY DEF Good, Charged
<1>3. /\ Count(e.jobs, Control) = Count(d.jobs, Control)
      /\ Count(e.jobs, {Plain("record")}) = Count(d.jobs, {Plain("record")})
      /\ Count(e.jobs, {Plain("stop")}) = Count(d.jobs, {Plain("stop")})
      /\ Count(e.jobs, {Plain("shutdown")}) = Count(d.jobs, {Plain("shutdown")})
  BY SignalFacts DEF SameSignals
<1>4. Due(e, w, "record") = Due(d, w, "record") /\ Due(e, w, "stop") = Due(d, w, "stop")
      /\ Due(e, w, "shutdown") = Due(d, w, "shutdown")
  BY <1>3 DEF Due
<1>5. Credit(e) = Credit(d) /\ EndsFit(e, w)
  BY <1>3 DEF Good, EndsFit, Credit, SameFace
<1>6. EndOwed(e, w)
  BY <1>4 DEF Good, EndOwed, SameFace
<1> QED BY <1>1, <1>2, <1>4, <1>5, <1>6 DEF Good

LEMMA ErrorKeeps ==
  ASSUME NEW d, NEW w, Good(d, w), NEW e, e = Submitted(d, Plain("error"))
  PROVE  Good(e, w) /\ Due(e, w, "shutdown") = Due(d, w, "shutdown") /\ SameFace(d, e)
<1>1. Plain("error") \in Job /\ Plain("error") \notin Shots
  BY Kinds
<1>2. d \in Desk /\ Len(d.jobs) <= JobRoom
  BY DEF Good, DeskFits
<1>3. /\ e \in Desk /\ SameFace(d, e) /\ Len(e.jobs) <= JobRoom
      /\ e.downloads = d.downloads /\ e.screenshots = d.screenshots
      /\ \A S : Plain("error") \notin S => Count(e.jobs, S) = Count(d.jobs, S)
  BY <1>1, <1>2, SubmittedKeeps
<1>4. SameSignals(d, e)
  BY <1>3, SignalFacts DEF SameSignals
<1> QED BY <1>1, <1>3, <1>4, GoodSame

\* A photograph is charged when it is taken.
LEMMA PhotographedKeeps ==
  ASSUME NEW d, NEW w \in Worker, Good(d, w), NEW to \in Destinations, NEW readable \in BOOLEAN,
         NEW e, e = Photographed(d, to, readable)
  PROVE  Good(e, w) /\ Due(e, w, "shutdown") = Due(d, w, "shutdown") /\ SameFace(d, e)
<1>1. CASE ~(HasRoom(d) /\ readable)
  BY <1>1, ErrorKeeps DEF Photographed
<1>2. CASE HasRoom(d) /\ readable
  <2> DEFINE more == Append(d.downloads, to)
             n == d.screenshots + 1
  <2>1. /\ d \in Desk /\ Len(d.jobs) <= JobRoom /\ d.screenshots \in Nat /\ Len(d.downloads) \in Nat
        /\ d.downloads \in Seq(DestinationOrNone) /\ to \in DestinationOrNone
    BY DeskFields DEF Good, DeskFits, DestinationOrNone
  <2>2. e = [d EXCEPT !.downloads = more, !.screenshots = n]
    BY <1>2 DEF Photographed
  <2>3. more \in Seq(DestinationOrNone) /\ Len(more) = Len(d.downloads) + 1 /\ n \in Nat
    BY <2>1
  <2>4. Count(more, Destinations) = Count(d.downloads, Destinations) + 1
    BY <2>1, CountAppend
  <2>5. n <= MaxShots /\ Len(more) <= MaxShots
    BY <1>2, <2>1, <2>3, Sizes DEF HasRoom
  <2> HIDE DEF more
  <2>6. e \in Desk
    BY <2>1, <2>2, <2>3 DEF Desk
  <2>7. /\ e.ui = d.ui /\ e.recording = d.recording /\ e.finishing = d.finishing
        /\ e.downloads = more /\ e.screenshots = n /\ e.jobs = d.jobs
    BY <2>1, <2>2 DEF Desk
  <2> HIDE DEF n
  <2>8. DeskFits(e)
    BY <2>1, <2>5, <2>6, <2>7 DEF DeskFits
  <2>9. Charged(e, w)
    <3>1. /\ Count(d.downloads, Destinations) \in Nat /\ Count(d.jobs, Shots) \in Nat
      BY <2>1, DeskCounts
    <3>2. d.screenshots = Count(d.downloads, Destinations) + Count(d.jobs, Shots)
                            + InHand(w, Shots) + Held(w)
          /\ w.temporary = Files(w)
      BY DEF Good, Charged
    <3> DEFINE a == Count(d.downloads, Destinations)
               b == Count(d.jobs, Shots)
               h == InHand(w, Shots)
               k == Held(w)
    <3>3. h \in {0, 1} /\ a \in Nat /\ b \in Nat /\ k \in Nat /\ d.screenshots = a + b + h + k
      BY <3>1, <3>2, InHandIs, WorkerCounts
    <3>4. e.screenshots = d.screenshots + 1 /\ Count(e.downloads, Destinations) = a + 1
          /\ Count(e.jobs, Shots) = b
      BY <2>4, <2>7 DEF n
    <3> SUFFICES e.screenshots = (a + 1) + b + h + k
      BY <3>2, <3>4 DEF Charged
    <3> HIDE DEF a, b, h, k
    <3> QED BY ONLY <3>3, <3>4
  <2>10. SameSignals(d, e)
    BY <2>7 DEF SameSignals
  <2>11. Due(e, w, "record") = Due(d, w, "record") /\ Due(e, w, "stop") = Due(d, w, "stop")
         /\ Due(e, w, "shutdown") = Due(d, w, "shutdown")
    BY <2>7 DEF Due
  <2>12. EndsFit(e, w) /\ EndOwed(e, w)
    BY <2>7, <2>11 DEF Good, EndsFit, Credit, EndOwed
  <2> QED BY <2>7, <2>8, <2>9, <2>11, <2>12 DEF Good, SameFace
<1> QED BY <1>1, <1>2

\* Whether the selection is up is not the invariant's matter, while none records.
LEMMA FaceKeeps ==
  ASSUME NEW d, NEW w, Good(d, w), ~d.recording, NEW ui \in {"none", "select"},
         NEW e, e = [d EXCEPT !.ui = ui]
  PROVE  Good(e, w) /\ Due(e, w, "shutdown") = Due(d, w, "shutdown") /\ ~e.recording
<1>1. d \in Desk
  BY DEF Good, DeskFits
<1>2. e \in Desk
  BY <1>1 DEF Desk
<1>3. /\ e.ui = ui /\ e.recording = d.recording /\ e.finishing = d.finishing
      /\ e.downloads = d.downloads /\ e.screenshots = d.screenshots /\ e.jobs = d.jobs
  BY <1>1 DEF Desk
<1>4. Due(e, w, "record") = Due(d, w, "record") /\ Due(e, w, "stop") = Due(d, w, "stop")
      /\ Due(e, w, "shutdown") = Due(d, w, "shutdown")
  BY <1>3 DEF Due
<1>5. DeskFits(e) /\ Charged(e, w) /\ EndsFit(e, w)
  BY <1>2, <1>3 DEF Good, DeskFits, Charged, EndsFit, Credit
<1>6. EndOwed(e, w)
  BY <1>3, <1>4 DEF Good, EndOwed
<1> QED BY <1>3, <1>4, <1>5, <1>6 DEF Good

\* What is selected is not yet recorded.
LEMMA SelectingIs ==
  ASSUME NEW d, NEW w, Good(d, w), d.ui = "select"
  PROVE  ~d.recording /\ ~d.finishing
BY DEF Good, EndOwed

LEMMA DueIs ==
  ASSUME NEW d \in Desk, NEW w, NEW k
  PROVE  Due(d, w, k) \in Nat
BY DeskCounts, InHandIs DEF Due

\* A recording is asked for: one of the two ends it may bring is now a job.
LEMMA CommitKeeps ==
  ASSUME NEW d, NEW w \in Worker, Good(d, w), d.ui = "select", Accepts(d),
         NEW e, e = [Submitted(d, Plain("record")) EXCEPT !.recording = TRUE, !.ui = "badge"]
  PROVE  Good(e, w) /\ Due(e, w, "shutdown") = Due(d, w, "shutdown")
<1> DEFINE s == Submitted(d, Plain("record"))
<1>1. d \in Desk /\ Len(d.jobs) <= JobRoom /\ ~d.recording /\ ~d.finishing
  BY SelectingIs DEF Good, DeskFits
<1>2. Plain("record") \in Job /\ Plain("record") \notin Shots /\ Plain("record") \in Control
      /\ Plain("record") # Plain("stop") /\ Plain("record") # Plain("shutdown")
  BY Kinds DEF Control
<1>3. /\ s \in Desk /\ SameFace(d, s) /\ Len(s.jobs) <= JobRoom
      /\ s.downloads = d.downloads /\ s.screenshots = d.screenshots
      /\ \A S : Count(s.jobs, S) = Count(d.jobs, S) + (IF Plain("record") \in S THEN 1 ELSE 0)
  BY <1>1, <1>2, SubmittedKeeps
<1>4. e = [s EXCEPT !.recording = TRUE, !.ui = "badge"]
  OBVIOUS
<1> HIDE DEF s
<1>5. e \in Desk
  BY <1>3, <1>4 DEF Desk
<1>6. /\ e.ui = "badge" /\ e.recording = TRUE /\ e.finishing = s.finishing
      /\ e.downloads = s.downloads /\ e.screenshots = s.screenshots /\ e.jobs = s.jobs
  BY <1>3, <1>4 DEF Desk
<1>7. \A S : Count(d.jobs, S) \in Nat
  BY <1>1, DeskCounts
<1>8. /\ Count(e.jobs, Shots) = Count(d.jobs, Shots)
      /\ Count(e.jobs, Control) = Count(d.jobs, Control) + 1
      /\ Count(e.jobs, {Plain("record")}) = Count(d.jobs, {Plain("record")}) + 1
      /\ Count(e.jobs, {Plain("shutdown")}) = Count(d.jobs, {Plain("shutdown")})
  BY <1>2, <1>3, <1>6, <1>7
<1>9. e.finishing = d.finishing
  BY <1>3, <1>6 DEF SameFace
<1>10. DeskFits(e) /\ Charged(e, w)
  BY <1>3, <1>5, <1>6, <1>8 DEF Good, DeskFits, Charged
<1>11. EndsFit(e, w)
  <2>1. Credit(d) = 2 /\ Credit(e) = 1
    BY <1>1, <1>6, <1>9 DEF Credit
  <2>2. Ends(w) \in Nat /\ InHand(w, Control) \in {0, 1} /\ Count(d.jobs, Control) \in Nat
    BY <1>7, WorkerCounts, InHandIs
  <2>3. Ends(w) + InHand(w, Control) + Count(d.jobs, Control) + Credit(d) <= EndsMax
    BY DEF Good, EndsFit
  <2>4. Ends(w) + InHand(w, Control) + Count(e.jobs, Control) + Credit(e) <= EndsMax
    BY <1>8, <2>1, <2>2, <2>3, Sizes
  <2> QED BY <2>4 DEF EndsFit
<1>12. EndOwed(e, w)
  <2>1. Due(e, w, "record") > 0
    BY <1>7, <1>8, InHandIs DEF Due
  <2> QED BY <1>1, <1>6, <1>9, <2>1 DEF EndOwed
<1>13. Due(e, w, "shutdown") = Due(d, w, "shutdown")
  BY <1>8 DEF Due
<1> QED BY <1>10, <1>11, <1>12, <1>13 DEF Good

\* A recording is stopped once its job has a place.
LEMMA StoppedKeeps ==
  ASSUME NEW d, NEW w \in Worker, Good(d, w), NEW e, e = Stopped(d)
  PROVE  Good(e, w) /\ Due(e, w, "shutdown") = Due(d, w, "shutdown")
<1>1. CASE ~(d.recording /\ ~d.finishing /\ Accepts(d))
  BY <1>1 DEF Stopped
<1>2. CASE d.recording /\ ~d.finishing /\ Accepts(d)
  <2> DEFINE s == Submitted(d, Plain("stop"))
  <2>1. d \in Desk /\ Len(d.jobs) <= JobRoom
    BY DEF Good, DeskFits
  <2>2. Plain("stop") \in Job /\ Plain("stop") \notin Shots /\ Plain("stop") \in Control
        /\ Plain("record") # Plain("stop") /\ Plain("stop") # Plain("shutdown")
    BY Kinds DEF Control
  <2>3. /\ s \in Desk /\ SameFace(d, s) /\ Len(s.jobs) <= JobRoom
        /\ s.downloads = d.downloads /\ s.screenshots = d.screenshots
        /\ \A S : Count(s.jobs, S) = Count(d.jobs, S) + (IF Plain("stop") \in S THEN 1 ELSE 0)
    BY <1>2, <2>1, <2>2, SubmittedKeeps
  <2>4. e = [s EXCEPT !.finishing = TRUE]
    BY <1>2 DEF Stopped
  <2> HIDE DEF s
  <2>5. e \in Desk
    BY <2>3, <2>4 DEF Desk
  <2>6. /\ e.ui = s.ui /\ e.recording = s.recording /\ e.finishing = TRUE
        /\ e.downloads = s.downloads /\ e.screenshots = s.screenshots /\ e.jobs = s.jobs
    BY <2>3, <2>4 DEF Desk
  <2>7. \A S : Count(d.jobs, S) \in Nat
    BY <2>1, DeskCounts
  <2>8. /\ Count(e.jobs, Shots) = Count(d.jobs, Shots)
        /\ Count(e.jobs, Control) = Count(d.jobs, Control) + 1
        /\ Count(e.jobs, {Plain("stop")}) = Count(d.jobs, {Plain("stop")}) + 1
        /\ Count(e.jobs, {Plain("shutdown")}) = Count(d.jobs, {Plain("shutdown")})
    BY <2>2, <2>3, <2>6, <2>7
  <2>9. e.ui = d.ui /\ e.recording = d.recording
    BY <2>3, <2>6 DEF SameFace
  <2>10. DeskFits(e) /\ Charged(e, w)
    BY <2>3, <2>5, <2>6, <2>8 DEF Good, DeskFits, Charged
  <2>11. EndsFit(e, w)
    <3>1. Credit(d) = 1 /\ Credit(e) = 0
      BY <1>2, <2>6, <2>9 DEF Credit
    <3>2. Ends(w) \in Nat /\ InHand(w, Control) \in {0, 1} /\ Count(d.jobs, Control) \in Nat
      BY <2>7, WorkerCounts, InHandIs
    <3>3. Ends(w) + InHand(w, Control) + Count(d.jobs, Control) + Credit(d) <= EndsMax
      BY DEF Good, EndsFit
    <3>4. Ends(w) + InHand(w, Control) + Count(e.jobs, Control) + Credit(e) <= EndsMax
      BY <2>8, <3>1, <3>2, <3>3, Sizes
    <3> QED BY <3>4 DEF EndsFit
  <2>12. EndOwed(e, w)
    <3>1. Due(e, w, "stop") > 0
      BY <2>7, <2>8, InHandIs DEF Due
    <3> QED BY <1>2, <2>6, <2>9, <3>1 DEF Good, EndOwed
  <2>13. Due(e, w, "shutdown") = Due(d, w, "shutdown")
    BY <2>8 DEF Due
  <2> QED BY <2>10, <2>11, <2>12, <2>13 DEF Good
<1> QED BY <1>1, <1>2

LEMMA RefundedKeeps ==
  ASSUME NEW d \in Desk, NEW e, e = Refunded(d)
  PROVE  /\ e \in Desk /\ SameFace(d, e) /\ e.downloads = d.downloads /\ e.jobs = d.jobs
         /\ e.screenshots <= d.screenshots
         /\ d.screenshots > 0 => e.screenshots = d.screenshots - 1
<1> DEFINE n == IF d.screenshots = 0 THEN 0 ELSE d.screenshots - 1
<1>1. d.screenshots \in Nat /\ n \in Nat /\ n <= d.screenshots
      /\ (d.screenshots > 0 => n = d.screenshots - 1)
  BY DeskFields
<1>2. e = [d EXCEPT !.screenshots = n]
  BY DEF Refunded
<1> HIDE DEF n
<1>3. e \in Desk
  BY <1>1, <1>2 DEF Desk
<1>4. /\ e.ui = d.ui /\ e.recording = d.recording /\ e.finishing = d.finishing
      /\ e.downloads = d.downloads /\ e.screenshots = n /\ e.jobs = d.jobs
  BY <1>2 DEF Desk
<1> QED BY <1>1, <1>3, <1>4 DEF SameFace

LEMMA Places ==
  ASSUME NEW to \in DestinationOrNone
  PROVE  to # None <=> to \in Destinations
BY CaptureAssumption DEF DestinationOrNone

\* One photograph is looked at: it is held by the GPU, on its way, or refunded.
LEMMA ServedKeeps ==
  ASSUME NEW d \in Desk, Len(d.jobs) <= JobRoom, NEW to \in DestinationOrNone, NEW B \in Nat,
         d.screenshots = Count(d.downloads, Destinations) + Count(d.jobs, Shots)
                           + (IF to \in Destinations THEN 1 ELSE 0) + B,
         NEW ready, NEW late, NEW e, e = Served(d, to, ready, late)
  PROVE  /\ e \in Desk /\ SameFace(d, e) /\ SameSignals(d, e) /\ Len(e.jobs) <= JobRoom
         /\ Len(e.downloads) <= Len(d.downloads) + 1 /\ e.screenshots <= d.screenshots
         /\ e.screenshots = Count(e.downloads, Destinations) + Count(e.jobs, Shots) + B
<1> DEFINE canceled == to # None /\ (locked \/ late)
           left == IF canceled THEN None ELSE to
           s == IF canceled THEN Submitted(Refunded(d), Plain("error")) ELSE d
           a == Count(d.downloads, Destinations)
<1>1. e = IF ~ready THEN [s EXCEPT !.downloads = Append(s.downloads, left)]
          ELSE IF left = None THEN s
          ELSE IF Accepts(s) THEN Submitted(s, Shot(left))
          ELSE Refunded(s)
  BY DEF Served
<1>2. d.screenshots \in Nat /\ a \in Nat /\ Count(d.jobs, Shots) \in Nat /\ Len(d.downloads) \in Nat
  BY DeskFields, DeskCounts
<1>3. left \in DestinationOrNone
  BY DEF DestinationOrNone
<1>4. /\ s \in Desk /\ SameFace(d, s) /\ SameSignals(d, s) /\ Len(s.jobs) <= JobRoom
      /\ s.downloads = d.downloads /\ s.screenshots <= d.screenshots
      /\ s.screenshots = a + Count(s.jobs, Shots) + (IF left \in Destinations THEN 1 ELSE 0) + B
  <2>1. CASE ~canceled
    BY <1>2, <2>1 DEF SameFace, SameSignals
  <2>2. CASE canceled
    <3> DEFINE r == Refunded(d)
    <3>1. to \in Destinations /\ None \notin Destinations /\ left = None
      BY <2>2, Places, CaptureAssumption
    <3>2. d.screenshots > 0
      BY <1>2, <3>1
    <3>3. /\ r \in Desk /\ SameFace(d, r) /\ r.downloads = d.downloads /\ r.jobs = d.jobs
          /\ r.screenshots = d.screenshots - 1
      BY <3>2, RefundedKeeps
    <3>4. s = Submitted(r, Plain("error"))
      BY <2>2
    <3>5. Plain("error") \in Job /\ Plain("error") \notin Shots
      BY Kinds
    <3> HIDE DEF r, s, canceled, left
    <3>6. /\ s \in Desk /\ SameFace(r, s) /\ Len(s.jobs) <= JobRoom
          /\ s.downloads = r.downloads /\ s.screenshots = r.screenshots
          /\ \A S : Plain("error") \notin S => Count(s.jobs, S) = Count(r.jobs, S)
      BY <3>3, <3>4, <3>5, SubmittedKeeps
    <3>7. SameFace(d, s)
      BY <3>3, <3>6 DEF SameFace
    <3>8. SameSignals(d, s)
      BY <3>3, <3>6, SignalFacts DEF SameSignals
    <3>9. Count(s.jobs, Shots) = Count(d.jobs, Shots)
      BY <3>3, <3>5, <3>6
    <3>10. s.screenshots = a + Count(s.jobs, Shots) + (IF left \in Destinations THEN 1 ELSE 0) + B
      BY <1>2, <3>1, <3>3, <3>6, <3>9
    <3> QED BY <1>2, <3>3, <3>6, <3>7, <3>8, <3>10
  <2> QED BY <2>1, <2>2
<1> HIDE DEF s, left, canceled
<1>5. s.screenshots \in Nat /\ Count(s.jobs, Shots) \in Nat
      /\ s.downloads \in Seq(DestinationOrNone)
  BY <1>4, DeskFields, DeskCounts
<1>6. CASE ~ready
  <2> DEFINE more == Append(s.downloads, left)
  <2>1. more \in Seq(DestinationOrNone) /\ Len(more) = Len(d.downloads) + 1
    BY <1>3, <1>4, <1>5
  <2>2. Count(more, Destinations) = a + (IF left \in Destinations THEN 1 ELSE 0)
    BY <1>3, <1>4, <1>5, CountAppend
  <2>3. e = [s EXCEPT !.downloads = more]
    BY <1>1, <1>6
  <2> HIDE DEF more
  <2>4. e \in Desk
    BY <1>4, <2>1, <2>3 DEF Desk
  <2>5. /\ e.ui = s.ui /\ e.recording = s.recording /\ e.finishing = s.finishing
        /\ e.downloads = more /\ e.screenshots = s.screenshots /\ e.jobs = s.jobs
    BY <1>4, <2>3 DEF Desk
  <2>6. SameFace(d, e) /\ SameSignals(d, e)
    BY <1>4, <2>5 DEF SameFace, SameSignals
  <2>7. e.screenshots = Count(e.downloads, Destinations) + Count(e.jobs, Shots) + B
    BY <1>2, <1>4, <1>5, <2>2, <2>5
  <2> QED BY <1>2, <1>4, <2>1, <2>4, <2>5, <2>6, <2>7
<1>7. CASE ready /\ left = None
  <2>1. e = s
    BY <1>1, <1>7
  <2>2. left \notin Destinations
    BY <1>3, <1>7, Places
  <2>3. e.screenshots = Count(e.downloads, Destinations) + Count(e.jobs, Shots) + B
    BY <1>2, <1>4, <1>5, <2>1, <2>2
  <2> QED BY <1>2, <1>4, <2>1, <2>3
<1>8. CASE ready /\ left # None /\ Accepts(s)
  <2>1. e = Submitted(s, Shot(left))
    BY <1>1, <1>8
  <2>2. left \in Destinations
    BY <1>3, <1>8, Places
  <2>3. Shot(left) \in Job /\ Shot(left) \in Shots /\ \A S \in Signals : Shot(left) \notin S
    BY <2>2, Kinds, SignalFacts
  <2>4. /\ e \in Desk /\ SameFace(s, e) /\ Len(e.jobs) <= JobRoom
        /\ e.downloads = s.downloads /\ e.screenshots = s.screenshots
        /\ \A S : Count(e.jobs, S) = Count(s.jobs, S) + (IF Shot(left) \in S THEN 1 ELSE 0)
        /\ \A S : Shot(left) \notin S => Count(e.jobs, S) = Count(s.jobs, S)
    <3> DEFINE job == Shot(left)
    <3>1. s \in Desk /\ Len(s.jobs) <= JobRoom /\ Accepts(s) /\ job \in Job /\ e = Submitted(s, job)
      BY <1>4, <1>8, <2>1, <2>3
    <3> HIDE DEF job
    <3>2. /\ e \in Desk /\ SameFace(s, e) /\ Len(e.jobs) <= JobRoom
          /\ e.downloads = s.downloads /\ e.screenshots = s.screenshots
          /\ \A S : Count(e.jobs, S) = Count(s.jobs, S) + (IF job \in S THEN 1 ELSE 0)
          /\ \A S : job \notin S => Count(e.jobs, S) = Count(s.jobs, S)
      BY <3>1, SubmittedKeeps
    <3> QED BY <3>2 DEF job
  <2>5. SameFace(d, e)
    BY <1>4, <2>4 DEF SameFace
  <2>6. SameSignals(d, e)
    BY <1>4, <2>3, <2>4 DEF SameSignals
  <2>7. Count(e.jobs, Shots) = Count(s.jobs, Shots) + 1
    BY <2>3, <2>4
  <2>8. e.screenshots = Count(e.downloads, Destinations) + Count(e.jobs, Shots) + B
    BY <1>2, <1>4, <1>5, <2>2, <2>4, <2>7
  <2> QED BY <1>2, <1>4, <2>4, <2>5, <2>6, <2>8
<1>9. CASE ready /\ left # None /\ ~Accepts(s)
  <2>1. e = Refunded(s)
    BY <1>1, <1>9
  <2>2. left \in Destinations
    BY <1>3, <1>9, Places
  <2>3. s.screenshots > 0
    BY <1>2, <1>4, <1>5, <2>2
  <2>4. /\ e \in Desk /\ SameFace(s, e) /\ e.downloads = s.downloads /\ e.jobs = s.jobs
        /\ e.screenshots = s.screenshots - 1
    BY <1>4, <2>1, <2>3, RefundedKeeps
  <2>5. SameFace(d, e) /\ SameSignals(d, e)
    BY <1>4, <2>4 DEF SameFace, SameSignals
  <2>6. e.screenshots = Count(e.downloads, Destinations) + Count(e.jobs, Shots) + B
        /\ e.screenshots <= d.screenshots
    <3>1. s.screenshots = a + Count(s.jobs, Shots) + 1 + B /\ s.screenshots <= d.screenshots
      BY <1>4, <2>2
    <3>2. Count(e.downloads, Destinations) = a /\ Count(e.jobs, Shots) = Count(s.jobs, Shots)
          /\ e.screenshots = s.screenshots - 1
      BY <1>4, <2>4
    <3>3. a \in Nat /\ B \in Nat /\ Count(s.jobs, Shots) \in Nat /\ s.screenshots \in Nat
          /\ d.screenshots \in Nat
      BY <1>2, <1>5
    <3> QED BY ONLY <3>1, <3>2, <3>3
  <2> QED BY <1>2, <1>4, <2>4, <2>5, <2>6
<1> QED BY <1>6, <1>7, <1>8, <1>9

\* A poll of the downloads looks at each once, in order, and keeps the count.
LEMMA AllServedKeeps ==
  ASSUME NEW d, NEW w \in Worker, Good(d, w), NEW ready, NEW late,
         NEW e, e = AllServed(d, ready, late)
  PROVE  Good(e, w) /\ SameFace(d, e) /\ Due(e, w, "shutdown") = Due(d, w, "shutdown")
<1> DEFINE n == Len(d.downloads)
           K == InHand(w, Shots) + Held(w)
           R(i) == Rest(d.downloads, Destinations, i)
           start == [d EXCEPT !.downloads = <<>>]
<1>1. /\ d \in Desk /\ Len(d.jobs) <= JobRoom /\ n \in Nat /\ n <= MaxShots
      /\ d.screenshots <= MaxShots /\ d.screenshots \in Nat /\ d.downloads \in Seq(DestinationOrNone)
      /\ Count(d.jobs, Shots) \in Nat
  BY DeskFields, DeskCounts DEF Good, DeskFits
<1>2. /\ \A i \in 0 .. n : R(i) \in Nat
      /\ R(0) = Count(d.downloads, Destinations) /\ R(n) = 0
      /\ \A i \in 1 .. n : R(i - 1) = R(i) + (IF d.downloads[i] \in Destinations THEN 1 ELSE 0)
  <2> DEFINE s == d.downloads
  <2>1. s \in Seq(DestinationOrNone)
    BY <1>1
  <2> HIDE DEF s
  <2>2. \A i \in 0 .. Len(s) : Rest(s, Destinations, i) \in Nat
    BY <2>1, RestIs
  <2>3. Rest(s, Destinations, 0) = Count(s, Destinations) /\ Rest(s, Destinations, Len(s)) = 0
    BY <2>1, RestIs
  <2>4. \A i \in 1 .. Len(s) :
          Rest(s, Destinations, i - 1)
            = Rest(s, Destinations, i) + (IF s[i] \in Destinations THEN 1 ELSE 0)
    BY <2>1, RestDrops
  <2> QED BY <2>2, <2>3, <2>4 DEF s
<1>3. K \in Nat
  BY InHandIs, WorkerCounts
<1>4. /\ start \in Desk /\ start.downloads = <<>> /\ start.jobs = d.jobs
      /\ start.screenshots = d.screenshots /\ SameFace(d, start) /\ SameSignals(d, start)
  <2>1. start \in Desk
    <3>1. <<>> \in Seq(DestinationOrNone)
      OBVIOUS
    <3> QED BY <1>1, <3>1 DEF Desk
  <2>2. /\ start.ui = d.ui /\ start.recording = d.recording /\ start.finishing = d.finishing
        /\ start.downloads = <<>> /\ start.jobs = d.jobs /\ start.screenshots = d.screenshots
    BY <1>1 DEF Desk
  <2> QED BY <2>1, <2>2 DEF SameFace, SameSignals
<1>5. \A i \in 1 .. n : i \in 0 .. n /\ i - 1 \in 0 .. n /\ i \in Nat /\ i - 1 \in Nat
  BY <1>1
<1>6. 0 \in 0 .. n /\ n \in 0 .. n
  BY <1>1
<1>7. d.screenshots = Count(d.downloads, Destinations) + Count(d.jobs, Shots) + K
  <2>1. d.screenshots = Count(d.downloads, Destinations) + Count(d.jobs, Shots)
                          + InHand(w, Shots) + Held(w)
    BY DEF Good, Charged
  <2>2. /\ Count(d.downloads, Destinations) \in Nat /\ InHand(w, Shots) \in {0, 1} /\ Held(w) \in Nat
    BY <1>1, InHandIs, WorkerCounts, DeskCounts
  <2> QED BY <1>1, <2>1, <2>2
<1> DEFINE Step(i, x) == Served(x, d.downloads[i], i \in ready, i \in late)
           S == [i \in 0 .. n |->
                  {x \in Desk : /\ SameFace(d, x) /\ SameSignals(d, x)
                                /\ Len(x.jobs) <= JobRoom /\ Len(x.downloads) <= i
                                /\ x.screenshots <= MaxShots
                                /\ x.screenshots = Count(x.downloads, Destinations)
                                                     + Count(x.jobs, Shots) + (R(i) + K)}]
           G == [i \in 1 .. n |-> [x \in Desk |-> IF x \in S[i - 1] THEN Step(i, x) ELSE start]]
<1>8. e = LET after[i \in 0 .. n] == IF i = 0 THEN start ELSE Step(i, after[i - 1])
          IN  after[n]
  BY DEF AllServed
<1> HIDE DEF start, R, K
<1>9. S \in [0 .. n -> SUBSET Desk]
  OBVIOUS
<1>10. start \in S[0]
  <2>1. Count(start.downloads, Destinations) = 0 /\ Len(start.downloads) = 0
    BY <1>4, CountEmpty
  <2>2. Count(d.downloads, Destinations) \in Nat
    BY <1>1, DeskCounts
  <2>3. start.screenshots = Count(start.downloads, Destinations) + Count(start.jobs, Shots) + (R(0) + K)
    BY <1>1, <1>2, <1>3, <1>4, <1>7, <2>1, <2>2
  <2> QED BY <1>1, <1>4, <1>6, <2>1, <2>3
<1>11. ASSUME NEW i \in 1 .. n, NEW x \in S[i - 1]
       PROVE  Step(i, x) \in S[i]
  <2>1. /\ x \in Desk /\ SameFace(d, x) /\ SameSignals(d, x)
        /\ Len(x.jobs) <= JobRoom /\ Len(x.downloads) <= i - 1
        /\ x.screenshots <= MaxShots
        /\ x.screenshots = Count(x.downloads, Destinations) + Count(x.jobs, Shots) + (R(i - 1) + K)
    BY <1>5
  <2> DEFINE to == d.downloads[i]
             B == R(i) + K
             y == Step(i, x)
  <2>2. to \in DestinationOrNone
    BY <1>1
  <2>3. B \in Nat /\ R(i) \in Nat /\ R(i - 1) = R(i) + (IF to \in Destinations THEN 1 ELSE 0)
    BY <1>2, <1>3, <1>5
  <2>4. y = Served(x, to, i \in ready, i \in late)
    OBVIOUS
  <2>5. Count(x.downloads, Destinations) \in Nat /\ Count(x.jobs, Shots) \in Nat
        /\ Len(x.downloads) \in Nat /\ x.screenshots \in Nat
    BY <2>1, DeskCounts, DeskFields
  <2> HIDE DEF to, y
  <2>6. x.screenshots = Count(x.downloads, Destinations) + Count(x.jobs, Shots)
                          + (IF to \in Destinations THEN 1 ELSE 0) + B
    BY <1>3, <2>1, <2>3, <2>5
  <2> HIDE DEF B
  <2>7. /\ y \in Desk /\ SameFace(x, y) /\ SameSignals(x, y) /\ Len(y.jobs) <= JobRoom
        /\ Len(y.downloads) <= Len(x.downloads) + 1 /\ y.screenshots <= x.screenshots
        /\ y.screenshots = Count(y.downloads, Destinations) + Count(y.jobs, Shots) + B
    BY <2>1, <2>2, <2>3, <2>4, <2>6, ServedKeeps
  <2>8. SameFace(d, y) /\ SameSignals(d, y)
    BY <2>1, <2>7 DEF SameFace, SameSignals
  <2>9. Len(y.downloads) \in Nat /\ y.screenshots \in Nat
    BY <2>7, DeskFields, DeskCounts
  <2>10. Len(y.downloads) <= i /\ y.screenshots <= MaxShots
    <3>1. i \in Nat /\ MaxShots \in Nat
      BY <1>5, Sizes
    <3>2. Len(x.downloads) <= i - 1 /\ x.screenshots <= MaxShots
          /\ Len(x.downloads) \in Nat /\ x.screenshots \in Nat
      BY <2>1, <2>5
    <3>3. Len(y.downloads) <= Len(x.downloads) + 1 /\ y.screenshots <= x.screenshots
      BY <2>7
    <3> QED BY ONLY <2>9, <3>1, <3>2, <3>3
  <2>11. y \in S[i]
    BY <1>5, <2>7, <2>8, <2>10 DEF B
  <2> QED BY <2>11 DEF y
<1>12. \A i \in 0 .. n : S[i] \subseteq Desk
  OBVIOUS
<1>13. \A x \in S[n] :
         /\ x \in Desk /\ SameFace(d, x) /\ SameSignals(d, x)
         /\ Len(x.jobs) <= JobRoom /\ Len(x.downloads) <= n
         /\ x.screenshots <= MaxShots
         /\ x.screenshots = Count(x.downloads, Destinations) + Count(x.jobs, Shots) + (R(n) + K)
  BY <1>6
<1> HIDE DEF S, n, Step
<1>14. G \in Bodies(n, Desk)
  <2>1. \A i \in 1 .. n : \A x \in Desk : (IF x \in S[i - 1] THEN Step(i, x) ELSE start) \in Desk
    BY <1>4, <1>5, <1>11, <1>12
  <2> QED BY <2>1 DEF Bodies
<1>15. \A i \in 1 .. n : \A x \in S[i - 1] : G[i][x] = Step(i, x) /\ G[i][x] \in S[i]
  BY <1>5, <1>11, <1>12
<1> HIDE DEF G
<1>16. PICK f \in [0 .. n -> Desk] :
         /\ f[0] = start
         /\ \A i \in 1 .. n : f[i] = G[i][f[i - 1]]
         /\ \A i \in 0 .. n : f[i] \in S[i]
  <2>1. \A i \in 1 .. n : \A x \in S[i - 1] : G[i][x] \in S[i]
    BY <1>15
  <2>2. n \in Nat /\ S \in [0 .. n -> SUBSET Desk] /\ start \in S[0]
    BY <1>1, <1>9, <1>10
  <2> QED BY <1>14, <2>1, <2>2, LoopKeeps
<1> DEFINE Done(g) == g = [i \in 0 .. n |-> IF i = 0 THEN start ELSE Step(i, g[i - 1])]
           after == CHOOSE g : Done(g)
<1>17. Done(f)
  <2>1. \A i \in 1 .. n : f[i] = Step(i, f[i - 1])
    BY <1>5, <1>15, <1>16
  <2>2. \A i \in 0 .. n : f[i] = IF i = 0 THEN start ELSE Step(i, f[i - 1])
    <3>1. \A i \in 0 .. n : i = 0 \/ i \in 1 .. n
      BY <1>1
    <3> QED BY <1>16, <2>1, <3>1
  <2> QED BY <1>16, <2>2
<1>18. Done(after)
  <2> HIDE DEF Done
  <2> QED BY <1>17
<1>19. e = after[n]
  BY <1>8
<1> HIDE DEF after
<1>20. after[n] \in S[n]
  <2> DEFINE T == {i \in 0 .. n : after[i] \in S[i]}
  <2>1. after[0] = start /\ \A i \in 1 .. n : after[i] = Step(i, after[i - 1])
    BY <1>5, <1>6, <1>18
  <2> HIDE DEF Done
  <2>2. 0 \in T
    BY <1>6, <1>10, <2>1
  <2>3. ASSUME NEW i \in 1 .. n, i - 1 \in T PROVE i \in T
    BY <1>5, <1>11, <2>1, <2>3
  <2> HIDE DEF T
  <2>4. 0 .. n \subseteq T
    BY <1>1, <2>2, <2>3, IntervalInduction
  <2> QED BY <1>6, <2>4 DEF T
<1>21. /\ e \in Desk /\ SameFace(d, e) /\ SameSignals(d, e)
       /\ Len(e.jobs) <= JobRoom /\ Len(e.downloads) <= n
       /\ e.screenshots <= MaxShots
       /\ e.screenshots = Count(e.downloads, Destinations) + Count(e.jobs, Shots) + (R(n) + K)
  BY <1>13, <1>19, <1>20
<1>22. DeskFits(e)
  <2>1. Len(e.downloads) \in Nat
    BY <1>21, DeskCounts
  <2> QED BY <1>1, <1>21, <2>1, Sizes DEF DeskFits
<1>23. Charged(e, w)
  <2>1. Count(e.downloads, Destinations) \in Nat /\ Count(e.jobs, Shots) \in Nat
        /\ InHand(w, Shots) \in {0, 1} /\ Held(w) \in Nat
    BY <1>21, DeskCounts, InHandIs, WorkerCounts
  <2>2. e.screenshots = Count(e.downloads, Destinations) + Count(e.jobs, Shots)
                          + InHand(w, Shots) + Held(w)
    BY <1>2, <1>21, <2>1 DEF K
  <2> QED BY <2>2 DEF Charged, Good
<1>24. /\ Count(e.jobs, Control) = Count(d.jobs, Control)
       /\ Count(e.jobs, {Plain("record")}) = Count(d.jobs, {Plain("record")})
       /\ Count(e.jobs, {Plain("stop")}) = Count(d.jobs, {Plain("stop")})
       /\ Count(e.jobs, {Plain("shutdown")}) = Count(d.jobs, {Plain("shutdown")})
  BY <1>21, SignalFacts DEF SameSignals
<1>25. Due(e, w, "record") = Due(d, w, "record") /\ Due(e, w, "stop") = Due(d, w, "stop")
       /\ Due(e, w, "shutdown") = Due(d, w, "shutdown")
  BY <1>24 DEF Due
<1>26. EndsFit(e, w) /\ EndOwed(e, w)
  BY <1>21, <1>24, <1>25 DEF Good, EndsFit, Credit, EndOwed, SameFace
<1> QED BY <1>21, <1>22, <1>23, <1>25, <1>26 DEF Good

\* The updates that have arrived are taken in order: each slot that is given back
\* is refunded, and an end ends the recording the tool believes in.
LEMMA AllInformedKeeps ==
  ASSUME NEW d, NEW w \in Worker, Good(d, w),
         NEW e, e = AllInformed(d, w.updates), NEW u, u = [w EXCEPT !.updates = <<>>]
  PROVE  Good(e, u) /\ u \in Worker /\ Due(e, u, "shutdown") = Due(d, w, "shutdown")
<1> DEFINE told == w.updates
           n == Len(told)
           K == Count(d.downloads, Destinations) + Count(d.jobs, Shots)
                  + InHand(w, Shots) + Watching(w) + Len(w.waiting)
           R(i) == Rest(told, {"shotDone"}, i)
           Ended(x) == x.ui = "none" /\ x.recording = FALSE /\ x.finishing = FALSE
<1>1. /\ d \in Desk /\ Len(d.jobs) <= JobRoom /\ Len(d.downloads) <= MaxShots
      /\ d.screenshots <= MaxShots /\ d.screenshots \in Nat
  BY DeskFields DEF Good, DeskFits
<1>2. told \in Seq({"shotDone", "ended"}) /\ n \in Nat
  BY WorkerFields
<1>3. /\ Count(d.downloads, Destinations) \in Nat /\ Count(d.jobs, Shots) \in Nat
      /\ InHand(w, Shots) \in {0, 1} /\ Watching(w) \in {0, 1} /\ Len(w.waiting) \in Nat
      /\ Count(told, {"shotDone"}) \in Nat
  BY <1>1, DeskCounts, InHandIs, WorkerCounts
<1>4. /\ u \in Worker /\ u.pc = w.pc /\ u.job = w.job /\ u.recorder = w.recorder
      /\ u.candidate = w.candidate /\ u.waiting = w.waiting /\ u.temporary = w.temporary
      /\ u.updates = <<>>
  <2>1. <<>> \in Seq({"shotDone", "ended"})
    OBVIOUS
  <2> QED BY <2>1 DEF Worker
<1> HIDE DEF told
<1>5. \A i \in 0 .. n : R(i) \in Nat
  BY <1>2, RestIs
<1>6. R(0) = Count(told, {"shotDone"}) /\ R(n) = 0
  BY <1>2, RestIs
<1>7. \A i \in 1 .. n : R(i - 1) = R(i) + (IF told[i] = "shotDone" THEN 1 ELSE 0)
  <2>1. \A i \in 1 .. n : R(i - 1) = R(i) + (IF told[i] \in {"shotDone"} THEN 1 ELSE 0)
    BY <1>2, RestDrops
  <2> QED BY <2>1
<1>8. K \in Nat /\ d.screenshots = R(0) + K
  <2>1. d.screenshots = Count(d.downloads, Destinations) + Count(d.jobs, Shots)
                          + InHand(w, Shots) + Held(w)
    BY DEF Good, Charged
  <2>2. Held(w) = Watching(w) + Len(w.waiting) + Count(told, {"shotDone"})
    BY DEF Held, told
  <2> DEFINE h == InHand(w, Shots)
  <2>3. K = Count(d.downloads, Destinations) + Count(d.jobs, Shots) + h + Watching(w) + Len(w.waiting)
    OBVIOUS
  <2>4. /\ h \in Nat /\ Watching(w) \in Nat /\ Len(w.waiting) \in Nat
        /\ Count(d.downloads, Destinations) \in Nat /\ Count(d.jobs, Shots) \in Nat
        /\ R(0) = Count(told, {"shotDone"}) /\ R(0) \in Nat
    BY <1>3, <1>6
  <2>5. d.screenshots = Count(d.downloads, Destinations) + Count(d.jobs, Shots) + h + Held(w)
    BY <2>1
  <2> DEFINE r == R(0)
             v == Watching(w)
             q == Len(w.waiting)
             x == Count(d.downloads, Destinations)
             y == Count(d.jobs, Shots)
  <2>6. /\ h \in Nat /\ v \in Nat /\ q \in Nat /\ x \in Nat /\ y \in Nat /\ r \in Nat
        /\ K = x + y + h + v + q /\ d.screenshots = x + y + h + (v + q + r)
    BY <2>2, <2>3, <2>4, <2>5
  <2> HIDE DEF K, h, r, v, q, x, y
  <2>7. K \in Nat /\ d.screenshots = r + K
    BY ONLY <2>6
  <2> QED BY <2>7 DEF r
<1>9. \A i \in 1 .. n : i \in 0 .. n /\ i - 1 \in 0 .. n /\ i \in Nat
  BY <1>2
<1>10. 0 \in 0 .. n /\ n \in 0 .. n
  BY <1>2
<1> HIDE DEF K, R
<1> DEFINE Step(i, x) == Informed(x, told[i])
           S == [i \in 0 .. n |->
                  {x \in Desk : /\ x.jobs = d.jobs /\ x.downloads = d.downloads
                                /\ x.screenshots <= d.screenshots /\ x.screenshots = R(i) + K
                                /\ \/ SameFace(d, x) /\ \A j \in 1 .. i : told[j] # "ended"
                                   \/ Ended(x)}]
           G == [i \in 1 .. n |-> [x \in Desk |-> IF x \in S[i - 1] THEN Step(i, x) ELSE d]]
<1>11. e = LET after[i \in 0 .. n] == IF i = 0 THEN d ELSE Step(i, after[i - 1])
           IN  after[n]
  BY DEF AllInformed, told
<1>12. S \in [0 .. n -> SUBSET Desk] /\ \A i \in 0 .. n : S[i] \subseteq Desk
  OBVIOUS
<1>13. d \in S[0]
  <2>1. SameFace(d, d) /\ \A j \in 1 .. 0 : told[j] # "ended"
    BY DEF SameFace
  <2> QED BY <1>1, <1>8, <1>10, <2>1
<1>14. ASSUME NEW i \in 1 .. n, NEW x \in S[i - 1]
       PROVE  Step(i, x) \in S[i]
  <2>1. /\ x \in Desk /\ x.jobs = d.jobs /\ x.downloads = d.downloads
        /\ x.screenshots <= d.screenshots /\ x.screenshots = R(i - 1) + K
        /\ \/ SameFace(d, x) /\ \A j \in 1 .. (i - 1) : told[j] # "ended"
           \/ Ended(x)
    BY <1>9
  <2> DEFINE y == Step(i, x)
  <2>2. R(i) \in Nat /\ told[i] \in {"shotDone", "ended"}
        /\ R(i - 1) = R(i) + (IF told[i] = "shotDone" THEN 1 ELSE 0)
    <3>1. told[i] \in {"shotDone", "ended"}
      BY <1>2
    <3> QED BY <1>5, <1>7, <1>9, <3>1
  <2>3. x.screenshots \in Nat
    BY <2>1, DeskFields
  <2>4. SUFFICES /\ y \in Desk /\ y.jobs = d.jobs /\ y.downloads = d.downloads
                 /\ y.screenshots <= d.screenshots /\ y.screenshots = R(i) + K
                 /\ \/ SameFace(d, y) /\ \A j \in 1 .. i : told[j] # "ended"
                    \/ Ended(y)
    BY <1>9
  <2>5. CASE told[i] = "shotDone"
    <3>1. y = Refunded(x)
      BY <2>5 DEF Informed
    <3>2. x.screenshots > 0 /\ x.screenshots - 1 = R(i) + K
      BY <1>8, <2>1, <2>2, <2>5
    <3> HIDE DEF y
    <3>3. /\ y \in Desk /\ SameFace(x, y) /\ y.downloads = x.downloads /\ y.jobs = x.jobs
          /\ y.screenshots = x.screenshots - 1
      BY <2>1, <3>1, <3>2, RefundedKeeps
    <3>4. y.screenshots <= d.screenshots /\ y.screenshots = R(i) + K
      BY <1>1, <2>1, <2>3, <3>2, <3>3
    <3>5. CASE SameFace(d, x) /\ \A j \in 1 .. (i - 1) : told[j] # "ended"
      <4>1. \A j \in 1 .. i : j = i \/ j \in 1 .. (i - 1)
        BY <1>9
      <4>2. \A j \in 1 .. i : told[j] # "ended"
        BY <2>5, <3>5, <4>1
      <4>3. SameFace(d, y)
        BY <3>3, <3>5 DEF SameFace
      <4> QED BY <2>1, <3>3, <3>4, <4>2, <4>3
    <3>6. CASE Ended(x)
      BY <2>1, <3>3, <3>4, <3>6 DEF SameFace
    <3> QED BY <2>1, <3>5, <3>6
  <2>6. CASE told[i] = "ended"
    <3> DEFINE z == Dismissed(x)
    <3>1. z \in Desk /\ z.ui = "none" /\ z.downloads = x.downloads /\ z.jobs = x.jobs
          /\ z.screenshots = x.screenshots
      BY <2>1 DEF Dismissed, Desk
    <3>2. y = [z EXCEPT !.recording = FALSE, !.finishing = FALSE]
      BY <2>6 DEF Informed
    <3> HIDE DEF y, z
    <3>3. y \in Desk
      BY <3>1, <3>2 DEF Desk
    <3>4. /\ y.ui = z.ui /\ y.recording = FALSE /\ y.finishing = FALSE
          /\ y.downloads = z.downloads /\ y.screenshots = z.screenshots /\ y.jobs = z.jobs
      BY <3>1, <3>2 DEF Desk
    <3>5. x.screenshots = R(i) + K
      BY <1>8, <2>1, <2>2, <2>6
    <3> QED BY <2>1, <3>1, <3>3, <3>4, <3>5
  <2> QED BY <2>2, <2>5, <2>6
<1>15. \A x \in S[n] :
         /\ x \in Desk /\ x.jobs = d.jobs /\ x.downloads = d.downloads
         /\ x.screenshots <= d.screenshots /\ x.screenshots = R(n) + K
         /\ \/ SameFace(d, x) /\ \A j \in 1 .. n : told[j] # "ended"
            \/ Ended(x)
  BY <1>10
<1> HIDE DEF S, n, Step
<1>16. G \in Bodies(n, Desk)
  <2>1. \A i \in 1 .. n : \A x \in Desk : (IF x \in S[i - 1] THEN Step(i, x) ELSE d) \in Desk
    BY <1>1, <1>9, <1>12, <1>14
  <2> QED BY <2>1 DEF Bodies
<1>17. \A i \in 1 .. n : \A x \in S[i - 1] : G[i][x] = Step(i, x) /\ G[i][x] \in S[i]
  BY <1>9, <1>12, <1>14
<1> HIDE DEF G
<1>18. PICK f \in [0 .. n -> Desk] :
         /\ f[0] = d
         /\ \A i \in 1 .. n : f[i] = G[i][f[i - 1]]
         /\ \A i \in 0 .. n : f[i] \in S[i]
  <2>1. \A i \in 1 .. n : \A x \in S[i - 1] : G[i][x] \in S[i]
    BY <1>17
  <2>2. n \in Nat /\ S \in [0 .. n -> SUBSET Desk] /\ d \in S[0]
    BY <1>2, <1>12, <1>13
  <2> QED BY <1>16, <2>1, <2>2, LoopKeeps
<1> DEFINE Done(g) == g = [i \in 0 .. n |-> IF i = 0 THEN d ELSE Step(i, g[i - 1])]
           after == CHOOSE g : Done(g)
<1>19. Done(f)
  <2>1. \A i \in 1 .. n : f[i] = Step(i, f[i - 1])
    BY <1>9, <1>17, <1>18
  <2>2. \A i \in 0 .. n : f[i] = IF i = 0 THEN d ELSE Step(i, f[i - 1])
    <3>1. \A i \in 0 .. n : i = 0 \/ i \in 1 .. n
      BY <1>2
    <3> QED BY <1>18, <2>1, <3>1
  <2> QED BY <1>18, <2>2
<1>20. Done(after)
  <2> HIDE DEF Done
  <2> QED BY <1>19
<1>21. e = after[n]
  BY <1>11
<1> HIDE DEF after
<1>22. after[n] \in S[n]
  <2> DEFINE T == {i \in 0 .. n : after[i] \in S[i]}
  <2>1. after[0] = d /\ \A i \in 1 .. n : after[i] = Step(i, after[i - 1])
    <3>1. \A i \in 0 .. n : after[i] = IF i = 0 THEN d ELSE Step(i, after[i - 1])
      BY <1>20
    <3>2. \A i \in 1 .. n : i \in 0 .. n /\ i # 0
      BY <1>2
    <3> HIDE DEF Done
    <3> QED BY <1>10, <3>1, <3>2
  <2> HIDE DEF Done
  <2>2. 0 \in T
    BY <1>10, <1>13, <2>1
  <2>3. ASSUME NEW i \in 1 .. n, i - 1 \in T PROVE i \in T
    BY <1>9, <1>14, <2>1, <2>3
  <2> HIDE DEF T
  <2>4. 0 .. n \subseteq T
    BY <1>2, <2>2, <2>3, IntervalInduction
  <2> QED BY <1>10, <2>4 DEF T
<1>23. /\ e \in Desk /\ e.jobs = d.jobs /\ e.downloads = d.downloads
       /\ e.screenshots <= d.screenshots /\ e.screenshots = R(n) + K
       /\ \/ SameFace(d, e) /\ \A j \in 1 .. n : told[j] # "ended"
          \/ Ended(e)
  BY <1>15, <1>21, <1>22
<1>24. DeskFits(e)
  <2>1. e.screenshots \in Nat
    BY <1>23, DeskFields
  <2> QED BY <1>1, <1>23, <2>1, Sizes DEF DeskFits
<1>25. Count(u.updates, {"shotDone"}) = 0 /\ Count(u.updates, {"ended"}) = 0
  BY <1>4, CountEmpty
<1>26. InHand(u, Shots) = InHand(w, Shots) /\ InHand(u, Control) = InHand(w, Control)
       /\ \A k : Due(e, u, k) = Due(d, w, k)
  BY <1>4, <1>23 DEF InHand, Due
<1>27. Charged(e, u)
  <2>1. Watching(u) = Watching(w) /\ Files(u) = Files(w) /\ u.temporary = Files(u)
    BY <1>4 DEF Watching, Files, Good, Charged
  <2>2. Held(u) = Watching(w) + Len(w.waiting)
    BY <1>3, <1>4, <1>25, <2>1 DEF Held
  <2>3. e.screenshots = K
    BY <1>6, <1>8, <1>23
  <2>4. e.screenshots = Count(e.downloads, Destinations) + Count(e.jobs, Shots)
                          + InHand(u, Shots) + Held(u)
    BY <1>3, <1>23, <1>26, <2>2, <2>3 DEF K
  <2> QED BY <2>1, <2>4 DEF Charged
<1>28. EndsFit(e, u)
  <2>1. Ends(u) \in {0, 1}
    BY <1>25 DEF Ends
  <2>2. InHand(u, Control) \in {0, 1} /\ Credit(e) \in {0, 1, 2}
        /\ Count(e.jobs, Control) \in Nat /\ Count(e.jobs, Control) <= JobRoom
    <3>1. Count(e.jobs, Control) \in Nat /\ Count(e.jobs, Control) <= Len(e.jobs) /\ Len(e.jobs) \in Nat
      BY <1>23, DeskCounts
    <3>2. InHand(u, Control) \in {0, 1} /\ Credit(e) \in {0, 1, 2}
      BY <1>23, DeskCounts, InHandIs
    <3> QED BY <1>1, <1>23, <3>1, <3>2, Sizes
  <2> HIDE DEF n
  <2>3. Ends(u) + InHand(u, Control) + Count(e.jobs, Control) + Credit(e) <= EndsMax
    BY <2>1, <2>2, Sizes
  <2> QED BY <2>3 DEF EndsFit
<1>29. EndOwed(e, u)
  <2>1. CASE Ended(e)
    BY <2>1 DEF EndOwed
  <2>2. CASE SameFace(d, e) /\ \A j \in 1 .. n : told[j] # "ended"
    <3>1. ~Ending(w)
      <4>1. {j \in DOMAIN told : told[j] \in {"ended"}} = {}
        BY <1>2, <2>2 DEF n
      <4>2. Count(told, {"ended"}) = 0
        BY <4>1, FS_EmptySet DEF Count
      <4> QED BY <4>2 DEF Ending, told
    <3>2. EndOwed(d, w)
      BY DEF Good
    <3> QED BY <1>4, <1>26, <2>2, <3>1, <3>2 DEF EndOwed, SameFace
  <2> QED BY <1>23, <2>1, <2>2
<1> QED BY <1>4, <1>24, <1>26, <1>27, <1>28, <1>29 DEF Good

\* The tick of a dispatch pass, from the downloads to the updates.
LEMMA TickedKeeps ==
  ASSUME NEW w \in Worker, w = worker, NEW d, Good(d, w), NEW due \in BOOLEAN, NEW ready, NEW late,
         NEW e, e = Ticked(d, due, ready, late), NEW u, u = [w EXCEPT !.updates = <<>>]
  PROVE  Good(e, u) /\ u \in Worker /\ Due(e, u, "shutdown") = Due(d, w, "shutdown")
<1> DEFINE served == IF due THEN AllServed(d, ready, late) ELSE d
           quiet == IF served.ui = "select" THEN Dismissed(served) ELSE served
           q == IF locked THEN Stopped(quiet) ELSE served
<1>1. Good(served, w) /\ Due(served, w, "shutdown") = Due(d, w, "shutdown")
  BY AllServedKeeps
<1>2. e = AllInformed(q, w.updates)
  BY DEF Ticked
<1> HIDE DEF served
<1>3. Good(quiet, w) /\ Due(quiet, w, "shutdown") = Due(d, w, "shutdown")
  <2>1. CASE served.ui # "select"
    BY <1>1, <2>1
  <2>2. CASE served.ui = "select"
    <3>1. quiet = [served EXCEPT !.ui = "none"]
      BY <2>2 DEF Dismissed
    <3> QED BY <1>1, <2>2, <3>1, SelectingIs, FaceKeeps
  <2> QED BY <2>1, <2>2
<1> HIDE DEF quiet
<1>4. Good(q, w) /\ Due(q, w, "shutdown") = Due(d, w, "shutdown")
  BY <1>1, <1>3, StoppedKeeps
<1> HIDE DEF q
<1> QED BY <1>2, <1>4, AllInformedKeeps

-----------------------------------------------------------------------------
(* The invariant holds.                                                      *)

LEMMA CountPositive ==
  ASSUME NEW s, NEW S, Count(s, S) > 0
  PROVE  \E i \in DOMAIN s : s[i] \in S
<1> SUFFICES ASSUME \A i \in DOMAIN s : s[i] \notin S PROVE FALSE
  OBVIOUS
<1>1. {i \in DOMAIN s : s[i] \in S} = {}
  OBVIOUS
<1>2. Count(s, S) = 0
  BY <1>1, FS_EmptySet DEF Count
<1> QED BY <1>2

LEMMA InitInv ==
  ASSUME Init
  PROVE  IInv
<1>1. <<>> \in Seq(DestinationOrNone) /\ <<>> \in Seq(Job) /\ <<>> \in Seq(Destinations)
      /\ <<>> \in Seq({"shotDone", "ended"}) /\ Len(<<>>) = 0
  OBVIOUS
<1>2. desk \in Desk
  BY <1>1 DEF Init, Desk
<1>3. NoCandidate \in Candidate /\ NoCandidate.to = None /\ None # "clipboard"
  BY CaptureAssumption DEF NoCandidate, Candidate, DestinationOrNone
<1>4. worker \in Worker
  BY <1>1, <1>3 DEF Init, Worker
<1>5. /\ desk.ui = "none" /\ desk.recording = FALSE /\ desk.finishing = FALSE
      /\ desk.screenshots = 0 /\ desk.downloads = <<>> /\ desk.jobs = <<>>
      /\ worker.pc = "wait" /\ worker.job = NoJob /\ worker.recorder = "none"
      /\ worker.candidate = NoCandidate /\ worker.waiting = <<>> /\ worker.temporary = 0
      /\ worker.updates = <<>> /\ locked = FALSE /\ life = "up"
  BY DEF Init
<1>6. \A S : Count(<<>>, S) = 0
  <2> TAKE S
  <2> QED BY CountEmpty
<1>7. InHand(worker, Shots) = 0 /\ InHand(worker, Control) = 0
      /\ InHand(worker, {Plain("shutdown")}) = 0
  BY <1>5, Kinds DEF InHand, NoJob, Plain
<1>8. DeskFits(desk) /\ WorkerFits(worker)
  BY <1>1, <1>2, <1>4, <1>5, Sizes DEF DeskFits, WorkerFits
<1>9. Watching(worker) = 0 /\ Files(worker) = 0 /\ Held(worker) = 0 /\ Ends(worker) = 0
  BY <1>1, <1>3, <1>5, <1>6 DEF Watching, Files, Held, Ends
<1>10. Charged(desk, worker)
  BY <1>5, <1>6, <1>7, <1>9 DEF Charged
<1>11. EndsFit(desk, worker)
  <2>1. Credit(desk) = 2 /\ Count(desk.jobs, Control) = 0
    BY <1>5, <1>6 DEF Credit
  <2> QED BY <1>7, <1>9, <2>1, Sizes DEF EndsFit
<1>12. EndOwed(desk, worker)
  BY <1>5 DEF EndOwed
<1>13. Due(desk, worker, "shutdown") = 0
  BY <1>5, <1>6, <1>7 DEF Due
<1>14. Alive(desk, worker)
  BY <1>10, <1>11, <1>12 DEF Alive
<1>15. Leaving
  BY <1>13 DEF Leaving
<1>16. locked \in BOOLEAN /\ life \in {"up", "leaving", "joining", "over"}
  BY <1>5
<1> QED BY <1>8, <1>14, <1>15, <1>16 DEF IInv

\* While the loop runs the worker is there, and the invariant says all of it.
LEMMA UpIs ==
  ASSUME IInv, life = "up"
  PROVE  worker.pc # "left" /\ Good(desk, worker) /\ worker \in Worker
<1>1. desk \in Desk /\ worker \in Worker
  BY DEF IInv, DeskFits, WorkerFits
<1>2. worker.pc # "left"
  <2>1. ~(Due(desk, worker, "shutdown") > 0)
    BY DEF IInv, Leaving
  <2> SUFFICES ASSUME worker.pc = "left" PROVE FALSE
    OBVIOUS
  <2>2. worker.job = Plain("shutdown")
    BY DEF IInv, WorkerFits
  <2>3. InHand(worker, {Plain("shutdown")}) = 1
    BY <2>2 DEF InHand
  <2>4. Count(desk.jobs, {Plain("shutdown")}) \in Nat
    BY <1>1, DeskCounts
  <2> QED BY <2>1, <2>3, <2>4 DEF Due
<1> QED BY <1>1, <1>2 DEF IInv, Alive, Good

\* A step of the tool keeps the invariant when it keeps what is said of the tool.
LEMMA DeskStep ==
  ASSUME IInv, life = "up", life' = life, locked' \in BOOLEAN,
         NEW d, desk' = d, Good(d, worker), UNCHANGED worker,
         Due(d, worker, "shutdown") = Due(desk, worker, "shutdown")
  PROVE  IInv'
<1>1. WorkerFits(worker') /\ DeskFits(desk') /\ Alive(desk', worker')
  BY DEF IInv, Good, Alive
<1>2. Due(desk', worker', "shutdown") = Due(desk, worker, "shutdown")
  OBVIOUS
<1> QED BY <1>1, <1>2 DEF IInv, Leaving

LEMMA UserInv ==
  ASSUME IInv, UserStep
  PROVE  IInv'
<1>1. life = "up"
  BY DEF UserStep, BeginScreen, CommitPhotograph, CommitRecording, BeginSelection, Dismisses,
         Stops, LockChanges, LogsOut, Desktop
<1>2. Good(desk, worker) /\ worker \in Worker /\ locked \in BOOLEAN
  BY <1>1, UpIs DEF IInv
<1>3. desk.ui = "select" => ~desk.recording
  BY <1>2, SelectingIs
<1>4. ASSUME NEW to \in Destinations, NEW readable \in BOOLEAN, BeginScreen(to, readable)
      PROVE  IInv'
  <2> DEFINE d == Photographed(desk, to, readable)
  <2>1. desk' = d /\ UNCHANGED <<worker, locked, life>>
    BY <1>4 DEF BeginScreen, Desktop
  <2>2. Good(d, worker) /\ Due(d, worker, "shutdown") = Due(desk, worker, "shutdown")
    BY <1>2, PhotographedKeeps
  <2> HIDE DEF d
  <2> QED BY <1>1, <1>2, <2>1, <2>2, DeskStep
<1>5. ASSUME NEW to \in Destinations, NEW readable \in BOOLEAN, CommitPhotograph(to, readable)
      PROVE  IInv'
  <2> DEFINE p == Photographed(desk, to, readable)
             d == IF HasRoom(desk) /\ readable THEN Dismissed(p) ELSE p
  <2>1. desk' = d /\ UNCHANGED <<worker, locked, life>> /\ desk.ui = "select"
    BY <1>5 DEF CommitPhotograph, Desktop
  <2>2. Good(p, worker) /\ Due(p, worker, "shutdown") = Due(desk, worker, "shutdown")
        /\ SameFace(desk, p)
    BY <1>2, PhotographedKeeps
  <2>3. ~p.recording
    BY <1>3, <2>1, <2>2 DEF SameFace
  <2> HIDE DEF p
  <2>4. Good(d, worker) /\ Due(d, worker, "shutdown") = Due(desk, worker, "shutdown")
    <3>1. CASE ~(HasRoom(desk) /\ readable)
      BY <2>2, <3>1
    <3>2. CASE HasRoom(desk) /\ readable
      <4>1. d = [p EXCEPT !.ui = "none"]
        BY <3>2 DEF Dismissed
      <4> HIDE DEF d
      <4> QED BY <2>2, <2>3, <4>1, FaceKeeps
    <3> QED BY <3>1, <3>2
  <2> HIDE DEF d
  <2> QED BY <1>1, <1>2, <2>1, <2>4, DeskStep
<1>6. ASSUME NEW representable \in BOOLEAN, CommitRecording(representable)
      PROVE  IInv'
  <2>1. UNCHANGED <<worker, locked, life>> /\ desk.ui = "select"
    BY <1>6 DEF CommitRecording, Desktop
  <2>2. CASE ~representable
    <3> DEFINE d == Submitted(desk, Plain("error"))
    <3>1. desk' = d
      BY <1>6, <2>2 DEF CommitRecording, Desktop
    <3>2. Good(d, worker) /\ Due(d, worker, "shutdown") = Due(desk, worker, "shutdown")
      BY <1>2, ErrorKeeps
    <3> HIDE DEF d
    <3> QED BY <1>1, <1>2, <2>1, <3>1, <3>2, DeskStep
  <2>3. CASE representable /\ Accepts(desk)
    <3> DEFINE d == [Submitted(desk, Plain("record")) EXCEPT !.recording = TRUE, !.ui = "badge"]
    <3>1. desk' = d
      BY <1>6, <2>3 DEF CommitRecording, Desktop
    <3>2. Good(d, worker) /\ Due(d, worker, "shutdown") = Due(desk, worker, "shutdown")
      BY <1>2, <2>1, <2>3, CommitKeeps
    <3> HIDE DEF d
    <3> QED BY <1>1, <1>2, <2>1, <3>1, <3>2, DeskStep
  <2>4. CASE representable /\ ~Accepts(desk)
    <3>1. desk' = desk
      BY <1>6, <2>4 DEF CommitRecording, Desktop
    <3> QED BY <1>1, <1>2, <2>1, <3>1, DeskStep
  <2> QED BY <2>2, <2>3, <2>4
<1>7. CASE BeginSelection
  <2> DEFINE d == [desk EXCEPT !.ui = "select"]
  <2>1. desk' = d /\ UNCHANGED <<worker, locked, life>> /\ ~desk.recording
    BY <1>7 DEF BeginSelection, Desktop
  <2>2. Good(d, worker) /\ Due(d, worker, "shutdown") = Due(desk, worker, "shutdown")
    BY <1>2, <2>1, FaceKeeps
  <2> HIDE DEF d
  <2> QED BY <1>1, <1>2, <2>1, <2>2, DeskStep
<1>8. CASE Dismisses
  <2> DEFINE d == [desk EXCEPT !.ui = "none"]
  <2>1. desk' = d /\ UNCHANGED <<worker, locked, life>> /\ ~desk.recording
    BY <1>3, <1>8 DEF Dismisses, Desktop, Dismissed
  <2>2. Good(d, worker) /\ Due(d, worker, "shutdown") = Due(desk, worker, "shutdown")
    BY <1>2, <2>1, FaceKeeps
  <2> HIDE DEF d
  <2> QED BY <1>1, <1>2, <2>1, <2>2, DeskStep
<1>9. CASE Stops
  <2> DEFINE d == Stopped(desk)
  <2>1. desk' = d /\ UNCHANGED <<worker, locked, life>>
    BY <1>9 DEF Stops, Desktop
  <2>2. Good(d, worker) /\ Due(d, worker, "shutdown") = Due(desk, worker, "shutdown")
    BY <1>2, StoppedKeeps
  <2> HIDE DEF d
  <2> QED BY <1>1, <1>2, <2>1, <2>2, DeskStep
<1>10. CASE LockChanges
  <2>1. UNCHANGED <<desk, worker, life>> /\ locked' \in BOOLEAN
    BY <1>10 DEF LockChanges
  <2> QED BY <1>1, <1>2, <2>1, DeskStep
<1>11. CASE LogsOut
  <2>1. UNCHANGED <<desk, worker, locked>> /\ life' = "leaving"
    BY <1>11 DEF LogsOut
  <2>2. ~(Due(desk, worker, "shutdown") > 0)
    BY <1>1 DEF IInv, Leaving
  <2> QED BY <2>1, <2>2 DEF IInv, Leaving
<1> QED BY <1>4, <1>5, <1>6, <1>7, <1>8, <1>9, <1>10, <1>11 DEF UserStep

LEMMA TickInv ==
  ASSUME IInv, NEW due \in BOOLEAN, NEW ready, NEW late, Tick(due, ready, late)
  PROVE  IInv'
<1> DEFINE d == Ticked(desk, due, ready, late)
           u == [worker EXCEPT !.updates = <<>>]
<1>1. life = "up" /\ desk' = d /\ worker' = u /\ UNCHANGED <<locked, life>>
  BY DEF Tick
<1>2. worker.pc # "left" /\ Good(desk, worker) /\ worker \in Worker
  BY <1>1, UpIs
<1>3. Good(d, u) /\ u \in Worker /\ Due(d, u, "shutdown") = Due(desk, worker, "shutdown")
  BY <1>2, TickedKeeps
<1>4. /\ u.pc = worker.pc /\ u.job = worker.job /\ u.recorder = worker.recorder
      /\ u.candidate = worker.candidate /\ u.updates = <<>>
  BY <1>2 DEF Worker
<1> HIDE DEF d, u
<1>5. WorkerFits(u)
  <2>1. Len(<<>>) = 0
    OBVIOUS
  <2> QED BY <1>3, <1>4, <2>1, Sizes DEF IInv, WorkerFits
<1>6. DeskFits(d) /\ Alive(d, u)
  BY <1>3 DEF Good, Alive
<1> QED BY <1>1, <1>3, <1>5, <1>6 DEF IInv, Leaving

LEMMA ShutdownInv ==
  ASSUME IInv, SendsShutdown
  PROVE  IInv'
<1> DEFINE d == Submitted(desk, Plain("shutdown"))
<1>1. /\ desk' = d /\ UNCHANGED <<worker, locked>> /\ life' = "joining" /\ life = "leaving"
      /\ Accepts(desk)
  BY DEF SendsShutdown
<1>2. Plain("shutdown") \in Job /\ Plain("shutdown") \notin Shots /\ Plain("shutdown") \notin Control
      /\ Plain("shutdown") # Plain("record") /\ Plain("shutdown") # Plain("stop")
  BY Kinds
<1>3. DeskFits(desk) /\ WorkerFits(worker) /\ Alive(desk, worker)
  BY DEF IInv
<1>4. /\ d \in Desk /\ SameFace(desk, d) /\ Len(d.jobs) <= JobRoom
      /\ d.downloads = desk.downloads /\ d.screenshots = desk.screenshots
      /\ \A S : Plain("shutdown") \notin S => Count(d.jobs, S) = Count(desk.jobs, S)
  BY <1>2, <1>3, SubmittedKeeps DEF DeskFits
<1> HIDE DEF d
<1>5. DeskFits(d)
  BY <1>3, <1>4 DEF DeskFits
<1>6. /\ Count(d.jobs, Shots) = Count(desk.jobs, Shots)
      /\ Count(d.jobs, Control) = Count(desk.jobs, Control)
      /\ Count(d.jobs, {Plain("record")}) = Count(desk.jobs, {Plain("record")})
      /\ Count(d.jobs, {Plain("stop")}) = Count(desk.jobs, {Plain("stop")})
  BY <1>2, <1>4
<1>7. Due(d, worker, "record") = Due(desk, worker, "record")
      /\ Due(d, worker, "stop") = Due(desk, worker, "stop")
  BY <1>6 DEF Due
<1>8. ASSUME worker.pc # "left"
      PROVE  Charged(d, worker) /\ EndsFit(d, worker) /\ EndOwed(d, worker)
  <2>1. Charged(desk, worker) /\ EndsFit(desk, worker) /\ EndOwed(desk, worker)
    BY <1>3, <1>8 DEF Alive
  <2>2. Charged(d, worker)
    BY <1>4, <1>6, <2>1 DEF Charged
  <2>3. EndsFit(d, worker)
    BY <1>4, <1>6, <2>1 DEF EndsFit, Credit, SameFace
  <2>4. EndOwed(d, worker)
    BY <1>4, <1>7, <2>1 DEF EndOwed, SameFace
  <2> QED BY <2>2, <2>3, <2>4
<1>9. Alive(d, worker)
  BY <1>8 DEF Alive
<1> QED BY <1>1, <1>3, <1>5, <1>9 DEF IInv, Leaving

\* A turn of the worker's loop keeps the invariant when it loses no photograph and
\* no end, and the job it had is accounted for.
LEMMA TurnInv ==
  ASSUME IInv, worker.pc # "left", worker.job # Plain("shutdown"),
         NEW u \in Worker, worker' = u, UNCHANGED <<desk, locked, life>>,
         u.pc = "wait", u.job = NoJob, u.temporary = Files(u), Len(u.updates) <= UpdateRoom,
         Held(u) = Held(worker) + InHand(worker, Shots),
         Ends(u) <= Ends(worker) + InHand(worker, Control),
         Ending(worker) => Ending(u),
         worker.recorder # "none" => u.recorder # "none" \/ Ending(u),
         worker.job = Plain("stop") => Ending(u),
         worker.job = Plain("record") => u.recorder # "none" \/ Ending(u)
  PROVE  IInv'
<1>1. /\ DeskFits(desk) /\ Charged(desk, worker) /\ EndsFit(desk, worker) /\ EndOwed(desk, worker)
      /\ desk \in Desk /\ worker \in Worker
  BY DEF IInv, Alive, DeskFits, WorkerFits
<1>2. WorkerFits(u)
  BY DEF WorkerFits
<1>3. \A S \in {Shots, Control, {Plain("record")}, {Plain("stop")}, {Plain("shutdown")}} :
        InHand(u, S) = 0 /\ Count(desk.jobs, S) \in Nat /\ InHand(worker, S) \in {0, 1}
  <2>1. NoJob \notin Shots /\ NoJob \notin Control
        /\ \A k \in {"record", "stop", "shutdown"} : NoJob \notin {Plain(k)}
    BY Kinds
  <2>2. \A S \in {Shots, Control, {Plain("record")}, {Plain("stop")}, {Plain("shutdown")}} :
          NoJob \notin S
    BY <2>1
  <2>3. \A S \in {Shots, Control, {Plain("record")}, {Plain("stop")}, {Plain("shutdown")}} :
          InHand(u, S) = 0
    BY <2>2 DEF InHand
  <2>4. \A S : InHand(worker, S) \in {0, 1}
    BY DEF InHand
  <2> QED BY <1>1, <2>3, <2>4, DeskCounts
<1>4. Charged(desk, u)
  <2>1. desk.screenshots = Count(desk.downloads, Destinations) + Count(desk.jobs, Shots)
                             + InHand(worker, Shots) + Held(worker)
    BY <1>1 DEF Charged
  <2>2. Count(desk.downloads, Destinations) \in Nat /\ Held(worker) \in Nat
    BY <1>1, DeskCounts, WorkerCounts
  <2>3. InHand(u, Shots) = 0 /\ Count(desk.jobs, Shots) \in Nat /\ InHand(worker, Shots) \in {0, 1}
    BY <1>3
  <2>4. desk.screenshots = Count(desk.downloads, Destinations) + Count(desk.jobs, Shots)
                             + InHand(u, Shots) + Held(u)
    BY <2>1, <2>2, <2>3
  <2> QED BY <2>4 DEF Charged
<1>5. EndsFit(desk, u)
  <2>1. Ends(worker) + InHand(worker, Control) + Count(desk.jobs, Control) + Credit(desk) <= EndsMax
    BY <1>1 DEF EndsFit
  <2>2. Ends(worker) \in Nat /\ Ends(u) \in Nat /\ Credit(desk) \in {0, 1, 2}
    BY <1>1, DeskCounts, WorkerCounts
  <2>3. InHand(u, Control) = 0 /\ Count(desk.jobs, Control) \in Nat
        /\ InHand(worker, Control) \in {0, 1}
    BY <1>3
  <2>4. Ends(u) + InHand(u, Control) + Count(desk.jobs, Control) + Credit(desk) <= EndsMax
    BY <2>1, <2>2, <2>3, Sizes
  <2> QED BY <2>4 DEF EndsFit
<1>6. Due(desk, worker, "stop") > 0 => Due(desk, u, "stop") > 0 \/ Ending(u)
  <2>1. InHand(worker, {Plain("stop")}) = 0 \/ Ending(u)
    BY DEF InHand
  <2>2. InHand(u, {Plain("stop")}) = 0 /\ Count(desk.jobs, {Plain("stop")}) \in Nat
    BY <1>3
  <2> QED BY <2>1, <2>2 DEF Due
<1>7. Due(desk, worker, "record") > 0
        => Due(desk, u, "record") > 0 \/ u.recorder # "none" \/ Ending(u)
  <2>1. InHand(worker, {Plain("record")}) = 0 \/ u.recorder # "none" \/ Ending(u)
    BY DEF InHand
  <2>2. InHand(u, {Plain("record")}) = 0 /\ Count(desk.jobs, {Plain("record")}) \in Nat
    BY <1>3
  <2> QED BY <2>1, <2>2 DEF Due
<1>8. EndOwed(desk, u)
  BY <1>1, <1>6, <1>7 DEF EndOwed
<1>9. Due(desk, u, "shutdown") = Due(desk, worker, "shutdown")
  <2>1. InHand(worker, {Plain("shutdown")}) = 0
    BY DEF InHand
  <2>2. InHand(u, {Plain("shutdown")}) = 0
    BY <1>3
  <2> QED BY <2>1, <2>2 DEF Due
<1>10. Alive(desk, u)
  BY <1>4, <1>5, <1>8 DEF Alive
<1> QED BY <1>1, <1>2, <1>9, <1>10 DEF IInv, Leaving

\* What the worker may still hold and report, as far as the invariant bounds it.
LEMMA WorkerBounds ==
  ASSUME IInv, worker.pc # "left"
  PROVE  /\ worker \in Worker /\ worker.temporary = Files(worker)
         /\ Held(worker) + InHand(worker, Shots) <= MaxShots
         /\ Ends(worker) + InHand(worker, Control) <= EndsMax
         /\ Held(worker) <= MaxShots /\ Ends(worker) <= EndsMax
<1>1. /\ DeskFits(desk) /\ Charged(desk, worker) /\ EndsFit(desk, worker)
      /\ desk \in Desk /\ worker \in Worker /\ desk.screenshots <= MaxShots
  BY DEF IInv, Alive, DeskFits, WorkerFits
<1>2. Held(worker) \in Nat /\ Ends(worker) \in Nat /\ InHand(worker, Shots) \in {0, 1}
      /\ InHand(worker, Control) \in {0, 1}
  BY <1>1, WorkerCounts, InHandIs
<1>3. /\ Count(desk.downloads, Destinations) \in Nat /\ Count(desk.jobs, Shots) \in Nat
      /\ Count(desk.jobs, Control) \in Nat /\ Credit(desk) \in {0, 1, 2}
  BY <1>1, DeskCounts
<1>4. desk.screenshots = Count(desk.downloads, Destinations) + Count(desk.jobs, Shots)
                           + InHand(worker, Shots) + Held(worker)
      /\ worker.temporary = Files(worker)
  BY <1>1 DEF Charged
<1>5. Ends(worker) + InHand(worker, Control) + Count(desk.jobs, Control) + Credit(desk) <= EndsMax
  BY <1>1 DEF EndsFit
<1>6. Held(worker) + InHand(worker, Shots) <= MaxShots
  BY <1>1, <1>2, <1>3, <1>4, Sizes
<1>7. Ends(worker) + InHand(worker, Control) <= EndsMax
  BY <1>2, <1>3, <1>5, Sizes
<1> QED BY <1>1, <1>2, <1>4, <1>6, <1>7, Sizes

LEMMA ReceivesInv ==
  ASSUME IInv, Receives
  PROVE  IInv'
<1> DEFINE job == Head(desk.jobs)
           d == [desk EXCEPT !.jobs = Tail(desk.jobs)]
           u == [worker EXCEPT !.pc = "work", !.job = job]
<1>1. /\ worker.pc = "wait" /\ desk.jobs # <<>> /\ desk' = d /\ worker' = u
      /\ UNCHANGED <<locked, life>>
  BY DEF Receives, Works
<1>2. /\ DeskFits(desk) /\ WorkerFits(worker) /\ desk \in Desk /\ worker \in Worker
      /\ worker.job = NoJob /\ desk.jobs \in Seq(Job) /\ Len(desk.jobs) \in Nat
      /\ Charged(desk, worker) /\ EndsFit(desk, worker) /\ EndOwed(desk, worker)
  BY <1>1, DeskFields DEF IInv, DeskFits, WorkerFits, Alive
<1>3. /\ Tail(desk.jobs) \in Seq(Job) /\ job \in Job
      /\ Len(Tail(desk.jobs)) = Len(desk.jobs) - 1
  BY <1>1, <1>2, CountTail
<1>4. \A S : Count(desk.jobs, S) = Count(Tail(desk.jobs), S) + (IF job \in S THEN 1 ELSE 0)
  <2> TAKE S
  <2> QED BY <1>1, <1>2, CountTail
<1>5. d \in Desk /\ u \in Worker
  BY <1>2, <1>3 DEF Desk, Worker
<1>6. /\ d.ui = desk.ui /\ d.recording = desk.recording /\ d.finishing = desk.finishing
      /\ d.downloads = desk.downloads /\ d.screenshots = desk.screenshots
      /\ d.jobs = Tail(desk.jobs)
  BY <1>2 DEF Desk
<1>7. /\ u.pc = "work" /\ u.job = job /\ u.recorder = worker.recorder
      /\ u.candidate = worker.candidate /\ u.waiting = worker.waiting
      /\ u.updates = worker.updates /\ u.temporary = worker.temporary
  BY <1>2 DEF Worker
<1>8. \A S : Count(Tail(desk.jobs), S) \in Nat
  <2> TAKE S
  <2> QED BY <1>3, CountIs
<1> HIDE DEF d, u, job
<1>9. \A S : NoJob \notin S => InHand(worker, S) = 0 /\
                               InHand(u, S) + Count(d.jobs, S) = Count(desk.jobs, S)
  <2> TAKE S
  <2> HAVE NoJob \notin S
  <2>1. InHand(worker, S) = 0 /\ InHand(u, S) = IF job \in S THEN 1 ELSE 0
    BY <1>2, <1>7 DEF InHand
  <2>2. Count(d.jobs, S) \in Nat /\ Count(desk.jobs, S) = Count(d.jobs, S) + (IF job \in S THEN 1 ELSE 0)
    BY <1>4, <1>6, <1>8
  <2> QED BY <2>1, <2>2
<1>10. NoJob \notin Shots /\ NoJob \notin Control
       /\ \A k \in {"record", "stop", "shutdown"} : NoJob \notin {Plain(k)}
  BY Kinds
<1>11. DeskFits(d)
  BY <1>2, <1>3, <1>5, <1>6, Sizes DEF DeskFits
<1>12. WorkerFits(u)
  BY <1>2, <1>3, <1>5, <1>7, Kinds DEF WorkerFits
<1>13. Held(u) = Held(worker) /\ Ends(u) = Ends(worker) /\ Files(u) = Files(worker)
       /\ (Ending(u) <=> Ending(worker)) /\ Credit(d) = Credit(desk)
  BY <1>6, <1>7 DEF Held, Ends, Files, Ending, Watching, Credit
<1>14. \A k \in {"record", "stop", "shutdown"} : Due(d, u, k) = Due(desk, worker, k)
  <2> TAKE k \in {"record", "stop", "shutdown"}
  <2>1. InHand(worker, {Plain(k)}) = 0
        /\ InHand(u, {Plain(k)}) + Count(d.jobs, {Plain(k)}) = Count(desk.jobs, {Plain(k)})
    BY <1>9, <1>10
  <2>2. Count(desk.jobs, {Plain(k)}) \in Nat
    BY <1>2, DeskCounts
  <2> QED BY <2>1, <2>2 DEF Due
<1>15. Charged(d, u)
  <2>1. desk.screenshots = Count(desk.downloads, Destinations) + Count(desk.jobs, Shots)
                             + InHand(worker, Shots) + Held(worker)
        /\ worker.temporary = Files(worker)
    BY <1>2 DEF Charged
  <2>2. /\ Count(desk.downloads, Destinations) \in Nat /\ Held(worker) \in Nat
        /\ InHand(u, Shots) \in {0, 1} /\ Count(d.jobs, Shots) \in Nat
    BY <1>2, <1>5, DeskCounts, WorkerCounts, InHandIs
  <2>3. InHand(worker, Shots) = 0
        /\ InHand(u, Shots) + Count(d.jobs, Shots) = Count(desk.jobs, Shots)
    BY <1>9, <1>10
  <2>4. d.screenshots = Count(d.downloads, Destinations) + Count(d.jobs, Shots)
                          + InHand(u, Shots) + Held(u)
    BY <1>6, <1>13, <2>1, <2>2, <2>3
  <2> QED BY <1>7, <1>13, <2>1, <2>4 DEF Charged
<1>16. EndsFit(d, u)
  <2>1. Ends(worker) + InHand(worker, Control) + Count(desk.jobs, Control) + Credit(desk) <= EndsMax
    BY <1>2 DEF EndsFit
  <2>2. /\ Ends(worker) \in Nat /\ InHand(u, Control) \in {0, 1} /\ Count(d.jobs, Control) \in Nat
        /\ Credit(desk) \in {0, 1, 2}
    BY <1>2, <1>5, DeskCounts, WorkerCounts, InHandIs
  <2>3. InHand(worker, Control) = 0
        /\ InHand(u, Control) + Count(d.jobs, Control) = Count(desk.jobs, Control)
    BY <1>9, <1>10
  <2>4. Ends(u) + InHand(u, Control) + Count(d.jobs, Control) + Credit(d) <= EndsMax
    BY <1>13, <2>1, <2>2, <2>3, Sizes
  <2> QED BY <2>4 DEF EndsFit
<1>17. EndOwed(d, u)
  BY <1>2, <1>6, <1>7, <1>13, <1>14 DEF EndOwed
<1>18. Alive(d, u)
  BY <1>15, <1>16, <1>17 DEF Alive
<1> QED BY <1>1, <1>11, <1>12, <1>14, <1>18 DEF IInv, Leaving

LEMMA TimesOutInv ==
  ASSUME IInv, NEW failing \in Failing, TimesOut(failing)
  PROVE  IInv'
<1> DEFINE s == Watched(worker)
           u == Turned(s, failing)
<1>1. worker.pc = "wait" /\ worker' = u /\ UNCHANGED <<desk, locked, life>>
  BY DEF TimesOut, Works
<1>2. worker.job = NoJob /\ failing \in Nat
  BY <1>1, Sizes DEF IInv, WorkerFits, Failing
<1>3. Sane(worker)
  BY <1>1, WorkerBounds DEF Sane
<1>4. Stage(worker, s)
  BY <1>3, WatchedKeeps
<1> HIDE DEF s
<1>5. Sane(s)
  BY <1>4 DEF Stage
<1>6. /\ u \in Worker /\ u.pc = "wait" /\ u.job = NoJob
      /\ u.temporary = Files(u) /\ Len(u.updates) <= UpdateRoom
      /\ Held(u) = Held(s) /\ Ends(u) <= Ends(s)
      /\ Ending(s) => Ending(u)
      /\ s.recorder # "none" => u.recorder # "none" \/ Ending(u)
  BY <1>2, <1>5, TurnedKeeps
<1> HIDE DEF u
<1>7. InHand(worker, Shots) = 0 /\ InHand(worker, Control) = 0
  BY <1>2, Kinds DEF InHand
<1>8. /\ Held(u) = Held(worker) + InHand(worker, Shots)
      /\ Ends(u) <= Ends(worker) + InHand(worker, Control)
  <2>1. Held(worker) \in Nat /\ Ends(worker) \in Nat /\ Ends(s) \in Nat /\ Ends(u) \in Nat
    BY <1>3, <1>5, <1>6, WorkerCounts DEF Sane
  <2> QED BY <1>4, <1>6, <1>7, <2>1 DEF Stage
<1>9. worker.job # Plain("shutdown") /\ worker.job # Plain("stop") /\ worker.job # Plain("record")
  BY <1>2, Kinds
<1>10. (Ending(worker) => Ending(u))
       /\ (worker.recorder # "none" => u.recorder # "none" \/ Ending(u))
  BY <1>4, <1>6 DEF Stage
<1> QED BY <1>1, <1>6, <1>8, <1>9, <1>10, TurnInv

LEMMA PerformsInv ==
  ASSUME IInv, NEW works \in BOOLEAN, NEW failing \in Failing, Performs(works, failing)
  PROVE  IInv'
<1> DEFINE p == Performed(worker, works)
           s == IF Skips(worker, works) THEN p ELSE Watched(p)
           u == Turned(s, failing)
<1>1. /\ worker.pc = "work" /\ worker.job.kind # "shutdown" /\ worker' = u
      /\ UNCHANGED <<desk, locked, life>>
  BY DEF Performs, Works
<1>2. worker \in Worker /\ worker.job \in Job /\ failing \in Nat
  BY <1>1, WorkerFields, Sizes DEF IInv, WorkerFits, Failing
<1>3. /\ Sane(p)
      /\ Held(p) = Held(worker) + InHand(worker, Shots)
      /\ Ends(p) <= Ends(worker) + InHand(worker, Control)
      /\ Ending(worker) => Ending(p)
      /\ worker.recorder # "none" => p.recorder # "none" \/ Ending(p)
      /\ worker.job = Plain("stop") => Ending(p)
      /\ worker.job = Plain("record") => p.recorder # "none" \/ Ending(p)
  BY <1>1, <1>2, WorkerBounds, PerformedKeeps
<1> HIDE DEF p
<1>4. Stage(p, s)
  <2>1. CASE Skips(worker, works)
    BY <1>3, <2>1, StageSame
  <2>2. CASE ~Skips(worker, works)
    BY <1>3, <2>2, WatchedKeeps
  <2> QED BY <2>1, <2>2
<1> HIDE DEF s
<1>5. Sane(s)
  BY <1>4 DEF Stage
<1>6. /\ u \in Worker /\ u.pc = "wait" /\ u.job = NoJob
      /\ u.temporary = Files(u) /\ Len(u.updates) <= UpdateRoom
      /\ Held(u) = Held(s) /\ Ends(u) <= Ends(s)
      /\ Ending(s) => Ending(u)
      /\ s.recorder # "none" => u.recorder # "none" \/ Ending(u)
  BY <1>2, <1>5, TurnedKeeps
<1> HIDE DEF u
<1>7. /\ Held(u) = Held(worker) + InHand(worker, Shots)
      /\ Ends(u) <= Ends(worker) + InHand(worker, Control)
  <2>1. Ends(worker) \in Nat /\ Ends(p) \in Nat /\ Ends(s) \in Nat /\ Ends(u) \in Nat
        /\ InHand(worker, Control) \in {0, 1}
    BY <1>2, <1>3, <1>5, <1>6, WorkerCounts, InHandIs DEF Sane
  <2>2. Ends(s) <= Ends(p) /\ Held(s) = Held(p)
    BY <1>4 DEF Stage
  <2> QED BY ONLY <1>3, <1>6, <2>1, <2>2
<1>8. worker.job # Plain("shutdown")
  BY <1>1 DEF Plain
<1>9. /\ Ending(p) => Ending(u)
      /\ p.recorder # "none" => u.recorder # "none" \/ Ending(u)
  BY <1>4, <1>6 DEF Stage
<1>10. /\ Ending(worker) => Ending(u)
       /\ worker.recorder # "none" => u.recorder # "none" \/ Ending(u)
       /\ worker.job = Plain("stop") => Ending(u)
       /\ worker.job = Plain("record") => u.recorder # "none" \/ Ending(u)
  BY <1>3, <1>9
<1> QED BY <1>1, <1>6, <1>7, <1>8, <1>10, TurnInv

LEMMA ShutsDownInv ==
  ASSUME IInv, ShutsDown
  PROVE  IInv'
<1> DEFINE u == Retired(worker)
<1>1. worker.pc = "work" /\ worker.job.kind = "shutdown" /\ worker' = u
      /\ UNCHANGED <<desk, locked, life>>
  BY DEF ShutsDown, Works
<1>2. worker \in Worker /\ Len(worker.updates) <= UpdateRoom /\ worker.job \in Job
  BY <1>1, WorkerFields DEF IInv, WorkerFits
<1>3. worker.job = Plain("shutdown")
  BY <1>1, <1>2, Kinds
<1>4. <<>> \in Seq(Destinations) /\ NoCandidate \in Candidate
  BY DEF NoCandidate, Candidate, DestinationOrNone
<1>5. u \in Worker
  BY <1>2, <1>4 DEF Retired, Worker
<1>6. /\ u.pc = "left" /\ u.job = worker.job /\ u.recorder = "none" /\ u.candidate = NoCandidate
      /\ u.updates = worker.updates
  BY <1>2 DEF Retired, Worker
<1> HIDE DEF u
<1>7. WorkerFits(u) /\ Alive(desk, u)
  BY <1>2, <1>3, <1>5, <1>6 DEF WorkerFits, Alive
<1>8. Due(desk, u, "shutdown") = Due(desk, worker, "shutdown")
  BY <1>6 DEF Due, InHand
<1> QED BY <1>1, <1>7, <1>8 DEF IInv, Leaving

LEMMA RecorderInv ==
  ASSUME IInv, RecorderExits
  PROVE  IInv'
<1> DEFINE u == [worker EXCEPT !.recorder = "exited"]
<1>1. worker.recorder = "running" /\ worker' = u /\ UNCHANGED <<desk, locked, life>>
  BY DEF RecorderExits, Child
<1>2. worker \in Worker /\ WorkerFits(worker) /\ worker.pc # "left"
  BY <1>1 DEF IInv, WorkerFits
<1>3. u \in Worker
  BY <1>2 DEF Worker
<1>4. /\ u.pc = worker.pc /\ u.job = worker.job /\ u.recorder = "exited"
      /\ u.candidate = worker.candidate /\ u.waiting = worker.waiting
      /\ u.updates = worker.updates /\ u.temporary = worker.temporary
  BY <1>2 DEF Worker
<1> HIDE DEF u
<1>5. Held(u) = Held(worker) /\ Ends(u) = Ends(worker) /\ Files(u) = Files(worker)
      /\ (Ending(u) <=> Ending(worker)) /\ \A S : InHand(u, S) = InHand(worker, S)
  BY <1>1, <1>4 DEF Held, Ends, Files, Ending, Watching, InHand
<1>6. \A k : Due(desk, u, k) = Due(desk, worker, k)
  BY <1>5 DEF Due
<1>7. Charged(desk, worker) /\ EndsFit(desk, worker) /\ EndOwed(desk, worker)
  BY <1>2 DEF IInv, Alive
<1>8. Charged(desk, u) /\ EndsFit(desk, u)
  BY <1>4, <1>5, <1>7 DEF Charged, EndsFit
<1>9. EndOwed(desk, u)
  BY <1>1, <1>4, <1>5, <1>6, <1>7 DEF EndOwed
<1>10. WorkerFits(u)
  BY <1>2, <1>3, <1>4 DEF WorkerFits
<1> QED BY <1>1, <1>6, <1>8, <1>9, <1>10 DEF IInv, Leaving, Alive

LEMMA ProbeInv ==
  ASSUME IInv, ProbeEnds
  PROVE  IInv'
<1> DEFINE c == [worker.candidate EXCEPT !.at = "ended"]
           u == [worker EXCEPT !.candidate = c]
<1>1. worker.candidate.at = "probing" /\ worker' = u /\ UNCHANGED <<desk, locked, life>>
  BY DEF ProbeEnds, Child
<1>2. NoCandidate.at = "none"
  BY DEF NoCandidate
<1>3. worker \in Worker /\ WorkerFits(worker) /\ worker.pc # "left" /\ worker.candidate \in Candidate
  BY <1>1, <1>2, WorkerFields DEF IInv, WorkerFits
<1>4. c \in Candidate /\ c.to = worker.candidate.to /\ c.at = "ended"
  BY <1>3 DEF Candidate
<1>5. c # NoCandidate /\ worker.candidate # NoCandidate
  BY <1>1, <1>2, <1>4
<1> HIDE DEF c
<1>6. u \in Worker
  BY <1>3, <1>4 DEF Worker
<1>7. /\ u.pc = worker.pc /\ u.job = worker.job /\ u.recorder = worker.recorder
      /\ u.candidate = c /\ u.waiting = worker.waiting
      /\ u.updates = worker.updates /\ u.temporary = worker.temporary
  BY <1>3 DEF Worker
<1> HIDE DEF u
<1>8. Watching(u) = Watching(worker)
  BY <1>5, <1>7 DEF Watching
<1>9. Held(u) = Held(worker) /\ Ends(u) = Ends(worker) /\ Files(u) = Files(worker)
      /\ (Ending(u) <=> Ending(worker)) /\ \A S : InHand(u, S) = InHand(worker, S)
  BY <1>4, <1>7, <1>8 DEF Held, Ends, Files, Ending, InHand
<1>10. \A k : Due(desk, u, k) = Due(desk, worker, k)
  BY <1>9 DEF Due
<1>11. Charged(desk, worker) /\ EndsFit(desk, worker) /\ EndOwed(desk, worker)
  BY <1>3 DEF IInv, Alive
<1>12. Charged(desk, u) /\ EndsFit(desk, u)
  BY <1>7, <1>9, <1>11 DEF Charged, EndsFit
<1>13. EndOwed(desk, u)
  BY <1>7, <1>9, <1>10, <1>11 DEF EndOwed
<1>14. WorkerFits(u)
  BY <1>3, <1>6, <1>7 DEF WorkerFits
<1> QED BY <1>1, <1>10, <1>12, <1>13, <1>14 DEF IInv, Leaving, Alive

LEMMA NextInv ==
  ASSUME IInv, [Next]_vars
  PROVE  IInv'
<1>1. CASE UserStep
  BY <1>1, UserInv
<1>2. ASSUME NEW due \in BOOLEAN, NEW ready, NEW late, Tick(due, ready, late) PROVE IInv'
  BY <1>2, TickInv
<1>3. CASE SendsShutdown
  BY <1>3, ShutdownInv
<1>4. CASE Joins
  BY <1>4 DEF Joins, IInv, Leaving
<1>5. CASE Over \/ UNCHANGED vars
  BY <1>5 DEF Over, vars, IInv, Leaving
<1>6. CASE WorkerStep
  BY <1>6, ReceivesInv, TimesOutInv, PerformsInv, ShutsDownInv DEF WorkerStep
<1>7. CASE RecorderExits
  BY <1>7, RecorderInv
<1>8. CASE ProbeEnds
  BY <1>8, ProbeInv
<1> QED BY <1>1, <1>2, <1>3, <1>4, <1>5, <1>6, <1>7, <1>8 DEF Next

LEMMA InvHolds == Spec => []IInv
<1>1. Init => IInv
  BY InitInv
<1>2. IInv /\ [Next]_vars => IInv'
  BY NextInv
<1> QED BY <1>1, <1>2, PTL DEF Spec

-----------------------------------------------------------------------------

\* The records, the channels and the slots keep their types and bounds, whatever
\* is photographed, recorded, canceled or refused, to the end of the session.
THEOREM TypeSafety == Spec => []TypeOK
<1>1. IInv => TypeOK
  BY DEF IInv, DeskFits, WorkerFits, TypeOK
<1> QED BY <1>1, InvHolds, PTL

\* The count that admits photographs is always what is under way, for any sizes of
\* the rooms that satisfy RoomAssumption: it neither leaks nor is refunded twice,
\* the clipboard never refuses a photograph that was admitted, and every temporary
\* file belongs to one on its way there (capture_tool.rs: photograph,
\* service_screenshots, tick; worker.rs: the loop, Clipboard).
THEOREM ChargeSafety == Spec => []EveryPhotographIsCharged
<1>1. IInv => EveryPhotographIsCharged
  <2> SUFFICES ASSUME IInv, worker.pc # "left"
               PROVE  /\ desk.screenshots = UnderWay
                      /\ worker.job.kind = "shot" => ClipboardHasRoom(worker)
                      /\ worker.temporary = Files(worker)
    BY DEF EveryPhotographIsCharged, Files
  <2>1. /\ Charged(desk, worker) /\ desk \in Desk /\ worker \in Worker
    BY DEF IInv, Alive, DeskFits, WorkerFits
  <2>2. desk.screenshots = UnderWay
    <3>1. desk.screenshots = Count(desk.downloads, Destinations) + Count(desk.jobs, Shots)
                               + InHand(worker, Shots) + Held(worker)
      BY <2>1 DEF Charged
    <3>2. /\ Count(desk.downloads, Destinations) \in Nat /\ Count(desk.jobs, Shots) \in Nat
          /\ InHand(worker, Shots) \in {0, 1} /\ Watching(worker) \in {0, 1}
          /\ Len(worker.waiting) \in Nat /\ Count(worker.updates, {"shotDone"}) \in Nat
      BY <2>1, DeskCounts, WorkerCounts, InHandIs
    <3>3. Held(worker) = Watching(worker) + Len(worker.waiting) + Count(worker.updates, {"shotDone"})
      BY DEF Held
    <3>4. UnderWay = Count(desk.downloads, Destinations) + Count(desk.jobs, Shots)
                       + InHand(worker, Shots) + Watching(worker) + Len(worker.waiting)
                       + Count(worker.updates, {"shotDone"})
      BY DEF UnderWay
    <3> QED BY ONLY <3>1, <3>2, <3>3, <3>4
  <2>3. ASSUME worker.job.kind = "shot" PROVE ClipboardHasRoom(worker)
    <3>1. worker.job \in Shots
      <4>1. worker.job \in Job \/ worker.job = NoJob
        BY <2>1, WorkerFields
      <4> QED BY <2>3, <4>1, Kinds
    <3>2. InHand(worker, Shots) = 1
      BY <3>1 DEF InHand
    <3>3. Held(worker) + 1 <= MaxShots
      BY <3>2, WorkerBounds
    <3>4. /\ Watching(worker) \in {0, 1} /\ Len(worker.waiting) \in Nat
          /\ Count(worker.updates, {"shotDone"}) \in Nat
      BY <2>1, WorkerCounts
    <3>5. Len(worker.waiting) + Watching(worker) <= Held(worker) /\ Held(worker) \in Nat
      BY <3>4 DEF Held
    <3>6. Len(worker.waiting) + Watching(worker) < MaxClipboard
      BY <3>3, <3>4, <3>5, Sizes
    <3> QED BY <3>6 DEF ClipboardHasRoom, Watching
  <2>4. worker.temporary = Files(worker)
    BY <2>1 DEF Charged
  <2> QED BY <2>2, <2>3, <2>4
<1> QED BY <1>1, InvHolds, PTL

\* The badge is up exactly while the tool thinks it records, and something is then
\* always left that will end it: no end is lost for want of room, so screenshots and
\* recordings stay possible for the session (capture_tool.rs: commit, stop, tick;
\* worker.rs: the loop, send).
THEOREM EndSafety == Spec => []RecordingCanEnd
<1>1. IInv => RecordingCanEnd
  <2> SUFFICES ASSUME IInv, worker.pc # "left"
               PROVE  /\ desk.recording <=> desk.ui = "badge"
                      /\ desk.finishing => desk.recording /\ EndIsComing
                      /\ desk.recording => \/ Pending("record") \/ worker.recorder # "none"
                                           \/ EndIsComing
    BY DEF RecordingCanEnd
  <2>1. EndOwed(desk, worker) /\ desk \in Desk
    BY DEF IInv, Alive, DeskFits
  <2>2. ASSUME NEW k \in {"record", "stop"}, Due(desk, worker, k) > 0
        PROVE  Pending(k)
    <3>1. Plain(k).kind = k
      BY DEF Plain
    <3>2. CASE worker.job = Plain(k)
      BY <3>1, <3>2 DEF Pending
    <3>3. CASE worker.job # Plain(k)
      <4>1. InHand(worker, {Plain(k)}) = 0 /\ Count(desk.jobs, {Plain(k)}) \in Nat
        BY <2>1, <3>3, DeskCounts DEF InHand
      <4>2. Count(desk.jobs, {Plain(k)}) > 0
        BY <2>2, <4>1 DEF Due
      <4>3. \E i \in DOMAIN desk.jobs : desk.jobs[i] \in {Plain(k)}
        BY <4>2, CountPositive
      <4> QED BY <3>1, <4>3 DEF Pending
    <3> QED BY <3>2, <3>3
  <2>3. Ending(worker) => \E i \in DOMAIN worker.updates : worker.updates[i] = "ended"
    BY CountPositive DEF Ending
  <2>4. Due(desk, worker, "stop") > 0 \/ Ending(worker) => EndIsComing
    BY <2>2, <2>3 DEF EndIsComing
  <2> QED BY <2>1, <2>2, <2>4 DEF EndOwed
<1> QED BY <1>1, InvHolds, PTL

=============================================================================
