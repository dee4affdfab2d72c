------------------------- MODULE CapturePauseProofs -------------------------
(***************************************************************************)
(* Proofs about CapturePause, for any hooks, persons and bounds.           *)
(*                                                                         *)
(* Nothing guards the pause file, so what a call knows of it is old by the *)
(* time it writes.  A write that undoes no other one (`raced` stays FALSE) *)
(* is made of the state the file still has, or changes nothing; that is    *)
(* what each part of the invariant below rests on.                         *)
(***************************************************************************)
EXTENDS CapturePause, FiniteSetTheorems, TLAPS

Label == {"idle", "settle", "save", "read", "commit", "mark", "append", "push"}

JobType == [op : Op, kind : Kind, now : Nat, until : 1..Forever, saw : PauseState,
            next : PauseState, due : SUBSET Marker, began : PauseState, caught : BOOLEAN]

(* What a call at l may hold: the time it read is past, it owes no marker
   before it has settled anything, and it ends a pause that it saw. *)
JobOK(l, j, now) ==
    /\ l \notin {"idle", "push"} => j.now <= now
    /\ l \in {"idle", "settle", "push"} => j.due = {}
    /\ l = "commit" /\ j.op = "resume" => j.saw[j.kind] # None

JobsOK ==
    /\ pc \in [Proc -> Label]
    /\ job \in [Proc -> JobType]
    /\ \A p \in Proc : JobOK(pc[p], job[p], clock)

SyncType == [pc : {"idle", "replay", "send"}, dedicated : BOOLEAN, rows : SUBSET log]

FilesOK ==
    /\ clock \in Time
    /\ state \in PauseState /\ intent \in PauseState
    /\ log \subseteq Event /\ IsFiniteSet(log)
    /\ markers \subseteq Marker /\ lost \subseteq Marker /\ faults \in 0..MaxFaults
    /\ shared \subseteq log /\ uploaded \subseteq log
    /\ sync \in SyncType /\ \A e \in sync.rows : ~e.local
    /\ nextPause \in 1 .. MaxPauses + 1
    /\ localSeen \in BOOLEAN /\ raced \in BOOLEAN /\ mixed \in BOOLEAN

TypeInv == JobsOK /\ FilesOK

LEMMA TypeInvCorrect == TypeInv => TypeOK
  BY DEF TypeInv, JobsOK, FilesOK, TypeOK, JobType, Label, SyncType, Uploadable

-----------------------------------------------------------------------------
(* Types. *)

(* Call p goes on to l with the locals j. *)
Moves(p, l, j) == pc' = [pc EXCEPT ![p] = l] /\ job' = [job EXCEPT ![p] = j]

LEMMA MovesOne ==
    ASSUME JobsOK, NEW p \in Proc, NEW l, NEW j, Moves(p, l, j)
    PROVE  /\ pc'[p] = l /\ job'[p] = j
           /\ \A q \in Proc : q # p => pc'[q] = pc[q] /\ job'[q] = job[q]
  BY DEF JobsOK, Moves

LEMMA JobsMove ==
    ASSUME JobsOK, NEW p \in Proc, NEW l \in Label, NEW j \in JobType, Moves(p, l, j),
           JobOK(l, j, clock), clock' = clock
    PROVE  JobsOK'
<1>1. /\ pc'[p] = l /\ job'[p] = j
      /\ \A q \in Proc : q # p => pc'[q] = pc[q] /\ job'[q] = job[q]
  BY MovesOne
<1>2. pc' \in [Proc -> Label] /\ job' \in [Proc -> JobType]
  BY DEF JobsOK, Moves
<1>3. ASSUME NEW q \in Proc PROVE JobOK(pc'[q], job'[q], clock')
  <2>1. CASE q = p
    BY <1>1, <2>1
  <2>2. CASE q # p
    BY <1>1, <2>2 DEF JobsOK
  <2> QED
    BY <2>1, <2>2
<1> QED
  BY <1>2, <1>3 DEF JobsOK

LEMMA NoJobType ==
    /\ NoJob \in JobType /\ NoPauses \in PauseState /\ NoJob.due = {} /\ NoJob.now = 0
    /\ \A k \in Kind : NoPauses[k] = None
  BY PauseBounds DEF NoJob, JobType, NoPauses, PauseState, Kind, Op, Forever

(* The parts of a job. *)
LEMMA JobParts ==
    ASSUME TypeInv, NEW p \in Proc
    PROVE  /\ job[p] \in JobType
           /\ job[p].now \in Nat /\ job[p].until \in 1..Forever
           /\ job[p].kind \in Kind /\ job[p].op \in Op
           /\ job[p].saw \in PauseState /\ job[p].next \in PauseState
           /\ job[p].began \in PauseState /\ job[p].caught \in BOOLEAN
           /\ job[p].due \subseteq Marker
           /\ JobOK(pc[p], job[p], clock) /\ pc[p] \in Label
  BY DEF TypeInv, JobsOK, JobType

LEMMA Numbers ==
    ASSUME TypeInv
    PROVE  /\ clock \in Nat /\ clock <= MaxTime /\ MaxTime \in Nat
           /\ nextPause \in Nat /\ nextPause >= 1 /\ MaxPauses \in Nat
           /\ Forever \in Nat /\ clock < Forever /\ MaxEvents \in Nat
           /\ Cardinality(log) \in Nat
  BY PauseBounds, FS_CardinalityType DEF TypeInv, FilesOK, Time, Forever

LEMMA TypeInit == Init => TypeInv
<1> SUFFICES ASSUME Init PROVE TypeInv
  OBVIOUS
<1>1. job \in [Proc -> JobType] /\ \A p \in Proc : job[p] = NoJob /\ pc[p] = "idle"
  BY NoJobType DEF Init
<1>2. JobsOK
  BY <1>1, NoJobType DEF Init, JobsOK, JobOK, Label
<1>3. IsFiniteSet(log)
  BY FS_EmptySet DEF Init
<1>4. NoSync \in SyncType /\ NoSync.rows = {}
  BY DEF NoSync, SyncType
<1>5. /\ clock \in Time /\ state \in PauseState /\ intent \in PauseState
      /\ nextPause \in 1 .. MaxPauses + 1
  BY NoJobType, PauseBounds DEF Init, Time
<1>6. /\ log \subseteq Event /\ markers \subseteq Marker /\ lost \subseteq Marker
      /\ faults \in 0..MaxFaults
      /\ shared \subseteq log /\ uploaded \subseteq log
      /\ localSeen \in BOOLEAN /\ raced \in BOOLEAN /\ mixed \in BOOLEAN
  <2>1. faults \in 0..MaxFaults
    BY PauseBounds, SMT DEF Init
  <2>2. /\ log \subseteq Event /\ markers \subseteq Marker /\ lost \subseteq Marker
        /\ shared \subseteq log /\ uploaded \subseteq log
    BY DEF Init
  <2>3. localSeen \in BOOLEAN /\ raced \in BOOLEAN /\ mixed \in BOOLEAN
    BY DEF Init
  <2> QED
    BY <2>1, <2>2, <2>3
<1>7. sync \in SyncType /\ \A e \in sync.rows : ~e.local
  BY <1>4 DEF Init
<1>8. FilesOK
  BY <1>3, <1>5, <1>6, <1>7 DEF FilesOK
<1> QED
  BY <1>2, <1>8 DEF TypeInv

-----------------------------------------------------------------------------
(* What each step of a call leaves in its locals. *)

Expired(s, now) == {k \in Kind : s[k] # None /\ ~Active(s[k], now)}

Settled(s, now) == [k \in Kind |-> IF k \in Expired(s, now) THEN None ELSE s[k]]

ExpiredMarkers(s, now) ==
    {[id |-> s[k].id, type |-> "expired", at |-> s[k].until] : k \in Expired(s, now)}

LEMMA CallMoves ==
    ASSUME TypeInv, NEW p \in Proc, NEW op \in Op, NEW k \in Kind,
           NEW until \in {clock + 1, Forever}, Call(p, op, k, until)
    PROVE  \E j \in JobType :
             /\ Moves(p, "settle", j) /\ JobOK("settle", j, clock)
             /\ j.saw = NoPauses /\ j.due = {} /\ j.now = clock /\ pc[p] = "idle"
             /\ j.began = intent \/ j.began = NoPauses
<1> DEFINE j == [NoJob EXCEPT !.op = op, !.kind = k, !.now = clock, !.until = until,
                              !.began = IF op = "write" THEN intent ELSE NoPauses]
<1>1. until \in 1..Forever
  BY Numbers
<1>2. j \in JobType
  BY <1>1, Numbers, NoJobType DEF JobType, NoJob, TypeInv, FilesOK
<1>3. j.saw = NoPauses /\ j.due = {} /\ j.now = clock /\ (j.began = intent \/ j.began = NoPauses)
  BY DEF NoJob
<1>4. Moves(p, "settle", j)
  BY DEF Call, Goto, Moves
<1> HIDE DEF j
<1>5. JobOK("settle", j, clock)
  BY <1>3, Numbers DEF JobOK
<1> QED
  BY <1>2, <1>3, <1>4, <1>5 DEF Call

LEMMA SettledType ==
    ASSUME NEW s \in PauseState, NEW now
    PROVE  Settled(s, now) \in PauseState /\ ExpiredMarkers(s, now) \subseteq Marker
  BY DEF Settled, Expired, ExpiredMarkers, PauseState, Pause, Marker

LEMMA SettleMoves ==
    ASSUME TypeInv, NEW p \in Proc, Settle(p)
    PROVE  /\ pc[p] = "settle"
           /\ \E j \in JobType :
                /\ j.now = job[p].now /\ j.began = job[p].began
                /\ \/ /\ j = job[p] /\ Moves(p, "read", j) /\ JobOK("read", j, clock)
                   \/ /\ Moves(p, "save", j) /\ JobOK("save", j, clock)
                      /\ j.saw = state /\ j.next = Settled(state, j.now)
                      /\ j.due = ExpiredMarkers(state, j.now)
<1> DEFINE now == job[p].now
           j == [job[p] EXCEPT !.saw = state, !.next = Settled(state, now),
                               !.due = ExpiredMarkers(state, now)]
<1>1. pc[p] = "settle" /\ job[p] \in JobType /\ JobOK(pc[p], job[p], clock) /\ state \in PauseState
  BY JobParts DEF Settle, TypeInv, FilesOK
<1>2. \/ pc' = [pc EXCEPT ![p] = "read"] /\ job' = job
      \/ pc' = [pc EXCEPT ![p] = "save"] /\ job' = [job EXCEPT ![p] = j]
  BY DEF Settle, Goto, Settled, ExpiredMarkers, Expired, TypeInv, JobsOK
<1>3. j \in JobType /\ j.now = job[p].now /\ j.began = job[p].began
      /\ j.saw = state /\ j.next = Settled(state, j.now) /\ j.due = ExpiredMarkers(state, j.now)
  BY <1>1, SettledType DEF JobType
<1> HIDE DEF j
<1>4. JobOK("save", j, clock) /\ JobOK("read", job[p], clock)
  BY <1>1, <1>3 DEF JobOK
<1>5. CASE pc' = [pc EXCEPT ![p] = "read"] /\ job' = job
  <2>1. Moves(p, "read", job[p])
    BY <1>5 DEF Moves, TypeInv, JobsOK
  <2> QED
    BY <1>1, <1>4, <2>1
<1>6. CASE pc' = [pc EXCEPT ![p] = "save"] /\ job' = [job EXCEPT ![p] = j]
  <2>1. Moves(p, "save", j)
    BY <1>6 DEF Moves
  <2> QED
    BY <1>1, <1>3, <1>4, <2>1
<1> QED
  BY <1>2, <1>5, <1>6

LEMMA SaveMoves ==
    ASSUME TypeInv, NEW p \in Proc, SaveSettled(p)
    PROVE  /\ pc[p] = "save" /\ state' = job[p].next /\ raced' \in BOOLEAN
           /\ \E j \in JobType :
                /\ Moves(p, "read", j) /\ JobOK("read", j, clock)
                /\ j.saw = NoPauses /\ j.now = job[p].now /\ j.began = job[p].began
                /\ j.due = job[p].due
<1> DEFINE j == [job[p] EXCEPT !.saw = NoPauses, !.next = NoPauses]
<1>1. pc[p] = "save" /\ job[p] \in JobType /\ JobOK(pc[p], job[p], clock)
      /\ state' = job[p].next
  BY JobParts DEF SaveSettled, WriteState
<1>2. raced' \in BOOLEAN
  BY Zenon DEF SaveSettled, WriteState, TypeInv, FilesOK
<1>3. Moves(p, "read", j)
  BY DEF SaveSettled, Goto, Moves, TypeInv, JobsOK
<1>4. j \in JobType /\ j.saw = NoPauses /\ j.now = job[p].now /\ j.began = job[p].began
      /\ j.due = job[p].due
  BY <1>1, NoJobType DEF JobType
<1> HIDE DEF j
<1>5. JobOK("read", j, clock)
  BY <1>1, <1>4 DEF JobOK
<1> QED
  BY <1>1, <1>2, <1>3, <1>4, <1>5

LEMMA ReadMoves ==
    ASSUME TypeInv, NEW p \in Proc, ReadState(p)
    PROVE  /\ pc[p] = "read"
           /\ \E j \in JobType :
                /\ j.due = job[p].due /\ j.now = job[p].now /\ j.began = job[p].began
                /\ \/ j = job[p] /\ Moves(p, "mark", j) /\ JobOK("mark", j, clock)
                   \/ Moves(p, "commit", j) /\ JobOK("commit", j, clock) /\ j.saw = state
<1> DEFINE j == [job[p] EXCEPT !.saw = state]
<1>1. pc[p] = "read" /\ job[p] \in JobType /\ JobOK(pc[p], job[p], clock) /\ state \in PauseState
  BY JobParts DEF ReadState, TypeInv, FilesOK
<1>2. j \in JobType /\ j.saw = state /\ j.now = job[p].now /\ j.began = job[p].began
      /\ j.due = job[p].due /\ j.op = job[p].op /\ j.kind = job[p].kind
  BY <1>1 DEF JobType
<1>3. \/ pc' = [pc EXCEPT ![p] = "mark"] /\ job' = job
      \/ /\ pc' = [pc EXCEPT ![p] = "commit"] /\ job' = [job EXCEPT ![p] = j]
         /\ job[p].op = "resume" => state[job[p].kind] # None
  BY DEF ReadState, Goto, TypeInv, JobsOK
<1> HIDE DEF j
<1>4. CASE pc' = [pc EXCEPT ![p] = "mark"] /\ job' = job
  <2>1. Moves(p, "mark", job[p]) /\ JobOK("mark", job[p], clock)
    BY <1>1, <1>4 DEF Moves, TypeInv, JobsOK, JobOK
  <2> QED
    BY <1>1, <2>1
<1>5. CASE /\ pc' = [pc EXCEPT ![p] = "commit"] /\ job' = [job EXCEPT ![p] = j]
           /\ job[p].op = "resume" => state[job[p].kind] # None
  <2>1. Moves(p, "commit", j)
    BY <1>5 DEF Moves
  <2>2. JobOK("commit", j, clock)
    BY <1>1, <1>2, <1>5 DEF JobOK
  <2> QED
    BY <1>1, <1>2, <2>1, <2>2
<1> QED
  BY <1>3, <1>4, <1>5

(* Both ends of a pause: the call is left with its markers. *)
LEMMA OwesMoves ==
    ASSUME TypeInv, NEW p \in Proc, NEW due \in SUBSET Marker, Owes(p, due), Goto(p, "mark")
    PROVE  \E j \in JobType :
             /\ Moves(p, "mark", j) /\ JobOK("mark", j, clock)
             /\ j.saw = NoPauses /\ j.began = NoPauses /\ j.due = job[p].due \cup due
<1> DEFINE j == [NoJob EXCEPT !.due = job[p].due \cup due]
<1>1. j \in JobType /\ j.saw = NoPauses /\ j.began = NoPauses /\ j.due = job[p].due \cup due
      /\ j.now = 0
  BY JobParts, NoJobType DEF JobType, NoJob
<1>2. Moves(p, "mark", j)
  BY DEF Owes, Goto, Moves
<1> HIDE DEF j
<1>3. JobOK("mark", j, clock)
  BY <1>1, Numbers DEF JobOK
<1> QED
  BY <1>1, <1>2, <1>3

New(p) == [id |-> nextPause, until |-> job[p].until]

StartMarkers(p) ==
    {[id |-> nextPause, type |-> "paused", at |-> job[p].now]}
      \cup (IF job[p].saw[job[p].kind] = None THEN {}
            ELSE {[id |-> job[p].saw[job[p].kind].id, type |-> "replaced", at |-> job[p].now]})

LEMMA StartMoves ==
    ASSUME TypeInv, NEW p \in Proc, StartPause(p)
    PROVE  /\ pc[p] = "commit" /\ raced' \in BOOLEAN
           /\ New(p) \in Pause
           /\ nextPause' = nextPause + 1 /\ nextPause' \in 1 .. MaxPauses + 1
           /\ state' = [job[p].saw EXCEPT ![job[p].kind] = New(p)]
           /\ intent' = [intent EXCEPT ![job[p].kind] = New(p)]
           /\ \E j \in JobType :
                /\ Moves(p, "mark", j) /\ JobOK("mark", j, clock)
                /\ j.saw = NoPauses /\ j.began = NoPauses
                /\ j.due = job[p].due \cup StartMarkers(p)
<1> DEFINE prev == job[p].saw[job[p].kind]
<1>1. pc[p] = "commit" /\ nextPause <= MaxPauses /\ nextPause' = nextPause + 1
      /\ state' = [job[p].saw EXCEPT ![job[p].kind] = New(p)]
      /\ intent' = [intent EXCEPT ![job[p].kind] = New(p)]
      /\ Owes(p, StartMarkers(p)) /\ Goto(p, "mark")
  BY DEF StartPause, WriteState, New, StartMarkers
<1>2. raced' \in BOOLEAN
  BY Zenon DEF StartPause, WriteState, TypeInv, FilesOK
<1>3. nextPause \in 1..MaxPauses /\ nextPause' \in 1 .. MaxPauses + 1
  BY <1>1, Numbers
<1>4. New(p) \in Pause
  BY <1>3, JobParts DEF New, Pause
<1>5. job[p].now \in 1..Forever \cup {0} /\ prev \in Pause \cup {None}
  BY <1>1, Numbers, JobParts DEF JobOK, PauseState
<1>6. StartMarkers(p) \in SUBSET Marker
  BY <1>3, <1>5 DEF StartMarkers, Marker, Pause
<1> QED
  BY <1>1, <1>2, <1>3, <1>4, <1>6, OwesMoves

EndMarker(p) == [id |-> job[p].saw[job[p].kind].id, type |-> "command", at |-> job[p].now]

LEMMA EndMoves ==
    ASSUME TypeInv, NEW p \in Proc, EndPause(p)
    PROVE  /\ pc[p] = "commit" /\ raced' \in BOOLEAN
           /\ job[p].saw[job[p].kind] \in Pause
           /\ state' = [job[p].saw EXCEPT ![job[p].kind] = None]
           /\ intent' = [intent EXCEPT ![job[p].kind] = None]
           /\ \E j \in JobType :
                /\ Moves(p, "mark", j) /\ JobOK("mark", j, clock)
                /\ j.saw = NoPauses /\ j.began = NoPauses
                /\ j.due = job[p].due \cup {EndMarker(p)}
<1>1. pc[p] = "commit" /\ job[p].op = "resume"
      /\ state' = [job[p].saw EXCEPT ![job[p].kind] = None]
      /\ intent' = [intent EXCEPT ![job[p].kind] = None]
      /\ Owes(p, {EndMarker(p)}) /\ Goto(p, "mark")
  BY DEF EndPause, WriteState, EndMarker
<1>2. raced' \in BOOLEAN
  BY Zenon DEF EndPause, WriteState, TypeInv, FilesOK
<1>3. job[p].saw[job[p].kind] \in Pause
  BY <1>1, JobParts DEF JobOK, PauseState
<1>4. job[p].now \in 1..Forever \cup {0}
  BY <1>1, Numbers, JobParts DEF JobOK
<1>5. {EndMarker(p)} \in SUBSET Marker
  BY <1>3, <1>4 DEF EndMarker, Marker, Pause
<1> QED
  BY <1>1, <1>2, <1>3, <1>5, OwesMoves

(* A call that is over keeps nothing. *)
LEMMA DoneMoves ==
    ASSUME TypeInv, NEW p \in Proc, Goto(p, "idle"), job' = [job EXCEPT ![p] = NoJob]
    PROVE  /\ NoJob \in JobType /\ Moves(p, "idle", NoJob) /\ JobOK("idle", NoJob, clock)
           /\ NoJob.saw = NoPauses /\ NoJob.due = {} /\ NoJob.began = NoPauses
  BY NoJobType DEF Goto, Moves, JobOK, NoJob

LEMMA WriteMoves ==
    ASSUME TypeInv, NEW p \in Proc, ReadBeforeWrite(p)
    PROVE  /\ pc[p] = "read" /\ localSeen' \in BOOLEAN /\ mixed' \in BOOLEAN
           /\ \E j \in JobType :
                /\ Moves(p, "append", j) /\ JobOK("append", j, clock)
                /\ j.saw = state /\ j.now = job[p].now /\ j.began = job[p].began
                /\ j.due = job[p].due
<1> DEFINE j == [job[p] EXCEPT !.saw = state]
<1>1. pc[p] = "read" /\ job[p] \in JobType /\ JobOK(pc[p], job[p], clock) /\ state \in PauseState
  BY JobParts DEF ReadBeforeWrite, TypeInv, FilesOK
<1>2. localSeen' \in BOOLEAN /\ mixed' \in BOOLEAN
  BY Zenon DEF ReadBeforeWrite, TypeInv, FilesOK
<1>3. Moves(p, "append", j)
  BY DEF ReadBeforeWrite, Goto, Moves
<1>4. j \in JobType /\ j.saw = state /\ j.now = job[p].now /\ j.began = job[p].began
      /\ j.due = job[p].due
  BY <1>1 DEF JobType
<1> HIDE DEF j
<1>5. JobOK("append", j, clock)
  BY <1>1, <1>4 DEF JobOK
<1> QED
  BY <1>1, <1>2, <1>3, <1>4, <1>5

NewEvent(p) == [id |-> Cardinality(log) + 1, local |-> Active(job[p].saw.sync, job[p].now),
                under |-> Throughout(p), caught |-> job[p].caught]

LEMMA AppendMoves ==
    ASSUME TypeInv, NEW p \in Proc, AppendEvent(p)
    PROVE  /\ pc[p] = "append" /\ markers' = markers \cup job[p].due
           /\ \E l \in {"idle", "push"}, j \in JobType :
                /\ Moves(p, l, j) /\ JobOK(l, j, clock)
                /\ j.saw = NoPauses /\ j.due = {} /\ j.began = NoPauses
                /\ \/ log' = log /\ l = "idle"
                   \/ /\ ~Active(job[p].saw.record, job[p].now)
                      /\ NewEvent(p) \in Event
                      /\ log' = log \cup {NewEvent(p)}
                      /\ l = "push" => ~NewEvent(p).local
                      /\ l = "push" => j.now = Cardinality(log) + 1
<1>1. pc[p] = "append" /\ markers' = markers \cup job[p].due
  BY DEF AppendEvent
<1>2. CASE Goto(p, "idle") /\ job' = [job EXCEPT ![p] = NoJob] /\ log' = log
  BY <1>1, <1>2, DoneMoves
<1>3. CASE /\ ~Active(job[p].saw.record, job[p].now)
           /\ Cardinality(log) < MaxEvents
           /\ log' = log \cup {NewEvent(p)}
           /\ \/ /\ Active(job[p].saw.sync, job[p].now)
                 /\ Goto(p, "idle") /\ job' = [job EXCEPT ![p] = NoJob]
              \/ /\ ~Active(job[p].saw.sync, job[p].now)
                 /\ Goto(p, "push")
                 /\ job' = [job EXCEPT ![p] = [NoJob EXCEPT !.now = Cardinality(log) + 1]]
  <2> DEFINE j == [NoJob EXCEPT !.now = Cardinality(log) + 1]
  <2>1. NewEvent(p) \in Event
    <3>1. NewEvent(p).id \in 1..MaxEvents
      BY <1>3, Numbers DEF NewEvent
    <3>2. Active(job[p].saw.sync, job[p].now) \in BOOLEAN
      BY DEF Active
    <3>3. Throughout(p) \in SUBSET Kind
      BY DEF Throughout
    <3> QED
      BY <3>1, <3>2, <3>3, JobParts DEF NewEvent, Event
  <2>2. j \in JobType /\ j.saw = NoPauses /\ j.due = {} /\ j.began = NoPauses
        /\ j.now = Cardinality(log) + 1
    <3>1. Cardinality(log) + 1 \in Nat
      BY Numbers
    <3>2. j \in JobType
      BY <3>1, NoJobType DEF JobType
    <3>3. j.saw = NoPauses /\ j.due = {} /\ j.began = NoPauses /\ j.now = Cardinality(log) + 1
      BY DEF NoJob
    <3> QED
      BY <3>2, <3>3
  <2>3. CASE Goto(p, "idle") /\ job' = [job EXCEPT ![p] = NoJob]
    BY <1>1, <1>3, <2>1, <2>3, DoneMoves
  <2>4. CASE ~Active(job[p].saw.sync, job[p].now) /\ Goto(p, "push") /\ job' = [job EXCEPT ![p] = j]
    <3>1. Moves(p, "push", j) /\ ~NewEvent(p).local
      BY <2>4 DEF Moves, Goto, NewEvent
    <3> HIDE DEF j
    <3>2. JobOK("push", j, clock)
      BY <2>2 DEF JobOK
    <3> QED
      BY <1>1, <1>3, <2>1, <2>2, <3>1, <3>2
  <2> QED
    BY <1>3, <2>3, <2>4
<1> QED
  BY <1>2, <1>3 DEF AppendEvent, NewEvent

(* A hook that catches an error: of its write, with nothing known of the pauses;
   of the flag, with the markers dropped. *)
LEMMA CaughtMoves ==
    ASSUME TypeInv, NEW p \in Proc, FailToSettle(p) \/ FailToMark(p)
    PROVE  /\ pc[p] \in {"save", "read"}
           /\ \E j \in JobType :
                /\ Moves(p, "append", j) /\ JobOK("append", j, clock)
                /\ j.now = job[p].now /\ j.began = job[p].began /\ j.due = {}
                /\ \/ FailToSettle(p) /\ j.saw = NoPauses /\ j.caught
                   \/ FailToMark(p) /\ j.saw = state
<1>1. job[p] \in JobType /\ JobOK(pc[p], job[p], clock) /\ state \in PauseState
  BY JobParts DEF TypeInv, FilesOK
<1>2. CASE FailToSettle(p)
  <2> DEFINE j == [job[p] EXCEPT !.saw = NoPauses, !.next = NoPauses, !.due = {}, !.caught = TRUE]
  <2>1. pc[p] = "save" /\ Moves(p, "append", j)
    BY <1>2 DEF FailToSettle, Goto, Moves
  <2>2. j \in JobType /\ j.saw = NoPauses /\ j.now = job[p].now /\ j.began = job[p].began
        /\ j.due = {} /\ j.caught
    BY <1>1, NoJobType DEF JobType
  <2> HIDE DEF j
  <2>3. JobOK("append", j, clock)
    BY <1>1, <2>1, <2>2 DEF JobOK
  <2> QED
    BY <1>2, <2>1, <2>2, <2>3
<1>3. CASE FailToMark(p)
  <2> DEFINE j == [job[p] EXCEPT !.saw = state, !.due = {}]
  <2>1. pc[p] = "read" /\ Moves(p, "append", j)
    BY <1>3 DEF FailToMark, Goto, Moves
  <2>2. j \in JobType /\ j.saw = state /\ j.now = job[p].now /\ j.began = job[p].began
        /\ j.due = {}
    BY <1>1 DEF JobType
  <2> HIDE DEF j
  <2>3. JobOK("append", j, clock)
    BY <1>1, <2>1, <2>2 DEF JobOK
  <2> QED
    BY <1>3, <2>1, <2>2, <2>3
<1> QED
  BY <1>2, <1>3

(* A call that stops: what it owed is appended in part, and lost for the rest. *)
LEMMA StopMoves ==
    ASSUME TypeInv, NEW p \in Proc, Stop(p)
    PROVE  /\ Moves(p, "idle", NoJob)
           /\ markers' \cup lost' = markers \cup lost \cup Promised(pc[p], job[p])
           /\ markers' \subseteq markers \cup job[p].due
           /\ lost' \subseteq lost \cup job[p].due
<1> DEFINE due == Promised(pc[p], job[p])
<1>1. PICK done \in SUBSET due : markers' = markers \cup done /\ lost' = lost \cup (due \ done)
  BY DEF Stop, Begun
<1>2. due \subseteq job[p].due
  BY DEF Promised
<1>3. Moves(p, "idle", NoJob)
  BY DEF Stop, Goto, Moves
<1> HIDE DEF due
<1>4. markers' \cup lost' = markers \cup lost \cup due
  BY <1>1
<1> QED
  BY <1>1, <1>2, <1>3, <1>4 DEF due

LEMMA FaultNumber == ASSUME TypeInv, Fault PROVE faults' \in 0..MaxFaults
  BY PauseBounds DEF Fault, TypeInv, FilesOK

-----------------------------------------------------------------------------
(* Types: every step. *)

LEMMA NextCases ==
    ASSUME TypeInv, Next
    PROVE  \/ \E p \in Proc, op \in Op, k \in Kind, until \in {clock + 1, Forever} :
                Call(p, op, k, until)
           \/ \E p \in Proc : Step(p)
           \/ SyncBegin \/ SyncReplay \/ SyncSend \/ DashboardProjects
           \/ Tick
<1>1. \A p \in Hook : p \in Proc
  BY DEF Proc
<1>2. \A p \in Person : p \in Proc
  BY DEF Proc
<1> QED
  BY <1>1, <1>2 DEF Next, Op, Kind

LEMMA TypeStep == TypeInv /\ [Next]_vars => TypeInv'
<1> SUFFICES ASSUME TypeInv, [Next]_vars PROVE TypeInv'
  OBVIOUS
<1>1. ASSUME NEW p \in Proc, NEW op \in Op, NEW k \in Kind, NEW until \in {clock + 1, Forever},
             Call(p, op, k, until)
      PROVE  TypeInv'
  <2>1. UNCHANGED <<clock, fileVars, logVars, syncVars, nextPause, mixed>>
    BY <1>1 DEF Call
  <2>2. FilesOK'
    BY <2>1 DEF TypeInv, FilesOK, fileVars, logVars, syncVars, SyncType
  <2>3. JobsOK'
    BY <1>1, <2>1, CallMoves, JobsMove DEF TypeInv, Label
  <2> QED
    BY <2>2, <2>3 DEF TypeInv
<1>2. ASSUME NEW p \in Proc, Step(p) PROVE TypeInv'
  <2>1. CASE Settle(p) \/ ReadState(p)
    <3>1. UNCHANGED <<clock, fileVars, logVars, syncVars, nextPause, mixed>>
      BY <2>1 DEF Settle, ReadState
    <3>2. FilesOK'
      BY <3>1 DEF TypeInv, FilesOK, fileVars, logVars, syncVars, SyncType
    <3>3. \E l \in Label, j \in JobType : Moves(p, l, j) /\ JobOK(l, j, clock)
      BY <2>1, SettleMoves, ReadMoves DEF Label
    <3>4. JobsOK'
      BY <3>1, <3>3, JobsMove DEF TypeInv
    <3> QED
      BY <3>2, <3>4 DEF TypeInv
  <2>2. CASE SaveSettled(p)
    <3>1. UNCHANGED <<clock, intent, logVars, syncVars, nextPause, mixed>>
      BY <2>2 DEF SaveSettled
    <3>2. state' \in PauseState /\ raced' \in BOOLEAN
      BY <2>2, SaveMoves, JobParts
    <3>3. FilesOK'
      BY <3>1, <3>2 DEF TypeInv, FilesOK, logVars, syncVars, SyncType
    <3>4. JobsOK'
      BY <2>2, <3>1, SaveMoves, JobsMove DEF TypeInv, Label
    <3> QED
      BY <3>3, <3>4 DEF TypeInv
  <2>3. CASE StartPause(p)
    <3>1. UNCHANGED <<clock, logVars, syncVars, mixed>>
      BY <2>3 DEF StartPause
    <3>2. state' \in PauseState /\ intent' \in PauseState
      BY <2>3, StartMoves, JobParts DEF TypeInv, FilesOK, PauseState
    <3>3. FilesOK'
      BY <2>3, <3>1, <3>2, StartMoves DEF TypeInv, FilesOK, logVars, syncVars, SyncType
    <3>4. JobsOK'
      BY <2>3, <3>1, StartMoves, JobsMove DEF TypeInv, Label
    <3> QED
      BY <3>3, <3>4 DEF TypeInv
  <2>4. CASE EndPause(p)
    <3>1. UNCHANGED <<clock, logVars, syncVars, nextPause, mixed>>
      BY <2>4 DEF EndPause
    <3>2. state' \in PauseState /\ intent' \in PauseState
      BY <2>4, EndMoves, JobParts DEF TypeInv, FilesOK, PauseState
    <3>3. FilesOK'
      BY <2>4, <3>1, <3>2, EndMoves DEF TypeInv, FilesOK, logVars, syncVars, SyncType
    <3>4. JobsOK'
      BY <2>4, <3>1, EndMoves, JobsMove DEF TypeInv, Label
    <3> QED
      BY <3>3, <3>4 DEF TypeInv
  <2>5. CASE AppendMarkers(p)
    <3>1. UNCHANGED <<clock, fileVars, log, lost, faults, localSeen, syncVars, nextPause, mixed>>
          /\ markers' = markers \cup job[p].due
      BY <2>5 DEF AppendMarkers
    <3>2. FilesOK'
      BY <3>1, JobParts DEF TypeInv, FilesOK, fileVars, syncVars, SyncType
    <3>3. JobsOK'
      BY <2>5, <3>1, DoneMoves, JobsMove DEF TypeInv, Label, AppendMarkers
    <3> QED
      BY <3>2, <3>3 DEF TypeInv
  <2>6. CASE ReadBeforeWrite(p)
    <3>1. UNCHANGED <<clock, fileVars, log, markers, lost, faults, syncVars, nextPause>>
      BY <2>6 DEF ReadBeforeWrite
    <3>2. FilesOK'
      BY <2>6, <3>1, WriteMoves DEF TypeInv, FilesOK, fileVars, syncVars, SyncType
    <3>3. JobsOK'
      BY <2>6, <3>1, WriteMoves, JobsMove DEF TypeInv, Label
    <3> QED
      BY <3>2, <3>3 DEF TypeInv
  <2>7. CASE AppendEvent(p)
    <3>1. UNCHANGED <<clock, fileVars, lost, faults, localSeen, syncVars, nextPause, mixed>>
      BY <2>7 DEF AppendEvent
    <3>2. log' \subseteq Event /\ log \subseteq log'
      BY <2>7, AppendMoves DEF TypeInv, FilesOK
    <3>3. IsFiniteSet(log')
      BY <2>7, AppendMoves, FS_AddElement DEF TypeInv, FilesOK
    <3>4. markers' \subseteq Marker
      BY <2>7, AppendMoves, JobParts DEF TypeInv, FilesOK
    <3>5. FilesOK'
      BY <3>1, <3>2, <3>3, <3>4 DEF TypeInv, FilesOK, fileVars, syncVars, SyncType
    <3>6. JobsOK'
      BY <2>7, <3>1, AppendMoves, JobsMove DEF TypeInv, Label
    <3> QED
      BY <3>5, <3>6 DEF TypeInv
  <2>8. CASE Push(p)
    <3>1. UNCHANGED <<clock, fileVars, logVars, shared, sync, nextPause, mixed>>
          /\ uploaded' \subseteq uploaded \cup log
      BY <2>8 DEF Push
    <3>2. FilesOK'
      BY <3>1 DEF TypeInv, FilesOK, fileVars, logVars, SyncType
    <3>3. JobsOK'
      BY <2>8, <3>1, DoneMoves, JobsMove DEF TypeInv, Label, Push
    <3> QED
      BY <3>2, <3>3 DEF TypeInv
  <2>9. CASE FailToSettle(p) \/ FailToMark(p) \/ Stop(p)
    <3>1. UNCHANGED <<clock, fileVars, log, localSeen, syncVars, nextPause>> /\ Fault
      BY <2>9 DEF FailToSettle, FailToMark, Stop
    <3>2. markers' \subseteq Marker /\ lost' \subseteq Marker /\ mixed' \in BOOLEAN
      <4>1. job[p].due \subseteq Marker /\ markers \subseteq Marker /\ lost \subseteq Marker
        BY JobParts DEF TypeInv, FilesOK
      <4>2. CASE FailToSettle(p) \/ FailToMark(p)
        BY <4>1, <4>2 DEF FailToSettle, FailToMark, TypeInv, FilesOK
      <4>3. CASE Stop(p)
        <5>1. mixed' = mixed
          BY <4>3 DEF Stop
        <5> QED
          BY <4>1, <4>3, <5>1, StopMoves DEF TypeInv, FilesOK
      <4> QED
        BY <2>9, <4>2, <4>3
    <3>3. faults' \in 0..MaxFaults
      BY <3>1, FaultNumber
    <3>4. FilesOK'
      BY <3>1, <3>2, <3>3 DEF TypeInv, FilesOK, fileVars, syncVars, SyncType
    <3>5. \E l \in Label, j \in JobType : Moves(p, l, j) /\ JobOK(l, j, clock)
      <4>1. CASE FailToSettle(p) \/ FailToMark(p)
        BY <4>1, CaughtMoves DEF Label
      <4>2. CASE Stop(p)
        <5>1. Goto(p, "idle") /\ job' = [job EXCEPT ![p] = NoJob]
          BY <4>2 DEF Stop
        <5> QED
          BY <5>1, DoneMoves DEF Label
      <4> QED
        BY <2>9, <4>1, <4>2
    <3>6. JobsOK'
      BY <3>1, <3>5, JobsMove DEF TypeInv
    <3> QED
      BY <3>4, <3>6 DEF TypeInv
  <2> QED
    BY <1>2, <2>1, <2>2, <2>3, <2>4, <2>5, <2>6, <2>7, <2>8, <2>9 DEF Step
<1>3. CASE SyncBegin \/ SyncReplay \/ SyncSend \/ DashboardProjects
  <2>1. UNCHANGED <<clock, fileVars, log, markers, lost, faults, pc, job, nextPause, mixed>>
    BY <1>3 DEF SyncBegin, SyncReplay, SyncSend, DashboardProjects, logVars, fileVars
  <2>2. JobsOK'
    BY <2>1 DEF TypeInv, JobsOK
  <2>3. localSeen' \in BOOLEAN
    BY <1>3, Zenon DEF SyncBegin, SyncReplay, SyncSend, DashboardProjects, logVars, TypeInv, FilesOK
  <2>4. sync' \in SyncType /\ \A e \in sync'.rows : ~e.local
    <3>1. CASE SyncBegin
      BY <3>1 DEF SyncBegin, SyncType, TypeInv, FilesOK
    <3>2. CASE SyncReplay
      <4> DEFINE d == sync.dedicated \/ (~sync.dedicated /\ Uploadable # log)
      <4>1. sync' = [pc |-> "send", dedicated |-> d, rows |-> Uploadable]
        BY <3>2 DEF SyncReplay
      <4>2. d \in BOOLEAN
        BY Zenon DEF TypeInv, FilesOK, SyncType
      <4> HIDE DEF d
      <4> QED
        BY <4>1, <4>2 DEF SyncType, Uploadable
    <3>3. CASE SyncSend
      BY <3>3 DEF SyncSend, SyncType, NoSync
    <3>4. CASE DashboardProjects
      BY <3>4 DEF DashboardProjects, TypeInv, FilesOK
    <3> QED
      BY <1>3, <3>1, <3>2, <3>3, <3>4
  <2>5. shared' \subseteq log /\ uploaded' \subseteq log
    BY <1>3 DEF SyncBegin, SyncReplay, SyncSend, DashboardProjects, TypeInv, FilesOK, SyncType, Uploadable
  <2>6. sync' \in SyncType'
    BY <2>1, <2>4 DEF SyncType
  <2>7. FilesOK'
    BY <2>1, <2>3, <2>4, <2>5, <2>6 DEF TypeInv, FilesOK, fileVars
  <2> QED
    BY <2>2, <2>7 DEF TypeInv
<1>4. CASE Tick
  <2>1. UNCHANGED <<fileVars, logVars, pc, job, syncVars, nextPause, mixed>>
        /\ clock' = clock + 1 /\ clock' \in Time
    BY <1>4, Numbers DEF Tick, Time
  <2>2. FilesOK'
    BY <2>1 DEF TypeInv, FilesOK, fileVars, logVars, syncVars, SyncType
  <2>3. ASSUME NEW p \in Proc PROVE JobOK(pc[p], job[p], clock')
    BY <2>1, JobParts, Numbers DEF JobOK
  <2>4. JobsOK'
    BY <2>1, <2>3 DEF TypeInv, JobsOK
  <2> QED
    BY <2>2, <2>4 DEF TypeInv
<1>5. CASE UNCHANGED vars
  BY <1>5 DEF vars, fileVars, logVars, syncVars, TypeInv, JobsOK, FilesOK, SyncType
<1> QED
  BY <1>1, <1>2, <1>3, <1>4, <1>5, NextCases

LEMMA TypeInvAlways == Spec => []TypeInv
<1>1. Init => TypeInv
  BY TypeInit
<1>2. TypeInv /\ [Next]_vars => TypeInv'
  BY TypeStep
<1> QED
  BY <1>1, <1>2, PTL DEF Spec

(* The files and each call's locals keep their types; a sync's model holds what
   may be uploaded, and what is projected or uploaded was in the log. *)
THEOREM TypeCorrect == Spec => []TypeOK
  BY TypeInvAlways, TypeInvCorrect, PTL

-----------------------------------------------------------------------------
(* What a call knows of the pauses. *)

(* Every pause of s was started, and the two are not the same one. *)
Known(s) ==
    /\ \A k \in Kind : s[k] # None => s[k].id < nextPause
    /\ \A k, l \in Kind : s[k] # None /\ s[l] # None /\ s[k].id = s[l].id => k = l

(* A call that is about to write back what it settled made it of what it saw. *)
KnowsOK(l, j) ==
    /\ Known(j.saw)
    /\ \A k \in Kind : j.began[k] # None => j.began[k].id < nextPause
    /\ l = "save" => j.next = Settled(j.saw, j.now)

CallsOK ==
    /\ Known(state)
    /\ \A k \in Kind : intent[k] # None => intent[k].id < nextPause
    /\ \A p \in Proc : KnowsOK(pc[p], job[p])

(* The file holds what was asked for, as far as it is not over. *)
IntentOK ==
    \A k \in Kind : state[k] = intent[k] \/ (state[k] = None /\ ~Active(intent[k], clock))

(* A hook about to append saw the pauses that hold since it began, unless it caught
   an error before it read them. *)
SawThem(p) == pc[p] = "append" /\ ~job[p].caught => \A k \in Throughout(p) : Active(job[p].saw[k], job[p].now)

HooksOK == \A p \in Proc : SawThem(p)

LogOK == \A e \in log : e.caught \/ Obeyed(e)

PauseInv == CallsOK /\ (~raced => IntentOK /\ HooksOK /\ LogOK)

LEMMA ActiveEarlier ==
    ASSUME NEW x \in Pause \cup {None}, NEW now \in Nat, NEW later \in Nat, now <= later,
           Active(x, later)
    PROVE  Active(x, now)
  BY DEF Active, Pause, Forever

LEMMA NoneKnown == Known(NoPauses)
  BY NoJobType DEF Known

(* What is known stays known. *)
LEMMA KnowsLater ==
    ASSUME TypeInv, nextPause' \in Nat, nextPause <= nextPause', NEW l, NEW j \in JobType,
           KnowsOK(l, j)
    PROVE  KnowsOK(l, j)'
<1>1. \A k \in Kind : /\ j.saw[k] # None => j.saw[k].id \in Nat
                      /\ j.began[k] # None => j.began[k].id \in Nat
  BY DEF JobType, PauseState, Pause
<1>2. nextPause \in Nat
  BY Numbers
<1> QED
  BY <1>1, <1>2 DEF KnowsOK, Known

LEMMA CallsMove ==
    ASSUME TypeInv, CallsOK, NEW p \in Proc, NEW l \in Label, NEW j \in JobType, Moves(p, l, j),
           nextPause' \in Nat, nextPause <= nextPause', KnowsOK(l, j)
    PROVE  \A q \in Proc : KnowsOK(pc[q], job[q])'
<1>1. /\ pc'[p] = l /\ job'[p] = j
      /\ \A q \in Proc : q # p => pc'[q] = pc[q] /\ job'[q] = job[q]
  BY MovesOne DEF TypeInv
<1> SUFFICES ASSUME NEW q \in Proc PROVE KnowsOK(pc[q], job[q])'
  OBVIOUS
<1>2. KnowsOK(l, j)' /\ KnowsOK(pc[q], job[q]) /\ job[q] \in JobType
  BY KnowsLater, JobParts DEF CallsOK
<1>3. CASE q = p
  BY <1>1, <1>2, <1>3 DEF KnowsOK, Known
<1>4. CASE q # p
  <2>1. /\ \A k \in Kind : /\ job[q].saw[k] # None => job[q].saw[k].id \in Nat
                           /\ job[q].began[k] # None => job[q].began[k].id \in Nat
    BY <1>2 DEF JobType, PauseState, Pause
  <2> QED
    BY <1>1, <1>2, <1>4, <2>1, Numbers DEF KnowsOK, Known
<1> QED
  BY <1>3, <1>4

(* The files are left alone. *)
LEMMA StateKnown ==
    ASSUME CallsOK, UNCHANGED <<state, intent, nextPause>>
    PROVE  /\ Known(state)'
           /\ (\A k \in Kind : intent[k] # None => intent[k].id < nextPause)'
  BY DEF CallsOK, Known

LEMMA HooksMove ==
    ASSUME TypeInv, HooksOK, NEW p \in Proc, NEW l \in Label, NEW j, Moves(p, l, j), l # "append",
           clock' = clock,
           \A q \in Proc : \A k \in Kind :
             intent'[k] # intent[k] => ~Active(intent'[k], clock) \/ intent'[k] # job[q].began[k]
    PROVE  HooksOK'
<1>1. /\ pc'[p] = l /\ job'[p] = j
      /\ \A q \in Proc : q # p => pc'[q] = pc[q] /\ job'[q] = job[q]
  BY MovesOne DEF TypeInv
<1> SUFFICES ASSUME NEW q \in Proc, pc'[q] = "append", ~job'[q].caught, NEW k \in Throughout(q)'
             PROVE  Active(job[q].saw[k], job[q].now)'
  BY DEF HooksOK, SawThem
<1>2. q # p
  BY <1>1
<1>3. pc[q] = "append" /\ job'[q] = job[q]
  BY <1>1, <1>2
<1>4. k \in Throughout(q)
  BY <1>3 DEF Throughout
<1> QED
  BY <1>3, <1>4 DEF HooksOK, SawThem, Active

(* A hook whose write failed has read nothing, and says so. *)
LEMMA FailToSettleKeeps ==
    ASSUME TypeInv, PauseInv, NEW p \in Proc, FailToSettle(p)
    PROVE  PauseInv'
<1>1. UNCHANGED <<clock, fileVars, log, nextPause>>
  BY DEF FailToSettle
<1>2. PICK j \in JobType : /\ Moves(p, "append", j) /\ j.began = job[p].began
                           /\ j.saw = NoPauses /\ j.caught
  <2>1. ~FailToMark(p)
    BY DEF FailToMark, FailToSettle
  <2> QED
    BY <2>1, CaughtMoves
<1>3. /\ pc'[p] = "append" /\ job'[p] = j
      /\ \A q \in Proc : q # p => pc'[q] = pc[q] /\ job'[q] = job[q]
  BY <1>2, MovesOne DEF TypeInv
<1>4. KnowsOK("append", j)
  BY <1>2, NoneKnown DEF PauseInv, CallsOK, KnowsOK
<1>5. CallsOK'
  BY <1>1, <1>2, <1>4, CallsMove, StateKnown, Numbers DEF PauseInv, CallsOK, Label, fileVars
<1>6. ASSUME ~raced, NEW q \in Proc, pc'[q] = "append", ~job'[q].caught, NEW k \in Throughout(q)'
      PROVE  Active(job'[q].saw[k], job'[q].now)
  <2>1. q # p
    BY <1>2, <1>3, <1>6
  <2>2. pc[q] = "append" /\ k \in Throughout(q) /\ job'[q] = job[q]
    BY <1>1, <1>3, <1>6, <2>1 DEF Throughout, fileVars
  <2> QED
    BY <1>6, <2>2 DEF PauseInv, HooksOK, SawThem
<1>7. ~raced => HooksOK'
  BY <1>6 DEF HooksOK, SawThem, Active
<1>8. ~raced => IntentOK' /\ LogOK'
  BY <1>1 DEF PauseInv, IntentOK, LogOK, Active, fileVars
<1> QED
  BY <1>1, <1>5, <1>7, <1>8 DEF PauseInv, fileVars

(* A step of a call that leaves the files alone. *)
LEMMA PauseFrame ==
    ASSUME TypeInv, PauseInv, NEW p \in Proc, NEW l \in Label, NEW j \in JobType, Moves(p, l, j),
           l # "append", KnowsOK(l, j),
           UNCHANGED <<clock, state, intent, raced, nextPause>>,
           ~raced => LogOK'
    PROVE  PauseInv'
<1>1. CallsOK'
  BY CallsMove, StateKnown, Numbers DEF PauseInv, CallsOK
<1>2. ~raced => HooksOK'
  BY HooksMove DEF PauseInv
<1>3. ~raced => IntentOK'
  BY DEF PauseInv, IntentOK, Active
<1> QED
  BY <1>1, <1>2, <1>3 DEF PauseInv

(* A write that raced with no other one. *)
LEMMA NotRaced ==
    ASSUME NEW p, NEW next, WriteState(p, next), ~raced'
    PROVE  ~raced /\ (state = job[p].saw \/ state' = state)
  BY DEF WriteState

-----------------------------------------------------------------------------
(* The pauses are kept and obeyed: every step. *)

LEMMA PauseInit == Init => PauseInv
<1> SUFFICES ASSUME Init PROVE PauseInv
  OBVIOUS
<1>1. TypeInv
  BY TypeInit
<1>2. \A p \in Proc : pc[p] = "idle" /\ job[p].saw = NoPauses /\ job[p].began = NoPauses
  BY DEF Init, NoJob
<1>3. CallsOK
  BY <1>2, NoneKnown, NoJobType DEF Init, CallsOK, KnowsOK
<1> QED
  BY <1>2, <1>3 DEF Init, PauseInv, IntentOK, HooksOK, SawThem, LogOK

LEMMA SaveSettledKeeps ==
    ASSUME TypeInv, PauseInv, NEW p \in Proc, SaveSettled(p)
    PROVE  PauseInv'
<1>1. UNCHANGED <<clock, intent, logVars, syncVars, nextPause, mixed>>
      /\ WriteState(p, job[p].next)
  BY DEF SaveSettled
<1>2. PICK j \in JobType : /\ Moves(p, "read", j)
                           /\ j.saw = NoPauses /\ j.began = job[p].began
  BY SaveMoves
<1>3. pc[p] = "save" /\ state' = job[p].next /\ KnowsOK(pc[p], job[p])
  BY SaveMoves DEF PauseInv, CallsOK
<1>4. state' = Settled(job[p].saw, job[p].now) /\ Known(job[p].saw)
  BY <1>3 DEF KnowsOK
<1>5. KnowsOK("read", j)
  BY <1>2, <1>3, NoneKnown DEF KnowsOK
<1>6. Known(state)'
  BY <1>1, <1>4 DEF Known, Settled
<1>7. CallsOK'
  BY <1>1, <1>2, <1>5, <1>6, CallsMove, Numbers DEF PauseInv, CallsOK, Label
<1>8. ASSUME ~raced' PROVE IntentOK' /\ HooksOK' /\ LogOK'
  <2>1. ~raced /\ (state = job[p].saw \/ state' = state)
    BY <1>1, <1>8, NotRaced
  <2>2. HooksOK'
    BY <1>1, <1>2, <2>1, HooksMove DEF PauseInv, Label
  <2>3. ASSUME NEW k \in Kind
        PROVE  state'[k] = intent'[k] \/ (state'[k] = None /\ ~Active(intent'[k], clock'))
    <3>1. state[k] = intent[k] \/ (state[k] = None /\ ~Active(intent[k], clock))
      BY <2>1 DEF PauseInv, IntentOK
    <3>2. CASE state' = state
      BY <1>1, <3>1, <3>2
    <3>3. CASE state = job[p].saw /\ state[k] # None /\ ~Active(state[k], job[p].now)
      <4>1. state'[k] = None
        BY <1>4, <3>3 DEF Settled, Expired
      <4>2. job[p].now <= clock /\ job[p].now \in Nat /\ clock \in Nat
            /\ state[k] \in Pause \cup {None}
        BY <1>3, JobParts, Numbers DEF JobOK, TypeInv, FilesOK, PauseState
      <4>3. ~Active(state[k], clock)
        BY <3>3, <4>2, ActiveEarlier
      <4> QED
        BY <1>1, <3>1, <3>3, <4>1, <4>3
    <3>4. CASE state = job[p].saw /\ ~(state[k] # None /\ ~Active(state[k], job[p].now))
      <4>1. state'[k] = state[k]
        BY <1>4, <3>4 DEF Settled, Expired
      <4> QED
        BY <1>1, <3>1, <4>1
    <3> QED
      BY <2>1, <3>2, <3>3, <3>4
  <2>4. IntentOK'
    BY <2>3 DEF IntentOK, Active
  <2>5. LogOK'
    BY <1>1, <2>1 DEF PauseInv, LogOK, logVars
  <2> QED
    BY <2>2, <2>4, <2>5
<1> QED
  BY <1>7, <1>8 DEF PauseInv

LEMMA StartPauseKeeps ==
    ASSUME TypeInv, PauseInv, NEW p \in Proc, StartPause(p)
    PROVE  PauseInv' /\ (~raced' => state = job[p].saw)
<1> DEFINE k == job[p].kind
<1>1. UNCHANGED <<clock, logVars, syncVars, mixed>>
      /\ WriteState(p, [job[p].saw EXCEPT ![k] = New(p)])
  BY DEF StartPause, New
<1>2. PICK j \in JobType : Moves(p, "mark", j) /\ j.saw = NoPauses /\ j.began = NoPauses
  BY StartMoves
<1>3. /\ nextPause' = nextPause + 1 /\ nextPause' \in Nat /\ nextPause <= nextPause'
      /\ state' = [job[p].saw EXCEPT ![k] = New(p)] /\ intent' = [intent EXCEPT ![k] = New(p)]
      /\ k \in Kind /\ job[p].saw \in PauseState /\ state \in PauseState /\ intent \in PauseState
      /\ New(p).id = nextPause /\ New(p) # None
  BY StartMoves, JobParts, Numbers, NoPause DEF New, TypeInv, FilesOK, Pause, Forever
<1>4. KnowsOK(pc[p], job[p]) /\ Known(job[p].saw) /\ Known(state)
  BY DEF PauseInv, CallsOK, KnowsOK
<1>5. KnowsOK("mark", j)
  BY <1>2, NoneKnown, NoJobType DEF KnowsOK
<1>6. \A l \in Kind : /\ state'[l] = IF l = k THEN New(p) ELSE job[p].saw[l]
                      /\ intent'[l] = IF l = k THEN New(p) ELSE intent[l]
  BY <1>3 DEF PauseState
<1>7. \A l \in Kind : /\ job[p].saw[l] # None => job[p].saw[l].id \in Nat
                      /\ intent[l] # None => intent[l].id \in Nat
  BY <1>3 DEF PauseState, Pause
<1> HIDE DEF k
<1>8. Known(state)'
  BY <1>3, <1>4, <1>6, <1>7, Numbers DEF Known
<1>9. (\A l \in Kind : intent[l] # None => intent[l].id < nextPause)'
  BY <1>3, <1>6, <1>7, Numbers DEF PauseInv, CallsOK
<1>10. CallsOK'
  BY <1>2, <1>3, <1>5, <1>8, <1>9, CallsMove DEF PauseInv, CallsOK, Label
<1>11. ASSUME ~raced' PROVE state = job[p].saw /\ IntentOK' /\ HooksOK' /\ LogOK'
  <2>1. ~raced /\ (state = job[p].saw \/ state' = state)
    BY <1>1, <1>11, NotRaced
  <2>2. state' # state
    BY <1>3, <1>4, <1>6, Numbers DEF Known
  <2>3. state = job[p].saw
    BY <2>1, <2>2
  <2>4. HooksOK'
    <3>1. ASSUME NEW q \in Proc, NEW l \in Kind, intent'[l] # intent[l]
          PROVE  intent'[l] # job[q].began[l]
      <4>1. intent'[l] = New(p)
        BY <1>6, <3>1
      <4>2. job[q].began[l] # None => job[q].began[l].id < nextPause
        BY DEF PauseInv, CallsOK, KnowsOK
      <4> QED
        BY <1>3, <4>1, <4>2, Numbers
    <3> QED
      BY <1>1, <1>2, <2>1, <3>1, HooksMove DEF PauseInv, Label
  <2>5. IntentOK'
    <3>1. ASSUME NEW l \in Kind
          PROVE  state'[l] = intent'[l] \/ (state'[l] = None /\ ~Active(intent'[l], clock'))
      BY <1>1, <1>6, <2>1, <2>3 DEF PauseInv, IntentOK
    <3> QED
      BY <3>1 DEF IntentOK, Active
  <2>6. LogOK'
    BY <1>1, <2>1 DEF PauseInv, LogOK, logVars
  <2> QED
    BY <2>3, <2>4, <2>5, <2>6
<1> QED
  BY <1>10, <1>11 DEF PauseInv

LEMMA EndPauseKeeps ==
    ASSUME TypeInv, PauseInv, NEW p \in Proc, EndPause(p)
    PROVE  PauseInv'
<1> DEFINE k == job[p].kind
<1>1. UNCHANGED <<clock, logVars, syncVars, nextPause, mixed>>
      /\ WriteState(p, [job[p].saw EXCEPT ![k] = None])
  BY DEF EndPause
<1>2. PICK j \in JobType : Moves(p, "mark", j) /\ j.saw = NoPauses /\ j.began = NoPauses
  BY EndMoves
<1>3. /\ state' = [job[p].saw EXCEPT ![k] = None] /\ intent' = [intent EXCEPT ![k] = None]
      /\ k \in Kind /\ job[p].saw \in PauseState /\ state \in PauseState /\ intent \in PauseState
  BY EndMoves, JobParts DEF TypeInv, FilesOK
<1>4. KnowsOK(pc[p], job[p]) /\ Known(job[p].saw) /\ Known(state)
  BY DEF PauseInv, CallsOK, KnowsOK
<1>5. KnowsOK("mark", j)
  BY <1>2, NoneKnown, NoJobType DEF KnowsOK
<1>6. \A l \in Kind : /\ state'[l] = IF l = k THEN None ELSE job[p].saw[l]
                      /\ intent'[l] = IF l = k THEN None ELSE intent[l]
  BY <1>3 DEF PauseState
<1> HIDE DEF k
<1>7. Known(state)'
  BY <1>1, <1>4, <1>6 DEF Known
<1>8. (\A l \in Kind : intent[l] # None => intent[l].id < nextPause)'
  BY <1>1, <1>6 DEF PauseInv, CallsOK
<1>9. CallsOK'
  BY <1>1, <1>2, <1>5, <1>7, <1>8, CallsMove, Numbers DEF PauseInv, CallsOK, Label
<1>10. ASSUME ~raced' PROVE IntentOK' /\ HooksOK' /\ LogOK'
  <2>1. ~raced /\ (state = job[p].saw \/ state' = state)
    BY <1>1, <1>10, NotRaced
  <2>2. HooksOK'
    <3>1. \A l \in Kind : intent'[l] # intent[l] => ~Active(intent'[l], clock)
      BY <1>6 DEF Active
    <3> QED
      BY <1>1, <1>2, <2>1, <3>1, HooksMove DEF PauseInv, Label
  <2>3. ASSUME NEW l \in Kind
        PROVE  state'[l] = intent'[l] \/ (state'[l] = None /\ ~Active(intent'[l], clock'))
    BY <1>1, <1>6, <2>1 DEF PauseInv, IntentOK
  <2>4. IntentOK'
    BY <2>3 DEF IntentOK, Active
  <2>5. LogOK'
    BY <1>1, <2>1 DEF PauseInv, LogOK, logVars
  <2> QED
    BY <2>2, <2>4, <2>5
<1> QED
  BY <1>9, <1>10 DEF PauseInv

LEMMA ReadBeforeWriteKeeps ==
    ASSUME TypeInv, PauseInv, NEW p \in Proc, ReadBeforeWrite(p) \/ FailToMark(p)
    PROVE  PauseInv'
<1>1. UNCHANGED <<clock, fileVars, log, syncVars, nextPause>>
  BY DEF ReadBeforeWrite, FailToMark
<1>2. PICK j \in JobType : /\ Moves(p, "append", j) /\ JobOK("append", j, clock)
                           /\ j.saw = state /\ j.now = job[p].now /\ j.began = job[p].began
  <2>1. CASE ReadBeforeWrite(p)
    BY <2>1, WriteMoves
  <2>2. CASE FailToMark(p)
    <3>1. ~FailToSettle(p)
      BY <2>2 DEF FailToMark, FailToSettle
    <3> QED
      BY <2>2, <3>1, CaughtMoves
  <2> QED
    BY <2>1, <2>2
<1>3. /\ pc'[p] = "append" /\ job'[p] = j
      /\ \A q \in Proc : q # p => pc'[q] = pc[q] /\ job'[q] = job[q]
  BY <1>2, MovesOne DEF TypeInv
<1>4. KnowsOK("append", j)
  BY <1>2 DEF PauseInv, CallsOK, KnowsOK
<1>5. CallsOK'
  BY <1>1, <1>2, <1>4, CallsMove, StateKnown, Numbers DEF PauseInv, CallsOK, Label, fileVars
<1>6. ASSUME ~raced, NEW q \in Proc, pc'[q] = "append", ~job'[q].caught, NEW k \in Throughout(q)'
      PROVE  Active(job'[q].saw[k], job'[q].now)
  <2>1. CASE q # p
    <3>1. pc[q] = "append" /\ k \in Throughout(q) /\ job'[q] = job[q]
      BY <1>1, <1>3, <1>6, <2>1 DEF Throughout, fileVars
    <3> QED
      BY <1>6, <3>1 DEF PauseInv, HooksOK, SawThem
  <2>2. CASE q = p
    <3>1. k \in Kind /\ Active(intent[k], clock)
      BY <1>1, <1>6 DEF Throughout, fileVars
    <3>2. state[k] = intent[k]
      BY <1>6, <3>1 DEF PauseInv, IntentOK
    <3>3. j.now <= clock /\ j.now \in Nat /\ clock \in Nat /\ state[k] \in Pause \cup {None}
      BY <1>2, <3>1, Numbers DEF JobOK, JobType, TypeInv, FilesOK, PauseState
    <3>4. Active(state[k], j.now)
      BY <3>1, <3>2, <3>3, ActiveEarlier
    <3> QED
      BY <1>2, <1>3, <2>2, <3>4
  <2> QED
    BY <2>1, <2>2
<1>7. ~raced => HooksOK'
  BY <1>6 DEF HooksOK, SawThem, Active
<1>8. ~raced => IntentOK' /\ LogOK'
  BY <1>1 DEF PauseInv, IntentOK, LogOK, Active, fileVars
<1> QED
  BY <1>1, <1>5, <1>7, <1>8 DEF PauseInv, fileVars

LEMMA AppendEventKeeps ==
    ASSUME TypeInv, PauseInv, NEW p \in Proc, AppendEvent(p)
    PROVE  PauseInv'
<1>1. UNCHANGED <<clock, fileVars, localSeen, syncVars, nextPause, mixed>>
  BY DEF AppendEvent
<1>2. PICK l \in {"idle", "push"}, j \in JobType :
        /\ Moves(p, l, j) /\ j.saw = NoPauses /\ j.began = NoPauses
        /\ \/ log' = log
           \/ ~Active(job[p].saw.record, job[p].now) /\ log' = log \cup {NewEvent(p)}
  BY AppendMoves
<1>3. KnowsOK(l, j)
  BY <1>2, NoneKnown, NoJobType DEF KnowsOK
<1>4. ASSUME ~raced PROVE LogOK'
  <2>1. CASE log' = log
    BY <1>4, <2>1 DEF PauseInv, LogOK
  <2>2. CASE ~Active(job[p].saw.record, job[p].now) /\ log' = log \cup {NewEvent(p)}
    <3>1. ~job[p].caught => \A k \in Throughout(p) : Active(job[p].saw[k], job[p].now)
      BY <1>4, AppendMoves DEF PauseInv, HooksOK, SawThem
    <3>2. NewEvent(p).caught \/ Obeyed(NewEvent(p))
      BY <2>2, <3>1 DEF Obeyed, NewEvent
    <3> QED
      BY <1>4, <2>2, <3>2 DEF PauseInv, LogOK
  <2> QED
    BY <1>2, <2>1, <2>2
<1> QED
  BY <1>1, <1>2, <1>3, <1>4, PauseFrame DEF fileVars, Label

LEMMA PauseStep == TypeInv /\ PauseInv /\ [Next]_vars => PauseInv'
<1> SUFFICES ASSUME TypeInv, PauseInv, [Next]_vars PROVE PauseInv'
  OBVIOUS
<1> USE DEF Label
<1>1. ASSUME NEW p \in Proc, NEW op \in Op, NEW k \in Kind, NEW until \in {clock + 1, Forever},
             Call(p, op, k, until)
      PROVE  PauseInv'
  <2>1. UNCHANGED <<clock, fileVars, logVars, syncVars, nextPause, mixed>>
    BY <1>1 DEF Call
  <2>2. PICK j \in JobType : /\ Moves(p, "settle", j) /\ j.saw = NoPauses
                             /\ j.began = intent \/ j.began = NoPauses
    BY <1>1, CallMoves
  <2>3. KnowsOK("settle", j)
    BY <2>2, NoneKnown, NoJobType DEF KnowsOK, PauseInv, CallsOK
  <2> QED
    BY <2>1, <2>2, <2>3, PauseFrame DEF fileVars, logVars, PauseInv, LogOK
<1>2. ASSUME NEW p \in Proc, Step(p) PROVE PauseInv'
  <2>1. KnowsOK(pc[p], job[p]) /\ KnowsOK("idle", NoJob)
    BY NoneKnown, NoJobType DEF PauseInv, CallsOK, KnowsOK, NoJob
  <2>2. CASE Settle(p)
    <3>1. UNCHANGED <<clock, fileVars, logVars, syncVars, nextPause, mixed>>
      BY <2>2 DEF Settle
    <3>2. \E j \in JobType, l \in {"read", "save"} : Moves(p, l, j) /\ KnowsOK(l, j)
      <4>1. PICK j \in JobType :
              /\ j.now = job[p].now /\ j.began = job[p].began
              /\ \/ j = job[p] /\ Moves(p, "read", j)
                 \/ Moves(p, "save", j) /\ j.saw = state /\ j.next = Settled(state, j.now)
        BY <2>2, SettleMoves
      <4> QED
        BY <2>1, <4>1 DEF KnowsOK, PauseInv, CallsOK
    <3> QED
      BY <3>1, <3>2, PauseFrame DEF fileVars, logVars, PauseInv, LogOK
  <2>3. CASE ReadState(p)
    <3>1. UNCHANGED <<clock, fileVars, logVars, syncVars, nextPause, mixed>>
      BY <2>3 DEF ReadState
    <3>2. \E j \in JobType, l \in {"mark", "commit"} : Moves(p, l, j) /\ KnowsOK(l, j)
      <4>1. PICK j \in JobType :
              /\ j.now = job[p].now /\ j.began = job[p].began
              /\ \/ j = job[p] /\ Moves(p, "mark", j)
                 \/ Moves(p, "commit", j) /\ j.saw = state
        BY <2>3, ReadMoves
      <4> QED
        BY <2>1, <4>1 DEF KnowsOK, PauseInv, CallsOK
    <3> QED
      BY <3>1, <3>2, PauseFrame DEF fileVars, logVars, PauseInv, LogOK
  <2>4. CASE AppendMarkers(p) \/ Push(p) \/ Stop(p)
    <3>1. UNCHANGED <<clock, fileVars, log, nextPause>> /\ Moves(p, "idle", NoJob)
          /\ NoJob \in JobType
      BY <2>4, DoneMoves DEF AppendMarkers, Push, Stop, logVars
    <3> QED
      BY <2>1, <3>1, PauseFrame DEF fileVars, PauseInv, LogOK
  <2> QED
    BY <1>2, <2>2, <2>3, <2>4, SaveSettledKeeps, StartPauseKeeps, EndPauseKeeps,
       ReadBeforeWriteKeeps, AppendEventKeeps, FailToSettleKeeps DEF Step
<1>3. CASE SyncBegin \/ SyncReplay \/ SyncSend \/ DashboardProjects \/ UNCHANGED vars
  <2>1. UNCHANGED <<clock, state, intent, raced, log, pc, job, nextPause>>
    BY <1>3 DEF SyncBegin, SyncReplay, SyncSend, DashboardProjects, logVars, fileVars, vars
  <2> QED
    BY <2>1 DEF PauseInv, CallsOK, KnowsOK, Known, IntentOK, HooksOK, SawThem, LogOK,
                Throughout, Active
<1>4. CASE Tick
  <2>1. UNCHANGED <<state, intent, raced, log, pc, job, nextPause>> /\ clock' = clock + 1
    BY <1>4 DEF Tick, fileVars, logVars
  <2>2. \A k \in Kind : Active(intent[k], clock') => Active(intent[k], clock)
    <3> SUFFICES ASSUME NEW k \in Kind, Active(intent[k], clock') PROVE Active(intent[k], clock)
      OBVIOUS
    <3>1. intent[k] \in Pause \cup {None} /\ clock \in Nat /\ clock' \in Nat /\ clock <= clock'
      BY <2>1, Numbers DEF TypeInv, FilesOK, PauseState
    <3> QED
      BY <3>1, ActiveEarlier
  <2>3. CallsOK' /\ (~raced => LogOK')
    BY <2>1 DEF PauseInv, CallsOK, KnowsOK, Known, LogOK
  <2>4. ~raced => IntentOK'
    BY <2>1, <2>2 DEF PauseInv, IntentOK, Active
  <2>5. ~raced => HooksOK'
    BY <2>1, <2>2 DEF PauseInv, HooksOK, SawThem, Throughout, Active
  <2> QED
    BY <2>1, <2>3, <2>4, <2>5 DEF PauseInv
<1> QED
  BY <1>1, <1>2, <1>3, <1>4, NextCases

LEMMA PauseInvAlways == Spec => [](TypeInv /\ PauseInv)
<1>1. Init => TypeInv /\ PauseInv
  BY TypeInit, PauseInit
<1>2. TypeInv /\ PauseInv /\ [Next]_vars => (TypeInv /\ PauseInv)'
  BY TypeStep, PauseStep
<1> QED
  BY <1>1, <1>2, PTL DEF Spec

(* A pause lasts until a person resumes it, replaces it or its time runs out,
   unless a write of the unguarded file undid another. *)
THEOREM IntentKeptAlways == Spec => []IntentKept
<1>1. PauseInv => IntentKept
  BY DEF PauseInv, IntentOK, IntentKept
<1> QED
  BY <1>1, PauseInvAlways, PTL

(* An event whose hook began under a pause that still holds when it is written
   is not there, or stays local, unless the hook caught an error when it settled
   the pauses. *)
THEOREM PauseObeyedAlways == Spec => []PauseObeyed
<1>1. PauseInv => PauseObeyed
  BY DEF PauseInv, LogOK, PauseObeyed
<1> QED
  BY <1>1, PauseInvAlways, PTL

-----------------------------------------------------------------------------
(* What was recorded under a sync pause stays local. *)

(* An event that will be flagged local_only when it is appended. *)
WillBeLocal(p) ==
    pc[p] = "append" /\ Active(job[p].saw.sync, job[p].now) /\ ~Active(job[p].saw.record, job[p].now)

(* What is about to be pushed is not local. *)
PushOK(l, j) ==
    l = "push" => j.now <= Cardinality(log) /\ \A e \in log : e.id = j.now => ~e.local

NumbersOK ==
    /\ \A e \in log : e.id <= Cardinality(log)
    /\ \A p \in Proc : PushOK(pc[p], job[p])

(* Nothing local is in the log, or on its way to it, before the flag. *)
FlagOK == ~localSeen /\ ~mixed => (\A e \in log : ~e.local) /\ (\A p \in Proc : ~WillBeLocal(p))

(* A sync of the shared model has no flag beside it. *)
SharedOK ==
    ~mixed => /\ sync.pc # "idle" /\ ~sync.dedicated => ~localSeen
              /\ \A e \in uploaded : ~e.local
              /\ \A e \in shared : ~e.local

LocalInv == NumbersOK /\ FlagOK /\ SharedOK

LEMMA LocalInit == Init => LocalInv
<1> SUFFICES ASSUME Init PROVE LocalInv
  OBVIOUS
<1>1. \A p \in Proc : pc[p] = "idle"
  BY DEF Init
<1>2. NumbersOK
  BY <1>1 DEF Init, NumbersOK, PushOK
<1>3. FlagOK
  BY <1>1 DEF Init, FlagOK, WillBeLocal
<1>4. SharedOK
  BY DEF Init, SharedOK, NoSync
<1> QED
  BY <1>2, <1>3, <1>4 DEF LocalInv

(* A step of a call that appends no event and pushes none. *)
LEMMA LocalFrame ==
    ASSUME TypeInv, LocalInv, NEW p \in Proc, NEW l \in Label \ {"append", "push"}, NEW j,
           Moves(p, l, j), UNCHANGED <<log, localSeen, shared, sync, uploaded, mixed>>
    PROVE  LocalInv'
<1>1. /\ pc'[p] = l /\ job'[p] = j
      /\ \A q \in Proc : q # p => pc'[q] = pc[q] /\ job'[q] = job[q]
  BY MovesOne DEF TypeInv
<1>2. NumbersOK'
  BY <1>1 DEF LocalInv, NumbersOK, PushOK
<1>3. FlagOK'
  BY <1>1 DEF LocalInv, FlagOK, WillBeLocal, Active
<1>4. SharedOK'
  BY DEF LocalInv, SharedOK
<1> QED
  BY <1>2, <1>3, <1>4 DEF LocalInv

LEMMA ReadBeforeWriteLocal ==
    ASSUME TypeInv, LocalInv, NEW p \in Proc, ReadBeforeWrite(p)
    PROVE  LocalInv'
<1>1. UNCHANGED <<log, shared, sync, uploaded>>
      /\ localSeen' = (localSeen \/ (Active(state.sync, job[p].now) /\ ~Active(state.record, job[p].now)))
      /\ mixed' = (mixed \/ (localSeen' /\ ~localSeen /\ sync.pc # "idle"))
  BY DEF ReadBeforeWrite, syncVars
<1>2. PICK j \in JobType : Moves(p, "append", j) /\ j.saw = state /\ j.now = job[p].now
  BY WriteMoves
<1>3. /\ pc'[p] = "append" /\ job'[p] = j
      /\ \A q \in Proc : q # p => pc'[q] = pc[q] /\ job'[q] = job[q]
  BY <1>2, MovesOne DEF TypeInv
<1>4. NumbersOK'
  BY <1>1, <1>3 DEF LocalInv, NumbersOK, PushOK
<1>5. FlagOK'
  <2> SUFFICES ASSUME ~localSeen', ~mixed'
               PROVE  (\A e \in log' : ~e.local) /\ \A q \in Proc : ~WillBeLocal(q)'
    BY DEF FlagOK
  <2>1. ~localSeen /\ ~mixed /\ ~(Active(state.sync, job[p].now) /\ ~Active(state.record, job[p].now))
    BY <1>1
  <2>2. \A e \in log' : ~e.local
    BY <1>1, <2>1 DEF LocalInv, FlagOK
  <2>3. \A q \in Proc : ~WillBeLocal(q)'
    BY <1>2, <1>3, <2>1 DEF LocalInv, FlagOK, WillBeLocal, Active
  <2> QED
    BY <2>2, <2>3
<1>6. SharedOK'
  <2> SUFFICES ASSUME ~mixed' PROVE SharedOK'
    BY DEF SharedOK
  <2>1. ~mixed /\ ~(localSeen' /\ ~localSeen /\ sync.pc # "idle")
    BY <1>1
  <2> QED
    BY <1>1, <2>1 DEF LocalInv, SharedOK
<1> QED
  BY <1>4, <1>5, <1>6 DEF LocalInv

LEMMA AppendEventLocal ==
    ASSUME TypeInv, LocalInv, NEW p \in Proc, AppendEvent(p)
    PROVE  LocalInv'
<1>1. UNCHANGED <<localSeen, shared, sync, uploaded, mixed>>
  BY DEF AppendEvent, syncVars
<1>2. PICK l \in {"idle", "push"}, j \in JobType :
        /\ Moves(p, l, j)
        /\ \/ log' = log /\ l = "idle"
           \/ /\ ~Active(job[p].saw.record, job[p].now)
              /\ log' = log \cup {NewEvent(p)}
              /\ l = "push" => ~NewEvent(p).local
              /\ l = "push" => j.now = Cardinality(log) + 1
  BY AppendMoves
<1>3. CASE log' = log /\ l = "idle"
  BY <1>1, <1>2, <1>3, LocalFrame DEF Label
<1>4. CASE /\ ~Active(job[p].saw.record, job[p].now)
           /\ log' = log \cup {NewEvent(p)}
           /\ l = "push" => ~NewEvent(p).local
           /\ l = "push" => j.now = Cardinality(log) + 1
  <2>1. /\ pc'[p] = l /\ job'[p] = j
        /\ \A q \in Proc : q # p => pc'[q] = pc[q] /\ job'[q] = job[q]
    BY <1>2, MovesOne DEF TypeInv
  <2>2. NewEvent(p).id = Cardinality(log) + 1 /\ Cardinality(log) \in Nat
        /\ \A e \in log : e.id \in Nat
    BY Numbers DEF NewEvent, TypeInv, FilesOK, Event
  <2>3. NewEvent(p) \notin log
    BY <2>2 DEF LocalInv, NumbersOK
  <2>4. Cardinality(log') = Cardinality(log) + 1
    BY <1>4, <2>3, FS_AddElement DEF TypeInv, FilesOK
  <2>5. NumbersOK'
    <3>1. \A e \in log' : e.id <= Cardinality(log')
      BY <1>4, <2>2, <2>4 DEF LocalInv, NumbersOK
    <3>2. ASSUME NEW q \in Proc, pc'[q] = "push"
          PROVE  job'[q].now <= Cardinality(log') /\ \A e \in log' : e.id = job'[q].now => ~e.local
      <4>1. CASE q = p
        <5>1. l = "push" /\ job'[q] = j
          BY <2>1, <3>2, <4>1
        <5>2. \A e \in log : e.id # j.now
          BY <1>4, <2>2, <5>1 DEF LocalInv, NumbersOK
        <5> QED
          BY <1>4, <2>2, <2>4, <5>1, <5>2
      <4>2. CASE q # p
        <5>1. pc[q] = "push" /\ job'[q] = job[q] /\ PushOK(pc[q], job[q])
          BY <2>1, <3>2, <4>2 DEF LocalInv, NumbersOK
        <5>2. job[q].now <= Cardinality(log) /\ job[q].now \in Nat
          BY <5>1, JobParts DEF PushOK
        <5> QED
          BY <1>4, <2>2, <2>4, <5>1, <5>2 DEF PushOK
      <4> QED
        BY <4>1, <4>2
    <3> QED
      BY <3>1, <3>2 DEF NumbersOK, PushOK
  <2>6. FlagOK'
    <3> SUFFICES ASSUME ~localSeen, ~mixed PROVE (\A e \in log' : ~e.local) /\ \A q \in Proc : ~WillBeLocal(q)'
      BY <1>1 DEF FlagOK
    <3>1. ~NewEvent(p).local
      BY <1>4, AppendMoves DEF LocalInv, FlagOK, WillBeLocal, NewEvent
    <3>2. \A e \in log' : ~e.local
      BY <1>4, <3>1 DEF LocalInv, FlagOK
    <3>3. \A q \in Proc : ~WillBeLocal(q)'
      BY <2>1 DEF LocalInv, FlagOK, WillBeLocal, Active
    <3> QED
      BY <3>2, <3>3
  <2>7. SharedOK'
    BY <1>1 DEF LocalInv, SharedOK
  <2> QED
    BY <2>5, <2>6, <2>7 DEF LocalInv
<1> QED
  BY <1>2, <1>3, <1>4

LEMMA CaughtLocal ==
    ASSUME TypeInv, LocalInv, NEW p \in Proc, FailToSettle(p) \/ FailToMark(p)
    PROVE  LocalInv'
<1>1. UNCHANGED <<log, localSeen, shared, sync, uploaded>> /\ (mixed => mixed')
  BY DEF FailToSettle, FailToMark, syncVars
<1>2. PICK j \in JobType : /\ Moves(p, "append", j)
                           /\ (FailToSettle(p) /\ j.saw = NoPauses) \/ FailToMark(p)
  BY CaughtMoves
<1>3. /\ pc'[p] = "append" /\ job'[p] = j
      /\ \A q \in Proc : q # p => pc'[q] = pc[q] /\ job'[q] = job[q]
  BY <1>2, MovesOne DEF TypeInv
<1>4. NumbersOK'
  BY <1>1, <1>3 DEF LocalInv, NumbersOK, PushOK
<1>5. CASE FailToMark(p)
  <2>1. mixed'
    BY <1>5 DEF FailToMark
  <2> QED
    BY <1>4, <2>1 DEF LocalInv, FlagOK, SharedOK
<1>6. CASE FailToSettle(p) /\ j.saw = NoPauses
  <2>1. ~WillBeLocal(p)'
    BY <1>3, <1>6, NoJobType DEF WillBeLocal, Active, Kind
  <2>2. \A q \in Proc : q # p => (WillBeLocal(q)' <=> WillBeLocal(q))
    BY <1>3 DEF WillBeLocal, Active
  <2>3. mixed' = mixed
    BY <1>6 DEF FailToSettle
  <2>4. FlagOK' /\ SharedOK'
    BY <1>1, <2>1, <2>2, <2>3 DEF LocalInv, FlagOK, SharedOK
  <2> QED
    BY <1>4, <2>4 DEF LocalInv
<1> QED
  BY <1>2, <1>5, <1>6

LEMMA LocalStep == TypeInv /\ LocalInv /\ [Next]_vars => LocalInv'
<1> SUFFICES ASSUME TypeInv, LocalInv, [Next]_vars PROVE LocalInv'
  OBVIOUS
<1>1. ASSUME NEW p \in Proc, NEW op \in Op, NEW k \in Kind, NEW until \in {clock + 1, Forever},
             Call(p, op, k, until)
      PROVE  LocalInv'
  <2>1. UNCHANGED <<clock, fileVars, logVars, syncVars, nextPause, mixed>>
    BY <1>1 DEF Call
  <2> QED
    BY <1>1, <2>1, CallMoves, LocalFrame DEF logVars, syncVars, Label
<1>2. ASSUME NEW p \in Proc, Step(p) PROVE LocalInv'
  <2>1. CASE Settle(p) \/ SaveSettled(p) \/ ReadState(p) \/ StartPause(p) \/ EndPause(p)
             \/ AppendMarkers(p) \/ Stop(p)
    <3>1. UNCHANGED <<log, localSeen, shared, sync, uploaded, mixed>>
      BY <2>1 DEF Settle, SaveSettled, ReadState, StartPause, EndPause, AppendMarkers, Stop,
                  logVars, syncVars
    <3>2. \E l \in Label \ {"append", "push"}, j \in JobType : Moves(p, l, j)
      <4>1. CASE AppendMarkers(p) \/ Stop(p)
        BY <4>1, DoneMoves DEF AppendMarkers, Stop, Label
      <4> QED
        BY <2>1, <4>1, SettleMoves, SaveMoves, ReadMoves, StartMoves, EndMoves DEF Label
    <3> QED
      BY <3>1, <3>2, LocalFrame
  <2>2. CASE Push(p)
    <3>1. /\ UNCHANGED <<log, localSeen, shared, sync, mixed>>
          /\ pc[p] = "push" /\ uploaded' \subseteq uploaded \cup {e \in log : e.id = job[p].now}
          /\ Moves(p, "idle", NoJob)
      BY <2>2, DoneMoves DEF Push, logVars
    <3>2. /\ pc'[p] = "idle"
          /\ \A q \in Proc : q # p => pc'[q] = pc[q] /\ job'[q] = job[q]
      BY <3>1, MovesOne DEF TypeInv
    <3>3. \A e \in log : e.id = job[p].now => ~e.local
      BY <3>1 DEF LocalInv, NumbersOK, PushOK
    <3>4. NumbersOK' /\ FlagOK'
      BY <3>1, <3>2 DEF LocalInv, NumbersOK, PushOK, FlagOK, WillBeLocal, Active
    <3>5. SharedOK'
      BY <3>1, <3>3 DEF LocalInv, SharedOK
    <3> QED
      BY <3>4, <3>5 DEF LocalInv
  <2> QED
    BY <1>2, <2>1, <2>2, ReadBeforeWriteLocal, AppendEventLocal, CaughtLocal DEF Step
<1>3. CASE SyncBegin \/ SyncReplay \/ SyncSend \/ DashboardProjects
  <2>1. UNCHANGED <<log, pc, job, mixed>> /\ (~localSeen' => ~localSeen)
    <3>1. UNCHANGED <<log, pc, job, mixed>>
      BY <1>3 DEF SyncBegin, SyncReplay, SyncSend, DashboardProjects, logVars
    <3>2. ~localSeen' => ~localSeen
      BY <1>3, Zenon DEF SyncBegin, SyncReplay, SyncSend, DashboardProjects, logVars
    <3> QED
      BY <3>1, <3>2
  <2>2. NumbersOK' /\ FlagOK'
    BY <2>1 DEF LocalInv, NumbersOK, PushOK, FlagOK, WillBeLocal, Active
  <2>3. ASSUME ~mixed
        PROVE  /\ sync'.pc # "idle" /\ ~sync'.dedicated => ~localSeen'
               /\ \A e \in uploaded' : ~e.local
               /\ \A e \in shared' : ~e.local
    <3>1. /\ sync.pc # "idle" /\ ~sync.dedicated => ~localSeen
          /\ \A e \in uploaded : ~e.local
          /\ \A e \in shared : ~e.local
      BY <2>3 DEF LocalInv, SharedOK
    <3>2. CASE SyncBegin
      BY <3>1, <3>2 DEF SyncBegin, logVars
    <3>3. CASE SyncReplay
      <4>1. sync'.dedicated = (sync.dedicated \/ (~sync.dedicated /\ Uploadable # log))
            /\ localSeen' = (localSeen \/ (~sync.dedicated /\ Uploadable # log))
            /\ shared' \subseteq shared \cup Uploadable /\ uploaded' = uploaded
            /\ sync.pc = "replay"
        BY <3>3 DEF SyncReplay
      <4> QED
        BY <3>1, <4>1 DEF Uploadable
    <3>4. CASE SyncSend
      <4>1. \A e \in sync.rows : ~e.local
        BY DEF TypeInv, FilesOK
      <4> QED
        BY <3>1, <3>4, <4>1 DEF SyncSend, NoSync
    <3>5. CASE DashboardProjects
      <4>1. ~localSeen /\ sync' = sync /\ localSeen' = localSeen /\ shared' = log
            /\ uploaded' = uploaded
        BY <3>1, <3>5 DEF DashboardProjects, logVars
      <4> QED
        BY <2>3, <3>1, <4>1 DEF LocalInv, FlagOK
    <3> QED
      BY <1>3, <3>2, <3>3, <3>4, <3>5
  <2>4. SharedOK'
    BY <2>1, <2>3 DEF SharedOK
  <2> QED
    BY <2>2, <2>4 DEF LocalInv
<1>4. CASE Tick \/ UNCHANGED vars
  <2>1. UNCHANGED <<log, localSeen, pc, job, shared, sync, uploaded, mixed>>
    BY <1>4 DEF Tick, vars, logVars, syncVars
  <2> QED
    BY <2>1 DEF LocalInv, NumbersOK, PushOK, FlagOK, WillBeLocal, Active, SharedOK
<1> QED
  BY <1>1, <1>2, <1>3, <1>4, NextCases

(* What was recorded under a sync pause never leaves the machine, unless the
   first such event of this home was written while a sync was uploading from
   the model it shares with the dashboard, or with no flag for a sync to see. *)
THEOREM LocalOnlyKeptAlways == Spec => []LocalOnlyKept
<1>1. Init => TypeInv /\ LocalInv
  BY TypeInit, LocalInit
<1>2. TypeInv /\ LocalInv /\ [Next]_vars => (TypeInv /\ LocalInv)'
  BY TypeStep, LocalStep
<1>3. LocalInv => LocalOnlyKept
  BY DEF LocalInv, SharedOK, LocalOnlyKept
<1> QED
  BY <1>1, <1>2, <1>3, PTL DEF Spec

-----------------------------------------------------------------------------
(* The markers tell the whole story. *)

(* Markers that are in the log, or that a call owes, or that it never appends. *)
Owed == markers \cup lost \cup UNION {Promised(pc[p], job[p]) : p \in Proc}

IsStarted(ms, id) == \E m \in ms : m.id = id /\ m.type = "paused"
InForce(s, id) == \E k \in Kind : s[k] # None /\ s[k].id = id

Old(ms) == \A m \in ms : m.id < nextPause

(* A call that has yet to write what it settled will owe the end of what expired. *)
DueOK(l, j) == Old(j.due) /\ (l = "save" => j.due = ExpiredMarkers(j.saw, j.now))

DuesOK == Old(markers) /\ Old(lost) /\ \A p \in Proc : DueOK(pc[p], job[p])

Told(id) == IsStarted(Owed, id) /\ (Ended(Owed, id) <=> ~InForce(state, id))

MarkerInv == DuesOK /\ (~raced => \A id \in 1 .. nextPause - 1 : Told(id))

LEMMA MarkerInit == Init => MarkerInv
<1> SUFFICES ASSUME Init PROVE MarkerInv
  OBVIOUS
<1>1. \A p \in Proc : pc[p] = "idle" /\ job[p].due = {}
  BY DEF Init, NoJob
<1>2. nextPause = 1 /\ markers = {} /\ lost = {}
  BY DEF Init
<1> QED
  BY <1>1, <1>2 DEF MarkerInv, DuesOK, DueOK, Old

LEMMA OwedMove ==
    ASSUME TypeInv, NEW p \in Proc, NEW l, NEW j, Moves(p, l, j), NEW extra,
           markers' \cup lost' \cup Promised(l, j)
             = markers \cup lost \cup Promised(pc[p], job[p]) \cup extra
    PROVE  Owed' = Owed \cup extra
<1>1. /\ pc'[p] = l /\ job'[p] = j
      /\ \A q \in Proc : q # p => pc'[q] = pc[q] /\ job'[q] = job[q]
  BY MovesOne DEF TypeInv
<1> DEFINE others == UNION {Promised(pc[q], job[q]) : q \in Proc \ {p}}
<1>2. Owed = markers \cup lost \cup Promised(pc[p], job[p]) \cup others
  BY DEF Owed
<1>3. Owed' = markers' \cup lost' \cup Promised(l, j) \cup others
  <2>1. ASSUME NEW q \in Proc, q # p PROVE Promised(pc'[q], job'[q]) = Promised(pc[q], job[q])
    BY <1>1, <2>1
  <2>2. Promised(pc'[p], job'[p]) = Promised(l, j)
    BY <1>1
  <2>3. Owed' = markers' \cup lost' \cup UNION {Promised(pc'[q], job'[q]) : q \in Proc}
    BY DEF Owed, Promised
  <2> QED
    BY <2>1, <2>2, <2>3
<1> QED
  BY <1>2, <1>3

LEMMA DuesMove ==
    ASSUME TypeInv, DuesOK, NEW p \in Proc, NEW l \in Label, NEW j \in JobType, Moves(p, l, j),
           nextPause' \in Nat, nextPause <= nextPause',
           Old(markers)', Old(lost)', DueOK(l, j)'
    PROVE  DuesOK'
<1>1. /\ pc'[p] = l /\ job'[p] = j
      /\ \A q \in Proc : q # p => pc'[q] = pc[q] /\ job'[q] = job[q]
  BY MovesOne DEF TypeInv
<1>2. ASSUME NEW q \in Proc, q # p PROVE DueOK(pc[q], job[q])'
  <2>1. DueOK(pc[q], job[q]) /\ pc'[q] = pc[q] /\ job'[q] = job[q]
    BY <1>1, <1>2 DEF DuesOK
  <2>2. \A m \in job[q].due : m.id \in Nat /\ m.id < nextPause
    BY <2>1, JobParts DEF DueOK, Old, Marker
  <2>3. \A m \in job'[q].due : m.id < nextPause'
    BY <2>1, <2>2, Numbers
  <2>4. pc'[q] = "save" => job'[q].due = ExpiredMarkers(job'[q].saw, job'[q].now)
    BY <2>1 DEF DueOK
  <2> QED
    BY <2>3, <2>4 DEF DueOK, Old, ExpiredMarkers, Expired, Active
<1>3. DueOK(pc[p], job[p])'
  BY <1>1 DEF DueOK, Old, ExpiredMarkers, Expired, Active
<1> QED
  BY <1>2, <1>3 DEF DuesOK

(* A step of a call that writes no pause: what is owed stays owed, or is written. *)
LEMMA MarkerFrame ==
    ASSUME TypeInv, MarkerInv, NEW p \in Proc, NEW l \in Label, NEW j \in JobType, Moves(p, l, j),
           UNCHANGED <<state, raced, nextPause>>,
           markers' \subseteq markers \cup job[p].due, lost' \subseteq lost \cup job[p].due,
           markers' \cup lost' \cup Promised(l, j)
             = markers \cup lost \cup Promised(pc[p], job[p]),
           DueOK(l, j)
    PROVE  MarkerInv'
<1>1. Owed' = Owed
  <2> DEFINE none == {}
  <2>1. markers' \cup lost' \cup Promised(l, j)
          = markers \cup lost \cup Promised(pc[p], job[p]) \cup none
    OBVIOUS
  <2>2. Owed \cup none = Owed
    OBVIOUS
  <2> HIDE DEF none
  <2> QED
    BY <2>1, <2>2, OwedMove
<1>2. Old(markers)' /\ Old(lost)' /\ DueOK(l, j)'
  BY DEF MarkerInv, DuesOK, DueOK, Old, ExpiredMarkers, Expired, Active
<1>4. DuesOK'
  BY <1>2, DuesMove, Numbers DEF MarkerInv
<1>5. ASSUME ~raced, NEW id \in 1 .. nextPause - 1 PROVE Told(id)'
  BY <1>1, <1>5 DEF MarkerInv, Told, IsStarted, Ended, InForce
<1> QED
  BY <1>4, <1>5 DEF MarkerInv

LEMMA SaveSettledTells ==
    ASSUME TypeInv, PauseInv, MarkerInv, NEW p \in Proc, SaveSettled(p)
    PROVE  MarkerInv'
<1> DEFINE s == job[p].saw
           gone == Expired(s, job[p].now)
<1>1. UNCHANGED <<clock, intent, logVars, syncVars, nextPause, mixed>>
      /\ WriteState(p, job[p].next)
  BY DEF SaveSettled
<1>2. PICK j \in JobType : Moves(p, "read", j) /\ j.due = job[p].due
  BY SaveMoves
<1>3. pc[p] = "save" /\ state' = job[p].next /\ KnowsOK(pc[p], job[p]) /\ DueOK(pc[p], job[p])
  BY SaveMoves DEF PauseInv, CallsOK, MarkerInv, DuesOK
<1>4. state' = Settled(s, job[p].now) /\ Known(s) /\ job[p].due = ExpiredMarkers(s, job[p].now)
  BY <1>3 DEF KnowsOK, DueOK
<1>5. Owed' = Owed \cup job[p].due
  <2>1. markers' \cup lost' \cup Promised("read", j)
          = markers \cup lost \cup Promised(pc[p], job[p]) \cup job[p].due
    BY <1>1, <1>2, <1>3 DEF Promised, logVars
  <2> QED
    BY <1>2, <2>1, OwedMove
<1>6. DuesOK'
  <2>1. Old(markers)' /\ Old(lost)' /\ DueOK("read", j)'
    BY <1>1, <1>2, <1>3 DEF MarkerInv, DuesOK, DueOK, Old, logVars
  <2> QED
    BY <1>1, <1>2, <2>1, DuesMove, Numbers DEF MarkerInv, Label
<1>7. ASSUME ~raced', NEW id \in 1 .. nextPause' - 1 PROVE Told(id)'
  <2>1. ~raced /\ (state = s \/ state' = state) /\ Told(id)
    BY <1>1, <1>7, NotRaced DEF MarkerInv
  <2>2. IsStarted(Owed', id)
    BY <1>5, <2>1 DEF Told, IsStarted
  <2>3. Ended(Owed', id) <=> Ended(Owed, id) \/ \E k \in gone : s[k].id = id
    <3>1. \A m \in job[p].due : m.type # "paused" /\ \E k \in gone : m.id = s[k].id
      BY <1>4 DEF ExpiredMarkers
    <3>2. \A k \in gone : \E m \in job[p].due : m.type # "paused" /\ m.id = s[k].id
      <4> SUFFICES ASSUME NEW k \in gone
                   PROVE  \E m \in job[p].due : m.type # "paused" /\ m.id = s[k].id
        OBVIOUS
      <4> DEFINE m0 == [id |-> s[k].id, type |-> "expired", at |-> s[k].until]
      <4>1. m0 \in job[p].due
        BY <1>4 DEF ExpiredMarkers
      <4> QED
        BY <4>1
    <3> QED
      BY <1>5, <3>1, <3>2 DEF Ended
  <2>4. InForce(state', id) <=> InForce(state, id) /\ ~\E k \in gone : s[k].id = id
    <3>1. \A k \in Kind : state'[k] = IF k \in gone THEN None ELSE s[k]
      BY <1>4 DEF Settled
    <3>2. \A k \in gone : k \in Kind /\ s[k] # None
      BY DEF Expired
    <3> HIDE DEF gone, s
    <3>3. CASE state = s
      BY <1>4, <3>1, <3>2, <3>3 DEF InForce, Known
    <3>4. CASE state' = state
      BY <1>4, <3>1, <3>2, <3>4 DEF InForce, Known
    <3> QED
      BY <2>1, <3>3, <3>4
  <2>5. Told(id)' <=> IsStarted(Owed', id) /\ (Ended(Owed', id) <=> ~InForce(state', id))
    BY DEF Told, IsStarted, Ended, InForce
  <2> QED
    BY <2>1, <2>2, <2>3, <2>4, <2>5 DEF Told
<1> QED
  BY <1>6, <1>7 DEF MarkerInv

LEMMA StartPauseTells ==
    ASSUME TypeInv, PauseInv, MarkerInv, NEW p \in Proc, StartPause(p)
    PROVE  MarkerInv'
<1> DEFINE s == job[p].saw
           k == job[p].kind
           new == StartMarkers(p)
<1>1. UNCHANGED <<clock, logVars, syncVars, mixed>>
      /\ WriteState(p, [s EXCEPT ![k] = New(p)])
  BY DEF StartPause, New
<1>2. PICK j \in JobType : Moves(p, "mark", j) /\ j.due = job[p].due \cup new
  BY StartMoves
<1>3. /\ nextPause' = nextPause + 1 /\ nextPause' \in Nat /\ nextPause <= nextPause'
      /\ state' = [s EXCEPT ![k] = New(p)] /\ pc[p] = "commit" /\ k \in Kind /\ s \in PauseState
      /\ New(p).id = nextPause /\ New(p) # None
  BY StartMoves, JobParts, Numbers, NoPause DEF New, Pause, Forever
<1>4. \A l \in Kind : state'[l] = IF l = k THEN New(p) ELSE s[l]
  BY <1>3 DEF PauseState
<1>5. Known(s) /\ DueOK(pc[p], job[p]) /\ job[p].due \subseteq Marker
  BY JobParts DEF PauseInv, CallsOK, KnowsOK, MarkerInv, DuesOK
<1>6. \A m : m \in new <=> \/ m = [id |-> nextPause, type |-> "paused", at |-> job[p].now]
                           \/ s[k] # None /\ m = [id |-> s[k].id, type |-> "replaced", at |-> job[p].now]
  BY DEF StartMarkers
<1>7. \A l \in Kind : s[l] # None => s[l].id \in Nat /\ s[l].id < nextPause
  BY <1>3, <1>5 DEF Known, PauseState, Pause
<1>8. Owed' = Owed \cup new
  <2>1. markers' \cup lost' \cup Promised("mark", j)
          = markers \cup lost \cup Promised(pc[p], job[p]) \cup new
    BY <1>1, <1>2, <1>3 DEF Promised, logVars
  <2> QED
    BY <1>2, <2>1, OwedMove
<1> HIDE DEF new, s, k
<1>9. DuesOK'
  <2>1. \A m \in markers \cup lost : m.id \in Nat /\ m.id < nextPause
    BY DEF MarkerInv, DuesOK, Old, TypeInv, FilesOK, Marker
  <2>2. \A m \in job[p].due : m.id \in Nat /\ m.id < nextPause
    BY <1>5 DEF DueOK, Old, Marker
  <2>3. Old(markers)' /\ Old(lost)'
    BY <1>1, <1>3, <2>1, Numbers DEF Old, logVars
  <2>4. \A m \in j.due : m.id < nextPause'
    BY <1>2, <1>3, <1>6, <1>7, <2>2, Numbers
  <2>5. DueOK("mark", j)'
    BY <2>4 DEF DueOK, Old
  <2> QED
    BY <1>2, <1>3, <2>3, <2>5, DuesMove DEF MarkerInv, Label
<1>10. ASSUME ~raced', NEW id \in 1 .. nextPause' - 1 PROVE Told(id)'
  <2>1. ~raced /\ state = s
    BY <1>1, <1>10, NotRaced, StartPauseKeeps DEF s
  <2>2. \A m \in Owed : m.id \in Nat /\ m.id < nextPause
    <3>1. \A m \in markers \cup lost : m.id \in Nat /\ m.id < nextPause
      BY DEF MarkerInv, DuesOK, Old, TypeInv, FilesOK, Marker
    <3>2. \A q \in Proc : \A m \in Promised(pc[q], job[q]) : m.id \in Nat /\ m.id < nextPause
      BY JobParts DEF Promised, MarkerInv, DuesOK, DueOK, Old, Marker
    <3> QED
      BY <3>1, <3>2 DEF Owed
  <2>3. Told(id)' <=> IsStarted(Owed', id) /\ (Ended(Owed', id) <=> ~InForce(state', id))
    BY DEF Told, IsStarted, Ended, InForce
  <2>4. CASE id = nextPause
    <3>1. IsStarted(Owed', id)
      <4> DEFINE m0 == [id |-> nextPause, type |-> "paused", at |-> job[p].now]
      <4>1. m0 \in Owed' /\ m0.id = id /\ m0.type = "paused"
        BY <1>6, <1>8, <2>4
      <4> QED
        BY <4>1 DEF IsStarted
    <3>2. ~Ended(Owed', id)
      BY <1>3, <1>6, <1>7, <1>8, <2>2, <2>4, Numbers DEF Ended
    <3>3. InForce(state', id)
      BY <1>3, <1>4, <2>4 DEF InForce
    <3> QED
      BY <2>3, <3>1, <3>2, <3>3
  <2>5. CASE id # nextPause
    <3>1. id \in 1 .. nextPause - 1 /\ id < nextPause
      BY <1>3, <1>10, <2>5, Numbers
    <3>2. Told(id)
      BY <2>1, <3>1 DEF MarkerInv
    <3>3. IsStarted(Owed', id)
      BY <1>8, <3>2 DEF Told, IsStarted
    <3>4. Ended(Owed', id) <=> Ended(Owed, id) \/ (s[k] # None /\ s[k].id = id)
      <4>1. \A m \in new : m.type # "paused" => s[k] # None /\ m.id = s[k].id
        BY <1>6
      <4>2. s[k] # None => \E m \in new : m.type # "paused" /\ m.id = s[k].id
        <5> DEFINE m0 == [id |-> s[k].id, type |-> "replaced", at |-> job[p].now]
        <5>1. m0.type # "paused" /\ m0.id = s[k].id /\ (s[k] # None => m0 \in new)
          BY <1>6
        <5> QED
          BY <5>1
      <4> QED
        BY <1>8, <4>1, <4>2 DEF Ended
    <3>5. InForce(state', id) <=> InForce(state, id) /\ ~(s[k] # None /\ s[k].id = id)
      BY <1>3, <1>4, <1>5, <2>1, <2>5 DEF InForce, Known
    <3> QED
      BY <2>3, <3>2, <3>3, <3>4, <3>5 DEF Told
  <2> QED
    BY <2>4, <2>5
<1> QED
  BY <1>9, <1>10 DEF MarkerInv

LEMMA EndPauseTells ==
    ASSUME TypeInv, PauseInv, MarkerInv, NEW p \in Proc, EndPause(p)
    PROVE  MarkerInv'
<1> DEFINE s == job[p].saw
           k == job[p].kind
<1>1. UNCHANGED <<clock, logVars, syncVars, nextPause, mixed>>
      /\ WriteState(p, [s EXCEPT ![k] = None])
  BY DEF EndPause
<1>2. PICK j \in JobType : Moves(p, "mark", j) /\ j.due = job[p].due \cup {EndMarker(p)}
  BY EndMoves
<1>3. /\ state' = [s EXCEPT ![k] = None] /\ pc[p] = "commit" /\ k \in Kind /\ s \in PauseState
      /\ s[k] \in Pause
  BY EndMoves, JobParts
<1>4. \A l \in Kind : state'[l] = IF l = k THEN None ELSE s[l]
  BY <1>3 DEF PauseState
<1>5. Known(s) /\ DueOK(pc[p], job[p])
  BY DEF PauseInv, CallsOK, KnowsOK, MarkerInv, DuesOK
<1>6. EndMarker(p).id = s[k].id /\ EndMarker(p).type = "command"
  BY DEF EndMarker
<1>7. s[k] # None /\ s[k].id < nextPause
  <2>1. s[k] # None
    BY <1>3, NoPause DEF Pause, Forever, PauseBounds
  <2> QED
    BY <1>3, <1>5, <2>1 DEF Known
<1>8. Owed' = Owed \cup {EndMarker(p)}
  <2> DEFINE end == {EndMarker(p)}
  <2>1. markers' \cup lost' \cup Promised("mark", j)
          = markers \cup lost \cup Promised(pc[p], job[p]) \cup end
    BY <1>1, <1>2, <1>3 DEF Promised, logVars
  <2> HIDE DEF end
  <2>2. Owed' = Owed \cup end
    BY <1>2, <2>1, OwedMove
  <2> QED
    BY <2>2 DEF end
<1> HIDE DEF s, k
<1>9. DuesOK'
  <2>1. Old(markers)' /\ Old(lost)'
    BY <1>1 DEF MarkerInv, DuesOK, Old, logVars
  <2>2. DueOK("mark", j)'
    BY <1>1, <1>2, <1>5, <1>6, <1>7 DEF DueOK, Old
  <2> QED
    BY <1>1, <1>2, <2>1, <2>2, DuesMove, Numbers DEF MarkerInv, Label
<1>10. ASSUME ~raced', NEW id \in 1 .. nextPause' - 1 PROVE Told(id)'
  <2>1. ~raced /\ (state = s \/ state' = state) /\ Told(id)
    BY <1>1, <1>10, NotRaced DEF MarkerInv, s
  <2>2. IsStarted(Owed', id)
    BY <1>8, <2>1 DEF Told, IsStarted
  <2>3. Ended(Owed', id) <=> Ended(Owed, id) \/ s[k].id = id
    BY <1>6, <1>8 DEF Ended
  <2>4. InForce(state', id) <=> InForce(state, id) /\ s[k].id # id
    BY <1>3, <1>4, <1>5, <1>7, <2>1 DEF InForce, Known
  <2>5. Told(id)' <=> IsStarted(Owed', id) /\ (Ended(Owed', id) <=> ~InForce(state', id))
    BY DEF Told, IsStarted, Ended, InForce
  <2> QED
    BY <2>1, <2>2, <2>3, <2>4, <2>5 DEF Told
<1> QED
  BY <1>9, <1>10 DEF MarkerInv

LEMMA MarkerStep == TypeInv /\ PauseInv /\ MarkerInv /\ [Next]_vars => MarkerInv'
<1> SUFFICES ASSUME TypeInv, PauseInv, MarkerInv, [Next]_vars PROVE MarkerInv'
  OBVIOUS
<1>1. ASSUME NEW p \in Proc, NEW op \in Op, NEW k \in Kind, NEW until \in {clock + 1, Forever},
             Call(p, op, k, until)
      PROVE  MarkerInv'
  <2>1. UNCHANGED <<clock, fileVars, logVars, syncVars, nextPause, mixed>>
    BY <1>1 DEF Call
  <2>2. PICK j \in JobType : Moves(p, "settle", j) /\ j.due = {} /\ pc[p] = "idle"
    BY <1>1, CallMoves
  <2>3. job[p].due = {}
    BY <2>2, JobParts DEF JobOK
  <2>4. DueOK("settle", j) /\ Promised("settle", j) = Promised(pc[p], job[p])
    BY <2>2, <2>3 DEF DueOK, Old, Promised
  <2> QED
    BY <2>1, <2>2, <2>4, MarkerFrame DEF fileVars, logVars, Label
<1>2. ASSUME NEW p \in Proc, Step(p) PROVE MarkerInv'
  <2>1. DueOK(pc[p], job[p]) /\ DueOK("idle", NoJob) /\ NoJob.due = {} /\ NoJob \in JobType
    BY NoJobType DEF MarkerInv, DuesOK, DueOK, Old
  <2>2. CASE Settle(p)
    <3>1. UNCHANGED <<clock, fileVars, logVars, syncVars, nextPause, mixed>>
      BY <2>2 DEF Settle
    <3>2. pc[p] = "settle" /\ job[p].due = {}
      BY <2>2, SettleMoves, JobParts DEF JobOK
    <3>3. PICK j \in JobType :
            \/ j = job[p] /\ Moves(p, "read", j)
            \/ /\ Moves(p, "save", j)
               /\ j.saw = state /\ j.due = ExpiredMarkers(state, j.now)
      BY <2>2, SettleMoves
    <3>4. CASE j = job[p] /\ Moves(p, "read", j)
      <4>1. DueOK("read", j) /\ Promised("read", j) = Promised(pc[p], job[p])
        BY <3>2, <3>4 DEF DueOK, Old, Promised
      <4> QED
        BY <3>1, <3>4, <4>1, MarkerFrame DEF fileVars, logVars, Label
    <3>5. CASE Moves(p, "save", j) /\ j.saw = state /\ j.due = ExpiredMarkers(state, j.now)
      <4>1. Promised("save", j) = Promised(pc[p], job[p])
        BY <3>2 DEF Promised
      <4>2. \A k \in Expired(state, j.now) : state[k].id < nextPause
        BY DEF Expired, PauseInv, CallsOK, Known
      <4>3. DueOK("save", j)
        BY <3>5, <4>2 DEF DueOK, Old, ExpiredMarkers
      <4> QED
        BY <3>1, <3>5, <4>1, <4>3, MarkerFrame DEF fileVars, logVars, Label
    <3> QED
      BY <3>3, <3>4, <3>5
  <2>3. CASE ReadState(p) \/ ReadBeforeWrite(p)
    <3>1. UNCHANGED <<clock, fileVars, log, markers, lost, syncVars, nextPause>>
      BY <2>3 DEF ReadState, ReadBeforeWrite, logVars
    <3>2. PICK l \in {"mark", "commit", "append"}, j \in JobType :
            Moves(p, l, j) /\ j.due = job[p].due /\ pc[p] = "read"
      BY <2>3, ReadMoves, WriteMoves
    <3>3. DueOK(l, j) /\ Promised(l, j) = Promised(pc[p], job[p])
      BY <2>1, <3>2 DEF DueOK, Promised
    <3> QED
      BY <3>1, <3>2, <3>3, MarkerFrame DEF fileVars, Label
  <2>4. CASE AppendMarkers(p) \/ AppendEvent(p)
    <3>1. UNCHANGED <<clock, fileVars, lost, nextPause>> /\ markers' = markers \cup job[p].due
          /\ pc[p] \in {"mark", "append"}
      BY <2>4 DEF AppendMarkers, AppendEvent
    <3>2. PICK l \in {"idle", "push"}, j \in JobType : Moves(p, l, j) /\ j.due = {}
      <4>1. CASE AppendMarkers(p)
        BY <2>1, <4>1, DoneMoves DEF AppendMarkers
      <4> QED
        BY <2>4, <4>1, AppendMoves
    <3>3. DueOK(l, j) /\ Promised(l, j) = {} /\ Promised(pc[p], job[p]) = job[p].due
      BY <3>1, <3>2 DEF DueOK, Old, Promised
    <3> QED
      BY <3>1, <3>2, <3>3, MarkerFrame DEF fileVars, Label
  <2>5. CASE Push(p)
    <3>1. UNCHANGED <<clock, fileVars, logVars, nextPause>> /\ pc[p] = "push"
          /\ Moves(p, "idle", NoJob)
      BY <2>5, DoneMoves DEF Push
    <3>2. Promised("idle", NoJob) = Promised(pc[p], job[p])
      BY <2>1, <3>1, JobParts DEF JobOK, Promised
    <3> QED
      BY <2>1, <3>1, <3>2, MarkerFrame DEF fileVars, logVars, Label
  <2>6. CASE FailToSettle(p) \/ FailToMark(p)
    <3>1. PICK j \in JobType : Moves(p, "append", j) /\ j.due = {}
      BY <2>6, CaughtMoves
    <3>2. DueOK("append", j) /\ Promised("append", j) = {}
      BY <3>1 DEF DueOK, Old, Promised
    <3>3. UNCHANGED <<state, raced, nextPause, markers>>
      BY <2>6 DEF FailToSettle, FailToMark, fileVars
    <3>4. lost' \subseteq lost \cup job[p].due /\ lost' = lost \cup Promised(pc[p], job[p])
      BY <2>6 DEF FailToSettle, FailToMark, Promised
    <3> QED
      BY <3>1, <3>2, <3>3, <3>4, MarkerFrame DEF Label
  <2>7. CASE Stop(p)
    <3>1. UNCHANGED <<state, raced, nextPause>>
      BY <2>7 DEF Stop, fileVars
    <3>2. Promised("idle", NoJob) = {}
      BY <2>1 DEF Promised
    <3> QED
      BY <2>1, <2>7, <3>1, <3>2, StopMoves, MarkerFrame DEF Label
  <2> QED
    BY <1>2, <2>2, <2>3, <2>4, <2>5, <2>6, <2>7, SaveSettledTells, StartPauseTells, EndPauseTells DEF Step
<1>3. CASE SyncBegin \/ SyncReplay \/ SyncSend \/ DashboardProjects \/ Tick \/ UNCHANGED vars
  <2>1. UNCHANGED <<state, raced, markers, lost, pc, job, nextPause>>
    BY <1>3 DEF SyncBegin, SyncReplay, SyncSend, DashboardProjects, Tick, logVars, fileVars, vars
  <2>2. Owed' = Owed
    BY <2>1 DEF Owed, Promised
  <2>3. DuesOK'
    BY <2>1 DEF MarkerInv, DuesOK, DueOK, Old, ExpiredMarkers, Expired, Active
  <2>4. ASSUME ~raced', NEW id \in 1 .. nextPause' - 1 PROVE Told(id)'
    BY <2>1, <2>2, <2>4 DEF MarkerInv, Told, IsStarted, Ended, InForce
  <2> QED
    BY <2>3, <2>4 DEF MarkerInv
<1> QED
  BY <1>1, <1>2, <1>3, NextCases

(* When no call is in progress, the markers say of each pause that it was
   started, and that it ended if and only if it is not in the file; a marker is
   missing only if the call that owed it stopped after its write of the file, or
   caught an error there. *)
THEOREM MarkersTellAllAlways == Spec => []MarkersTellAll
<1>1. Init => TypeInv /\ PauseInv /\ MarkerInv
  BY TypeInit, PauseInit, MarkerInit
<1>2. TypeInv /\ PauseInv /\ MarkerInv /\ [Next]_vars => (TypeInv /\ PauseInv /\ MarkerInv)'
  BY TypeStep, PauseStep, MarkerStep
<1>3. TypeInv /\ MarkerInv => MarkersTellAll
  <2> SUFFICES ASSUME TypeInv, MarkerInv, ~raced, \A p \in Proc : pc[p] = "idle",
                      NEW id \in 1 .. nextPause - 1
               PROVE  /\ \E m \in markers \cup lost : m.id = id /\ m.type = "paused"
                      /\ IF \E k \in Kind : state[k] # None /\ state[k].id = id
                         THEN ~Ended(markers, id)
                         ELSE Ended(markers \cup lost, id)
    BY DEF MarkersTellAll
  <2>1. \A p \in Proc : Promised(pc[p], job[p]) = {}
    BY JobParts DEF Promised, JobOK
  <2>2. Owed = markers \cup lost
    BY <2>1 DEF Owed
  <2>3. Ended(markers, id) => Ended(markers \cup lost, id)
    BY DEF Ended
  <2> QED
    BY <2>2, <2>3 DEF MarkerInv, Told, IsStarted, InForce
<1> QED
  BY <1>1, <1>2, <1>3, PTL DEF Spec
=============================================================================
