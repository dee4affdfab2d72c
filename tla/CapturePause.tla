---------------------------- MODULE CapturePause ----------------------------
(***************************************************************************)
(* Capture pauses: packages/event-log/src/capture-pause.ts, the commands   *)
(* of cli/src/capture-controls.ts, and the two ways an event leaves the    *)
(* machine: the live push (sync-encryptor/src/shim-push.ts) and the sync   *)
(* (sync-encryptor/src/sync-runner.ts).                                    *)
(*                                                                         *)
(* pause-state.json is shared by every process and guarded by nothing: a   *)
(* call reads it, settles what has expired, reads it again and writes it   *)
(* whole.  A read and a write (a rename) are one step each.  The           *)
(* abstractions:                                                           *)
(*   - Time is a counter.  A pause with no duration ends at Forever, past  *)
(*     the last time of the model; a pause with one ends one unit after    *)
(*     its `now`.                                                          *)
(*   - The log is the set of its events, apart from the set of its pause   *)
(*     markers: no property here is about their order.                     *)
(*   - A read model holds a set of events.                                 *)
(*   - A call may be killed, or fail, anywhere.  An append is whole or not *)
(*     at all.                                                             *)
(***************************************************************************)
EXTENDS Integers, FiniteSets

CONSTANTS
    Hook,        \* processes that write an event: hooks, the proxy
    Person,      \* processes that run a command: pause, resume, status
    None,        \* no pause
    MaxTime,     \* bound: the last time
    MaxPauses,   \* bound: pauses ever started
    MaxEvents,   \* bound: events ever written
    MaxFaults    \* bound: calls ever killed, and failed writes

ASSUME PauseProcesses == Hook \cap Person = {}

ASSUME NoPause == None \notin [id : Nat, until : Nat]

ASSUME PauseBounds ==
    /\ MaxTime \in Nat
    /\ MaxPauses \in Nat
    /\ MaxEvents \in Nat
    /\ MaxFaults \in Nat

VARIABLES
    clock,
    state,      \* pause-state.json: the pause of each kind
    log,        \* events in the event log
    markers,    \* pause markers in the event log
    localSeen,  \* the file local-only-seen exists
    pc, job,    \* where each process is in its call, and its locals
    shared,     \* traces.db: the read model the dashboard and a sync share
    sync,       \* the sync in progress
    uploaded,   \* events that left the machine
    nextPause,
    intent,     \* history: the last pause of each kind started and not resumed
    raced,      \* history: a write of the file undid another process's write
    faults,
    lost,       \* history: markers due for a write of the file that will never be appended
    mixed       \* history: a first local-only event was written during a sync of traces.db,
                \* or with no flag for a sync to see

fileVars == <<state, intent, raced>>
logVars  == <<log, markers, lost, faults, localSeen>>
syncVars == <<shared, sync, uploaded>>
vars     == <<clock, fileVars, logVars, pc, job, syncVars, nextPause, mixed>>

-----------------------------------------------------------------------------
Proc == Hook \cup Person

Kind == {"record", "sync"}

Time == 0..MaxTime

Forever == MaxTime + 1

Pause == [id : 1..MaxPauses, until : 1..Forever]

PauseState == [Kind -> Pause \cup {None}]

NoPauses == [k \in Kind |-> None]

(* A capture.paused marker, or capture.resumed with its reason. *)
Marker == [id : 1..MaxPauses, type : {"paused", "expired", "replaced", "command"},
           at : 1..Forever \cup {0}]

(* An event: whether it is flagged local_only, and (history) the kinds that
   were paused throughout the call that wrote it, and whether the call caught an
   error and returned it unchanged. *)
Event == [id : 1..MaxEvents, local : BOOLEAN, under : SUBSET Kind, caught : BOOLEAN]

Op == {"write", "status", "resume", "pause"}

NoJob == [op |-> "status", kind |-> "record", now |-> 0, until |-> Forever, saw |-> NoPauses,
          next |-> NoPauses, due |-> {}, began |-> NoPauses, caught |-> FALSE]

NoSync == [pc |-> "idle", dedicated |-> FALSE, rows |-> {}]

(* pauseActive *)
Active(pause, now) == pause # None /\ now < pause.until

Fault == faults < MaxFaults /\ faults' = faults + 1

Goto(p, label) == pc' = [pc EXCEPT ![p] = label]

(* The pauses in force from the beginning of a call to now. *)
Throughout(p) ==
    {k \in Kind : Active(intent[k], clock) /\ intent[k] = job[p].began[k]}

(* writePauseState: the file is replaced by what the call made of the state it
   read.  Another call's write since then is undone. *)
WriteState(p, next) ==
    /\ state' = next
    /\ raced' = (raced \/ (state # job[p].saw /\ next # state))

-----------------------------------------------------------------------------
(* settleExpiredPauses, which every call begins with. *)

(* `now` is read: for a command before it asks for confirmation. *)
Call(p, op, kind, until) ==
    /\ pc[p] = "idle"
    /\ op = "write" => Cardinality(log) < MaxEvents
    /\ op = "pause" => nextPause <= MaxPauses
    /\ job' = [job EXCEPT ![p] = [NoJob EXCEPT !.op = op, !.kind = kind, !.now = clock,
                                               !.until = until,
                                               !.began = IF op = "write" THEN intent ELSE NoPauses]]
    /\ Goto(p, "settle")
    /\ UNCHANGED <<clock, fileVars, logVars, syncVars, nextPause, mixed>>

Settle(p) ==
    /\ pc[p] = "settle"
    /\ LET ended == {k \in Kind : state[k] # None /\ ~Active(state[k], job[p].now)}
       IN  \/ /\ ended = {}
              /\ Goto(p, "read")
              /\ UNCHANGED job
           \/ /\ ended # {}
              /\ Goto(p, "save")
              /\ job' = [job EXCEPT
                            ![p].saw = state,
                            ![p].next = [k \in Kind |-> IF k \in ended THEN None ELSE state[k]],
                            ![p].due = {[id |-> state[k].id, type |-> "expired",
                                         at |-> state[k].until] : k \in ended}]
    /\ UNCHANGED <<clock, fileVars, logVars, syncVars, nextPause, mixed>>

SaveSettledAll(p) ==
    /\ pc[p] = "save"
    /\ WriteState(p, NoPauses)
    /\ job' = [job EXCEPT ![p].saw = NoPauses, ![p].next = NoPauses]
    /\ Goto(p, "read")
    /\ UNCHANGED <<clock, intent, logVars, syncVars, nextPause, mixed>>
SaveSettled(p) ==
    /\ pc[p] = "save"
    /\ WriteState(p, job[p].next)
    /\ job' = [job EXCEPT ![p].saw = NoPauses, ![p].next = NoPauses]
    /\ Goto(p, "read")
    /\ UNCHANGED <<clock, intent, logVars, syncVars, nextPause, mixed>>

(* The write of what was settled fails.  A command fails with it (see Stop); a
   hook appends its events as they are, and leaves the pause and its marker to
   the next call. *)
FailToSettle(p) ==
    /\ pc[p] = "save"
    /\ job[p].op = "write"
    /\ Fault
    /\ job' = [job EXCEPT ![p].saw = NoPauses, ![p].next = NoPauses, ![p].due = {},
                          ![p].caught = TRUE]
    /\ Goto(p, "append")
    /\ UNCHANGED <<clock, fileVars, log, markers, lost, localSeen, syncVars, nextPause, mixed>>

-----------------------------------------------------------------------------
(* startPause, endPause and the status commands. *)

(* The state is read again, after the settling. *)
ReadState(p) ==
    /\ pc[p] = "read"
    /\ job[p].op # "write"
    /\ IF job[p].op = "status" \/ (job[p].op = "resume" /\ state[job[p].kind] = None)
       THEN Goto(p, "mark") /\ UNCHANGED job
       ELSE Goto(p, "commit") /\ job' = [job EXCEPT ![p].saw = state]
    /\ UNCHANGED <<clock, fileVars, logVars, syncVars, nextPause, mixed>>

(* The call is over but for the markers it owes. *)
Owes(p, due) == job' = [job EXCEPT ![p] = [NoJob EXCEPT !.due = job[p].due \cup due]]

StartPause(p) ==
    LET j    == job[p]
        prev == j.saw[j.kind]
        new  == [id |-> nextPause, until |-> j.until]
    IN  /\ pc[p] = "commit"
        /\ j.op = "pause"
        /\ nextPause <= MaxPauses
        /\ WriteState(p, [j.saw EXCEPT ![j.kind] = new])
        /\ Owes(p, {[id |-> nextPause, type |-> "paused", at |-> j.now]}
                     \cup (IF prev = None THEN {}
                           ELSE {[id |-> prev.id, type |-> "replaced", at |-> j.now]}))
        /\ intent' = [intent EXCEPT ![j.kind] = new]
        /\ nextPause' = nextPause + 1
        /\ Goto(p, "mark")
        /\ UNCHANGED <<clock, logVars, syncVars, mixed>>

EndPauseBothKinds(p) ==
    LET j == job[p]
    IN  /\ pc[p] = "commit"
        /\ j.op = "resume"
        /\ WriteState(p, NoPauses)
        /\ Owes(p, {[id |-> j.saw[j.kind].id, type |-> "command", at |-> j.now]})
        /\ intent' = [intent EXCEPT ![j.kind] = None]
        /\ Goto(p, "mark")
        /\ UNCHANGED <<clock, logVars, syncVars, nextPause, mixed>>
EndPause(p) ==
    LET j == job[p]
    IN  /\ pc[p] = "commit"
        /\ j.op = "resume"
        /\ WriteState(p, [j.saw EXCEPT ![j.kind] = None])
        /\ Owes(p, {[id |-> j.saw[j.kind].id, type |-> "command", at |-> j.now]})
        /\ intent' = [intent EXCEPT ![j.kind] = None]
        /\ Goto(p, "mark")
        /\ UNCHANGED <<clock, logVars, syncVars, nextPause, mixed>>

(* The call's markers are appended: appendMarkers, or the proxy's emit. *)
AppendMarkersForgotten(p) ==
    /\ pc[p] = "mark"
    /\ markers' = markers \cup {m \in job[p].due : m.type # "expired"}
    /\ Goto(p, "idle")
    /\ job' = [job EXCEPT ![p] = NoJob]
    /\ UNCHANGED <<clock, fileVars, log, lost, faults, localSeen, syncVars, nextPause, mixed>>
AppendMarkers(p) ==
    /\ pc[p] = "mark"
    /\ markers' = markers \cup job[p].due
    /\ Goto(p, "idle")
    /\ job' = [job EXCEPT ![p] = NoJob]
    /\ UNCHANGED <<clock, fileVars, log, lost, faults, localSeen, syncVars, nextPause, mixed>>

-----------------------------------------------------------------------------
(* applyCapturePause: a hook writes an event, then pushes it. *)

(* The state is read; under a sync pause the home is marked local-only before
   the flagged event is appended. *)
ReadBeforeWrite(p) ==
    LET j == job[p]
    IN  /\ pc[p] = "read"
        /\ j.op = "write"
        /\ job' = [job EXCEPT ![p].saw = state]
        /\ localSeen' = (localSeen \/ (Active(state.sync, j.now) /\ ~Active(state.record, j.now)))
        /\ mixed' = (mixed \/ (localSeen' /\ ~localSeen /\ sync.pc # "idle"))
        /\ Goto(p, "append")
        /\ UNCHANGED <<clock, fileVars, log, markers, lost, faults, syncVars, nextPause>>

(* The home cannot be marked.  The events are flagged by then; the markers of
   what was settled are dropped. *)
FailToMark(p) ==
    LET j == job[p]
    IN  /\ pc[p] = "read"
        /\ j.op = "write"
        /\ ~localSeen
        /\ Fault
        /\ Active(state.sync, j.now) /\ ~Active(state.record, j.now)
        /\ job' = [job EXCEPT ![p].saw = state, ![p].due = {}]
        /\ lost' = lost \cup j.due
        /\ mixed' = TRUE
        /\ Goto(p, "append")
        /\ UNCHANGED <<clock, fileVars, log, markers, localSeen, syncVars, nextPause>>

(* The markers and, unless recording is paused, the event are appended. *)
AppendEvent(p) ==
    LET j == job[p]
    IN  /\ pc[p] = "append"
        /\ markers' = markers \cup j.due
        /\ \/ /\ Active(j.saw.record, j.now)
              /\ Goto(p, "idle")
              /\ job' = [job EXCEPT ![p] = NoJob]
              /\ UNCHANGED log
           \/ /\ ~Active(j.saw.record, j.now)
              /\ Cardinality(log) < MaxEvents
              /\ log' = log \cup {[id |-> Cardinality(log) + 1,
                                   local |-> Active(j.saw.sync, j.now), under |-> Throughout(p),
                                   caught |-> j.caught]}
              /\ IF Active(j.saw.sync, j.now)
                 THEN Goto(p, "idle") /\ job' = [job EXCEPT ![p] = NoJob]
                 ELSE /\ Goto(p, "push")
                      /\ job' = [job EXCEPT ![p] = [NoJob EXCEPT !.now = Cardinality(log) + 1]]
        /\ UNCHANGED <<clock, fileVars, lost, faults, localSeen, syncVars, nextPause, mixed>>

(* outboundEvents of the live push: nothing leaves while a pause is in force. *)
Push(p) ==
    /\ pc[p] = "push"
    /\ uploaded' = IF \E k \in Kind : Active(state[k], clock) THEN uploaded
                   ELSE uploaded \cup {e \in log : e.id = job[p].now}
    /\ Goto(p, "idle")
    /\ job' = [job EXCEPT ![p] = NoJob]
    /\ UNCHANGED <<clock, fileVars, logVars, shared, sync, nextPause, mixed>>

-----------------------------------------------------------------------------
(* A call is killed, or a step of it fails: a write of the file, the append of a
   marker or an event, a push. *)

(* The markers of what the call has written to the file. *)
Promised(l, j) == IF l = "save" THEN {} ELSE j.due

(* Markers are appended one by one: of what expired, of the pause replaced or
   resumed, of the new one. *)
Place == [expired |-> 1, replaced |-> 2, command |-> 2, paused |-> 3]

Begun(due) ==
    {done \in SUBSET due : \A m \in done, n \in due : Place[n.type] < Place[m.type] => n \in done}

Stop(p) ==
    LET due == Promised(pc[p], job[p])
    IN  /\ pc[p] # "idle"
        /\ Fault
        /\ \E done \in IF pc[p] \in {"mark", "append"} THEN Begun(due) ELSE {{}} :
             /\ markers' = markers \cup done
             /\ lost' = lost \cup (due \ done)
        /\ Goto(p, "idle")
        /\ job' = [job EXCEPT ![p] = NoJob]
        /\ UNCHANGED <<clock, fileVars, log, localSeen, syncVars, nextPause, mixed>>

-----------------------------------------------------------------------------
(* syncOnce, beside a dashboard that keeps traces.db up to date. *)

EveryEvent == log
Uploadable == {e \in log : ~e.local}

SyncBegin ==
    /\ sync.pc = "idle"
    /\ sync' = [pc |-> "replay", dedicated |-> localSeen, rows |-> {}]
    /\ UNCHANGED <<clock, fileVars, logVars, pc, job, shared, uploaded, nextPause, mixed>>

(* The uploadable events are replayed into the model.  A local-only event in
   the log switches the home to its own model. *)
SyncReplay ==
    /\ sync.pc = "replay"
    /\ LET switch == ~sync.dedicated /\ Uploadable # log
       IN  /\ sync' = [pc |-> "send", dedicated |-> sync.dedicated \/ switch, rows |-> Uploadable]
           /\ localSeen' = (localSeen \/ switch)
           /\ shared' = IF sync.dedicated THEN shared ELSE Uploadable
    /\ UNCHANGED <<clock, fileVars, log, markers, lost, faults, pc, job, uploaded, nextPause, mixed>>

(* The model's rows are encrypted and pushed.  traces.db is rebuilt before it is
   read again, so what it holds is dropped. *)
SyncSend ==
    /\ sync.pc = "send"
    /\ uploaded' = uploaded \cup (IF sync.dedicated THEN sync.rows ELSE shared)
    /\ sync' = NoSync
    /\ shared' = {}
    /\ UNCHANGED <<clock, fileVars, logVars, pc, job, nextPause, mixed>>

(* The dashboard projects what the log holds into traces.db.  Only what traces.db
   holds while a sync uploads from it is of interest. *)
DashboardProjects ==
    /\ sync.pc = "send"
    /\ ~sync.dedicated
    /\ shared' = log
    /\ UNCHANGED <<clock, fileVars, logVars, pc, job, sync, uploaded, nextPause, mixed>>

-----------------------------------------------------------------------------
Tick ==
    /\ clock < MaxTime
    /\ clock' = clock + 1
    /\ UNCHANGED <<fileVars, logVars, pc, job, syncVars, nextPause, mixed>>

Init ==
    /\ clock = 0
    /\ state = NoPauses
    /\ log = {}
    /\ markers = {}
    /\ lost = {}
    /\ faults = 0
    /\ localSeen = FALSE
    /\ pc = [p \in Proc |-> "idle"]
    /\ job = [p \in Proc |-> NoJob]
    /\ shared = {}
    /\ sync = NoSync
    /\ uploaded = {}
    /\ nextPause = 1
    /\ intent = NoPauses
    /\ raced = FALSE
    /\ mixed = FALSE

Step(p) ==
    \/ Settle(p) \/ SaveSettled(p) \/ ReadState(p)
    \/ StartPause(p) \/ EndPause(p) \/ AppendMarkers(p)
    \/ ReadBeforeWrite(p) \/ AppendEvent(p) \/ Push(p)
    \/ FailToSettle(p) \/ FailToMark(p) \/ Stop(p)

Next ==
    \/ \E p \in Hook : Call(p, "write", "record", Forever)
    \/ \E p \in Person : \/ Call(p, "status", "record", Forever)
                         \/ \E k \in Kind : Call(p, "resume", k, Forever)
                         \/ \E k \in Kind : \E until \in {clock + 1, Forever} :
                              Call(p, "pause", k, until)
    \/ \E p \in Proc : Step(p)
    \/ SyncBegin \/ SyncReplay \/ SyncSend \/ DashboardProjects
    \/ Tick

Spec == Init /\ [][Next]_vars

-----------------------------------------------------------------------------
(* Properties. *)

(* The types of the files and of each call's locals; a sync's model holds what
   may be uploaded, and what is projected or uploaded was in the log
   (sync-runner.ts:81-101). *)
TypeOK ==
    /\ clock \in Time
    /\ state \in PauseState
    /\ log \subseteq Event
    /\ markers \subseteq Marker /\ lost \subseteq Marker
    /\ localSeen \in BOOLEAN
    /\ faults \in 0..MaxFaults
    /\ pc \in [Proc -> {"idle", "settle", "save", "read", "commit", "mark", "append", "push"}]
    /\ \A p \in Proc : /\ job[p].op \in Op /\ job[p].kind \in Kind
                       /\ job[p].saw \in PauseState /\ job[p].next \in PauseState
                       /\ job[p].due \subseteq Marker
    /\ shared \subseteq log
    /\ sync.rows \subseteq Uploadable
    /\ uploaded \subseteq log
    /\ nextPause \in 1 .. MaxPauses + 1
    /\ intent \in PauseState

(* A pause lasts until a person resumes it, replaces it or its time runs out,
   and nothing brings back one that ended, unless a write of the unguarded
   file undid another (capture-pause.ts:172-228). *)
IntentKept ==
    ~raced => \A k \in Kind :
        state[k] = intent[k] \/ (state[k] = None /\ ~Active(intent[k], clock))

(* An event whose hook began after the pause did, and that was written before
   the pause ended, is not there under a record pause and stays local under a
   sync pause (capture-pause.ts:237-260), unless its hook could not write what
   it settled: then it is there as it came (233-235). *)
Obeyed(e) == "record" \notin e.under /\ ("sync" \in e.under => e.local)
PauseObeyed == ~raced => \A e \in log : e.caught \/ Obeyed(e)

(* When no call is in progress, the markers tell the whole story, from which
   capturePauseRows makes one row per pause: each pause has its start, and it
   has an end, or two when several processes noticed it, if and only if it is
   not in the file (capture-pause.ts:24-27, shared/src/index.ts:809-812).  A
   marker is missing only if the call that owed it stopped, or could not mark the
   home, after it had written the file. *)
Ended(ms, id) == \E m \in ms : m.id = id /\ m.type # "paused"
MarkersTellAll ==
    (~raced /\ \A p \in Proc : pc[p] = "idle") =>
        \A id \in 1 .. nextPause - 1 :
            /\ \E m \in markers \cup lost : m.id = id /\ m.type = "paused"
            /\ IF \E k \in Kind : state[k] # None /\ state[k].id = id
               THEN ~Ended(markers, id)
               ELSE Ended(markers \cup lost, id)

(* What was recorded under a sync pause never leaves the machine, even after
   the pause, unless the first such event of this home was written while a sync
   was uploading from the model it shares with the dashboard, or with no flag
   for a sync to see. *)
LocalOnlyKept == ~mixed => \A e \in uploaded : ~e.local

=============================================================================
