----------------------------- MODULE UsageMeter -----------------------------
(***************************************************************************)
(* What a machine counts and reports: packages/analyzer/src/detect-log.ts  *)
(* (the background detection and its watermark), sync-encryptor's          *)
(* advanced-usage.ts (tool calls judged by advanced rules) and              *)
(* rule-signals.ts with the analyzer's enforcement/signals.ts (signals of  *)
(* rules).  Both meters keep a file of pending counts and send it in       *)
(* batches with an id; an instance runs one of them.                       *)
(*                                                                         *)
(* Counts are modelled by what is counted: a unit is one tool call, or the *)
(* signal one call raised.  One background pass runs at a time, under the  *)
(* lock of BackgroundPass, and may be killed between any two steps; hooks  *)
(* append to the session and to the signal log at any time.  Writes of     *)
(* the marks and of the pending counts are renames, so they are steps.     *)
(*   - The size of a session file is its number of whole lines: its calls, *)
(*     and the findings there are for them (one for each).  A session      *)
(*     without any may have no file, an empty one, half a line, or events  *)
(*     that are no calls: Stat and ReadNothing leave that open.            *)
(*   - A day is a unit's age: how many days ago it was counted.            *)
(***************************************************************************)
EXTENDS Integers, FiniteSets

CONSTANTS
    Session,     \* sessions of the event log
    Id,          \* batch ids
    None,        \* no batch, no mark, no file
    Meter,       \* meters modelled, of "usage" and "signals"
    MaxAge,      \* MAX_AGE_DAYS
    MaxCalls,    \* bound: calls in all sessions
    MaxCrashes   \* bound: passes that are killed

ASSUME MeterAssumption ==
    /\ None \notin Id \cup Nat
    /\ Meter \subseteq {"usage", "signals"}
    /\ MaxAge \in Nat /\ MaxCalls \in Nat /\ MaxCrashes \in Nat

Unit == Session \X (1..MaxCalls)

VARIABLES
    meter,     \* "usage" or "signals"
    calls,     \* calls[s]: how many calls are in the session file
    found,     \* calls whose finding is in the session file
    marks,     \* detect-state.json: the size seen and the calls counted, per session
    opened,    \* signals whose hook has rule-signals.jsonl open
    log,       \* rule-signals.jsonl
    stale,     \* signals whose hook has the renamed log open
    file,      \* advanced-usage.json or rule-signals.json
    due,       \* SUBMIT_INTERVAL_MS have passed since the last attempt
    age,       \* age[u], up to one more than MaxAge
    pass,      \* the background pass
    wire,      \* requests on their way
    billed,    \* the cloud: the batches it has accepted
    used,      \* ids drawn so far
    acked,     \* history: units of batches that were answered with success
    lost,      \* history: units lost with a pass, or appended to a log already read
    free,      \* history: calls that are not metered: no advanced rules, or a hook's pass
    skipped,   \* history: calls marked as counted that no pass counted
    unsure,    \* history: units of requests that had no answer
    crashes    \* counter for the bound

sourceVars == <<calls, found, marks, opened, log, stale>>
cloudVars == <<wire, billed>>
historyVars == <<acked, lost, free, skipped, unsure>>
vars == <<meter, sourceVars, file, due, age, pass, cloudVars, used, historyVars, crashes>>

-----------------------------------------------------------------------------
Bigger(a, b) == IF a > b THEN a ELSE b

Recorded == {u \in Unit : u[2] <= calls[u[1]]}

Size(s) == calls[s] + Cardinality({u \in found : u[1] = s})

NoBatch == [id |-> None, units |-> {}]

EmptyFile == [pending |-> {}, batch |-> NoBatch, dropped |-> {}]

(* The marks of a session: the size it had, and how many calls were counted. *)
NoMark == [seen |-> None, counted |-> None]

(* The calls a mark says were counted. *)
Done(k) == IF k.counted = None THEN 0 ELSE k.counted

(* Those a pass that finds n calls starts from: all of them, where the session
   has a size on record and no count. *)
Prior(k, n) == IF k.counted = None /\ k.seen # None THEN n ELSE Done(k)

(* A pass: the step it is at, the sessions it has still to look at, the size
   and the calls of the one it is at, the marks it will write, the units it
   has taken, the state of the counts it works on, and the answer it has. *)
NoPass == [at |-> "idle", todo |-> {}, session |-> None, size |-> 0, calls |-> 0, read |-> {},
           marks |-> [s \in Session |-> NoMark],
           units |-> {}, free |-> {}, skipped |-> {}, file |-> EmptyFile, answer |-> "none"]

(* pruneOld: units older than MAX_AGE_DAYS. *)
OldNever(units) == {}
Old(units) == {u \in units : age[u] > MaxAge}

(* addAdvancedUsage, collectRuleSignals: units are added and old ones dropped. *)
Add(f, units) ==
    [f EXCEPT !.pending = (@ \cup units) \ Old(@ \cup units),
              !.dropped = @ \cup Old(f.pending \cup units)]

(* submitAdvancedUsage up to its request: the batch in flight without its old
   days, if any of it is left, else a new one of what is pending. *)
Kept(f) == f.batch.units \ Old(f.batch.units)

Resent(f) == [f EXCEPT !.batch.units = Kept(f), !.dropped = @ \cup Old(f.batch.units)]

BatchedCopy(f, id) ==
    [pending |-> f.pending \ Old(f.pending),
     batch   |-> [id |-> id, units |-> f.pending \ Old(f.pending)],
     dropped |-> f.dropped \cup Old(f.batch.units) \cup Old(f.pending)]
Batched(f, id) ==
    [pending |-> {},
     batch   |-> [id |-> id, units |-> f.pending \ Old(f.pending)],
     dropped |-> f.dropped \cup Old(f.batch.units) \cup Old(f.pending)]

Emptied(f) == [Batched(f, None) EXCEPT !.batch = NoBatch]

-----------------------------------------------------------------------------
(* Capture. *)

(* A hook appends a call to its session; for some it also raises a signal. *)
Call(s) ==
    /\ meter = "usage"
    /\ Cardinality(Recorded) < MaxCalls
    /\ calls' = [calls EXCEPT ![s] = @ + 1]
    /\ UNCHANGED <<meter, found, marks, opened, log, stale, file, due, age, pass, cloudVars, used,
                   historyVars, crashes>>

(* appendRuleSignals: appendFile opens the log and then writes its line. *)
OpenLog(s) ==
    /\ meter = "signals"
    /\ Cardinality(Recorded) < MaxCalls
    /\ calls' = [calls EXCEPT ![s] = @ + 1]
    /\ opened' = opened \cup {<<s, calls[s] + 1>>}
    /\ UNCHANGED <<meter, found, marks, log, stale, file, due, age, pass, cloudVars, used,
                   historyVars, crashes>>

AppendSignal(u) ==
    /\ \/ /\ u \in opened
          /\ opened' = opened \ {u}
          /\ log' = log \cup {u}
          /\ UNCHANGED <<stale, pass, lost>>
       \/ /\ u \in stale
          /\ stale' = stale \ {u}
          /\ IF pass.at = "taken"
             THEN /\ pass' = [pass EXCEPT !.units = @ \cup {u}]
                  /\ UNCHANGED lost
             ELSE /\ lost' = lost \cup {u}
                  /\ UNCHANGED pass
          /\ UNCHANGED <<opened, log>>
    /\ UNCHANGED <<meter, calls, found, marks, file, due, age, cloudVars, used, acked, free, skipped,
                   unsure, crashes>>

-----------------------------------------------------------------------------
(* The pass: detection over the event log. *)

(* The state file is read; for the other meter, the signal log is next. *)
Begin ==
    /\ pass.at = "idle"
    /\ pass' = IF meter = "usage"
               THEN [NoPass EXCEPT !.at = "stat", !.todo = Session, !.marks = marks]
               ELSE [NoPass EXCEPT !.at = "take"]
    /\ UNCHANGED <<meter, sourceVars, file, due, age, cloudVars, used, historyVars, crashes>>

(* The size is taken before the session is read.  A session whose file is not
   there yet may be passed over: one that appears before it is read leaves the
   same counts as one that was empty. *)
Stat(s) ==
    /\ pass.at = "stat"
    /\ s \in pass.todo
    /\ \/ /\ marks[s].seen = Size(s) \/ Size(s) = 0
          /\ pass' = [pass EXCEPT !.todo = @ \ {s}]
       \/ /\ marks[s].seen # Size(s)
          /\ pass' = [pass EXCEPT !.at = "read", !.session = s, !.size = Size(s)]
    /\ UNCHANGED <<meter, sourceVars, file, due, age, cloudVars, used, historyVars, crashes>>

(* readSession, detectRisks: the calls beyond the mark are new.  Whether they
   are judged depends on the rules this installation has by now. *)
Read ==
    LET s     == pass.session
        done  == Done(pass.marks[s])
        prior == Prior(pass.marks[s], calls[s])
        new   == {s} \X (prior + 1 .. calls[s])
    IN  /\ pass.at = "read"
        /\ \E active \in BOOLEAN :
             pass' = [pass EXCEPT !.at = "append", !.calls = calls[s],
                                  !.read = {u \in found : u[1] = s},
                                  !.units = IF active THEN @ \cup new ELSE @,
                                  !.free = IF active THEN @ ELSE @ \cup new,
                                  !.skipped = @ \cup ({s} \X (done + 1 .. prior))]
        /\ UNCHANGED <<meter, sourceVars, file, due, age, cloudVars, used, historyVars, crashes>>

(* There is no whole event in the file yet: its size is marked, and no count.
   A session with a count has had one. *)
ReadNothing ==
    LET s == pass.session
    IN  /\ pass.at = "read"
        /\ calls[s] = 0 /\ pass.marks[s].counted = None
        /\ pass' = [pass EXCEPT !.at = "stat", !.todo = @ \ {s}, !.marks[s].seen = pass.size]
        /\ UNCHANGED <<meter, sourceVars, file, due, age, cloudVars, used, historyVars, crashes>>

(* The findings that are not in the log yet are appended; the mark follows in
   memory. *)
AppendFindingsThenStat ==
    LET s == pass.session
    IN  /\ pass.at = "append"
        /\ found' = found \cup (({s} \X (1..pass.calls)) \ pass.read)
        /\ pass' = [pass EXCEPT !.at = "stat", !.todo = @ \ {s},
                                !.marks[s] = [seen    |-> calls[s] + Cardinality({u \in found' : u[1] = s}),
                                              counted |-> Bigger(Done(@), pass.calls)]]
        /\ UNCHANGED <<meter, calls, marks, opened, log, stale, file, due, age, cloudVars, used,
                       historyVars, crashes>>
AppendFindings ==
    LET s == pass.session
    IN  /\ pass.at = "append"
        /\ found' = found \cup (({s} \X (1..pass.calls)) \ pass.read)
        /\ pass' = [pass EXCEPT !.at = "stat", !.todo = @ \ {s},
                                !.marks[s] = [seen    |-> pass.size,
                                              counted |-> Bigger(Done(@), pass.calls)]]
        /\ UNCHANGED <<meter, calls, marks, opened, log, stale, file, due, age, cloudVars, used,
                       historyVars, crashes>>

(* A session that cannot be read ends the detection: what it counted is
   counted again by the next. *)
FailDetection ==
    /\ pass.at = "read"
    /\ pass' = [NoPass EXCEPT !.at = "submit"]
    /\ UNCHANGED <<meter, sourceVars, file, due, age, cloudVars, used, historyVars, crashes>>

(* writeState: the marks of all sessions in one write.  A pass that the proxy
   or the CLI started reports what it counted; one that a hook started reports
   its findings alone (runBackgroundDetect), and its count goes no further. *)
WriteMarks ==
    /\ pass.at = "stat"
    /\ pass.todo = {}
    /\ marks' = pass.marks
    /\ skipped' = skipped \cup pass.skipped
    /\ \/ /\ free' = free \cup pass.free
          /\ pass' = [NoPass EXCEPT !.at = "add", !.units = pass.units]
       \/ /\ free' = free \cup pass.free \cup pass.units
          /\ pass' = [NoPass EXCEPT !.at = "submit"]
    /\ UNCHANGED <<meter, calls, found, opened, log, stale, file, due, age, cloudVars, used, acked,
                   lost, unsure, crashes>>

-----------------------------------------------------------------------------
(* The pass: counting. *)

(* collectRuleSignals: the log is renamed, *)
TakeLog ==
    /\ pass.at = "take"
    /\ pass' = [pass EXCEPT !.at = "taken", !.units = log]
    /\ log' = {}
    /\ stale' = stale \cup opened
    /\ opened' = {}
    /\ UNCHANGED <<meter, calls, found, marks, file, due, age, cloudVars, used, historyVars, crashes>>

(* read and unlinked. *)
ReadLog ==
    /\ pass.at = "taken"
    /\ pass' = [pass EXCEPT !.at = "add"]
    /\ UNCHANGED <<meter, sourceVars, file, due, age, cloudVars, used, historyVars, crashes>>

(* What was counted is added to the pending counts: usage on the day of the
   pass, signals on their own. *)
AddCounts ==
    LET ages == IF meter = "usage" THEN [u \in Unit |-> IF u \in pass.units THEN 0 ELSE age[u]] ELSE age
    IN  /\ pass.at = "add"
        /\ age' = ages
        /\ file' = IF meter = "usage"
                   THEN [file EXCEPT !.pending = (@ \ Old(@)) \cup pass.units,
                                     !.dropped = @ \cup Old(file.pending)]
                   ELSE Add(file, pass.units)
        /\ pass' = [NoPass EXCEPT !.at = "submit"]
        /\ UNCHANGED <<meter, sourceVars, due, cloudVars, used, historyVars, crashes>>

-----------------------------------------------------------------------------
(* The pass: submitting. *)

(* Nothing to send, or too soon, or nothing young enough. *)
SkipSubmit ==
    /\ pass.at = "submit"
    /\ \/ /\ file.batch = NoBatch /\ file.pending = {}
          /\ UNCHANGED file
       \/ /\ ~due
          /\ UNCHANGED file
       \/ /\ due
          /\ Kept(file) = {} /\ file.pending \ Old(file.pending) = {}
          /\ file' = Emptied(file)
    /\ pass' = NoPass
    /\ UNCHANGED <<meter, sourceVars, due, age, cloudVars, used, historyVars, crashes>>

(* The batch is written before it is sent: the one in flight under its id, or
   a new one. *)
SubmitAfresh(id) ==
    /\ pass.at = "submit"
    /\ due
    /\ id \notin used
    /\ used' = used \cup {id}
    /\ IF Kept(file) # {} THEN file' = [Resent(file) EXCEPT !.batch.id = id]
       ELSE /\ file.pending \ Old(file.pending) # {}
            /\ file' = Batched(file, id)
    /\ due' = FALSE
    /\ pass' = [NoPass EXCEPT !.at = "send", !.file = file']
    /\ UNCHANGED <<meter, sourceVars, age, cloudVars, historyVars, crashes>>
Submit(id) ==
    /\ pass.at = "submit"
    /\ due
    /\ IF Kept(file) # {}
       THEN /\ id = file.batch.id
            /\ file' = Resent(file)
            /\ UNCHANGED used
       ELSE /\ file.pending \ Old(file.pending) # {}
            /\ id \notin used
            /\ used' = used \cup {id}
            /\ file' = Batched(file, id)
    /\ due' = FALSE
    /\ pass' = [NoPass EXCEPT !.at = "send", !.file = file']
    /\ UNCHANGED <<meter, sourceVars, age, cloudVars, historyVars, crashes>>

Send ==
    /\ pass.at = "send"
    /\ wire' = wire \cup {pass.file.batch}
    /\ pass' = [pass EXCEPT !.at = "wait"]
    /\ UNCHANGED <<meter, sourceVars, file, due, age, billed, used, historyVars, crashes>>

(* The answer ends the batch, whose units need no age any more, or leaves it for
   the next pass. *)
Finish ==
    /\ pass.at = "wait"
    /\ \/ /\ pass.answer = "accepted"
          /\ file' = [pass.file EXCEPT !.batch = NoBatch]
          /\ acked' = acked \cup pass.file.batch.units
          /\ UNCHANGED unsure
       \/ /\ pass.answer = "refused"
          /\ file' = [pass.file EXCEPT !.batch = NoBatch,
                                       !.dropped = @ \cup pass.file.batch.units]
          /\ UNCHANGED <<acked, unsure>>
       \/ /\ file' = pass.file      \* 5xx, no answer, the timeout
          /\ unsure' = unsure \cup pass.file.batch.units
          /\ UNCHANGED acked
    /\ age' = [u \in Unit |-> IF u \in pass.file.batch.units \ file'.batch.units THEN 0 ELSE age[u]]
    /\ pass' = NoPass
    /\ UNCHANGED <<meter, sourceVars, due, cloudVars, used, lost, free, skipped, crashes>>

(* The pass is killed; so is what it held in memory only. *)
Crash ==
    /\ crashes < MaxCrashes
    /\ crashes' = crashes + 1
    /\ pass.at # "idle"
    /\ lost' = IF pass.at \in {"add", "taken"} THEN lost \cup pass.units ELSE lost
    /\ unsure' = IF pass.at \in {"send", "wait"} THEN unsure \cup pass.file.batch.units ELSE unsure
    /\ pass' = NoPass
    /\ UNCHANGED <<meter, sourceVars, file, due, age, cloudVars, used, acked, free, skipped>>

-----------------------------------------------------------------------------
(* The cloud. *)

(* It counts a batch once per id; the answer may not come through. *)
Accept(m) ==
    /\ m \in wire
    /\ wire' = wire \ {m}
    /\ billed' = IF \E b \in billed : b.id = m.id THEN billed ELSE billed \cup {m}
    /\ pass' = IF pass.at = "wait" /\ pass.file.batch = m
               THEN [pass EXCEPT !.answer = "accepted"] ELSE pass
    /\ UNCHANGED <<meter, sourceVars, file, due, age, used, historyVars, crashes>>

(* 400, or 403 when the plan no longer has advanced rules. *)
Refuse(m) ==
    /\ m \in wire
    /\ wire' = wire \ {m}
    /\ pass' = IF pass.at = "wait" /\ pass.file.batch = m
               THEN [pass EXCEPT !.answer = "refused"] ELSE pass
    /\ UNCHANGED <<meter, sourceVars, file, due, age, billed, used, historyVars, crashes>>

Lose(m) ==
    /\ m \in wire
    /\ wire' = wire \ {m}
    /\ UNCHANGED <<meter, sourceVars, file, due, age, pass, billed, used, historyVars, crashes>>

-----------------------------------------------------------------------------
(* Time. *)
Aging == opened \cup log \cup stale \cup pass.units \cup file.pending \cup file.batch.units

Later ==
    /\ due' = TRUE
    /\ UNCHANGED <<meter, sourceVars, file, age, pass, cloudVars, used, historyVars, crashes>>

(* Units the meter holds get older. *)
NewDay ==
    /\ age' = [u \in Unit |-> IF u \in Aging /\ age[u] <= MaxAge THEN age[u] + 1 ELSE age[u]]
    /\ due' = TRUE
    /\ UNCHANGED <<meter, sourceVars, file, pass, cloudVars, used, historyVars, crashes>>

Init ==
    /\ meter \in Meter
    /\ calls = [s \in Session |-> 0]
    /\ found = {}
    /\ marks = [s \in Session |-> NoMark]
    /\ opened = {} /\ log = {} /\ stale = {}
    /\ file = EmptyFile
    /\ due = TRUE
    /\ age = [u \in Unit |-> 0]
    /\ pass = NoPass
    /\ wire = {} /\ billed = {} /\ used = {}
    /\ acked = {} /\ lost = {} /\ free = {} /\ skipped = {} /\ unsure = {}
    /\ crashes = 0

PassStep ==
    \/ Begin
    \/ \E s \in Session : Stat(s)
    \/ Read \/ ReadNothing \/ AppendFindings \/ FailDetection \/ WriteMarks
    \/ TakeLog \/ ReadLog \/ AddCounts
    \/ SkipSubmit \/ (\E id \in Id : Submit(id)) \/ Send \/ Finish

Next ==
    \/ \E s \in Session : Call(s) \/ OpenLog(s)
    \/ \E u \in Unit : AppendSignal(u)
    \/ PassStep
    \/ Crash
    \/ \E m \in wire : Accept(m) \/ Refuse(m) \/ Lose(m)
    \/ Later \/ NewDay

Spec == Init /\ [][Next]_vars

(* Passes are started again and again, each of their steps ends, and days go by. *)
FairSpec == Spec /\ WF_vars(PassStep) /\ WF_vars(NewDay)

-----------------------------------------------------------------------------
(* Properties. *)

Billed == UNION {b.units : b \in billed}

(* The meter bills a unit at most once: no call is in two batches that the
   cloud has counted, whatever was lost, resent or killed. *)
BilledOnce ==
    \A b, c \in billed : b # c => b.units \cap c.units = {}

(* The places a unit can be in, apart from the cloud. *)
Held == IF pass.at \in {"add", "taken"} THEN pass.units ELSE {}

Places == <<opened, log, stale, Held, file.pending, file.batch.units, file.dropped, acked, lost,
            free, skipped>>

Counted == {u \in Unit : IF meter = "usage" THEN u[2] <= Done(marks[u[1]])
                         ELSE u[2] <= calls[u[1]]}

(* detect-log.ts:24-25: "each call is counted once, however often its session
   is rescanned".  Every unit that was counted is in exactly one place: pending,
   in flight, acknowledged, dropped and recorded so, or lost with a pass that was
   killed; what is acknowledged is billed, and what was dropped is billed only if
   an answer did not come through.  The exception: the first calls of a session
   that a pass looked at before it held a whole event are counted by none, and
   no other call is skipped so. *)
Accounted ==
    /\ \A u \in Counted : Cardinality({i \in DOMAIN Places : u \in Places[i]}) = 1
    /\ \A u \in skipped : {u[1]} \X (1..u[2]) \subseteq skipped
    /\ acked \subseteq Billed
    /\ file.dropped \cap Billed \subseteq unsure

(* detect-log.ts:19-20: "only cause one extra rescan next time, never a missed
   event": a session that the next pass skips has every call counted and every
   finding in the log. *)
NothingMissed ==
    meter = "usage" => \A s \in Session :
        marks[s].seen = Size(s) => /\ Done(marks[s]) = calls[s]
                                   /\ {s} \X (1..calls[s]) \subseteq found

(* Counts do not wait for ever: once calls end, every unit that was pending or
   in flight has been acknowledged or dropped. *)
Settles == <>[](file.pending \cup file.batch.units = {})

=============================================================================
