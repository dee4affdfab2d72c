--------------------------- MODULE BackgroundPass ---------------------------
(***************************************************************************)
(* The background pass: packages/sync-encryptor/src/auto-sync.ts, as hook  *)
(* shims start it and as `omnodex sync` shares its lock.                   *)
(*                                                                         *)
(* A hook is a short-lived process: it appends its event, decides whether  *)
(* a pass is due, records the attempt in auto-sync-state.json and spawns a *)
(* detached child. The child takes auto-sync.lock, detects, syncs, records *)
(* what happened in the same state file and releases the lock. A sync made *)
(* by hand takes the same lock.                                            *)
(*                                                                         *)
(* Every update of the state file is a read, a truncation and a write, and *)
(* nothing guards it; a reader that meets the truncated file reads an      *)
(* empty state. Times are kept as ages, so that the model is finite: the   *)
(* age of an attempt stops at Period and the age of a lock at StaleAge,    *)
(* beyond which the code does not tell them apart.                         *)
(***************************************************************************)
EXTENDS Integers, FiniteSets

CONSTANTS
    Hook,          \* hook processes, one call at a time each
    Child,         \* detached children: the bound on how many run at once
    Manual,        \* `omnodex sync` processes
    None,          \* no lock, nothing read, nothing to write
    Torn,          \* the state file while it is being written
    MinInterval,   \* units of time between two starts (a minute)
    StaleAge,      \* age at which a lock belongs to a crashed sync (ten)
    Period,        \* age of the attempt at which any hook starts a pass (15)
    MaxGap,        \* the cloud's minimum gap between two syncs
    MaxManual,     \* bound on the syncs made by hand
    MaxFailures    \* bound on crashes and failed detections

ASSUME TimesAssumption ==
    /\ MinInterval \in Nat \ {0} /\ StaleAge \in Nat \ {0}
    /\ Period \in Nat /\ Period >= MinInterval /\ MaxGap \in Nat
ASSUME ProcessesAssumption ==
    /\ Hook \cap Child = {} /\ Hook \cap Manual = {} /\ Child \cap Manual = {}
    /\ IsFiniteSet(Child) /\ IsFiniteSet(Manual)
    /\ MaxManual \in Nat /\ MaxFailures \in Nat

VARIABLES
    file,       \* auto-sync-state.json, or Torn while it is being written
    lock,       \* auto-sync.lock: its owner and its age, or None
    pc,         \* where each process is
    base,       \* the state each process read
    draft,      \* the state each process is about to write
    then,       \* where it goes once that is written
    tries,      \* acquireLock: which of its two attempts
    answer,     \* what a pass learnt from the cloud, to be recorded
    byHand,     \* how many syncs were started by hand
    failures,   \* how many crashes and failed detections there were
    activity,   \* events no detection has read: none, some, or asked for
    promised    \* what is left of the gap last written into the state

files == <<file, lock>>
locals == <<base, draft, then, tries, answer>>
history == <<activity, promised>>
vars == <<files, pc, locals, byHand, failures, history>>

Pass == Child \cup Manual
Proc == Hook \cup Pass

(* AutoSyncState: a state that was never written, or was lost, has no        *)
(* attempt, which the code treats as one older than the period.              *)
AutoSyncState == [attempt : 0 .. Period, pending : BOOLEAN, notBefore : 0 .. MaxGap]
NoState == [attempt |-> Period, pending |-> FALSE, notBefore |-> 0]

ASSUME StatesAssumption == None \notin AutoSyncState /\ Torn \notin AutoSyncState

Read == IF file = Torn THEN NoState ELSE file

LockIsThere == lock # None
LockIsHeld == lock # None /\ lock.age < StaleAge

SyncDeferred(s) == s.notBefore > 0

PassDue(s) ==
    \/ s.pending /\ s.attempt >= MinInterval
    \/ s.attempt >= Period

TooSoon(s) == s.attempt < MinInterval

Started(s) == [s EXCEPT !.attempt = 0, !.pending = FALSE]

(* What a sync learnt replaces the gap; any other update leaves it. *)
MergeNull(s, ans) == [s EXCEPT !.notBefore = IF ans = None THEN 0 ELSE ans]
Merge(s, ans) == IF ans = None THEN s ELSE [s EXCEPT !.notBefore = ans]

(* At most one pass or sync is at work. *)
Inside(p) == pc[p] \notin {"idle", "acquire", "check", "unlink", "poll"}
OneSync == Cardinality({p \in Pass : Inside(p)}) <= 1

-----------------------------------------------------------------------------
(* What was asked for, started and promised before is no longer counted on   *)
(* when a write undoes or overlaps another, or a reader meets the truncated  *)
(* file: the history starts again.                                           *)
Disturbed(yes) ==
    /\ activity' = IF yes /\ activity = "asked" THEN "some" ELSE activity
    /\ promised' = IF yes THEN 0 ELSE promised

(* fs.writeFile: the file is truncated, then filled. *)
Truncate(p) ==
    /\ pc[p] = "write"
    /\ file' = Torn
    /\ pc' = [pc EXCEPT ![p] = "fill"]
    /\ base' = [base EXCEPT ![p] = None]
    /\ Disturbed(file # base[p])
    /\ UNCHANGED <<lock, draft, then, tries, answer, byHand, failures>>

Fill(p) ==
    /\ pc[p] = "fill"
    /\ file' = draft[p]
    /\ pc' = [pc EXCEPT ![p] = then[p]]
    /\ draft' = [draft EXCEPT ![p] = None]
    /\ then' = [then EXCEPT ![p] = "idle"]
    /\ IF file # Torn \/ \E q \in Proc \ {p} : pc[q] = "fill"
         THEN Disturbed(TRUE)
         ELSE /\ promised' = IF then[p] = "release" /\ OneSync THEN draft[p].notBefore ELSE promised
              /\ UNCHANGED activity
    /\ UNCHANGED <<lock, base, tries, answer, byHand, failures>>

-----------------------------------------------------------------------------
(* Hooks *)

(* A hook appends its event; the end of a session asks for a pass at once. *)
HookEvent(h) ==
    /\ pc[h] = "idle"
    /\ \/ pc' = [pc EXCEPT ![h] = "start"] /\ activity' = "asked"
       \/ /\ pc' = [pc EXCEPT ![h] = "due"]
          /\ activity' = IF activity = "none" THEN "some" ELSE activity
    /\ UNCHANGED <<files, locals, byHand, failures, promised>>

(* backgroundPassDue *)
CheckDue(h) ==
    /\ pc[h] = "due"
    /\ pc' = [pc EXCEPT ![h] = IF PassDue(Read) THEN "start" ELSE "idle"]
    /\ UNCHANGED <<files, locals, byHand, failures, history>>

(* startBackgroundSync: the clock and the state are read together, which     *)
(* decides whether the last attempt is recent.                               *)
Start(h) ==
    /\ pc[h] = "start"
    /\ base' = [base EXCEPT ![h] = Read]
    /\ draft' = [draft EXCEPT ![h] = Started(Read)]
    /\ then' = [then EXCEPT ![h] = IF TooSoon(Read) THEN "idle" ELSE "spawn"]
    /\ pc' = [pc EXCEPT ![h] = "decide"]
    /\ UNCHANGED <<files, tries, answer, byHand, failures, history>>

Return(h) ==
    /\ pc' = [pc EXCEPT ![h] = "idle"]
    /\ base' = [base EXCEPT ![h] = None]
    /\ draft' = [draft EXCEPT ![h] = None]

ForgetRequest(h) == Return(h)
MarkPending(h) ==
    IF base[h].pending
      THEN Return(h)
      ELSE /\ pc' = [pc EXCEPT ![h] = "write"]
           /\ draft' = [draft EXCEPT ![h] = [base[h] EXCEPT !.pending = TRUE]]
           /\ UNCHANGED base

(* A held lock or a recent attempt leaves the pass pending; otherwise the     *)
(* attempt is written before the child is spawned.                            *)
Decide(h) ==
    /\ pc[h] = "decide"
    /\ IF LockIsHeld \/ then[h] = "idle"
         THEN MarkPending(h) /\ then' = [then EXCEPT ![h] = "idle"]
         ELSE pc' = [pc EXCEPT ![h] = "write"] /\ UNCHANGED <<base, draft, then>>
    /\ UNCHANGED <<files, tries, answer, byHand, failures, history>>

Spawn(h) ==
    /\ pc[h] = "spawn"
    /\ \E c \in Child :
        /\ pc[c] = "idle"
        /\ pc' = [pc EXCEPT ![h] = "idle", ![c] = "acquire"]
    /\ UNCHANGED <<files, locals, byHand, failures, history>>

HookStep(h) == CheckDue(h) \/ Start(h) \/ Decide(h) \/ Spawn(h) \/ Truncate(h) \/ Fill(h)

-----------------------------------------------------------------------------
(* The lock *)

SyncByHand(m) ==
    /\ pc[m] = "idle"
    /\ byHand < MaxManual
    /\ byHand' = byHand + 1
    /\ pc' = [pc EXCEPT ![m] = "acquire"]
    /\ UNCHANGED <<files, locals, failures, history>>

(* acquireLock: fs.open(lockPath, "wx") *)
CreateLock(p) ==
    /\ pc[p] = "acquire"
    /\ IF lock = None
         THEN /\ lock' = [owner |-> p, age |-> 0]
              /\ pc' = [pc EXCEPT ![p] = IF p \in Child THEN "license" ELSE "gate"]
              /\ tries' = [tries EXCEPT ![p] = 1]
         ELSE /\ pc' = [pc EXCEPT ![p] = "check"]
              /\ UNCHANGED <<lock, tries>>
    /\ UNCHANGED <<file, base, draft, then, answer, byHand, failures, history>>

(* A pass that finds the lock held ends, and what it was started for is no    *)
(* longer asked for; a sync made by hand polls.                               *)
GiveUp(p) ==
    /\ pc' = [pc EXCEPT ![p] = IF p \in Child THEN "idle" ELSE "poll"]
    /\ tries' = [tries EXCEPT ![p] = 1]
    /\ activity' = IF p \in Child /\ activity = "asked" THEN "some" ELSE activity

CheckLock(p) ==
    /\ pc[p] = "check"
    /\ IF LockIsHeld
         THEN GiveUp(p)
         ELSE pc' = [pc EXCEPT ![p] = "unlink"] /\ UNCHANGED <<tries, activity>>
    /\ UNCHANGED <<files, base, draft, then, answer, byHand, failures, promised>>

(* The lock that is removed is whichever is there by now. *)
RemoveStaleLock(p) ==
    /\ pc[p] = "unlink"
    /\ lock' = None
    /\ IF tries[p] = 1
         THEN /\ tries' = [tries EXCEPT ![p] = 2]
              /\ pc' = [pc EXCEPT ![p] = "acquire"]
              /\ UNCHANGED activity
         ELSE GiveUp(p)
    /\ UNCHANGED <<file, base, draft, then, answer, byHand, failures, promised>>

(* acquireSyncLock: try again, or stop at the deadline. *)
Poll(m) ==
    /\ pc[m] = "poll"
    /\ pc' \in {[pc EXCEPT ![m] = "acquire"], [pc EXCEPT ![m] = "idle"]}
    /\ UNCHANGED <<files, locals, byHand, failures, history>>

ReleaseLock(p) ==
    /\ pc[p] = "release"
    /\ lock' = None
    /\ pc' = [pc EXCEPT ![p] = "idle"]
    /\ UNCHANGED <<file, locals, byHand, failures, history>>

-----------------------------------------------------------------------------
(* The pass *)

(* updateAutoSyncState: read, merge, write. *)
UpdateState(p, next) ==
    /\ base' = [base EXCEPT ![p] = Read]
    /\ draft' = [draft EXCEPT ![p] = Merge(Read, answer[p])]
    /\ then' = [then EXCEPT ![p] = next]
    /\ pc' = [pc EXCEPT ![p] = "write"]

(* refreshStaleLicense: records its attempt only when the license is stale. *)
RefreshLicense(c) ==
    /\ pc[c] = "license"
    /\ \/ UpdateState(c, "detect")
       \/ pc' = [pc EXCEPT ![c] = "detect"] /\ UNCHANGED <<base, draft, then>>
    /\ UNCHANGED <<files, tries, answer, byHand, failures, history>>

(* Detection reads every session that has grown. *)
DetectBegin(c) ==
    /\ pc[c] = "detect"
    /\ pc' = [pc EXCEPT ![c] = "detecting"]
    /\ activity' = "none"
    /\ UNCHANGED <<files, locals, byHand, failures, promised>>

(* A detection that fails, or dies, has not advanced its watermark. *)
Unread == IF activity = "none" THEN "some" ELSE activity

DetectEnd(c) ==
    /\ pc[c] = "detecting"
    /\ \/ UNCHANGED <<failures, activity>>
       \/ failures < MaxFailures /\ failures' = failures + 1 /\ activity' = Unread
    /\ UpdateState(c, "gate")
    /\ UNCHANGED <<files, tries, answer, byHand, promised>>

(* The cloud's gap is looked up before a sync. *)
Gate(p) ==
    /\ pc[p] = "gate"
    /\ pc' = [pc EXCEPT ![p] = IF SyncDeferred(Read) THEN "release" ELSE "sync"]
    /\ Disturbed(file = Torn)
    /\ UNCHANGED <<files, locals, byHand, failures>>

(* syncReadModel: the cloud takes the sync and may ask for a gap, or refuses  *)
(* it for one, or the request fails.                                          *)
Sync(p) ==
    /\ pc[p] = "sync"
    /\ pc' = [pc EXCEPT ![p] = "record"]
    /\ answer' \in {[answer EXCEPT ![p] = a] : a \in {None, 0, MaxGap}}
    /\ UNCHANGED <<files, base, draft, then, tries, byHand, failures, history>>

(* recordSyncOutcome *)
RecordOutcome(p) ==
    /\ pc[p] = "record"
    /\ UpdateState(p, "release")
    /\ answer' = [answer EXCEPT ![p] = None]
    /\ UNCHANGED <<files, tries, byHand, failures, history>>

PassStep(p) ==
    \/ CreateLock(p) \/ CheckLock(p) \/ RemoveStaleLock(p) \/ ReleaseLock(p)
    \/ Gate(p) \/ Sync(p) \/ RecordOutcome(p) \/ Truncate(p) \/ Fill(p)
    \/ p \in Child /\ (RefreshLicense(p) \/ DetectBegin(p) \/ DetectEnd(p))
    \/ p \in Manual /\ Poll(p)

-----------------------------------------------------------------------------
(* A process is killed: its lock and a half-written file stay. *)
Crash(p) ==
    /\ pc[p] # "idle"
    /\ failures < MaxFailures
    /\ failures' = failures + 1
    /\ pc' = [pc EXCEPT ![p] = "idle"]
    /\ base' = [base EXCEPT ![p] = None]
    /\ draft' = [draft EXCEPT ![p] = None]
    /\ then' = [then EXCEPT ![p] = "idle"]
    /\ tries' = [tries EXCEPT ![p] = 1]
    /\ answer' = [answer EXCEPT ![p] = None]
    /\ activity' = IF activity = "asked" \/ pc[p] = "detecting" THEN "some" ELSE activity
    /\ UNCHANGED <<files, byHand, promised>>

(* A unit of time passes: whatever holds a time, in a file or in a process,   *)
(* gets older.                                                                *)
UpTo(n, bound) == IF n < bound THEN n + 1 ELSE bound
DownFrom(n) == IF n > 0 THEN n - 1 ELSE 0
Older(s) ==
    IF s \in {None, Torn} THEN s
    ELSE [s EXCEPT !.attempt = UpTo(@, Period), !.notBefore = DownFrom(@)]

Tick ==
    /\ file' = Older(file)
    /\ lock' = IF lock = None THEN None ELSE [lock EXCEPT !.age = UpTo(@, StaleAge)]
    /\ base' = [p \in Proc |-> Older(base[p])]
    /\ draft' = [p \in Proc |-> Older(draft[p])]
    /\ promised' = DownFrom(promised)
    /\ UNCHANGED <<pc, then, tries, answer, byHand, failures, activity>>

Init ==
    /\ file = NoState
    /\ lock = None
    /\ pc = [p \in Proc |-> "idle"]
    /\ base = [p \in Proc |-> None]
    /\ draft = [p \in Proc |-> None]
    /\ then = [p \in Proc |-> "idle"]
    /\ tries = [p \in Proc |-> 1]
    /\ answer = [p \in Proc |-> None]
    /\ byHand = 0
    /\ failures = 0
    /\ activity = "none"
    /\ promised = 0

Next ==
    \/ \E h \in Hook : HookEvent(h) \/ HookStep(h)
    \/ \E p \in Pass : PassStep(p)
    \/ \E m \in Manual : SyncByHand(m)
    \/ \E p \in Proc : Crash(p)
    \/ Tick

(* While the agent is in use its hooks keep firing; processes that are not    *)
(* killed go on, and time passes. Syncs made by hand and crashes just happen. *)
Fairness ==
    /\ \A h \in Hook : WF_vars(HookEvent(h)) /\ WF_vars(HookStep(h))
    /\ \A p \in Pass : WF_vars(PassStep(p))
    /\ WF_vars(Tick)

Spec == Init /\ [][Next]_vars
FairSpec == Spec /\ Fairness

-----------------------------------------------------------------------------
HookPlaces == {"idle", "due", "start", "decide", "write", "fill", "spawn"}
PassPlaces == {"idle", "acquire", "check", "unlink", "poll", "license", "detect", "detecting",
               "gate", "sync", "record", "write", "fill", "release"}

(* The types of the files and of each process's locals: a process that writes
   has something to write. *)
TypeOK ==
    /\ file \in AutoSyncState \cup {Torn}
    /\ lock \in [owner : Pass, age : 0 .. StaleAge] \cup {None}
    /\ pc \in [Proc -> HookPlaces \cup PassPlaces]
    /\ base \in [Proc -> AutoSyncState \cup {None}]
    /\ draft \in [Proc -> AutoSyncState \cup {None}]
    /\ then \in [Proc -> HookPlaces \cup PassPlaces]
    /\ tries \in [Proc -> 1 .. 2]
    /\ answer \in [Proc -> 0 .. MaxGap \cup {None}]
    /\ byHand \in 0 .. MaxManual /\ failures \in 0 .. MaxFailures
    /\ activity \in {"none", "some", "asked"}
    /\ promised \in 0 .. MaxGap
    /\ \A p \in Proc : pc[p] \in {"write", "fill"} => draft[p] # None

(* A pass that was asked for is not forgotten: until a detection begins it is
   pending in the state file, or a hook is asking, or a child is on its way to
   detect, unless a process died, a write undid another, or a child was turned
   away by a sync that held the lock (auto-sync.ts:125-130, 270-293). *)
Pending == IF file = Torn THEN \E p \in Proc : pc[p] = "fill" /\ draft[p].pending
                          ELSE file.pending
Asking(h) == pc[h] \in {"start", "decide", "write", "fill", "spawn"}
OnItsWay(c) ==
    \/ pc[c] \in {"acquire", "check", "unlink", "license", "detect"}
    \/ pc[c] \in {"write", "fill"} /\ then[c] = "detect"
PendingKept ==
    activity = "asked" =>
        Pending \/ (\E h \in Hook : Asking(h)) \/ (\E c \in Child : OnItsWay(c))

(* No sync is sent inside the gap the cloud asked for once that gap is in the
   state file, unless a later write lost it or two syncs ran at once
   (auto-sync.ts:374, 437-448, cli/src/index.ts:3028-3032). *)
GapKept ==
    [][\A p \in Pass : (pc[p] = "sync" /\ pc'[p] = "record") => promised = 0]_vars

(* Every event is read by a detection that succeeds: whatever the order of
   starts, however the state file is torn, and whichever process dies with the
   lock (auto-sync.ts:307-312). *)
EventuallyAnalysed == (activity # "none") ~> (activity = "none")

=============================================================================
