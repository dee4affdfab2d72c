----------------------------- MODULE SealChain -----------------------------
(***************************************************************************)
(* Sealing of the event log: packages/cli/src/evidence/seal.ts.            *)
(*                                                                         *)
(* Hook processes append events to session files while any number of       *)
(* sealers (the background pass, `omnodex seal`, `omnodex export bundle`)  *)
(* run sealPending.  A sealer takes seal.lock, reads the newest seal of    *)
(* seals.jsonl, reads each session file from the offset that seal          *)
(* recorded, and appends one line: the seal of every event it found.       *)
(*                                                                         *)
(* A step is what one process does between two system calls that another   *)
(* process can observe.  The abstractions:                                 *)
(*   - An event is a number, given when its line becomes whole.  A line    *)
(*     that does not parse is Damage.  Lines have one length, so a byte    *)
(*     offset counts whole lines; `tail` says that bytes of an unfinished  *)
(*     line follow them.                                                   *)
(*   - A head is the hash chain itself: the sequence of the sets of events *)
(*     the seals up to it folded in.  The order inside one seal is a       *)
(*     function of the events (recorded_at, file, position), so a set      *)
(*     stands for it.                                                      *)
(*   - A key is named by the sealer that generated it.                     *)
(***************************************************************************)
EXTENDS Integers, Sequences, FiniteSets

CONSTANTS
    Sealer,      \* processes that can call sealPending
    File,        \* session files of every root
    NoKey,       \* seal-key.json does not exist
    HalfKey,     \* seal-key.json exists and holds no whole key yet
    MaxEvents,   \* bound: event lines ever written, the damaged ones included
    MaxCrashes,  \* bound: sealers killed
    MaxTears,    \* bound: appends to seals.jsonl that fail part way
    MaxClears    \* bound: `omnodex clear --session` of a session file

ASSUME SealerAssumption ==
    /\ NoKey # HalfKey
    /\ NoKey \notin Sealer
    /\ HalfKey \notin Sealer

ASSUME BoundAssumption ==
    /\ MaxEvents \in Nat
    /\ MaxCrashes \in Nat
    /\ MaxTears \in Nat
    /\ MaxClears \in Nat

VARIABLES
    log,        \* log[f]: the whole lines of session file f
    tail,       \* tail[f]: f ends in an unfinished line
    cleared,    \* files `omnodex clear` ever removed
    nextEvent,  \* the number the next event gets
    recorded,   \* history: the events whose line became whole
    locked,     \* seal.lock exists
    aged,       \* seal.lock is LOCK_STALE_MS old
    outdating,  \* sealers whose `now` makes the present lock LOCK_STALE_MS old
    seals,      \* the lines of seals.jsonl
    unended,    \* the last line of seals.jsonl has no newline
    key,        \* seal-key.json
    pc,         \* where each sealer is in sealPending
    attempt,    \* the loop variable of acquire
    job,        \* locals of sealPending: last, offsets, found, the files left to read, key
    crashes, tears, clears,    \* counters for the bounds
    overlapped  \* history: two sealers were once past acquire together

logVars  == <<log, tail, cleared, nextEvent, recorded, clears>>
lockVars == <<locked, aged, outdating>>
sealVars == <<seals, unended, tears>>
vars     == <<logVars, lockVars, sealVars, key, pc, attempt, job, crashes, overlapped>>

-----------------------------------------------------------------------------
(* Seals, heads and offsets. *)

Damage == 0

Event == 1..MaxEvents

(* The seal before the first one: readLastSeal found nothing. *)
Genesis == [seq |-> 0, head |-> <<>>, offsets |-> [f \in File |-> 0], key |-> NoKey]

Key == Sealer \cup {NoKey}

Seal == [seq : Nat, head : Seq(SUBSET Event), offsets : [File -> Nat], key : Key]

(* A line of seals.jsonl: a seal, or text that parseSeal refuses. *)
SealLine(s) == [ok |-> TRUE, seal |-> s]
DamagedLine == [ok |-> FALSE, seal |-> Genesis]

(* The events a head was folded from. *)
Folded(head) == UNION {head[i] : i \in DOMAIN head}

(* The lines of f that parse, between two offsets. *)
EventsBetween(f, from, to) == {log[f][i] : i \in from + 1 .. to} \ {Damage}

GoodLines == {i \in DOMAIN seals : seals[i].ok}

(* readLastSeal: the last line that parses. *)
LastLineOnly ==
    IF seals = <<>> THEN Genesis ELSE seals[Len(seals)].seal
LastSeal ==
    IF GoodLines = {} THEN Genesis
    ELSE seals[CHOOSE i \in GoodLines : \A j \in GoodLines : j <= i].seal

(* Where a sealer starts in f: offsets[file], or the top when the file is
   shorter. *)
FromTheTop(f, offsets) == 0
FromNextLine(f, offsets) ==
    IF Len(log[f]) < offsets[f] THEN 0
    ELSE offsets[f] + (IF Len(log[f]) > offsets[f] THEN 1 ELSE 0)
From(f, offsets) == IF Len(log[f]) < offsets[f] THEN 0 ELSE offsets[f]

(* The offsets a read of f can end with: past the last newline it saw, or as
   it was when it saw none, or when the file is gone. *)
ReadTo(f, offsets) ==
    IF Len(log[f]) = From(f, offsets)
    THEN IF tail[f] THEN {offsets[f]}
         ELSE IF Len(log[f]) = 0 THEN {0, offsets[f]} ELSE {Len(log[f])}
    ELSE {Len(log[f])}

(* The text a process leaves in seals.jsonl when it writes `line`.  After an
   unended line the two are one line of text, which does not parse. *)
Written(line) ==
    IF unended THEN [seals EXCEPT ![Len(seals)] = DamagedLine]
    ELSE Append(seals, line)

NoJob == [last |-> Genesis, offsets |-> Genesis.offsets, found |-> {}, todo |-> {},
          signer |-> NoKey]

Status == {"idle", "open", "stat", "rm", "last", "scan", "key", "mkkey", "wrkey",
           "append", "release"}

(* Past acquire: from the creation of the lock to its release. *)
Holding(p) == pc[p] \in {"last", "scan", "key", "mkkey", "wrkey", "append", "release"}

-----------------------------------------------------------------------------
(* The hooks and the proxy that append events, and `omnodex clear`. *)

(* The first bytes of a line reach the file. *)
BeginLine(f) ==
    /\ ~tail[f]
    /\ nextEvent <= MaxEvents
    /\ tail' = [tail EXCEPT ![f] = TRUE]
    /\ UNCHANGED <<log, cleared, nextEvent, recorded, clears, lockVars, sealVars, key, pc,
                   attempt, job, crashes, overlapped>>

(* Its newline reaches the file. *)
EndLine(f) ==
    /\ tail[f]
    /\ nextEvent <= MaxEvents
    /\ tail' = [tail EXCEPT ![f] = FALSE]
    /\ log' = [log EXCEPT ![f] = Append(@, nextEvent)]
    /\ nextEvent' = nextEvent + 1
    /\ recorded' = recorded \cup {nextEvent}
    /\ UNCHANGED <<cleared, clears, lockVars, sealVars, key, pc, attempt, job,
                   crashes, overlapped>>

(* The writer died inside its line and another one appended after it: the two
   are one line that does not parse. *)
EndDamagedLine(f) ==
    /\ tail[f]
    /\ nextEvent <= MaxEvents
    /\ tail' = [tail EXCEPT ![f] = FALSE]
    /\ log' = [log EXCEPT ![f] = Append(@, Damage)]
    /\ nextEvent' = nextEvent + 1
    /\ UNCHANGED <<cleared, recorded, clears, lockVars, sealVars, key, pc, attempt, job,
                   crashes, overlapped>>

(* `omnodex clear --session`: the file is removed. *)
ClearSession(f) ==
    /\ clears < MaxClears
    /\ log' = [log EXCEPT ![f] = <<>>]
    /\ tail' = [tail EXCEPT ![f] = FALSE]
    /\ cleared' = cleared \cup {f}
    /\ clears' = clears + 1
    /\ UNCHANGED <<nextEvent, recorded, lockVars, sealVars, key, pc, attempt, job, crashes,
                   overlapped>>

-----------------------------------------------------------------------------
(* acquire *)

Goto(p, label) == pc' = [pc EXCEPT ![p] = label]

(* sealPending is called: `now` is read once, here. *)
Start(p) ==
    /\ pc[p] = "idle"
    /\ Goto(p, "open")
    /\ attempt' = [attempt EXCEPT ![p] = 0]
    /\ outdating' = IF aged THEN outdating \cup {p} ELSE outdating \ {p}
    /\ UNCHANGED <<logVars, locked, aged, sealVars, key, job, crashes, overlapped>>

(* open(lock, "wx") *)
TryCreate(p) ==
    /\ pc[p] = "open"
    /\ IF locked
       THEN /\ Goto(p, "stat")
            /\ UNCHANGED <<lockVars, overlapped>>
       ELSE /\ Goto(p, "last")
            /\ locked' = TRUE
            /\ aged' = FALSE
            /\ outdating' = {}
            /\ overlapped' = (overlapped \/ \E q \in Sealer \ {p} : Holding(q))
    /\ UNCHANGED <<logVars, sealVars, key, attempt, job, crashes>>

(* A lock that is there and young means busy; one that is old, or gone since
   the open, is removed. *)
StatLockNeverStale(p) ==
    /\ pc[p] = "stat"
    /\ Goto(p, IF locked THEN "idle" ELSE "rm")
    /\ UNCHANGED <<logVars, lockVars, sealVars, key, attempt, job, crashes, overlapped>>
StatLock(p) ==
    /\ pc[p] = "stat"
    /\ Goto(p, IF locked /\ p \notin outdating THEN "idle" ELSE "rm")
    /\ UNCHANGED <<logVars, lockVars, sealVars, key, attempt, job, crashes, overlapped>>

NoLock == locked' = FALSE /\ aged' = FALSE /\ outdating' = {}

(* rm(lock, force), whoever's it is by now; then the second attempt. *)
RemoveLock(p) ==
    /\ pc[p] = "rm"
    /\ NoLock
    /\ Goto(p, IF attempt[p] = 0 THEN "open" ELSE "idle")
    /\ attempt' = [attempt EXCEPT ![p] = 1]
    /\ UNCHANGED <<logVars, sealVars, key, job, crashes, overlapped>>

(* Time passes: LOCK_STALE_MS since the lock was created. *)
AgeLock ==
    /\ locked
    /\ ~aged
    /\ aged' = TRUE
    /\ UNCHANGED <<logVars, locked, outdating, sealVars, key, pc, attempt, job, crashes,
                   overlapped>>

-----------------------------------------------------------------------------
(* sealPending, past acquire *)

ReadLast(p) ==
    /\ pc[p] = "last"
    /\ Goto(p, "scan")
    /\ job' = [job EXCEPT ![p] = [NoJob EXCEPT !.last = LastSeal,
                                               !.offsets = LastSeal.offsets,
                                               !.todo = File]]
    /\ UNCHANGED <<logVars, lockVars, sealVars, key, attempt, crashes, overlapped>>

(* One session file: stat, then the bytes up to that size. *)
Scan(p, f) ==
    /\ pc[p] = "scan"
    /\ f \in job[p].todo
    /\ \E to \in ReadTo(f, job[p].offsets) :
        job' = [job EXCEPT
                   ![p].offsets[f] = to,
                   ![p].found = @ \cup EventsBetween(f, From(f, job[p].offsets), Len(log[f])),
                   ![p].todo = @ \ {f}]
    /\ UNCHANGED <<logVars, lockVars, sealVars, key, pc, attempt, crashes, overlapped>>

EndScanAlways(p) ==
    /\ pc[p] = "scan"
    /\ job[p].todo = {}
    /\ Goto(p, "key")
    /\ UNCHANGED <<logVars, lockVars, sealVars, key, attempt, job, crashes, overlapped>>
EndScan(p) ==
    /\ pc[p] = "scan"
    /\ job[p].todo = {}
    /\ Goto(p, IF job[p].found = {} THEN "release" ELSE "key")
    /\ UNCHANGED <<logVars, lockVars, sealVars, key, attempt, job, crashes, overlapped>>

(* loadOrCreateKey: read the key file.  One that is not a whole key throws,
   which ends sealPending through its finally. *)
ReadKey(p) ==
    /\ pc[p] = "key"
    /\ Goto(p, IF key = NoKey THEN "mkkey" ELSE IF key = HalfKey THEN "release" ELSE "append")
    /\ job' = [job EXCEPT ![p].signer = IF key = HalfKey THEN NoKey ELSE key]
    /\ UNCHANGED <<logVars, lockVars, sealVars, key, attempt, crashes, overlapped>>

(* writeFile(file, ..., flag wx) opens the key file; EEXIST reads theirs. *)
CreateKeyAnyway(p) ==
    /\ pc[p] = "mkkey"
    /\ key' = HalfKey
    /\ Goto(p, "wrkey")
    /\ UNCHANGED <<logVars, lockVars, sealVars, attempt, job, crashes, overlapped>>
CreateKey(p) ==
    /\ pc[p] = "mkkey"
    /\ IF key = NoKey
       THEN key' = HalfKey /\ Goto(p, "wrkey")
       ELSE Goto(p, "key") /\ UNCHANGED key
    /\ UNCHANGED <<logVars, lockVars, sealVars, attempt, job, crashes, overlapped>>

WriteKey(p) ==
    /\ pc[p] = "wrkey"
    /\ key' = p
    /\ Goto(p, "append")
    /\ job' = [job EXCEPT ![p].signer = p]
    /\ UNCHANGED <<logVars, lockVars, sealVars, attempt, crashes, overlapped>>

(* The seal of what was found, on top of the seal that was read. *)
NewSeal(p) == [seq     |-> job[p].last.seq + 1,
               head    |-> Append(job[p].last.head, job[p].found),
               offsets |-> job[p].offsets,
               key     |-> job[p].signer]

(* appendFile(seals.jsonl, line) *)
AppendSeal(p) ==
    /\ pc[p] = "append"
    /\ seals' = Written(SealLine(NewSeal(p)))
    /\ unended' = FALSE
    /\ Goto(p, "release")
    /\ UNCHANGED <<logVars, lockVars, tears, key, attempt, job, crashes, overlapped>>

(* It throws part way (the disk is full): some of the line is in the file,
   perhaps all of it but the newline. *)
TearSeal(p) ==
    /\ pc[p] = "append"
    /\ tears < MaxTears
    /\ \E line \in {SealLine(NewSeal(p)), DamagedLine} : seals' = Written(line)
    /\ unended' = TRUE
    /\ tears' = tears + 1
    /\ Goto(p, "release")
    /\ UNCHANGED <<logVars, lockVars, key, attempt, job, crashes, overlapped>>

(* finally: rm(lock, force), whoever's it is by now. *)
Release(p) ==
    /\ pc[p] = "release"
    /\ NoLock
    /\ Goto(p, "idle")
    /\ job' = [job EXCEPT ![p] = NoJob]
    /\ UNCHANGED <<logVars, sealVars, key, attempt, crashes, overlapped>>

(* The process is killed; the lock file stays. *)
Crash(p) ==
    /\ pc[p] # "idle"
    /\ crashes < MaxCrashes
    /\ Goto(p, "idle")
    /\ job' = [job EXCEPT ![p] = NoJob]
    /\ crashes' = crashes + 1
    /\ UNCHANGED <<logVars, lockVars, sealVars, key, attempt, overlapped>>

-----------------------------------------------------------------------------
Init ==
    /\ log = [f \in File |-> <<>>]
    /\ tail = [f \in File |-> FALSE]
    /\ cleared = {}
    /\ nextEvent = 1
    /\ locked = FALSE
    /\ aged = FALSE
    /\ outdating = {}
    /\ seals = <<>>
    /\ unended = FALSE
    /\ key = NoKey
    /\ pc = [p \in Sealer |-> "idle"]
    /\ attempt = [p \in Sealer |-> 0]
    /\ job = [p \in Sealer |-> NoJob]
    /\ recorded = {}
    /\ crashes = 0
    /\ tears = 0
    /\ clears = 0
    /\ overlapped = FALSE

(* What a running sealer does, unless it is killed or a write of it fails. *)
Run(p) ==
    \/ TryCreate(p)
    \/ StatLock(p)
    \/ RemoveLock(p)
    \/ ReadLast(p)
    \/ \E f \in File : Scan(p, f)
    \/ EndScan(p)
    \/ ReadKey(p)
    \/ CreateKey(p)
    \/ WriteKey(p)
    \/ AppendSeal(p)
    \/ Release(p)

Next ==
    \/ \E f \in File : BeginLine(f) \/ EndLine(f) \/ EndDamagedLine(f) \/ ClearSession(f)
    \/ \E p \in Sealer : Start(p) \/ Run(p) \/ TearSeal(p) \/ Crash(p)
    \/ AgeLock

Spec == Init /\ [][Next]_vars

(* A running process takes its next step, time passes, and sessions keep
   ending, so that a background pass calls sealPending again and again. *)
Fairness ==
    /\ \A p \in Sealer : WF_vars(Start(p)) /\ WF_vars(Run(p))
    /\ WF_vars(AgeLock)

FairSpec == Spec /\ Fairness

-----------------------------------------------------------------------------
(* Properties. *)

JobType == [last : Seal, offsets : [File -> Nat], found : SUBSET Event,
            todo : SUBSET File, signer : Key]

(* The types of the files, of the lock and of each sealer's locals; a sealer is
   never past both attempts of acquire (seal.ts:187-203). *)
TypeOK ==
    /\ log \in [File -> Seq(Event \cup {Damage})]
    /\ tail \in [File -> BOOLEAN]
    /\ cleared \subseteq File
    /\ nextEvent \in 1..MaxEvents + 1
    /\ recorded \subseteq 1 .. nextEvent - 1
    /\ locked \in BOOLEAN
    /\ aged \in BOOLEAN
    /\ outdating \subseteq Sealer
    /\ seals \in Seq([ok : BOOLEAN, seal : Seal])
    /\ unended \in BOOLEAN
    /\ unended => seals # <<>>
    /\ key \in Key \cup {HalfKey}
    /\ pc \in [Sealer -> Status]
    /\ attempt \in [Sealer -> {0, 1}]
    /\ job \in [Sealer -> JobType]
    /\ crashes \in Nat
    /\ tears \in Nat
    /\ clears \in Nat
    /\ overlapped \in BOOLEAN

(* The good lines of seals.jsonl, with no other good line between them. *)
Neighbours(i, j) ==
    i < j /\ i \in GoodLines /\ j \in GoodLines /\ \A k \in GoodLines : ~(i < k /\ k < j)

(* Whatever the other sealers do, the head of every seal has folded in every
   event that stands before its offsets: nothing written before the place the
   next seal reads from is ever left unsealed (seal.ts:217-250).  A file that
   `omnodex clear` removed starts again and is excepted. *)
NothingSkipped ==
    \A i \in GoodLines : \A f \in File \ cleared :
        EventsBetween(f, 0, seals[i].seal.offsets[f]) \subseteq Folded(seals[i].seal.head)

(* Along the chain that ends in a seal, no event is folded in twice, and the
   sequence number counts the seals of that chain (seal.ts:259-264). *)
SealedOnce ==
    \A i \in GoodLines : LET s == seals[i].seal IN
        /\ s.seq = Len(s.head)
        /\ \A m, n \in DOMAIN s.head : m # n => s.head[m] \cap s.head[n] = {}

(* Every seal is signed with the key that seal-key.json holds, the one key
   buildBundle can put in a bundle (seal.ts:88-95, bundle.ts:118-120). *)
OneKey == \A i \in GoodLines : seals[i].seal.key = key

(* The seals make one chain under one key: while no two sealers were past
   acquire together, each seal continues from the one before it in the file.
   What verifyBundle reports of a `gap`, a `chain_break` (verify.ts:150-155) or
   a signature by another key never happens to an untouched file, across
   crashes, stale locks, torn appends and races for the key. *)
ChainUnforked ==
    /\ OneKey
    /\ ~overlapped =>
        \A i, j \in DOMAIN seals : Neighbours(i, j) =>
            /\ seals[j].seal.seq = seals[i].seal.seq + 1
            /\ \E S \in SUBSET Event : seals[j].seal.head = Append(seals[i].seal.head, S)

(* Everything written is sealed again and again, unless the process that
   created the key file died before it wrote the key, after which no seal is
   ever made. *)
Pending == \E f \in File \ cleared : ~(EventsBetween(f, 0, Len(log[f])) \subseteq Folded(LastSeal.head))
KeyLost == key = HalfKey /\ \A p \in Sealer : pc[p] # "wrkey"
EventuallySealed == []<>(~Pending) \/ <>[]KeyLost

(* Without a torn append, sealing implements the ledger of SealedLedger. *)
Heads == {seals[i].seal.head : i \in GoodLines}
Ledger == INSTANCE SealedLedger WITH heads <- Heads
LedgerSpec == Ledger!Spec
=============================================================================
