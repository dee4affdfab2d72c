--------------------------- MODULE ContainerSpool ---------------------------
(***************************************************************************)
(* Capture in a cloud agent's container:                                   *)
(* packages/hooks-provider/src/container-hook.ts.                          *)
(*                                                                         *)
(* A hook is one process that brings at most one event.  It appends the    *)
(* event to the spool and, at the end of a turn or when the spool is       *)
(* large, sends what is on disk: it renames the spool, the remainders of   *)
(* earlier flushes and the claims of killed ones to claims of its own,     *)
(* reads them, posts them in batches, writes what it could not send to a   *)
(* remainder, and unlinks its claims.  Hooks run side by side, guarded by  *)
(* nothing but the renames, and can be killed anywhere.                    *)
(*   - One step is one system call, or one request and its answer.         *)
(*   - A file is what a descriptor or a name refers to; it stays when it   *)
(*     is renamed.  Its events are a set, each of size 1.                  *)
(*   - Sealing and shaping of an event, its duration and status.json are   *)
(*     left out: nothing here depends on them.                             *)
(***************************************************************************)
EXTENDS Integers, FiniteSets, FiniteSetsExt

CONSTANTS
    Hook,        \* hook processes at a time
    File,        \* files; a bound on those that exist at a time
    None,        \* no file
    MaxSpool,    \* SPOOL_FLUSH_BYTES
    MaxBatch,    \* MAX_BATCH_EVENTS
    MaxPending,  \* MAX_PENDING_BYTES
    MaxEvents,   \* bound: events that happen
    MaxFaults    \* bound: hooks that are killed or stand still for STALE_CLAIM_MS, and
                 \* batches the cloud does not take

ASSUME SpoolAssumption ==
    /\ None \notin File
    /\ MaxSpool \in Nat \ {0} /\ MaxBatch \in Nat \ {0} /\ MaxPending \in Nat \ {0}
    /\ MaxEvents \in Nat /\ MaxFaults \in Nat
    /\ {"none", "spool", "pending", "left"} \cap Hook = {}

VARIABLES
    happened,  \* the number of events so far
    file,      \* file[f]: its name, its events, whether it is STALE_CLAIM_MS old
    hook,      \* the locals of each hook
    accepted,  \* the cloud: events it has
    dropped,   \* events refused for good, over the limit, or never spooled
    faults,    \* counter for the bound
    again,     \* history: events of a claim whose flush was killed, took longer than
               \* STALE_CLAIM_MS or had not stamped it, or of a request with no answer
    twice,     \* history: other events the cloud was given again
    late       \* history: events written to a file that had been read or unlinked

spoolVars == <<happened, file, hook, accepted, dropped, faults, again, twice, late>>

-----------------------------------------------------------------------------
(* Files. *)

NoFile == [name |-> "none", events |-> {}, old |-> FALSE]

Named(names) == {f \in File : file[f].name \in names}

(* A claim is named after the flush it is of; one that was left by a killed
   flush is "left". *)
ClaimNames == Hook \cup {"left"}

(* The paths a listing returns, each with the file it names then. *)
Paths(names) == {[file |-> f, name |-> file[f].name] : f \in Named(names)}

Exists(path) == file[path.file].name = path.name

(* The time of a file that is gone is now. *)
Old(path) == Exists(path) /\ file[path.file].old

Size(fs) == MapThenSumSet(LAMBDA f : Cardinality(file[f].events), fs)

Idle == [at |-> "idle", event |-> 0, open |-> None, todo |-> {}, take |-> None, stale |-> FALSE,
         back |-> "idle", claimed |-> {}, read |-> {}, unsent |-> {}, bytes |-> 0]

(* A file that has no name and that no hook holds open or has listed. *)
Refers(h, f) ==
    \/ hook[h].open = f \/ f \in hook[h].claimed
    \/ hook[h].take # None /\ hook[h].take.file = f
    \/ \E path \in hook[h].todo : path.file = f

Unused == {f \in Named({"none"}) : \A h \in Hook : ~Refers(h, f)}

(* One of them: which one makes no difference. *)
New == {f \in Unused : f = CHOOSE g \in Unused : TRUE}

(* A step that changes the hook's locals, and one that changes nothing else. *)
To(h, new) == hook' = [hook EXCEPT ![h] = new]

Only(h, new) ==
    To(h, new) /\ UNCHANGED <<happened, file, accepted, dropped, faults, again, twice, late>>

-----------------------------------------------------------------------------
(* A hook call. *)

(* appendToSpool: the spool is opened, and made if it is missing.  (The hook of
   a session's end, which appends and flushes, is this one and then Stop.) *)
Capture(h) ==
    /\ hook[h].at = "idle" /\ happened < MaxEvents
    /\ happened' = happened + 1
    /\ \E f \in IF Named({"spool"}) # {} THEN Named({"spool"}) ELSE New :
         /\ file' = [file EXCEPT ![f].name = "spool"]
         /\ To(h, [Idle EXCEPT !.at = "append", !.event = happened + 1, !.open = f])
    /\ UNCHANGED <<accepted, dropped, faults, again, twice, late>>

(* What is written goes to the file that was opened, whatever it is by now. *)
Write(f, events) ==
    /\ file' = IF file[f].name = "none" THEN file
               ELSE [file EXCEPT ![f].events = @ \cup events, ![f].old = FALSE]
    /\ late' = IF file[f].name = "none" THEN late \cup events ELSE late

AppendEvent(h) ==
    /\ hook[h].at = "append"
    /\ Write(hook[h].open, {hook[h].event})
    /\ To(h, [Idle EXCEPT !.at = "due"])
    /\ UNCHANGED <<happened, accepted, dropped, faults, again, twice>>

(* handleHookPayload: a large spool is flushed at once. *)
Due(h) ==
    /\ hook[h].at = "due"
    /\ Only(h, [Idle EXCEPT !.at = IF Size(Named({"spool"})) >= MaxSpool THEN "list" ELSE "idle"])

(* The end of a turn brings no event. *)
Stop(h) == hook[h].at = "idle" /\ Only(h, [Idle EXCEPT !.at = "list"])

-----------------------------------------------------------------------------
(* claimPending. *)

ListClaims(h) ==
    /\ hook[h].at = "list"
    /\ Only(h, [Idle EXCEPT !.at = "claims", !.todo = Paths(ClaimNames)])

(* The locals when a path that was listed is done with, or is to be taken. *)
Past(h, path) == [hook[h] EXCEPT !.todo = @ \ {path}]

Take(h, path) ==
    [Past(h, path) EXCEPT !.at = "rename", !.take = path, !.stale = Old(path), !.back = hook[h].at]

(* An old claim was left by a killed flush. *)
TakeAnyClaim(h) ==
    hook[h].at = "claims" /\ \E path \in hook[h].todo : Only(h, Take(h, path))
StatClaim(h) ==
    /\ hook[h].at = "claims"
    /\ \E path \in hook[h].todo : Only(h, IF Old(path) THEN Take(h, path) ELSE Past(h, path))

ListPending(h) ==
    /\ hook[h].at = "claims" /\ hook[h].todo = {}
    /\ Only(h, [hook[h] EXCEPT !.at = "pendings", !.todo = Paths({"pending"})])

NextPending(h) ==
    hook[h].at = "pendings" /\ \E path \in hook[h].todo : Only(h, Take(h, path))

(* The spool comes last, if there is anything in it.  A flush that has claimed
   nothing ends. *)
Claims(h, fs) == {[file |-> f, name |-> h] : f \in fs}

ReadClaims(h, new) ==
    IF new.claimed = {} THEN Idle ELSE [new EXCEPT !.at = "read", !.todo = Claims(h, new.claimed)]

StatSpool(h) ==
    /\ hook[h].at = "pendings" /\ hook[h].todo = {}
    /\ Only(h, IF Size(Named({"spool"})) > 0 THEN [hook[h] EXCEPT !.at = "spool"]
               ELSE ReadClaims(h, hook[h]))

(* rename.  A claim that was seen old and is taken from a flush that runs may
   be sent by both. *)
Rename(h, f, back) ==
    /\ file' = [file EXCEPT ![f].name = h]
    /\ To(h, [hook[h] EXCEPT !.at = "stamp", !.take = [file |-> f, name |-> h], !.back = back,
                             !.stale = FALSE, !.claimed = @ \cup {f}])
    /\ again' = IF file[f].name \in Hook /\ hook[h].stale THEN again \cup file[f].events ELSE again
    /\ UNCHANGED <<happened, accepted, dropped, faults, twice, late>>

Claim(h) ==
    /\ hook[h].at = "rename" /\ Exists(hook[h].take)
    /\ Rename(h, hook[h].take.file, hook[h].back)

ClaimSpool(h) ==
    hook[h].at = "spool" /\ \E f \in Named({"spool"}) : Rename(h, f, "spooled")

(* Another flush was first. *)
Lost(h) ==
    \/ /\ hook[h].at = "rename" /\ ~Exists(hook[h].take)
       /\ Only(h, [hook[h] EXCEPT !.at = hook[h].back, !.take = None, !.stale = FALSE])
    \/ /\ hook[h].at = "spool" /\ Named({"spool"}) = {}
       /\ Only(h, ReadClaims(h, hook[h]))

(* utimes: a renamed file keeps its time until then, and then has the time at
   which the flush began. *)
Stamp(h) ==
    LET new == [hook[h] EXCEPT !.at = hook[h].back, !.take = None]
    IN  /\ hook[h].at = "stamp"
        /\ file' = IF Exists(hook[h].take) THEN [file EXCEPT ![hook[h].take.file].old = FALSE]
                   ELSE file
        /\ To(h, IF new.at = "spooled" THEN ReadClaims(h, new) ELSE new)
        /\ UNCHANGED <<happened, accepted, dropped, faults, again, twice, late>>

-----------------------------------------------------------------------------
(* flushSpool. *)

(* When all was sent, or there was nothing to send, the claims go. *)
Send(h, new) ==
    IF new.unsent # {} THEN [new EXCEPT !.at = "send"]
    ELSE [new EXCEPT !.at = "unlink", !.todo = Claims(h, new.claimed)]

(* readClaimed: a claim that another flush has taken over is skipped. *)
ReadClaim(h) ==
    /\ hook[h].at = "read"
    /\ \E path \in hook[h].todo :
         LET events == hook[h].read \cup IF Exists(path) THEN file[path.file].events ELSE {}
             new    == [Past(h, path) EXCEPT !.read = events]
         IN  Only(h, IF new.todo # {} THEN new ELSE Send(h, [new EXCEPT !.unsent = events]))

(* batchLines, without the order of events. *)
Batches(events) ==
    {b \in SUBSET events : Cardinality(b) = MaxBatch \/ (b = events /\ Cardinality(b) < MaxBatch)}

Sent(h, b) == Send(h, [hook[h] EXCEPT !.unsent = @ \ b])

Accept(b) ==
    /\ accepted' = accepted \cup b
    /\ twice' = twice \cup ((accepted \cap b) \ again)

Post(h) ==
    /\ hook[h].at = "send"
    /\ \E b \in Batches(hook[h].unsent) : Accept(b) /\ To(h, Sent(h, b))
    /\ UNCHANGED <<happened, file, dropped, faults, again, late>>

(* batches.slice(i): a batch that failed, and those after it. *)
UnsentAfter(h, b) == hook[h].unsent \ b
Unsent(h, b) == hook[h].unsent

(* The cloud refuses a batch for good, or no answer comes through fetch nor curl,
   or it asks for a retry: then the rest is kept, though it may have the batch. *)
PostFails(h) ==
    /\ hook[h].at = "send" /\ faults < MaxFaults
    /\ faults' = faults + 1
    /\ \E b \in Batches(hook[h].unsent) :
         \/ /\ dropped' = dropped \cup b
            /\ To(h, Sent(h, b))
            /\ UNCHANGED <<accepted, again, twice>>
         \/ /\ To(h, [hook[h] EXCEPT !.at = "keep", !.unsent = Unsent(h, b)])
            /\ \/ Accept(b) /\ again' = again \cup b
               \/ UNCHANGED <<accepted, again, twice>>
            /\ UNCHANGED dropped
    /\ UNCHANGED <<happened, file, late>>

(* keepPending: what is over the limit is dropped, of this flush first and then
   of earlier remainders. *)
Keep(h) ==
    /\ hook[h].at = "keep"
    /\ \E kept \in SUBSET hook[h].unsent :
         /\ Cardinality(kept) = MaxPending \/ (kept = hook[h].unsent /\ Cardinality(kept) < MaxPending)
         /\ To(h, [hook[h] EXCEPT !.at = "trim", !.unsent = kept, !.todo = Paths({"pending"}),
                                  !.bytes = Size(Named({"pending"})) + Cardinality(kept)])
         /\ dropped' = dropped \cup (hook[h].unsent \ kept)
    /\ UNCHANGED <<happened, file, accepted, faults, again, twice, late>>

(* A remainder that was taken meanwhile still counts. *)
Trim(h) ==
    /\ hook[h].at = "trim" /\ hook[h].bytes > MaxPending
    /\ \E path \in hook[h].todo :
         IF Exists(path)
         THEN /\ file' = [file EXCEPT ![path.file] = NoFile]
              /\ dropped' = dropped \cup file[path.file].events
              /\ To(h, [Past(h, path) EXCEPT !.bytes = @ - Cardinality(file[path.file].events)])
         ELSE To(h, Past(h, path)) /\ UNCHANGED <<file, dropped>>
    /\ UNCHANGED <<happened, accepted, faults, again, twice, late>>

(* The remainder is created empty, and then written. *)
OpenPending(h) ==
    /\ hook[h].at = "trim" /\ (hook[h].todo = {} \/ hook[h].bytes <= MaxPending)
    /\ \E f \in New :
         /\ file' = [file EXCEPT ![f].name = "pending"]
         /\ To(h, [hook[h] EXCEPT !.at = "fill", !.open = f, !.todo = {}, !.bytes = 0])
    /\ UNCHANGED <<happened, accepted, dropped, faults, again, twice, late>>

FillPending(h) ==
    /\ hook[h].at = "fill"
    /\ Write(hook[h].open, hook[h].unsent)
    /\ To(h, [hook[h] EXCEPT !.at = "unlink", !.open = None, !.todo = Claims(h, hook[h].claimed)])
    /\ UNCHANGED <<happened, accepted, dropped, faults, again, twice>>

(* What came into a claim after it was read goes with it. *)
UnlinkClaim(h) ==
    /\ hook[h].at = "unlink"
    /\ \E path \in hook[h].todo :
         /\ To(h, IF hook[h].todo = {path} THEN Idle ELSE Past(h, path))
         /\ IF Exists(path)
            THEN /\ file' = [file EXCEPT ![path.file] = NoFile]
                 /\ late' = late \cup (file[path.file].events \ hook[h].read)
            ELSE UNCHANGED <<file, late>>
    /\ UNCHANGED <<happened, accepted, dropped, faults, again, twice>>

-----------------------------------------------------------------------------
(* A hook is killed, or fails at a write: its claims are left, under paths others
   may have listed, an event it did not spool is gone, and the cloud may have a
   batch that was on its way. *)
LeftBy(h, path) == IF path # None /\ path.name = h THEN [path EXCEPT !.name = "left"] ELSE path

Kill(h) ==
    /\ hook[h].at # "idle" /\ faults < MaxFaults
    /\ faults' = faults + 1
    /\ file' = [f \in File |-> IF file[f].name = h THEN [file[f] EXCEPT !.name = "left"] ELSE file[f]]
    /\ hook' = [g \in Hook |-> IF g = h THEN Idle
                               ELSE [hook[g] EXCEPT !.todo = {LeftBy(h, path) : path \in @},
                                                    !.take = LeftBy(h, @)]]
    /\ dropped' = dropped \cup IF hook[h].at = "append" THEN {hook[h].event} ELSE {}
    /\ \E b \in {{}} \cup IF hook[h].at = "send" THEN Batches(hook[h].unsent) ELSE {} :
         /\ Accept(b)
         /\ again' = again \cup b \cup
                       (hook[h].read \ IF hook[h].at = "unlink" THEN {} ELSE hook[h].unsent)
    /\ UNCHANGED <<happened, late>>

(* STALE_CLAIM_MS have passed since a file's time.  The claim of a flush that runs
   gets there only if the flush stands still. *)
Age(f) ==
    /\ file[f].name # "none" /\ ~file[f].old
    /\ \/ file[f].name \notin Hook /\ UNCHANGED faults
       \/ file[f].name \in Hook /\ faults < MaxFaults /\ faults' = faults + 1
    /\ file' = [file EXCEPT ![f].old = TRUE]
    /\ UNCHANGED <<happened, hook, accepted, dropped, again, twice, late>>

-----------------------------------------------------------------------------
SpoolInit ==
    /\ happened = 0 /\ faults = 0
    /\ file = [f \in File |-> NoFile]
    /\ hook = [h \in Hook |-> Idle]
    /\ accepted = {} /\ dropped = {} /\ again = {} /\ twice = {} /\ late = {}

HookStep(h) ==
    \/ AppendEvent(h) \/ Due(h)
    \/ ListClaims(h) \/ StatClaim(h) \/ ListPending(h) \/ NextPending(h) \/ StatSpool(h)
    \/ Claim(h) \/ ClaimSpool(h) \/ Lost(h) \/ Stamp(h)
    \/ ReadClaim(h) \/ Post(h) \/ PostFails(h)
    \/ Keep(h) \/ Trim(h) \/ OpenPending(h) \/ FillPending(h) \/ UnlinkClaim(h)

SpoolNext ==
    \/ \E h \in Hook : Capture(h) \/ Stop(h) \/ HookStep(h) \/ Kill(h)
    \/ \E f \in File : Age(f)

SpoolSpec == SpoolInit /\ [][SpoolNext]_spoolVars

-----------------------------------------------------------------------------
(* Properties. *)

(* Events that only a hook has. *)
InHand == {hook[h].event : h \in {g \in Hook : hook[g].at = "append"}}

OnDisk == UNION {file[f].events : f \in File}

(* container-hook.ts:24-26: "Events that could not be sent stay on disk and go
   out with the next flush; they are lost only if the container is destroyed
   first."  Every event is on disk until the cloud has it or it is dropped,
   though flushes overlap and are killed; but for what is written to a file that
   a flush has read. *)
KeptUntilSent == 1..happened \subseteq InHand \cup OnDisk \cup accepted \cup dropped \cup late

(* Lines 275-276, "two flushes never send the same file": the cloud is given an
   event again only after a kill, a lost answer, or a flush that looked
   abandoned. *)
SentOnce == twice = {}

=============================================================================
