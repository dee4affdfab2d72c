---------------------------- MODULE SegmentSync ----------------------------
(***************************************************************************)
(* Segmented sync: packages/sync-encryptor/src/segment-sync.ts, and what   *)
(* segment-transport.ts asks of the cloud.                                 *)
(*                                                                         *)
(* One sync runs at a time (the sync lock, see BackgroundPass).  It reads  *)
(* the sessions of the read model and sync-segments.json, takes changed    *)
(* and gone sessions out of their segments, places what is new, uploads    *)
(* each segment that differs under a new id, commits the list of ids and   *)
(* saves the manifest.  Recording, retention and `omnodex clear` go on     *)
(* beside it, and it can end at any step.  The abstractions:               *)
(*   - A slice's hash is the number of changes its session has seen, and   *)
(*     its JSON length is that number too: a session only grows.  A pause  *)
(*     or a monitoring change is placed like a session and is not told     *)
(*     apart from one.                                                     *)
(*   - A segment's raw_bytes is the sum over its sessions, its sessions    *)
(*     are a set, and its other byte counts are left out.                  *)
(*   - An id is random: any id that nothing refers to.                     *)
(*   - The cloud forgets an upload no commit listed when the sync that     *)
(*     made it is over; no one else knows its id.                          *)
(***************************************************************************)
EXTENDS Integers, Sequences, FiniteSets, Functions

CONSTANTS
    Session,     \* sessions of this machine, numbered in the order of rows
    Id,          \* segment ids; a bound, since only those in use are told apart
    NoId,        \* the id of a segment that was never uploaded
    Label,       \* machine labels
    SealBytes,   \* SEGMENT_SEAL_BYTES
    MaxChanges,  \* bound: changes of one session
    MaxRecorded, \* bound: changes of all sessions
    MaxFailures  \* bound: syncs that end early, and manifests lost

ASSUME SegmentAssumption ==
    /\ Session \subseteq Nat
    /\ IsFiniteSet(Session)
    /\ NoId \notin Id
    /\ SealBytes \in Nat \ {0}

ASSUME SegmentBounds ==
    /\ MaxChanges \in Nat /\ MaxRecorded \in Nat
    /\ MaxFailures \in Nat

VARIABLES
    changes,   \* changes[s]: how often session s changed; 0 before it starts
    kept,      \* sessions in the event log and in the window
    old,       \* sessions whose last activity is past the window
    label,     \* the machine label
    manifest,  \* sync-segments.json
    held,      \* the cloud: content of each segment it holds, committed or not
    visible,   \* the cloud: the ids of the last commit
    shownAs,   \* the cloud: the label of the last commit
    sync,      \* locals of runOnce
    failures,  \* counter for the bound
    behind     \* history: the manifest does not record the cloud's last commit

localVars == <<changes, kept, old, label>>
cloudVars == <<held, visible, shownAs>>
vars      == <<localVars, manifest, cloudVars, sync, failures, behind>>

-----------------------------------------------------------------------------
(* Slices, segments and manifests. *)

(* The slices of some sessions: what a segment holds and what a hash names. *)
Slices == UNION {[S -> 1..MaxChanges] : S \in SUBSET Session}

Segment == [id : Id \cup {NoId}, sealed : BOOLEAN, dirty : BOOLEAN, sessions : SUBSET Session]

Manifest == [segments : Seq(Segment), hash : Slices, label : Label \cup {NoId}]

EmptyManifest == [segments |-> <<>>, hash |-> <<>>, label |-> NoId]

Ids(segments) == {segments[i].id : i \in DOMAIN segments}

IdList(segments) == [i \in DOMAIN segments |-> segments[i].id]

(* The sessions of the window, read now. *)
LocalSlices == [s \in kept |-> changes[s]]

(* raw_bytes of a segment. *)
RawBytes(segment, slices) == SumFunctionOnSet(slices, segment.sessions)

(* The sessions of a segment that did not change: `keep`. *)
Unchanged(segment, hash, slices) ==
    {s \in segment.sessions \cap DOMAIN slices : slices[s] = hash[s]}

(* Some positions of a list, in its order. *)
Increasing(positions) ==
    CHOOSE f \in [1..Cardinality(positions) -> positions] :
        \A i, j \in DOMAIN f : i < j => f[i] < f[j]

(* The segments without their changed and gone sessions; what is left of a
   segment that lost some is to be uploaded, an emptied one is dropped. *)
Remaining(m, slices) ==
    LET Without(segment) ==
            LET keep == Unchanged(segment, m.hash, slices)
            IN  [segment EXCEPT !.sessions = keep, !.dirty = (keep # segment.sessions)]
        stays == {i \in DOMAIN m.segments : Unchanged(m.segments[i], m.hash, slices) # {}}
        order == Increasing(stays)
    IN  [n \in DOMAIN order |-> Without(m.segments[order[n]])]

Placed(segments) == UNION {segments[i].sessions : i \in DOMAIN segments}

Open(segments) == {i \in DOMAIN segments : ~segments[i].sealed}

First(indices) == CHOOSE i \in indices : \A j \in indices : i <= j

-----------------------------------------------------------------------------
(* What goes on beside a sync. *)

NoSync == [at |-> "idle", base |-> EmptyManifest, slices |-> <<>>, toPlace |-> {},
           segments |-> <<>>, label |-> NoId]

(* A session starts, or its rows change; a session that was quiet or cleared
   is back. *)
Record(s) ==
    /\ changes[s] < MaxChanges
    /\ SumFunction(changes) < MaxRecorded
    /\ changes' = [changes EXCEPT ![s] = @ + 1]
    /\ kept' = kept \cup {s}
    /\ old' = old \ {s}
    /\ UNCHANGED <<label, manifest, cloudVars, sync, failures, behind>>

(* The window passes a session's last activity, as it does for the cloud. *)
GrowOld(s) ==
    /\ changes[s] > 0
    /\ s \notin old
    /\ old' = old \cup {s}
    /\ kept' = kept \ {s}
    /\ UNCHANGED <<changes, label, manifest, cloudVars, sync, failures, behind>>

(* `omnodex clear --session`. *)
Clear(s) ==
    /\ s \in kept
    /\ kept' = kept \ {s}
    /\ UNCHANGED <<changes, old, label, manifest, cloudVars, sync, failures, behind>>

(* The user names the machine: omnodex connect --machine-label. *)
Relabel ==
    /\ \E l \in Label \ {label} : label' = l
    /\ UNCHANGED <<changes, kept, old, manifest, cloudVars, sync, failures, behind>>

(* The cloud removes a committed segment once all its sessions are old. *)
Retire(id) ==
    /\ id \in visible
    /\ DOMAIN held[id] \subseteq old
    /\ held' = Restrict(held, DOMAIN held \ {id})
    /\ visible' = visible \ {id}
    /\ UNCHANGED <<localVars, manifest, shownAs, sync, failures, behind>>

(* sync-segments.json is lost, damaged, or of another stream. *)
LoseManifest ==
    /\ failures < MaxFailures
    /\ manifest # EmptyManifest
    /\ failures' = failures + 1
    /\ manifest' = EmptyManifest
    /\ behind' = TRUE
    /\ UNCHANGED <<localVars, cloudVars, sync>>

-----------------------------------------------------------------------------
(* runOnce. *)

(* An attempt at `slices`, from the manifest `m`: steps 1 and 2. *)
AttemptAll(m, slices, l) ==
    [at |-> "place", base |-> m, slices |-> slices, label |-> l,
     segments |-> Remaining(m, slices), toPlace |-> DOMAIN slices]
Attempt(m, slices, l) ==
    [at |-> "place", base |-> m, slices |-> slices, label |-> l,
     segments |-> Remaining(m, slices),
     toPlace |-> DOMAIN slices \ Placed(Remaining(m, slices))]

Begin ==
    /\ sync.at = "idle"
    /\ sync' = Attempt(manifest, LocalSlices, label)
    /\ UNCHANGED <<localVars, manifest, cloudVars, failures, behind>>

NextSlice == First(sync.toPlace)

(* The next slice would take the open segment past the seal size. *)
OverfullAlready ==
    \E i \in Open(sync.segments) :
        /\ i = First(Open(sync.segments))
        /\ RawBytes(sync.segments[i], sync.slices) > SealBytes
Overfull ==
    \E i \in Open(sync.segments) :
        /\ i = First(Open(sync.segments))
        /\ RawBytes(sync.segments[i], sync.slices) > 0
        /\ RawBytes(sync.segments[i], sync.slices) + sync.slices[NextSlice] > SealBytes

(* The next slice goes into the open segment. *)
PlaceInOpen ==
    /\ sync.at = "place"
    /\ sync.toPlace # {}
    /\ Open(sync.segments) # {}
    /\ ~Overfull
    /\ LET i == First(Open(sync.segments))
       IN  sync' = [sync EXCEPT !.toPlace = @ \ {NextSlice},
                                !.segments[i].sessions = @ \cup {NextSlice},
                                !.segments[i].dirty = TRUE]
    /\ UNCHANGED <<localVars, manifest, cloudVars, failures, behind>>

(* The open segment, if there is one, is sealed and the next slice opens a
   new one. *)
PlaceInNew ==
    /\ sync.at = "place"
    /\ sync.toPlace # {}
    /\ Open(sync.segments) = {} \/ Overfull
    /\ LET sealed == [i \in DOMAIN sync.segments |-> [sync.segments[i] EXCEPT !.sealed = TRUE]]
           new    == [id |-> NoId, sealed |-> FALSE, dirty |-> TRUE, sessions |-> {NextSlice}]
       IN  sync' = [sync EXCEPT !.toPlace = @ \ {NextSlice},
                                !.segments = Append(sealed, new)]
    /\ UNCHANGED <<localVars, manifest, cloudVars, failures, behind>>

(* A segment that filled up with its last slice is sealed too. *)
EndPlacing ==
    /\ sync.at = "place"
    /\ sync.toPlace = {}
    /\ LET full(i) == RawBytes(sync.segments[i], sync.slices) >= SealBytes
       IN  sync' = [sync EXCEPT
                !.at = "put",
                !.segments = [i \in DOMAIN sync.segments |->
                               [sync.segments[i] EXCEPT !.sealed = @ \/ full(i)]]]
    /\ UNCHANGED <<localVars, manifest, cloudVars, failures, behind>>

Dirty == {i \in DOMAIN sync.segments : sync.segments[i].dirty}

(* newSegmentId: an id nothing refers to. *)
InUse == DOMAIN held \cup Ids(manifest.segments) \cup Ids(sync.base.segments) \cup Ids(sync.segments)

NewId == CHOOSE id \in Id : id \notin InUse

(* putSegment of the next dirty segment: stored, not yet visible. *)
PutInPlace ==
    /\ sync.at = "put"
    /\ Dirty # {}
    /\ ~(Id \subseteq InUse)
    /\ LET i == First(Dirty)
           new == IF sync.segments[i].id = NoId THEN NewId ELSE sync.segments[i].id
           content == Restrict(sync.slices, sync.segments[i].sessions)
       IN  /\ held' = [id \in DOMAIN held \cup {new} |-> IF id = new THEN content ELSE held[id]]
           /\ sync' = [sync EXCEPT !.segments[i].id = new, !.segments[i].dirty = FALSE]
    /\ UNCHANGED <<localVars, manifest, visible, shownAs, failures, behind>>
Put ==
    /\ sync.at = "put"
    /\ Dirty # {}
    /\ ~(Id \subseteq InUse)
    /\ LET i == First(Dirty)
           content == Restrict(sync.slices, sync.segments[i].sessions)
       IN  /\ held' = [id \in DOMAIN held \cup {NewId} |-> IF id = NewId THEN content ELSE held[id]]
           /\ sync' = [sync EXCEPT !.segments[i].id = NewId, !.segments[i].dirty = FALSE]
    /\ UNCHANGED <<localVars, manifest, visible, shownAs, failures, behind>>

Uploaded == sync.at = "put" /\ Dirty = {}

(* `unchanged`: an upload would have put a new id in the list. *)
NothingUploaded ==
    /\ Ids(sync.segments) \subseteq Ids(sync.base.segments)
    /\ sync.base.segments # <<>>
    /\ sync.label = sync.base.label
NothingToCommit ==
    /\ IdList(sync.segments) = IdList(sync.base.segments)
    /\ sync.base.segments # <<>>
    /\ sync.label = sync.base.label

SkipCommit ==
    /\ Uploaded
    /\ NothingToCommit
    /\ sync' = [sync EXCEPT !.at = "same"]
    /\ UNCHANGED <<localVars, manifest, cloudVars, failures, behind>>

(* The cloud holds every id of the list: it shows them and retires the rest. *)
Commit ==
    /\ Uploaded
    /\ ~NothingToCommit
    /\ Ids(sync.segments) \subseteq DOMAIN held
    /\ visible' = Ids(sync.segments)
    /\ held' = Restrict(held, Ids(sync.segments))
    /\ shownAs' = sync.label
    /\ sync' = [sync EXCEPT !.at = "save"]
    /\ behind' = TRUE
    /\ UNCHANGED <<localVars, manifest, failures>>

(* MissingSegmentsError: once more from an empty manifest.  The read model was
   built before, so the slices are the same. *)
StartAgain ==
    /\ Uploaded
    /\ ~NothingToCommit
    /\ ~(Ids(sync.segments) \subseteq DOMAIN held)
    /\ held' = Restrict(held, visible)
    /\ sync' = Attempt(sync.base, sync.slices, sync.label)
    /\ UNCHANGED <<localVars, manifest, visible, shownAs, failures, behind>>
StartAfresh ==
    /\ Uploaded
    /\ ~NothingToCommit
    /\ ~(Ids(sync.segments) \subseteq DOMAIN held)
    /\ sync.base.segments # <<>>
    /\ held' = Restrict(held, visible)
    /\ sync' = Attempt(EmptyManifest, sync.slices, sync.label)
    /\ UNCHANGED <<localVars, manifest, visible, shownAs, failures, behind>>

(* writeManifest. *)
Save ==
    /\ sync.at \in {"save", "same"}
    /\ manifest' = [segments |-> sync.segments, hash |-> sync.slices, label |-> sync.label]
    /\ sync' = NoSync
    /\ behind' = (behind /\ sync.at = "same")
    /\ UNCHANGED <<localVars, cloudVars, failures>>

(* A request or a write fails, the answer to one is lost, or the process is
   killed. *)
Fail ==
    /\ sync.at # "idle"
    /\ failures < MaxFailures
    /\ failures' = failures + 1
    /\ sync' = NoSync
    /\ held' = Restrict(held, visible)
    /\ UNCHANGED <<localVars, manifest, visible, shownAs, behind>>

-----------------------------------------------------------------------------
Init ==
    /\ changes = [s \in Session |-> 0]
    /\ kept = {}
    /\ old = {}
    /\ label \in Label
    /\ manifest = EmptyManifest
    /\ held = <<>>
    /\ visible = {}
    /\ shownAs = NoId
    /\ sync = NoSync
    /\ failures = 0
    /\ behind = FALSE

Local ==
    \/ \E s \in Session : Record(s) \/ GrowOld(s) \/ Clear(s)
    \/ Relabel

SyncStep ==
    \/ PlaceInOpen \/ PlaceInNew \/ EndPlacing
    \/ Put
    \/ SkipCommit \/ Commit \/ StartAfresh
    \/ Save

Next ==
    \/ Local
    \/ \E id \in visible : Retire(id)
    \/ LoseManifest
    \/ Begin
    \/ SyncStep
    \/ Fail

Spec == Init /\ [][Next]_vars

(* A running sync takes its next step, and another one follows: the passes of
   BackgroundPass, the timer of a long-lived process, `omnodex sync`. *)
FairSpec == Spec /\ WF_vars(SyncStep) /\ WF_vars(Begin)

-----------------------------------------------------------------------------
(* Properties. *)

(* Every variable has its type: the state of segment-sync.ts and of the
   cloud's two routes. *)
TypeOK ==
    /\ changes \in [Session -> 0..MaxChanges]
    /\ kept \subseteq Session /\ old \subseteq Session
    /\ label \in Label
    /\ manifest.segments \in Seq(Segment)
    /\ manifest.hash \in Slices
    /\ DOMAIN held \subseteq Id /\ \A id \in DOMAIN held : held[id] \in Slices
    /\ visible \subseteq DOMAIN held
    /\ sync.at \in {"idle", "place", "put", "save", "same"}
    /\ sync.segments \in Seq(Segment)
    /\ sync.slices \in Slices
    /\ sync.toPlace \subseteq DOMAIN sync.slices
    /\ sync.at \in {"save", "same"} => NoId \notin Ids(sync.segments)

(* What the dashboard shows: each session with the changes it includes. *)
Shown == UNION {{<<s, held[id][s]>> : s \in DOMAIN held[id]} : id \in visible}

(* No session is shown twice, at two stages of itself: a commit never keeps a
   segment a moved session left (steps 2, 3 and 6 of runOnce). *)
ShownOnce ==
    \A a, b \in visible : a # b => DOMAIN held[a] \cap DOMAIN held[b] = {}

(* The manifest tells what the cloud holds: a segment it names has the very
   content its hashes describe, even after a sync that ended anywhere, and when
   no commit went unrecorded the cloud shows no segment it does not name. *)
ManifestTrue ==
    /\ \A i \in DOMAIN manifest.segments :
         LET segment == manifest.segments[i]
         IN  segment.id \in DOMAIN held =>
                 held[segment.id] = Restrict(manifest.hash, segment.sessions)
    /\ ~behind => visible \subseteq Ids(manifest.segments)

(* Every session of the manifest is in one segment, one segment at most is
   open, and only a session larger than the seal size makes a segment larger. *)
WellPlaced ==
    LET segments == manifest.segments
        bytes(i) == RawBytes(segments[i], manifest.hash)
    IN  /\ Placed(segments) = DOMAIN manifest.hash
        /\ \A i, j \in DOMAIN segments :
             i # j => segments[i].sessions \cap segments[j].sessions = {}
        /\ Cardinality(Open(segments)) <= 1
        /\ \A i \in Open(segments) : bytes(i) < SealBytes
        /\ \A i \in DOMAIN segments :
             bytes(i) > SealBytes => Cardinality(segments[i].sessions) = 1

(* A sync that commits, or that finds nothing to commit when the manifest
   records the last commit, leaves the cloud with what it read and nothing
   else: every session of the window at the stage read, the gone ones gone,
   the label. *)
Delivered ==
    sync.at = "save" \/ (sync.at = "same" /\ ~behind) =>
        /\ Shown \subseteq {<<s, sync.slices[s]>> : s \in DOMAIN sync.slices}
        /\ \A s \in DOMAIN sync.slices :
             \/ <<s, sync.slices[s]>> \in Shown
             \/ s \in old
             \/ changes[s] # sync.slices[s]
        /\ shownAs = sync.label

(* Whatever fails, a session of the window comes to be shown at the stage it
   then has, unless it is cleared or grows old before: a session changes a
   bounded number of times, and each sync reads the stage of its beginning. *)
EventuallyShown ==
    \A s \in Session : s \in kept ~> s \notin kept \/ <<s, changes[s]>> \in Shown

=============================================================================
