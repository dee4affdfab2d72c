------------------------- MODULE UploadProofs -------------------------------
(***************************************************************************)
(* Proofs about the two ways events are uploaded.                          *)
(*                                                                         *)
(* SegmentSync, for any sessions, ids, labels and bounds.  IInv is a       *)
(* conjunction of five parts, each of which needs those before it:         *)
(*   - TypeInv: types; a segment without an id is still to be uploaded.    *)
(*   - PlaceInv: a sync's sessions are each in one segment or still to be  *)
(*     placed, and a manifest's are each in one segment.                   *)
(*   - CloudInv: a segment that is not to be uploaded has, if the cloud    *)
(*     still holds it, the content its hashes describe.  It lasts because  *)
(*     an upload takes an id nothing refers to, and because a segment that *)
(*     loses a session is uploaded again.                                  *)
(*   - BehindInv: unless a commit went unrecorded, the cloud shows what    *)
(*     the manifest names, and a sync began from that manifest.            *)
(*   - CoverInv: a session of the last commit that is not shown any more   *)
(*     is old or has changed since it was read.                            *)
(* The segments a sync starts from are listed by Increasing; that such a   *)
(* list exists follows from the least-number principle.                    *)
(*                                                                         *)
(* WellPlaced needs FillInv beside the first two parts: one segment at     *)
(* most is open, at every moment of a sync, and a segment above the seal   *)
(* size has one session.  A segment's bytes are a sum over a set, which    *)
(* the library takes by recursion on its subsets; that the recursion has   *)
(* a value, that it does not depend on which member is taken first, and    *)
(* that a subset adds up to no more, follow from the least-number          *)
(* principle too.                                                          *)
(*                                                                         *)
(* ContainerSpool, for any hooks, files, events and limits.  SpoolType     *)
(* says what a hook knows at each of its steps, and that a file with a     *)
(* hook's name is one the hook has claimed and not unlinked.               *)
(*   - KeptInv: the files can be ranked in the order in which they were    *)
(*     made, so that what a flush has read is, when it unlinks its claims, *)
(*     safe or in a file of higher rank than all of them.  Without a rank, *)
(*     two flushes might each unlink the file that the other relies on.    *)
(*   - OnceInv: an event that no kill, lost answer or abandoned claim has  *)
(*     touched is in one file at most that its flush is not done with, and *)
(*     the cloud does not have it while there is one.                      *)
(***************************************************************************)
EXTENDS SegmentSync, ContainerSpool, SequenceTheorems, FiniteSetTheorems, WellFoundedInduction, TLAPS

-----------------------------------------------------------------------------
(* Least numbers, and lists of positions. *)

LEMMA LeastNumber ==
    ASSUME NEW S \in SUBSET Nat, S # {}
    PROVE  \E x \in S : \A y \in S : x <= y
<1>1. PICK x \in S : \A y \in S : ~(<<y, x>> \in OpToRel(<, Nat))
  BY NatLessThanWellFounded, WFMin
<1>2. \A y \in S : ~(y < x)
  BY <1>1 DEF OpToRel
<1> QED
  BY <1>2

LEMMA FirstIn ==
    ASSUME NEW S \in SUBSET Nat, S # {}
    PROVE  First(S) \in S
BY LeastNumber DEF First

(* A list of the members of S, in their order. *)
Lists(S, f) ==
    /\ f \in Seq(S)
    /\ \A i, j \in DOMAIN f : i < j => f[i] < f[j]
    /\ \A x \in S : \E i \in DOMAIN f : f[i] = x

(* Every set of numbers up to n can be listed: the least n for which one
   cannot would be more than 0, and a list up to n - 1 is extended by n. *)
LEMMA CanBeListed ==
    ASSUME NEW n \in Nat, NEW S \in SUBSET (1..n)
    PROVE  \E f : Lists(S, f)
<1> DEFINE Bad == {m \in Nat : \E T \in SUBSET (1..m) : \A f : ~Lists(T, f)}
<1>1. CASE Bad = {}
  BY <1>1
<1>2. CASE Bad # {}
  <2>1. PICK m \in Bad : \A k \in Bad : m <= k
    BY <1>2, LeastNumber
  <2>2. PICK T \in SUBSET (1..m) : \A f : ~Lists(T, f)
    BY <2>1
  <2>3. m # 0
    <3> SUFFICES ASSUME m = 0 PROVE FALSE
      OBVIOUS
    <3>1. T = {}
      BY <2>2
    <3>2. Lists(T, <<>>)
      BY <3>1 DEF Lists
    <3> QED
      BY <2>2, <3>2
  <2>4. m - 1 \in Nat /\ m - 1 \notin Bad
    BY <2>1, <2>3
  <2>5. T \ {m} \in SUBSET (1..(m - 1))
    BY <2>1, <2>2
  <2>6. PICK f : Lists(T \ {m}, f)
    BY <2>4, <2>5
  <2>7. CASE m \notin T
    <3>1. T \ {m} = T
      BY <2>7
    <3> QED
      BY <2>2, <2>6, <3>1
  <2>8. CASE m \in T
    <3> DEFINE g == Append(f, m)
    <3>1. f \in Seq(T) /\ \A i \in DOMAIN f : f[i] \in T \ {m}
      BY <2>6 DEF Lists
    <3>2. g \in Seq(T) /\ Len(g) = Len(f) + 1 /\ g[Len(f) + 1] = m
          /\ \A i \in DOMAIN f : g[i] = f[i]
      BY <2>8, <3>1
    <3>3. \A i, j \in DOMAIN g : i < j => g[i] < g[j]
      <4>1. \A i \in DOMAIN f : f[i] \in Nat /\ f[i] < m
        <5>1. m \in Nat /\ \A x \in T \ {m} : x \in Nat /\ x < m
          BY <2>1, <2>2
        <5> QED
          BY <3>1, <5>1
      <4>2. ASSUME NEW i \in DOMAIN g, NEW j \in DOMAIN g, i < j PROVE g[i] < g[j]
        <5>1. i \in DOMAIN f /\ (j \in DOMAIN f \/ j = Len(f) + 1)
          BY <3>1, <3>2, <4>2
        <5>2. CASE j \in DOMAIN f
          BY <2>6, <3>2, <4>2, <5>1, <5>2 DEF Lists
        <5>3. CASE j = Len(f) + 1
          BY <3>2, <4>1, <5>1, <5>3
        <5> QED
          BY <5>1, <5>2, <5>3
      <4> QED
        BY <4>2
    <3>4. \A x \in T : \E i \in DOMAIN g : g[i] = x
      <4> SUFFICES ASSUME NEW x \in T PROVE \E i \in DOMAIN g : g[i] = x
        OBVIOUS
      <4>1. CASE x = m
        BY <3>1, <3>2, <4>1
      <4>2. CASE x # m
        <5>1. PICK i \in DOMAIN f : f[i] = x
          BY <2>6, <4>2 DEF Lists
        <5> QED
          BY <3>1, <3>2, <5>1
      <4> QED
        BY <4>1, <4>2
    <3>5. Lists(T, g)
      BY <3>2, <3>3, <3>4 DEF Lists
    <3> QED
      BY <2>2, <3>5
  <2> QED
    BY <2>7, <2>8
<1> QED
  BY <1>1, <1>2

(* Increasing lists every member of S once. *)
LEMMA IncreasingLists ==
    ASSUME NEW n \in Nat, NEW S \in SUBSET (1..n)
    PROVE  /\ Increasing(S) \in Seq(S)
           /\ \A i, j \in DOMAIN Increasing(S) : i # j => Increasing(S)[i] # Increasing(S)[j]
           /\ \A x \in S : \E i \in DOMAIN Increasing(S) : Increasing(S)[i] = x
<1> DEFINE Ordered(f) == \A i, j \in DOMAIN f : i < j => f[i] < f[j]
<1>1. IsFiniteSet(S) /\ Cardinality(S) \in Nat
  <2>1. IsFiniteSet(1..n)
    BY FS_Interval
  <2> QED
    BY <2>1, FS_Subset, FS_CardinalityType
<1>2. \A f : f \in Seq(S) /\ Ordered(f) => \A i, j \in DOMAIN f : i # j => f[i] # f[j]
  <2> SUFFICES ASSUME NEW f \in Seq(S), Ordered(f), NEW i \in DOMAIN f, NEW j \in DOMAIN f, i # j
               PROVE  f[i] # f[j]
    OBVIOUS
  <2>1. f[i] \in S /\ f[j] \in S /\ i \in Nat /\ j \in Nat
    OBVIOUS
  <2>2. \A x \in S : x \in Nat
    OBVIOUS
  <2>3. f[i] \in Nat /\ f[j] \in Nat
    BY <2>1, <2>2
  <2>4. i < j \/ j < i
    BY <2>1
  <2> QED
    BY <2>3, <2>4
<1>3. PICK f : Lists(S, f)
  BY CanBeListed
<1>4. f \in Seq(S) /\ Ordered(f) /\ \A x \in S : \E i \in DOMAIN f : f[i] = x
  BY <1>3 DEF Lists
<1>5. Len(f) = Cardinality(S)
  <2>1. f \in [1..Len(f) -> S] /\ Len(f) \in Nat
    BY <1>4
  <2>2. f \in Bijection(1..Len(f), S)
    BY <1>2, <1>4, <2>1 DEF Bijection, Injection, Surjection, IsInjective
  <2>3. ExistsBijection(1..Len(f), S)
    BY <2>2 DEF ExistsBijection
  <2> QED
    BY <2>1, <2>3, FS_CountingElements
<1>6. f \in [1..Cardinality(S) -> S]
  BY <1>4, <1>5
<1>7. Increasing(S) \in [1..Cardinality(S) -> S] /\ Ordered(Increasing(S))
  BY <1>4, <1>6 DEF Increasing
<1>8. Increasing(S) \in Seq(S)
  BY <1>1, <1>7
<1>9. \A i, j \in DOMAIN Increasing(S) : i # j => Increasing(S)[i] # Increasing(S)[j]
  BY <1>2, <1>7, <1>8
<1>10. Increasing(S) \in Surjection(1..Cardinality(S), S)
  <2>1. Increasing(S) \in Injection(1..Cardinality(S), S)
    BY <1>7, <1>9 DEF Injection, IsInjective
  <2>2. Cardinality(1..Cardinality(S)) = Cardinality(S)
    BY <1>1, FS_Interval
  <2> QED
    BY <1>1, <2>1, <2>2, FS_Injection
<1> QED
  BY <1>7, <1>8, <1>9, <1>10 DEF Surjection

-----------------------------------------------------------------------------
(* Types. *)

Step == {"idle", "place", "put", "save", "same"}

Locals == [at : Step, base : Manifest, slices : Slices, toPlace : SUBSET Session,
           segments : Seq(Segment), label : Label \cup {NoId}]

HaveIds(segments) == \A i \in DOMAIN segments : segments[i].id # NoId

Clean(segments) == \A i \in DOMAIN segments : ~segments[i].dirty /\ segments[i].id # NoId

TypeInv ==
    /\ changes \in [Session -> 0..MaxChanges]
    /\ kept \subseteq Session /\ \A s \in kept : changes[s] > 0
    /\ old \subseteq Session
    /\ label \in Label
    /\ manifest \in Manifest
    /\ DOMAIN held \subseteq Id /\ \A id \in DOMAIN held : held[id] \in Slices
    /\ visible \subseteq DOMAIN held
    /\ sync \in Locals
    /\ sync.toPlace \subseteq DOMAIN sync.slices
    /\ Clean(manifest.segments) /\ Clean(sync.base.segments)
    /\ \A i \in DOMAIN sync.segments : ~sync.segments[i].dirty => sync.segments[i].id # NoId
    /\ sync.at \in {"save", "same"} => Clean(sync.segments)

(* Each session of the window is in one segment, or still to be placed. *)
Apart(segments) ==
    \A i, j \in DOMAIN segments : i # j => segments[i].sessions \cap segments[j].sessions = {}

PlaceInv ==
    /\ Apart(manifest.segments) /\ Apart(sync.segments)
    /\ Placed(sync.segments) \cap sync.toPlace = {}
    /\ Placed(sync.segments) \cup sync.toPlace = DOMAIN sync.slices
    /\ sync.at # "place" => sync.toPlace = {}
    /\ Placed(manifest.segments) \subseteq DOMAIN manifest.hash

LEMMA SliceTypes ==
    /\ EmptyManifest \in Manifest
    /\ <<>> \in Slices /\ DOMAIN <<>> = {}
    /\ \A slices \in Slices : DOMAIN slices \subseteq Session
    /\ \A slices \in Slices : \A S : S \subseteq DOMAIN slices => Restrict(slices, S) \in Slices
<1>1. DOMAIN <<>> = {} /\ <<>> \in Slices
  <2>1. <<>> \in [{} -> 1..MaxChanges] /\ {} \in SUBSET Session
    OBVIOUS
  <2> QED
    BY <2>1 DEF Slices
<1>2. EmptyManifest \in Manifest
  BY <1>1 DEF EmptyManifest, Manifest
<1>3. \A slices \in Slices : DOMAIN slices \subseteq Session
  BY DEF Slices
<1>4. ASSUME NEW slices \in Slices, NEW S, S \subseteq DOMAIN slices
      PROVE  Restrict(slices, S) \in Slices
  <2>1. PICK T \in SUBSET Session : slices \in [T -> 1..MaxChanges]
    BY DEF Slices
  <2>2. Restrict(slices, S) \in [S -> 1..MaxChanges]
    BY <1>4, <2>1 DEF Restrict
  <2>3. S \in SUBSET Session
    BY <1>4, <2>1
  <2> QED
    BY <2>2, <2>3 DEF Slices
<1> QED
  BY <1>1, <1>2, <1>3, <1>4

LEMMA LocalSlicesType ==
    ASSUME TypeInv
    PROVE  LocalSlices \in Slices /\ DOMAIN LocalSlices = kept
<1>1. \A s \in kept : changes[s] \in 1..MaxChanges
  BY DEF TypeInv
<1>2. LocalSlices \in [kept -> 1..MaxChanges]
  BY <1>1 DEF LocalSlices
<1> QED
  BY <1>2 DEF Slices, TypeInv

-----------------------------------------------------------------------------
(* What steps 1 and 2 leave of a manifest. *)

(* The ith segment of a manifest without its changed and gone sessions. *)
Left(m, slices, i) ==
    LET keep == Unchanged(m.segments[i], m.hash, slices)
    IN  [m.segments[i] EXCEPT !.sessions = keep, !.dirty = (keep # m.segments[i].sessions)]

LEMMA LeftType ==
    ASSUME NEW m \in Manifest, NEW slices \in Slices, NEW i \in DOMAIN m.segments
    PROVE  /\ Left(m, slices, i) \in Segment
           /\ Left(m, slices, i).id = m.segments[i].id
           /\ Left(m, slices, i).sessions = Unchanged(m.segments[i], m.hash, slices)
           /\ Left(m, slices, i).dirty =
                (Unchanged(m.segments[i], m.hash, slices) # m.segments[i].sessions)
           /\ Left(m, slices, i).sessions \subseteq m.segments[i].sessions \cap DOMAIN slices
<1>1. m.segments[i] \in Segment
  BY DEF Manifest
<1>2. Unchanged(m.segments[i], m.hash, slices) \subseteq m.segments[i].sessions \cap DOMAIN slices
  BY DEF Unchanged
<1> QED
  BY <1>1, <1>2 DEF Left, Segment

LEMMA RemainingList ==
    ASSUME NEW m \in Manifest, NEW slices \in Slices
    PROVE  \E p \in Seq(DOMAIN m.segments) :
             /\ \A i, j \in DOMAIN p : i # j => p[i] # p[j]
             /\ Remaining(m, slices) = [n \in DOMAIN p |-> Left(m, slices, p[n])]
<1> DEFINE stays == {i \in DOMAIN m.segments : Unchanged(m.segments[i], m.hash, slices) # {}}
<1>1. m.segments \in Seq(Segment)
  BY DEF Manifest
<1>2. Len(m.segments) \in Nat /\ stays \in SUBSET (1..Len(m.segments))
  BY <1>1
<1>3. /\ Increasing(stays) \in Seq(stays)
      /\ \A i, j \in DOMAIN Increasing(stays) : i # j => Increasing(stays)[i] # Increasing(stays)[j]
  BY <1>2, IncreasingLists
<1>4. Remaining(m, slices) = [n \in DOMAIN Increasing(stays) |-> Left(m, slices, Increasing(stays)[n])]
  BY DEF Remaining, Left
<1>5. stays \subseteq DOMAIN m.segments
  OBVIOUS
<1>6. Increasing(stays) \in Seq(DOMAIN m.segments)
  BY <1>3, <1>5
<1> QED
  BY <1>3, <1>4, <1>6

LEMMA RemainingType ==
    ASSUME NEW m \in Manifest, NEW slices \in Slices
    PROVE  /\ Remaining(m, slices) \in Seq(Segment)
           /\ \A n \in DOMAIN Remaining(m, slices) :
                \E i \in DOMAIN m.segments : Remaining(m, slices)[n] = Left(m, slices, i)
           /\ Apart(m.segments) => Apart(Remaining(m, slices))
           /\ Placed(Remaining(m, slices)) \subseteq DOMAIN slices
<1> DEFINE R == Remaining(m, slices)
<1>1. PICK p \in Seq(DOMAIN m.segments) :
           /\ \A i, j \in DOMAIN p : i # j => p[i] # p[j]
           /\ R = [n \in DOMAIN p |-> Left(m, slices, p[n])]
  BY RemainingList
<1> HIDE DEF R
<1>2. \A n \in DOMAIN p : p[n] \in DOMAIN m.segments /\ Left(m, slices, p[n]) \in Segment
  BY LeftType
<1>3. R \in Seq(Segment)
  BY <1>1, <1>2
<1>4. \A n \in DOMAIN R : n \in DOMAIN p /\ R[n] = Left(m, slices, p[n])
  BY <1>1
<1>5. Apart(m.segments) => Apart(R)
  <2> SUFFICES ASSUME Apart(m.segments), NEW a \in DOMAIN R, NEW b \in DOMAIN R, a # b
               PROVE  R[a].sessions \cap R[b].sessions = {}
    BY DEF Apart
  <2>1. m.segments[p[a]].sessions \cap m.segments[p[b]].sessions = {}
    BY <1>1, <1>2, <1>4 DEF Apart
  <2>2. R[a].sessions \subseteq m.segments[p[a]].sessions /\ R[b].sessions \subseteq m.segments[p[b]].sessions
    BY <1>2, <1>4, LeftType
  <2> QED
    BY <2>1, <2>2
<1>6. Placed(R) \subseteq DOMAIN slices
  <2>1. \A n \in DOMAIN R : R[n].sessions \subseteq DOMAIN slices
    BY <1>2, <1>4, LeftType
  <2> QED
    BY <2>1 DEF Placed
<1> QED
  BY <1>2, <1>3, <1>4, <1>5, <1>6 DEF R

LEMMA AttemptType ==
    ASSUME NEW m \in Manifest, Clean(m.segments), Apart(m.segments),
           NEW slices \in Slices, NEW l \in Label \cup {NoId}, NEW a, a = Attempt(m, slices, l)
    PROVE  /\ a \in Locals /\ a.at = "place" /\ a.base = m /\ a.slices = slices
           /\ a.label = l /\ a.segments = Remaining(m, slices)
           /\ a.toPlace \subseteq DOMAIN slices
           /\ HaveIds(a.segments)
           /\ Apart(a.segments)
           /\ Placed(a.segments) \cap a.toPlace = {}
           /\ Placed(a.segments) \cup a.toPlace = DOMAIN slices
<1> DEFINE R == Remaining(m, slices)
<1>1. R \in Seq(Segment) /\ Apart(R) /\ Placed(R) \subseteq DOMAIN slices
  BY RemainingType
<1>2. \A n \in DOMAIN R : R[n].id # NoId
  <2> SUFFICES ASSUME NEW n \in DOMAIN R PROVE R[n].id # NoId
    OBVIOUS
  <2>1. PICK i \in DOMAIN m.segments : R[n] = Left(m, slices, i)
    BY RemainingType
  <2> QED
    BY <2>1, LeftType DEF Clean
<1>3. DOMAIN slices \ Placed(R) \in SUBSET Session
  BY SliceTypes
<1> HIDE DEF R
<1>4. Attempt(m, slices, l) = [at |-> "place", base |-> m, slices |-> slices, label |-> l,
                               segments |-> R, toPlace |-> DOMAIN slices \ Placed(R)]
  BY DEF Attempt, R
<1>5. a \in Locals
  BY <1>1, <1>3, <1>4 DEF Locals, Step
<1>6. /\ a.at = "place" /\ a.base = m /\ a.slices = slices /\ a.label = l /\ a.segments = R
      /\ a.toPlace = DOMAIN slices \ Placed(R)
  BY <1>4
<1>7. /\ a.toPlace \subseteq DOMAIN slices
      /\ HaveIds(a.segments)
      /\ Apart(a.segments)
      /\ Placed(a.segments) \cap a.toPlace = {}
      /\ Placed(a.segments) \cup a.toPlace = DOMAIN slices
  BY <1>1, <1>2, <1>6 DEF HaveIds
<1> QED
  BY <1>5, <1>6, <1>7 DEF R

LEMMA NoSyncType ==
    /\ NoSync \in Locals /\ NoSync.at = "idle" /\ NoSync.toPlace = {}
    /\ NoSync.base = EmptyManifest /\ NoSync.segments = <<>> /\ NoSync.slices = <<>>
    /\ NoSync.label = NoId
BY SliceTypes DEF NoSync, Locals, Step

LEMMA EmptyLists ==
    /\ Clean(<<>>) /\ Apart(<<>>) /\ Placed(<<>>) = {} /\ Ids(<<>>) = {}
    /\ EmptyManifest.segments = <<>> /\ EmptyManifest.hash = <<>> /\ EmptyManifest.label = NoId
BY DEF Clean, Apart, Placed, Ids, EmptyManifest

(* An attempt from an empty manifest. *)
LEMMA AfreshType ==
    ASSUME NEW slices \in Slices, NEW l \in Label \cup {NoId}
    PROVE  LET a == Attempt(EmptyManifest, slices, l)
           IN  /\ a \in Locals /\ a.at = "place" /\ a.base = EmptyManifest /\ a.slices = slices
               /\ a.label = l /\ a.segments = Remaining(EmptyManifest, slices)
               /\ a.toPlace \subseteq DOMAIN slices
               /\ HaveIds(a.segments)
               /\ Apart(a.segments)
               /\ Placed(a.segments) \cap a.toPlace = {}
               /\ Placed(a.segments) \cup a.toPlace = DOMAIN slices
<1>1. EmptyManifest \in Manifest /\ Clean(EmptyManifest.segments) /\ Apart(EmptyManifest.segments)
  BY SliceTypes, EmptyLists
<1> QED
  BY <1>1, AttemptType

LEMMA TypeInit == Init => TypeInv /\ PlaceInv
<1> SUFFICES ASSUME Init PROVE TypeInv /\ PlaceInv
  OBVIOUS
<1>1. MaxChanges \in Nat
  BY SegmentBounds
<1>2. manifest = EmptyManifest /\ sync = NoSync /\ held = <<>> /\ visible = {} /\ kept = {} /\ old = {}
      /\ label \in Label /\ changes = [s \in Session |-> 0]
  BY DEF Init
<1>3. changes \in [Session -> 0..MaxChanges]
  BY <1>1, <1>2
<1>4. DOMAIN held = {}
  BY <1>2, SliceTypes
<1>5. TypeInv
  BY <1>2, <1>3, <1>4, SliceTypes, NoSyncType, EmptyLists DEF TypeInv
<1> QED
  BY <1>2, <1>5, SliceTypes, NoSyncType, EmptyLists DEF PlaceInv

(* What the next slice is, and where it goes. *)
LEMMA NextSliceIs ==
    ASSUME TypeInv, sync.toPlace # {}
    PROVE  NextSlice \in sync.toPlace /\ NextSlice \in Session
<1>1. sync.toPlace \in SUBSET Nat /\ sync.toPlace \subseteq Session
  BY SegmentAssumption DEF TypeInv, Locals
<1> QED
  BY <1>1, FirstIn DEF NextSlice

LEMMA OpenIs ==
    ASSUME TypeInv, Open(sync.segments) # {}
    PROVE  First(Open(sync.segments)) \in DOMAIN sync.segments /\ ~sync.segments[First(Open(sync.segments))].sealed
<1>1. sync.segments \in Seq(Segment)
  BY DEF TypeInv, Locals
<1>2. Open(sync.segments) \in SUBSET Nat
  BY <1>1 DEF Open
<1>3. First(Open(sync.segments)) \in Open(sync.segments)
  BY <1>2, FirstIn
<1> QED
  BY <1>3 DEF Open

LEMMA DirtyIs ==
    ASSUME TypeInv, Dirty # {}
    PROVE  First(Dirty) \in DOMAIN sync.segments /\ sync.segments[First(Dirty)].dirty
<1>1. sync.segments \in Seq(Segment)
  BY DEF TypeInv, Locals
<1>2. Dirty \in SUBSET Nat /\ Dirty \subseteq DOMAIN sync.segments
  BY <1>1 DEF Dirty
<1>3. First(Dirty) \in Dirty
  BY <1>2, FirstIn
<1> QED
  BY <1>3 DEF Dirty

LEMMA NewIdIs ==
    ASSUME ~(Id \subseteq InUse)
    PROVE  /\ NewId \in Id /\ NewId # NoId
           /\ NewId \notin DOMAIN held /\ NewId \notin Ids(manifest.segments)
           /\ NewId \notin Ids(sync.base.segments) /\ NewId \notin Ids(sync.segments)
<1>1. NewId \in Id /\ NewId \notin InUse
  BY DEF NewId
<1> QED
  BY <1>1, SegmentAssumption DEF InUse

(* What a placement, the end of placing and an upload do to the segments. *)
Same(a, b) == a.id = b.id /\ a.dirty = b.dirty /\ a.sessions = b.sessions

LEMMA PlacedInOpen ==
    ASSUME TypeInv, PlaceInOpen
    PROVE  /\ UNCHANGED <<localVars, manifest, cloudVars, behind>>
           /\ NextSlice \in sync.toPlace /\ NextSlice \in Session
           /\ sync' \in Locals /\ sync.at = "place" /\ sync'.at = "place"
           /\ sync'.toPlace = sync.toPlace \ {NextSlice}
           /\ sync'.slices = sync.slices /\ sync'.base = sync.base /\ sync'.label = sync.label
           /\ DOMAIN sync'.segments = DOMAIN sync.segments
           /\ \E i \in DOMAIN sync.segments :
                /\ sync'.segments[i].dirty
                /\ sync'.segments[i].sessions = sync.segments[i].sessions \cup {NextSlice}
                /\ \A j \in DOMAIN sync.segments : j # i => Same(sync'.segments[j], sync.segments[j])
                /\ i = First(Open(sync.segments)) /\ ~sync.segments[i].sealed
                /\ \A j \in DOMAIN sync.segments : sync'.segments[j].sealed = sync.segments[j].sealed
<1> DEFINE i == First(Open(sync.segments))
           placed == [sync.segments[i] EXCEPT !.sessions = @ \cup {NextSlice}, !.dirty = TRUE]
<1>1. sync.toPlace # {} /\ Open(sync.segments) # {} /\ sync.at = "place"
      /\ UNCHANGED <<localVars, manifest, cloudVars, behind>>
  BY DEF PlaceInOpen
<1>2. NextSlice \in sync.toPlace /\ NextSlice \in Session /\ i \in DOMAIN sync.segments
      /\ ~sync.segments[i].sealed
  BY <1>1, NextSliceIs, OpenIs
<1>3. sync.segments \in Seq(Segment) /\ sync \in Locals
  BY DEF TypeInv, Locals
<1>4. sync.segments[i] \in Segment
  BY <1>2, <1>3
<1>5. placed \in Segment /\ placed.sessions = sync.segments[i].sessions \cup {NextSlice} /\ placed.dirty
      /\ placed.sealed = sync.segments[i].sealed
  BY <1>2, <1>4 DEF Segment
<1>6. sync' = [sync EXCEPT !.toPlace = @ \ {NextSlice}, !.segments[i].sessions = @ \cup {NextSlice},
                           !.segments[i].dirty = TRUE]
  BY DEF PlaceInOpen
<1>7. sync' = [sync EXCEPT !.toPlace = @ \ {NextSlice}, !.segments = [@ EXCEPT ![i] = placed]]
  BY <1>2, <1>3, <1>4, <1>5, <1>6 DEF Locals
<1>11. i = First(Open(sync.segments))
  OBVIOUS
<1> HIDE DEF i, placed
<1>8. [sync.segments EXCEPT ![i] = placed] \in Seq(Segment)
      /\ DOMAIN [sync.segments EXCEPT ![i] = placed] = DOMAIN sync.segments
      /\ \A j \in DOMAIN sync.segments :
           [sync.segments EXCEPT ![i] = placed][j] = IF j = i THEN placed ELSE sync.segments[j]
  BY <1>2, <1>3, <1>5, ExceptSeq
<1>9. /\ sync'.segments = [sync.segments EXCEPT ![i] = placed] /\ sync'.toPlace = sync.toPlace \ {NextSlice}
      /\ sync'.at = "place" /\ sync'.slices = sync.slices /\ sync'.base = sync.base
      /\ sync'.label = sync.label /\ sync' \in Locals
  BY <1>1, <1>3, <1>7, <1>8 DEF Locals
<1>10. \A j \in DOMAIN sync.segments : j # i => Same(sync'.segments[j], sync.segments[j])
  BY <1>8, <1>9 DEF Same
<1>12. \A j \in DOMAIN sync.segments : sync'.segments[j].sealed = sync.segments[j].sealed
  BY <1>5, <1>8, <1>9
<1> QED
  BY <1>1, <1>2, <1>5, <1>8, <1>9, <1>10, <1>11, <1>12

LEMMA PlacedInNew ==
    ASSUME TypeInv, PlaceInNew
    PROVE  /\ UNCHANGED <<localVars, manifest, cloudVars, behind>>
           /\ NextSlice \in sync.toPlace /\ NextSlice \in Session
           /\ sync' \in Locals /\ sync.at = "place" /\ sync'.at = "place"
           /\ sync'.toPlace = sync.toPlace \ {NextSlice}
           /\ sync'.slices = sync.slices /\ sync'.base = sync.base /\ sync'.label = sync.label
           /\ \E n : /\ n \notin DOMAIN sync.segments
                    /\ DOMAIN sync'.segments = DOMAIN sync.segments \cup {n}
                    /\ sync'.segments[n].dirty /\ sync'.segments[n].sessions = {NextSlice}
           /\ \A j \in DOMAIN sync.segments : Same(sync'.segments[j], sync.segments[j])
           /\ \A j \in DOMAIN sync.segments : sync'.segments[j].sealed
<1> DEFINE sealed == [i \in DOMAIN sync.segments |-> [sync.segments[i] EXCEPT !.sealed = TRUE]]
           new    == [id |-> NoId, sealed |-> FALSE, dirty |-> TRUE, sessions |-> {NextSlice}]
<1>1. sync.toPlace # {} /\ sync.at = "place" /\ UNCHANGED <<localVars, manifest, cloudVars, behind>>
      /\ sync' = [sync EXCEPT !.toPlace = @ \ {NextSlice}, !.segments = Append(sealed, new)]
  BY DEF PlaceInNew
<1>2. NextSlice \in sync.toPlace /\ NextSlice \in Session
  BY <1>1, NextSliceIs
<1>3. sync.segments \in Seq(Segment) /\ sync \in Locals
  BY DEF TypeInv, Locals
<1>4. Len(sync.segments) \in Nat /\ DOMAIN sync.segments = 1..Len(sync.segments)
      /\ \A j \in DOMAIN sync.segments : sync.segments[j] \in Segment
  BY <1>3
<1>5. \A j \in DOMAIN sync.segments : /\ [sync.segments[j] EXCEPT !.sealed = TRUE] \in Segment
                                      /\ Same([sync.segments[j] EXCEPT !.sealed = TRUE], sync.segments[j])
                                      /\ [sync.segments[j] EXCEPT !.sealed = TRUE].sealed
  BY <1>4 DEF Segment, Same
<1>6. sealed \in [1..Len(sync.segments) -> Segment]
      /\ \A j \in DOMAIN sync.segments : Same(sealed[j], sync.segments[j]) /\ sealed[j].sealed
  BY <1>4, <1>5
<1>7. new \in Segment /\ new.sessions = {NextSlice} /\ new.dirty
  BY <1>2 DEF Segment
<1> HIDE DEF sealed, new
<1>8. sealed \in Seq(Segment) /\ Len(sealed) = Len(sync.segments)
  BY <1>4, <1>6
<1>9. Append(sealed, new) \in Seq(Segment)
      /\ DOMAIN Append(sealed, new) = DOMAIN sync.segments \cup {Len(sync.segments) + 1}
      /\ Append(sealed, new)[Len(sync.segments) + 1] = new
      /\ \A j \in DOMAIN sync.segments : Append(sealed, new)[j] = sealed[j]
  BY <1>4, <1>7, <1>8
<1>10. /\ sync'.segments = Append(sealed, new) /\ sync'.toPlace = sync.toPlace \ {NextSlice}
       /\ sync'.at = "place" /\ sync'.slices = sync.slices /\ sync'.base = sync.base
       /\ sync'.label = sync.label /\ sync' \in Locals
  BY <1>1, <1>3, <1>9 DEF Locals
<1>11. \A j \in DOMAIN sync.segments : Same(sync'.segments[j], sync.segments[j]) /\ sync'.segments[j].sealed
  BY <1>6, <1>9, <1>10
<1>12. Len(sync.segments) + 1 \notin DOMAIN sync.segments
  BY <1>4
<1> QED
  BY <1>1, <1>2, <1>7, <1>9, <1>10, <1>11, <1>12

LEMMA PlacingEnded ==
    ASSUME TypeInv, EndPlacing
    PROVE  /\ UNCHANGED <<localVars, manifest, cloudVars, behind>>
           /\ sync' \in Locals /\ sync.at = "place" /\ sync'.at = "put"
           /\ sync.toPlace = {} /\ sync'.toPlace = {}
           /\ sync'.slices = sync.slices /\ sync'.base = sync.base /\ sync'.label = sync.label
           /\ DOMAIN sync'.segments = DOMAIN sync.segments
           /\ \A j \in DOMAIN sync.segments : Same(sync'.segments[j], sync.segments[j])
           /\ \A j \in DOMAIN sync.segments :
                sync'.segments[j].sealed <=>
                    sync.segments[j].sealed \/ RawBytes(sync.segments[j], sync.slices) >= SealBytes
<1> DEFINE full(i) == RawBytes(sync.segments[i], sync.slices) >= SealBytes
           ended == [i \in DOMAIN sync.segments |-> [sync.segments[i] EXCEPT !.sealed = @ \/ full(i)]]
<1>1. sync.toPlace = {} /\ sync.at = "place" /\ UNCHANGED <<localVars, manifest, cloudVars, behind>>
  BY DEF EndPlacing
<1>2. sync' = [sync EXCEPT !.at = "put", !.segments = ended]
  BY DEF EndPlacing
<1> HIDE DEF full
<1>3. sync.segments \in Seq(Segment) /\ sync \in Locals
  BY DEF TypeInv, Locals
<1>4. Len(sync.segments) \in Nat /\ DOMAIN sync.segments = 1..Len(sync.segments)
      /\ \A j \in DOMAIN sync.segments : sync.segments[j] \in Segment
  BY <1>3
<1>5. \A j \in DOMAIN sync.segments : (sync.segments[j].sealed \/ full(j)) \in BOOLEAN
  BY <1>4 DEF Segment
<1>6. \A j \in DOMAIN sync.segments :
        /\ [sync.segments[j] EXCEPT !.sealed = @ \/ full(j)] \in Segment
        /\ Same([sync.segments[j] EXCEPT !.sealed = @ \/ full(j)], sync.segments[j])
        /\ [sync.segments[j] EXCEPT !.sealed = @ \/ full(j)].sealed = (sync.segments[j].sealed \/ full(j))
  BY <1>4, <1>5 DEF Segment, Same
<1>7. /\ ended \in [1..Len(sync.segments) -> Segment]
      /\ \A j \in DOMAIN sync.segments : Same(ended[j], sync.segments[j])
      /\ \A j \in DOMAIN sync.segments : ended[j].sealed = (sync.segments[j].sealed \/ full(j))
  BY <1>4, <1>6
<1> HIDE DEF ended
<1>8. ended \in Seq(Segment)
  BY <1>4, <1>7
<1>9. sync'.segments = ended /\ sync'.toPlace = {} /\ sync'.at = "put" /\ sync'.slices = sync.slices
      /\ sync'.base = sync.base /\ sync'.label = sync.label /\ sync' \in Locals
  BY <1>1, <1>2, <1>3, <1>8 DEF Locals, Step
<1>10. \A j \in DOMAIN sync.segments :
          sync'.segments[j].sealed <=>
              sync.segments[j].sealed \/ RawBytes(sync.segments[j], sync.slices) >= SealBytes
  BY <1>7, <1>9 DEF full
<1> QED
  BY <1>1, <1>4, <1>7, <1>9, <1>10

LEMMA PutStored ==
    ASSUME TypeInv, Put
    PROVE  /\ UNCHANGED <<localVars, manifest, visible, shownAs, behind>>
           /\ sync' \in Locals /\ sync.at = "put" /\ sync'.at = "put" /\ sync'.toPlace = sync.toPlace
           /\ sync'.slices = sync.slices /\ sync'.base = sync.base /\ sync'.label = sync.label
           /\ NewId \in Id /\ NewId \notin DOMAIN held /\ NewId \notin Ids(manifest.segments)
           /\ NewId \notin Ids(sync.base.segments) /\ NewId \notin Ids(sync.segments)
           /\ DOMAIN held' = DOMAIN held \cup {NewId}
           /\ \A id \in DOMAIN held : held'[id] = held[id]
           /\ DOMAIN sync'.segments = DOMAIN sync.segments
           /\ \E i \in DOMAIN sync.segments :
                /\ sync'.segments[i].id = NewId
                /\ sync'.segments[i].sessions = sync.segments[i].sessions
                /\ held'[NewId] = Restrict(sync.slices, sync.segments[i].sessions)
                /\ \A j \in DOMAIN sync.segments : j # i => Same(sync'.segments[j], sync.segments[j])
           /\ \A j \in DOMAIN sync.segments : sync'.segments[j].sealed = sync.segments[j].sealed
<1> DEFINE i == First(Dirty)
           content == Restrict(sync.slices, sync.segments[i].sessions)
           stored == [sync.segments[i] EXCEPT !.id = NewId, !.dirty = FALSE]
<1>1. /\ sync.at = "put" /\ Dirty # {} /\ ~(Id \subseteq InUse)
      /\ UNCHANGED <<localVars, manifest, visible, shownAs, behind>>
      /\ held' = [id \in DOMAIN held \cup {NewId} |-> IF id = NewId THEN content ELSE held[id]]
      /\ sync' = [sync EXCEPT !.segments[i].id = NewId, !.segments[i].dirty = FALSE]
  BY DEF Put
<1>2. i \in DOMAIN sync.segments /\ sync.segments \in Seq(Segment) /\ sync \in Locals
  BY <1>1, DirtyIs DEF TypeInv, Locals
<1>3. sync.segments[i] \in Segment
  BY <1>2
<1>4. /\ NewId \in Id /\ NewId \notin DOMAIN held /\ NewId \notin Ids(manifest.segments)
      /\ NewId \notin Ids(sync.base.segments) /\ NewId \notin Ids(sync.segments)
  BY <1>1, NewIdIs
<1>5. stored \in Segment /\ stored.sessions = sync.segments[i].sessions /\ stored.id = NewId
      /\ stored.sealed = sync.segments[i].sealed
  BY <1>3, <1>4 DEF Segment
<1>6. sync' = [sync EXCEPT !.segments = [@ EXCEPT ![i] = stored]]
  BY <1>1, <1>2, <1>3 DEF Locals
<1>7. DOMAIN held' = DOMAIN held \cup {NewId} /\ held'[NewId] = Restrict(sync.slices, sync.segments[i].sessions)
      /\ \A id \in DOMAIN held : held'[id] = held[id]
  BY <1>1, <1>4
<1> HIDE DEF i, content, stored
<1>8. [sync.segments EXCEPT ![i] = stored] \in Seq(Segment)
      /\ DOMAIN [sync.segments EXCEPT ![i] = stored] = DOMAIN sync.segments
      /\ \A j \in DOMAIN sync.segments :
           [sync.segments EXCEPT ![i] = stored][j] = IF j = i THEN stored ELSE sync.segments[j]
  BY <1>2, <1>5, ExceptSeq
<1>9. /\ sync'.segments = [sync.segments EXCEPT ![i] = stored] /\ sync'.toPlace = sync.toPlace
      /\ sync'.at = "put" /\ sync'.slices = sync.slices /\ sync'.base = sync.base
      /\ sync'.label = sync.label /\ sync' \in Locals
  BY <1>1, <1>2, <1>6, <1>8 DEF Locals
<1>10. \A j \in DOMAIN sync.segments : j # i => Same(sync'.segments[j], sync.segments[j])
  BY <1>8, <1>9 DEF Same
<1>11. \A j \in DOMAIN sync.segments : sync'.segments[j].sealed = sync.segments[j].sealed
  BY <1>5, <1>8, <1>9
<1> QED
  BY <1>1, <1>2, <1>4, <1>5, <1>7, <1>8, <1>9, <1>10, <1>11

LEMMA TypeNext == TypeInv /\ PlaceInv /\ [Next]_vars => TypeInv' /\ PlaceInv'
<1> SUFFICES ASSUME TypeInv, PlaceInv, [Next]_vars PROVE TypeInv' /\ PlaceInv'
  OBVIOUS
<1> USE DEF TypeInv, PlaceInv
<1>0. Clean(<<>>) /\ Apart(<<>>) /\ Placed(<<>>) = {}
  BY EmptyLists
<1>1. ASSUME NEW s \in Session, Record(s) PROVE TypeInv' /\ PlaceInv'
  <2>1. changes[s] + 1 \in 0..MaxChanges /\ changes[s] + 1 > 0
    BY <1>1, SegmentBounds DEF Record
  <2>2. changes' = [changes EXCEPT ![s] = @ + 1]
    BY <1>1 DEF Record
  <2>3. changes' \in [Session -> 0..MaxChanges]
    BY <2>1, <2>2
  <2>4. \A t \in kept' : t \in Session /\ changes'[t] > 0
    BY <1>1, <2>1, <2>2 DEF Record
  <2>5. UNCHANGED <<label, manifest, cloudVars, sync>> /\ old' \subseteq Session
    BY <1>1 DEF Record
  <2> QED
    BY <2>3, <2>4, <2>5 DEF cloudVars
<1>2. ASSUME NEW s \in Session, GrowOld(s) \/ Clear(s) PROVE TypeInv' /\ PlaceInv'
  BY <1>2 DEF GrowOld, Clear, cloudVars
<1>3. CASE Relabel
  BY <1>3 DEF Relabel, cloudVars
<1>4. ASSUME NEW id \in visible, Retire(id) PROVE TypeInv' /\ PlaceInv'
  <2>1. held' = [x \in DOMAIN held \ {id} |-> held[x]] /\ visible' = visible \ {id}
    BY <1>4 DEF Retire, Restrict
  <2>2. DOMAIN held' = DOMAIN held \ {id} /\ \A x \in DOMAIN held' : held'[x] = held[x]
    BY <2>1
  <2> QED
    BY <1>4, <2>1, <2>2 DEF Retire, localVars
<1>5. CASE LoseManifest
  BY <1>0, <1>5, SliceTypes, EmptyLists DEF LoseManifest, localVars, cloudVars
<1>6. CASE Begin
  <2> DEFINE slices == LocalSlices
  <2>1. slices \in Slices
    BY LocalSlicesType
  <2>2. label \in Label \cup {NoId} /\ sync' = Attempt(manifest, slices, label)
        /\ UNCHANGED <<localVars, manifest, cloudVars>>
    BY <1>6 DEF Begin
  <2> HIDE DEF slices
  <2>3. /\ sync' \in Locals /\ sync'.at = "place" /\ sync'.base = manifest /\ sync'.slices = slices
        /\ sync'.toPlace \subseteq DOMAIN slices
        /\ HaveIds(sync'.segments)
        /\ Apart(sync'.segments) /\ Placed(sync'.segments) \cap sync'.toPlace = {}
        /\ Placed(sync'.segments) \cup sync'.toPlace = DOMAIN slices
    <3>1. manifest \in Manifest /\ Clean(manifest.segments) /\ Apart(manifest.segments)
      BY DEF TypeInv, PlaceInv
    <3> HIDE DEF TypeInv, PlaceInv
    <3>2. label \in Label \cup {NoId} /\ sync' = Attempt(manifest, slices, label)
      BY <2>2
    <3> QED
      BY <2>1, <3>1, <3>2, AttemptType
  <2> QED
    BY <2>2, <2>3 DEF localVars, cloudVars, HaveIds
<1>7. CASE PlaceInOpen
  <2>1. PICK i \in DOMAIN sync.segments :
             /\ sync'.segments[i].dirty
             /\ sync'.segments[i].sessions = sync.segments[i].sessions \cup {NextSlice}
             /\ \A j \in DOMAIN sync.segments : j # i => Same(sync'.segments[j], sync.segments[j])
    BY <1>7, PlacedInOpen
  <2>2. /\ UNCHANGED <<localVars, manifest, cloudVars>> /\ NextSlice \in sync.toPlace
        /\ sync' \in Locals /\ sync'.at = "place" /\ sync'.toPlace = sync.toPlace \ {NextSlice}
        /\ sync'.slices = sync.slices /\ sync'.base = sync.base
        /\ DOMAIN sync'.segments = DOMAIN sync.segments
    BY <1>7, PlacedInOpen
  <2>3. \A j \in DOMAIN sync.segments : NextSlice \notin sync.segments[j].sessions
    BY <2>2 DEF Placed
  <2>4. Apart(sync'.segments)
    BY <2>1, <2>2, <2>3 DEF Apart, Same
  <2>5. Placed(sync'.segments) = Placed(sync.segments) \cup {NextSlice}
    BY <2>1, <2>2 DEF Placed, Same
  <2>6. TypeInv'
    BY <2>1, <2>2 DEF localVars, cloudVars, Same
  <2> QED
    BY <2>2, <2>4, <2>5, <2>6
<1>8. CASE PlaceInNew
  <2>1. PICK n : /\ n \notin DOMAIN sync.segments
                 /\ DOMAIN sync'.segments = DOMAIN sync.segments \cup {n}
                 /\ sync'.segments[n].dirty /\ sync'.segments[n].sessions = {NextSlice}
    BY <1>8, PlacedInNew
  <2>2. /\ UNCHANGED <<localVars, manifest, cloudVars>> /\ NextSlice \in sync.toPlace
        /\ sync' \in Locals /\ sync'.at = "place" /\ sync'.toPlace = sync.toPlace \ {NextSlice}
        /\ sync'.slices = sync.slices /\ sync'.base = sync.base
        /\ \A j \in DOMAIN sync.segments : Same(sync'.segments[j], sync.segments[j])
    BY <1>8, PlacedInNew
  <2>3. \A j \in DOMAIN sync.segments : NextSlice \notin sync.segments[j].sessions
    BY <2>2 DEF Placed
  <2>4. Apart(sync'.segments)
    BY <2>1, <2>2, <2>3 DEF Apart, Same
  <2>5. Placed(sync'.segments) = Placed(sync.segments) \cup {NextSlice}
    BY <2>1, <2>2 DEF Placed, Same
  <2>6. TypeInv'
    BY <2>1, <2>2 DEF localVars, cloudVars, Same
  <2> QED
    BY <2>2, <2>4, <2>5, <2>6
<1>9. CASE EndPlacing
  <2>1. /\ UNCHANGED <<localVars, manifest, cloudVars>> /\ sync.toPlace = {}
        /\ sync' \in Locals /\ sync'.at = "put" /\ sync'.toPlace = {}
        /\ sync'.slices = sync.slices /\ sync'.base = sync.base
        /\ DOMAIN sync'.segments = DOMAIN sync.segments
        /\ \A j \in DOMAIN sync.segments : Same(sync'.segments[j], sync.segments[j])
    BY <1>9, PlacingEnded
  <2>2. Apart(sync'.segments) /\ Placed(sync'.segments) = Placed(sync.segments)
    BY <2>1 DEF Apart, Placed, Same
  <2>3. TypeInv'
    BY <2>1 DEF localVars, cloudVars, Same
  <2> QED
    BY <2>1, <2>2, <2>3
<1>10. CASE Put
  <2>1. PICK i \in DOMAIN sync.segments :
             /\ sync'.segments[i].id = NewId
             /\ sync'.segments[i].sessions = sync.segments[i].sessions
             /\ held'[NewId] = Restrict(sync.slices, sync.segments[i].sessions)
             /\ \A j \in DOMAIN sync.segments : j # i => Same(sync'.segments[j], sync.segments[j])
    BY <1>10, PutStored
  <2>2. /\ UNCHANGED <<localVars, manifest, visible>> /\ sync.at = "put"
        /\ sync' \in Locals /\ sync'.at = "put" /\ sync'.toPlace = sync.toPlace
        /\ sync'.slices = sync.slices /\ sync'.base = sync.base
        /\ NewId \in Id /\ NewId # NoId /\ NewId \notin DOMAIN held
        /\ DOMAIN held' = DOMAIN held \cup {NewId}
        /\ \A id \in DOMAIN held : held'[id] = held[id]
        /\ DOMAIN sync'.segments = DOMAIN sync.segments
    BY <1>10, PutStored, SegmentAssumption
  <2>3. held'[NewId] \in Slices
    <3>1. sync.segments[i].sessions \subseteq DOMAIN sync.slices
      BY DEF Placed
    <3> QED
      BY <2>1, <3>1, SliceTypes DEF Locals
  <2>4. Apart(sync'.segments) /\ Placed(sync'.segments) = Placed(sync.segments)
    BY <2>1, <2>2 DEF Apart, Placed, Same
  <2>5. TypeInv'
    BY <2>1, <2>2, <2>3 DEF localVars, Same
  <2> QED
    BY <2>2, <2>4, <2>5
<1>11. CASE SkipCommit
  <2>1. Clean(sync.segments)
    BY <1>11 DEF SkipCommit, Uploaded, Dirty, Clean
  <2>2. sync' \in Locals /\ sync'.at = "same" /\ sync'.segments = sync.segments /\ sync'.base = sync.base
        /\ sync'.toPlace = sync.toPlace /\ sync'.slices = sync.slices /\ sync.at = "put"
        /\ UNCHANGED <<localVars, manifest, cloudVars>>
    BY <1>11 DEF SkipCommit, Uploaded, Locals, Step
  <2> QED
    BY <2>1, <2>2 DEF localVars, cloudVars
<1>12. CASE Commit
  <2>1. Clean(sync.segments)
    BY <1>12 DEF Commit, Uploaded, Dirty, Clean
  <2>2. sync' \in Locals /\ sync'.at = "save" /\ sync'.segments = sync.segments /\ sync'.base = sync.base
        /\ sync'.toPlace = sync.toPlace /\ sync'.slices = sync.slices /\ sync.at = "put"
        /\ UNCHANGED <<localVars, manifest>>
    BY <1>12 DEF Commit, Uploaded, Locals, Step
  <2>3. DOMAIN held' = Ids(sync.segments) /\ visible' = Ids(sync.segments)
        /\ Ids(sync.segments) \subseteq DOMAIN held /\ \A id \in DOMAIN held' : held'[id] = held[id]
    BY <1>12 DEF Commit, Restrict
  <2> QED
    BY <2>1, <2>2, <2>3 DEF localVars
<1>13. CASE StartAfresh
  <2>1. sync' = Attempt(EmptyManifest, sync.slices, sync.label) /\ UNCHANGED <<localVars, manifest, visible>>
        /\ held' = [id \in visible |-> held[id]]
    BY <1>13 DEF StartAfresh, Restrict
  <2>2. sync.slices \in Slices /\ sync.label \in Label \cup {NoId}
    BY DEF Locals
  <2>3. sync'.at = "place" /\ sync'.base = EmptyManifest /\ sync'.slices = sync.slices
    BY <2>1 DEF Attempt
  <2>4. sync' \in Locals /\ sync'.toPlace \subseteq DOMAIN sync.slices
    BY <2>1, <2>2, AfreshType
  <2>5. HaveIds(sync'.segments) /\ Apart(sync'.segments)
    BY <2>1, <2>2, AfreshType
  <2>6. /\ Placed(sync'.segments) \cap sync'.toPlace = {}
        /\ Placed(sync'.segments) \cup sync'.toPlace = DOMAIN sync.slices
    BY <2>1, <2>2, AfreshType
  <2> QED
    BY <2>1, <2>2, <2>3, <2>4, <2>5, <2>6, SliceTypes, EmptyLists DEF localVars, HaveIds
<1>14. CASE Save
  <2>1. sync.at \in {"save", "same"} /\ sync' = NoSync /\ UNCHANGED <<localVars, cloudVars>>
        /\ manifest' = [segments |-> sync.segments, hash |-> sync.slices, label |-> sync.label]
    BY <1>14 DEF Save
  <2>2. manifest' \in Manifest /\ manifest'.segments = sync.segments /\ manifest'.hash = sync.slices
    BY <2>1 DEF Manifest, Locals
  <2> QED
    BY <1>0, <2>1, <2>2, NoSyncType, SliceTypes, EmptyLists DEF localVars, cloudVars
<1>15. CASE Fail
  <2>1. sync' = NoSync /\ UNCHANGED <<localVars, manifest, visible>> /\ held' = [id \in visible |-> held[id]]
    BY <1>15 DEF Fail, Restrict
  <2> QED
    BY <1>0, <2>1, NoSyncType, SliceTypes, EmptyLists DEF localVars
<1>16. CASE UNCHANGED vars
  BY <1>16 DEF vars, localVars, cloudVars
<1> QED
  BY <1>1, <1>2, <1>3, <1>4, <1>5, <1>6, <1>7, <1>8, <1>9, <1>10, <1>11, <1>12, <1>13, <1>14,
     <1>15, <1>16 DEF Next, Local, SyncStep

-----------------------------------------------------------------------------
(* What the cloud holds. *)

(* A segment that is not to be uploaded has, where the cloud h still holds it,
   the content its hashes describe. *)
HoldsIn(h, segments, hash) ==
    \A i \in DOMAIN segments :
        ~segments[i].dirty /\ segments[i].id \in DOMAIN h =>
            h[segments[i].id] = Restrict(hash, segments[i].sessions)

CloudInv ==
    /\ HoldsIn(held, manifest.segments, manifest.hash)
    /\ HoldsIn(held, sync.segments, sync.slices)
    /\ ShownOnce

LEMMA HoldsLess ==
    ASSUME NEW h, NEW g, NEW segments, NEW hash, HoldsIn(h, segments, hash),
           DOMAIN g \subseteq DOMAIN h, \A id \in DOMAIN g : g[id] = h[id]
    PROVE  HoldsIn(g, segments, hash)
BY DEF HoldsIn

LEMMA HoldsNothing == \A h, hash : HoldsIn(h, <<>>, hash)
BY DEF HoldsIn

(* A segment left as it was describes the slices as well as the hashes. *)
LEMMA LeftDescribes ==
    ASSUME NEW m \in Manifest, NEW slices \in Slices, NEW i \in DOMAIN m.segments,
           ~Left(m, slices, i).dirty
    PROVE  /\ Left(m, slices, i).sessions = m.segments[i].sessions
           /\ \A s \in m.segments[i].sessions : s \in DOMAIN slices /\ slices[s] = m.hash[s]
           /\ Restrict(slices, m.segments[i].sessions) = Restrict(m.hash, m.segments[i].sessions)
<1>1. Unchanged(m.segments[i], m.hash, slices) = m.segments[i].sessions
  BY LeftType
<1>2. \A s \in m.segments[i].sessions : s \in DOMAIN slices /\ slices[s] = m.hash[s]
  BY <1>1 DEF Unchanged
<1> QED
  BY <1>1, <1>2, LeftType DEF Restrict

LEMMA RemainingHolds ==
    ASSUME NEW h, NEW m \in Manifest, NEW slices \in Slices, Clean(m.segments),
           HoldsIn(h, m.segments, m.hash)
    PROVE  HoldsIn(h, Remaining(m, slices), slices)
<1> DEFINE R == Remaining(m, slices)
<1> SUFFICES ASSUME NEW n \in DOMAIN R, ~R[n].dirty, R[n].id \in DOMAIN h
             PROVE  h[R[n].id] = Restrict(slices, R[n].sessions)
  BY DEF HoldsIn
<1>1. PICK i \in DOMAIN m.segments : R[n] = Left(m, slices, i)
  BY RemainingType
<1> HIDE DEF R
<1>2. ~Left(m, slices, i).dirty /\ R[n].id = m.segments[i].id /\ R[n].sessions = m.segments[i].sessions
  BY <1>1, LeftType, LeftDescribes
<1>3. h[R[n].id] = Restrict(m.hash, m.segments[i].sessions)
  BY <1>2 DEF HoldsIn, Clean
<1> QED
  BY <1>2, <1>3, LeftDescribes

LEMMA CloudInit == Init => CloudInv
BY EmptyLists, NoSyncType, HoldsNothing DEF Init, CloudInv, ShownOnce

LEMMA CloudNext == TypeInv /\ PlaceInv /\ CloudInv /\ [Next]_vars => CloudInv'
<1> SUFFICES ASSUME TypeInv, PlaceInv, CloudInv, [Next]_vars PROVE CloudInv'
  OBVIOUS
<1>1. CASE UNCHANGED <<manifest, cloudVars, sync>>
  BY <1>1 DEF CloudInv, HoldsIn, ShownOnce, cloudVars
<1>2. ASSUME DOMAIN held' \subseteq DOMAIN held, \A id \in DOMAIN held' : held'[id] = held[id],
             visible' \subseteq visible, visible' \subseteq DOMAIN held'
      PROVE  ShownOnce' /\ HoldsIn(held', manifest.segments, manifest.hash)
             /\ HoldsIn(held', sync.segments, sync.slices)
  <2>1. ShownOnce'
    BY <1>2 DEF CloudInv, ShownOnce, TypeInv
  <2> QED
    BY <1>2, <2>1, HoldsLess DEF CloudInv
<1>3. ASSUME NEW id \in visible, Retire(id) PROVE CloudInv'
  <2>1. held' = [x \in DOMAIN held \ {id} |-> held[x]] /\ visible' = visible \ {id}
        /\ manifest' = manifest /\ sync' = sync
    BY <1>3 DEF Retire, Restrict
  <2> QED
    BY <1>2, <2>1 DEF CloudInv, TypeInv
<1>4. CASE LoseManifest
  BY <1>4, HoldsNothing, EmptyLists DEF LoseManifest, CloudInv, ShownOnce, cloudVars
<1>5. CASE Begin
  <2>1. sync' = Attempt(manifest, LocalSlices, label) /\ UNCHANGED <<manifest, cloudVars>>
    BY <1>5 DEF Begin
  <2>2. sync'.segments = Remaining(manifest, LocalSlices) /\ sync'.slices = LocalSlices
    BY <2>1 DEF Attempt
  <2>3. HoldsIn(held, Remaining(manifest, LocalSlices), LocalSlices)
    BY RemainingHolds, LocalSlicesType DEF CloudInv, TypeInv
  <2> QED
    BY <2>1, <2>2, <2>3 DEF CloudInv, ShownOnce, cloudVars
<1>6. CASE PlaceInOpen
  <2>1. PICK i \in DOMAIN sync.segments :
             /\ sync'.segments[i].dirty
             /\ \A j \in DOMAIN sync.segments : j # i => Same(sync'.segments[j], sync.segments[j])
    BY <1>6, PlacedInOpen
  <2>2. UNCHANGED <<manifest, cloudVars>> /\ sync'.slices = sync.slices
        /\ DOMAIN sync'.segments = DOMAIN sync.segments
    BY <1>6, PlacedInOpen
  <2>3. HoldsIn(held, sync'.segments, sync'.slices)
    BY <2>1, <2>2 DEF HoldsIn, CloudInv, Same
  <2> QED
    BY <2>2, <2>3 DEF CloudInv, ShownOnce, cloudVars
<1>7. CASE PlaceInNew
  <2>1. PICK n : /\ n \notin DOMAIN sync.segments
                 /\ DOMAIN sync'.segments = DOMAIN sync.segments \cup {n}
                 /\ sync'.segments[n].dirty
    BY <1>7, PlacedInNew
  <2>2. UNCHANGED <<manifest, cloudVars>> /\ sync'.slices = sync.slices
        /\ \A j \in DOMAIN sync.segments : Same(sync'.segments[j], sync.segments[j])
    BY <1>7, PlacedInNew
  <2>3. HoldsIn(held, sync'.segments, sync'.slices)
    BY <2>1, <2>2 DEF HoldsIn, CloudInv, Same
  <2> QED
    BY <2>2, <2>3 DEF CloudInv, ShownOnce, cloudVars
<1>8. CASE EndPlacing
  <2>1. UNCHANGED <<manifest, cloudVars>> /\ sync'.slices = sync.slices
        /\ DOMAIN sync'.segments = DOMAIN sync.segments
        /\ \A j \in DOMAIN sync.segments : Same(sync'.segments[j], sync.segments[j])
    BY <1>8, PlacingEnded
  <2>2. HoldsIn(held, sync'.segments, sync'.slices)
    BY <2>1 DEF HoldsIn, CloudInv, Same
  <2> QED
    BY <2>1, <2>2 DEF CloudInv, ShownOnce, cloudVars
<1>9. CASE Put
  <2>1. PICK i \in DOMAIN sync.segments :
             /\ sync'.segments[i].id = NewId
             /\ sync'.segments[i].sessions = sync.segments[i].sessions
             /\ held'[NewId] = Restrict(sync.slices, sync.segments[i].sessions)
             /\ \A j \in DOMAIN sync.segments : j # i => Same(sync'.segments[j], sync.segments[j])
    BY <1>9, PutStored
  <2>2. /\ UNCHANGED <<manifest, visible>> /\ sync'.slices = sync.slices
        /\ NewId \notin DOMAIN held /\ NewId \notin Ids(manifest.segments) /\ NewId \notin Ids(sync.segments)
        /\ DOMAIN held' = DOMAIN held \cup {NewId}
        /\ \A id \in DOMAIN held : held'[id] = held[id]
        /\ DOMAIN sync'.segments = DOMAIN sync.segments
    BY <1>9, PutStored
  <2>3. HoldsIn(held', manifest.segments, manifest.hash)
    BY <2>2 DEF HoldsIn, CloudInv, Ids
  <2>4. HoldsIn(held', sync'.segments, sync'.slices)
    BY <2>1, <2>2 DEF HoldsIn, CloudInv, Ids, Same
  <2>5. ShownOnce'
    BY <2>2 DEF ShownOnce, CloudInv, TypeInv
  <2> QED
    BY <2>2, <2>3, <2>4, <2>5 DEF CloudInv
<1>10. CASE SkipCommit
  <2>1. sync'.segments = sync.segments /\ sync'.slices = sync.slices /\ UNCHANGED <<manifest, cloudVars>>
    BY <1>10 DEF SkipCommit, TypeInv, Locals
  <2> QED
    BY <2>1 DEF CloudInv, ShownOnce, cloudVars
<1>11. CASE Commit
  <2>1. Clean(sync.segments)
    BY <1>11 DEF Commit, Uploaded, Dirty, Clean, TypeInv
  <2>2. sync'.segments = sync.segments /\ sync'.slices = sync.slices /\ manifest' = manifest
    BY <1>11 DEF Commit, TypeInv, Locals
  <2>3. DOMAIN held' = Ids(sync.segments) /\ visible' = Ids(sync.segments)
        /\ Ids(sync.segments) \subseteq DOMAIN held /\ \A id \in DOMAIN held' : held'[id] = held[id]
    BY <1>11 DEF Commit, Restrict
  <2>4. \A i \in DOMAIN sync.segments :
          /\ sync.segments[i].id \in DOMAIN held'
          /\ DOMAIN held'[sync.segments[i].id] = sync.segments[i].sessions
    <3> SUFFICES ASSUME NEW i \in DOMAIN sync.segments
                 PROVE  /\ sync.segments[i].id \in DOMAIN held'
                        /\ DOMAIN held'[sync.segments[i].id] = sync.segments[i].sessions
      OBVIOUS
    <3>1. sync.segments[i].id \in DOMAIN held' /\ sync.segments[i].id \in DOMAIN held
      BY <2>3 DEF Ids
    <3>2. held'[sync.segments[i].id] = Restrict(sync.slices, sync.segments[i].sessions)
      BY <2>1, <2>3, <3>1 DEF CloudInv, HoldsIn, Clean
    <3> QED
      BY <3>1, <3>2 DEF Restrict
  <2>5. ShownOnce'
    <3> SUFFICES ASSUME NEW a \in visible', NEW b \in visible', a # b
                 PROVE  DOMAIN held'[a] \cap DOMAIN held'[b] = {}
      BY DEF ShownOnce
    <3>1. PICK i \in DOMAIN sync.segments : a = sync.segments[i].id
      BY <2>3 DEF Ids
    <3>2. PICK j \in DOMAIN sync.segments : b = sync.segments[j].id
      BY <2>3 DEF Ids
    <3> QED
      BY <2>4, <3>1, <3>2 DEF PlaceInv, Apart
  <2> QED
    BY <2>2, <2>3, <2>5, HoldsLess DEF CloudInv
<1>12. CASE StartAfresh
  <2>1. sync' = Attempt(EmptyManifest, sync.slices, sync.label) /\ UNCHANGED <<manifest, visible>>
        /\ held' = [id \in visible |-> held[id]]
    BY <1>12 DEF StartAfresh, Restrict
  <2>2. sync'.segments = Remaining(EmptyManifest, sync.slices) /\ sync'.slices = sync.slices
    BY <2>1 DEF Attempt
  <2>3. HoldsIn(held', Remaining(EmptyManifest, sync.slices), sync.slices)
    BY RemainingHolds, HoldsNothing, SliceTypes, EmptyLists DEF TypeInv, Locals
  <2> QED
    BY <1>2, <2>1, <2>2, <2>3 DEF CloudInv, TypeInv
<1>13. CASE Save
  <2>1. sync.at \in {"save", "same"} /\ sync' = NoSync /\ UNCHANGED cloudVars
        /\ manifest'.segments = sync.segments /\ manifest'.hash = sync.slices
    BY <1>13 DEF Save
  <2> QED
    BY <2>1, NoSyncType, HoldsNothing DEF CloudInv, ShownOnce, cloudVars
<1>14. CASE Fail
  <2>1. sync' = NoSync /\ UNCHANGED <<manifest, visible>> /\ held' = [id \in visible |-> held[id]]
    BY <1>14 DEF Fail, Restrict
  <2> QED
    BY <1>2, <2>1, NoSyncType, HoldsNothing DEF CloudInv, TypeInv
<1>15. ASSUME NEW s \in Session, Record(s) \/ GrowOld(s) \/ Clear(s) PROVE CloudInv'
  BY <1>1, <1>15 DEF Record, GrowOld, Clear
<1>16. CASE Relabel
  BY <1>1, <1>16 DEF Relabel
<1>17. CASE UNCHANGED vars
  BY <1>1, <1>17 DEF vars
<1> QED
  BY <1>3, <1>4, <1>5, <1>6, <1>7, <1>8, <1>9, <1>10, <1>11, <1>12, <1>13, <1>14, <1>15, <1>16,
     <1>17 DEF Next, Local, SyncStep

-----------------------------------------------------------------------------
(* What the manifest says of the last commit. *)

BehindInv ==
    /\ ~behind => visible \subseteq Ids(manifest.segments) /\ shownAs = manifest.label
    /\ ~behind /\ sync.at # "idle" /\ sync.base.segments # <<>> => sync.base = manifest
    /\ sync.at = "save" => visible \subseteq Ids(sync.segments) /\ shownAs = sync.label
    /\ sync.at = "same" => NothingToCommit
    /\ behind \in BOOLEAN

LEMMA SameIds ==
    ASSUME NEW a, NEW b, IdList(a) = IdList(b)
    PROVE  DOMAIN a = DOMAIN b /\ (\A i \in DOMAIN a : a[i].id = b[i].id) /\ Ids(a) = Ids(b)
<1>1. DOMAIN IdList(a) = DOMAIN a /\ DOMAIN IdList(b) = DOMAIN b
      /\ (\A i \in DOMAIN a : IdList(a)[i] = a[i].id) /\ (\A i \in DOMAIN b : IdList(b)[i] = b[i].id)
  BY DEF IdList
<1>2. DOMAIN a = DOMAIN b /\ \A i \in DOMAIN a : a[i].id = b[i].id
  BY <1>1
<1> QED
  BY <1>2 DEF Ids

LEMMA BehindInit == Init => BehindInv
<1> SUFFICES ASSUME Init PROVE BehindInv
  OBVIOUS
<1>1. visible = {} /\ shownAs = NoId /\ manifest = EmptyManifest /\ sync = NoSync /\ behind = FALSE
  BY DEF Init
<1> QED
  BY <1>1, NoSyncType, EmptyLists DEF BehindInv

LEMMA BehindNext == TypeInv /\ BehindInv /\ [Next]_vars => BehindInv'
<1> SUFFICES ASSUME TypeInv, BehindInv, [Next]_vars PROVE BehindInv'
  OBVIOUS
<1> USE DEF BehindInv
<1>1. CASE UNCHANGED <<manifest, cloudVars, sync, behind>>
  BY <1>1 DEF cloudVars, NothingToCommit
<1>2. ASSUME NEW id \in visible, Retire(id) PROVE BehindInv'
  BY <1>2 DEF Retire, NothingToCommit
<1>3. CASE LoseManifest
  BY <1>3 DEF LoseManifest, NothingToCommit, cloudVars
<1>4. CASE Begin
  <2>1. sync' = Attempt(manifest, LocalSlices, label) /\ UNCHANGED <<manifest, cloudVars, behind>>
    BY <1>4 DEF Begin
  <2>2. sync'.at = "place" /\ sync'.base = manifest
    BY <2>1 DEF Attempt
  <2> QED
    BY <2>1, <2>2 DEF cloudVars
<1>5. CASE PlaceInOpen
  <2>1. UNCHANGED <<manifest, cloudVars, behind>> /\ sync'.at = "place" /\ sync.at = "place"
        /\ sync'.base = sync.base
    BY <1>5, PlacedInOpen
  <2> QED
    BY <2>1 DEF cloudVars
<1>6. CASE PlaceInNew
  <2>1. UNCHANGED <<manifest, cloudVars, behind>> /\ sync'.at = "place" /\ sync.at = "place"
        /\ sync'.base = sync.base
    BY <1>6, PlacedInNew
  <2> QED
    BY <2>1 DEF cloudVars
<1>7. CASE EndPlacing
  <2>1. UNCHANGED <<manifest, cloudVars, behind>> /\ sync'.at = "put" /\ sync.at = "place"
        /\ sync'.base = sync.base
    BY <1>7, PlacingEnded
  <2> QED
    BY <2>1 DEF cloudVars
<1>8. CASE Put
  <2>1. UNCHANGED <<manifest, visible, shownAs, behind>> /\ sync'.at = "put" /\ sync.at = "put"
        /\ sync'.base = sync.base
    BY <1>8, PutStored
  <2> QED
    BY <2>1
<1>9. CASE SkipCommit
  <2>1. sync'.at = "same" /\ sync.at = "put" /\ sync'.base = sync.base /\ sync'.segments = sync.segments
        /\ sync'.label = sync.label /\ NothingToCommit /\ UNCHANGED <<manifest, cloudVars, behind>>
    BY <1>9 DEF SkipCommit, Uploaded, TypeInv, Locals
  <2>2. NothingToCommit'
    BY <2>1 DEF NothingToCommit
  <2> QED
    BY <2>1, <2>2 DEF cloudVars
<1>10. CASE Commit
  <2>1. sync'.at = "save" /\ sync'.segments = sync.segments /\ sync'.label = sync.label
        /\ visible' = Ids(sync.segments) /\ shownAs' = sync.label /\ behind' = TRUE
    BY <1>10 DEF Commit, TypeInv, Locals
  <2> QED
    BY <2>1
<1>11. CASE StartAfresh
  <2>1. sync' = Attempt(EmptyManifest, sync.slices, sync.label)
        /\ UNCHANGED <<manifest, visible, shownAs, behind>>
    BY <1>11 DEF StartAfresh
  <2>2. sync'.at = "place" /\ sync'.base.segments = <<>>
    BY <2>1, EmptyLists DEF Attempt
  <2> QED
    BY <2>1, <2>2
<1>12. CASE Save
  <2>1. sync.at \in {"save", "same"} /\ sync' = NoSync /\ UNCHANGED cloudVars
        /\ manifest'.segments = sync.segments /\ manifest'.label = sync.label
        /\ behind' = (behind /\ sync.at = "same")
    BY <1>12 DEF Save
  <2>2. CASE sync.at = "save"
    BY <2>1, <2>2, NoSyncType DEF cloudVars
  <2>3. CASE sync.at = "same" /\ ~behind
    <3>1. sync.base = manifest /\ Ids(sync.segments) = Ids(sync.base.segments)
          /\ sync.label = sync.base.label
      BY <2>3, SameIds DEF NothingToCommit
    <3> QED
      BY <2>1, <2>3, <3>1, NoSyncType DEF cloudVars
  <2>4. CASE sync.at = "same" /\ behind
    BY <2>1, <2>4, NoSyncType
  <2> QED
    BY <2>1, <2>2, <2>3, <2>4
<1>13. CASE Fail
  <2>1. sync' = NoSync /\ UNCHANGED <<manifest, visible, shownAs, behind>>
    BY <1>13 DEF Fail
  <2> QED
    BY <2>1, NoSyncType
<1>14. ASSUME NEW s \in Session, Record(s) \/ GrowOld(s) \/ Clear(s) PROVE BehindInv'
  BY <1>1, <1>14 DEF Record, GrowOld, Clear
<1>15. CASE Relabel
  BY <1>1, <1>15 DEF Relabel
<1>16. CASE UNCHANGED vars
  BY <1>1, <1>16 DEF vars
<1> QED
  BY <1>2, <1>3, <1>4, <1>5, <1>6, <1>7, <1>8, <1>9, <1>10, <1>11, <1>12, <1>13, <1>14, <1>15,
     <1>16 DEF Next, Local, SyncStep

-----------------------------------------------------------------------------
(* Every session read is shown, old, or has moved on. *)

Covered(segment, hash, shown, gone, now) ==
    segment.id \in shown \/ \A s \in segment.sessions : s \in gone \/ now[s] > hash[s]

AllCovered(segments, hash, shown, gone, now) ==
    \A i \in DOMAIN segments : Covered(segments[i], hash, shown, gone, now)

(* A segment that keeps an id of the base is the base's segment, unchanged. *)
FromBase(base, segments, slices) ==
    \A i \in DOMAIN segments :
        ~segments[i].dirty /\ segments[i].id \in Ids(base.segments) =>
            \E k \in DOMAIN base.segments :
                /\ base.segments[k].id = segments[i].id
                /\ base.segments[k].sessions = segments[i].sessions
                /\ \A s \in segments[i].sessions : base.hash[s] = slices[s]

CoverInv ==
    /\ \A s \in DOMAIN sync.slices : sync.slices[s] <= changes[s]
    /\ \A s \in DOMAIN manifest.hash : manifest.hash[s] <= changes[s]
    /\ sync.at = "save" => AllCovered(sync.segments, sync.slices, visible, old, changes)
    /\ ~behind => AllCovered(manifest.segments, manifest.hash, visible, old, changes)
    /\ FromBase(sync.base, sync.segments, sync.slices)

LEMMA RemainingFromBase ==
    ASSUME NEW m \in Manifest, NEW slices \in Slices
    PROVE  FromBase(m, Remaining(m, slices), slices)
<1> DEFINE R == Remaining(m, slices)
<1> SUFFICES ASSUME NEW n \in DOMAIN R, ~R[n].dirty
             PROVE  \E k \in DOMAIN m.segments :
                        /\ m.segments[k].id = R[n].id
                        /\ m.segments[k].sessions = R[n].sessions
                        /\ \A s \in R[n].sessions : m.hash[s] = slices[s]
  BY DEF FromBase
<1>1. PICK i \in DOMAIN m.segments : R[n] = Left(m, slices, i)
  BY RemainingType
<1> HIDE DEF R
<1> QED
  BY <1>1, LeftType, LeftDescribes

(* A session that changes has moved on from what was read of it. *)
LEMMA StaysCovered ==
    ASSUME NEW segments, NEW hash \in Slices, NEW c \in [Session -> Nat], NEW s \in Session,
           Placed(segments) \subseteq DOMAIN hash, NEW v, NEW o,
           \A t \in DOMAIN hash : hash[t] <= c[t]
    PROVE  /\ \A t \in DOMAIN hash : hash[t] <= [c EXCEPT ![s] = @ + 1][t]
           /\ AllCovered(segments, hash, v, o, c) =>
                AllCovered(segments, hash, v, o \ {s}, [c EXCEPT ![s] = @ + 1])
<1> DEFINE d == [c EXCEPT ![s] = @ + 1]
<1>1. \A t \in DOMAIN hash : t \in Session /\ hash[t] \in Nat
  BY SegmentBounds DEF Slices
<1>2. \A t \in Session : d[t] = IF t = s THEN c[t] + 1 ELSE c[t]
  OBVIOUS
<1> HIDE DEF d
<1>3. \A t \in DOMAIN hash : /\ hash[t] <= d[t] /\ (t = s => d[t] > hash[t])
                             /\ (c[t] > hash[t] => d[t] > hash[t])
  BY <1>1, <1>2
<1>4. ASSUME NEW i \in DOMAIN segments, Covered(segments[i], hash, v, o, c)
      PROVE  Covered(segments[i], hash, v, o \ {s}, d)
  <2>1. segments[i].sessions \subseteq DOMAIN hash
    BY DEF Placed
  <2> QED
    BY <1>3, <1>4, <2>1 DEF Covered
<1>5. AllCovered(segments, hash, v, o, c) => AllCovered(segments, hash, v, o \ {s}, d)
  BY <1>4 DEF AllCovered
<1> QED
  BY <1>3, <1>5 DEF d

(* A segment is retired when its sessions are old. *)
LEMMA RetiredIsOld ==
    ASSUME NEW segments, NEW hash, NEW h, NEW v, NEW o, NEW c, NEW id \in v,
           Clean(segments), HoldsIn(h, segments, hash), id \in DOMAIN h, DOMAIN h[id] \subseteq o,
           AllCovered(segments, hash, v, o, c)
    PROVE  AllCovered(segments, hash, v \ {id}, o, c)
<1> SUFFICES ASSUME NEW i \in DOMAIN segments PROVE Covered(segments[i], hash, v \ {id}, o, c)
  BY DEF AllCovered
<1>1. Covered(segments[i], hash, v, o, c)
  BY DEF AllCovered
<1>2. CASE segments[i].id = id
  <2>1. h[id] = Restrict(hash, segments[i].sessions)
    BY <1>2 DEF HoldsIn, Clean
  <2>2. segments[i].sessions \subseteq o
    BY <2>1 DEF Restrict
  <2> QED
    BY <2>2 DEF Covered
<1>3. CASE segments[i].id # id
  BY <1>1, <1>3 DEF Covered
<1> QED
  BY <1>2, <1>3

LEMMA MoreOld ==
    ASSUME NEW segments, NEW hash, NEW v, NEW o, NEW o2, NEW c, o \subseteq o2,
           AllCovered(segments, hash, v, o, c)
    PROVE  AllCovered(segments, hash, v, o2, c)
BY DEF AllCovered, Covered

LEMMA NothingFromBase == \A base, slices : FromBase(base, <<>>, slices)
BY DEF FromBase

(* A sync that found nothing to commit has the segments of the last commit. *)
LEMMA SameIsCovered ==
    ASSUME TypeInv, BehindInv, CoverInv, sync.at = "same", ~behind
    PROVE  /\ AllCovered(sync.segments, sync.slices, visible, old, changes)
           /\ visible \subseteq Ids(sync.segments) /\ shownAs = sync.label
<1>1. sync.base = manifest /\ IdList(sync.segments) = IdList(sync.base.segments)
      /\ sync.label = sync.base.label
  BY DEF BehindInv, NothingToCommit
<1>2. Ids(sync.segments) = Ids(manifest.segments)
  BY <1>1, SameIds
<1>3. ASSUME NEW i \in DOMAIN sync.segments
      PROVE  Covered(sync.segments[i], sync.slices, visible, old, changes)
  <2>1. sync.segments[i].id \in Ids(sync.base.segments) /\ ~sync.segments[i].dirty
    BY <1>1, <1>2 DEF Ids, TypeInv, Clean
  <2>2. PICK k \in DOMAIN manifest.segments :
             /\ manifest.segments[k].id = sync.segments[i].id
             /\ manifest.segments[k].sessions = sync.segments[i].sessions
             /\ \A s \in sync.segments[i].sessions : manifest.hash[s] = sync.slices[s]
    BY <1>1, <2>1 DEF CoverInv, FromBase
  <2>3. Covered(manifest.segments[k], manifest.hash, visible, old, changes)
    BY DEF CoverInv, AllCovered
  <2> QED
    BY <2>2, <2>3 DEF Covered
<1> QED
  BY <1>1, <1>2, <1>3 DEF AllCovered, BehindInv

LEMMA CoverInit == Init => CoverInv
<1> SUFFICES ASSUME Init PROVE CoverInv
  OBVIOUS
<1>1. manifest = EmptyManifest /\ sync = NoSync
  BY DEF Init
<1>2. AllCovered(<<>>, <<>>, visible, old, changes)
  BY DEF AllCovered
<1> QED
  BY <1>1, <1>2, NoSyncType, EmptyLists, NothingFromBase, SliceTypes DEF CoverInv

LEMMA CoverNext ==
    TypeInv /\ PlaceInv /\ CloudInv /\ BehindInv /\ CoverInv /\ [Next]_vars => CoverInv'
<1> SUFFICES ASSUME TypeInv, PlaceInv, CloudInv, BehindInv, CoverInv, [Next]_vars PROVE CoverInv'
  OBVIOUS
<1> USE DEF CoverInv
<1>0. changes \in [Session -> Nat] /\ sync.slices \in Slices /\ manifest.hash \in Slices
      /\ Placed(manifest.segments) \subseteq DOMAIN manifest.hash
      /\ Placed(sync.segments) \subseteq DOMAIN sync.slices
      /\ sync.segments \in Seq(Segment)
  BY DEF TypeInv, PlaceInv, Locals, Manifest
<1>1. CASE UNCHANGED <<changes, old, manifest, cloudVars, sync, behind>>
  BY <1>1 DEF cloudVars
<1>2. ASSUME NEW s \in Session, Record(s) PROVE CoverInv'
  <2>1. changes' = [changes EXCEPT ![s] = @ + 1] /\ old' = old \ {s}
        /\ UNCHANGED <<manifest, cloudVars, sync, behind>>
    BY <1>2 DEF Record
  <2>2. /\ \A t \in DOMAIN sync.slices : sync.slices[t] <= changes'[t]
        /\ AllCovered(sync.segments, sync.slices, visible, old, changes) =>
             AllCovered(sync.segments, sync.slices, visible, old', changes')
    BY <1>0, <2>1, StaysCovered
  <2>3. /\ \A t \in DOMAIN manifest.hash : manifest.hash[t] <= changes'[t]
        /\ AllCovered(manifest.segments, manifest.hash, visible, old, changes) =>
             AllCovered(manifest.segments, manifest.hash, visible, old', changes')
    BY <1>0, <2>1, StaysCovered
  <2> QED
    BY <2>1, <2>2, <2>3 DEF cloudVars
<1>3. ASSUME NEW s \in Session, GrowOld(s) \/ Clear(s) PROVE CoverInv'
  <2>1. old \subseteq old' /\ UNCHANGED <<changes, manifest, cloudVars, sync, behind>>
    BY <1>3 DEF GrowOld, Clear
  <2> QED
    BY <2>1, MoreOld DEF cloudVars
<1>4. ASSUME NEW id \in visible, Retire(id) PROVE CoverInv'
  <2>1. visible' = visible \ {id} /\ DOMAIN held[id] \subseteq old /\ id \in DOMAIN held
        /\ UNCHANGED <<changes, old, manifest, sync, behind>>
    BY <1>4 DEF Retire, localVars, TypeInv
  <2>2. ~behind => AllCovered(manifest.segments, manifest.hash, visible', old, changes)
    BY <2>1, RetiredIsOld DEF CloudInv, TypeInv
  <2>3. sync.at = "save" => AllCovered(sync.segments, sync.slices, visible', old, changes)
    BY <2>1, RetiredIsOld DEF CloudInv, TypeInv
  <2> QED
    BY <2>1, <2>2, <2>3
<1>5. CASE LoseManifest
  <2>1. manifest' = EmptyManifest /\ behind' /\ UNCHANGED <<changes, old, cloudVars, sync>>
    BY <1>5 DEF LoseManifest, localVars
  <2> QED
    BY <2>1, EmptyLists, SliceTypes DEF cloudVars
<1>6. CASE Begin
  <2>1. sync' = Attempt(manifest, LocalSlices, label)
        /\ UNCHANGED <<changes, old, manifest, cloudVars, behind>>
    BY <1>6 DEF Begin, localVars
  <2>2. sync'.segments = Remaining(manifest, LocalSlices) /\ sync'.slices = LocalSlices
        /\ sync'.base = manifest /\ sync'.at = "place"
    BY <2>1 DEF Attempt
  <2>3. \A s \in DOMAIN LocalSlices : LocalSlices[s] <= changes[s]
    BY <1>0 DEF LocalSlices, TypeInv
  <2>4. FromBase(manifest, Remaining(manifest, LocalSlices), LocalSlices)
    BY RemainingFromBase, LocalSlicesType DEF TypeInv
  <2> QED
    BY <2>1, <2>2, <2>3, <2>4 DEF cloudVars
<1>7. CASE PlaceInOpen
  <2>1. PICK i \in DOMAIN sync.segments :
             /\ sync'.segments[i].dirty
             /\ \A j \in DOMAIN sync.segments : j # i => Same(sync'.segments[j], sync.segments[j])
    BY <1>7, PlacedInOpen
  <2>2. UNCHANGED <<changes, old, manifest, cloudVars, behind>> /\ sync'.slices = sync.slices
        /\ sync'.base = sync.base /\ sync'.at = "place" /\ DOMAIN sync'.segments = DOMAIN sync.segments
    BY <1>7, PlacedInOpen DEF localVars
  <2>3. FromBase(sync'.base, sync'.segments, sync'.slices)
    BY <2>1, <2>2 DEF FromBase, Same
  <2> QED
    BY <2>2, <2>3 DEF cloudVars
<1>8. CASE PlaceInNew
  <2>1. PICK n : /\ n \notin DOMAIN sync.segments
                 /\ DOMAIN sync'.segments = DOMAIN sync.segments \cup {n}
                 /\ sync'.segments[n].dirty
    BY <1>8, PlacedInNew
  <2>2. UNCHANGED <<changes, old, manifest, cloudVars, behind>> /\ sync'.slices = sync.slices
        /\ sync'.base = sync.base /\ sync'.at = "place"
        /\ \A j \in DOMAIN sync.segments : Same(sync'.segments[j], sync.segments[j])
    BY <1>8, PlacedInNew DEF localVars
  <2>3. FromBase(sync'.base, sync'.segments, sync'.slices)
    BY <2>1, <2>2 DEF FromBase, Same
  <2> QED
    BY <2>2, <2>3 DEF cloudVars
<1>9. CASE EndPlacing
  <2>1. UNCHANGED <<changes, old, manifest, cloudVars, behind>> /\ sync'.slices = sync.slices
        /\ sync'.base = sync.base /\ sync'.at = "put" /\ DOMAIN sync'.segments = DOMAIN sync.segments
        /\ \A j \in DOMAIN sync.segments : Same(sync'.segments[j], sync.segments[j])
    BY <1>9, PlacingEnded DEF localVars
  <2>2. FromBase(sync'.base, sync'.segments, sync'.slices)
    BY <2>1 DEF FromBase, Same
  <2> QED
    BY <2>1, <2>2 DEF cloudVars
<1>10. CASE Put
  <2>1. PICK i \in DOMAIN sync.segments :
             /\ sync'.segments[i].id = NewId
             /\ \A j \in DOMAIN sync.segments : j # i => Same(sync'.segments[j], sync.segments[j])
    BY <1>10, PutStored
  <2>2. /\ UNCHANGED <<changes, old, manifest, visible, behind>> /\ sync'.slices = sync.slices
        /\ sync'.base = sync.base /\ sync'.at = "put" /\ NewId \notin Ids(sync.base.segments)
        /\ DOMAIN sync'.segments = DOMAIN sync.segments
    BY <1>10, PutStored DEF localVars
  <2>3. FromBase(sync'.base, sync'.segments, sync'.slices)
    BY <2>1, <2>2 DEF FromBase, Same
  <2> QED
    BY <2>2, <2>3
<1>11. CASE SkipCommit
  <2>1. sync'.at = "same" /\ sync'.segments = sync.segments /\ sync'.slices = sync.slices
        /\ sync'.base = sync.base /\ UNCHANGED <<changes, old, manifest, cloudVars, behind>>
    BY <1>11 DEF SkipCommit, TypeInv, Locals, localVars
  <2> QED
    BY <2>1 DEF cloudVars
<1>12. CASE Commit
  <2>1. sync'.segments = sync.segments /\ sync'.slices = sync.slices /\ sync'.base = sync.base
        /\ visible' = Ids(sync.segments) /\ behind' /\ UNCHANGED <<changes, old, manifest>>
    BY <1>12 DEF Commit, TypeInv, Locals, localVars
  <2>2. AllCovered(sync.segments, sync.slices, visible', old, changes)
    BY <2>1 DEF AllCovered, Covered, Ids
  <2> QED
    BY <2>1, <2>2
<1>13. CASE StartAfresh
  <2>1. sync' = Attempt(EmptyManifest, sync.slices, sync.label)
        /\ UNCHANGED <<changes, old, manifest, visible, behind>>
    BY <1>13 DEF StartAfresh, localVars
  <2>2. sync'.segments = Remaining(EmptyManifest, sync.slices) /\ sync'.slices = sync.slices
        /\ sync'.base = EmptyManifest /\ sync'.at = "place"
    BY <2>1 DEF Attempt
  <2>3. FromBase(EmptyManifest, Remaining(EmptyManifest, sync.slices), sync.slices)
    BY <1>0, RemainingFromBase, SliceTypes
  <2> QED
    BY <2>1, <2>2, <2>3
<1>14. CASE Save
  <2>1. sync.at \in {"save", "same"} /\ sync' = NoSync /\ UNCHANGED <<changes, old, cloudVars>>
        /\ manifest'.segments = sync.segments /\ manifest'.hash = sync.slices
        /\ behind' = (behind /\ sync.at = "same")
    BY <1>14 DEF Save, localVars
  <2>2. ~behind' => AllCovered(sync.segments, sync.slices, visible, old, changes)
    <3>1. CASE sync.at = "save"
      BY <3>1
    <3>2. CASE sync.at = "same" /\ ~behind
      BY <3>2, SameIsCovered
    <3> QED
      BY <2>1, <3>1, <3>2 DEF BehindInv
  <2> QED
    BY <2>1, <2>2, NoSyncType, NothingFromBase, SliceTypes DEF cloudVars
<1>15. CASE Fail
  <2>1. sync' = NoSync /\ UNCHANGED <<changes, old, manifest, visible, behind>>
    BY <1>15 DEF Fail, localVars
  <2> QED
    BY <2>1, NoSyncType, NothingFromBase, SliceTypes
<1>16. CASE Relabel
  BY <1>1, <1>16 DEF Relabel
<1>17. CASE UNCHANGED vars
  BY <1>1, <1>17 DEF vars, localVars
<1> QED
  BY <1>2, <1>3, <1>4, <1>5, <1>6, <1>7, <1>8, <1>9, <1>10, <1>11, <1>12, <1>13, <1>14, <1>15, <1>16,
     <1>17 DEF Next, Local, SyncStep

-----------------------------------------------------------------------------
(* Theorems. *)

IInv == TypeInv /\ PlaceInv /\ CloudInv /\ BehindInv /\ CoverInv

(* The invariant holds in every run, whatever fails and whenever. *)
THEOREM IInvCorrect == Spec => []IInv
<1>1. Init => IInv
  BY TypeInit, CloudInit, BehindInit, CoverInit DEF IInv
<1>2. IInv /\ [Next]_vars => IInv'
  BY TypeNext, CloudNext, BehindNext, CoverNext DEF IInv
<1> QED
  BY <1>1, <1>2, PTL DEF Spec

(* Every variable keeps its type: runOnce never names an upload in a list it
   commits before the cloud answered with it. *)
THEOREM TypeCorrect == Spec => []TypeOK
<1>1. IInv => TypeOK
  <2> SUFFICES ASSUME IInv PROVE TypeOK
    OBVIOUS
  <2>1. sync.at \in {"save", "same"} => NoId \notin Ids(sync.segments)
    BY DEF IInv, TypeInv, Clean, Ids
  <2> QED
    BY <2>1 DEF IInv, TypeInv, TypeOK, Locals, Manifest, Step
<1> QED
  BY <1>1, IInvCorrect, PTL

(* No session is shown twice: a commit lists no segment that a moved session
   left, wherever earlier syncs ended. *)
THEOREM ShownOnceAlways == Spec => []ShownOnce
<1>1. IInv => ShownOnce
  BY DEF IInv, CloudInv
<1> QED
  BY <1>1, IInvCorrect, PTL

(* What sync-segments.json says of a segment the cloud holds is what the cloud
   holds; while it records the last commit it names every segment shown. *)
THEOREM ManifestTrueAlways == Spec => []ManifestTrue
<1>1. IInv => ManifestTrue
  <2> SUFFICES ASSUME IInv PROVE ManifestTrue
    OBVIOUS
  <2>1. ASSUME NEW i \in DOMAIN manifest.segments, manifest.segments[i].id \in DOMAIN held
        PROVE  held[manifest.segments[i].id] = Restrict(manifest.hash, manifest.segments[i].sessions)
    BY <2>1 DEF IInv, CloudInv, HoldsIn, TypeInv, Clean
  <2> QED
    BY <2>1 DEF IInv, BehindInv, ManifestTrue
<1> QED
  BY <1>1, IInvCorrect, PTL

(* A sync that commits, or rightly finds nothing to commit, leaves the cloud
   with what it read and nothing else. *)
THEOREM DeliveredAlways == Spec => []Delivered
<1>1. IInv => Delivered
  <2> SUFFICES ASSUME IInv, sync.at = "save" \/ (sync.at = "same" /\ ~behind)
               PROVE  /\ Shown \subseteq {<<s, sync.slices[s]>> : s \in DOMAIN sync.slices}
                      /\ \A s \in DOMAIN sync.slices :
                           <<s, sync.slices[s]>> \in Shown \/ s \in old \/ changes[s] # sync.slices[s]
                      /\ shownAs = sync.label
    BY DEF Delivered
  <2>1. /\ AllCovered(sync.segments, sync.slices, visible, old, changes)
        /\ visible \subseteq Ids(sync.segments) /\ shownAs = sync.label
    BY SameIsCovered DEF IInv, CoverInv, BehindInv
  <2>2. ASSUME NEW i \in DOMAIN sync.segments, sync.segments[i].id \in visible
        PROVE  held[sync.segments[i].id] = Restrict(sync.slices, sync.segments[i].sessions)
    BY <2>2 DEF IInv, TypeInv, Clean, CloudInv, HoldsIn
  <2>3. \A i \in DOMAIN sync.segments : sync.segments[i].sessions \subseteq DOMAIN sync.slices
    BY DEF IInv, PlaceInv, Placed
  <2>4. ASSUME NEW id \in visible, NEW s \in DOMAIN held[id]
        PROVE  s \in DOMAIN sync.slices /\ held[id][s] = sync.slices[s]
    <3>1. PICK i \in DOMAIN sync.segments : id = sync.segments[i].id
      BY <2>1 DEF Ids
    <3>2. held[id] = Restrict(sync.slices, sync.segments[i].sessions)
      BY <2>2, <3>1
    <3> QED
      BY <2>3, <3>2 DEF Restrict
  <2>5. ASSUME NEW s \in DOMAIN sync.slices
        PROVE  <<s, sync.slices[s]>> \in Shown \/ s \in old \/ changes[s] # sync.slices[s]
    <3>1. PICK i \in DOMAIN sync.segments : s \in sync.segments[i].sessions
      BY DEF IInv, PlaceInv, Placed
    <3>2. CASE sync.segments[i].id \in visible
      <4>1. held[sync.segments[i].id] = Restrict(sync.slices, sync.segments[i].sessions)
        BY <2>2, <3>2
      <4>2. s \in DOMAIN held[sync.segments[i].id] /\ held[sync.segments[i].id][s] = sync.slices[s]
        BY <3>1, <4>1 DEF Restrict
      <4> QED
        BY <3>2, <4>2 DEF Shown
    <3>3. CASE sync.segments[i].id \notin visible
      <4>1. s \in old \/ changes[s] > sync.slices[s]
        BY <2>1, <3>1, <3>3 DEF AllCovered, Covered
      <4>2. s \in Session /\ changes[s] \in Nat
        BY SliceTypes DEF IInv, TypeInv, Locals
      <4>3. sync.slices[s] \in Nat
        BY SegmentBounds DEF IInv, TypeInv, Locals, Slices
      <4> QED
        BY <4>1, <4>2, <4>3
    <3> QED
      BY <3>2, <3>3
  <2>6. Shown \subseteq {<<s, sync.slices[s]>> : s \in DOMAIN sync.slices}
    BY <2>4 DEF Shown
  <2> QED
    BY <2>1, <2>5, <2>6
<1> QED
  BY <1>1, IInvCorrect, PTL
-----------------------------------------------------------------------------
(* WellPlaced: the bytes of a segment are a sum over its sessions, which the
   library takes by a recursive function on the subsets of a set. *)

SumsUp(sum, f, S) ==
    /\ sum \in [SUBSET S -> Nat]
    /\ sum = [T \in SUBSET S |-> IF T = {} THEN 0
                                 ELSE f[CHOOSE x \in T : TRUE] + sum[T \ {CHOOSE x \in T : TRUE}]]

(* The library's function, defined by its recursion. *)
Sums(f, S) ==
    CHOOSE sum : sum = [T \in SUBSET S |-> IF T = {} THEN 0
                                 ELSE f[CHOOSE x \in T : TRUE] + sum[T \ {CHOOSE x \in T : TRUE}]]

LEMMA SumUnfolds == ASSUME NEW f, NEW S PROVE SumFunctionOnSet(f, S) = Sums(f, S)[S]
BY DEF SumFunctionOnSet, FoldFunctionOnSet, MapThenFoldSet, Sums

(* What a sum is up to sets of n. *)
SumsTo(sum, f, S, n) ==
    LET Small == {T \in SUBSET S : Cardinality(T) <= n}
    IN  /\ sum \in [Small -> Nat]
        /\ \A T \in Small : sum[T] = IF T = {} THEN 0
                                     ELSE f[CHOOSE x \in T : TRUE] + sum[T \ {CHOOSE x \in T : TRUE}]

(* The subsets of a finite set, and one element less. *)
LEMMA SubsetSize ==
    ASSUME NEW S, IsFiniteSet(S), NEW T \in SUBSET S
    PROVE  /\ IsFiniteSet(T) /\ Cardinality(T) \in Nat /\ Cardinality(T) <= Cardinality(S)
           /\ (Cardinality(T) = 0 <=> T = {})
           /\ \A x \in T : /\ T \ {x} \in SUBSET S
                           /\ Cardinality(T \ {x}) = Cardinality(T) - 1
BY FS_Subset, FS_CardinalityType, FS_RemoveElement, FS_EmptySet

LEMMA SumsToExists ==
    ASSUME NEW S, IsFiniteSet(S), NEW f, \A x \in S : f[x] \in Nat, NEW n \in Nat
    PROVE  \E sum : SumsTo(sum, f, S, n)
<1> DEFINE Bad == {m \in Nat : \A sum : ~SumsTo(sum, f, S, m)}
           Small(m) == {T \in SUBSET S : Cardinality(T) <= m}
           Any(T) == CHOOSE x \in T : TRUE
<1>0. ASSUME NEW T \in SUBSET S, T # {}
      PROVE  /\ Any(T) \in T /\ Any(T) \in S /\ f[Any(T)] \in Nat /\ T \ {Any(T)} \in SUBSET S
             /\ Cardinality(T \ {Any(T)}) = Cardinality(T) - 1
  <2>1. Any(T) \in T
    BY <1>0
  <2> QED
    BY <2>1, SubsetSize
<1>1. CASE Bad = {}
  BY <1>1
<1>2. CASE Bad # {}
  <2>1. PICK m \in Bad : \A k \in Bad : m <= k
    BY <1>2, LeastNumber
  <2>2. CASE m = 0
    <3> DEFINE sum == [T \in Small(0) |-> 0]
    <3>1. \A T \in Small(0) : T = {}
      BY SubsetSize
    <3>2. SumsTo(sum, f, S, 0)
      BY <3>1 DEF SumsTo
    <3> QED
      BY <2>1, <2>2, <3>2
  <2>3. CASE m # 0
    <3>1. m - 1 \in Nat /\ m - 1 \notin Bad
      BY <2>1, <2>3
    <3>2. PICK less : SumsTo(less, f, S, m - 1)
      BY <3>1
    <3>3. /\ less \in [Small(m - 1) -> Nat]
          /\ \A T \in Small(m - 1) : less[T] = IF T = {} THEN 0 ELSE f[Any(T)] + less[T \ {Any(T)}]
      BY <3>2 DEF SumsTo
    <3> HIDE DEF Any
    <3> DEFINE Value(T) == IF T = {} THEN 0 ELSE f[Any(T)] + less[T \ {Any(T)}]
               sum == [T \in Small(m) |-> Value(T)]
    <3>4. ASSUME NEW T \in Small(m), T # {} PROVE T \ {Any(T)} \in Small(m - 1)
      <4>1. Cardinality(T) \in Nat /\ Cardinality(T) <= m /\ m \in Nat
        BY <2>1, SubsetSize
      <4>2. T \ {Any(T)} \in SUBSET S /\ Cardinality(T \ {Any(T)}) = Cardinality(T) - 1
        BY <1>0, <3>4
      <4> QED
        BY <4>1, <4>2
    <3>5. ASSUME NEW T \in Small(m) PROVE Value(T) \in Nat
      <4>1. CASE T = {}
        BY <4>1
      <4>2. CASE T # {}
        BY <1>0, <3>3, <3>4, <4>2
      <4> QED
        BY <4>1, <4>2
    <3>6. ASSUME NEW T \in Small(m - 1) PROVE T \in Small(m) /\ Value(T) = less[T]
      <4>1. Cardinality(T) \in Nat /\ Cardinality(T) <= m - 1 /\ m \in Nat
        BY <2>1, SubsetSize
      <4> QED
        BY <3>3, <4>1
    <3>7. sum \in [Small(m) -> Nat]
      BY <3>5
    <3>8. ASSUME NEW T \in Small(m)
          PROVE  sum[T] = IF T = {} THEN 0 ELSE f[Any(T)] + sum[T \ {Any(T)}]
      <4>1. CASE T = {}
        BY <4>1
      <4>2. CASE T # {}
        <5>1. T \ {Any(T)} \in Small(m - 1)
          BY <3>4, <4>2
        <5>2. T \ {Any(T)} \in Small(m) /\ Value(T \ {Any(T)}) = less[T \ {Any(T)}]
          BY <3>6, <5>1
        <5>3. sum[T \ {Any(T)}] = less[T \ {Any(T)}]
          BY <5>2
        <5> QED
          BY <4>2, <5>3
      <4> QED
        BY <4>1, <4>2
    <3> HIDE DEF sum
    <3>9. SumsTo(sum, f, S, m)
      BY <3>7, <3>8 DEF SumsTo, Any
    <3> QED
      BY <2>1, <3>9
  <2> QED
    BY <2>2, <2>3
<1> QED
  BY <1>1, <1>2

LEMMA SumsIs ==
    ASSUME NEW S, IsFiniteSet(S), NEW f, \A x \in S : f[x] \in Nat
    PROVE  SumsUp(Sums(f, S), f, S)
<1> DEFINE Any(T) == CHOOSE x \in T : TRUE
           Obeys(sum) == sum = [T \in SUBSET S |-> IF T = {} THEN 0 ELSE f[Any(T)] + sum[T \ {Any(T)}]]
<1>1. Cardinality(S) \in Nat /\ \A T \in SUBSET S : Cardinality(T) <= Cardinality(S)
  BY SubsetSize
<1>2. PICK sum : SumsTo(sum, f, S, Cardinality(S))
  BY <1>1, SumsToExists
<1>3. {T \in SUBSET S : Cardinality(T) <= Cardinality(S)} = SUBSET S
  BY <1>1
<1>4. /\ sum \in [SUBSET S -> Nat]
      /\ \A T \in SUBSET S : sum[T] = IF T = {} THEN 0 ELSE f[Any(T)] + sum[T \ {Any(T)}]
  BY <1>2, <1>3 DEF SumsTo
<1>5. \E any : Obeys(any)
  BY <1>4
<1>6. Obeys(Sums(f, S))
  BY <1>5 DEF Sums
<1> DEFINE s == Sums(f, S)
<1> HIDE DEF s
<1>7. \A T \in SUBSET S : s[T] = IF T = {} THEN 0 ELSE f[Any(T)] + s[T \ {Any(T)}]
  BY <1>6 DEF s
<1> DEFINE Bad == {n \in Nat : \E T \in SUBSET S : Cardinality(T) = n /\ s[T] \notin Nat}
<1>8. CASE Bad = {}
  <2>1. \A T \in SUBSET S : Cardinality(T) \in Nat
    BY SubsetSize
  <2>2. \A T \in SUBSET S : s[T] \in Nat
    BY <1>8, <2>1
  <2>3. s \in [SUBSET S -> Nat]
    BY <1>6, <2>2 DEF s
  <2> QED
    BY <1>6, <2>3 DEF SumsUp, s
<1>9. CASE Bad # {}
  <2>1. PICK n \in Bad : \A k \in Bad : n <= k
    BY <1>9, LeastNumber
  <2>2. PICK T \in SUBSET S : Cardinality(T) = n /\ s[T] \notin Nat
    BY <2>1
  <2>3. T # {}
    BY <1>7, <2>2
  <2>4. Any(T) \in T
    BY <2>3
  <2> HIDE DEF Any
  <2>5. T \ {Any(T)} \in SUBSET S /\ Cardinality(T \ {Any(T)}) = n - 1 /\ Cardinality(T \ {Any(T)}) \in Nat
    <3>1. T \ {Any(T)} \in SUBSET S /\ Cardinality(T \ {Any(T)}) = n - 1
      BY <2>2, <2>4, SubsetSize
    <3> QED
      BY <3>1, SubsetSize
  <2>6. s[T \ {Any(T)}] \in Nat
    BY <2>1, <2>5
  <2>7. f[Any(T)] \in Nat /\ s[T] = f[Any(T)] + s[T \ {Any(T)}]
    BY <1>7, <2>2, <2>3, <2>4
  <2> QED
    BY <2>2, <2>6, <2>7
<1> QED
  BY <1>8, <1>9

(* Where a sum begins does not matter. *)
LEMMA SumsAnyOrder ==
    ASSUME NEW S, IsFiniteSet(S), NEW f, \A x \in S : f[x] \in Nat, NEW sum, SumsUp(sum, f, S),
           NEW T \in SUBSET S, NEW x \in T
    PROVE  sum[T] = f[x] + sum[T \ {x}]
<1> DEFINE Any(U) == CHOOSE y \in U : TRUE
           Bad == {n \in Nat : \E U \in SUBSET S : Cardinality(U) = n
                                /\ \E y \in U : sum[U] # f[y] + sum[U \ {y}]}
<1>0. /\ \A U \in SUBSET S : sum[U] \in Nat
      /\ \A U \in SUBSET S : U # {} => sum[U] = f[Any(U)] + sum[U \ {Any(U)}]
  BY DEF SumsUp
<1>1. CASE Bad = {}
  <2>1. Cardinality(T) \in Nat
    BY SubsetSize
  <2> QED
    BY <1>1, <2>1
<1>2. CASE Bad # {}
  <2>1. PICK n \in Bad : \A k \in Bad : n <= k
    BY <1>2, LeastNumber
  <2>2. PICK U \in SUBSET S : Cardinality(U) = n /\ \E z \in U : sum[U] # f[z] + sum[U \ {z}]
    BY <2>1
  <2>3. PICK y \in U : sum[U] # f[y] + sum[U \ {y}]
    BY <2>2
  <2> DEFINE a == Any(U)
  <2>4. a \in U /\ sum[U] = f[a] + sum[U \ {a}] /\ a # y
    BY <1>0, <2>2, <2>3
  <2> HIDE DEF a, Any
  <2>5. /\ U \ {a} \in SUBSET S /\ Cardinality(U \ {a}) = n - 1 /\ Cardinality(U \ {a}) \in Nat
        /\ U \ {y} \in SUBSET S /\ Cardinality(U \ {y}) = n - 1 /\ y \in U \ {a} /\ a \in U \ {y}
    BY <2>2, <2>4, SubsetSize
  <2>6. n - 1 \notin Bad
    BY <2>1, <2>5
  <2>7. sum[U \ {a}] = f[y] + sum[(U \ {a}) \ {y}] /\ sum[U \ {y}] = f[a] + sum[(U \ {y}) \ {a}]
    BY <2>5, <2>6
  <2>8. (U \ {a}) \ {y} = (U \ {y}) \ {a} /\ (U \ {a}) \ {y} \in SUBSET S
    OBVIOUS
  <2> DEFINE rest == sum[(U \ {a}) \ {y}]
  <2>9. rest = sum[(U \ {y}) \ {a}] /\ rest \in Nat /\ f[a] \in Nat /\ f[y] \in Nat
    BY <1>0, <2>2, <2>4, <2>8
  <2>10. sum[U \ {a}] = f[y] + rest /\ sum[U \ {y}] = f[a] + rest
    BY <2>7, <2>9
  <2> HIDE DEF rest
  <2> QED
    BY <2>3, <2>4, <2>9, <2>10
<1> QED
  BY <1>1, <1>2

(* A sum depends on the values of its members alone. *)
LEMMA SumsSame ==
    ASSUME NEW S, IsFiniteSet(S), NEW f, NEW R, NEW g, NEW a, NEW b,
           SumsUp(a, f, S), SumsUp(b, g, R),
           NEW T \in SUBSET S, T \in SUBSET R, \A x \in T : f[x] = g[x]
    PROVE  a[T] = b[T]
<1> DEFINE Any(U) == CHOOSE y \in U : TRUE
           Bad == {n \in Nat : \E U \in SUBSET T : Cardinality(U) = n /\ a[U] # b[U]}
<1>0. /\ \A U \in SUBSET T : U # {} => a[U] = f[Any(U)] + a[U \ {Any(U)}]
      /\ \A U \in SUBSET T : U # {} => b[U] = g[Any(U)] + b[U \ {Any(U)}]
      /\ a[{}] = 0 /\ b[{}] = 0
  BY DEF SumsUp
<1>1. IsFiniteSet(T)
  BY SubsetSize
<1>2. CASE Bad = {}
  <2>1. Cardinality(T) \in Nat
    BY SubsetSize
  <2> QED
    BY <1>2, <2>1
<1>3. CASE Bad # {}
  <2>1. PICK n \in Bad : \A k \in Bad : n <= k
    BY <1>3, LeastNumber
  <2>2. PICK U \in SUBSET T : Cardinality(U) = n /\ a[U] # b[U]
    BY <2>1
  <2>3. U # {}
    BY <1>0, <2>2
  <2>4. Any(U) \in U
    BY <2>3
  <2> HIDE DEF Any
  <2>5. U \ {Any(U)} \in SUBSET T /\ Cardinality(U \ {Any(U)}) = n - 1 /\ Cardinality(U \ {Any(U)}) \in Nat
    <3>1. U \ {Any(U)} \in SUBSET T /\ Cardinality(U \ {Any(U)}) = n - 1
      BY <1>1, <2>2, <2>4, SubsetSize
    <3> QED
      BY <1>1, <3>1, SubsetSize
  <2>6. n - 1 \notin Bad
    BY <2>1, <2>5
  <2>7. a[U \ {Any(U)}] = b[U \ {Any(U)}]
    BY <2>5, <2>6
  <2> QED
    BY <1>0, <2>2, <2>3, <2>4, <2>7
<1> QED
  BY <1>2, <1>3

-----------------------------------------------------------------------------
(* Bytes. *)

Bytes(f, S) == SumFunctionOnSet(f, S)

LEMMA BytesAre ==
    ASSUME NEW S, IsFiniteSet(S), NEW f, \A x \in S : f[x] \in Nat, NEW T \in SUBSET S
    PROVE  Bytes(f, T) = Sums(f, S)[T] /\ Bytes(f, T) \in Nat
<1>1. IsFiniteSet(T) /\ \A x \in T : f[x] \in Nat
  BY SubsetSize
<1>2. SumsUp(Sums(f, S), f, S) /\ SumsUp(Sums(f, T), f, T)
  BY <1>1, SumsIs
<1>3. Sums(f, T)[T] = Sums(f, S)[T]
  <2>1. T \in SUBSET T /\ \A x \in T : f[x] = f[x]
    OBVIOUS
  <2> QED
    BY <1>1, <1>2, <2>1, SumsSame
<1>4. Sums(f, S)[T] \in Nat
  BY <1>2 DEF SumsUp
<1> QED
  BY <1>3, <1>4, SumUnfolds DEF Bytes

LEMMA BytesOfNone == ASSUME NEW f PROVE Bytes(f, {}) = 0
<1>1. IsFiniteSet({}) /\ \A x \in {} : f[x] \in Nat
  BY FS_EmptySet
<1>2. SumsUp(Sums(f, {}), f, {})
  BY <1>1, SumsIs
<1> QED
  BY <1>2, SumUnfolds DEF SumsUp, Bytes

LEMMA BytesOfOneMore ==
    ASSUME NEW S, IsFiniteSet(S), NEW f, \A x \in S : f[x] \in Nat, NEW x \in S
    PROVE  Bytes(f, S) = f[x] + Bytes(f, S \ {x})
<1>1. SumsUp(Sums(f, S), f, S) /\ S \in SUBSET S /\ S \ {x} \in SUBSET S
  BY SumsIs
<1>2. Sums(f, S)[S] = f[x] + Sums(f, S)[S \ {x}]
  BY <1>1, SumsAnyOrder
<1> QED
  BY <1>1, <1>2, BytesAre

LEMMA BytesSame ==
    ASSUME NEW S, IsFiniteSet(S), NEW f, NEW g, \A x \in S : f[x] \in Nat /\ g[x] = f[x]
    PROVE  Bytes(g, S) = Bytes(f, S)
<1>1. SumsUp(Sums(f, S), f, S) /\ SumsUp(Sums(g, S), g, S) /\ S \in SUBSET S
  BY SumsIs
<1>2. Sums(g, S)[S] = Sums(f, S)[S]
  BY <1>1, SumsSame
<1> QED
  BY <1>2, SumUnfolds DEF Bytes

LEMMA BytesOfLess ==
    ASSUME NEW S, IsFiniteSet(S), NEW f, \A x \in S : f[x] \in Nat, NEW T \in SUBSET S
    PROVE  Bytes(f, T) <= Bytes(f, S)
<1> DEFINE Bad == {n \in Nat : \E U \in SUBSET S : T \in SUBSET U /\ Cardinality(U) = n
                                                  /\ ~(Bytes(f, T) <= Bytes(f, U))}
<1>1. CASE Bad = {}
  <2>1. Cardinality(S) \in Nat /\ S \in SUBSET S
    BY SubsetSize
  <2> QED
    BY <1>1, <2>1
<1>2. CASE Bad # {}
  <2>1. PICK n \in Bad : \A k \in Bad : n <= k
    BY <1>2, LeastNumber
  <2>2. PICK U \in SUBSET S : T \in SUBSET U /\ Cardinality(U) = n /\ ~(Bytes(f, T) <= Bytes(f, U))
    BY <2>1
  <2>3. Bytes(f, T) \in Nat /\ Bytes(f, U) \in Nat
    BY <2>2, BytesAre
  <2>4. PICK x \in U : x \notin T
    BY <2>2, <2>3
  <2>5. U \ {x} \in SUBSET S /\ T \in SUBSET (U \ {x}) /\ Cardinality(U \ {x}) = n - 1
    BY <2>2, <2>4, SubsetSize
  <2>6. Cardinality(U \ {x}) \in Nat
    BY <2>5, SubsetSize
  <2>7. n - 1 \notin Bad
    BY <2>1, <2>5, <2>6
  <2>8. Bytes(f, T) <= Bytes(f, U \ {x})
    BY <2>5, <2>6, <2>7
  <2>9. Bytes(f, U) = f[x] + Bytes(f, U \ {x})
    <3>1. IsFiniteSet(U) /\ \A y \in U : f[y] \in Nat
      BY SubsetSize
    <3> QED
      BY <3>1, BytesOfOneMore
  <2>10. Bytes(f, U \ {x}) \in Nat /\ f[x] \in Nat
    BY <2>5, BytesAre
  <2> QED
    BY <2>2, <2>3, <2>8, <2>9, <2>10
<1> QED
  BY <1>1, <1>2

-----------------------------------------------------------------------------
(* Open segments and full ones. *)

Single(segments) == \A i, j \in Open(segments) : i = j

Filled(segments, f) ==
    \A i \in DOMAIN segments :
        Bytes(f, segments[i].sessions) > SealBytes => \E s \in Session : segments[i].sessions = {s}

Settled(segments, f) ==
    \A i \in DOMAIN segments :
        ~segments[i].sealed => Bytes(f, segments[i].sessions) < SealBytes

(* A manifest has all its sessions placed; while sessions are placed, the open
   segment may be full. *)
FillInv ==
    /\ Placed(manifest.segments) = DOMAIN manifest.hash
    /\ Single(manifest.segments) /\ Filled(manifest.segments, manifest.hash)
    /\ Settled(manifest.segments, manifest.hash)
    /\ Single(sync.segments) /\ Filled(sync.segments, sync.slices)
    /\ sync.at # "place" => Settled(sync.segments, sync.slices)

LEMMA NothingFilled ==
    ASSUME NEW f
    PROVE  Single(<<>>) /\ Filled(<<>>, f) /\ Settled(<<>>, f)
BY DEF Single, Filled, Settled, Open

(* The sessions of a segment are finitely many, with a byte each at least. *)
LEMMA SlicesAre ==
    ASSUME NEW slices \in Slices, NEW S, S \subseteq DOMAIN slices
    PROVE  /\ IsFiniteSet(S)
           /\ \A s \in S : slices[s] \in Nat /\ slices[s] >= 1
           /\ Bytes(slices, S) \in Nat
<1>1. IsFiniteSet(S)
  BY SliceTypes, SegmentAssumption, FS_Subset
<1>2. \A s \in S : slices[s] \in Nat /\ slices[s] >= 1
  BY SegmentBounds DEF Slices
<1>3. S \in SUBSET S
  OBVIOUS
<1> QED
  BY <1>1, <1>2, <1>3, BytesAre

(* What is left of a segment is no larger. *)
LEMMA LeftIsLess ==
    ASSUME NEW m \in Manifest, NEW slices \in Slices, NEW i \in DOMAIN m.segments,
           Placed(m.segments) \subseteq DOMAIN m.hash
    PROVE  LET rest == Left(m, slices, i).sessions
           IN  /\ Bytes(slices, rest) \in Nat
               /\ Bytes(m.hash, m.segments[i].sessions) \in Nat
               /\ Bytes(slices, rest) <= Bytes(m.hash, m.segments[i].sessions)
<1> DEFINE rest == Left(m, slices, i).sessions
           whole == m.segments[i].sessions
<1>1. /\ rest \subseteq whole \cap DOMAIN slices
      /\ \A s \in rest : slices[s] = m.hash[s]
  BY LeftType DEF Unchanged
<1>2. whole \subseteq DOMAIN m.hash /\ m.hash \in Slices
  BY DEF Placed, Manifest
<1> HIDE DEF rest, whole
<1>3. /\ IsFiniteSet(whole) /\ (\A s \in whole : m.hash[s] \in Nat) /\ Bytes(m.hash, whole) \in Nat
  BY <1>2, SlicesAre
<1>4. IsFiniteSet(rest) /\ (\A s \in rest : slices[s] \in Nat) /\ Bytes(slices, rest) \in Nat
  BY <1>1, SlicesAre
<1>5. Bytes(m.hash, rest) = Bytes(slices, rest)
  <2>1. \A s \in rest : slices[s] \in Nat /\ m.hash[s] = slices[s]
    BY <1>1, <1>4
  <2> QED
    BY <1>4, <2>1, BytesSame
<1>6. Bytes(m.hash, rest) <= Bytes(m.hash, whole)
  <2>1. rest \in SUBSET whole
    BY <1>1
  <2> QED
    BY <1>3, <2>1, BytesOfLess
<1> QED
  BY <1>3, <1>4, <1>5, <1>6 DEF rest, whole

LEMMA RemainingFilled ==
    ASSUME NEW m \in Manifest, NEW slices \in Slices,
           Placed(m.segments) \subseteq DOMAIN m.hash,
           Single(m.segments), Filled(m.segments, m.hash)
    PROVE  Single(Remaining(m, slices)) /\ Filled(Remaining(m, slices), slices)
<1> DEFINE R == Remaining(m, slices)
<1>1. PICK p \in Seq(DOMAIN m.segments) :
           /\ \A i, j \in DOMAIN p : i # j => p[i] # p[j]
           /\ R = [n \in DOMAIN p |-> Left(m, slices, p[n])]
  BY RemainingList
<1> HIDE DEF R
<1>2. \A n \in DOMAIN R : n \in DOMAIN p /\ p[n] \in DOMAIN m.segments /\ R[n] = Left(m, slices, p[n])
  BY <1>1
<1>3. \A i \in DOMAIN m.segments : Left(m, slices, i).sealed = m.segments[i].sealed
  BY DEF Left, Manifest, Segment
<1>4. Single(R)
  <2> SUFFICES ASSUME NEW a \in Open(R), NEW b \in Open(R) PROVE a = b
    BY DEF Single
  <2>1. a \in DOMAIN R /\ b \in DOMAIN R /\ ~R[a].sealed /\ ~R[b].sealed
    BY DEF Open
  <2>2. p[a] \in Open(m.segments) /\ p[b] \in Open(m.segments)
    BY <1>2, <1>3, <2>1 DEF Open
  <2>3. p[a] = p[b]
    BY <2>2 DEF Single
  <2> QED
    BY <1>1, <1>2, <2>1, <2>3
<1>5. Filled(R, slices)
  <2> SUFFICES ASSUME NEW n \in DOMAIN R, Bytes(slices, R[n].sessions) > SealBytes
               PROVE  \E s \in Session : R[n].sessions = {s}
    BY DEF Filled
  <2> DEFINE i == p[n]
  <2>1. i \in DOMAIN m.segments /\ R[n] = Left(m, slices, i)
    BY <1>2
  <2> HIDE DEF i
  <2>2. /\ Bytes(slices, R[n].sessions) \in Nat /\ Bytes(m.hash, m.segments[i].sessions) \in Nat
        /\ Bytes(slices, R[n].sessions) <= Bytes(m.hash, m.segments[i].sessions)
    BY <2>1, LeftIsLess
  <2>3. Bytes(m.hash, m.segments[i].sessions) > SealBytes
    BY <2>2, SegmentAssumption
  <2>4. PICK s \in Session : m.segments[i].sessions = {s}
    BY <2>1, <2>3 DEF Filled
  <2>5. R[n].sessions \subseteq {s}
    BY <2>1, <2>4, LeftType
  <2>6. R[n].sessions # {}
    <3> SUFFICES ASSUME R[n].sessions = {} PROVE FALSE
      OBVIOUS
    <3>1. Bytes(slices, {}) = 0
      BY BytesOfNone
    <3>2. Bytes(slices, R[n].sessions) = 0
      BY <3>1
    <3>3. Bytes(slices, R[n].sessions) > SealBytes
      OBVIOUS
    <3> QED
      BY <3>2, <3>3, SegmentAssumption
  <2>7. R[n].sessions = {s}
    BY <2>5, <2>6
  <2> QED
    BY <2>7
<1> QED
  BY <1>4, <1>5 DEF R

(* Segments with the same sessions, no more of them open. *)
LEMMA FilledSame ==
    ASSUME NEW a, NEW b, NEW f, DOMAIN b = DOMAIN a,
           \A j \in DOMAIN a : b[j].sessions = a[j].sessions,
           \A j \in DOMAIN a : a[j].sealed => b[j].sealed
    PROVE  /\ Single(a) => Single(b)
           /\ Filled(a, f) => Filled(b, f)
           /\ Settled(a, f) => Settled(b, f)
<1>1. Open(b) \subseteq Open(a)
  BY DEF Open
<1> QED
  BY <1>1 DEF Single, Filled, Settled

LEMMA FillInit == Init => FillInv
BY EmptyLists, SliceTypes, NoSyncType, NothingFilled DEF Init, FillInv

LEMMA FillNext == TypeInv /\ PlaceInv /\ FillInv /\ [Next]_vars => FillInv'
<1> SUFFICES ASSUME TypeInv, PlaceInv, FillInv, [Next]_vars PROVE FillInv'
  OBVIOUS
<1> DEFINE Kept == UNCHANGED manifest
           Moved == /\ Single(sync'.segments) /\ Filled(sync'.segments, sync'.slices)
                    /\ sync'.at # "place" => Settled(sync'.segments, sync'.slices)
<1>0. Kept /\ Moved => FillInv'
  BY DEF FillInv
<1>1. ASSUME UNCHANGED <<manifest, sync>> PROVE FillInv'
  BY <1>1 DEF FillInv
<1>2. ASSUME sync' = NoSync PROVE Moved
  BY <1>2, NoSyncType, NothingFilled
<1>3. sync \in Locals /\ manifest \in Manifest /\ sync.segments \in Seq(Segment) /\ sync.slices \in Slices
  BY DEF TypeInv, Locals
<1>4. \A i \in DOMAIN sync.segments : /\ sync.segments[i].sessions \subseteq DOMAIN sync.slices
                                      /\ sync.segments[i].sessions \cap sync.toPlace = {}
  BY DEF PlaceInv, Placed
<1>5. \A s \in sync.toPlace : s \in DOMAIN sync.slices /\ sync.slices[s] \in Nat
  BY <1>3, SlicesAre DEF TypeInv
<1>6. CASE Local
  BY <1>1, <1>6 DEF Local, Record, GrowOld, Clear, Relabel
<1>7. CASE \E id \in visible : Retire(id)
  BY <1>1, <1>7 DEF Retire
<1>8. CASE LoseManifest
  <2>1. manifest' = EmptyManifest /\ sync' = sync
    BY <1>8 DEF LoseManifest
  <2> QED
    BY <2>1, EmptyLists, SliceTypes, NothingFilled DEF FillInv
<1>9. CASE Begin
  <2>1. Kept /\ sync' = Attempt(manifest, LocalSlices, label)
    BY <1>9 DEF Begin
  <2>2. LocalSlices \in Slices
    BY LocalSlicesType
  <2>3. Single(Remaining(manifest, LocalSlices)) /\ Filled(Remaining(manifest, LocalSlices), LocalSlices)
    BY <1>3, <2>2, RemainingFilled DEF FillInv
  <2>4. /\ sync'.at = "place" /\ sync'.slices = LocalSlices
        /\ sync'.segments = Remaining(manifest, LocalSlices)
    BY <2>1 DEF Attempt
  <2> QED
    BY <1>0, <2>1, <2>3, <2>4
<1>10. CASE PlaceInOpen
  <2>1. /\ Kept /\ sync'.at = "place" /\ sync'.slices = sync.slices
        /\ NextSlice \in sync.toPlace /\ NextSlice \in Session
        /\ DOMAIN sync'.segments = DOMAIN sync.segments
    BY <1>10, PlacedInOpen
  <2>2. PICK i \in DOMAIN sync.segments :
          /\ sync'.segments[i].sessions = sync.segments[i].sessions \cup {NextSlice}
          /\ \A j \in DOMAIN sync.segments : j # i => Same(sync'.segments[j], sync.segments[j])
          /\ i = First(Open(sync.segments)) /\ ~sync.segments[i].sealed
          /\ \A j \in DOMAIN sync.segments : sync'.segments[j].sealed = sync.segments[j].sealed
    BY <1>10, PlacedInOpen
  <2>3. Single(sync'.segments)
    BY <2>1, <2>2 DEF FillInv, Single, Open
  <2> DEFINE S == sync.segments[i].sessions
             T == S \cup {NextSlice}
             f == sync.slices
  <2>4. S \subseteq DOMAIN f /\ T \subseteq DOMAIN f /\ NextSlice \notin S /\ NextSlice \in T
        /\ T \ {NextSlice} = S
    BY <1>4, <1>5, <2>1
  <2>5. i \in Open(sync.segments)
    BY <2>2 DEF Open
  <2>6. ~(Bytes(f, S) > 0 /\ Bytes(f, S) + f[NextSlice] > SealBytes)
    BY <1>10, <2>2, <2>5 DEF PlaceInOpen, Overfull, RawBytes, Bytes
  <2> HIDE DEF S, T, f
  <2>7. f \in Slices
    BY <1>3 DEF f
  <2>8. IsFiniteSet(S) /\ (\A s \in S : f[s] \in Nat /\ f[s] >= 1) /\ Bytes(f, S) \in Nat
    BY <2>4, <2>7, SlicesAre
  <2>9. IsFiniteSet(T) /\ (\A s \in T : f[s] \in Nat)
    BY <2>4, <2>7, SlicesAre
  <2>10. Bytes(f, T) = f[NextSlice] + Bytes(f, S) /\ f[NextSlice] \in Nat
    BY <2>4, <2>9, BytesOfOneMore
  <2>11. ASSUME Bytes(f, T) > SealBytes PROVE T = {NextSlice}
    <3>1. Bytes(f, S) = 0
      BY <2>6, <2>8, <2>10, <2>11, SegmentAssumption
    <3>2. ASSUME NEW s \in S PROVE FALSE
      <4>1. Bytes(f, S) = f[s] + Bytes(f, S \ {s})
        BY <2>8, BytesOfOneMore
      <4>2. S \ {s} \in SUBSET S
        OBVIOUS
      <4>3. Bytes(f, S \ {s}) \in Nat
        BY <2>8, <4>2, BytesAre
      <4> QED
        BY <2>8, <3>1, <4>1, <4>3
    <3> QED
      BY <3>2 DEF T
  <2>12. Filled(sync'.segments, f)
    <3> SUFFICES ASSUME NEW j \in DOMAIN sync.segments, Bytes(f, sync'.segments[j].sessions) > SealBytes
                 PROVE  \E s \in Session : sync'.segments[j].sessions = {s}
      BY <2>1 DEF Filled
    <3>1. CASE j = i
      BY <2>1, <2>2, <2>11, <3>1 DEF S, T
    <3>2. CASE j # i
      BY <2>2, <3>2 DEF FillInv, Filled, Same, f
    <3> QED
      BY <3>1, <3>2
  <2> QED
    BY <1>0, <2>1, <2>3, <2>12 DEF f
<1>11. CASE PlaceInNew
  <2>1. /\ Kept /\ sync'.at = "place" /\ sync'.slices = sync.slices
        /\ NextSlice \in Session
        /\ \A j \in DOMAIN sync.segments : Same(sync'.segments[j], sync.segments[j])
        /\ \A j \in DOMAIN sync.segments : sync'.segments[j].sealed
    BY <1>11, PlacedInNew
  <2>2. PICK n : /\ n \notin DOMAIN sync.segments
                 /\ DOMAIN sync'.segments = DOMAIN sync.segments \cup {n}
                 /\ sync'.segments[n].sessions = {NextSlice}
    BY <1>11, PlacedInNew
  <2>3. Single(sync'.segments)
    BY <2>1, <2>2 DEF Single, Open
  <2>4. Filled(sync'.segments, sync'.slices)
    <3> SUFFICES ASSUME NEW j \in DOMAIN sync'.segments,
                        Bytes(sync.slices, sync'.segments[j].sessions) > SealBytes
                 PROVE  \E s \in Session : sync'.segments[j].sessions = {s}
      BY <2>1 DEF Filled
    <3>1. CASE j = n
      BY <2>1, <2>2, <3>1
    <3>2. CASE j \in DOMAIN sync.segments
      BY <2>1, <3>2 DEF FillInv, Filled, Same
    <3> QED
      BY <2>2, <3>1, <3>2
  <2> QED
    BY <1>0, <2>1, <2>3, <2>4
<1>12. CASE EndPlacing
  <2>1. /\ Kept /\ sync'.slices = sync.slices /\ DOMAIN sync'.segments = DOMAIN sync.segments
        /\ \A j \in DOMAIN sync.segments : Same(sync'.segments[j], sync.segments[j])
        /\ \A j \in DOMAIN sync.segments :
             sync'.segments[j].sealed <=>
                 sync.segments[j].sealed \/ RawBytes(sync.segments[j], sync.slices) >= SealBytes
    BY <1>12, PlacingEnded
  <2>2. \A j \in DOMAIN sync.segments : sync'.segments[j].sessions = sync.segments[j].sessions
    BY <2>1 DEF Same
  <2>3. Single(sync'.segments) /\ Filled(sync'.segments, sync'.slices)
    BY <2>1, <2>2, FilledSame DEF FillInv
  <2>4. Settled(sync'.segments, sync'.slices)
    <3> SUFFICES ASSUME NEW j \in DOMAIN sync.segments, ~sync'.segments[j].sealed
                 PROVE  Bytes(sync.slices, sync.segments[j].sessions) < SealBytes
      BY <2>1, <2>2 DEF Settled
    <3>1. ~(Bytes(sync.slices, sync.segments[j].sessions) >= SealBytes)
      BY <2>1 DEF RawBytes, Bytes
    <3>2. Bytes(sync.slices, sync.segments[j].sessions) \in Nat
      BY <1>3, <1>4, SlicesAre
    <3> QED
      BY <3>1, <3>2, SegmentAssumption
  <2> QED
    BY <1>0, <2>1, <2>3, <2>4
<1>13. CASE Put
  <2>1. /\ Kept /\ sync.at = "put" /\ sync'.slices = sync.slices
        /\ DOMAIN sync'.segments = DOMAIN sync.segments
        /\ \A j \in DOMAIN sync.segments : sync'.segments[j].sealed = sync.segments[j].sealed
    BY <1>13, PutStored
  <2>2. PICK i \in DOMAIN sync.segments :
          /\ sync'.segments[i].sessions = sync.segments[i].sessions
          /\ \A j \in DOMAIN sync.segments : j # i => Same(sync'.segments[j], sync.segments[j])
    BY <1>13, PutStored
  <2>3. \A j \in DOMAIN sync.segments : sync'.segments[j].sessions = sync.segments[j].sessions
    BY <2>2 DEF Same
  <2>4. Single(sync.segments) /\ Filled(sync.segments, sync.slices) /\ Settled(sync.segments, sync.slices)
    BY <2>1 DEF FillInv
  <2> QED
    BY <1>0, <2>1, <2>3, <2>4, FilledSame
<1>14. CASE SkipCommit \/ Commit
  <2>1. Kept /\ sync.at = "put" /\ (\E at \in Step : sync' = [sync EXCEPT !.at = at])
    BY <1>14 DEF SkipCommit, Commit, Uploaded, Step
  <2>2. sync'.segments = sync.segments /\ sync'.slices = sync.slices
    BY <1>3, <2>1 DEF Locals
  <2> QED
    BY <1>0, <2>1, <2>2 DEF FillInv
<1>15. CASE StartAfresh
  <2>1. Kept /\ sync' = Attempt(EmptyManifest, sync.slices, sync.label)
    BY <1>15 DEF StartAfresh
  <2>2. EmptyManifest \in Manifest /\ Placed(EmptyManifest.segments) \subseteq DOMAIN EmptyManifest.hash
        /\ Single(EmptyManifest.segments) /\ Filled(EmptyManifest.segments, EmptyManifest.hash)
    BY SliceTypes, EmptyLists, NothingFilled
  <2>3. Single(Remaining(EmptyManifest, sync.slices)) /\ Filled(Remaining(EmptyManifest, sync.slices), sync.slices)
    BY <1>3, <2>2, RemainingFilled
  <2>4. /\ sync'.at = "place" /\ sync'.slices = sync.slices
        /\ sync'.segments = Remaining(EmptyManifest, sync.slices)
    BY <2>1 DEF Attempt
  <2> QED
    BY <1>0, <2>1, <2>3, <2>4
<1>16. CASE Save
  <2>1. /\ manifest' = [segments |-> sync.segments, hash |-> sync.slices, label |-> sync.label]
        /\ sync' = NoSync /\ sync.at \in {"save", "same"}
    BY <1>16 DEF Save
  <2>2. Moved
    BY <1>2, <2>1
  <2>3. Placed(sync.segments) = DOMAIN sync.slices
    BY <2>1 DEF PlaceInv
  <2>4. manifest'.segments = sync.segments /\ manifest'.hash = sync.slices
    BY <2>1
  <2>5. Settled(sync.segments, sync.slices) /\ Single(sync.segments) /\ Filled(sync.segments, sync.slices)
    BY <2>1 DEF FillInv
  <2> QED
    BY <2>2, <2>3, <2>4, <2>5 DEF FillInv
<1>17. CASE Fail
  BY <1>0, <1>2, <1>17 DEF Fail
<1>18. CASE UNCHANGED vars
  BY <1>1, <1>18 DEF vars
<1> QED
  BY <1>6, <1>7, <1>8, <1>9, <1>10, <1>11, <1>12, <1>13, <1>14, <1>15, <1>16, <1>17, <1>18
     DEF Next, SyncStep

(* A saved manifest has each session in one segment, one segment at most still
   open and that one below the seal size, and a segment above it only for a
   session that is as large alone (steps 3 and 4 of runOnce). *)
THEOREM WellPlacedAlways == Spec => []WellPlaced
<1>1. Init => TypeInv /\ PlaceInv /\ FillInv
  BY TypeInit, FillInit
<1>2. TypeInv /\ PlaceInv /\ FillInv /\ [Next]_vars => (TypeInv /\ PlaceInv /\ FillInv)'
  BY TypeNext, FillNext
<1>3. TypeInv /\ PlaceInv /\ FillInv => WellPlaced
  <2> SUFFICES ASSUME TypeInv, PlaceInv, FillInv PROVE WellPlaced
    OBVIOUS
  <2> DEFINE segments == manifest.segments
  <2>1. Placed(segments) = DOMAIN manifest.hash
    BY DEF FillInv
  <2>2. \A i, j \in DOMAIN segments : i # j => segments[i].sessions \cap segments[j].sessions = {}
    BY DEF PlaceInv, Apart
  <2>3. Cardinality(Open(segments)) <= 1
    <3>1. CASE Open(segments) = {}
      BY <3>1, FS_EmptySet
    <3>2. CASE Open(segments) # {}
      <4>1. PICK i : i \in Open(segments)
        BY <3>2
      <4>2. Open(segments) = {i}
        BY <4>1 DEF FillInv, Single
      <4>3. Cardinality({i}) = 1
        BY FS_Singleton
      <4> QED
        BY <4>2, <4>3
    <3> QED
      BY <3>1, <3>2
  <2>4. \A i \in Open(segments) : RawBytes(segments[i], manifest.hash) < SealBytes
    BY DEF FillInv, Settled, Open, RawBytes, Bytes
  <2>5. ASSUME NEW i \in DOMAIN segments, RawBytes(segments[i], manifest.hash) > SealBytes
        PROVE  Cardinality(segments[i].sessions) = 1
    <3>1. PICK s \in Session : segments[i].sessions = {s}
      BY <2>5 DEF FillInv, Filled, RawBytes, Bytes
    <3>2. Cardinality({s}) = 1
      BY FS_Singleton
    <3> QED
      BY <3>1, <3>2
  <2> HIDE DEF segments
  <2>6. QED
    BY <2>1, <2>2, <2>3, <2>4, <2>5 DEF WellPlaced, segments
<1> QED
  BY <1>1, <1>2, <1>3, PTL DEF Spec

-----------------------------------------------------------------------------
(* ContainerSpool: what its hooks know. *)

Names == {"none", "spool", "pending", "left"} \cup Hook

Path == [file : File, name : Names]

Stage == {"idle", "append", "due", "list", "claims", "rename", "stamp", "pendings", "spool", "spooled",
          "read", "send", "keep", "trim", "fill", "unlink"}

(* A hook that has read its claims and is not done with them. *)
Sending == {"send", "keep", "trim", "fill"}

HookLocals(bytes) ==
    [at : Stage, event : Nat, open : File \cup {None}, todo : SUBSET Path, take : Path \cup {None},
     stale : BOOLEAN, back : Stage, claimed : SUBSET File, read : SUBSET Nat, unsent : SUBSET Nat,
     bytes : {bytes}]

(* The locals of hook h, when n events have happened and some are done with. *)
Fits(h, l, n, done) ==
    /\ l \in HookLocals(l.bytes)
    /\ l.at # "spooled"
    /\ l.at = "append" => l.open \in File /\ l.event \in 1..n
    /\ l.at = "fill" => l.open \in File
    /\ l.at \notin Sending \cup {"read", "unlink"} => l.read = {}
    /\ l.unsent \subseteq l.read /\ l.read \subseteq 1..n
    /\ l.at \in Sending => l.read \ l.unsent \subseteq done
    /\ l.at \in {"read", "unlink"} => l.todo \subseteq Claims(h, l.claimed)
    /\ l.at \in {"rename", "stamp"} => l.take \in Path
    /\ l.at = "rename" => (l.take.name \in Hook => l.stale) /\ l.back \in {"claims", "pendings"}
    /\ l.at = "stamp" => l.back \in {"claims", "pendings", "spooled"}
    /\ (l.at = "pendings" \/ (l.at \in {"rename", "stamp"} /\ l.back = "pendings")) =>
         \A path \in l.todo : path.name = "pending"
    /\ l.at = "trim" => \A path \in l.todo : path.name = "pending"
    /\ l.at \in {"idle", "append", "due", "list"} => l.claimed = {}

(* A file has the name of a hook that has claimed it and is not done with it. *)
Owns(h, l, files) ==
    \A f \in File : files[f].name = h =>
        /\ f \in l.claimed
        /\ l.at = "unlink" => [file |-> f, name |-> h] \in l.todo

FilesOK(files, n) ==
    /\ files \in [File -> [name : Names, events : SUBSET (1..n), old : BOOLEAN]]
    /\ \A f \in File : files[f].name = "none" => files[f].events = {}

SpoolType ==
    /\ happened \in Nat
    /\ FilesOK(file, happened)
    /\ accepted \cup dropped \cup again \subseteq 1..happened
    /\ DOMAIN hook = Hook
    /\ \A h \in Hook : /\ Fits(h, hook[h], happened, accepted \cup dropped)
                       /\ Owns(h, hook[h], file)

LEMMA IdleFits ==
    ASSUME NEW h \in Hook, NEW n \in Nat, NEW done, NEW at \in {"idle", "due", "list"}
    PROVE  /\ Fits(h, [Idle EXCEPT !.at = at], n, done)
           /\ [Idle EXCEPT !.at = at].at = at
           /\ [Idle EXCEPT !.at = at].read = {} /\ [Idle EXCEPT !.at = at].claimed = {}
           /\ Fits(h, Idle, n, done) /\ Idle.at = "idle" /\ Idle.read = {} /\ Idle.claimed = {}
<1>1. Idle = [at |-> "idle", event |-> 0, open |-> None, todo |-> {}, take |-> None, stale |-> FALSE,
              back |-> "idle", claimed |-> {}, read |-> {}, unsent |-> {}, bytes |-> 0]
  BY DEF Idle
<1> QED
  BY <1>1 DEF Fits, HookLocals, Stage, Sending

LEMMA SpoolTypeInit == SpoolInit => SpoolType
<1> SUFFICES ASSUME SpoolInit PROVE SpoolType
  OBVIOUS
<1>1. \A f \in File : file[f].name = "none" /\ file[f].events = {} /\ file[f].old = FALSE
  BY DEF SpoolInit, NoFile
<1>2. FilesOK(file, happened)
  BY <1>1 DEF SpoolInit, NoFile, FilesOK, Names
<1>3. \A h \in Hook : hook[h] = Idle /\ DOMAIN hook = Hook
  BY DEF SpoolInit
<1>4. \A h \in Hook : Fits(h, hook[h], happened, accepted \cup dropped)
  BY <1>3, IdleFits DEF SpoolInit
<1>5. \A h \in Hook : Owns(h, hook[h], file)
  BY <1>1, SpoolAssumption DEF Owns
<1> QED
  BY <1>2, <1>3, <1>4, <1>5 DEF SpoolInit, SpoolType

(* What stays true of a hook while others go on. *)
LEMMA FitsStill ==
    ASSUME NEW h \in Hook, NEW l, NEW m \in Nat, NEW n \in Nat, m <= n, NEW d, NEW e, d \subseteq e,
           Fits(h, l, m, d)
    PROVE  Fits(h, l, n, e)
<1>1. 1..m \subseteq 1..n
  OBVIOUS
<1> QED
  BY <1>1 DEF Fits

LEMMA SpoolStep ==
    ASSUME SpoolType, NEW h \in Hook, NEW new, To(h, new),
           happened' \in Nat, happened <= happened', FilesOK(file', happened'),
           accepted \cup dropped \subseteq accepted' \cup dropped',
           accepted' \cup dropped' \cup again' \subseteq 1..happened',
           Fits(h, new, happened', accepted' \cup dropped'), Owns(h, new, file'),
           \A g \in Hook : \A f \in File : g # h /\ file'[f].name = g => file[f].name = g
    PROVE  SpoolType'
<1>1. DOMAIN hook' = Hook /\ hook'[h] = new /\ \A g \in Hook : g # h => hook'[g] = hook[g]
  BY DEF To, SpoolType
<1>2. ASSUME NEW g \in Hook, g # h
      PROVE  Fits(g, hook'[g], happened', accepted' \cup dropped') /\ Owns(g, hook'[g], file')
  <2>1. hook'[g] = hook[g]
    BY <1>1, <1>2
  <2>2. Fits(g, hook[g], happened, accepted \cup dropped) /\ happened \in Nat
    BY DEF SpoolType
  <2>3. Owns(g, hook[g], file')
    BY <1>2 DEF SpoolType, Owns
  <2>4. Fits(g, hook[g], happened', accepted' \cup dropped')
    BY <2>2, FitsStill
  <2> QED
    BY <2>1, <2>3, <2>4
<1> QED
  BY <1>1, <1>2 DEF SpoolType

LEMMA SpoolOnly ==
    ASSUME SpoolType, NEW h \in Hook, NEW new, Only(h, new),
           Fits(h, new, happened, accepted \cup dropped), Owns(h, new, file)
    PROVE  SpoolType'
BY SpoolStep DEF Only, SpoolType

LEMMA SpoolFiles ==
    ASSUME SpoolType, NEW h \in Hook, NEW new, To(h, new), FilesOK(file', happened),
           UNCHANGED <<happened, accepted, dropped>>, again' \subseteq 1..happened,
           Fits(h, new, happened, accepted \cup dropped), Owns(h, new, file'),
           \A g \in Hook : \A f \in File : g # h /\ file'[f].name = g => file[f].name = g
    PROVE  SpoolType'
<1>1. happened' = happened /\ happened \in Nat /\ accepted' = accepted /\ dropped' = dropped
  BY DEF SpoolType
<1>2. accepted' \cup dropped' \cup again' \subseteq 1..happened'
  BY <1>1 DEF SpoolType
<1>3. Fits(h, new, happened', accepted' \cup dropped') /\ FilesOK(file', happened')
  BY <1>1
<1> QED
  BY <1>1, <1>2, <1>3, SpoolStep

LEMMA PathsAre ==
    ASSUME SpoolType, NEW names, names \subseteq Names
    PROVE  Paths(names) \subseteq Path /\ \A path \in Paths(names) : path.name \in names
BY DEF SpoolType, FilesOK, Paths, Path, Named

LEMMA ClaimsAre ==
    ASSUME NEW h \in Hook, NEW fs \in SUBSET File
    PROVE  /\ Claims(h, fs) \subseteq Path
           /\ \A path \in Claims(h, fs) : path.name = h /\ path.file \in fs
           /\ \A f \in fs : [file |-> f, name |-> h] \in Claims(h, fs)
BY DEF Claims, Path, Names

LEMMA IdleIs ==
    Idle = [at |-> "idle", event |-> 0, open |-> None, todo |-> {}, take |-> None, stale |-> FALSE,
            back |-> "idle", claimed |-> {}, read |-> {}, unsent |-> {}, bytes |-> 0]
BY DEF Idle

LEMMA DueType == ASSUME SpoolType, NEW h \in Hook, Due(h) \/ Stop(h) PROVE SpoolType'
<1>1. PICK at \in {"idle", "list"} : Only(h, [Idle EXCEPT !.at = at])
  BY DEF Due, Stop
<1>2. Fits(h, [Idle EXCEPT !.at = at], happened, accepted \cup dropped)
  BY <1>1, IdleIs DEF Fits, HookLocals, Stage, Sending, SpoolType
<1>3. Owns(h, hook[h], file) /\ hook[h].claimed = {}
  BY DEF Due, Stop, SpoolType, Fits
<1>4. Owns(h, [Idle EXCEPT !.at = at], file)
  BY <1>3 DEF Owns
<1> QED
  BY <1>1, <1>2, <1>4, SpoolOnly

LEMMA ListClaimsType == ASSUME SpoolType, NEW h \in Hook, ListClaims(h) PROVE SpoolType'
<1> DEFINE new == [Idle EXCEPT !.at = "claims", !.todo = Paths(ClaimNames)]
<1>1. Paths(ClaimNames) \subseteq Path
  BY PathsAre DEF ClaimNames, Names
<1>2. Fits(h, new, happened, accepted \cup dropped)
  BY <1>1, IdleIs DEF Fits, HookLocals, Stage, Sending
<1>3. Owns(h, hook[h], file) /\ hook[h].claimed = {}
  BY DEF ListClaims, SpoolType, Fits
<1>4. Owns(h, new, file)
  BY <1>3, IdleIs DEF Owns
<1> QED
  BY <1>2, <1>4, SpoolOnly DEF ListClaims

LEMMA TakeType ==
    ASSUME SpoolType, NEW h \in Hook, hook[h].at \in {"claims", "pendings"},
           NEW path \in hook[h].todo, path.name \in Hook => Old(path)
    PROVE  /\ Fits(h, Take(h, path), happened, accepted \cup dropped)
           /\ Owns(h, Take(h, path), file)
<1>1. Fits(h, hook[h], happened, accepted \cup dropped) /\ Owns(h, hook[h], file)
  BY DEF SpoolType
<1>2. Old(path) \in BOOLEAN /\ path \in Path
  BY <1>1 DEF Old, Exists, Fits, HookLocals, SpoolType, FilesOK, Path
<1> QED
  BY <1>1, <1>2 DEF Fits, HookLocals, Stage, Sending, Owns, Take, Past

LEMMA PastType ==
    ASSUME SpoolType, NEW h \in Hook, hook[h].at \in {"claims", "pendings"}, NEW path
    PROVE  /\ Fits(h, Past(h, path), happened, accepted \cup dropped)
           /\ Owns(h, Past(h, path), file)
<1>1. Fits(h, hook[h], happened, accepted \cup dropped) /\ Owns(h, hook[h], file)
  BY DEF SpoolType
<1> QED
  BY <1>1 DEF Fits, HookLocals, Stage, Sending, Owns, Past

LEMMA NextPathType ==
    ASSUME SpoolType, NEW h \in Hook, StatClaim(h) \/ NextPending(h) PROVE SpoolType'
<1>1. CASE StatClaim(h)
  <2>1. PICK path \in hook[h].todo : Only(h, IF Old(path) THEN Take(h, path) ELSE Past(h, path))
    BY <1>1 DEF StatClaim
  <2> QED
    BY <1>1, <2>1, TakeType, PastType, SpoolOnly DEF StatClaim
<1>2. CASE NextPending(h)
  <2>1. PICK path \in hook[h].todo : Only(h, Take(h, path))
    BY <1>2 DEF NextPending
  <2>2. path.name = "pending"
    BY <1>2 DEF NextPending, SpoolType, Fits
  <2>3. path.name \notin Hook
    BY <2>2, SpoolAssumption
  <2> QED
    BY <1>2, <2>1, <2>3, TakeType, SpoolOnly DEF NextPending
<1> QED
  BY <1>1, <1>2

LEMMA ListPendingType == ASSUME SpoolType, NEW h \in Hook, ListPending(h) PROVE SpoolType'
<1> DEFINE new == [hook[h] EXCEPT !.at = "pendings", !.todo = Paths({"pending"})]
<1>1. Fits(h, hook[h], happened, accepted \cup dropped) /\ Owns(h, hook[h], file) /\ hook[h].at = "claims"
  BY DEF SpoolType, ListPending
<1>2. Paths({"pending"}) \subseteq Path /\ \A path \in Paths({"pending"}) : path.name = "pending"
  BY PathsAre DEF Names
<1>3. Fits(h, new, happened, accepted \cup dropped)
  BY <1>1, <1>2 DEF Fits, HookLocals, Stage, Sending
<1>4. Owns(h, new, file)
  BY <1>1 DEF Owns, Fits, HookLocals
<1> QED
  BY <1>3, <1>4, SpoolOnly DEF ListPending

LEMMA ReadClaimsType ==
    ASSUME NEW h \in Hook, NEW new, new \in HookLocals(new.bytes), new.read = {}, new.unsent = {},
           NEW files, \A f \in File : files[f].name = h => f \in new.claimed, NEW n \in Nat, NEW done
    PROVE  Fits(h, ReadClaims(h, new), n, done) /\ Owns(h, ReadClaims(h, new), files)
<1>1. CASE new.claimed = {}
  <2>1. ReadClaims(h, new) = Idle
    BY <1>1 DEF ReadClaims
  <2>2. \A f \in File : files[f].name # h
    BY <1>1
  <2> QED
    BY <2>1, <2>2, IdleFits DEF Owns
<1>2. CASE new.claimed # {}
  <2>1. new.claimed \in SUBSET File
    BY DEF HookLocals
  <2>2. /\ Claims(h, new.claimed) \subseteq Path
        /\ ReadClaims(h, new) = [new EXCEPT !.at = "read", !.todo = Claims(h, new.claimed)]
    BY <1>2, <2>1, ClaimsAre DEF ReadClaims
  <2>3. Fits(h, [new EXCEPT !.at = "read", !.todo = Claims(h, new.claimed)], n, done)
    BY <2>2 DEF Fits, HookLocals, Stage, Sending
  <2>4. Owns(h, [new EXCEPT !.at = "read", !.todo = Claims(h, new.claimed)], files)
    BY DEF Owns, HookLocals
  <2> QED
    BY <2>2, <2>3, <2>4
<1> QED
  BY <1>1, <1>2

LEMMA StatSpoolType == ASSUME SpoolType, NEW h \in Hook, StatSpool(h) PROVE SpoolType'
<1>1. Fits(h, hook[h], happened, accepted \cup dropped) /\ Owns(h, hook[h], file) /\ hook[h].at = "pendings"
  BY DEF SpoolType, StatSpool
<1>2. CASE Size(Named({"spool"})) > 0
  <2>1. Fits(h, [hook[h] EXCEPT !.at = "spool"], happened, accepted \cup dropped)
    BY <1>1 DEF Fits, HookLocals, Stage, Sending
  <2>2. Owns(h, [hook[h] EXCEPT !.at = "spool"], file)
    BY <1>1 DEF Owns, Fits, HookLocals
  <2> QED
    BY <1>2, <2>1, <2>2, SpoolOnly DEF StatSpool
<1>3. CASE ~(Size(Named({"spool"})) > 0)
  <2>1. /\ hook[h] \in HookLocals(hook[h].bytes) /\ hook[h].read = {} /\ hook[h].unsent = {}
        /\ \A f \in File : file[f].name = h => f \in hook[h].claimed
        /\ happened \in Nat
    BY <1>1 DEF SpoolType, Fits, Owns, Sending
  <2>2. /\ Fits(h, ReadClaims(h, hook[h]), happened, accepted \cup dropped)
        /\ Owns(h, ReadClaims(h, hook[h]), file)
    BY <2>1, ReadClaimsType
  <2> QED
    BY <1>3, <2>2, SpoolOnly DEF StatSpool
<1> QED
  BY <1>2, <1>3

LEMMA LostType == ASSUME SpoolType, NEW h \in Hook, Lost(h) PROVE SpoolType'
<1>1. Fits(h, hook[h], happened, accepted \cup dropped) /\ Owns(h, hook[h], file)
  BY DEF SpoolType
<1>2. CASE hook[h].at = "rename"
  <2> DEFINE new == [hook[h] EXCEPT !.at = hook[h].back, !.take = None, !.stale = FALSE]
  <2>1. Fits(h, new, happened, accepted \cup dropped)
    BY <1>1, <1>2 DEF Fits, HookLocals, Stage, Sending
  <2>2. Owns(h, new, file)
    BY <1>1, <1>2 DEF Owns, Fits, HookLocals
  <2> QED
    BY <1>2, <2>1, <2>2, SpoolOnly DEF Lost
<1>3. CASE hook[h].at = "spool"
  <2>1. /\ hook[h] \in HookLocals(hook[h].bytes) /\ hook[h].read = {} /\ hook[h].unsent = {}
        /\ \A f \in File : file[f].name = h => f \in hook[h].claimed
        /\ happened \in Nat
    BY <1>1, <1>3 DEF SpoolType, Fits, Owns, Sending
  <2>2. /\ Fits(h, ReadClaims(h, hook[h]), happened, accepted \cup dropped)
        /\ Owns(h, ReadClaims(h, hook[h]), file)
    BY <2>1, ReadClaimsType
  <2> QED
    BY <1>3, <2>2, SpoolOnly DEF Lost
<1> QED
  BY <1>2, <1>3 DEF Lost

(* A file that is given a name, goes, or is written to. *)
LEMMA NameOK ==
    ASSUME SpoolType, NEW f \in File, NEW name \in Names \ {"none"}, NEW n \in Nat, happened <= n
    PROVE  FilesOK([file EXCEPT ![f].name = name], n)
<1>1. 1..happened \subseteq 1..n
  BY DEF SpoolType
<1> QED
  BY <1>1 DEF SpoolType, FilesOK

LEMMA GoneOK ==
    ASSUME SpoolType, NEW f \in File
    PROVE  /\ FilesOK([file EXCEPT ![f] = NoFile], happened)
           /\ \A g \in File : [file EXCEPT ![f] = NoFile][g].name \in {file[g].name, "none"}
BY DEF SpoolType, FilesOK, NoFile, Names

LEMMA WriteOK ==
    ASSUME SpoolType, NEW f \in File, NEW events \in SUBSET (1..happened), Write(f, events)
    PROVE  /\ FilesOK(file', happened)
           /\ \A g \in File : file'[g].name = file[g].name
BY DEF SpoolType, FilesOK, Write

LEMMA NoneIsNoHook == "none" \notin Hook /\ "spool" \notin Hook /\ "pending" \notin Hook /\ "left" \notin Hook
BY SpoolAssumption

LEMMA NewIs == New \subseteq Unused /\ \A f \in Unused : f \in File /\ file[f].name = "none"
BY DEF New, Unused, Named

LEMMA CaptureType == ASSUME SpoolType, NEW h \in Hook, Capture(h) PROVE SpoolType'
<1>1. PICK f \in IF Named({"spool"}) # {} THEN Named({"spool"}) ELSE New :
         /\ file' = [file EXCEPT ![f].name = "spool"]
         /\ To(h, [Idle EXCEPT !.at = "append", !.event = happened + 1, !.open = f])
  BY DEF Capture
<1> DEFINE new == [Idle EXCEPT !.at = "append", !.event = happened + 1, !.open = f]
<1>2. f \in File
  BY <1>1, NewIs DEF Named
<1>3. happened \in Nat /\ happened' = happened + 1 /\ happened' \in Nat /\ happened <= happened'
  BY DEF SpoolType, Capture
<1>4. FilesOK(file', happened')
  BY <1>1, <1>2, <1>3, NameOK DEF Names
<1>5. \A g \in Hook : \A e \in File : file'[e].name = g => file[e].name = g
  BY <1>1, <1>2, NoneIsNoHook DEF SpoolType, FilesOK
<1>6. Owns(h, hook[h], file) /\ hook[h].claimed = {}
  BY DEF Capture, SpoolType, Fits
<1>7. Owns(h, new, file')
  BY <1>5, <1>6 DEF Owns
<1>8. Fits(h, new, happened', accepted \cup dropped)
  <2>1. /\ new \in HookLocals(new.bytes) /\ new.at = "append" /\ new.event = happened + 1
        /\ new.open = f /\ new.read = {} /\ new.unsent = {} /\ new.claimed = {}
    BY <1>2, <1>3, IdleIs DEF HookLocals, Stage
  <2> HIDE DEF new
  <2> QED
    BY <1>2, <1>3, <2>1 DEF Fits, Sending
<1>9. accepted \cup dropped \cup again \subseteq 1..happened'
  BY <1>3 DEF SpoolType
<1> QED
  BY <1>1, <1>3, <1>4, <1>5, <1>7, <1>8, <1>9, SpoolStep DEF Capture

LEMMA AppendEventType == ASSUME SpoolType, NEW h \in Hook, AppendEvent(h) PROVE SpoolType'
<1>1. Fits(h, hook[h], happened, accepted \cup dropped) /\ Owns(h, hook[h], file) /\ hook[h].at = "append"
  BY DEF SpoolType, AppendEvent
<1>2. FilesOK(file', happened) /\ \A g \in File : file'[g].name = file[g].name
  BY <1>1, WriteOK DEF AppendEvent, Fits
<1>3. Owns(h, [Idle EXCEPT !.at = "due"], file')
  BY <1>1, <1>2 DEF Owns, Fits
<1>4. Fits(h, [Idle EXCEPT !.at = "due"], happened, accepted \cup dropped)
  BY IdleFits DEF SpoolType
<1>5. \A g \in Hook : \A e \in File : g # h /\ file'[e].name = g => file[e].name = g
  BY <1>2
<1>6. UNCHANGED <<happened, accepted, dropped>> /\ again' \subseteq 1..happened
  BY DEF AppendEvent, SpoolType
<1> QED
  BY <1>2, <1>3, <1>4, <1>5, <1>6, SpoolFiles DEF AppendEvent

LEMMA RenameType ==
    ASSUME SpoolType, NEW h \in Hook, hook[h].at \in {"rename", "spool"}, NEW f \in File,
           NEW back \in {"claims", "pendings", "spooled"}, Rename(h, f, back),
           back = "pendings" => \A path \in hook[h].todo : path.name = "pending"
    PROVE  SpoolType'
<1> DEFINE new == [hook[h] EXCEPT !.at = "stamp", !.take = [file |-> f, name |-> h], !.back = back,
                                  !.stale = FALSE, !.claimed = @ \cup {f}]
<1>1. Fits(h, hook[h], happened, accepted \cup dropped) /\ Owns(h, hook[h], file)
  BY DEF SpoolType
<1>2. [file |-> f, name |-> h] \in Path
  BY DEF Path, Names
<1>3. FilesOK(file', happened)
  <2>1. h \in Names \ {"none"} /\ happened \in Nat /\ happened <= happened
    BY NoneIsNoHook DEF Names, SpoolType
  <2> QED
    BY <2>1, NameOK DEF Rename
<1>4. \A e \in File : file'[e].name = IF e = f THEN h ELSE file[e].name
  BY DEF Rename, SpoolType, FilesOK
<1>5. Fits(h, new, happened, accepted \cup dropped)
  BY <1>1, <1>2 DEF Fits, HookLocals, Stage, Sending
<1>6. Owns(h, new, file')
  BY <1>1, <1>4 DEF Owns, Fits, HookLocals
<1>7. again' \subseteq 1..happened
  BY DEF Rename, SpoolType, FilesOK
<1>8. \A g \in Hook : \A e \in File : g # h /\ file'[e].name = g => file[e].name = g
  BY <1>4
<1> QED
  BY <1>3, <1>5, <1>6, <1>7, <1>8, SpoolFiles DEF Rename

LEMMA ClaimType == ASSUME SpoolType, NEW h \in Hook, Claim(h) \/ ClaimSpool(h) PROVE SpoolType'
<1>1. Fits(h, hook[h], happened, accepted \cup dropped)
  BY DEF SpoolType
<1>2. CASE Claim(h)
  <2>1. hook[h].take.file \in File /\ hook[h].back \in {"claims", "pendings", "spooled"}
    BY <1>1, <1>2 DEF Claim, Fits, Path
  <2>2. hook[h].back = "pendings" => \A path \in hook[h].todo : path.name = "pending"
    BY <1>1, <1>2 DEF Claim, Fits
  <2> QED
    BY <1>2, <2>1, <2>2, RenameType DEF Claim
<1>3. CASE ClaimSpool(h)
  <2>1. PICK f \in Named({"spool"}) : Rename(h, f, "spooled")
    BY <1>3 DEF ClaimSpool
  <2> QED
    BY <1>3, <2>1, RenameType DEF ClaimSpool, Named
<1> QED
  BY <1>2, <1>3

LEMMA StampType == ASSUME SpoolType, NEW h \in Hook, Stamp(h) PROVE SpoolType'
<1> DEFINE new == [hook[h] EXCEPT !.at = hook[h].back, !.take = None]
<1>1. Fits(h, hook[h], happened, accepted \cup dropped) /\ Owns(h, hook[h], file) /\ hook[h].at = "stamp"
  BY DEF SpoolType, Stamp
<1>2. FilesOK(file', happened) /\ \A e \in File : file'[e].name = file[e].name
  <2> DEFINE f == hook[h].take.file
  <2>1. file' = [file EXCEPT ![f].old = FALSE] \/ file' = file
    BY DEF Stamp
  <2>2. FilesOK(file, happened)
    BY DEF SpoolType
  <2> HIDE DEF f
  <2>3. CASE file' = file
    BY <2>2, <2>3
  <2>4. CASE file' = [file EXCEPT ![f].old = FALSE]
    BY <2>2, <2>4 DEF FilesOK
  <2> QED
    BY <2>1, <2>3, <2>4
<1>3. /\ new \in HookLocals(new.bytes) /\ new.at = hook[h].back /\ new.claimed = hook[h].claimed
      /\ new.todo = hook[h].todo /\ new.read = {} /\ new.unsent = {}
  BY <1>1 DEF Fits, HookLocals, Sending
<1>6. /\ UNCHANGED <<happened, accepted, dropped>> /\ again' \subseteq 1..happened
      /\ \A g \in Hook : \A e \in File : g # h /\ file'[e].name = g => file[e].name = g
  BY <1>2 DEF Stamp, SpoolType
<1>4. CASE new.at = "spooled"
  <2>1. happened \in Nat /\ \A f \in File : file'[f].name = h => f \in new.claimed
    BY <1>1, <1>2, <1>3 DEF SpoolType, Owns
  <2> HIDE DEF new
  <2>2. /\ Fits(h, ReadClaims(h, new), happened, accepted \cup dropped)
        /\ Owns(h, ReadClaims(h, new), file')
    BY <1>3, <2>1, ReadClaimsType
  <2>3. To(h, ReadClaims(h, new))
    BY <1>4 DEF Stamp, new
  <2> QED
    BY <1>2, <1>6, <2>2, <2>3, SpoolFiles
<1>5. CASE new.at # "spooled"
  <2>1. Fits(h, new, happened, accepted \cup dropped)
    BY <1>1, <1>3, <1>5 DEF Fits, Sending
  <2>2. Owns(h, new, file')
    BY <1>1, <1>2, <1>3, <1>5 DEF Owns, Fits
  <2>3. To(h, new)
    BY <1>5 DEF Stamp
  <2> QED
    BY <1>2, <1>6, <2>1, <2>2, <2>3, SpoolFiles
<1> QED
  BY <1>4, <1>5

LEMMA SendType ==
    ASSUME NEW h \in Hook, NEW new, new \in HookLocals(new.bytes), NEW n \in Nat, NEW done,
           new.unsent \subseteq new.read, new.read \subseteq 1..n, new.read \ new.unsent \subseteq done,
           NEW files, \A f \in File : files[f].name = h => f \in new.claimed
    PROVE  Fits(h, Send(h, new), n, done) /\ Owns(h, Send(h, new), files)
<1>1. CASE new.unsent # {}
  <2>1. Send(h, new) = [new EXCEPT !.at = "send"]
    BY <1>1 DEF Send
  <2>2. Fits(h, [new EXCEPT !.at = "send"], n, done)
    BY DEF Fits, HookLocals, Stage, Sending
  <2>3. Owns(h, [new EXCEPT !.at = "send"], files)
    BY DEF Owns, HookLocals
  <2> QED
    BY <2>1, <2>2, <2>3
<1>2. CASE new.unsent = {}
  <2> DEFINE end == [new EXCEPT !.at = "unlink", !.todo = Claims(h, new.claimed)]
  <2>1. Send(h, new) = end
    BY <1>2 DEF Send
  <2>2. new.claimed \in SUBSET File
    BY DEF HookLocals
  <2>3. /\ Claims(h, new.claimed) \subseteq Path
        /\ \A f \in new.claimed : [file |-> f, name |-> h] \in Claims(h, new.claimed)
    BY <2>2, ClaimsAre
  <2>4. Fits(h, end, n, done)
    BY <2>3 DEF Fits, HookLocals, Stage, Sending
  <2>5. Owns(h, end, files)
    BY <2>3 DEF Owns, HookLocals
  <2> QED
    BY <2>1, <2>4, <2>5
<1> QED
  BY <1>1, <1>2

LEMMA ReadClaimType == ASSUME SpoolType, NEW h \in Hook, ReadClaim(h) PROVE SpoolType'
<1>1. PICK path \in hook[h].todo :
         LET events == hook[h].read \cup IF Exists(path) THEN file[path.file].events ELSE {}
             new    == [Past(h, path) EXCEPT !.read = events]
         IN  Only(h, IF new.todo # {} THEN new ELSE Send(h, [new EXCEPT !.unsent = events]))
  BY DEF ReadClaim
<1> DEFINE events == hook[h].read \cup IF Exists(path) THEN file[path.file].events ELSE {}
           new    == [Past(h, path) EXCEPT !.read = events]
           all    == [new EXCEPT !.unsent = events]
<1>2. Fits(h, hook[h], happened, accepted \cup dropped) /\ Owns(h, hook[h], file) /\ hook[h].at = "read"
  BY DEF SpoolType, ReadClaim
<1>3. events \subseteq 1..happened /\ events \subseteq Nat /\ hook[h].read \subseteq events /\ happened \in Nat
  <2>1. path \in Path
    BY <1>2 DEF Fits, HookLocals
  <2> QED
    BY <1>2, <2>1 DEF SpoolType, FilesOK, Fits, Path
<1> HIDE DEF events
<1>4. CASE new.todo # {}
  <2>1. Fits(h, new, happened, accepted \cup dropped)
    BY <1>2, <1>3 DEF Fits, HookLocals, Stage, Sending, Past
  <2>2. Owns(h, new, file)
    BY <1>2 DEF Owns, Fits, HookLocals, Past
  <2> HIDE DEF new
  <2>3. Only(h, new)
    BY <1>1, <1>4 DEF new, events
  <2> QED
    BY <2>1, <2>2, <2>3, SpoolOnly
<1>5. CASE new.todo = {}
  <2>1. /\ all \in HookLocals(all.bytes) /\ all.unsent = events /\ all.read = events
        /\ all.claimed = hook[h].claimed
    BY <1>2, <1>3 DEF Fits, HookLocals, Past
  <2>2. \A f \in File : file[f].name = h => f \in all.claimed
    BY <1>2, <2>1 DEF Owns
  <2>3. Only(h, Send(h, all))
    BY <1>1, <1>5 DEF events
  <2> HIDE DEF all
  <2>4. /\ all.unsent \subseteq all.read /\ all.read \subseteq 1..happened
        /\ all.read \ all.unsent \subseteq accepted \cup dropped
    BY <1>3, <2>1
  <2>5. Fits(h, Send(h, all), happened, accepted \cup dropped) /\ Owns(h, Send(h, all), file)
    BY <1>3, <2>1, <2>2, <2>4, SendType
  <2> QED
    BY <2>3, <2>5, SpoolOnly
<1> QED
  BY <1>4, <1>5

LEMMA BatchesAre == ASSUME NEW events, NEW b \in Batches(events) PROVE b \subseteq events
BY DEF Batches

(* The rest of a batch is sent, and the batch is done with. *)
LEMMA SentType ==
    ASSUME SpoolType, NEW h \in Hook, hook[h].at = "send", NEW b \in SUBSET hook[h].unsent,
           To(h, Sent(h, b)), UNCHANGED <<happened, file>>, again' \subseteq 1..happened,
           accepted \cup dropped \cup b = accepted' \cup dropped'
    PROVE  SpoolType'
<1> DEFINE new == [hook[h] EXCEPT !.unsent = @ \ b]
<1>1. Fits(h, hook[h], happened, accepted \cup dropped) /\ Owns(h, hook[h], file)
  BY DEF SpoolType
<1>2. /\ new \in HookLocals(new.bytes) /\ new.unsent = hook[h].unsent \ b /\ new.read = hook[h].read
      /\ new.claimed = hook[h].claimed
  BY <1>1 DEF Fits, HookLocals
<1>3. To(h, Send(h, new)) /\ \A f \in File : file[f].name = h => f \in new.claimed
  BY <1>1, <1>2 DEF Sent, Owns
<1> HIDE DEF new
<1>4. /\ new.unsent \subseteq new.read /\ new.read \subseteq 1..happened
      /\ new.read \ new.unsent \subseteq accepted' \cup dropped' /\ happened \in Nat
  BY <1>1, <1>2 DEF Fits, Sending, SpoolType
<1>5. Fits(h, Send(h, new), happened, accepted' \cup dropped') /\ Owns(h, Send(h, new), file)
  BY <1>2, <1>3, <1>4, SendType
<1>6. /\ happened' = happened /\ happened' \in Nat /\ happened <= happened' /\ file' = file
      /\ FilesOK(file', happened') /\ Fits(h, Send(h, new), happened', accepted' \cup dropped')
      /\ Owns(h, Send(h, new), file')
  BY <1>4, <1>5 DEF SpoolType
<1>7. accepted' \cup dropped' \cup again' \subseteq 1..happened'
  BY <1>1, <1>6 DEF SpoolType, Fits
<1> QED
  BY <1>3, <1>6, <1>7, SpoolStep

LEMMA PostType == ASSUME SpoolType, NEW h \in Hook, Post(h) PROVE SpoolType'
<1>1. PICK b \in Batches(hook[h].unsent) : Accept(b) /\ To(h, Sent(h, b))
  BY DEF Post
<1>2. b \subseteq hook[h].unsent
  BY <1>1, BatchesAre
<1>3. again' \subseteq 1..happened /\ accepted \cup dropped \cup b = accepted' \cup dropped'
  BY <1>1 DEF Post, Accept, SpoolType
<1> QED
  BY <1>1, <1>2, <1>3, SentType DEF Post

(* A remainder is kept: nothing is named or renamed. *)
LEMMA KeepsType ==
    ASSUME SpoolType, NEW h \in Hook, hook[h].at \in {"send", "keep"},
           NEW new, new \in HookLocals(new.bytes), new.at \in {"keep", "trim"},
           new.unsent \subseteq hook[h].unsent, new.read = hook[h].read, new.claimed = hook[h].claimed,
           new.at = "trim" => \A path \in new.todo : path.name = "pending",
           To(h, new),
           UNCHANGED <<happened, file>>, accepted' \cup dropped' \cup again' \subseteq 1..happened,
           accepted \cup dropped \cup (hook[h].unsent \ new.unsent) \subseteq accepted' \cup dropped'
    PROVE  SpoolType'
<1>1. Fits(h, hook[h], happened, accepted \cup dropped) /\ Owns(h, hook[h], file)
  BY DEF SpoolType
<1>3. Fits(h, new, happened, accepted' \cup dropped')
  BY <1>1 DEF Fits, Sending
<1>4. Owns(h, new, file)
  BY <1>1 DEF Owns
<1>5. /\ happened' = happened /\ happened' \in Nat /\ happened <= happened' /\ file' = file
      /\ FilesOK(file', happened') /\ Fits(h, new, happened', accepted' \cup dropped')
      /\ Owns(h, new, file') /\ accepted' \cup dropped' \cup again' \subseteq 1..happened'
      /\ accepted \cup dropped \subseteq accepted' \cup dropped'
  BY <1>3, <1>4 DEF SpoolType
<1> QED
  BY <1>5, SpoolStep

LEMMA PostFailsType == ASSUME SpoolType, NEW h \in Hook, PostFails(h) PROVE SpoolType'
<1> DEFINE keep(b) == [hook[h] EXCEPT !.at = "keep", !.unsent = Unsent(h, b)]
<1>1. PICK b \in Batches(hook[h].unsent) :
         \/ /\ dropped' = dropped \cup b
            /\ To(h, Sent(h, b))
            /\ UNCHANGED <<accepted, again, twice>>
         \/ /\ To(h, keep(b))
            /\ \/ Accept(b) /\ again' = again \cup b
               \/ UNCHANGED <<accepted, again, twice>>
            /\ UNCHANGED dropped
  BY DEF PostFails
<1>2. b \subseteq hook[h].unsent
  BY <1>1, BatchesAre
<1>3. CASE To(h, Sent(h, b)) /\ dropped' = dropped \cup b /\ UNCHANGED <<accepted, again, twice>>
  <2>1. again' \subseteq 1..happened /\ accepted \cup dropped \cup b = accepted' \cup dropped'
    BY <1>3 DEF SpoolType
  <2> QED
    BY <1>2, <1>3, <2>1, SentType DEF PostFails
<1>4. CASE /\ To(h, keep(b)) /\ UNCHANGED dropped
           /\ \/ Accept(b) /\ again' = again \cup b
              \/ UNCHANGED <<accepted, again, twice>>
  <2>1. Fits(h, hook[h], happened, accepted \cup dropped) /\ hook[h].at = "send"
    BY DEF SpoolType, PostFails
  <2>2. /\ keep(b) \in HookLocals(keep(b).bytes) /\ keep(b).at = "keep" /\ keep(b).unsent = hook[h].unsent
        /\ keep(b).read = hook[h].read /\ keep(b).claimed = hook[h].claimed
    BY <2>1 DEF Fits, HookLocals, Stage, Unsent
  <2>3. b \subseteq 1..happened
    BY <1>2, <2>1 DEF Fits
  <2>4. /\ accepted' \cup dropped' \cup again' \subseteq 1..happened
        /\ accepted \cup dropped \subseteq accepted' \cup dropped'
    BY <1>4, <2>3 DEF SpoolType, Accept
  <2> HIDE DEF keep
  <2>5. accepted \cup dropped \cup (hook[h].unsent \ keep(b).unsent) \subseteq accepted' \cup dropped'
    BY <2>2, <2>4
  <2>6. UNCHANGED <<happened, file>> /\ To(h, keep(b))
    BY <1>4 DEF PostFails
  <2> QED
    BY <2>1, <2>2, <2>4, <2>5, <2>6, KeepsType
<1> QED
  BY <1>1, <1>3, <1>4

LEMMA KeepType == ASSUME SpoolType, NEW h \in Hook, Keep(h) PROVE SpoolType'
<1> DEFINE new(saved) == [hook[h] EXCEPT !.at = "trim", !.unsent = saved, !.todo = Paths({"pending"}),
                                  !.bytes = Size(Named({"pending"})) + Cardinality(saved)]
<1>1. PICK saved \in SUBSET hook[h].unsent :
         To(h, new(saved)) /\ dropped' = dropped \cup (hook[h].unsent \ saved)
  BY DEF Keep
<1>2. Fits(h, hook[h], happened, accepted \cup dropped) /\ hook[h].at = "keep"
  BY DEF SpoolType, Keep
<1>3. Paths({"pending"}) \subseteq Path /\ \A path \in Paths({"pending"}) : path.name = "pending"
  BY PathsAre DEF Names
<1>4. /\ new(saved) \in HookLocals(new(saved).bytes) /\ new(saved).at = "trim" /\ new(saved).unsent = saved
      /\ new(saved).read = hook[h].read /\ new(saved).claimed = hook[h].claimed
      /\ new(saved).todo = Paths({"pending"})
  BY <1>2, <1>3 DEF Fits, HookLocals, Stage
<1>5. /\ accepted' \cup dropped' \cup again' \subseteq 1..happened
      /\ accepted \cup dropped \cup (hook[h].unsent \ saved) \subseteq accepted' \cup dropped'
  BY <1>1, <1>2 DEF SpoolType, Fits, Keep
<1> HIDE DEF new
<1> QED
  BY <1>1, <1>2, <1>3, <1>4, <1>5, KeepsType DEF Keep

LEMMA TrimType == ASSUME SpoolType, NEW h \in Hook, Trim(h) PROVE SpoolType'
<1>1. PICK path \in hook[h].todo :
         IF Exists(path)
         THEN /\ file' = [file EXCEPT ![path.file] = NoFile]
              /\ dropped' = dropped \cup file[path.file].events
              /\ To(h, [Past(h, path) EXCEPT !.bytes = @ - Cardinality(file[path.file].events)])
         ELSE To(h, Past(h, path)) /\ UNCHANGED <<file, dropped>>
  BY DEF Trim
<1>2. Fits(h, hook[h], happened, accepted \cup dropped) /\ Owns(h, hook[h], file) /\ hook[h].at = "trim"
  BY DEF SpoolType, Trim
<1>3. path.file \in File /\ path.name = "pending"
  BY <1>2 DEF Fits, HookLocals, Path
<1>4. UNCHANGED <<happened, accepted, again>> /\ happened \in Nat
  BY DEF Trim, SpoolType
<1>5. CASE Exists(path)
  <2> DEFINE new == [Past(h, path) EXCEPT !.bytes = @ - Cardinality(file[path.file].events)]
  <2>1. /\ FilesOK(file', happened)
        /\ \A g \in File : file'[g].name \in {file[g].name, "none"}
    BY <1>1, <1>3, <1>5, GoneOK
  <2>2. Fits(h, new, happened, accepted \cup dropped)
    BY <1>2 DEF Fits, HookLocals, Stage, Sending, Past
  <2>3. Owns(h, new, file')
    BY <1>2, <2>1, NoneIsNoHook DEF Owns, Fits, HookLocals, Past
  <2>4. accepted' \cup dropped' \cup again' \subseteq 1..happened /\ accepted \cup dropped \subseteq accepted' \cup dropped'
    BY <1>1, <1>3, <1>4, <1>5 DEF SpoolType, FilesOK
  <2>5. \A g \in Hook : \A f \in File : g # h /\ file'[f].name = g => file[f].name = g
    BY <2>1, NoneIsNoHook
  <2> HIDE DEF new
  <2>6. Fits(h, new, happened, accepted' \cup dropped')
    BY <1>4, <2>2, <2>4, FitsStill
  <2>7. /\ To(h, new) /\ happened' \in Nat /\ happened <= happened' /\ FilesOK(file', happened')
        /\ Fits(h, new, happened', accepted' \cup dropped')
        /\ accepted' \cup dropped' \cup again' \subseteq 1..happened'
    BY <1>1, <1>4, <1>5, <2>1, <2>4, <2>6 DEF new
  <2> QED
    BY <2>3, <2>4, <2>5, <2>7, SpoolStep
<1>6. CASE ~Exists(path)
  <2>1. Fits(h, Past(h, path), happened, accepted \cup dropped)
    BY <1>2 DEF Fits, HookLocals, Stage, Sending, Past
  <2>2. Owns(h, Past(h, path), file)
    BY <1>2 DEF Owns, Fits, HookLocals, Past
  <2>3. /\ To(h, Past(h, path)) /\ file' = file /\ FilesOK(file', happened)
        /\ UNCHANGED <<happened, accepted, dropped>> /\ again' \subseteq 1..happened
    BY <1>1, <1>4, <1>6 DEF SpoolType
  <2> QED
    BY <2>1, <2>2, <2>3, SpoolFiles
<1> QED
  BY <1>5, <1>6

LEMMA OpenPendingType == ASSUME SpoolType, NEW h \in Hook, OpenPending(h) PROVE SpoolType'
<1> DEFINE new(f) == [hook[h] EXCEPT !.at = "fill", !.open = f, !.todo = {}, !.bytes = 0]
<1>1. PICK f \in New : file' = [file EXCEPT ![f].name = "pending"] /\ To(h, new(f))
  BY DEF OpenPending
<1>2. Fits(h, hook[h], happened, accepted \cup dropped) /\ Owns(h, hook[h], file) /\ hook[h].at = "trim"
  BY DEF SpoolType, OpenPending
<1>3. f \in File
  BY <1>1, NewIs
<1>4. FilesOK(file', happened)
  <2>1. "pending" \in Names \ {"none"} /\ happened \in Nat /\ happened <= happened
    BY DEF Names, SpoolType
  <2> QED
    BY <1>1, <1>3, <2>1, NameOK
<1>5. \A e \in File : file'[e].name = IF e = f THEN "pending" ELSE file[e].name
  BY <1>1, <1>3 DEF SpoolType, FilesOK
<1>6. Fits(h, new(f), happened, accepted \cup dropped)
  BY <1>2, <1>3 DEF Fits, HookLocals, Stage, Sending
<1>7. Owns(h, new(f), file')
  BY <1>2, <1>5, NoneIsNoHook DEF Owns, Fits, HookLocals
<1>8. \A g \in Hook : \A e \in File : g # h /\ file'[e].name = g => file[e].name = g
  BY <1>5, NoneIsNoHook
<1>9. UNCHANGED <<happened, accepted, dropped>> /\ again' \subseteq 1..happened
  BY DEF OpenPending, SpoolType
<1> HIDE DEF new
<1> QED
  BY <1>1, <1>4, <1>6, <1>7, <1>8, <1>9, SpoolFiles

LEMMA FillPendingType == ASSUME SpoolType, NEW h \in Hook, FillPending(h) PROVE SpoolType'
<1> DEFINE new == [hook[h] EXCEPT !.at = "unlink", !.open = None, !.todo = Claims(h, hook[h].claimed)]
<1>1. Fits(h, hook[h], happened, accepted \cup dropped) /\ Owns(h, hook[h], file) /\ hook[h].at = "fill"
  BY DEF SpoolType, FillPending
<1>2. hook[h].open \in File /\ hook[h].unsent \subseteq 1..happened
  BY <1>1 DEF Fits
<1>3. FilesOK(file', happened) /\ \A g \in File : file'[g].name = file[g].name
  BY <1>2, WriteOK DEF FillPending
<1>4. /\ Claims(h, hook[h].claimed) \subseteq Path
      /\ \A f \in hook[h].claimed : [file |-> f, name |-> h] \in Claims(h, hook[h].claimed)
  BY <1>1, ClaimsAre DEF Fits, HookLocals
<1>5. Fits(h, new, happened, accepted \cup dropped)
  BY <1>1, <1>4 DEF Fits, HookLocals, Stage, Sending
<1>6. Owns(h, new, file')
  BY <1>1, <1>3, <1>4 DEF Owns, Fits, HookLocals
<1>7. UNCHANGED <<happened, accepted, dropped>> /\ again' \subseteq 1..happened /\ To(h, new)
  BY DEF FillPending, SpoolType
<1> HIDE DEF new
<1> QED
  BY <1>3, <1>5, <1>6, <1>7, SpoolFiles

LEMMA UnlinkClaimType == ASSUME SpoolType, NEW h \in Hook, UnlinkClaim(h) PROVE SpoolType'
<1>1. PICK path \in hook[h].todo :
         /\ To(h, IF hook[h].todo = {path} THEN Idle ELSE Past(h, path))
         /\ IF Exists(path)
            THEN /\ file' = [file EXCEPT ![path.file] = NoFile]
                 /\ late' = late \cup (file[path.file].events \ hook[h].read)
            ELSE UNCHANGED <<file, late>>
  BY DEF UnlinkClaim
<1>2. Fits(h, hook[h], happened, accepted \cup dropped) /\ Owns(h, hook[h], file) /\ hook[h].at = "unlink"
  BY DEF SpoolType, UnlinkClaim
<1>3. hook[h].claimed \in SUBSET File
  BY <1>2 DEF Fits, HookLocals
<1>4. path.file \in File /\ path.name = h /\ path \in Claims(h, hook[h].claimed)
  BY <1>2, <1>3, ClaimsAre DEF Fits
<1>5. /\ FilesOK(file', happened)
      /\ \A g \in File : file'[g].name \in {file[g].name, "none"}
      /\ file'[path.file].name # h
  <2>1. CASE Exists(path)
    <3>1. file' = [file EXCEPT ![path.file] = NoFile] /\ DOMAIN file = File
      BY <1>1, <2>1 DEF SpoolType, FilesOK
    <3>2. file'[path.file].name = "none"
      BY <1>4, <3>1 DEF NoFile
    <3> QED
      BY <1>4, <3>1, <3>2, GoneOK, NoneIsNoHook
  <2>2. CASE ~Exists(path)
    BY <1>1, <1>4, <2>2 DEF SpoolType, Exists
  <2> QED
    BY <2>1, <2>2
<1>6. \A f \in File : file'[f].name = h => f \in hook[h].claimed /\ [file |-> f, name |-> h] \in hook[h].todo \ {path}
  <2>1. \A f \in File : file'[f].name = h => file[f].name = h /\ f # path.file
    BY <1>5, NoneIsNoHook
  <2>2. \A f \in File : f # path.file => [file |-> f, name |-> h] # path
    OBVIOUS
  <2> QED
    BY <1>2, <2>1, <2>2 DEF Owns
<1>7. \A g \in Hook : \A f \in File : g # h /\ file'[f].name = g => file[f].name = g
  BY <1>5, NoneIsNoHook
<1>8. UNCHANGED <<happened, accepted, dropped>> /\ again' \subseteq 1..happened /\ happened \in Nat
  BY DEF UnlinkClaim, SpoolType
<1>9. CASE hook[h].todo = {path}
  <2>1. Fits(h, Idle, happened, accepted \cup dropped) /\ To(h, Idle)
    BY <1>1, <1>8, <1>9, IdleFits
  <2>2. Owns(h, Idle, file')
    BY <1>6, <1>9 DEF Owns
  <2> QED
    BY <1>5, <1>7, <1>8, <2>1, <2>2, SpoolFiles
<1>10. CASE hook[h].todo # {path}
  <2>1. Fits(h, Past(h, path), happened, accepted \cup dropped) /\ To(h, Past(h, path))
    BY <1>1, <1>2, <1>10 DEF Fits, HookLocals, Stage, Sending, Past
  <2>2. Owns(h, Past(h, path), file')
    BY <1>2, <1>6 DEF Owns, Fits, HookLocals, Past
  <2> QED
    BY <1>5, <1>7, <1>8, <2>1, <2>2, SpoolFiles
<1> QED
  BY <1>9, <1>10

LEMMA LeftByIs ==
    ASSUME NEW h \in Hook, NEW path \in Path
    PROVE  /\ LeftBy(h, path) \in Path
           /\ path.name # h => LeftBy(h, path) = path
           /\ LeftBy(h, path).name \in {path.name, "left"} /\ LeftBy(h, path).file = path.file
<1>1. path # None => LeftBy(h, path) = IF path.name = h THEN [path EXCEPT !.name = "left"] ELSE path
  BY DEF LeftBy
<1>2. path = None => LeftBy(h, path) = path
  BY DEF LeftBy
<1>3. CASE path # None /\ path.name = h
  BY <1>1, <1>3 DEF Path, Names
<1>4. CASE path # None /\ path.name # h
  BY <1>1, <1>4
<1>5. CASE path = None
  <2>1. LeftBy(h, path) = path
    BY <1>2, <1>5
  <2> QED
    BY <2>1
<1> QED
  BY <1>3, <1>4, <1>5

(* What another hook knows when hook h is killed. *)
LeftTo(h, g) ==
    [hook[g] EXCEPT !.todo = {LeftBy(h, path) : path \in @}, !.take = LeftBy(h, @)]

LEMMA LeftToIs ==
    ASSUME SpoolType, NEW h \in Hook, NEW g \in Hook
    PROVE  /\ LeftTo(h, g) \in HookLocals(LeftTo(h, g).bytes)
           /\ LeftTo(h, g).at = hook[g].at /\ LeftTo(h, g).event = hook[g].event
           /\ LeftTo(h, g).open = hook[g].open /\ LeftTo(h, g).claimed = hook[g].claimed
           /\ LeftTo(h, g).read = hook[g].read /\ LeftTo(h, g).unsent = hook[g].unsent
           /\ LeftTo(h, g).stale = hook[g].stale /\ LeftTo(h, g).back = hook[g].back
           /\ LeftTo(h, g).take = LeftBy(h, hook[g].take)
           /\ LeftTo(h, g).todo = {LeftBy(h, path) : path \in hook[g].todo}
<1>1. hook[g] \in HookLocals(hook[g].bytes)
  BY DEF SpoolType, Fits
<1>2. LeftBy(h, hook[g].take) \in Path \cup {None}
  <2>1. CASE hook[g].take \in Path
    BY <2>1, LeftByIs
  <2>2. CASE hook[g].take \notin Path
    <3>1. hook[g].take = None
      BY <1>1, <2>2 DEF HookLocals
    <3> QED
      BY <3>1 DEF LeftBy
  <2> QED
    BY <2>1, <2>2
<1>3. {LeftBy(h, path) : path \in hook[g].todo} \in SUBSET Path
  BY <1>1, LeftByIs DEF HookLocals
<1>4. LeftTo(h, g) = [hook[g] EXCEPT !.todo = {LeftBy(h, path) : path \in hook[g].todo},
                                     !.take = LeftBy(h, hook[g].take)]
  BY DEF LeftTo
<1> DEFINE todo == {LeftBy(h, path) : path \in hook[g].todo}
           take == LeftBy(h, hook[g].take)
<1>5. LeftTo(h, g) = [hook[g] EXCEPT !.todo = todo, !.take = take]
  BY <1>4
<1>6. todo \in SUBSET Path /\ take \in Path \cup {None}
  BY <1>2, <1>3
<1> HIDE DEF todo, take
<1>7. /\ LeftTo(h, g) \in HookLocals(LeftTo(h, g).bytes)
      /\ LeftTo(h, g).at = hook[g].at /\ LeftTo(h, g).event = hook[g].event
      /\ LeftTo(h, g).open = hook[g].open /\ LeftTo(h, g).claimed = hook[g].claimed
      /\ LeftTo(h, g).read = hook[g].read /\ LeftTo(h, g).unsent = hook[g].unsent
      /\ LeftTo(h, g).stale = hook[g].stale /\ LeftTo(h, g).back = hook[g].back
      /\ LeftTo(h, g).take = take /\ LeftTo(h, g).todo = todo
  BY <1>1, <1>5, <1>6 DEF HookLocals
<1> QED
  BY <1>7 DEF todo, take

LEMMA LeftToType ==
    ASSUME SpoolType, NEW h \in Hook, NEW g \in Hook, g # h
    PROVE  /\ Fits(g, LeftTo(h, g), happened, accepted \cup dropped)
           /\ Owns(g, LeftTo(h, g), file)
<1>1. Fits(g, hook[g], happened, accepted \cup dropped) /\ Owns(g, hook[g], file)
  BY DEF SpoolType
<1>2. hook[g].todo \subseteq Path /\ hook[g].claimed \in SUBSET File
  BY <1>1 DEF Fits, HookLocals
<1>3. \A path \in LeftTo(h, g).todo : \E p \in hook[g].todo :
        path.name \in {p.name, "left"} /\ (p.name # h => path = p)
  BY <1>2, LeftToIs, LeftByIs
<1>4. \A p \in hook[g].todo : p.name # h => p \in LeftTo(h, g).todo
  BY <1>2, LeftToIs, LeftByIs
<1>5. hook[g].at \in {"read", "unlink"} => LeftTo(h, g).todo \subseteq Claims(g, hook[g].claimed)
  <2> SUFFICES ASSUME hook[g].at \in {"read", "unlink"}, NEW path \in LeftTo(h, g).todo
               PROVE  path \in Claims(g, hook[g].claimed)
    OBVIOUS
  <2>1. PICK p \in hook[g].todo : p.name # h => path = p
    BY <1>3
  <2>2. p \in Claims(g, hook[g].claimed)
    BY <1>1 DEF Fits
  <2>3. p.name = g
    BY <1>2, <2>2, ClaimsAre
  <2> QED
    BY <2>1, <2>2, <2>3
<1>6. (\A p \in hook[g].todo : p.name = "pending") => \A path \in LeftTo(h, g).todo : path.name = "pending"
  <2>1. "pending" # h
    BY NoneIsNoHook
  <2> QED
    BY <1>3, <2>1
<1>7. hook[g].at \in {"rename", "stamp"} => LeftTo(h, g).take \in Path
  BY <1>1, LeftToIs, LeftByIs DEF Fits
<1>8. hook[g].at = "rename" => (LeftTo(h, g).take.name \in Hook => hook[g].stale)
  <2>1. hook[g].at = "rename" => LeftTo(h, g).take.name \in {hook[g].take.name, "left"}
    BY <1>1, LeftToIs, LeftByIs DEF Fits
  <2> QED
    BY <1>1, <2>1, NoneIsNoHook DEF Fits
<1>9. Fits(g, LeftTo(h, g), happened, accepted \cup dropped)
  BY <1>1, <1>5, <1>6, <1>7, <1>8, LeftToIs DEF Fits
<1>10. Owns(g, LeftTo(h, g), file)
  <2>1. \A f \in File : [file |-> f, name |-> g].name # h
    OBVIOUS
  <2> QED
    BY <1>1, <1>4, <2>1, LeftToIs DEF Owns
<1> QED
  BY <1>9, <1>10

LEMMA KillType == ASSUME SpoolType, NEW h \in Hook, Kill(h) PROVE SpoolType'
<1>1. PICK b \in {{}} \cup IF hook[h].at = "send" THEN Batches(hook[h].unsent) ELSE {} :
         /\ Accept(b)
         /\ again' = again \cup b \cup
                       (hook[h].read \ IF hook[h].at = "unlink" THEN {} ELSE hook[h].unsent)
  BY DEF Kill
<1>2. Fits(h, hook[h], happened, accepted \cup dropped) /\ Owns(h, hook[h], file)
  BY DEF SpoolType
<1>3. b \subseteq 1..happened
  <2>1. b \subseteq hook[h].unsent
    BY <1>1, BatchesAre
  <2> QED
    BY <1>2, <2>1 DEF Fits
<1>4. /\ happened' = happened /\ happened \in Nat /\ DOMAIN hook' = Hook
      /\ accepted' \cup dropped' \cup again' \subseteq 1..happened
      /\ accepted \cup dropped \subseteq accepted' \cup dropped'
  BY <1>1, <1>2, <1>3 DEF Kill, Accept, SpoolType, Fits
<1>5. \A f \in File : /\ file'[f].name = IF file[f].name = h THEN "left" ELSE file[f].name
                      /\ file'[f].events = file[f].events /\ file'[f].old = file[f].old
  BY DEF Kill, SpoolType, FilesOK
<1>6. FilesOK(file', happened)
  <2>1. file' \in [File -> [name : Names, events : SUBSET (1..happened), old : BOOLEAN]]
    <3>1. \A f \in File : /\ file[f] \in [name : Names, events : SUBSET (1..happened), old : BOOLEAN]
                          /\ [file[f] EXCEPT !.name = "left"]
                                 \in [name : Names, events : SUBSET (1..happened), old : BOOLEAN]
      BY DEF SpoolType, FilesOK, Names
    <3>2. file' = [f \in File |-> IF file[f].name = h THEN [file[f] EXCEPT !.name = "left"] ELSE file[f]]
      BY DEF Kill
    <3> QED
      BY <3>1, <3>2
  <2> QED
    BY <1>5, <2>1 DEF SpoolType, FilesOK
<1>7. \A g \in Hook : \A f \in File : file'[f].name = g => file[f].name = g /\ g # h
  BY <1>5, NoneIsNoHook
<1>8. ASSUME NEW g \in Hook
      PROVE  Fits(g, hook'[g], happened, accepted' \cup dropped') /\ Owns(g, hook'[g], file')
  <2>1. CASE g = h
    <3>1. hook'[g] = Idle
      BY <2>1 DEF Kill
    <3>2. Owns(g, Idle, file')
      BY <1>7, <2>1 DEF Owns
    <3> QED
      BY <1>4, <3>1, <3>2, IdleFits
  <2>2. CASE g # h
    <3>1. hook'[g] = LeftTo(h, g)
      BY <2>2 DEF Kill, LeftTo
    <3>2. Fits(g, LeftTo(h, g), happened, accepted' \cup dropped')
      BY <1>4, <2>2, LeftToType, FitsStill
    <3>3. Owns(g, LeftTo(h, g), file')
      BY <1>7, <2>2, LeftToType DEF Owns
    <3> QED
      BY <3>1, <3>2, <3>3
  <2> QED
    BY <2>1, <2>2
<1>9. \A g \in Hook : Fits(g, hook'[g], happened', accepted' \cup dropped') /\ Owns(g, hook'[g], file')
  BY <1>4, <1>8
<1> QED
  BY <1>4, <1>6, <1>9 DEF SpoolType

LEMMA AgeType == ASSUME SpoolType, NEW f \in File, Age(f) PROVE SpoolType'
<1>1. FilesOK(file', happened) /\ \A g \in File : file'[g].name = file[g].name
  BY DEF Age, SpoolType, FilesOK
<1>2. UNCHANGED <<happened, hook, accepted, dropped, again>>
  BY DEF Age
<1>3. \A h \in Hook : Owns(h, hook[h], file')
  BY <1>1 DEF SpoolType, Owns
<1>4. \A h \in Hook : Fits(h, hook[h], happened, accepted \cup dropped)
  BY DEF SpoolType
<1>5. \A h \in Hook : Fits(h, hook'[h], happened', accepted' \cup dropped') /\ Owns(h, hook'[h], file')
  BY <1>2, <1>3, <1>4
<1> QED
  BY <1>1, <1>2, <1>5 DEF SpoolType

LEMMA SpoolTypeNext == SpoolType /\ [SpoolNext]_spoolVars => SpoolType'
<1> SUFFICES ASSUME SpoolType, [SpoolNext]_spoolVars PROVE SpoolType'
  OBVIOUS
<1>1. CASE \E h \in Hook : Capture(h) \/ Stop(h) \/ HookStep(h) \/ Kill(h)
  <2>1. PICK h \in Hook : Capture(h) \/ Stop(h) \/ HookStep(h) \/ Kill(h)
    BY <1>1
  <2>2. CASE Capture(h) \/ Stop(h) \/ Kill(h)
    BY <2>2, CaptureType, DueType, KillType
  <2>3. CASE HookStep(h)
    BY <2>3, AppendEventType, DueType, ListClaimsType, NextPathType, ListPendingType, StatSpoolType,
       ClaimType, LostType, StampType, ReadClaimType, PostType, PostFailsType, KeepType, TrimType,
       OpenPendingType, FillPendingType, UnlinkClaimType DEF HookStep
  <2> QED
    BY <2>1, <2>2, <2>3
<1>2. CASE \E f \in File : Age(f)
  BY <1>2, AgeType
<1>3. CASE UNCHANGED spoolVars
  BY <1>3 DEF spoolVars, SpoolType, FilesOK, Fits, Owns, HookLocals
<1> QED
  BY <1>1, <1>2, <1>3 DEF SpoolNext

-----------------------------------------------------------------------------
(* KeptUntilSent: a claim is unlinked when what was read of it is done with or
   is in a file that was made later.  A rank orders the files in the order in
   which they were made. *)

Safe == accepted \cup dropped \cup late

(* The remainder of a flush is made after its claims, and what the flush has read
   is safe, or in a file made after its claims, when it unlinks them. *)
KeptBy(rank, l, files, safe) ==
    /\ l.at = "fill" => \A f \in l.claimed : rank[f] < rank[l.open]
    /\ l.at = "unlink" => \A e \in l.read :
          e \in safe \/ \E w \in File : e \in files[w].events /\ \A f \in l.claimed : rank[f] < rank[w]

Ranked(rank, top) ==
    /\ \A f \in File : rank[f] < top
    /\ \A h \in Hook : KeptBy(rank, hook[h], file, Safe)

KeptInv ==
    /\ SpoolType /\ KeptUntilSent
    /\ \E rank \in [File -> Nat], top \in Nat : Ranked(rank, top)

(* Nothing goes from the disk that is not safe. *)
NoneLost == \A w \in File : file[w].events \subseteq file'[w].events \cup Safe'

LEMMA KeptStill ==
    ASSUME NoneLost, Safe \subseteq Safe', NEW rank, NEW l, KeptBy(rank, l, file, Safe)
    PROVE  KeptBy(rank, l, file', Safe')
<1>1. ASSUME l.at = "unlink", NEW e \in l.read
      PROVE  e \in Safe' \/ \E w \in File : e \in file'[w].events /\ \A f \in l.claimed : rank[f] < rank[w]
  <2>1. CASE e \in Safe
    BY <2>1
  <2>2. CASE e \notin Safe
    <3>1. PICK w \in File : e \in file[w].events /\ \A f \in l.claimed : rank[f] < rank[w]
      BY <1>1, <2>2 DEF KeptBy
    <3>2. e \in file'[w].events \cup Safe'
      BY <3>1 DEF NoneLost
    <3> QED
      BY <3>1, <3>2
  <2> QED
    BY <2>1, <2>2
<1> QED
  BY <1>1 DEF KeptBy

(* A step of one hook that loses nothing. *)
LEMMA KeptStep ==
    ASSUME KeptInv, SpoolType', NoneLost, Safe \subseteq Safe', NEW h \in Hook, NEW new, To(h, new),
           \A rank \in [File -> Nat] : KeptBy(rank, hook[h], file, Safe) => KeptBy(rank, new, file', Safe'),
           happened' = happened,
           hook[h].at = "append" =>
               \/ new.at = "append" /\ new.event = hook[h].event
               \/ hook[h].event \in OnDisk' \cup Safe'
    PROVE  KeptInv'
<1>1. DOMAIN hook = Hook /\ hook'[h] = new /\ \A g \in Hook : g # h => hook'[g] = hook[g]
  BY DEF To, KeptInv, SpoolType
<1>2. PICK rank \in [File -> Nat], top \in Nat : Ranked(rank, top)
  BY DEF KeptInv
<1>3. \A g \in Hook : KeptBy(rank, hook'[g], file', Safe')
  BY <1>1, <1>2, KeptStill DEF Ranked
<1>4. Ranked(rank, top)'
  BY <1>2, <1>3 DEF Ranked
<1>5. OnDisk \subseteq OnDisk' \cup Safe'
  BY DEF OnDisk, NoneLost
<1>6. InHand \subseteq InHand' \cup OnDisk' \cup Safe'
  BY <1>1 DEF InHand
<1>7. KeptUntilSent'
  BY <1>5, <1>6 DEF KeptInv, KeptUntilSent, Safe
<1> QED
  BY <1>4, <1>7 DEF KeptInv

(* One that leaves the files' events alone, and neither fills a remainder nor
   unlinks. *)
LEMMA KeptQuiet ==
    ASSUME KeptInv, SpoolType', NEW h \in Hook, NEW new, To(h, new), new.at \notin {"fill", "unlink"},
           hook[h].at # "append", \A f \in File : file'[f].events = file[f].events,
           UNCHANGED <<happened, late>>, accepted \cup dropped \subseteq accepted' \cup dropped'
    PROVE  KeptInv'
<1>1. NoneLost /\ Safe \subseteq Safe'
  BY DEF NoneLost, Safe
<1>2. \A rank \in [File -> Nat] : KeptBy(rank, new, file', Safe')
  BY DEF KeptBy
<1> QED
  BY <1>1, <1>2, KeptStep

LEMMA KeptOnly ==
    ASSUME KeptInv, SpoolType', NEW h \in Hook, NEW new, Only(h, new), new.at \notin {"fill", "unlink"},
           hook[h].at # "append"
    PROVE  KeptInv'
BY KeptQuiet DEF Only

LEMMA SpoolSame ==
    ASSUME SpoolType, NEW h \in Hook
    PROVE  /\ Fits(h, hook[h], happened, accepted \cup dropped) /\ Owns(h, hook[h], file)
           /\ hook[h] \in HookLocals(hook[h].bytes) /\ happened \in Nat /\ FilesOK(file, happened)
BY DEF SpoolType, Fits

LEMMA KeptListing ==
    ASSUME KeptInv, SpoolType', NEW h \in Hook,
           Due(h) \/ Stop(h) \/ ListClaims(h) \/ StatClaim(h) \/ ListPending(h) \/ NextPending(h)
    PROVE  KeptInv'
<1>1. hook[h] \in HookLocals(hook[h].bytes)
  BY SpoolSame DEF KeptInv
<1>2. CASE Due(h) \/ Stop(h)
  <2>1. PICK at \in {"idle", "list"} : Only(h, [Idle EXCEPT !.at = at])
    BY <1>2 DEF Due, Stop
  <2>2. [Idle EXCEPT !.at = at].at = at /\ hook[h].at # "append"
    BY <1>2, IdleIs DEF Due, Stop
  <2> QED
    BY <2>1, <2>2, KeptOnly
<1>3. CASE ListClaims(h)
  <2>1. [Idle EXCEPT !.at = "claims", !.todo = Paths(ClaimNames)].at = "claims"
    BY IdleIs
  <2> QED
    BY <1>3, <2>1, KeptOnly DEF ListClaims
<1>4. CASE StatClaim(h) \/ NextPending(h)
  <2>1. PICK path \in hook[h].todo : Only(h, Take(h, path)) \/ Only(h, Past(h, path))
    BY <1>4 DEF StatClaim, NextPending
  <2>2. Take(h, path).at = "rename" /\ Past(h, path).at = hook[h].at /\ hook[h].at \in {"claims", "pendings"}
    BY <1>1, <1>4 DEF Take, Past, HookLocals, StatClaim, NextPending
  <2> QED
    BY <2>1, <2>2, KeptOnly
<1>5. CASE ListPending(h)
  <2>1. [hook[h] EXCEPT !.at = "pendings", !.todo = Paths({"pending"})].at = "pendings"
    BY <1>1 DEF HookLocals
  <2> QED
    BY <1>5, <2>1, KeptOnly DEF ListPending
<1> QED
  BY <1>2, <1>3, <1>4, <1>5

LEMMA ReadClaimsAt ==
    ASSUME NEW h \in Hook, NEW new, new \in HookLocals(new.bytes)
    PROVE  /\ ReadClaims(h, new).at \in {"idle", "read"}
           /\ ReadClaims(h, new).read \in {{}, new.read}
BY IdleIs DEF ReadClaims, HookLocals

LEMMA KeptClaiming ==
    ASSUME KeptInv, SpoolType', NEW h \in Hook,
           StatSpool(h) \/ Claim(h) \/ ClaimSpool(h) \/ Lost(h) \/ Stamp(h)
    PROVE  KeptInv'
<1>1. /\ hook[h] \in HookLocals(hook[h].bytes) /\ DOMAIN file = File
      /\ Fits(h, hook[h], happened, accepted \cup dropped)
      /\ \A f \in File : DOMAIN file[f] = {"name", "events", "old"}
  BY SpoolSame DEF KeptInv, FilesOK
<1>2. CASE StatSpool(h)
  <2>1. [hook[h] EXCEPT !.at = "spool"].at = "spool"
    BY <1>1 DEF HookLocals
  <2> QED
    BY <1>1, <1>2, <2>1, ReadClaimsAt, KeptOnly DEF StatSpool
<1>3. CASE Claim(h) \/ ClaimSpool(h)
  <2>1. PICK f, back : Rename(h, f, back)
    BY <1>3 DEF Claim, ClaimSpool
  <2> DEFINE new == [hook[h] EXCEPT !.at = "stamp", !.take = [file |-> f, name |-> h], !.back = back,
                                    !.stale = FALSE, !.claimed = @ \cup {f}]
  <2>2. new.at = "stamp" /\ hook[h].at # "append"
    BY <1>1, <1>3 DEF HookLocals, Claim, ClaimSpool
  <2>3. \A g \in File : file'[g].events = file[g].events
    BY <1>1, <2>1 DEF Rename
  <2>4. To(h, new) /\ UNCHANGED <<happened, late>> /\ accepted \cup dropped \subseteq accepted' \cup dropped'
    BY <2>1 DEF Rename
  <2> HIDE DEF new
  <2> QED
    BY <2>2, <2>3, <2>4, KeptQuiet
<1>4. CASE Lost(h)
  <2> DEFINE new == [hook[h] EXCEPT !.at = hook[h].back, !.take = None, !.stale = FALSE]
  <2>1. CASE hook[h].at = "rename" /\ Only(h, new)
    <3>1. new.at = hook[h].back /\ hook[h].back \in {"claims", "pendings"}
      BY <1>1, <2>1 DEF HookLocals, Fits
    <3> HIDE DEF new
    <3> QED
      BY <2>1, <3>1, KeptOnly
  <2>2. CASE hook[h].at = "spool" /\ Only(h, ReadClaims(h, hook[h]))
    BY <1>1, <2>2, ReadClaimsAt, KeptOnly
  <2> QED
    BY <1>4, <2>1, <2>2 DEF Lost
<1>5. CASE Stamp(h)
  <2> DEFINE new == [hook[h] EXCEPT !.at = hook[h].back, !.take = None]
  <2>1. new \in HookLocals(new.bytes) /\ new.at = hook[h].back /\ hook[h].back \in {"claims", "pendings", "spooled"}
    BY <1>1, <1>5 DEF HookLocals, Fits, Stamp
  <2>2. \A g \in File : file'[g].events = file[g].events
    BY <1>1, <1>5 DEF Stamp
  <2>3. /\ To(h, IF new.at = "spooled" THEN ReadClaims(h, new) ELSE new) /\ hook[h].at = "stamp"
        /\ UNCHANGED <<happened, late>> /\ accepted \cup dropped \subseteq accepted' \cup dropped'
    BY <1>5 DEF Stamp
  <2> HIDE DEF new
  <2>4. (IF new.at = "spooled" THEN ReadClaims(h, new) ELSE new).at \notin {"fill", "unlink"}
    BY <2>1, ReadClaimsAt
  <2> QED
    BY <2>2, <2>3, <2>4, KeptQuiet
<1> QED
  BY <1>2, <1>3, <1>4, <1>5

LEMMA SendAt ==
    ASSUME NEW h \in Hook, NEW new, new \in HookLocals(new.bytes)
    PROVE  /\ Send(h, new).at = IF new.unsent = {} THEN "unlink" ELSE "send"
           /\ Send(h, new).read = new.read /\ Send(h, new).claimed = new.claimed
           /\ Send(h, new).unsent = new.unsent
BY DEF Send, HookLocals

(* A hook that sends, and has nothing left to send. *)
LEMMA KeptSend ==
    ASSUME KeptInv, SpoolType', NEW h \in Hook, hook[h].at \in {"read", "send"},
           NEW new, new \in HookLocals(new.bytes), To(h, Send(h, new)),
           new.read \ new.unsent \subseteq accepted' \cup dropped',
           UNCHANGED <<happened, file, late>>, accepted \cup dropped \subseteq accepted' \cup dropped'
    PROVE  KeptInv'
<1>1. NoneLost /\ Safe \subseteq Safe'
  BY DEF NoneLost, Safe
<1>2. \A rank \in [File -> Nat] : KeptBy(rank, Send(h, new), file', Safe')
  BY SendAt DEF KeptBy, Safe
<1> QED
  BY <1>1, <1>2, KeptStep

LEMMA KeptSending ==
    ASSUME KeptInv, SpoolType', NEW h \in Hook, ReadClaim(h) \/ Post(h) \/ PostFails(h)
    PROVE  KeptInv'
<1>1. /\ hook[h] \in HookLocals(hook[h].bytes) /\ happened \in Nat
      /\ Fits(h, hook[h], happened, accepted \cup dropped)
  BY SpoolSame DEF KeptInv
<1>2. CASE ReadClaim(h)
  <2>1. PICK path \in hook[h].todo :
         LET events == hook[h].read \cup IF Exists(path) THEN file[path.file].events ELSE {}
             new    == [Past(h, path) EXCEPT !.read = events]
         IN  Only(h, IF new.todo # {} THEN new ELSE Send(h, [new EXCEPT !.unsent = events]))
    BY <1>2 DEF ReadClaim
  <2> DEFINE events == hook[h].read \cup IF Exists(path) THEN file[path.file].events ELSE {}
             new    == [Past(h, path) EXCEPT !.read = events]
             all    == [new EXCEPT !.unsent = events]
  <2>2. path \in Path /\ hook[h].at = "read"
    BY <1>1, <1>2 DEF HookLocals, ReadClaim
  <2>3. events \in SUBSET Nat
    BY <1>1, <2>2 DEF HookLocals, KeptInv, SpoolType, FilesOK, Path
  <2> HIDE DEF events
  <2>4. new.at = "read" /\ all \in HookLocals(all.bytes) /\ all.read = events /\ all.unsent = events
    BY <1>1, <2>2, <2>3 DEF HookLocals, Past
  <2>5. Only(h, new) \/ Only(h, Send(h, all))
    BY <2>1 DEF events
  <2> HIDE DEF new, all
  <2>6. CASE Only(h, new)
    BY <2>2, <2>4, <2>6, KeptOnly
  <2>7. CASE Only(h, Send(h, all))
    <3>1. /\ To(h, Send(h, all)) /\ UNCHANGED <<happened, file, late>>
          /\ accepted \cup dropped \subseteq accepted' \cup dropped'
      BY <2>7 DEF Only
    <3> QED
      BY <2>2, <2>4, <3>1, KeptSend
  <2> QED
    BY <2>5, <2>6, <2>7
<1>3. ASSUME NEW b \in SUBSET hook[h].unsent, To(h, Sent(h, b)), hook[h].at = "send",
             UNCHANGED <<happened, file, late>>, accepted \cup dropped \cup b \subseteq accepted' \cup dropped'
      PROVE  KeptInv'
  <2> DEFINE new == [hook[h] EXCEPT !.unsent = @ \ b]
  <2>1. new \in HookLocals(new.bytes) /\ new.read = hook[h].read /\ new.unsent = hook[h].unsent \ b
    BY <1>1 DEF HookLocals
  <2>2. To(h, Send(h, new))
    BY <1>3 DEF Sent
  <2> HIDE DEF new
  <2>3. new.read \ new.unsent \subseteq accepted' \cup dropped'
    BY <1>1, <1>3, <2>1 DEF Fits, Sending
  <2> QED
    BY <1>3, <2>1, <2>2, <2>3, KeptSend
<1>4. CASE Post(h)
  <2>1. PICK b \in Batches(hook[h].unsent) : Accept(b) /\ To(h, Sent(h, b))
    BY <1>4 DEF Post
  <2>2. b \in SUBSET hook[h].unsent
    BY <2>1, BatchesAre
  <2>3. UNCHANGED <<happened, file, late>> /\ accepted \cup dropped \cup b \subseteq accepted' \cup dropped'
    BY <1>4, <2>1 DEF Post, Accept
  <2> QED
    BY <1>3, <1>4, <2>1, <2>2, <2>3 DEF Post
<1>5. CASE PostFails(h)
  <2> DEFINE keep(b) == [hook[h] EXCEPT !.at = "keep", !.unsent = Unsent(h, b)]
  <2>1. PICK b \in Batches(hook[h].unsent) :
         \/ dropped' = dropped \cup b /\ To(h, Sent(h, b)) /\ accepted' = accepted
         \/ To(h, keep(b)) /\ accepted \subseteq accepted' /\ dropped' = dropped
    BY <1>5 DEF PostFails, Accept
  <2>2. b \in SUBSET hook[h].unsent
    BY <2>1, BatchesAre
  <2>3. UNCHANGED <<happened, file, late>> /\ hook[h].at = "send"
    BY <1>5 DEF PostFails
  <2>4. CASE dropped' = dropped \cup b /\ To(h, Sent(h, b)) /\ accepted' = accepted
    BY <1>3, <2>2, <2>3, <2>4
  <2>5. CASE To(h, keep(b)) /\ accepted \subseteq accepted' /\ dropped' = dropped
    <3>1. keep(b).at = "keep"
      BY <1>1 DEF HookLocals
    <3> HIDE DEF keep
    <3>2. \A f \in File : file'[f].events = file[f].events
      BY <2>3
    <3>3. accepted \cup dropped \subseteq accepted' \cup dropped'
      BY <2>5
    <3> QED
      BY <2>3, <2>5, <3>1, <3>2, <3>3, KeptQuiet
  <2> QED
    BY <2>1, <2>4, <2>5
<1> QED
  BY <1>2, <1>4, <1>5

(* What is written is in the file that was opened, or late. *)
LEMMA WriteKeeps ==
    ASSUME KeptInv, NEW f \in File, NEW events, Write(f, events), UNCHANGED <<accepted, dropped>>
    PROVE  /\ NoneLost /\ Safe \subseteq Safe'
           /\ events \subseteq file'[f].events \/ events \subseteq Safe'
<1>1. CASE file[f].name = "none"
  BY <1>1 DEF Write, NoneLost, Safe
<1>2. CASE file[f].name # "none"
  <2>1. file' = [file EXCEPT ![f].events = @ \cup events, ![f].old = FALSE] /\ late' = late
    BY <1>2 DEF Write
  <2>2. \A w \in File : file'[w].events = IF w = f THEN file[w].events \cup events ELSE file[w].events
    BY <2>1 DEF KeptInv, SpoolType, FilesOK
  <2>3. NoneLost
    BY <2>2 DEF NoneLost
  <2>4. Safe' = Safe
    BY <2>1 DEF Safe
  <2> QED
    BY <2>2, <2>3, <2>4
<1> QED
  BY <1>1, <1>2

LEMMA KeptAppend == ASSUME KeptInv, SpoolType', NEW h \in Hook, AppendEvent(h) PROVE KeptInv'
<1>1. hook[h].open \in File /\ hook[h].at = "append"
  BY SpoolSame DEF KeptInv, Fits, AppendEvent
<1>2. /\ NoneLost /\ Safe \subseteq Safe'
      /\ {hook[h].event} \subseteq file'[hook[h].open].events \/ {hook[h].event} \subseteq Safe'
  BY <1>1, WriteKeeps DEF AppendEvent
<1>3. hook[h].event \in OnDisk' \cup Safe'
  BY <1>1, <1>2 DEF OnDisk
<1>4. [Idle EXCEPT !.at = "due"].at = "due"
  BY IdleIs
<1>5. \A rank \in [File -> Nat] : KeptBy(rank, [Idle EXCEPT !.at = "due"], file', Safe')
  BY <1>4 DEF KeptBy
<1> QED
  BY <1>2, <1>3, <1>5, KeptStep DEF AppendEvent

LEMMA KeptKeep == ASSUME KeptInv, SpoolType', NEW h \in Hook, Keep(h) PROVE KeptInv'
<1> DEFINE new(saved) == [hook[h] EXCEPT !.at = "trim", !.unsent = saved, !.todo = Paths({"pending"}),
                                  !.bytes = Size(Named({"pending"})) + Cardinality(saved)]
<1>1. PICK saved : To(h, new(saved)) /\ dropped \subseteq dropped'
  BY DEF Keep
<1>2. new(saved).at = "trim"
  BY SpoolSame DEF KeptInv, HookLocals
<1>3. /\ hook[h].at # "append" /\ UNCHANGED <<happened, late>>
      /\ \A f \in File : file'[f].events = file[f].events
      /\ accepted \cup dropped \subseteq accepted' \cup dropped'
  BY <1>1 DEF Keep
<1> HIDE DEF new
<1> QED
  BY <1>1, <1>2, <1>3, KeptQuiet

LEMMA KeptTrim == ASSUME KeptInv, SpoolType', NEW h \in Hook, Trim(h) PROVE KeptInv'
<1>1. PICK path \in hook[h].todo :
         IF Exists(path)
         THEN /\ file' = [file EXCEPT ![path.file] = NoFile]
              /\ dropped' = dropped \cup file[path.file].events
              /\ To(h, [Past(h, path) EXCEPT !.bytes = @ - Cardinality(file[path.file].events)])
         ELSE To(h, Past(h, path)) /\ UNCHANGED <<file, dropped>>
  BY DEF Trim
<1>2. hook[h] \in HookLocals(hook[h].bytes) /\ hook[h].at = "trim" /\ happened' = happened
  BY SpoolSame DEF KeptInv, Trim
<1>3. UNCHANGED <<happened, accepted, late>> /\ DOMAIN file = File
  BY DEF Trim, KeptInv, SpoolType, FilesOK
<1>4. CASE Exists(path)
  <2> DEFINE new == [Past(h, path) EXCEPT !.bytes = @ - Cardinality(file[path.file].events)]
  <2>1. new.at = "trim"
    BY <1>2 DEF HookLocals, Past
  <2>2. To(h, new) /\ dropped' = dropped \cup file[path.file].events
    BY <1>1, <1>4
  <2>3. \A w \in File : file'[w].events = file[w].events \/ w = path.file
    BY <1>1, <1>3, <1>4
  <2>4. NoneLost /\ Safe \subseteq Safe'
    BY <1>3, <2>2, <2>3 DEF NoneLost, Safe
  <2>5. \A rank \in [File -> Nat] : KeptBy(rank, new, file', Safe')
    BY <2>1 DEF KeptBy
  <2> HIDE DEF new
  <2> QED
    BY <1>2, <2>2, <2>4, <2>5, KeptStep
<1>5. CASE ~Exists(path)
  <2>1. Past(h, path).at = "trim"
    BY <1>2 DEF HookLocals, Past
  <2>2. To(h, Past(h, path)) /\ UNCHANGED <<file, dropped>>
    BY <1>1, <1>5
  <2> QED
    BY <1>2, <1>3, <2>1, <2>2, KeptQuiet
<1> QED
  BY <1>4, <1>5

LEMMA KeptFill == ASSUME KeptInv, SpoolType', NEW h \in Hook, FillPending(h) PROVE KeptInv'
<1> DEFINE new == [hook[h] EXCEPT !.at = "unlink", !.open = None, !.todo = Claims(h, hook[h].claimed)]
           w == hook[h].open
<1>1. /\ Fits(h, hook[h], happened, accepted \cup dropped) /\ hook[h].at = "fill"
      /\ hook[h] \in HookLocals(hook[h].bytes)
  BY SpoolSame DEF KeptInv, FillPending
<1>2. w \in File /\ hook[h].read \ hook[h].unsent \subseteq accepted \cup dropped
  BY <1>1 DEF Fits, Sending
<1>3. /\ NoneLost /\ Safe \subseteq Safe'
      /\ hook[h].unsent \subseteq file'[w].events \/ hook[h].unsent \subseteq Safe'
  BY <1>2, WriteKeeps DEF FillPending
<1>4. new.at = "unlink" /\ new.read = hook[h].read /\ new.claimed = hook[h].claimed /\ To(h, new)
      /\ happened' = happened
  BY <1>1 DEF HookLocals, FillPending
<1>5. ASSUME NEW rank \in [File -> Nat], KeptBy(rank, hook[h], file, Safe)
      PROVE  KeptBy(rank, new, file', Safe')
  <2> HIDE DEF new
  <2>1. \A f \in hook[h].claimed : rank[f] < rank[w]
    BY <1>1, <1>5 DEF KeptBy
  <2>2. \A e \in hook[h].read : e \in Safe' \/ e \in file'[w].events
    BY <1>2, <1>3 DEF Safe
  <2> QED
    BY <1>2, <1>4, <2>1, <2>2 DEF KeptBy
<1> HIDE DEF new
<1> QED
  BY <1>1, <1>3, <1>4, <1>5, KeptStep

LEMMA KeptOpen == ASSUME KeptInv, SpoolType', NEW h \in Hook, OpenPending(h) PROVE KeptInv'
<1> DEFINE new(f) == [hook[h] EXCEPT !.at = "fill", !.open = f, !.todo = {}, !.bytes = 0]
<1>1. PICK f \in New : file' = [file EXCEPT ![f].name = "pending"] /\ To(h, new(f))
  BY DEF OpenPending
<1>2. PICK rank \in [File -> Nat], top \in Nat : Ranked(rank, top)
  BY DEF KeptInv
<1> DEFINE made == [rank EXCEPT ![f] = top]
<1>3. f \in File /\ \A g \in Hook : hook[g].open # f /\ f \notin hook[g].claimed
  BY <1>1 DEF New, Unused, Named, Refers
<1>4. file[f].events = {} /\ \A g \in File : file'[g].events = file[g].events
  BY <1>1, <1>3 DEF New, Unused, Named, KeptInv, SpoolType, FilesOK
<1>5. made \in [File -> Nat] /\ made[f] = top /\ \A g \in File : g # f => made[g] = rank[g]
  BY <1>3
<1>6. UNCHANGED <<happened, accepted, dropped, late>> /\ Safe' = Safe /\ hook[h].at = "trim"
  BY DEF OpenPending, Safe
<1>7. /\ new(f).at = "fill" /\ new(f).open = f /\ new(f).claimed = hook[h].claimed
      /\ \A g \in Hook : hook[g].claimed \subseteq File
  BY SpoolSame DEF KeptInv, HookLocals
<1> HIDE DEF made
<1>8. KeptBy(made, new(f), file', Safe')
  <2>1. \A g \in hook[h].claimed : made[g] < made[f]
    BY <1>2, <1>3, <1>5, <1>7 DEF Ranked
  <2> QED
    BY <1>7, <2>1 DEF KeptBy
<1>9. ASSUME NEW g \in Hook
      PROVE  KeptBy(made, hook[g], file', Safe')
  <2>1. KeptBy(rank, hook[g], file, Safe)
    BY <1>2 DEF Ranked
  <2>2. ASSUME hook[g].at = "fill"
        PROVE  \A c \in hook[g].claimed : made[c] < made[hook[g].open]
    <3>1. hook[g].open \in File /\ hook[g].open # f
      BY <1>3, <2>2, SpoolSame DEF KeptInv, Fits
    <3> QED
      BY <1>3, <1>5, <1>7, <2>1, <2>2, <3>1 DEF KeptBy
  <2>3. ASSUME hook[g].at = "unlink", NEW e \in hook[g].read, e \notin Safe'
        PROVE  \E w \in File : e \in file'[w].events /\ \A c \in hook[g].claimed : made[c] < made[w]
    <3>1. PICK w \in File : e \in file[w].events /\ \A c \in hook[g].claimed : rank[c] < rank[w]
      BY <1>6, <2>1, <2>3 DEF KeptBy
    <3>2. w # f /\ e \in file'[w].events
      BY <1>4, <3>1
    <3>3. \A c \in hook[g].claimed : made[c] < made[w]
      BY <1>3, <1>5, <1>7, <3>1, <3>2
    <3> QED
      BY <3>2, <3>3
  <2> QED
    BY <2>2, <2>3 DEF KeptBy
<1>10. DOMAIN hook = Hook /\ hook'[h] = new(f) /\ \A g \in Hook : g # h => hook'[g] = hook[g]
  BY <1>1 DEF To, KeptInv, SpoolType
<1> HIDE DEF new
<1>11. Ranked(made, top + 1)'
  <2>1. \A g \in Hook : KeptBy(made, hook'[g], file', Safe')
    BY <1>8, <1>9, <1>10
  <2>2. \A g \in File : made[g] < top + 1
    BY <1>2, <1>5 DEF Ranked
  <2> QED
    BY <2>1, <2>2 DEF Ranked
<1>12. OnDisk' = OnDisk
  BY <1>4 DEF OnDisk
<1>13. InHand \subseteq InHand'
  BY <1>6, <1>10 DEF InHand
<1>14. KeptUntilSent'
  BY <1>6, <1>12, <1>13 DEF KeptInv, KeptUntilSent
<1>15. top + 1 \in Nat
  OBVIOUS
<1> QED
  BY <1>5, <1>11, <1>14, <1>15 DEF KeptInv

LEMMA KeptUnlink == ASSUME KeptInv, SpoolType', NEW h \in Hook, UnlinkClaim(h) PROVE KeptInv'
<1>1. PICK path \in hook[h].todo :
         /\ To(h, IF hook[h].todo = {path} THEN Idle ELSE Past(h, path))
         /\ IF Exists(path)
            THEN /\ file' = [file EXCEPT ![path.file] = NoFile]
                 /\ late' = late \cup (file[path.file].events \ hook[h].read)
            ELSE UNCHANGED <<file, late>>
  BY DEF UnlinkClaim
<1> DEFINE c == path.file
<1>2. /\ Fits(h, hook[h], happened, accepted \cup dropped) /\ hook[h].at = "unlink"
      /\ hook[h] \in HookLocals(hook[h].bytes)
  BY SpoolSame DEF KeptInv, UnlinkClaim
<1>3. hook[h].claimed \in SUBSET File
  BY <1>2 DEF HookLocals
<1>4. c \in File /\ c \in hook[h].claimed
  BY <1>2, <1>3, ClaimsAre DEF Fits
<1>5. PICK rank \in [File -> Nat], top \in Nat : Ranked(rank, top)
  BY DEF KeptInv
<1>6. UNCHANGED <<happened, accepted, dropped>> /\ DOMAIN file = File /\ Safe \subseteq Safe'
  BY <1>1 DEF UnlinkClaim, KeptInv, SpoolType, FilesOK, Safe
<1>7. /\ \A w \in File : w # c => file'[w].events = file[w].events
      /\ file[c].events \subseteq file'[c].events \cup hook[h].read \cup Safe'
  <2>1. CASE Exists(path)
    BY <1>1, <1>4, <1>6, <2>1 DEF Safe
  <2>2. CASE ~Exists(path)
    BY <1>1, <2>2
  <2> QED
    BY <2>1, <2>2
<1>8. ASSUME NEW e \in hook[h].read
      PROVE  e \in Safe' \/ \E w \in File : e \in file'[w].events /\ rank[c] < rank[w]
  <2>1. KeptBy(rank, hook[h], file, Safe)
    BY <1>5 DEF Ranked
  <2>2. CASE e \notin Safe
    <3>1. PICK w \in File : e \in file[w].events /\ rank[c] < rank[w]
      BY <1>2, <1>4, <1>8, <2>1, <2>2 DEF KeptBy
    <3>2. w # c
      BY <1>4, <3>1
    <3> QED
      BY <1>7, <3>1, <3>2
  <2> QED
    BY <1>6, <2>2
<1>9. ASSUME NEW g \in Hook
      PROVE  KeptBy(rank, hook[g], file', Safe')
  <2>1. KeptBy(rank, hook[g], file, Safe) /\ hook[g].claimed \subseteq File
    BY <1>5, SpoolSame DEF Ranked, KeptInv, HookLocals
  <2>2. ASSUME hook[g].at = "unlink", NEW e \in hook[g].read, e \notin Safe'
        PROVE  \E w \in File : e \in file'[w].events /\ \A f \in hook[g].claimed : rank[f] < rank[w]
    <3>1. PICK w \in File : e \in file[w].events /\ \A f \in hook[g].claimed : rank[f] < rank[w]
      BY <1>6, <2>1, <2>2 DEF KeptBy
    <3>2. CASE e \in file'[w].events
      BY <3>1, <3>2
    <3>3. CASE e \notin file'[w].events
      <4>1. w = c /\ e \in hook[h].read
        BY <1>7, <2>2, <3>1, <3>3
      <4>2. PICK v \in File : e \in file'[v].events /\ rank[c] < rank[v]
        BY <1>8, <2>2, <4>1
      <4>3. \A f \in hook[g].claimed : rank[f] < rank[v]
        BY <1>4, <2>1, <3>1, <4>1, <4>2
      <4> QED
        BY <4>2, <4>3
    <3> QED
      BY <3>2, <3>3
  <2> QED
    BY <2>1, <2>2 DEF KeptBy
<1>10. DOMAIN hook = Hook /\ \A g \in Hook : g # h => hook'[g] = hook[g]
  BY <1>1 DEF To, KeptInv, SpoolType
<1>11. hook'[h] = Idle \/ (/\ hook'[h].at = "unlink" /\ hook'[h].read = hook[h].read
                          /\ hook'[h].claimed = hook[h].claimed)
  <2>1. hook'[h] = Idle \/ hook'[h] = Past(h, path)
    BY <1>1, <1>10 DEF To
  <2> QED
    BY <1>2, <2>1 DEF Past, HookLocals
<1>12. KeptBy(rank, hook'[h], file', Safe')
  <2>1. CASE hook'[h] = Idle
    BY <2>1, IdleIs DEF KeptBy
  <2>2. CASE /\ hook'[h].at = "unlink" /\ hook'[h].read = hook[h].read /\ hook'[h].claimed = hook[h].claimed
    BY <1>2, <1>9, <2>2 DEF KeptBy
  <2> QED
    BY <1>11, <2>1, <2>2
<1>13. Ranked(rank, top)'
  BY <1>5, <1>9, <1>10, <1>12 DEF Ranked
<1>14. OnDisk \subseteq OnDisk' \cup Safe'
  <2> SUFFICES ASSUME NEW w \in File, NEW e \in file[w].events, e \notin Safe'
               PROVE  \E v \in File : e \in file'[v].events
    BY DEF OnDisk
  <2> QED
    BY <1>7, <1>8
<1>15. InHand \subseteq InHand'
  BY <1>2, <1>10 DEF InHand
<1>16. KeptUntilSent'
  BY <1>6, <1>14, <1>15 DEF KeptInv, KeptUntilSent, Safe
<1> QED
  BY <1>13, <1>16 DEF KeptInv

LEMMA KeptCapture == ASSUME KeptInv, SpoolType', NEW h \in Hook, Capture(h) PROVE KeptInv'
<1> DEFINE new(f) == [Idle EXCEPT !.at = "append", !.event = happened + 1, !.open = f]
<1>1. PICK f : file' = [file EXCEPT ![f].name = "spool"] /\ To(h, new(f))
  BY DEF Capture
<1>2. new(f).at = "append" /\ new(f).event = happened + 1
  BY IdleIs
<1>3. /\ happened \in Nat /\ happened' = happened + 1 /\ hook[h].at = "idle"
      /\ UNCHANGED <<accepted, dropped, late>> /\ Safe' = Safe
  BY DEF Capture, KeptInv, SpoolType, Safe
<1>4. \A w \in File : file'[w].events = file[w].events
  BY <1>1 DEF KeptInv, SpoolType, FilesOK
<1>5. NoneLost /\ OnDisk' = OnDisk
  BY <1>4 DEF NoneLost, OnDisk
<1>6. DOMAIN hook = Hook /\ hook'[h] = new(f) /\ \A g \in Hook : g # h => hook'[g] = hook[g]
  BY <1>1 DEF To, KeptInv, SpoolType
<1> HIDE DEF new
<1>7. PICK rank \in [File -> Nat], top \in Nat : Ranked(rank, top)
  BY DEF KeptInv
<1>8. \A g \in Hook : KeptBy(rank, hook'[g], file', Safe')
  <2>1. KeptBy(rank, hook'[h], file', Safe')
    BY <1>2, <1>6 DEF KeptBy
  <2> QED
    BY <1>3, <1>5, <1>6, <1>7, <2>1, KeptStill DEF Ranked
<1>9. Ranked(rank, top)'
  BY <1>7, <1>8 DEF Ranked
<1>10. InHand \cup {happened + 1} \subseteq InHand'
  BY <1>2, <1>3, <1>6 DEF InHand
<1>11. 1..happened' = (1..happened) \cup {happened + 1}
  BY <1>3
<1>12. KeptUntilSent'
  BY <1>3, <1>5, <1>10, <1>11 DEF KeptInv, KeptUntilSent
<1> QED
  BY <1>9, <1>12 DEF KeptInv

LEMMA KeptKill == ASSUME KeptInv, SpoolType', NEW h \in Hook, Kill(h) PROVE KeptInv'
<1>1. /\ accepted \subseteq accepted' /\ UNCHANGED <<happened, late>>
      /\ dropped' = dropped \cup IF hook[h].at = "append" THEN {hook[h].event} ELSE {}
  BY DEF Kill, Accept
<1>2. \A w \in File : file'[w].events = file[w].events
  BY DEF Kill, KeptInv, SpoolType, FilesOK
<1>3. NoneLost /\ OnDisk' = OnDisk /\ Safe \subseteq Safe'
  BY <1>1, <1>2 DEF NoneLost, OnDisk, Safe
<1>4. DOMAIN hook = Hook /\ hook'[h] = Idle /\ \A g \in Hook : g # h => hook'[g] = LeftTo(h, g)
  BY DEF Kill, KeptInv, SpoolType, LeftTo
<1>5. PICK rank \in [File -> Nat], top \in Nat : Ranked(rank, top)
  BY DEF KeptInv
<1>6. ASSUME NEW g \in Hook
      PROVE  KeptBy(rank, hook'[g], file', Safe')
  <2>1. CASE g = h
    BY <1>4, <2>1, IdleIs DEF KeptBy
  <2>2. CASE g # h
    <3>1. KeptBy(rank, hook[g], file', Safe')
      BY <1>3, <1>5, KeptStill DEF Ranked
    <3>2. /\ hook'[g].at = hook[g].at /\ hook'[g].open = hook[g].open /\ hook'[g].read = hook[g].read
          /\ hook'[g].claimed = hook[g].claimed
      BY <1>4, <2>2, LeftToIs DEF KeptInv
    <3> QED
      BY <3>1, <3>2 DEF KeptBy
  <2> QED
    BY <2>1, <2>2
<1>7. Ranked(rank, top)'
  BY <1>5, <1>6 DEF Ranked
<1>8. InHand \subseteq InHand' \cup dropped'
  <2> SUFFICES ASSUME NEW g \in Hook, hook[g].at = "append"
               PROVE  hook[g].event \in InHand' \cup dropped'
    BY DEF InHand
  <2>1. CASE g = h
    BY <1>1, <2>1
  <2>2. CASE g # h
    <3>1. hook'[g].at = "append" /\ hook'[g].event = hook[g].event
      BY <1>4, <2>2, LeftToIs DEF KeptInv
    <3> QED
      BY <3>1 DEF InHand
  <2> QED
    BY <2>1, <2>2
<1>9. KeptUntilSent'
  BY <1>1, <1>3, <1>8 DEF KeptInv, KeptUntilSent
<1> QED
  BY <1>7, <1>9 DEF KeptInv

LEMMA KeptAge == ASSUME KeptInv, SpoolType', NEW f \in File, Age(f) PROVE KeptInv'
<1>1. \A w \in File : file'[w].events = file[w].events
  BY DEF Age, KeptInv, SpoolType, FilesOK
<1>2. UNCHANGED <<happened, hook, accepted, dropped, late>>
  BY DEF Age
<1>3. NoneLost /\ OnDisk' = OnDisk /\ Safe' = Safe /\ InHand' = InHand
  BY <1>1, <1>2 DEF NoneLost, OnDisk, Safe, InHand
<1>4. PICK rank \in [File -> Nat], top \in Nat : Ranked(rank, top)
  BY DEF KeptInv
<1>5. \A g \in Hook : KeptBy(rank, hook'[g], file', Safe')
  BY <1>2, <1>3, <1>4, KeptStill DEF Ranked
<1>6. Ranked(rank, top)'
  BY <1>4, <1>5 DEF Ranked
<1>7. KeptUntilSent'
  BY <1>2, <1>3 DEF KeptInv, KeptUntilSent
<1> QED
  BY <1>6, <1>7 DEF KeptInv

LEMMA KeptInvInit == SpoolInit => KeptInv
<1> SUFFICES ASSUME SpoolInit PROVE KeptInv
  OBVIOUS
<1>1. SpoolType
  BY SpoolTypeInit
<1>2. \A h \in Hook : hook[h].at = "idle"
  BY IdleIs DEF SpoolInit
<1> DEFINE rank == [f \in File |-> 0]
<1>3. rank \in [File -> Nat] /\ Ranked(rank, 1)
  BY <1>2 DEF Ranked, KeptBy
<1>4. KeptUntilSent
  BY DEF SpoolInit, KeptUntilSent
<1> QED
  BY <1>1, <1>3, <1>4 DEF KeptInv

LEMMA KeptInvNext == KeptInv /\ [SpoolNext]_spoolVars => KeptInv'
<1> SUFFICES ASSUME KeptInv, [SpoolNext]_spoolVars PROVE KeptInv'
  OBVIOUS
<1>1. SpoolType'
  BY SpoolTypeNext DEF KeptInv
<1>2. CASE \E h \in Hook : Capture(h) \/ Stop(h) \/ HookStep(h) \/ Kill(h)
  <2>1. PICK h \in Hook : Capture(h) \/ Stop(h) \/ HookStep(h) \/ Kill(h)
    BY <1>2
  <2>2. CASE Capture(h) \/ Stop(h) \/ Kill(h)
    BY <1>1, <2>2, KeptCapture, KeptListing, KeptKill
  <2>3. CASE HookStep(h)
    BY <1>1, <2>3, KeptAppend, KeptListing, KeptClaiming, KeptSending, KeptKeep, KeptTrim, KeptOpen,
       KeptFill, KeptUnlink DEF HookStep
  <2> QED
    BY <2>1, <2>2, <2>3
<1>3. CASE \E f \in File : Age(f)
  BY <1>1, <1>3, KeptAge
<1>4. CASE UNCHANGED spoolVars
  BY <1>1, <1>4 DEF spoolVars, KeptInv, KeptUntilSent, InHand, OnDisk, Ranked, Safe
<1> QED
  BY <1>2, <1>3, <1>4 DEF SpoolNext

(* The invariant holds for any number of hooks, files and events. *)
THEOREM KeptInvCorrect == SpoolSpec => []KeptInv
BY KeptInvInit, KeptInvNext, PTL DEF SpoolSpec

(* An event stays on disk until the cloud has it or it is dropped, however many
   flushes overlap and are killed; but for what is written to a file that a flush
   has read. *)
THEOREM KeptUntilSentAlways == SpoolSpec => []KeptUntilSent
<1>1. KeptInv => KeptUntilSent
  BY DEF KeptInv
<1> QED
  BY <1>1, KeptInvCorrect, PTL

-----------------------------------------------------------------------------
(* SentOnce: but for events of a kill, a lost answer or a flush that looked
   abandoned, an event is in one file that has not been sent. *)

(* A hook has sent or dropped an event that it read, or is yet to send it. *)
Done(l, e) == e \in l.read /\ (l.at = "unlink" \/ (l.at \in Sending /\ e \notin l.unsent))

ToSend(l, e) == e \in l.read /\ (l.at = "read" \/ (l.at \in Sending /\ e \in l.unsent))

Brings(l, e) == l.at = "append" /\ l.event = e

(* The event is in the file, and not sent by the hook that has claimed it. *)
Alive(f, e) ==
    e \in file[f].events /\ ~\E h \in Hook : file[f].name = h /\ Done(hook[h], e)

InOneFile(e) ==
    \A f, g \in File : Alive(f, e) /\ Alive(g, e) => f = g

NotYetSent(e) ==
    \A f \in File : Alive(f, e) => e \notin accepted

NowhereElse(e) ==
    \A h \in Hook : Brings(hook[h], e) =>
        /\ e \notin accepted
        /\ \A f \in File : e \notin file[f].events
        /\ \A g \in Hook : e \notin hook[g].read /\ (Brings(hook[g], e) => g = h)

InOwnFile(e) ==
    \A h \in Hook : ToSend(hook[h], e) => \E f \in File : file[f].name = h /\ e \in file[f].events

Once(e) == InOneFile(e) /\ NotYetSent(e) /\ NowhereElse(e) /\ InOwnFile(e)

OnceInv == SpoolType /\ SentOnce /\ \A e \in Nat \ again : Once(e)

(* What a hook is to send, the cloud does not have. *)
LEMMA UnsentIsNew ==
    ASSUME OnceInv, NEW h \in Hook, NEW e \in Nat \ again, ToSend(hook[h], e)
    PROVE  e \notin accepted /\ \A f \in File : Alive(f, e) => file[f].name = h
<1>1. Once(e)
  BY DEF OnceInv
<1>2. PICK f \in File : file[f].name = h /\ e \in file[f].events
  BY <1>1 DEF Once, InOwnFile
<1>3. ~Done(hook[h], e)
  BY DEF Done, ToSend, Sending
<1>4. Alive(f, e)
  BY <1>2, <1>3 DEF Alive
<1> QED
  BY <1>1, <1>2, <1>4 DEF Once, NotYetSent, InOneFile

(* A step that brings no event and writes none. *)
LEMMA OnceStep ==
    ASSUME OnceInv, again \subseteq again', NEW e \in Nat \ again',
           \A f \in File : Alive(f, e)' => Alive(f, e),
           \A f \in File : e \in file'[f].events => e \in file[f].events,
           \A g \in Hook : Brings(hook'[g], e) => Brings(hook[g], e),
           \A g \in Hook : e \in hook'[g].read =>
               (\E k \in Hook : e \in hook[k].read) \/ \E f \in File : e \in file[f].events,
           e \in accepted' =>
               e \in accepted \/ ((\E k \in Hook : e \in hook[k].read) /\ \A f \in File : ~Alive(f, e)'),
           \A g \in Hook : ToSend(hook'[g], e) =>
               \E f \in File : file'[f].name = g /\ e \in file'[f].events
    PROVE  Once(e)'
<1>1. Once(e)
  BY DEF OnceInv
<1>2. InOneFile(e)'
  BY <1>1 DEF Once, InOneFile
<1>3. NotYetSent(e)'
  BY <1>1 DEF Once, NotYetSent
<1>4. NowhereElse(e)'
  BY <1>1 DEF Once, NowhereElse
<1>5. InOwnFile(e)'
  BY DEF InOwnFile
<1> QED
  BY <1>2, <1>3, <1>4, <1>5 DEF Once

(* One that leaves the files where they are, with what is in them. *)
LEMMA OnceQuiet ==
    ASSUME OnceInv, again \subseteq again', NEW h \in Hook, NEW new, To(h, new), NEW e \in Nat \ again',
           \A f \in File : file'[f].name = file[f].name /\ file'[f].events = file[f].events,
           Done(hook[h], e) => Done(new, e),
           ~Brings(new, e),
           e \in new.read => e \in hook[h].read \/ \E f \in File : e \in file[f].events,
           e \in accepted' => e \in accepted \/ (ToSend(hook[h], e) /\ Done(new, e)),
           ToSend(new, e) =>
               ToSend(hook[h], e) \/ \E f \in File : file[f].name = h /\ e \in file[f].events
    PROVE  Once(e)'
<1>1. DOMAIN hook = Hook /\ hook'[h] = new /\ \A g \in Hook : g # h => hook'[g] = hook[g]
  BY DEF To, OnceInv, SpoolType
<1>2. Once(e)
  BY DEF OnceInv
<1>3. \A f \in File : Alive(f, e)' => Alive(f, e)
  BY <1>1 DEF Alive
<1>4. \A g \in Hook : ToSend(hook'[g], e) =>
          \E f \in File : file'[f].name = g /\ e \in file'[f].events
  BY <1>1, <1>2 DEF Once, InOwnFile
<1>5. e \in accepted' =>
          e \in accepted \/ ((\E k \in Hook : e \in hook[k].read) /\ \A f \in File : ~Alive(f, e)')
  <2> SUFFICES ASSUME e \in accepted', e \notin accepted
               PROVE  e \in hook[h].read /\ \A f \in File : ~Alive(f, e)'
    OBVIOUS
  <2>1. ToSend(hook[h], e) /\ Done(new, e)
    OBVIOUS
  <2>2. \A f \in File : Alive(f, e) => file[f].name = h
    BY <2>1, UnsentIsNew
  <2>3. \A f \in File : ~Alive(f, e)'
    BY <1>1, <1>3, <2>1, <2>2 DEF Alive
  <2> QED
    BY <2>1, <2>3 DEF ToSend
<1>6. /\ \A g \in Hook : Brings(hook'[g], e) => Brings(hook[g], e)
      /\ \A g \in Hook : e \in hook'[g].read =>
           (\E k \in Hook : e \in hook[k].read) \/ \E f \in File : e \in file[f].events
  BY <1>1
<1> QED
  BY <1>3, <1>4, <1>5, <1>6, OnceStep

(* One of a hook that has read nothing. *)
LEMMA OnceUnread ==
    ASSUME OnceInv, SpoolType', NEW h \in Hook, NEW new, To(h, new),
           \A f \in File : file'[f].name = file[f].name /\ file'[f].events = file[f].events,
           UNCHANGED <<accepted, again, twice>>, hook[h].read = {}, new.read = {}, new.at # "append"
    PROVE  OnceInv'
<1>1. ASSUME NEW e \in Nat \ again'
      PROVE  Once(e)'
  <2>1. ~Done(hook[h], e) /\ ~ToSend(new, e) /\ ~Brings(new, e)
    BY DEF Done, ToSend, Brings
  <2> QED
    BY <2>1, OnceQuiet
<1> QED
  BY <1>1 DEF OnceInv, SentOnce

LEMMA OnceOnly ==
    ASSUME OnceInv, SpoolType', NEW h \in Hook, NEW new, Only(h, new), hook[h].read = {}, new.read = {},
           new.at # "append"
    PROVE  OnceInv'
BY OnceUnread DEF Only

LEMMA UnreadAt ==
    ASSUME SpoolType, NEW h \in Hook, hook[h].at \notin Sending \cup {"read", "unlink"}
    PROVE  hook[h].read = {} /\ hook[h].unsent = {} /\ \A e : ~Done(hook[h], e) /\ ~ToSend(hook[h], e)
<1>1. hook[h].read = {} /\ hook[h].unsent = {}
  BY SpoolSame DEF Fits
<1> QED
  BY <1>1 DEF Done, ToSend

LEMMA OnceListing ==
    ASSUME OnceInv, SpoolType', NEW h \in Hook,
           \/ Due(h) \/ Stop(h) \/ ListClaims(h) \/ StatClaim(h) \/ ListPending(h) \/ NextPending(h)
           \/ StatSpool(h) \/ Lost(h) \/ Stamp(h)
    PROVE  OnceInv'
<1>1. hook[h].at \in {"idle", "due", "list", "claims", "pendings", "rename", "spool", "stamp"}
  BY DEF Due, Stop, ListClaims, StatClaim, ListPending, NextPending, StatSpool, Lost, Stamp
<1>2. /\ hook[h] \in HookLocals(hook[h].bytes) /\ hook[h].read = {} /\ hook[h].at # "append"
      /\ Fits(h, hook[h], happened, accepted \cup dropped) /\ FilesOK(file, happened)
  BY <1>1, UnreadAt, SpoolSame DEF OnceInv, Sending
<1>3. CASE Due(h) \/ Stop(h)
  <2>1. PICK at \in {"idle", "list"} : Only(h, [Idle EXCEPT !.at = at])
    BY <1>3 DEF Due, Stop
  <2>2. [Idle EXCEPT !.at = at].at = at /\ [Idle EXCEPT !.at = at].read = {}
    BY IdleIs
  <2> QED
    BY <1>2, <2>1, <2>2, OnceOnly
<1>4. CASE ListClaims(h)
  <2> DEFINE new == [Idle EXCEPT !.at = "claims", !.todo = Paths(ClaimNames)]
  <2>1. new.at = "claims" /\ new.read = {}
    BY IdleIs
  <2>2. Only(h, new)
    BY <1>4 DEF ListClaims
  <2> HIDE DEF new
  <2> QED
    BY <1>2, <2>1, <2>2, OnceOnly
<1>5. CASE StatClaim(h) \/ NextPending(h)
  <2>1. PICK path \in hook[h].todo : Only(h, Take(h, path)) \/ Only(h, Past(h, path))
    BY <1>5 DEF StatClaim, NextPending
  <2>2. /\ Take(h, path).at # "append" /\ Past(h, path).at # "append"
        /\ Take(h, path).read = {} /\ Past(h, path).read = {}
    BY <1>2 DEF Take, Past, HookLocals
  <2> QED
    BY <1>2, <2>1, <2>2, OnceOnly
<1>6. CASE ListPending(h)
  <2> DEFINE new == [hook[h] EXCEPT !.at = "pendings", !.todo = Paths({"pending"})]
  <2>1. new.at = "pendings" /\ new.read = {}
    BY <1>2 DEF HookLocals
  <2>2. Only(h, new)
    BY <1>6 DEF ListPending
  <2> HIDE DEF new
  <2> QED
    BY <1>2, <2>1, <2>2, OnceOnly
<1>7. ReadClaims(h, hook[h]).at # "append" /\ ReadClaims(h, hook[h]).read = {}
  BY <1>2, ReadClaimsAt
<1>8. CASE StatSpool(h)
  <2>1. [hook[h] EXCEPT !.at = "spool"].at = "spool" /\ [hook[h] EXCEPT !.at = "spool"].read = {}
    BY <1>2 DEF HookLocals
  <2> QED
    BY <1>2, <1>7, <1>8, <2>1, OnceOnly DEF StatSpool
<1>9. CASE Lost(h)
  <2> DEFINE new == [hook[h] EXCEPT !.at = hook[h].back, !.take = None, !.stale = FALSE]
  <2>1. CASE hook[h].at = "rename" /\ Only(h, new)
    <3>1. new.at \in {"claims", "pendings"} /\ new.read = {}
      BY <1>2, <2>1 DEF HookLocals, Fits
    <3> HIDE DEF new
    <3> QED
      BY <1>2, <2>1, <3>1, OnceOnly
  <2>2. CASE Only(h, ReadClaims(h, hook[h]))
    BY <1>2, <1>7, <2>2, OnceOnly
  <2> QED
    BY <1>9, <2>1, <2>2 DEF Lost
<1>10. CASE Stamp(h)
  <2> DEFINE new == [hook[h] EXCEPT !.at = hook[h].back, !.take = None]
  <2>1. /\ new \in HookLocals(new.bytes) /\ new.at = hook[h].back /\ new.read = {}
        /\ hook[h].back \in {"claims", "pendings", "spooled"}
    BY <1>2, <1>10 DEF HookLocals, Fits, Stamp
  <2>2. \A g \in File : file'[g].events = file[g].events /\ file'[g].name = file[g].name
    BY <1>2, <1>10 DEF Stamp, FilesOK
  <2>3. /\ To(h, IF new.at = "spooled" THEN ReadClaims(h, new) ELSE new)
        /\ UNCHANGED <<accepted, again, twice>>
    BY <1>10 DEF Stamp
  <2> HIDE DEF new
  <2>4. /\ (IF new.at = "spooled" THEN ReadClaims(h, new) ELSE new).at # "append"
        /\ (IF new.at = "spooled" THEN ReadClaims(h, new) ELSE new).read = {}
    BY <2>1, ReadClaimsAt
  <2> QED
    BY <1>2, <2>2, <2>3, <2>4, OnceUnread
<1> QED
  BY <1>3, <1>4, <1>5, <1>6, <1>8, <1>9, <1>10

LEMMA OnceReading == ASSUME OnceInv, SpoolType', NEW h \in Hook, ReadClaim(h) PROVE OnceInv'
<1>1. PICK path \in hook[h].todo :
         LET events == hook[h].read \cup IF Exists(path) THEN file[path.file].events ELSE {}
             new    == [Past(h, path) EXCEPT !.read = events]
         IN  Only(h, IF new.todo # {} THEN new ELSE Send(h, [new EXCEPT !.unsent = events]))
  BY DEF ReadClaim
<1> DEFINE events == hook[h].read \cup IF Exists(path) THEN file[path.file].events ELSE {}
           new    == [Past(h, path) EXCEPT !.read = events]
           all    == [new EXCEPT !.unsent = events]
<1>2. /\ hook[h] \in HookLocals(hook[h].bytes) /\ Fits(h, hook[h], happened, accepted \cup dropped)
      /\ FilesOK(file, happened) /\ hook[h].at = "read"
  BY SpoolSame DEF OnceInv, ReadClaim
<1>3. path \in Path /\ path.name = h
  BY <1>2, ClaimsAre DEF HookLocals, Fits
<1>4. /\ events \in SUBSET Nat
      /\ \A e \in events : e \in hook[h].read \/ \E f \in File : file[f].name = h /\ e \in file[f].events
  BY <1>2, <1>3 DEF HookLocals, FilesOK, Path, Exists
<1>5. Only(h, new) \/ Only(h, Send(h, all))
  BY <1>1
<1> HIDE DEF events
<1>6. /\ new.at = "read" /\ new.read = events
      /\ all \in HookLocals(all.bytes) /\ all.read = events /\ all.unsent = events
  BY <1>2, <1>4 DEF HookLocals, Past
<1> HIDE DEF new, all
<1>7. /\ Send(h, all).at = IF events = {} THEN "unlink" ELSE "send"
      /\ Send(h, all).read = events
  BY <1>6, SendAt
<1>8. PICK l \in {new, Send(h, all)} : Only(h, l)
  BY <1>5
<1>9. l.read = events /\ l.at \in {"read", "send", "unlink"}
  BY <1>6, <1>7, <1>8
<1>10. ASSUME NEW e \in Nat \ again'
       PROVE  Once(e)'
  <2>1. ~Done(hook[h], e) /\ ~Brings(l, e)
    BY <1>2, <1>9 DEF Done, Brings, Sending
  <2>2. e \in l.read => ToSend(hook[h], e) \/ \E f \in File : file[f].name = h /\ e \in file[f].events
    BY <1>2, <1>4, <1>9 DEF ToSend
  <2>3. ToSend(l, e) \/ ToSend(hook[h], e) => e \in l.read \/ e \in hook[h].read
    BY DEF ToSend
  <2>4. /\ To(h, l) /\ accepted' = accepted /\ again' = again
        /\ \A f \in File : file'[f].name = file[f].name /\ file'[f].events = file[f].events
    BY <1>8 DEF Only
  <2>5. e \in l.read => e \in hook[h].read \/ \E f \in File : e \in file[f].events
    BY <1>4, <1>9
  <2>6. ToSend(l, e) => ToSend(hook[h], e) \/ \E f \in File : file[f].name = h /\ e \in file[f].events
    BY <2>2 DEF ToSend
  <2> QED
    BY <2>1, <2>4, <2>5, <2>6, OnceQuiet
<1> QED
  BY <1>8, <1>10 DEF Only, OnceInv, SentOnce

(* The cloud is given no event again that it has. *)
LEMMA AcceptOnce ==
    ASSUME OnceInv, NEW h \in Hook, hook[h].at = "send", NEW b \in SUBSET hook[h].unsent, Accept(b)
    PROVE  twice' = {}
<1>1. hook[h].unsent \subseteq hook[h].read /\ hook[h].read \subseteq Nat
  BY SpoolSame DEF OnceInv, HookLocals, Fits
<1>2. \A e \in b \ again : e \notin accepted
  <2> SUFFICES ASSUME NEW e \in b \ again PROVE e \notin accepted
    OBVIOUS
  <2>1. ToSend(hook[h], e) /\ e \in Nat \ again
    BY <1>1 DEF ToSend, Sending
  <2> QED
    BY <2>1, UnsentIsNew
<1> QED
  BY <1>2 DEF Accept, OnceInv, SentOnce

(* A hook goes on with what it has read. *)
LEMMA OnceGoesOn ==
    ASSUME OnceInv, SpoolType', NEW h \in Hook, hook[h].at \in {"send", "keep"},
           NEW new, To(h, new), new.read = hook[h].read, new.unsent \subseteq hook[h].unsent,
           new.at \in {"send", "keep", "trim", "unlink"}, UNCHANGED file,
           again \subseteq again', twice' = {},
           accepted' \subseteq accepted \cup again' \cup (hook[h].unsent \ new.unsent)
    PROVE  OnceInv'
<1>1. hook[h].unsent \subseteq hook[h].read
  BY SpoolSame DEF OnceInv, Fits
<1>2. ASSUME NEW e \in Nat \ again'
      PROVE  Once(e)'
  <2>1. Done(hook[h], e) => Done(new, e)
    BY DEF Done, Sending
  <2>2. ~Brings(new, e)
    BY DEF Brings
  <2>3. e \in accepted' => e \in accepted \/ (ToSend(hook[h], e) /\ Done(new, e))
    BY <1>1 DEF ToSend, Done, Sending
  <2>4. ToSend(new, e) => ToSend(hook[h], e)
    BY DEF ToSend, Sending
  <2> QED
    BY <2>1, <2>2, <2>3, <2>4, OnceQuiet
<1> QED
  BY <1>2 DEF OnceInv, SentOnce

LEMMA OncePost == ASSUME OnceInv, SpoolType', NEW h \in Hook, Post(h) \/ PostFails(h) PROVE OnceInv'
<1>1. /\ hook[h] \in HookLocals(hook[h].bytes) /\ hook[h].at = "send" /\ file' = file
  BY SpoolSame DEF OnceInv, Post, PostFails
<1> DEFINE keep(b) == [hook[h] EXCEPT !.at = "keep", !.unsent = Unsent(h, b)]
           rest(b) == [hook[h] EXCEPT !.unsent = @ \ b]
<1>2. PICK b \in Batches(hook[h].unsent) :
         \/ Accept(b) /\ To(h, Sent(h, b)) /\ again' = again
         \/ To(h, Sent(h, b)) /\ UNCHANGED <<accepted, again, twice>>
         \/ To(h, keep(b)) /\ Accept(b) /\ again' = again \cup b
         \/ To(h, keep(b)) /\ UNCHANGED <<accepted, again, twice>>
  <2>1. CASE Post(h)
    BY <2>1 DEF Post
  <2>2. CASE PostFails(h)
    BY <2>2 DEF PostFails
  <2> QED
    BY <2>1, <2>2
<1>3. b \in SUBSET hook[h].unsent
  BY <1>2, BatchesAre
<1>4. twice' = {}
  BY <1>1, <1>2, <1>3, AcceptOnce DEF OnceInv, SentOnce
<1>5. CASE To(h, Sent(h, b)) /\ again' = again /\ (Accept(b) \/ UNCHANGED accepted)
  <2>1. rest(b) \in HookLocals(rest(b).bytes) /\ rest(b).read = hook[h].read /\ rest(b).unsent = hook[h].unsent \ b
    BY <1>1 DEF HookLocals
  <2>2. To(h, Send(h, rest(b)))
    BY <1>5 DEF Sent
  <2> HIDE DEF rest
  <2>3. /\ Send(h, rest(b)).read = hook[h].read /\ Send(h, rest(b)).unsent = hook[h].unsent \ b
        /\ Send(h, rest(b)).at \in {"send", "unlink"}
    BY <2>1, SendAt
  <2>4. accepted' \subseteq accepted \cup (hook[h].unsent \ Send(h, rest(b)).unsent)
    BY <1>3, <1>5, <2>3 DEF Accept
  <2> QED
    BY <1>1, <1>4, <1>5, <2>2, <2>3, <2>4, OnceGoesOn
<1>6. CASE To(h, keep(b)) /\ ((Accept(b) /\ again' = again \cup b) \/ UNCHANGED <<accepted, again>>)
  <2>1. keep(b).at = "keep" /\ keep(b).read = hook[h].read /\ keep(b).unsent = hook[h].unsent
    BY <1>1 DEF HookLocals, Unsent
  <2>2. again \subseteq again' /\ accepted' \subseteq accepted \cup again'
    BY <1>6 DEF Accept
  <2> HIDE DEF keep
  <2> QED
    BY <1>1, <1>4, <1>6, <2>1, <2>2, OnceGoesOn
<1> QED
  BY <1>2, <1>5, <1>6

LEMMA OnceKeep == ASSUME OnceInv, SpoolType', NEW h \in Hook, Keep(h) PROVE OnceInv'
<1> DEFINE new(saved) == [hook[h] EXCEPT !.at = "trim", !.unsent = saved, !.todo = Paths({"pending"}),
                                  !.bytes = Size(Named({"pending"})) + Cardinality(saved)]
<1>1. PICK saved \in SUBSET hook[h].unsent : To(h, new(saved))
  BY DEF Keep
<1>2. new(saved).at = "trim" /\ new(saved).read = hook[h].read /\ new(saved).unsent = saved
  BY SpoolSame DEF OnceInv, HookLocals
<1>3. hook[h].at = "keep" /\ UNCHANGED <<file, accepted, again, twice>> /\ twice' = {}
  BY DEF Keep, OnceInv, SentOnce
<1> HIDE DEF new
<1> QED
  BY <1>1, <1>2, <1>3, OnceGoesOn

(* A file that no flush has claimed goes. *)
LEMMA OnceTrim == ASSUME OnceInv, SpoolType', NEW h \in Hook, Trim(h) PROVE OnceInv'
<1>1. PICK path \in hook[h].todo :
         IF Exists(path)
         THEN /\ file' = [file EXCEPT ![path.file] = NoFile]
              /\ dropped' = dropped \cup file[path.file].events
              /\ To(h, [Past(h, path) EXCEPT !.bytes = @ - Cardinality(file[path.file].events)])
         ELSE To(h, Past(h, path)) /\ UNCHANGED <<file, dropped>>
  BY DEF Trim
<1>2. /\ hook[h] \in HookLocals(hook[h].bytes) /\ Fits(h, hook[h], happened, accepted \cup dropped)
      /\ FilesOK(file, happened) /\ hook[h].at = "trim" /\ UNCHANGED <<accepted, again, twice>>
  BY SpoolSame DEF OnceInv, Trim
<1>3. path.file \in File /\ path.name = "pending" /\ path.name \notin Hook
  BY <1>2, NoneIsNoHook DEF HookLocals, Fits, Path
<1> DEFINE new == [Past(h, path) EXCEPT !.bytes = @ - Cardinality(file[path.file].events)]
<1>4. /\ new.at = "trim" /\ new.read = hook[h].read /\ new.unsent = hook[h].unsent
      /\ Past(h, path).at = "trim" /\ Past(h, path).read = hook[h].read
      /\ Past(h, path).unsent = hook[h].unsent
  BY <1>2 DEF Past, HookLocals
<1>5. PICK l \in {new, Past(h, path)} : To(h, l)
  BY <1>1
<1> HIDE DEF new
<1>6. /\ DOMAIN hook = Hook /\ \A g \in Hook : g # h => hook'[g] = hook[g]
      /\ hook'[h].at = hook[h].at /\ hook'[h].read = hook[h].read /\ hook'[h].unsent = hook[h].unsent
  BY <1>2, <1>4, <1>5 DEF To, OnceInv, SpoolType
<1>7. \A f \in File : \/ file'[f] = file[f]
                      \/ file[f].name \notin Hook /\ file'[f].name = "none" /\ file'[f].events = {}
  <2>1. CASE Exists(path)
    BY <1>1, <1>2, <1>3, <2>1 DEF FilesOK, NoFile, Exists
  <2>2. CASE ~Exists(path)
    BY <1>1, <2>2
  <2> QED
    BY <2>1, <2>2
<1>8. ASSUME NEW e \in Nat \ again'
      PROVE  Once(e)'
  <2>1. \A g \in Hook : /\ Done(hook'[g], e) <=> Done(hook[g], e)
                        /\ ToSend(hook'[g], e) <=> ToSend(hook[g], e)
                        /\ Brings(hook'[g], e) => Brings(hook[g], e)
                        /\ hook'[g].read = hook[g].read
    BY <1>2, <1>6 DEF Done, ToSend, Brings
  <2>2. Once(e) /\ e \in Nat \ again
    BY <1>2, <1>8 DEF OnceInv
  <2>3. \A f \in File : Alive(f, e)' => Alive(f, e)
    BY <1>7, <2>1 DEF Alive
  <2>4. \A f \in File : e \in file'[f].events => e \in file[f].events
    BY <1>7
  <2>5. \A g \in Hook : ToSend(hook'[g], e) => \E f \in File : file'[f].name = g /\ e \in file'[f].events
    BY <1>7, <2>1, <2>2 DEF Once, InOwnFile
  <2> QED
    BY <1>2, <2>1, <2>3, <2>4, <2>5, OnceStep
<1> QED
  BY <1>2, <1>8 DEF OnceInv, SentOnce

LEMMA OnceOpen == ASSUME OnceInv, SpoolType', NEW h \in Hook, OpenPending(h) PROVE OnceInv'
<1> DEFINE new(f) == [hook[h] EXCEPT !.at = "fill", !.open = f, !.todo = {}, !.bytes = 0]
<1>1. PICK f \in New : file' = [file EXCEPT ![f].name = "pending"] /\ To(h, new(f))
  BY DEF OpenPending
<1>2. /\ hook[h] \in HookLocals(hook[h].bytes) /\ FilesOK(file, happened)
      /\ hook[h].at = "trim" /\ UNCHANGED <<accepted, again, twice>>
  BY SpoolSame DEF OnceInv, OpenPending
<1>3. new(f).at = "fill" /\ new(f).read = hook[h].read /\ new(f).unsent = hook[h].unsent
  BY <1>2 DEF HookLocals
<1> HIDE DEF new
<1>4. /\ DOMAIN hook = Hook /\ \A g \in Hook : g # h => hook'[g] = hook[g]
      /\ hook'[h].at = "fill" /\ hook'[h].read = hook[h].read /\ hook'[h].unsent = hook[h].unsent
  BY <1>1, <1>3 DEF To, OnceInv, SpoolType
<1>5. f \in File /\ file[f].name = "none" /\ file[f].events = {}
  BY <1>1, <1>2, NewIs DEF FilesOK
<1>6. /\ \A w \in File : file'[w].events = file[w].events
      /\ \A w \in File : file[w].events # {} => file'[w].name = file[w].name
  BY <1>1, <1>2, <1>5 DEF FilesOK
<1>7. ASSUME NEW e \in Nat \ again'
      PROVE  Once(e)'
  <2>1. \A g \in Hook : /\ Done(hook'[g], e) <=> Done(hook[g], e)
                        /\ ToSend(hook'[g], e) <=> ToSend(hook[g], e)
                        /\ Brings(hook'[g], e) => Brings(hook[g], e)
                        /\ hook'[g].read = hook[g].read
    BY <1>2, <1>4 DEF Done, ToSend, Brings, Sending
  <2>2. Once(e) /\ e \in Nat \ again
    BY <1>2, <1>7 DEF OnceInv
  <2>3. \A w \in File : Alive(w, e)' => Alive(w, e)
    BY <1>6, <2>1 DEF Alive
  <2>4. \A g \in Hook : ToSend(hook'[g], e) => \E w \in File : file'[w].name = g /\ e \in file'[w].events
    BY <1>6, <2>1, <2>2 DEF Once, InOwnFile
  <2> QED
    BY <1>2, <1>6, <2>1, <2>3, <2>4, OnceStep
<1> QED
  BY <1>2, <1>7 DEF OnceInv, SentOnce

(* A claim takes a file from a flush that runs only when it looks abandoned. *)
LEMMA OnceClaim == ASSUME OnceInv, SpoolType', NEW h \in Hook, Claim(h) \/ ClaimSpool(h) PROVE OnceInv'
<1> DEFINE new(f, back) == [hook[h] EXCEPT !.at = "stamp", !.take = [file |-> f, name |-> h], !.back = back,
                                           !.stale = FALSE, !.claimed = @ \cup {f}]
<1>1. /\ hook[h] \in HookLocals(hook[h].bytes) /\ Fits(h, hook[h], happened, accepted \cup dropped)
      /\ FilesOK(file, happened) /\ hook[h].at \in {"rename", "spool"}
  BY SpoolSame DEF OnceInv, Claim, ClaimSpool
<1>2. PICK f, back : f \in File /\ Rename(h, f, back) /\ (file[f].name \in Hook => hook[h].stale)
  <2>1. CASE Claim(h)
    <3>1. hook[h].take.file \in File /\ (hook[h].take.name \in Hook => hook[h].stale)
      BY <1>1, <2>1 DEF Claim, Fits, Path
    <3> QED
      BY <2>1, <3>1 DEF Claim, Exists
  <2>2. CASE ClaimSpool(h)
    BY <2>2, NoneIsNoHook DEF ClaimSpool, Named
  <2> QED
    BY <2>1, <2>2
<1>3. new(f, back).at = "stamp" /\ new(f, back).read = {} /\ hook[h].read = {}
  BY <1>1, UnreadAt DEF HookLocals, OnceInv, Sending
<1>4. /\ To(h, new(f, back)) /\ file' = [file EXCEPT ![f].name = h] /\ UNCHANGED <<accepted, twice>>
      /\ again \subseteq again' /\ (file[f].name \in Hook => file[f].events \subseteq again')
  BY <1>2 DEF Rename
<1> HIDE DEF new
<1>5. /\ DOMAIN hook = Hook /\ \A g \in Hook : g # h => hook'[g] = hook[g]
      /\ hook'[h].at = "stamp" /\ hook'[h].read = {}
  BY <1>3, <1>4 DEF To, OnceInv, SpoolType
<1>6. \A w \in File : /\ file'[w].events = file[w].events
                      /\ file'[w].name = IF w = f THEN h ELSE file[w].name
  BY <1>1, <1>4 DEF FilesOK
<1>7. ASSUME NEW e \in Nat \ again'
      PROVE  Once(e)'
  <2>1. \A g \in Hook : /\ Done(hook'[g], e) <=> Done(hook[g], e)
                        /\ ToSend(hook'[g], e) <=> ToSend(hook[g], e)
                        /\ Brings(hook'[g], e) => Brings(hook[g], e)
                        /\ hook'[g].read = hook[g].read
    BY <1>1, <1>3, <1>5 DEF Done, ToSend, Brings, Sending
  <2>2. Once(e) /\ e \in Nat \ again /\ (e \in file[f].events => file[f].name \notin Hook)
    BY <1>4, <1>7 DEF OnceInv
  <2>3. \A w \in File : Alive(w, e)' => Alive(w, e)
    BY <1>6, <2>1, <2>2 DEF Alive
  <2>4. \A g \in Hook : ToSend(hook'[g], e) => \E w \in File : file'[w].name = g /\ e \in file'[w].events
    BY <1>6, <2>1, <2>2 DEF Once, InOwnFile
  <2> QED
    BY <1>4, <1>6, <2>1, <2>3, <2>4, OnceStep
<1> QED
  BY <1>4, <1>7 DEF OnceInv, SentOnce

LEMMA OnceUnlink == ASSUME OnceInv, SpoolType', NEW h \in Hook, UnlinkClaim(h) PROVE OnceInv'
<1>1. PICK path \in hook[h].todo :
         /\ To(h, IF hook[h].todo = {path} THEN Idle ELSE Past(h, path))
         /\ IF Exists(path)
            THEN /\ file' = [file EXCEPT ![path.file] = NoFile]
                 /\ late' = late \cup (file[path.file].events \ hook[h].read)
            ELSE UNCHANGED <<file, late>>
  BY DEF UnlinkClaim
<1>2. /\ hook[h] \in HookLocals(hook[h].bytes) /\ Fits(h, hook[h], happened, accepted \cup dropped)
      /\ FilesOK(file, happened) /\ hook[h].at = "unlink" /\ UNCHANGED <<accepted, again, twice>>
  BY SpoolSame DEF OnceInv, UnlinkClaim
<1>3. path.file \in File /\ path.name = h
  BY <1>2, ClaimsAre DEF Fits, HookLocals, Path
<1>4. /\ DOMAIN hook = Hook /\ \A g \in Hook : g # h => hook'[g] = hook[g]
      /\ hook'[h] = Idle \/ hook'[h] = Past(h, path)
  BY <1>1 DEF To, OnceInv, SpoolType
<1>5. Past(h, path).at = "unlink" /\ Past(h, path).read = hook[h].read
  BY <1>2 DEF Past, HookLocals
<1>6. \/ hook'[h].at = "unlink" /\ hook'[h].read = hook[h].read
      \/ hook'[h].at = "idle" /\ hook'[h].read = {} /\ \A f \in File : file'[f].name # h
  <2>1. CASE hook'[h] = Past(h, path)
    BY <1>5, <2>1
  <2>2. CASE hook'[h] = Idle
    <3>1. Owns(h, hook'[h], file')
      BY DEF SpoolType
    <3> QED
      BY <2>2, <3>1, IdleIs DEF Owns
  <2> QED
    BY <1>4, <2>1, <2>2
<1>7. \A f \in File : \/ file'[f] = file[f]
                      \/ file[f].name = h /\ file'[f].name = "none" /\ file'[f].events = {}
  <2>1. CASE Exists(path)
    BY <1>1, <1>2, <1>3, <2>1 DEF FilesOK, NoFile, Exists
  <2>2. CASE ~Exists(path)
    BY <1>1, <2>2
  <2> QED
    BY <2>1, <2>2
<1>8. ASSUME NEW e \in Nat \ again'
      PROVE  Once(e)'
  <2>1. Once(e) /\ e \in Nat \ again
    BY <1>2, <1>8 DEF OnceInv
  <2>2. /\ ~ToSend(hook'[h], e) /\ ~Brings(hook'[h], e)
        /\ \A f \in File : file'[f].name = h => (Done(hook[h], e) <=> Done(hook'[h], e))
    BY <1>2, <1>6 DEF ToSend, Brings, Done, Sending
  <2>3. \A f \in File : Alive(f, e)' => Alive(f, e)
    <3> SUFFICES ASSUME NEW f \in File, Alive(f, e)', NEW g \in Hook, file[f].name = g, Done(hook[g], e)
                 PROVE  FALSE
      BY <1>7 DEF Alive
    <3>1. file'[f] = file[f]
      BY <1>7 DEF Alive
    <3>2. Done(hook'[g], e)
      BY <1>4, <2>2, <3>1
    <3> QED
      BY <3>1, <3>2 DEF Alive
  <2>4. \A f \in File : e \in file'[f].events => e \in file[f].events
    BY <1>7
  <2>5. \A g \in Hook : ToSend(hook'[g], e) => \E f \in File : file'[f].name = g /\ e \in file'[f].events
    BY <1>4, <1>7, <2>1, <2>2 DEF Once, InOwnFile
  <2>6. \A g \in Hook : /\ Brings(hook'[g], e) => Brings(hook[g], e)
                        /\ e \in hook'[g].read => e \in hook[g].read
    BY <1>4, <1>6, <2>2
  <2> QED
    BY <1>2, <2>3, <2>4, <2>5, <2>6, OnceStep
<1> QED
  BY <1>2, <1>8 DEF OnceInv, SentOnce

(* What the killed flush had read and not put off may be sent again; the rest is
   in claims that the next flush reads. *)
LEMMA OnceKill == ASSUME OnceInv, SpoolType', NEW h \in Hook, Kill(h) PROVE OnceInv'
<1>1. PICK b \in {{}} \cup IF hook[h].at = "send" THEN Batches(hook[h].unsent) ELSE {} :
         /\ Accept(b)
         /\ again' = again \cup b \cup
                       (hook[h].read \ IF hook[h].at = "unlink" THEN {} ELSE hook[h].unsent)
  BY DEF Kill
<1>2. FilesOK(file, happened) /\ DOMAIN hook = Hook
  BY SpoolSame DEF OnceInv, SpoolType
<1>3. twice' = {}
  <2>1. CASE b = {}
    BY <1>1, <2>1 DEF Accept, OnceInv, SentOnce
  <2>2. CASE b # {}
    <3>1. hook[h].at = "send" /\ b \in SUBSET hook[h].unsent
      BY <1>1, <2>2, BatchesAre
    <3> QED
      BY <1>1, <3>1, AcceptOnce
  <2> QED
    BY <2>1, <2>2
<1>4. hook'[h] = Idle /\ \A g \in Hook : g # h => hook'[g] = LeftTo(h, g)
  BY DEF Kill, LeftTo
<1>5. /\ hook'[h].at = "idle" /\ hook'[h].read = {}
      /\ \A g \in Hook \ {h} : /\ hook'[g].at = hook[g].at /\ hook'[g].read = hook[g].read
                               /\ hook'[g].unsent = hook[g].unsent /\ hook'[g].event = hook[g].event
  BY <1>4, LeftToIs, IdleIs DEF OnceInv
<1>6. \A f \in File : /\ file'[f].events = file[f].events
                      /\ file'[f].name = IF file[f].name = h THEN "left" ELSE file[f].name
  BY <1>2 DEF Kill, FilesOK
<1>7. ASSUME NEW e \in Nat \ again'
      PROVE  Once(e)'
  <2>1. Once(e) /\ e \in Nat \ again
    BY <1>1, <1>7 DEF OnceInv
  <2>2. ~Done(hook[h], e)
    BY <1>1, <1>7 DEF Done, Sending
  <2>3. \A g \in Hook \ {h} : /\ Done(hook'[g], e) <=> Done(hook[g], e)
                              /\ ToSend(hook'[g], e) <=> ToSend(hook[g], e)
                              /\ Brings(hook'[g], e) => Brings(hook[g], e)
    BY <1>5 DEF Done, ToSend, Brings
  <2>4. ~ToSend(hook'[h], e) /\ ~Brings(hook'[h], e)
    BY <1>5 DEF ToSend, Brings
  <2>5. \A f \in File : Alive(f, e)' => Alive(f, e)
    BY <1>6, <2>2, <2>3 DEF Alive
  <2>6. \A g \in Hook : ToSend(hook'[g], e) => \E f \in File : file'[f].name = g /\ e \in file'[f].events
    BY <1>6, <2>1, <2>3, <2>4 DEF Once, InOwnFile
  <2>7. e \in accepted' => e \in accepted
    BY <1>1, <1>7 DEF Accept
  <2>8. \A g \in Hook : /\ Brings(hook'[g], e) => Brings(hook[g], e)
                        /\ e \in hook'[g].read => e \in hook[g].read
    BY <1>5, <2>3, <2>4
  <2> QED
    BY <1>1, <1>6, <2>5, <2>6, <2>7, <2>8, OnceStep
<1> QED
  BY <1>3, <1>7 DEF OnceInv, SentOnce

LEMMA OnceAge == ASSUME OnceInv, SpoolType', NEW f \in File, Age(f) PROVE OnceInv'
<1>1. \A w \in File : file'[w].events = file[w].events /\ file'[w].name = file[w].name
  BY DEF Age, OnceInv, SpoolType, FilesOK
<1>2. UNCHANGED <<hook, accepted, again, twice>>
  BY DEF Age
<1>3. ASSUME NEW e \in Nat \ again'
      PROVE  Once(e)'
  <2>1. Once(e)
    BY <1>2, <1>3 DEF OnceInv
  <2>2. \A w \in File : Alive(w, e)' <=> Alive(w, e)
    BY <1>1, <1>2 DEF Alive
  <2> QED
    BY <1>1, <1>2, <2>1, <2>2 DEF Once, InOneFile, NotYetSent, NowhereElse, InOwnFile
<1> QED
  BY <1>2, <1>3 DEF OnceInv, SentOnce

(* An event is new when it happens. *)
LEMMA OnceCapture == ASSUME OnceInv, SpoolType', NEW h \in Hook, Capture(h) PROVE OnceInv'
<1> DEFINE new(f) == [Idle EXCEPT !.at = "append", !.event = happened + 1, !.open = f]
<1>1. PICK f \in IF Named({"spool"}) # {} THEN Named({"spool"}) ELSE New :
         file' = [file EXCEPT ![f].name = "spool"] /\ To(h, new(f))
  BY DEF Capture
<1>2. /\ new(f).at = "append" /\ new(f).event = happened + 1 /\ new(f).read = {}
      /\ UNCHANGED <<accepted, again, twice>> /\ hook[h].at = "idle" /\ happened \in Nat
  BY IdleIs DEF Capture, OnceInv, SpoolType
<1>3. /\ DOMAIN hook = Hook /\ hook'[h] = new(f) /\ \A g \in Hook : g # h => hook'[g] = hook[g]
  BY <1>1 DEF To, OnceInv, SpoolType
<1> HIDE DEF new
<1>4. FilesOK(file, happened) /\ hook[h].read = {} /\ \A e : ~Done(hook[h], e)
  BY <1>2, UnreadAt, SpoolSame DEF OnceInv, Sending
<1>5. f \in File /\ file[f].name \notin Hook /\ "spool" \notin Hook
  BY <1>1, NewIs, NoneIsNoHook DEF Named
<1>6. \A w \in File : /\ file'[w].events = file[w].events
                      /\ file'[w].name = IF w = f THEN "spool" ELSE file[w].name
  BY <1>1, <1>4, <1>5 DEF FilesOK
<1>7. \A e : ~Done(new(f), e) /\ ~ToSend(new(f), e) /\ (Brings(new(f), e) <=> e = happened + 1)
  BY <1>2 DEF Done, ToSend, Brings
<1>8. ASSUME NEW e \in Nat \ again'
      PROVE  Once(e)'
  <2>1. Once(e)
    BY <1>2, <1>8 DEF OnceInv
  <2>2. CASE e = happened + 1
    <3>1. /\ \A w \in File : e \notin file[w].events
          /\ \A g \in Hook : e \notin hook[g].read /\ ~Brings(hook[g], e)
          /\ e \notin accepted
      <4>1. e \notin 1..happened
        BY <1>2, <2>2
      <4>2. \A g \in Hook : Fits(g, hook[g], happened, accepted \cup dropped)
        BY SpoolSame DEF OnceInv
      <4>3. \A w \in File : e \notin file[w].events
        BY <1>4, <4>1 DEF FilesOK
      <4>4. \A g \in Hook : e \notin hook[g].read /\ ~Brings(hook[g], e)
        BY <4>1, <4>2 DEF Fits, Brings
      <4> QED
        BY <4>1, <4>3, <4>4 DEF OnceInv, SpoolType
    <3>2. \A w \in File : e \notin file'[w].events
      BY <1>6, <3>1
    <3>3. \A g \in Hook : e \notin hook'[g].read /\ (Brings(hook'[g], e) => g = h)
      BY <1>2, <1>3, <3>1
    <3>4. NowhereElse(e)'
      BY <1>2, <3>1, <3>2, <3>3 DEF NowhereElse
    <3> QED
      BY <3>2, <3>3, <3>4 DEF Once, InOneFile, NotYetSent, InOwnFile, Alive, ToSend
  <2>3. CASE e # happened + 1
    <3>1. \A w \in File : Alive(w, e)' => Alive(w, e)
      BY <1>3, <1>4, <1>5, <1>6, <1>7 DEF Alive
    <3>2. \A g \in Hook : /\ Brings(hook'[g], e) => Brings(hook[g], e)
                          /\ e \in hook'[g].read => e \in hook[g].read
      BY <1>2, <1>3, <1>7, <2>3
    <3>3. \A g \in Hook : ToSend(hook'[g], e) => \E w \in File : file'[w].name = g /\ e \in file'[w].events
      BY <1>3, <1>5, <1>6, <1>7, <2>1 DEF Once, InOwnFile
    <3> QED
      BY <1>2, <1>6, <3>1, <3>2, <3>3, OnceStep
  <2> QED
    BY <2>2, <2>3
<1> QED
  BY <1>2, <1>8 DEF OnceInv, SentOnce

LEMMA WriteIs ==
    ASSUME SpoolType, NEW f \in File, NEW events, Write(f, events)
    PROVE  /\ \A w \in File : file'[w].name = file[w].name /\ file[w].events \subseteq file'[w].events
           /\ \A w \in File \ {f} : file'[w].events = file[w].events
           /\ file'[f].events \subseteq file[f].events \cup events
<1>1. CASE file[f].name = "none"
  BY <1>1 DEF Write
<1>2. CASE file[f].name # "none"
  BY <1>2 DEF Write, SpoolType, FilesOK
<1> QED
  BY <1>1, <1>2

LEMMA OnceAppend == ASSUME OnceInv, SpoolType', NEW h \in Hook, AppendEvent(h) PROVE OnceInv'
<1> DEFINE new == [Idle EXCEPT !.at = "due"]
           f   == hook[h].open
<1>1. /\ hook[h].at = "append" /\ f \in File /\ Write(f, {hook[h].event}) /\ To(h, new)
      /\ UNCHANGED <<accepted, again, twice>>
  BY SpoolSame DEF OnceInv, AppendEvent, Fits
<1>2. new.at = "due" /\ new.read = {}
  BY IdleIs
<1>3. DOMAIN hook = Hook /\ hook'[h] = new /\ \A g \in Hook : g # h => hook'[g] = hook[g]
  BY <1>1 DEF To, OnceInv, SpoolType
<1> HIDE DEF new
<1>4. /\ \A w \in File : file'[w].name = file[w].name /\ (w # f => file'[w].events = file[w].events)
      /\ file'[f].events \subseteq file[f].events \cup {hook[h].event}
      /\ \A w \in File : file[w].events \subseteq file'[w].events
  BY <1>1, WriteIs DEF OnceInv
<1>5. \A e : ~Done(new, e) /\ ~ToSend(new, e) /\ ~Brings(new, e) /\ ~Done(hook[h], e) /\ ~ToSend(hook[h], e)
  BY <1>1, <1>2 DEF Done, ToSend, Brings, Sending
<1>6. ASSUME NEW e \in Nat \ again'
      PROVE  Once(e)'
  <2>1. Once(e)
    BY <1>1, <1>6 DEF OnceInv
  <2>2. \A g \in Hook : ToSend(hook'[g], e) => \E w \in File : file'[w].name = g /\ e \in file'[w].events
    BY <1>3, <1>4, <1>5, <2>1 DEF Once, InOwnFile
  <2>3. CASE e = hook[h].event
    <3>1. Brings(hook[h], e)
      BY <1>1, <2>3 DEF Brings
    <3>2. /\ e \notin accepted /\ \A w \in File : e \notin file[w].events
          /\ \A g \in Hook : Brings(hook[g], e) => g = h
      BY <2>1, <3>1 DEF Once, NowhereElse
    <3>3. \A w \in File : e \in file'[w].events => w = f
      BY <1>4, <3>2
    <3>4. InOneFile(e)' /\ NotYetSent(e)'
      BY <1>1, <3>2, <3>3 DEF InOneFile, NotYetSent, Alive
    <3>5. \A g \in Hook : ~Brings(hook'[g], e)
      BY <1>3, <1>5, <3>2
    <3> QED
      BY <2>2, <3>4, <3>5 DEF Once, NowhereElse, InOwnFile
  <2>4. CASE e # hook[h].event
    <3>1. \A w \in File : e \in file'[w].events => e \in file[w].events
      BY <1>4, <2>4
    <3>2. \A w \in File : Alive(w, e)' => Alive(w, e)
      BY <1>3, <1>4, <1>5, <3>1 DEF Alive
    <3>3. \A g \in Hook : /\ Brings(hook'[g], e) => Brings(hook[g], e)
                          /\ e \in hook'[g].read => e \in hook[g].read
      BY <1>2, <1>3, <1>5
    <3> QED
      BY <1>1, <2>2, <3>1, <3>2, <3>3, OnceStep
  <2> QED
    BY <2>3, <2>4
<1> QED
  BY <1>1, <1>6 DEF OnceInv, SentOnce

(* What the cloud did not take is in the claims until it is in the remainder, and
   the claims are done with from then on. *)
LEMMA OnceFill == ASSUME OnceInv, SpoolType', NEW h \in Hook, FillPending(h) PROVE OnceInv'
<1> DEFINE new == [hook[h] EXCEPT !.at = "unlink", !.open = None, !.todo = Claims(h, hook[h].claimed)]
           f   == hook[h].open
<1>1. /\ hook[h] \in HookLocals(hook[h].bytes) /\ hook[h].at = "fill" /\ f \in File
      /\ hook[h].unsent \subseteq hook[h].read
      /\ Write(f, hook[h].unsent) /\ To(h, new) /\ UNCHANGED <<accepted, again, twice>>
  BY SpoolSame DEF OnceInv, FillPending, Fits
<1>2. new.at = "unlink" /\ new.read = hook[h].read
  BY <1>1 DEF HookLocals
<1>3. DOMAIN hook = Hook /\ hook'[h] = new /\ \A g \in Hook : g # h => hook'[g] = hook[g]
  BY <1>1 DEF To, OnceInv, SpoolType
<1> HIDE DEF new
<1>4. /\ \A w \in File : file'[w].name = file[w].name /\ (w # f => file'[w].events = file[w].events)
      /\ file'[f].events \subseteq file[f].events \cup hook[h].unsent
      /\ \A w \in File : file[w].events \subseteq file'[w].events
  BY <1>1, WriteIs DEF OnceInv
<1>5. \A e : ~ToSend(new, e) /\ ~Brings(new, e) /\ (e \in hook[h].read => Done(new, e))
            /\ (Done(hook[h], e) => e \in hook[h].read) /\ ~Brings(hook[h], e)
  BY <1>1, <1>2 DEF Done, ToSend, Brings, Sending
<1>6. ASSUME NEW e \in Nat \ again'
      PROVE  Once(e)'
  <2>1. Once(e) /\ e \in Nat \ again
    BY <1>1, <1>6 DEF OnceInv
  <2>2. \A g \in Hook : ToSend(hook'[g], e) => \E w \in File : file'[w].name = g /\ e \in file'[w].events
    BY <1>3, <1>4, <1>5, <2>1 DEF Once, InOwnFile
  <2>3. CASE e \in hook[h].unsent
    <3>1. ToSend(hook[h], e)
      BY <1>1, <2>3 DEF ToSend, Sending
    <3>2. e \notin accepted /\ \A w \in File : Alive(w, e) => file[w].name = h
      BY <2>1, <3>1, UnsentIsNew
    <3>3. \A w \in File : Alive(w, e)' => w = f
      <4> SUFFICES ASSUME NEW w \in File, Alive(w, e)', w # f PROVE FALSE
        OBVIOUS
      <4>1. e \in file[w].events /\ file'[w].name = file[w].name
        BY <1>4 DEF Alive
      <4>2. CASE Alive(w, e)
        BY <1>1, <1>3, <1>5, <2>3, <3>2, <4>1, <4>2 DEF Alive
      <4>3. CASE ~Alive(w, e)
        BY <1>3, <1>5, <4>1, <4>3 DEF Alive
      <4> QED
        BY <4>2, <4>3
    <3>4. InOneFile(e)' /\ NotYetSent(e)'
      BY <1>1, <3>2, <3>3 DEF InOneFile, NotYetSent
    <3>5. \A g \in Hook : ~Brings(hook'[g], e)
      BY <1>1, <1>3, <1>5, <2>1, <2>3 DEF Once, NowhereElse
    <3> QED
      BY <2>2, <3>4, <3>5 DEF Once, NowhereElse, InOwnFile
  <2>4. CASE e \notin hook[h].unsent
    <3>1. \A w \in File : e \in file'[w].events => e \in file[w].events
      BY <1>4, <2>4
    <3>2. \A w \in File : Alive(w, e)' => Alive(w, e)
      BY <1>3, <1>4, <1>5, <3>1 DEF Alive
    <3>3. \A g \in Hook : /\ Brings(hook'[g], e) => Brings(hook[g], e)
                          /\ e \in hook'[g].read => e \in hook[g].read
      BY <1>2, <1>3, <1>5
    <3> QED
      BY <1>1, <2>2, <3>1, <3>2, <3>3, OnceStep
  <2> QED
    BY <2>3, <2>4
<1> QED
  BY <1>1, <1>6 DEF OnceInv, SentOnce

LEMMA OnceInvInit == SpoolInit => OnceInv
<1> SUFFICES ASSUME SpoolInit PROVE OnceInv
  OBVIOUS
<1>1. SpoolType
  BY SpoolTypeInit
<1>2. \A h \in Hook : hook[h] = Idle
  BY DEF SpoolInit
<1>3. \A f \in File : file[f].events = {}
  BY DEF SpoolInit, NoFile
<1>4. \A e : Once(e)
  BY <1>2, <1>3, IdleIs DEF Once, InOneFile, NotYetSent, NowhereElse, InOwnFile, Alive, ToSend, Brings
<1> QED
  BY <1>1, <1>4 DEF OnceInv, SentOnce, SpoolInit

LEMMA OnceInvNext == OnceInv /\ [SpoolNext]_spoolVars => OnceInv'
<1> SUFFICES ASSUME OnceInv, [SpoolNext]_spoolVars PROVE OnceInv'
  OBVIOUS
<1>1. SpoolType'
  BY SpoolTypeNext DEF OnceInv
<1>2. CASE \E h \in Hook : Capture(h) \/ Stop(h) \/ HookStep(h) \/ Kill(h)
  <2>1. PICK h \in Hook : Capture(h) \/ Stop(h) \/ HookStep(h) \/ Kill(h)
    BY <1>2
  <2>2. CASE Capture(h) \/ Stop(h) \/ Kill(h)
    BY <1>1, <2>2, OnceCapture, OnceListing, OnceKill
  <2>3. CASE HookStep(h)
    BY <1>1, <2>3, OnceAppend, OnceListing, OnceClaim, OnceReading, OncePost, OnceKeep, OnceTrim, OnceOpen,
       OnceFill, OnceUnlink DEF HookStep
  <2> QED
    BY <2>1, <2>2, <2>3
<1>3. CASE \E f \in File : Age(f)
  BY <1>1, <1>3, OnceAge
<1>4. CASE UNCHANGED spoolVars
  BY <1>1, <1>4 DEF spoolVars, OnceInv, SentOnce, Once, InOneFile, NotYetSent, NowhereElse, InOwnFile, Alive
<1> QED
  BY <1>2, <1>3, <1>4 DEF SpoolNext

(* The invariant holds for any number of hooks, files and events. *)
THEOREM OnceInvCorrect == SpoolSpec => []OnceInv
BY OnceInvInit, OnceInvNext, PTL DEF SpoolSpec

(* However many flushes overlap, the cloud is given an event again only after a
   kill, a lost answer, or a flush that looked abandoned. *)
THEOREM SentOnceAlways == SpoolSpec => []SentOnce
<1>1. OnceInv => SentOnce
  BY DEF OnceInv
<1> QED
  BY <1>1, OnceInvCorrect, PTL
=============================================================================
