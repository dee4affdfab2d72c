-------------------------- MODULE SealChainProofs --------------------------
(***************************************************************************)
(* Proofs about SealChain, for any number of sealers, files, events,       *)
(* crashes, torn appends and cleared sessions.                             *)
(*                                                                         *)
(* What a seal holds never needs the lock.  Every seal, and every sealer   *)
(* between its read of the newest seal and its append, carries a head and  *)
(* offsets that agree with the session files (Agrees): what the head       *)
(* folded in lies before the offsets, and nothing else does.  A sealer     *)
(* keeps that agreement while it reads, because it starts from a seal that *)
(* has it, and a seal keeps it while the log grows, because events are     *)
(* new.                                                                    *)
(*                                                                         *)
(* The order of the seals, their one key and the ledger they implement come*)
(* last.  Creating the key file with "wx" leaves one sealer to write the   *)
(* key.  While no two sealers were past acquire together, the one that is  *)
(* there finds the newest seal unchanged when it appends.  The ledger needs*)
(* neither: only that each append is whole.                                *)
(*                                                                         *)
(* The parts of the invariant take the log, the cleared files and the next *)
(* event as parameters, so that a lemma can speak of two states.           *)
(***************************************************************************)
EXTENDS SealChain, SequenceTheorems, WellFoundedInduction, TLAPS

Logs == [File -> Seq(Event \cup {Damage})]

(* Where a sealer with these offsets starts to read f: From, for any log. *)
FromIn(lg, f, offsets) == IF Len(lg[f]) < offsets[f] THEN 0 ELSE offsets[f]

(* What it finds there: EventsBetween, for any log. *)
EventsIn(lg, f, from) == {lg[f][i] : i \in from + 1 .. Len(lg[f])} \ {Damage}

(* Events occur once in the log, and are numbered below the next one. *)
LogOK(lg, nxt) ==
    /\ \A f \in File : \A i \in 1..Len(lg[f]) : lg[f][i] < nxt
    /\ \A f, g \in File : \A i \in 1..Len(lg[f]), j \in 1..Len(lg[g]) :
         lg[f][i] = lg[g][j] /\ lg[f][i] # Damage => f = g /\ i = j

(* The set H of sealed events agrees with the offsets a sealer will start
   from: what it will read is not in H, and what it will not read is. *)
Agrees(H, offsets, lg, clr, nxt) ==
    /\ \A e \in H : e \in Event /\ e < nxt
    /\ \A f \in File : \A i \in 1..Len(lg[f]) :
         FromIn(lg, f, offsets) < i => lg[f][i] \notin H
    /\ \A f \in File \ clr :
         /\ offsets[f] <= Len(lg[f])
         /\ \A i \in 1..offsets[f] : lg[f][i] # Damage => lg[f][i] \in H

Disjoint(head) == \A m, n \in DOMAIN head : m # n => head[m] \cap head[n] = {}

SealOK(s, lg, clr, nxt) ==
    /\ s.seq = Len(s.head)
    /\ Disjoint(s.head)
    /\ Agrees(Folded(s.head), s.offsets, lg, clr, nxt)

JobOK(j, lg, clr, nxt) ==
    /\ SealOK(j.last, lg, clr, nxt)
    /\ j.found \cap Folded(j.last.head) = {}
    /\ Agrees(Folded(j.last.head) \cup j.found, j.offsets, lg, clr, nxt)

(* The invariant. *)
SealsOK == \A i \in DOMAIN seals : SealOK(seals[i].seal, log, cleared, nextEvent)
JobsOK == \A p \in Sealer : JobOK(job[p], log, cleared, nextEvent)
IInv == TypeOK /\ LogOK(log, nextEvent) /\ SealsOK /\ JobsOK

-----------------------------------------------------------------------------
(* Heads and the newest seal. *)

(* A non-empty set of line numbers has a last one, so LastSeal's choice in
   readLastSeal is of a line that is there. *)
LEMMA LastOne ==
    ASSUME NEW n \in Nat, NEW S \in SUBSET (1..n), S # {}
    PROVE  \E i \in S : \A j \in S : j <= i
<1> DEFINE R == OpToRel(<, Nat)
           T == {n - i : i \in S}
<1>1. T \in SUBSET Nat /\ T # {}
  <2>1. \A i \in S : n - i \in Nat
    OBVIOUS
  <2>2. PICK i \in S : TRUE
    OBVIOUS
  <2>3. n - i \in T
    OBVIOUS
  <2> QED
    BY <2>1, <2>3
<1>2. PICK x \in T : \A y \in T : ~ (<<y, x>> \in R)
  <2> HIDE DEF R, T
  <2>1. IsWellFoundedOn(R, Nat)
    BY NatLessThanWellFounded DEF R
  <2> QED
    BY <1>1, <2>1, WFMin
<1>3. \A y \in T : ~(y < x)
  BY <1>1, <1>2 DEF OpToRel
<1>4. PICK i \in S : x = n - i
  OBVIOUS
<1>5. ASSUME NEW j \in S PROVE j <= i
  <2>1. n - j \in T
    OBVIOUS
  <2> HIDE DEF T
  <2>2. ~(n - j < n - i)
    BY <1>3, <1>4, <2>1
  <2> QED
    BY <2>2
<1> QED
  BY <1>5

(* The seal a sealer continues from is the genesis seal or one of the file. *)
LEMMA LastSealKnown ==
    ASSUME TypeOK
    PROVE  LastSeal = Genesis \/ \E i \in DOMAIN seals : LastSeal = seals[i].seal
<1>1. CASE GoodLines = {}
  BY <1>1 DEF LastSeal
<1>2. CASE GoodLines # {}
  <2>1. Len(seals) \in Nat /\ GoodLines \in SUBSET (1..Len(seals))
    BY DEF TypeOK, GoodLines
  <2>2. \E i \in GoodLines : \A j \in GoodLines : j <= i
    BY <1>2, <2>1, LastOne
  <2>3. (CHOOSE i \in GoodLines : \A j \in GoodLines : j <= i) \in GoodLines
    BY <2>2
  <2> QED
    BY <1>2, <2>3 DEF LastSeal, GoodLines
<1> QED
  BY <1>1, <1>2

(* Folding one more set into a head adds its events. *)
LEMMA FoldedAppend ==
    ASSUME NEW h \in Seq(SUBSET Event), NEW S \in SUBSET Event
    PROVE  Folded(Append(h, S)) = Folded(h) \cup S
<1> DEFINE a == Append(h, S)
<1>1. DOMAIN a = 1..Len(h) + 1 /\ DOMAIN h = 1..Len(h) /\ Len(h) \in Nat
  OBVIOUS
<1>2. a[Len(h) + 1] = S /\ \A i \in 1..Len(h) : a[i] = h[i]
  OBVIOUS
<1> HIDE DEF a
<1>3. ASSUME NEW e \in Folded(a) PROVE e \in Folded(h) \cup S
  <2>1. PICK i \in DOMAIN a : e \in a[i]
    BY DEF Folded
  <2>2. CASE i = Len(h) + 1
    BY <1>2, <2>1, <2>2
  <2>3. CASE i \in 1..Len(h)
    BY <1>1, <1>2, <2>1, <2>3 DEF Folded
  <2> QED
    BY <1>1, <2>2, <2>3
<1>4. ASSUME NEW e \in Folded(h) PROVE e \in Folded(a)
  <2>1. PICK i \in DOMAIN h : e \in h[i]
    BY DEF Folded
  <2>2. i \in DOMAIN a /\ e \in a[i]
    BY <1>1, <1>2, <2>1
  <2> QED
    BY <2>2 DEF Folded
<1>5. S \subseteq Folded(a)
  BY <1>1, <1>2 DEF Folded
<1> QED
  BY <1>3, <1>4, <1>5 DEF a

(* A head of pairwise disjoint sets stays so when a set of other events is
   folded in. *)
LEMMA DisjointAppend ==
    ASSUME NEW h \in Seq(SUBSET Event), NEW S \in SUBSET Event,
           Disjoint(h), S \cap Folded(h) = {}
    PROVE  Disjoint(Append(h, S))
<1> DEFINE a == Append(h, S)
<1>1. DOMAIN a = 1..Len(h) + 1 /\ DOMAIN h = 1..Len(h) /\ Len(h) \in Nat
  OBVIOUS
<1>2. a[Len(h) + 1] = S /\ \A i \in 1..Len(h) : a[i] = h[i]
  OBVIOUS
<1>3. \A i \in 1..Len(h) : S \cap h[i] = {}
  BY <1>1 DEF Folded
<1> HIDE DEF a
<1>4. ASSUME NEW m \in DOMAIN a, NEW n \in DOMAIN a, m # n
      PROVE  a[m] \cap a[n] = {}
  <2>1. CASE m = Len(h) + 1
    <3>1. n \in 1..Len(h)
      BY <1>1, <1>4, <2>1
    <3> QED
      BY <1>2, <1>3, <2>1, <3>1
  <2>2. CASE n = Len(h) + 1
    <3>1. m \in 1..Len(h)
      BY <1>1, <1>4, <2>2
    <3> QED
      BY <1>2, <1>3, <2>2, <3>1
  <2>3. CASE m \in 1..Len(h) /\ n \in 1..Len(h)
    BY <1>1, <1>2, <1>4, <2>3 DEF Disjoint
  <2> QED
    BY <1>1, <2>1, <2>2, <2>3
<1> QED
  BY <1>4 DEF Disjoint, a

-----------------------------------------------------------------------------
(* The log grows by one line, or a session is cleared. *)

Grown(lg, f, v) == [lg EXCEPT ![f] = Append(@, v)]

(* A line number of the grown log is one of the old log, or the new one. *)
LEMMA GrownLines ==
    ASSUME NEW lg \in Logs, NEW f \in File, NEW v \in Event \cup {Damage},
           NEW g \in File
    PROVE  /\ Grown(lg, f, v) \in Logs
           /\ Len(lg[g]) \in Nat
           /\ g # f => Grown(lg, f, v)[g] = lg[g]
           /\ g = f => /\ Len(Grown(lg, f, v)[g]) = Len(lg[g]) + 1
                       /\ Grown(lg, f, v)[g][Len(lg[g]) + 1] = v
           /\ \A i \in 1..Len(lg[g]) : Grown(lg, f, v)[g][i] = lg[g][i]
BY DEF Logs, Grown

LEMMA GrowLog ==
    ASSUME NEW lg \in Logs, NEW nxt \in 1..MaxEvents, NEW f \in File, NEW v \in {nxt, Damage},
           LogOK(lg, nxt)
    PROVE  LogOK(Grown(lg, f, v), nxt + 1)
<1> DEFINE lg2 == Grown(lg, f, v)
<1>1. v \in Event \cup {Damage} /\ v < nxt + 1
  BY DEF Event, Damage
<1>2. \A g \in File :
        /\ Len(lg[g]) \in Nat
        /\ g # f => lg2[g] = lg[g]
        /\ g = f => Len(lg2[g]) = Len(lg[g]) + 1 /\ lg2[g][Len(lg[g]) + 1] = v
        /\ \A i \in 1..Len(lg[g]) : lg2[g][i] = lg[g][i]
  BY <1>1, GrownLines
<1>3. \A g \in File : \A i \in 1..Len(lg[g]) : lg[g][i] \in Nat /\ lg[g][i] < nxt
  BY DEF LogOK, Logs, Event, Damage
<1> HIDE DEF lg2
<1>4. \A g \in File : \A i \in 1..Len(lg2[g]) :
        \/ i \in 1..Len(lg[g]) /\ lg2[g][i] = lg[g][i]
        \/ g = f /\ i = Len(lg[f]) + 1 /\ lg2[g][i] = v
  BY <1>2
<1>5. \A g \in File : \A i \in 1..Len(lg2[g]) : lg2[g][i] < nxt + 1
  BY <1>1, <1>3, <1>4
<1>6. ASSUME NEW g \in File, NEW h \in File,
             NEW i \in 1..Len(lg2[g]), NEW j \in 1..Len(lg2[h]),
             lg2[g][i] = lg2[h][j], lg2[g][i] # Damage
      PROVE  g = h /\ i = j
  <2>1. CASE i \in 1..Len(lg[g]) /\ lg2[g][i] = lg[g][i]
    <3>1. CASE j \in 1..Len(lg[h]) /\ lg2[h][j] = lg[h][j]
      <4>1. lg[g][i] = lg[h][j] /\ lg[g][i] # Damage
        BY <1>6, <2>1, <3>1
      <4> QED
        BY <2>1, <3>1, <4>1 DEF LogOK
    <3>2. CASE h = f /\ lg2[h][j] = v
      <4>1. v = nxt
        BY <1>6, <3>2
      <4>2. lg[g][i] = nxt
        BY <1>6, <2>1, <3>2, <4>1
      <4>3. lg[g][i] < nxt /\ nxt \in Int
        BY <1>3, <2>1, BoundAssumption
      <4> QED
        BY <4>2, <4>3
    <3> QED
      BY <1>4, <3>1, <3>2
  <2>2. CASE g = f /\ i = Len(lg[f]) + 1 /\ lg2[g][i] = v
    <3>1. v = nxt
      BY <1>6, <2>2
    <3>2. CASE j \in 1..Len(lg[h]) /\ lg2[h][j] = lg[h][j]
      BY <1>3, <1>6, <2>2, <3>1, <3>2, BoundAssumption
    <3>3. CASE h = f /\ j = Len(lg[f]) + 1
      BY <2>2, <3>3
    <3> QED
      BY <1>4, <3>2, <3>3
  <2> QED
    BY <1>4, <2>1, <2>2
<1> QED
  BY <1>5, <1>6 DEF LogOK, lg2

LEMMA GrowAgrees ==
    ASSUME NEW lg \in Logs, NEW clr, NEW nxt \in 1..MaxEvents,
           NEW f \in File, NEW v \in {nxt, Damage},
           NEW H, NEW offsets \in [File -> Nat], Agrees(H, offsets, lg, clr, nxt)
    PROVE  Agrees(H, offsets, Grown(lg, f, v), clr, nxt + 1)
<1> DEFINE lg2 == Grown(lg, f, v)
<1>1. v \in Event \cup {Damage} /\ v \notin H
  BY DEF Event, Damage, Agrees
<1>2. \A g \in File :
        /\ Len(lg[g]) \in Nat
        /\ g # f => lg2[g] = lg[g]
        /\ g = f => Len(lg2[g]) = Len(lg[g]) + 1 /\ lg2[g][Len(lg[g]) + 1] = v
        /\ \A i \in 1..Len(lg[g]) : lg2[g][i] = lg[g][i]
  BY <1>1, GrownLines
<1> HIDE DEF lg2
<1>3. \A e \in H : e \in Event /\ e < nxt + 1
  BY DEF Agrees, Event
<1>4. ASSUME NEW g \in File, NEW i \in 1..Len(lg2[g]), FromIn(lg2, g, offsets) < i
      PROVE  lg2[g][i] \notin H
  <2>1. offsets[g] \in Nat
    OBVIOUS
  <2>2. CASE i \in 1..Len(lg[g])
    <3>1. FromIn(lg, g, offsets) < i
      BY <1>2, <1>4, <2>1, <2>2 DEF FromIn
    <3> QED
      BY <1>2, <2>2, <3>1 DEF Agrees
  <2>3. CASE g = f /\ i = Len(lg[g]) + 1
    BY <1>1, <1>2, <2>3
  <2> QED
    BY <1>2, <2>2, <2>3
<1>5. ASSUME NEW g \in File \ clr
      PROVE  /\ offsets[g] <= Len(lg2[g])
             /\ \A i \in 1..offsets[g] : lg2[g][i] # Damage => lg2[g][i] \in H
  <2>1. offsets[g] \in Nat /\ offsets[g] <= Len(lg[g])
    BY DEF Agrees
  <2>2. Len(lg[g]) <= Len(lg2[g])
    BY <1>2
  <2>3. \A i \in 1..offsets[g] : i \in 1..Len(lg[g])
    BY <1>2, <2>1
  <2>4. \A i \in 1..offsets[g] : lg2[g][i] # Damage => lg2[g][i] \in H
    BY <1>2, <2>3 DEF Agrees
  <2>5. offsets[g] <= Len(lg2[g])
    BY <1>2, <2>1, <2>2
  <2> QED
    BY <2>4, <2>5
<1> QED
  BY <1>3, <1>4, <1>5 DEF Agrees, lg2

LEMMA ClearAgrees ==
    ASSUME NEW lg \in Logs, NEW clr, NEW nxt, NEW f \in File,
           NEW H, NEW offsets \in [File -> Nat], Agrees(H, offsets, lg, clr, nxt)
    PROVE  Agrees(H, offsets, [lg EXCEPT ![f] = <<>>], clr \cup {f}, nxt)
<1> DEFINE lg2 == [lg EXCEPT ![f] = <<>>]
<1>1. Len(lg2[f]) = 0 /\ \A g \in File : g # f => lg2[g] = lg[g]
  BY DEF Logs
<1> HIDE DEF lg2
<1>2. ASSUME NEW g \in File, NEW i \in 1..Len(lg2[g]), FromIn(lg2, g, offsets) < i
      PROVE  lg2[g][i] \notin H
  <2>1. g # f
    BY <1>1
  <2> QED
    BY <1>1, <1>2, <2>1 DEF Agrees, FromIn
<1> QED
  BY <1>1, <1>2 DEF Agrees, lg2

-----------------------------------------------------------------------------
(* A sealer reads a session file, and appends its seal. *)

LEMMA ScanAgrees ==
    ASSUME NEW lg \in Logs, NEW clr, NEW nxt, LogOK(lg, nxt), NEW H,
           NEW offsets \in [File -> Nat], Agrees(H, offsets, lg, clr, nxt),
           NEW f \in File, NEW to \in Nat,
           \/ to = Len(lg[f])
           \/ to = offsets[f] /\ Len(lg[f]) = FromIn(lg, f, offsets)
    PROVE  /\ EventsIn(lg, f, FromIn(lg, f, offsets)) \cap H = {}
           /\ Agrees(H \cup EventsIn(lg, f, FromIn(lg, f, offsets)),
                     [offsets EXCEPT ![f] = to], lg, clr, nxt)
<1> DEFINE E == EventsIn(lg, f, FromIn(lg, f, offsets))
           o2 == [offsets EXCEPT ![f] = to]
           from == FromIn(lg, f, offsets)
<1>1. /\ from \in Nat /\ Len(lg[f]) \in Nat
      /\ \A i \in from + 1 .. Len(lg[f]) : i \in 1..Len(lg[f]) /\ from < i
  <2>1. Len(lg[f]) \in Nat /\ offsets[f] \in Nat
    BY DEF Logs
  <2> QED
    BY <2>1 DEF FromIn
<1>2. o2[f] = to /\ \A g \in File : g # f => o2[g] = offsets[g]
  OBVIOUS
<1>3. \A e \in E : \E i \in 1..Len(lg[f]) : from < i /\ e = lg[f][i] /\ e # Damage
  BY <1>1 DEF EventsIn
<1>4. \A i \in 1..Len(lg[f]) : from < i /\ lg[f][i] # Damage => lg[f][i] \in E
  BY <1>1 DEF EventsIn
<1> HIDE DEF o2, from, E
<1>5. E \cap H = {}
  <2>1. ASSUME NEW e \in E PROVE e \notin H
    <3>1. PICK i \in 1..Len(lg[f]) : from < i /\ e = lg[f][i]
      BY <1>3
    <3>2. FromIn(lg, f, offsets) < i
      BY <3>1 DEF from
    <3> QED
      BY <3>1, <3>2 DEF Agrees
  <2> QED
    BY <2>1
<1>6. \A e \in H \cup E : e \in Event /\ e < nxt
  <2>1. ASSUME NEW e \in E PROVE e \in Event /\ e < nxt
    <3>1. PICK i \in 1..Len(lg[f]) : e = lg[f][i] /\ e # Damage
      BY <1>3
    <3>2. lg[f][i] \in Event \cup {Damage}
      BY DEF Logs
    <3> QED
      BY <3>1, <3>2 DEF LogOK
  <2> QED
    BY <2>1 DEF Agrees
<1>7. ASSUME NEW g \in File, NEW i \in 1..Len(lg[g]), FromIn(lg, g, o2) < i
      PROVE  lg[g][i] \notin H \cup E
  <2>1. CASE g = f
    <3>1. FromIn(lg, f, o2) = Len(lg[f])
      BY <1>1, <1>2 DEF FromIn, from
    <3> QED
      BY <1>1, <1>7, <2>1, <3>1
  <2>2. CASE g # f
    <3>1. lg[g][i] \notin H
      BY <1>2, <1>7, <2>2 DEF Agrees, FromIn
    <3>2. lg[g][i] \notin E
      BY <1>3, <2>2 DEF LogOK
    <3> QED
      BY <3>1, <3>2
  <2> QED
    BY <2>1, <2>2
<1>8. ASSUME NEW g \in File \ clr
      PROVE  /\ o2[g] <= Len(lg[g])
             /\ \A i \in 1..o2[g] : lg[g][i] # Damage => lg[g][i] \in H \cup E
  <2>1. CASE g # f
    BY <1>2, <2>1 DEF Agrees
  <2>2. CASE g = f
    <3>1. offsets[f] <= Len(lg[f]) /\ from = offsets[f]
      <4>1. offsets[f] <= Len(lg[f])
        BY <2>2 DEF Agrees
      <4> QED
        BY <1>1, <4>1 DEF FromIn, from
    <3>2. o2[f] = Len(lg[f])
      BY <1>2, <3>1 DEF from
    <3>3. ASSUME NEW i \in 1..Len(lg[f]), lg[f][i] # Damage
          PROVE  lg[f][i] \in H \cup E
      <4>1. CASE from < i
        BY <1>4, <3>3, <4>1
      <4>2. CASE i <= from
        BY <1>1, <2>2, <3>1, <3>3, <4>2 DEF Agrees
      <4> QED
        BY <1>1, <4>1, <4>2
    <3> QED
      BY <1>1, <2>2, <3>2, <3>3
  <2> QED
    BY <2>1, <2>2
<1> QED
  BY <1>5, <1>6, <1>7, <1>8 DEF Agrees, o2, E

(* The seal a sealer appends is well formed when what it holds is. *)
LEMMA NewSealOK ==
    ASSUME NEW j \in JobType, NEW lg, NEW clr, NEW nxt, JobOK(j, lg, clr, nxt), NEW k
    PROVE  SealOK([seq |-> j.last.seq + 1, head |-> Append(j.last.head, j.found),
                   offsets |-> j.offsets, key |-> k], lg, clr, nxt)
<1> DEFINE h == j.last.head
           h2 == Append(h, j.found)
<1>1. h \in Seq(SUBSET Event) /\ j.found \in SUBSET Event /\ j.last.seq = Len(h)
  BY DEF JobType, Seal, JobOK, SealOK
<1>2. Len(h2) = Len(h) + 1
  BY <1>1
<1>3. Disjoint(h2)
  BY <1>1, DisjointAppend DEF JobOK, SealOK
<1>4. Agrees(Folded(h2), j.offsets, lg, clr, nxt)
  BY <1>1, FoldedAppend DEF JobOK
<1> QED
  BY <1>1, <1>2, <1>3, <1>4 DEF SealOK

LEMMA GenesisOK ==
    ASSUME NEW lg \in Logs, NEW clr, NEW nxt
    PROVE  SealOK(Genesis, lg, clr, nxt)
<1>1. Folded(<<>>) = {}
  BY DEF Folded
<1>2. Agrees({}, [f \in File |-> 0], lg, clr, nxt)
  BY DEF Agrees, Logs
<1> QED
  BY <1>1, <1>2 DEF Genesis, SealOK, Disjoint

LEMMA NoJobOK ==
    ASSUME NEW lg \in Logs, NEW clr, NEW nxt
    PROVE  JobOK(NoJob, lg, clr, nxt)
<1>1. SealOK(Genesis, lg, clr, nxt)
  BY GenesisOK
<1>2. Folded(Genesis.head) \cup {} = Folded(Genesis.head)
  OBVIOUS
<1> QED
  BY <1>1, <1>2 DEF NoJob, JobOK, SealOK

-----------------------------------------------------------------------------
(* Type correctness. *)

LEMMA GenesisType == Genesis \in Seal /\ NoJob \in JobType
<1>1. <<>> \in Seq(SUBSET Event) /\ [f \in File |-> 0] \in [File -> Nat]
  OBVIOUS
<1>2. Genesis \in Seal
  BY <1>1 DEF Genesis, Seal, Key
<1> QED
  BY <1>2 DEF NoJob, JobType, Seal, Key, Genesis

(* A line of seals.jsonl is a line. *)
LEMMA LineType ==
    ASSUME TypeOK, NEW i \in DOMAIN seals
    PROVE  seals[i] \in [ok : BOOLEAN, seal : Seal]
<1> DEFINE T == [ok : BOOLEAN, seal : Seal]
<1>1. seals \in Seq(T)
  BY DEF TypeOK
<1> HIDE DEF T
<1>2. seals[i] \in T
  BY <1>1
<1> QED
  BY <1>2 DEF T

(* The newest seal is a seal. *)
LEMMA LastSealType == TypeOK => LastSeal \in Seal
<1> SUFFICES ASSUME TypeOK PROVE LastSeal \in Seal
  OBVIOUS
<1>1. CASE LastSeal = Genesis
  BY <1>1, GenesisType
<1>2. CASE \E i \in DOMAIN seals : LastSeal = seals[i].seal
  <2>1. PICK i \in DOMAIN seals : LastSeal = seals[i].seal
    BY <1>2
  <2>2. seals[i] \in [ok : BOOLEAN, seal : Seal]
    BY LineType
  <2> QED
    BY <2>1, <2>2
<1>3. LastSeal = Genesis \/ \E i \in DOMAIN seals : LastSeal = seals[i].seal
  BY LastSealKnown
<1> QED
  BY <1>1, <1>2, <1>3

(* One more line, whole or torn, keeps seals.jsonl a sequence of lines. *)
LEMMA WrittenType ==
    ASSUME TypeOK, NEW line \in [ok : BOOLEAN, seal : Seal]
    PROVE  Written(line) \in Seq([ok : BOOLEAN, seal : Seal]) \ {<<>>}
<1> DEFINE T == [ok : BOOLEAN, seal : Seal]
<1>1. DamagedLine \in T /\ line \in T
  BY GenesisType DEF DamagedLine
<1>2. seals \in Seq(T) /\ unended \in BOOLEAN /\ (unended => seals # <<>>)
  BY DEF TypeOK
<1> HIDE DEF T
<1>3. seals # <<>> => Len(seals) \in 1..Len(seals)
  BY <1>2
<1>4. ASSUME seals # <<>>
      PROVE  /\ [seals EXCEPT ![Len(seals)] = DamagedLine] \in Seq(T)
             /\ [seals EXCEPT ![Len(seals)] = DamagedLine] # <<>>
  <2>1. /\ [seals EXCEPT ![Len(seals)] = DamagedLine] \in Seq(T)
        /\ Len([seals EXCEPT ![Len(seals)] = DamagedLine]) = Len(seals)
    BY <1>1, <1>2, <1>3, <1>4, ExceptSeq
  <2> QED
    BY <1>2, <1>4, <2>1
<1>5. Append(seals, line) \in Seq(T) /\ Append(seals, line) # <<>>
  BY <1>1, <1>2
<1>6. Written(line) \in Seq(T) \ {<<>>}
  BY <1>2, <1>4, <1>5 DEF Written
<1> QED
  BY <1>6 DEF T

(* The seal a sealer appends is a seal. *)
LEMMA NewSealType ==
    ASSUME TypeOK, NEW p \in Sealer
    PROVE  NewSeal(p) \in Seal
<1>1. job[p] \in JobType
  BY DEF TypeOK
<1>2. job[p].last.head \in Seq(SUBSET Event) /\ job[p].last.seq \in Nat
  BY <1>1 DEF JobType, Seal
<1>3. Append(job[p].last.head, job[p].found) \in Seq(SUBSET Event)
  BY <1>1, <1>2 DEF JobType
<1> QED
  BY <1>1, <1>2, <1>3 DEF NewSeal, JobType, Seal

LEMMA TypeInit == Init => TypeOK
<1> SUFFICES ASSUME Init PROVE TypeOK
  OBVIOUS
<1>1. log \in [File -> Seq(Event \cup {Damage})] /\ seals \in Seq([ok : BOOLEAN, seal : Seal])
  BY DEF Init
<1>2. job \in [Sealer -> JobType]
  BY GenesisType DEF Init
<1>3. nextEvent \in 1..MaxEvents + 1 /\ recorded \subseteq 1 .. nextEvent - 1
  BY BoundAssumption DEF Init
<1>4. pc \in [Sealer -> Status] /\ attempt \in [Sealer -> {0, 1}] /\ key \in Key \cup {HalfKey}
  BY DEF Init, Status, Key
<1> QED
  BY <1>1, <1>2, <1>3, <1>4 DEF Init, TypeOK

(* A read of a file ends at its length, or where it began when the file has
   nothing past that place. *)
LEMMA ReadToValue ==
    ASSUME TypeOK, NEW f \in File, NEW offsets \in [File -> Nat],
           NEW to \in ReadTo(f, offsets)
    PROVE  /\ to \in Nat
           /\ \/ to = Len(log[f])
              \/ to = offsets[f] /\ Len(log[f]) = From(f, offsets)
<1>1. Len(log[f]) \in Nat /\ offsets[f] \in Nat
  BY DEF TypeOK
<1> QED
  BY <1>1 DEF ReadTo

LEMMA TypeStep == TypeOK /\ [Next]_vars => TypeOK'
<1> SUFFICES ASSUME TypeOK, [Next]_vars PROVE TypeOK'
  OBVIOUS
<1> USE DEF logVars, lockVars, sealVars
<1>1. ASSUME NEW f \in File, BeginLine(f) PROVE TypeOK'
  BY <1>1 DEF BeginLine, TypeOK
<1>2. ASSUME NEW f \in File, EndLine(f) PROVE TypeOK'
  <2>1. nextEvent \in Event
    BY <1>2 DEF EndLine, TypeOK, Event
  <2>2. log' \in [File -> Seq(Event \cup {Damage})]
    BY <1>2, <2>1 DEF EndLine, TypeOK
  <2>3. nextEvent' \in 1..MaxEvents + 1
    BY <1>2, BoundAssumption DEF EndLine, TypeOK
  <2>4. recorded' \subseteq 1 .. nextEvent' - 1
    BY <1>2, BoundAssumption DEF EndLine, TypeOK
  <2> QED
    BY <1>2, <2>2, <2>3, <2>4 DEF EndLine, TypeOK
<1>3. ASSUME NEW f \in File, EndDamagedLine(f) PROVE TypeOK'
  <2>1. log' \in [File -> Seq(Event \cup {Damage})]
    BY <1>3 DEF EndDamagedLine, TypeOK
  <2>2. nextEvent' \in 1..MaxEvents + 1
    BY <1>3, BoundAssumption DEF EndDamagedLine, TypeOK
  <2>3. recorded' \subseteq 1 .. nextEvent' - 1
    BY <1>3, BoundAssumption DEF EndDamagedLine, TypeOK
  <2> QED
    BY <1>3, <2>1, <2>2, <2>3 DEF EndDamagedLine, TypeOK
<1>4. ASSUME NEW f \in File, ClearSession(f) PROVE TypeOK'
  BY <1>4 DEF ClearSession, TypeOK
<1>5. ASSUME NEW p \in Sealer, Start(p) PROVE TypeOK'
  BY <1>5 DEF Start, Goto, TypeOK, Status
<1>6. ASSUME NEW p \in Sealer, TryCreate(p) PROVE TypeOK'
  BY <1>6 DEF TryCreate, Goto, TypeOK, Status
<1>7. ASSUME NEW p \in Sealer, StatLock(p) PROVE TypeOK'
  BY <1>7 DEF StatLock, Goto, TypeOK, Status
<1>8. ASSUME NEW p \in Sealer, RemoveLock(p) PROVE TypeOK'
  BY <1>8 DEF RemoveLock, NoLock, Goto, TypeOK, Status
<1>9. CASE AgeLock
  BY <1>9 DEF AgeLock, TypeOK
<1>10. ASSUME NEW p \in Sealer, ReadLast(p) PROVE TypeOK'
  <2>1. [NoJob EXCEPT !.last = LastSeal, !.offsets = LastSeal.offsets, !.todo = File] \in JobType
    BY LastSealType, GenesisType DEF JobType, Seal
  <2>2. job' \in [Sealer -> JobType]
    BY <1>10, <2>1 DEF ReadLast, TypeOK
  <2> QED
    BY <1>10, <2>2 DEF ReadLast, Goto, TypeOK, Status
<1>11. ASSUME NEW p \in Sealer, NEW f \in File, Scan(p, f) PROVE TypeOK'
  <2>1. PICK to \in ReadTo(f, job[p].offsets) :
          job' = [job EXCEPT
                   ![p].offsets[f] = to,
                   ![p].found = @ \cup EventsBetween(f, From(f, job[p].offsets), Len(log[f])),
                   ![p].todo = @ \ {f}]
    BY <1>11 DEF Scan
  <2>2. job[p] \in JobType /\ to \in Nat
    BY ReadToValue DEF TypeOK, JobType
  <2>3. EventsBetween(f, From(f, job[p].offsets), Len(log[f])) \subseteq Event
    <3>1. log[f] \in Seq(Event \cup {Damage}) /\ job[p].offsets[f] \in Nat
      BY <2>2 DEF TypeOK, JobType
    <3> QED
      BY <3>1 DEF EventsBetween, From
  <2>4. job' \in [Sealer -> JobType]
    BY <2>1, <2>2, <2>3 DEF JobType, TypeOK
  <2> QED
    BY <1>11, <2>4 DEF Scan, TypeOK
<1>12. ASSUME NEW p \in Sealer, EndScan(p) PROVE TypeOK'
  BY <1>12 DEF EndScan, Goto, TypeOK, Status
<1>13. ASSUME NEW p \in Sealer, ReadKey(p) PROVE TypeOK'
  <2> DEFINE k == IF key = HalfKey THEN NoKey ELSE key
  <2>1. k \in Key /\ job' = [job EXCEPT ![p].signer = k]
    BY <1>13 DEF ReadKey, TypeOK, Key
  <2> HIDE DEF k
  <2>2. job' \in [Sealer -> JobType]
    BY <2>1 DEF TypeOK, JobType
  <2> QED
    BY <1>13, <2>2 DEF ReadKey, Goto, TypeOK, Status
<1>14. ASSUME NEW p \in Sealer, CreateKey(p) PROVE TypeOK'
  BY <1>14 DEF CreateKey, Goto, TypeOK, Status
<1>15. ASSUME NEW p \in Sealer, WriteKey(p) PROVE TypeOK'
  <2>1. job' \in [Sealer -> JobType]
    BY <1>15 DEF WriteKey, TypeOK, JobType, Key
  <2> QED
    BY <1>15, <2>1 DEF WriteKey, Goto, TypeOK, Status, Key
<1>16. ASSUME NEW p \in Sealer, AppendSeal(p) PROVE TypeOK'
  <2>1. SealLine(NewSeal(p)) \in [ok : BOOLEAN, seal : Seal]
    BY NewSealType DEF SealLine
  <2>2. seals' \in Seq([ok : BOOLEAN, seal : Seal])
    BY <1>16, <2>1, WrittenType DEF AppendSeal
  <2> QED
    BY <1>16, <2>2 DEF AppendSeal, Goto, TypeOK, Status
<1>17. ASSUME NEW p \in Sealer, TearSeal(p) PROVE TypeOK'
  <2>1. PICK line \in {SealLine(NewSeal(p)), DamagedLine} : seals' = Written(line)
    BY <1>17 DEF TearSeal
  <2>2. line \in [ok : BOOLEAN, seal : Seal]
    <3>1. SealLine(NewSeal(p)) \in [ok : BOOLEAN, seal : Seal]
      BY NewSealType DEF SealLine
    <3>2. DamagedLine \in [ok : BOOLEAN, seal : Seal]
      BY GenesisType DEF DamagedLine
    <3> QED
      BY <2>1, <3>1, <3>2
  <2>3. seals' \in Seq([ok : BOOLEAN, seal : Seal]) \ {<<>>}
    BY <2>1, <2>2, WrittenType
  <2> QED
    BY <1>17, <2>3 DEF TearSeal, Goto, TypeOK, Status
<1>18. ASSUME NEW p \in Sealer, Release(p) PROVE TypeOK'
  BY <1>18, GenesisType DEF Release, NoLock, Goto, TypeOK, Status
<1>19. ASSUME NEW p \in Sealer, Crash(p) PROVE TypeOK'
  BY <1>19, GenesisType DEF Crash, Goto, TypeOK, Status
<1>20. CASE UNCHANGED vars
  BY <1>20 DEF vars, TypeOK
<1> QED
  BY <1>1, <1>2, <1>3, <1>4, <1>5, <1>6, <1>7, <1>8, <1>9, <1>10, <1>11, <1>12, <1>13,
     <1>14, <1>15, <1>16, <1>17, <1>18, <1>19, <1>20 DEF Next, Run

(* Every variable keeps its type, for any sealers, files and bounds. *)
THEOREM TypeCorrect == Spec => []TypeOK
BY TypeInit, TypeStep, PTL DEF Spec

-----------------------------------------------------------------------------
(* The invariant. *)

LEMMA InitOK == Init => IInv
<1> SUFFICES ASSUME Init PROVE IInv
  OBVIOUS
<1>1. log = [f \in File |-> <<>>] /\ log \in Logs /\ seals = <<>>
  BY DEF Init, Logs
<1>2. LogOK(log, nextEvent)
  BY <1>1 DEF LogOK
<1>3. SealsOK
  BY <1>1 DEF SealsOK
<1>4. JobsOK
  BY <1>1, NoJobOK DEF Init, JobsOK
<1> QED
  BY <1>2, <1>3, <1>4, TypeInit DEF IInv

(* When one more line is in the log, damaged or whole, all that was agreed
   still is. *)
LEMMA GrowKeeps ==
    ASSUME IInv, NEW f \in File, NEW v \in {nextEvent, Damage}, nextEvent \in 1..MaxEvents,
           log' = Grown(log, f, v), nextEvent' = nextEvent + 1,
           UNCHANGED <<cleared, seals, job>>
    PROVE  LogOK(log', nextEvent') /\ SealsOK' /\ JobsOK'
<1>1. log \in Logs /\ LogOK(log, nextEvent)
  BY DEF IInv, TypeOK, Logs
<1>2. LogOK(log', nextEvent')
  BY <1>1, GrowLog
<1>3. ASSUME NEW s \in Seal, SealOK(s, log, cleared, nextEvent)
      PROVE  SealOK(s, log', cleared', nextEvent')
  <2>1. s.offsets \in [File -> Nat]
    BY DEF Seal
  <2>2. Agrees(Folded(s.head), s.offsets, log', cleared', nextEvent')
    BY <1>1, <1>3, <2>1, GrowAgrees DEF SealOK
  <2> QED
    BY <1>3, <2>2 DEF SealOK
<1>4. ASSUME NEW i \in DOMAIN seals PROVE SealOK(seals[i].seal, log', cleared', nextEvent')
  <2>1. seals[i] \in [ok : BOOLEAN, seal : Seal]
    BY LineType DEF IInv
  <2>2. SealOK(seals[i].seal, log, cleared, nextEvent)
    BY DEF IInv, SealsOK
  <2> QED
    BY <1>3, <2>1, <2>2
<1>5. ASSUME NEW p \in Sealer PROVE JobOK(job[p], log', cleared', nextEvent')
  <2>1. job[p].last \in Seal /\ job[p].offsets \in [File -> Nat]
    BY DEF IInv, TypeOK, JobType
  <2>2. JobOK(job[p], log, cleared, nextEvent)
    BY DEF IInv, JobsOK
  <2>3. SealOK(job[p].last, log', cleared', nextEvent')
    BY <1>3, <2>1, <2>2 DEF JobOK
  <2>4. Agrees(Folded(job[p].last.head) \cup job[p].found, job[p].offsets, log', cleared', nextEvent')
    BY <1>1, <2>1, <2>2, GrowAgrees DEF JobOK
  <2> QED
    BY <2>2, <2>3, <2>4 DEF JobOK
<1> QED
  BY <1>2, <1>4, <1>5 DEF SealsOK, JobsOK

(* A cleared session leaves what the other files agree on. *)
LEMMA ClearKeeps ==
    ASSUME IInv, NEW f \in File, ClearSession(f)
    PROVE  LogOK(log', nextEvent') /\ SealsOK' /\ JobsOK'
<1>1. log \in Logs /\ LogOK(log, nextEvent)
  BY DEF IInv, TypeOK, Logs
<1>2. /\ log' = [log EXCEPT ![f] = <<>>]
      /\ cleared' = cleared \cup {f}
      /\ nextEvent' = nextEvent /\ seals' = seals /\ job' = job
  BY DEF ClearSession, sealVars
<1>3. LogOK(log', nextEvent')
  <2>1. Len(log'[f]) = 0 /\ \A g \in File : g # f => log'[g] = log[g]
    BY <1>1, <1>2 DEF Logs
  <2> QED
    BY <1>1, <1>2, <2>1 DEF LogOK
<1>4. ASSUME NEW H, NEW offsets \in [File -> Nat], Agrees(H, offsets, log, cleared, nextEvent)
      PROVE  Agrees(H, offsets, log', cleared', nextEvent')
  BY <1>1, <1>2, <1>4, ClearAgrees
<1>5. ASSUME NEW s \in Seal, SealOK(s, log, cleared, nextEvent)
      PROVE  SealOK(s, log', cleared', nextEvent')
  <2>1. s.offsets \in [File -> Nat]
    BY DEF Seal
  <2> QED
    BY <1>4, <1>5, <2>1 DEF SealOK
<1>6. ASSUME NEW i \in DOMAIN seals PROVE SealOK(seals[i].seal, log', cleared', nextEvent')
  <2>1. seals[i] \in [ok : BOOLEAN, seal : Seal]
    BY LineType DEF IInv
  <2>2. SealOK(seals[i].seal, log, cleared, nextEvent)
    BY DEF IInv, SealsOK
  <2> QED
    BY <1>5, <2>1, <2>2
<1>7. ASSUME NEW p \in Sealer PROVE JobOK(job[p], log', cleared', nextEvent')
  <2>1. job[p].last \in Seal /\ job[p].offsets \in [File -> Nat]
    BY DEF IInv, TypeOK, JobType
  <2>2. JobOK(job[p], log, cleared, nextEvent)
    BY DEF IInv, JobsOK
  <2>3. SealOK(job[p].last, log', cleared', nextEvent')
    BY <1>5, <2>1, <2>2 DEF JobOK
  <2>4. Agrees(Folded(job[p].last.head) \cup job[p].found, job[p].offsets, log', cleared', nextEvent')
    BY <1>4, <2>1, <2>2 DEF JobOK
  <2> QED
    BY <2>2, <2>3, <2>4 DEF JobOK
<1> QED
  BY <1>2, <1>3, <1>6, <1>7 DEF SealsOK, JobsOK

(* The newest seal is as good as those it was chosen from. *)
LEMMA LastSealOK == IInv => SealOK(LastSeal, log, cleared, nextEvent)
<1> SUFFICES ASSUME IInv PROVE SealOK(LastSeal, log, cleared, nextEvent)
  OBVIOUS
<1>1. LastSeal = Genesis \/ \E i \in DOMAIN seals : LastSeal = seals[i].seal
  BY LastSealKnown DEF IInv
<1>2. SealOK(Genesis, log, cleared, nextEvent)
  BY GenesisOK DEF IInv, TypeOK, Logs
<1> QED
  BY <1>1, <1>2 DEF IInv, SealsOK

(* A sealer that continues from the newest seal starts with what it agrees on. *)
LEMMA ReadLastKeeps ==
    ASSUME IInv, NEW p \in Sealer, ReadLast(p)
    PROVE  JobsOK'
<1> DEFINE j == [NoJob EXCEPT !.last = LastSeal, !.offsets = LastSeal.offsets, !.todo = File]
<1>1. j.last = LastSeal /\ j.offsets = LastSeal.offsets /\ j.found = {}
  BY DEF NoJob
<1>2. job' = [job EXCEPT ![p] = j]
  BY DEF ReadLast
<1>3. log' = log /\ cleared' = cleared /\ nextEvent' = nextEvent
  BY DEF ReadLast, logVars
<1> HIDE DEF j
<1>4. JobOK(j, log, cleared, nextEvent)
  <2>1. SealOK(LastSeal, log, cleared, nextEvent)
    BY LastSealOK
  <2>2. Folded(LastSeal.head) \cup {} = Folded(LastSeal.head)
    OBVIOUS
  <2> QED
    BY <1>1, <2>1, <2>2 DEF JobOK, SealOK
<1>5. \A q \in Sealer : job'[q] = IF q = p THEN j ELSE job[q]
  BY <1>2 DEF IInv, TypeOK
<1> QED
  BY <1>3, <1>4, <1>5 DEF IInv, JobsOK

(* Reading a file moves the offsets past exactly the events it finds. *)
LEMMA ScanKeeps ==
    ASSUME IInv, NEW p \in Sealer, NEW f \in File, Scan(p, f)
    PROVE  JobsOK'
<1> DEFINE o == job[p].offsets
           E == EventsBetween(f, From(f, o), Len(log[f]))
<1>1. PICK to \in ReadTo(f, o) :
        job' = [job EXCEPT ![p].offsets[f] = to, ![p].found = @ \cup E, ![p].todo = @ \ {f}]
  BY DEF Scan
<1>2. log' = log /\ cleared' = cleared /\ nextEvent' = nextEvent
  BY DEF Scan, logVars
<1>3. /\ job \in [Sealer -> JobType] /\ o \in [File -> Nat] /\ log \in Logs
      /\ JobOK(job[p], log, cleared, nextEvent) /\ LogOK(log, nextEvent)
  BY DEF IInv, TypeOK, JobType, Logs, JobsOK
<1>4. to \in Nat /\ (to = Len(log[f]) \/ (to = o[f] /\ Len(log[f]) = FromIn(log, f, o)))
  BY <1>3, ReadToValue DEF IInv, From, FromIn
<1>5. E = EventsIn(log, f, FromIn(log, f, o))
  BY DEF EventsBetween, From, EventsIn, FromIn
<1>6. /\ job'[p].last = job[p].last
      /\ job'[p].offsets = [o EXCEPT ![f] = to]
      /\ job'[p].found = job[p].found \cup E
      /\ \A q \in Sealer : q # p => job'[q] = job[q]
  BY <1>1, <1>3 DEF JobType
<1> DEFINE H == Folded(job[p].last.head) \cup job[p].found
<1>7. Agrees(H, o, log, cleared, nextEvent)
  BY <1>3 DEF JobOK
<1> HIDE DEF o, E, H
<1>8. E \cap H = {} /\ Agrees(H \cup E, [o EXCEPT ![f] = to], log, cleared, nextEvent)
  BY <1>3, <1>4, <1>5, <1>7, ScanAgrees
<1>9. H \cup E = Folded(job'[p].last.head) \cup job'[p].found
  BY <1>6 DEF H
<1>10. job'[p].found \cap Folded(job'[p].last.head) = {}
  BY <1>3, <1>6, <1>8 DEF JobOK, H
<1>11. JobOK(job'[p], log, cleared, nextEvent)
  BY <1>3, <1>6, <1>8, <1>9, <1>10 DEF JobOK
<1> QED
  BY <1>2, <1>6, <1>11 DEF IInv, JobsOK

(* A line written to seals.jsonl, whole or torn, is a good seal or damage. *)
LEMMA WrittenKeeps ==
    ASSUME IInv, NEW p \in Sealer, NEW line \in {SealLine(NewSeal(p)), DamagedLine},
           seals' = Written(line), UNCHANGED <<log, cleared, nextEvent>>
    PROVE  SealsOK'
<1>1. SealOK(Genesis, log, cleared, nextEvent)
  BY GenesisOK DEF IInv, TypeOK, Logs
<1>2. SealOK(NewSeal(p), log, cleared, nextEvent)
  <2>1. job[p] \in JobType /\ JobOK(job[p], log, cleared, nextEvent)
    BY DEF IInv, TypeOK, JobsOK
  <2> QED
    BY <2>1, NewSealOK DEF NewSeal
<1>3. SealOK(line.seal, log, cleared, nextEvent)
  BY <1>1, <1>2 DEF SealLine, DamagedLine
<1>4. \A i \in DOMAIN seals : SealOK(seals[i].seal, log, cleared, nextEvent)
  BY DEF IInv, SealsOK
<1>5. seals \in Seq([ok : BOOLEAN, seal : Seal])
  BY DEF IInv, TypeOK
<1>6. ASSUME NEW i \in DOMAIN seals' PROVE SealOK(seals'[i].seal, log, cleared, nextEvent)
  <2>1. CASE unended
    <3>1. i \in DOMAIN seals /\ (seals'[i] = DamagedLine \/ seals'[i] = seals[i])
      BY <2>1, <1>5 DEF Written
    <3> QED
      BY <1>1, <1>4, <3>1 DEF DamagedLine
  <2>2. CASE ~unended
    <3>1. seals'[i] = line \/ (i \in DOMAIN seals /\ seals'[i] = seals[i])
      BY <2>2, <1>5 DEF Written
    <3> QED
      BY <1>3, <1>4, <3>1
  <2> QED
    BY <2>1, <2>2
<1> QED
  BY <1>6 DEF SealsOK

(* A sealer that ends, by itself or killed, is left with no job. *)
LEMMA NoJobKeeps ==
    ASSUME IInv, NEW p \in Sealer, job' = [job EXCEPT ![p] = NoJob],
           UNCHANGED <<log, cleared, nextEvent>>
    PROVE  JobsOK'
<1>1. JobOK(NoJob, log, cleared, nextEvent)
  BY NoJobOK DEF IInv, TypeOK, Logs
<1>2. \A q \in Sealer : job'[q] = IF q = p THEN NoJob ELSE job[q]
  BY DEF IInv, TypeOK
<1> QED
  BY <1>1, <1>2 DEF IInv, JobsOK

(* The key a sealer signs with plays no part in the agreement. *)
LEMMA SignerKeeps ==
    ASSUME IInv, NEW p \in Sealer, NEW k, job' = [job EXCEPT ![p].signer = k],
           UNCHANGED <<log, cleared, nextEvent>>
    PROVE  JobsOK'
<1>1. \A q \in Sealer : /\ job'[q].last = job[q].last
                        /\ job'[q].found = job[q].found
                        /\ job'[q].offsets = job[q].offsets
  BY DEF IInv, TypeOK, JobType
<1> QED
  BY <1>1 DEF IInv, JobsOK, JobOK

LEMMA InvStep == IInv /\ [Next]_vars => IInv'
<1> SUFFICES ASSUME IInv, [Next]_vars PROVE IInv'
  OBVIOUS
<1>1. TypeOK'
  BY TypeStep DEF IInv
<1>2. LogOK(log, nextEvent) /\ SealsOK /\ JobsOK /\ TypeOK
  BY DEF IInv
<1>3. SUFFICES LogOK(log', nextEvent') /\ SealsOK' /\ JobsOK'
  BY <1>1, <1>3 DEF IInv
<1>4. ASSUME UNCHANGED <<log, cleared, nextEvent, seals>>
      PROVE  LogOK(log', nextEvent') /\ SealsOK'
  BY <1>2, <1>4 DEF SealsOK
<1>5. ASSUME UNCHANGED <<log, cleared, nextEvent, job>> PROVE JobsOK'
  BY <1>2, <1>5 DEF JobsOK
<1>6. ASSUME NEW f \in File, BeginLine(f) PROVE LogOK(log', nextEvent') /\ SealsOK' /\ JobsOK'
  BY <1>4, <1>5, <1>6 DEF BeginLine, sealVars
<1>7. ASSUME NEW f \in File, EndLine(f) PROVE LogOK(log', nextEvent') /\ SealsOK' /\ JobsOK'
  <2>1. nextEvent \in 1..MaxEvents /\ log' = Grown(log, f, nextEvent)
    BY <1>2, <1>7, BoundAssumption DEF EndLine, TypeOK, Grown
  <2> QED
    BY <1>7, <2>1, GrowKeeps DEF EndLine, sealVars
<1>8. ASSUME NEW f \in File, EndDamagedLine(f) PROVE LogOK(log', nextEvent') /\ SealsOK' /\ JobsOK'
  <2>1. nextEvent \in 1..MaxEvents /\ log' = Grown(log, f, Damage)
    BY <1>2, <1>8, BoundAssumption DEF EndDamagedLine, TypeOK, Grown
  <2> QED
    BY <1>8, <2>1, GrowKeeps DEF EndDamagedLine, sealVars
<1>9. ASSUME NEW f \in File, ClearSession(f) PROVE LogOK(log', nextEvent') /\ SealsOK' /\ JobsOK'
  BY <1>9, ClearKeeps
<1>10. CASE AgeLock
  BY <1>4, <1>5, <1>10 DEF AgeLock, logVars, sealVars
<1>11. ASSUME NEW p \in Sealer,
              Start(p) \/ TryCreate(p) \/ StatLock(p) \/ RemoveLock(p) \/ EndScan(p) \/ CreateKey(p)
       PROVE  LogOK(log', nextEvent') /\ SealsOK' /\ JobsOK'
  <2>1. UNCHANGED <<log, cleared, nextEvent, seals>>
    BY <1>11 DEF Start, TryCreate, StatLock, RemoveLock, EndScan, CreateKey, logVars, sealVars
  <2>2. UNCHANGED job
    BY <1>11 DEF Start, TryCreate, StatLock, RemoveLock, EndScan, CreateKey
  <2> QED
    BY <1>4, <1>5, <2>1, <2>2
<1>12. ASSUME NEW p \in Sealer, ReadLast(p) PROVE LogOK(log', nextEvent') /\ SealsOK' /\ JobsOK'
  BY <1>4, <1>12, ReadLastKeeps DEF ReadLast, logVars, sealVars
<1>13. ASSUME NEW p \in Sealer, NEW f \in File, Scan(p, f)
       PROVE  LogOK(log', nextEvent') /\ SealsOK' /\ JobsOK'
  BY <1>4, <1>13, ScanKeeps DEF Scan, logVars, sealVars
<1>14. ASSUME NEW p \in Sealer, ReadKey(p) \/ WriteKey(p)
       PROVE  LogOK(log', nextEvent') /\ SealsOK' /\ JobsOK'
  <2>1. UNCHANGED <<log, cleared, nextEvent, seals>>
    BY <1>14 DEF ReadKey, WriteKey, logVars, sealVars
  <2>2. \E k : job' = [job EXCEPT ![p].signer = k]
    BY <1>14 DEF ReadKey, WriteKey
  <2> QED
    BY <1>4, <2>1, <2>2, SignerKeeps
<1>15. ASSUME NEW p \in Sealer, AppendSeal(p) \/ TearSeal(p)
       PROVE  LogOK(log', nextEvent') /\ SealsOK' /\ JobsOK'
  <2>1. UNCHANGED <<log, cleared, nextEvent, job>>
    BY <1>15 DEF AppendSeal, TearSeal, logVars
  <2>2. PICK line \in {SealLine(NewSeal(p)), DamagedLine} : seals' = Written(line)
    BY <1>15 DEF AppendSeal, TearSeal
  <2>3. SealsOK'
    BY <2>1, <2>2, WrittenKeeps
  <2> QED
    BY <1>2, <1>5, <2>1, <2>3
<1>16. ASSUME NEW p \in Sealer, Release(p) \/ Crash(p)
       PROVE  LogOK(log', nextEvent') /\ SealsOK' /\ JobsOK'
  <2>1. UNCHANGED <<log, cleared, nextEvent, seals>> /\ job' = [job EXCEPT ![p] = NoJob]
    BY <1>16 DEF Release, Crash, logVars, sealVars
  <2> QED
    BY <1>4, <2>1, NoJobKeeps
<1>17. CASE UNCHANGED vars
  BY <1>4, <1>5, <1>17 DEF vars, logVars, sealVars
<1> QED
  BY <1>6, <1>7, <1>8, <1>9, <1>10, <1>11, <1>12, <1>13, <1>14, <1>15, <1>16, <1>17
  DEF Next, Run

(* The invariant holds of every reachable state. *)
THEOREM InvCorrect == Spec => []IInv
BY InitOK, InvStep, PTL DEF Spec

-----------------------------------------------------------------------------
(* What follows from it. *)

(* Whatever sealers overlap, die or tear a line, every event that stands
   before the offsets of a seal is folded into that seal's head: the next
   seal, which reads from there, leaves no event behind. *)
THEOREM NothingSkippedAlways == Spec => []NothingSkipped
<1>1. IInv => NothingSkipped
  <2> SUFFICES ASSUME IInv, NEW i \in GoodLines, NEW f \in File \ cleared,
                      NEW e \in EventsBetween(f, 0, seals[i].seal.offsets[f])
               PROVE  e \in Folded(seals[i].seal.head)
    BY DEF NothingSkipped
  <2>1. Agrees(Folded(seals[i].seal.head), seals[i].seal.offsets, log, cleared, nextEvent)
    BY DEF IInv, SealsOK, SealOK, GoodLines
  <2>2. seals[i].seal.offsets[f] \in Nat
    <3>1. seals[i] \in [ok : BOOLEAN, seal : Seal]
      BY LineType DEF IInv, GoodLines
    <3> QED
      BY <3>1 DEF Seal
  <2>3. PICK k \in 1..seals[i].seal.offsets[f] : e = log[f][k] /\ e # Damage
    BY <2>2 DEF EventsBetween
  <2> QED
    BY <2>1, <2>3 DEF Agrees
<1> QED
  BY <1>1, InvCorrect, PTL

(* Along the chain that ends in any seal, no event is folded in twice, and
   the sequence number is the length of that chain. *)
THEOREM SealedOnceAlways == Spec => []SealedOnce
<1>1. IInv => SealedOnce
  BY DEF IInv, SealsOK, SealOK, SealedOnce, GoodLines, Disjoint
<1> QED
  BY <1>1, InvCorrect, PTL

-----------------------------------------------------------------------------
(* One key. *)

(* Between the creation of the key file and its key there is one sealer, and
   a key that was read or signed with is the one in the file. *)
KeyOK ==
    /\ \A p \in Sealer : pc[p] = "wrkey" => key = HalfKey
    /\ \A p, q \in Sealer : pc[p] = "wrkey" /\ pc[q] = "wrkey" => p = q
    /\ \A p \in Sealer : pc[p] = "append" => job[p].signer = key /\ key \in Sealer
    /\ \A i \in GoodLines : seals[i].seal.key = key /\ key \in Sealer

(* The good lines after a write: those that were good, and the one written
   unless it followed an unended line. *)
LEMMA WrittenGood ==
    ASSUME TypeOK, NEW line \in [ok : BOOLEAN, seal : Seal], seals' = Written(line)
    PROVE  /\ unended => /\ GoodLines' = GoodLines \ {Len(seals)}
                         /\ Len(seals') = Len(seals)
           /\ ~unended => /\ GoodLines' = GoodLines \cup (IF line.ok THEN {Len(seals) + 1} ELSE {})
                          /\ seals'[Len(seals) + 1] = line
           /\ \A i \in GoodLines : i \in GoodLines' => seals'[i] = seals[i]
<1> DEFINE T == [ok : BOOLEAN, seal : Seal]
<1>1. seals \in Seq(T) /\ Len(seals) \in Nat /\ DOMAIN seals = 1..Len(seals)
  BY DEF TypeOK
<1>2. ~DamagedLine.ok
  BY DEF DamagedLine
<1>3. CASE unended
  <2>1. seals # <<>> /\ seals' = [seals EXCEPT ![Len(seals)] = DamagedLine]
    BY <1>3 DEF Written, TypeOK
  <2>2. Len(seals) \in 1..Len(seals) /\ DOMAIN seals' = DOMAIN seals /\ Len(seals') = Len(seals)
    BY <1>1, <2>1
  <2>3. \A i \in DOMAIN seals : seals'[i] = IF i = Len(seals) THEN DamagedLine ELSE seals[i]
    BY <1>1, <2>1
  <2> QED
    BY <1>2, <1>3, <2>2, <2>3 DEF GoodLines
<1>4. CASE ~unended
  <2>1. seals' = Append(seals, line)
    BY <1>4 DEF Written
  <2>2. DOMAIN seals' = 1..Len(seals) + 1
    BY <1>1, <2>1
  <2>3. seals'[Len(seals) + 1] = line /\ \A i \in 1..Len(seals) : seals'[i] = seals[i]
    BY <1>1, <2>1
  <2>4. ASSUME NEW i PROVE i \in GoodLines' <=> i \in GoodLines \/ (line.ok /\ i = Len(seals) + 1)
    <3>1. i \in DOMAIN seals' <=> i \in DOMAIN seals \/ i = Len(seals) + 1
      BY <1>1, <2>2
    <3>2. CASE i = Len(seals) + 1
      BY <1>1, <2>2, <2>3, <3>1, <3>2 DEF GoodLines
    <3>3. CASE i # Len(seals) + 1
      BY <1>1, <2>3, <3>1, <3>3 DEF GoodLines
    <3> QED
      BY <3>2, <3>3
  <2>5. \A i \in GoodLines : seals'[i] = seals[i]
    BY <1>1, <2>3 DEF GoodLines
  <2>6. CASE line.ok
    <3>1. GoodLines' = GoodLines \cup {Len(seals) + 1}
      BY <2>4, <2>6
    <3> QED
      BY <1>4, <2>3, <2>5, <2>6, <3>1
  <2>7. CASE ~line.ok
    <3>1. GoodLines' = GoodLines
      BY <2>4, <2>7
    <3> QED
      BY <1>4, <2>3, <2>5, <2>7, <3>1
  <2> QED
    BY <2>6, <2>7
<1> QED
  BY <1>3, <1>4

LEMMA KeyStep == TypeOK /\ KeyOK /\ [Next]_vars => KeyOK'
<1> SUFFICES ASSUME TypeOK, KeyOK, [Next]_vars PROVE KeyOK'
  OBVIOUS
<1> USE SealerAssumption
<1>1. pc \in [Sealer -> Status] /\ job \in [Sealer -> JobType] /\ key \in Key \cup {HalfKey}
  BY DEF TypeOK
<1>2. ASSUME NEW p \in Sealer, NEW l \in Status \ {"wrkey", "append"},
             pc' = [pc EXCEPT ![p] = l], \A q \in Sealer \ {p} : job'[q] = job[q],
             UNCHANGED <<key, seals>>
      PROVE  KeyOK'
  <2>1. \A q \in Sealer : pc'[q] = "wrkey" \/ pc'[q] = "append" => q # p /\ pc'[q] = pc[q]
    BY <1>1, <1>2
  <2> QED
    BY <1>2, <2>1 DEF KeyOK, GoodLines
<1>3. ASSUME UNCHANGED <<key, seals, pc>>, \A q \in Sealer : job'[q].signer = job[q].signer
      PROVE  KeyOK'
  BY <1>3 DEF KeyOK, GoodLines
<1>4. ASSUME NEW f \in File, BeginLine(f) \/ EndLine(f) \/ EndDamagedLine(f) \/ ClearSession(f)
      PROVE  KeyOK'
  BY <1>3, <1>4 DEF BeginLine, EndLine, EndDamagedLine, ClearSession, sealVars
<1>5. CASE AgeLock
  BY <1>3, <1>5 DEF AgeLock, sealVars
<1>6. ASSUME NEW p \in Sealer, Start(p) \/ TryCreate(p) \/ StatLock(p) \/ RemoveLock(p) \/ EndScan(p)
      PROVE  KeyOK'
  <2>1. \E l \in Status \ {"wrkey", "append"} : pc' = [pc EXCEPT ![p] = l]
    BY <1>6 DEF Start, TryCreate, StatLock, RemoveLock, EndScan, Goto, Status
  <2>2. UNCHANGED <<key, seals, job>>
    BY <1>6 DEF Start, TryCreate, StatLock, RemoveLock, EndScan, sealVars
  <2> QED
    BY <1>2, <2>1, <2>2
<1>7. ASSUME NEW p \in Sealer, ReadLast(p) \/ Release(p) \/ Crash(p) PROVE KeyOK'
  <2>1. \E l \in Status \ {"wrkey", "append"} : pc' = [pc EXCEPT ![p] = l]
    BY <1>7 DEF ReadLast, Release, Crash, Goto, Status
  <2>2. UNCHANGED <<key, seals>> /\ \A q \in Sealer \ {p} : job'[q] = job[q]
    BY <1>1, <1>7 DEF ReadLast, Release, Crash, sealVars
  <2> QED
    BY <1>2, <2>1, <2>2
<1>8. ASSUME NEW p \in Sealer, NEW f \in File, Scan(p, f) PROVE KeyOK'
  <2>1. UNCHANGED <<key, seals, pc>>
    BY <1>8 DEF Scan, sealVars
  <2>2. \A q \in Sealer : job'[q].signer = job[q].signer
    BY <1>1, <1>8 DEF Scan, JobType
  <2> QED
    BY <1>3, <2>1, <2>2
<1>9. ASSUME NEW p \in Sealer, ReadKey(p) PROVE KeyOK'
  <2>1. UNCHANGED <<key, seals>> /\ \A q \in Sealer \ {p} : job'[q] = job[q] /\ pc'[q] = pc[q]
    BY <1>1, <1>9 DEF ReadKey, Goto, sealVars
  <2>2. CASE key = NoKey \/ key = HalfKey
    <3>1. \E l \in Status \ {"wrkey", "append"} : pc' = [pc EXCEPT ![p] = l]
      BY <1>9, <2>2 DEF ReadKey, Goto, Status
    <3> QED
      BY <1>2, <2>1, <3>1
  <2>3. CASE key \in Sealer
    <3>1. pc'[p] = "append" /\ job'[p].signer = key
      BY <1>1, <1>9, <2>3 DEF ReadKey, Goto, JobType
    <3> QED
      BY <2>1, <2>3, <3>1 DEF KeyOK, GoodLines
  <2> QED
    BY <1>1, <2>2, <2>3 DEF Key
<1>10. ASSUME NEW p \in Sealer, CreateKey(p) PROVE KeyOK'
  <2>1. UNCHANGED <<seals, job>>
    BY <1>10 DEF CreateKey, sealVars
  <2>2. CASE key = NoKey
    <3>1. key' = HalfKey /\ pc' = [pc EXCEPT ![p] = "wrkey"]
      BY <1>10, <2>2 DEF CreateKey, Goto
    <3>2. \A q \in Sealer : pc'[q] = "wrkey" => q = p
      BY <1>1, <2>2, <3>1 DEF KeyOK
    <3>3. \A q \in Sealer : pc'[q] # "append"
      BY <1>1, <2>2, <3>1 DEF KeyOK
    <3>4. GoodLines' = {}
      BY <2>1, <2>2 DEF KeyOK, GoodLines
    <3> QED
      BY <3>1, <3>2, <3>3, <3>4 DEF KeyOK
  <2>3. CASE key # NoKey
    BY <1>2, <1>10, <2>1, <2>3 DEF CreateKey, Goto, Status
  <2> QED
    BY <2>2, <2>3
<1>11. ASSUME NEW p \in Sealer, WriteKey(p) PROVE KeyOK'
  <2>1. key = HalfKey /\ key' = p /\ seals' = seals
    BY <1>11 DEF WriteKey, KeyOK, sealVars
  <2>2. GoodLines = {} /\ \A q \in Sealer : pc[q] # "append" /\ (pc[q] = "wrkey" => q = p)
    BY <1>11, <2>1 DEF KeyOK, WriteKey
  <2>3. pc'[p] = "append" /\ job'[p].signer = p /\ \A q \in Sealer \ {p} : pc'[q] = pc[q]
    BY <1>1, <1>11 DEF WriteKey, Goto, JobType
  <2>4. GoodLines' = {}
    BY <2>1, <2>2 DEF GoodLines
  <2> QED
    BY <2>1, <2>2, <2>3, <2>4 DEF KeyOK
<1>12. ASSUME NEW p \in Sealer, AppendSeal(p) \/ TearSeal(p) PROVE KeyOK'
  <2>1. PICK line \in {SealLine(NewSeal(p)), DamagedLine} : seals' = Written(line)
    BY <1>12 DEF AppendSeal, TearSeal
  <2>2. /\ pc[p] = "append" /\ pc' = [pc EXCEPT ![p] = "release"]
        /\ UNCHANGED <<key, job>>
    BY <1>12 DEF AppendSeal, TearSeal, Goto
  <2>3. line \in [ok : BOOLEAN, seal : Seal]
    <3>1. SealLine(NewSeal(p)) \in [ok : BOOLEAN, seal : Seal]
      BY NewSealType DEF SealLine
    <3>2. DamagedLine \in [ok : BOOLEAN, seal : Seal]
      BY GenesisType DEF DamagedLine
    <3> QED
      BY <2>1, <3>1, <3>2
  <2>4. line.ok => line.seal.key = key
    BY <2>1, <2>2 DEF SealLine, DamagedLine, NewSeal, KeyOK
  <2>5. key \in Sealer
    BY <2>2 DEF KeyOK
  <2>6. \A i \in GoodLines' : seals'[i].seal.key = key
    <3>1. CASE unended
      BY <2>1, <2>3, <3>1, WrittenGood DEF KeyOK
    <3>2. CASE ~unended
      BY <2>1, <2>3, <2>4, <3>2, WrittenGood DEF KeyOK
    <3> QED
      BY <3>1, <3>2
  <2>7. \A q \in Sealer : pc'[q] = "wrkey" \/ pc'[q] = "append" => pc'[q] = pc[q]
    BY <1>1, <2>2
  <2> QED
    BY <2>2, <2>5, <2>6, <2>7 DEF KeyOK
<1>13. CASE UNCHANGED vars
  BY <1>3, <1>13 DEF vars, sealVars
<1> QED
  BY <1>4, <1>5, <1>6, <1>7, <1>8, <1>9, <1>10, <1>11, <1>12, <1>13 DEF Next, Run

(* Every seal in the file is signed with the key that seal-key.json holds,
   however many sealers found no key at once and whichever of them died. *)
THEOREM OneKeyAlways == Spec => []OneKey
<1>1. Init => KeyOK
  BY DEF Init, KeyOK, GoodLines
<1>2. KeyOK => OneKey
  BY DEF KeyOK, OneKey
<1> QED
  BY <1>1, <1>2, TypeCorrect, KeyStep, PTL DEF Spec

-----------------------------------------------------------------------------
(* One chain. *)

(* Each seal continues from the one before it in the file. *)
Linked ==
    \A i, j \in DOMAIN seals : Neighbours(i, j) =>
        /\ seals[j].seal.seq = seals[i].seal.seq + 1
        /\ \E S \in SUBSET Event : seals[j].seal.head = Append(seals[i].seal.head, S)

(* Past the read of the newest seal, before the append of the next one. *)
Sealing(p) == pc[p] \in {"scan", "key", "mkkey", "wrkey", "append"}

(* One sealer is past acquire, and the seal it read is still the newest. *)
OrderOK ==
    ~overlapped =>
        /\ \A p, q \in Sealer : Holding(p) /\ Holding(q) => p = q
        /\ \A p \in Sealer : Sealing(p) => job[p].last = LastSeal
        /\ Linked

(* The newest seal stands on the good line that has no good line after it. *)
LEMMA LastSealIs ==
    ASSUME TypeOK, NEW i \in GoodLines, \A j \in GoodLines : j <= i
    PROVE  LastSeal = seals[i].seal
<1>1. GoodLines \in SUBSET (1..Len(seals)) /\ Len(seals) \in Nat
  BY DEF TypeOK, GoodLines
<1> DEFINE k == CHOOSE k \in GoodLines : \A j \in GoodLines : j <= k
<1>2. k \in GoodLines /\ \A j \in GoodLines : j <= k
  OBVIOUS
<1>3. k = i
  <2> HIDE DEF k
  <2> QED
    BY <1>1, <1>2
<1> QED
  BY <1>3 DEF LastSeal

(* A line written on top of the newest seal continues the chain. *)
LEMMA WrittenLinked ==
    ASSUME TypeOK, Linked, NEW p \in Sealer, job[p].last = LastSeal,
           NEW line \in {SealLine(NewSeal(p)), DamagedLine}, seals' = Written(line)
    PROVE  Linked'
<1>1. line \in [ok : BOOLEAN, seal : Seal]
  <2>1. SealLine(NewSeal(p)) \in [ok : BOOLEAN, seal : Seal]
    BY NewSealType DEF SealLine
  <2>2. DamagedLine \in [ok : BOOLEAN, seal : Seal]
    BY GenesisType DEF DamagedLine
  <2> QED
    BY <2>1, <2>2
<1>2. GoodLines \in SUBSET (1..Len(seals)) /\ Len(seals) \in Nat /\ DOMAIN seals = 1..Len(seals)
  BY DEF TypeOK, GoodLines
<1> SUFFICES ASSUME NEW i \in GoodLines', NEW j \in GoodLines', i < j,
                    \A k \in GoodLines' : ~(i < k /\ k < j)
             PROVE  /\ seals'[j].seal.seq = seals'[i].seal.seq + 1
                    /\ \E S \in SUBSET Event : seals'[j].seal.head = Append(seals'[i].seal.head, S)
  BY DEF Linked, Neighbours
<1>3. ASSUME NEW a \in GoodLines, NEW b \in GoodLines, a \in GoodLines', b \in GoodLines', a < b,
             \A k \in GoodLines : ~(a < k /\ k < b)
      PROVE  /\ seals'[b].seal.seq = seals'[a].seal.seq + 1
             /\ \E S \in SUBSET Event : seals'[b].seal.head = Append(seals'[a].seal.head, S)
  <2>1. seals'[a] = seals[a] /\ seals'[b] = seals[b]
    BY <1>1, <1>3, WrittenGood
  <2>2. a \in DOMAIN seals /\ b \in DOMAIN seals /\ Neighbours(a, b)
    BY <1>3 DEF Neighbours, GoodLines
  <2> QED
    BY <2>1, <2>2 DEF Linked
<1>4. CASE unended
  <2>1. GoodLines' = GoodLines \ {Len(seals)}
    BY <1>1, <1>4, WrittenGood
  <2>2. ASSUME NEW k \in GoodLines, i < k, k < j PROVE FALSE
    <3>1. j \in GoodLines
      BY <2>1
    <3>2. k \in Int /\ j \in Int /\ Len(seals) \in Int /\ j <= Len(seals) /\ k < j
      BY <1>2, <2>2, <3>1
    <3>3. k # Len(seals)
      BY <3>2
    <3> QED
      BY <2>1, <2>2, <3>3
  <2>3. i \in GoodLines /\ j \in GoodLines
    BY <2>1
  <2> QED
    BY <1>3, <2>2, <2>3
<1>5. CASE ~unended
  <2>1. /\ GoodLines' = GoodLines \cup (IF line.ok THEN {Len(seals) + 1} ELSE {})
        /\ seals'[Len(seals) + 1] = line
    BY <1>1, <1>5, WrittenGood
  <2>2. i \in GoodLines
    BY <1>2, <2>1
  <2>3. \A k \in GoodLines : ~(i < k /\ k < j)
    BY <2>1
  <2>4. CASE j \in GoodLines
    BY <1>3, <2>2, <2>3, <2>4
  <2>5. CASE j = Len(seals) + 1 /\ line.ok
    <3>1. \A k \in GoodLines : k <= i
      BY <1>2, <2>2, <2>3, <2>5
    <3>2. LastSeal = seals[i].seal /\ seals'[i] = seals[i]
      BY <1>1, <2>2, <3>1, LastSealIs, WrittenGood
    <3>3. seals'[j].seal = NewSeal(p)
      BY <2>1, <2>5 DEF SealLine, DamagedLine
    <3>4. job[p].found \in SUBSET Event
      BY DEF TypeOK, JobType
    <3> QED
      BY <3>2, <3>3, <3>4 DEF NewSeal
  <2> QED
    BY <2>1, <2>4, <2>5
<1> QED
  BY <1>4, <1>5

LEMMA OrderStep == TypeOK /\ OrderOK /\ [Next]_vars => OrderOK'
<1> SUFFICES ASSUME TypeOK, OrderOK, [Next]_vars, ~overlapped'
             PROVE  /\ \A p, q \in Sealer : Holding(p)' /\ Holding(q)' => p = q
                    /\ \A p \in Sealer : Sealing(p)' => job'[p].last = LastSeal'
                    /\ Linked'
  BY DEF OrderOK
<1> DEFINE Goal == /\ \A p, q \in Sealer : Holding(p)' /\ Holding(q)' => p = q
                   /\ \A p \in Sealer : Sealing(p)' => job'[p].last = LastSeal'
                   /\ Linked'
<1>1. ~overlapped
  BY DEF vars, Next, Run, BeginLine, EndLine, EndDamagedLine, ClearSession, Start, TryCreate,
         StatLock, RemoveLock, AgeLock, ReadLast, Scan, EndScan, ReadKey, CreateKey, WriteKey,
         AppendSeal, TearSeal, Release, Crash
<1>2. /\ \A p, q \in Sealer : Holding(p) /\ Holding(q) => p = q
      /\ \A p \in Sealer : Sealing(p) => job[p].last = LastSeal
      /\ Linked
  BY <1>1 DEF OrderOK
<1>3. pc \in [Sealer -> Status] /\ job \in [Sealer -> JobType]
  BY DEF TypeOK
<1>4. ASSUME seals' = seals PROVE LastSeal' = LastSeal /\ Linked' = Linked
  BY <1>4 DEF LastSeal, GoodLines, Linked, Neighbours
<1>5. ASSUME seals' = seals,
             \A p \in Sealer : /\ Holding(p)' => Holding(p)
                               /\ Sealing(p)' => Sealing(p) /\ job'[p].last = job[p].last
      PROVE  Goal
  BY <1>2, <1>4, <1>5
<1>6. ASSUME NEW f \in File, BeginLine(f) \/ EndLine(f) \/ EndDamagedLine(f) \/ ClearSession(f)
      PROVE  Goal
  <2>1. UNCHANGED <<seals, pc, job>>
    BY <1>6 DEF BeginLine, EndLine, EndDamagedLine, ClearSession, sealVars
  <2> QED
    BY <1>5, <2>1 DEF Holding, Sealing
<1>7. CASE AgeLock
  <2>1. UNCHANGED <<seals, pc, job>>
    BY <1>7 DEF AgeLock, sealVars
  <2> QED
    BY <1>5, <2>1 DEF Holding, Sealing
<1>8. ASSUME NEW p \in Sealer, Start(p) \/ StatLock(p) \/ RemoveLock(p) \/ Release(p) \/ Crash(p)
      PROVE  Goal
  <2>1. seals' = seals /\ \A q \in Sealer \ {p} : pc'[q] = pc[q] /\ job'[q] = job[q]
    BY <1>3, <1>8 DEF Start, StatLock, RemoveLock, Release, Crash, Goto, sealVars
  <2>2. pc'[p] \in {"open", "idle", "rm"}
    BY <1>3, <1>8 DEF Start, StatLock, RemoveLock, Release, Crash, Goto
  <2> QED
    BY <1>5, <2>1, <2>2 DEF Holding, Sealing
<1>9. ASSUME NEW p \in Sealer, TryCreate(p) PROVE Goal
  <2>1. seals' = seals /\ job' = job /\ \A q \in Sealer \ {p} : pc'[q] = pc[q]
    BY <1>3, <1>9 DEF TryCreate, Goto, sealVars
  <2>2. pc'[p] = "stat" \/ (pc'[p] = "last" /\ \A q \in Sealer \ {p} : ~Holding(q))
    BY <1>3, <1>9 DEF TryCreate, Goto
  <2>3. \A q \in Sealer : Sealing(q)' => Sealing(q) /\ job'[q].last = job[q].last
    BY <2>1, <2>2 DEF Sealing
  <2>4. \A q, r \in Sealer : Holding(q)' /\ Holding(r)' => q = r
    BY <1>2, <2>1, <2>2 DEF Holding
  <2> QED
    BY <1>2, <1>4, <2>1, <2>3, <2>4
<1>10. ASSUME NEW p \in Sealer, ReadLast(p) PROVE Goal
  <2>1. seals' = seals /\ \A q \in Sealer \ {p} : pc'[q] = pc[q] /\ job'[q] = job[q]
    BY <1>3, <1>10 DEF ReadLast, Goto, sealVars
  <2>2. pc[p] = "last" /\ pc'[p] = "scan" /\ job'[p].last = LastSeal
    BY <1>3, <1>10 DEF ReadLast, Goto, NoJob
  <2>3. \A q \in Sealer : Sealing(q)' => job'[q].last = LastSeal
    BY <1>2, <2>1, <2>2 DEF Sealing
  <2>4. \A q \in Sealer : Holding(q)' => Holding(q)
    BY <2>1, <2>2 DEF Holding
  <2> QED
    BY <1>2, <1>4, <2>1, <2>3, <2>4
<1>11. ASSUME NEW p \in Sealer, NEW f \in File, Scan(p, f) PROVE Goal
  <2>1. UNCHANGED <<seals, pc>>
    BY <1>11 DEF Scan, sealVars
  <2>2. \A q \in Sealer : job'[q].last = job[q].last
    BY <1>3, <1>11 DEF Scan, JobType
  <2> QED
    BY <1>5, <2>1, <2>2 DEF Holding, Sealing
<1>12. ASSUME NEW p \in Sealer, EndScan(p) \/ ReadKey(p) \/ CreateKey(p) \/ WriteKey(p)
       PROVE  Goal
  <2>1. seals' = seals /\ \A q \in Sealer \ {p} : pc'[q] = pc[q]
    BY <1>3, <1>12 DEF EndScan, ReadKey, CreateKey, WriteKey, Goto, sealVars
  <2>2. \A q \in Sealer : job'[q].last = job[q].last
    BY <1>3, <1>12 DEF EndScan, ReadKey, CreateKey, WriteKey, JobType
  <2>3. pc[p] \in {"scan", "key", "mkkey", "wrkey"}
    BY <1>12 DEF EndScan, ReadKey, CreateKey, WriteKey
  <2> QED
    BY <1>5, <2>1, <2>2, <2>3 DEF Holding, Sealing
<1>13. ASSUME NEW p \in Sealer, AppendSeal(p) \/ TearSeal(p) PROVE Goal
  <2>1. PICK line \in {SealLine(NewSeal(p)), DamagedLine} : seals' = Written(line)
    BY <1>13 DEF AppendSeal, TearSeal
  <2>2. pc[p] = "append" /\ pc' = [pc EXCEPT ![p] = "release"]
    BY <1>13 DEF AppendSeal, TearSeal, Goto
  <2>3. job[p].last = LastSeal
    BY <1>2, <2>2 DEF Sealing
  <2>4. Linked'
    BY <1>2, <2>1, <2>3, WrittenLinked
  <2>5. \A q \in Sealer : Holding(q)' => Holding(q)
    BY <1>3, <2>2 DEF Holding
  <2>6. \A q \in Sealer : ~Sealing(q)'
    <3>1. ASSUME NEW q \in Sealer, Sealing(q)' PROVE FALSE
      <4>1. q # p /\ pc'[q] = pc[q]
        BY <1>3, <2>2, <3>1 DEF Sealing
      <4>2. Holding(q) /\ Holding(p)
        BY <2>2, <3>1, <4>1 DEF Holding, Sealing
      <4> QED
        BY <1>2, <4>1, <4>2
    <3> QED
      BY <3>1
  <2> QED
    BY <1>2, <2>4, <2>5, <2>6
<1>14. CASE UNCHANGED vars
  BY <1>5, <1>14 DEF vars, sealVars, Holding, Sealing
<1> QED
  BY <1>6, <1>7, <1>8, <1>9, <1>10, <1>11, <1>12, <1>13, <1>14 DEF Next, Run

(* The seals are signed with one key and, while no two sealers were past acquire
   together, each continues from the one before it in the file, whatever died,
   aged or was torn. *)
THEOREM ChainUnforkedAlways == Spec => []ChainUnforked
<1>1. Init => OrderOK
  BY DEF Init, OrderOK, Linked, Holding, Sealing
<1>2. OneKey /\ OrderOK => ChainUnforked
  BY DEF OrderOK, Linked, ChainUnforked
<1>3. Spec => []OrderOK
  BY <1>1, TypeCorrect, OrderStep, PTL DEF Spec
<1> QED
  BY <1>2, <1>3, OneKeyAlways, PTL

-----------------------------------------------------------------------------
(* The ledger. *)

(* What was found was recorded, a sealer past its scan found something, and
   the seal it continues from is in the file. *)
FoundOK ==
    /\ unended = FALSE
    /\ \A f \in File : \A i \in 1..Len(log[f]) : log[f][i] # Damage => log[f][i] \in recorded
    /\ \A p \in Sealer :
         /\ job[p].found \subseteq recorded
         /\ pc[p] \in {"key", "mkkey", "wrkey", "append"} => job[p].found # {}
         /\ job[p].last.head \in Heads \cup {<<>>}

LEMMA LastSealHead == TypeOK => LastSeal.head \in Heads \cup {<<>>}
<1> SUFFICES ASSUME TypeOK PROVE LastSeal.head \in Heads \cup {<<>>}
  OBVIOUS
<1>1. CASE GoodLines = {}
  BY <1>1 DEF LastSeal, Genesis
<1>2. CASE GoodLines # {}
  <2>1. Len(seals) \in Nat /\ GoodLines \in SUBSET (1..Len(seals))
    BY DEF TypeOK, GoodLines
  <2>2. \E i \in GoodLines : \A j \in GoodLines : j <= i
    BY <1>2, <2>1, LastOne
  <2>3. PICK i \in GoodLines : \A j \in GoodLines : j <= i
    BY <2>2
  <2>4. LastSeal = seals[i].seal
    BY <2>3, LastSealIs
  <2> QED
    BY <2>4 DEF Heads
<1> QED
  BY <1>1, <1>2

(* A whole line adds its head to those that are there. *)
LEMMA AppendHeads ==
    ASSUME TypeOK, ~unended, NEW p \in Sealer, seals' = Written(SealLine(NewSeal(p)))
    PROVE  Heads' = Heads \cup {NewSeal(p).head}
<1> DEFINE line == SealLine(NewSeal(p))
<1>1. line \in [ok : BOOLEAN, seal : Seal] /\ line.ok /\ line.seal = NewSeal(p)
  BY NewSealType DEF SealLine
<1> HIDE DEF line
<1>2. /\ GoodLines' = GoodLines \cup {Len(seals) + 1}
      /\ seals'[Len(seals) + 1] = line
      /\ \A i \in GoodLines : seals'[i] = seals[i]
  <2>1. seals' = Written(line)
    BY DEF line
  <2> QED
    BY <1>1, <2>1, WrittenGood
<1>3. ASSUME NEW h \in Heads' PROVE h \in Heads \cup {NewSeal(p).head}
  <2>1. PICK i \in GoodLines' : h = seals'[i].seal.head
    BY DEF Heads
  <2> QED
    BY <1>1, <1>2, <2>1 DEF Heads
<1>4. ASSUME NEW h \in Heads PROVE h \in Heads'
  <2>1. PICK i \in GoodLines : h = seals[i].seal.head
    BY DEF Heads
  <2>2. i \in GoodLines' /\ h = seals'[i].seal.head
    BY <1>2, <2>1
  <2> QED
    BY <2>2 DEF Heads
<1>5. NewSeal(p).head \in Heads'
  <2>1. Len(seals) + 1 \in GoodLines' /\ seals'[Len(seals) + 1].seal = NewSeal(p)
    BY <1>1, <1>2
  <2> QED
    BY <2>1 DEF Heads
<1> QED
  BY <1>3, <1>4, <1>5

LEMMA FoundStep == MaxTears = 0 /\ IInv /\ FoundOK /\ [Next]_vars => FoundOK'
<1> SUFFICES ASSUME MaxTears = 0, IInv, FoundOK, [Next]_vars PROVE FoundOK'
  OBVIOUS
<1>1. /\ TypeOK /\ log \in Logs /\ pc \in [Sealer -> Status] /\ job \in [Sealer -> JobType]
  BY DEF IInv, TypeOK, Logs
<1>2. ASSUME UNCHANGED <<log, recorded, seals, unended>>,
             \A q \in Sealer :
               /\ job'[q].found \subseteq recorded
               /\ pc'[q] \in {"key", "mkkey", "wrkey", "append"} => job'[q].found # {}
               /\ job'[q].last.head \in Heads \cup {<<>>}
      PROVE  FoundOK'
  <2>1. Heads' = Heads
    BY <1>2 DEF Heads, GoodLines
  <2> QED
    BY <1>2, <2>1 DEF FoundOK
<1>3. ASSUME UNCHANGED <<seals, unended, pc, job>>, recorded \subseteq recorded',
             \A f \in File : \A i \in 1..Len(log'[f]) : log'[f][i] # Damage => log'[f][i] \in recorded'
      PROVE  FoundOK'
  <2>1. Heads' = Heads
    BY <1>3 DEF Heads, GoodLines
  <2> QED
    BY <1>3, <2>1 DEF FoundOK
<1>4. ASSUME NEW f \in File, BeginLine(f) PROVE FoundOK'
  BY <1>3, <1>4 DEF BeginLine, sealVars, FoundOK
<1>5. ASSUME NEW f \in File, NEW v \in {nextEvent, Damage}, nextEvent \in Event,
             log' = Grown(log, f, v), recorded' = recorded \cup ({v} \ {Damage}),
             UNCHANGED <<seals, unended, pc, job>>
      PROVE  FoundOK'
  <2>1. \A g \in File : \A i \in 1..Len(log'[g]) :
          (i \in 1..Len(log[g]) /\ log'[g][i] = log[g][i]) \/ log'[g][i] = v
    <3>1. v \in Event \cup {Damage}
      BY <1>5
    <3>2. \A g \in File : /\ Len(log[g]) \in Nat
                          /\ g # f => log'[g] = log[g]
                          /\ g = f => /\ Len(log'[g]) = Len(log[g]) + 1
                                      /\ log'[g][Len(log[g]) + 1] = v
                          /\ \A i \in 1..Len(log[g]) : log'[g][i] = log[g][i]
      BY <1>1, <1>5, <3>1, GrownLines
    <3> QED
      BY <3>2
  <2>2. \A g \in File : \A i \in 1..Len(log'[g]) : log'[g][i] # Damage => log'[g][i] \in recorded'
    BY <1>5, <2>1 DEF FoundOK
  <2> QED
    BY <1>3, <1>5, <2>2
<1>6. ASSUME NEW f \in File, EndLine(f) PROVE FoundOK'
  <2>1. nextEvent \in Event /\ nextEvent # Damage
    BY <1>1, <1>6, BoundAssumption DEF EndLine, TypeOK, Event, Damage
  <2>2. {nextEvent} \ {Damage} = {nextEvent}
    BY <2>1
  <2>3. log' = Grown(log, f, nextEvent) /\ recorded' = recorded \cup ({nextEvent} \ {Damage})
    BY <1>6, <2>2 DEF EndLine, Grown
  <2> QED
    BY <1>5, <1>6, <2>1, <2>3 DEF EndLine, sealVars
<1>7. ASSUME NEW f \in File, EndDamagedLine(f) PROVE FoundOK'
  <2>1. nextEvent \in Event
    BY <1>1, <1>7, BoundAssumption DEF EndDamagedLine, TypeOK, Event
  <2>2. log' = Grown(log, f, Damage) /\ recorded' = recorded \cup ({Damage} \ {Damage})
    BY <1>7 DEF EndDamagedLine, Grown
  <2> QED
    BY <1>5, <1>7, <2>1, <2>2 DEF EndDamagedLine, sealVars
<1>8. ASSUME NEW f \in File, ClearSession(f) PROVE FoundOK'
  <2>1. Len(log'[f]) = 0 /\ \A g \in File : g # f => log'[g] = log[g]
    BY <1>1, <1>8 DEF ClearSession, Logs
  <2>2. \A g \in File : \A i \in 1..Len(log'[g]) : log'[g][i] # Damage => log'[g][i] \in recorded
    BY <2>1 DEF FoundOK
  <2> QED
    BY <1>3, <1>8, <2>2 DEF ClearSession, sealVars
<1>9. CASE AgeLock
  BY <1>2, <1>9 DEF AgeLock, logVars, sealVars, FoundOK
<1>10. ASSUME NEW p \in Sealer, Start(p) \/ TryCreate(p) \/ StatLock(p) \/ RemoveLock(p) PROVE FoundOK'
  <2>1. UNCHANGED <<log, recorded, seals, unended, job>>
    BY <1>10 DEF Start, TryCreate, StatLock, RemoveLock, logVars, sealVars
  <2>2. \A q \in Sealer : pc'[q] \in {"key", "mkkey", "wrkey", "append"} => pc'[q] = pc[q]
    BY <1>1, <1>10 DEF Start, TryCreate, StatLock, RemoveLock, Goto
  <2> QED
    BY <1>2, <2>1, <2>2 DEF FoundOK
<1>11. ASSUME NEW p \in Sealer, ReadLast(p) PROVE FoundOK'
  <2>1. UNCHANGED <<log, recorded, seals, unended>>
    BY <1>11 DEF ReadLast, logVars, sealVars
  <2>2. /\ pc'[p] = "scan" /\ job'[p].found = {} /\ job'[p].last = LastSeal
        /\ \A q \in Sealer \ {p} : pc'[q] = pc[q] /\ job'[q] = job[q]
    BY <1>1, <1>11 DEF ReadLast, Goto, NoJob
  <2>3. LastSeal.head \in Heads \cup {<<>>}
    BY <1>1, LastSealHead
  <2> QED
    BY <1>2, <2>1, <2>2, <2>3 DEF FoundOK
<1>12. ASSUME NEW p \in Sealer, NEW f \in File, Scan(p, f) PROVE FoundOK'
  <2> DEFINE E == EventsBetween(f, From(f, job[p].offsets), Len(log[f]))
  <2>1. UNCHANGED <<log, recorded, seals, unended, pc>> /\ pc[p] = "scan"
    BY <1>12 DEF Scan, logVars, sealVars
  <2>2. /\ job'[p].found = job[p].found \cup E /\ job'[p].last = job[p].last
        /\ \A q \in Sealer \ {p} : job'[q] = job[q]
    BY <1>1, <1>12 DEF Scan, JobType
  <2>3. E \subseteq recorded
    <3>1. From(f, job[p].offsets) \in Nat
      BY <1>1 DEF From, JobType
    <3> QED
      BY <3>1 DEF EventsBetween, FoundOK
  <2> HIDE DEF E
  <2> QED
    BY <1>2, <2>1, <2>2, <2>3 DEF FoundOK
<1>13. ASSUME NEW p \in Sealer, EndScan(p) \/ ReadKey(p) \/ CreateKey(p) \/ WriteKey(p)
       PROVE  FoundOK'
  <2>1. UNCHANGED <<log, recorded, seals, unended>>
    BY <1>13 DEF EndScan, ReadKey, CreateKey, WriteKey, logVars, sealVars
  <2>2. \A q \in Sealer : job'[q].found = job[q].found /\ job'[q].last = job[q].last
    <3>1. CASE EndScan(p) \/ CreateKey(p)
      BY <3>1 DEF EndScan, CreateKey
    <3>2. CASE ReadKey(p)
      BY <1>1, <3>2 DEF ReadKey, JobType
    <3>3. CASE WriteKey(p)
      BY <1>1, <3>3 DEF WriteKey, JobType
    <3> QED
      BY <1>13, <3>1, <3>2, <3>3
  <2>3. \A q \in Sealer \ {p} : pc'[q] = pc[q]
    BY <1>1, <1>13 DEF EndScan, ReadKey, CreateKey, WriteKey, Goto
  <2>4. pc'[p] \in {"key", "mkkey", "wrkey", "append"} => job[p].found # {}
    BY <1>1, <1>13 DEF EndScan, ReadKey, CreateKey, WriteKey, Goto, FoundOK
  <2> QED
    BY <1>2, <2>1, <2>2, <2>3, <2>4 DEF FoundOK
<1>14. ASSUME NEW p \in Sealer, AppendSeal(p) PROVE FoundOK'
  <2>1. Heads' = Heads \cup {NewSeal(p).head}
    BY <1>1, <1>14, AppendHeads DEF AppendSeal, FoundOK
  <2>2. UNCHANGED <<log, recorded, job>> /\ unended' = FALSE
    BY <1>14 DEF AppendSeal, logVars
  <2>3. \A q \in Sealer : pc'[q] \in {"key", "mkkey", "wrkey", "append"} => pc'[q] = pc[q]
    BY <1>1, <1>14 DEF AppendSeal, Goto
  <2> QED
    BY <2>1, <2>2, <2>3 DEF FoundOK
<1>15. ASSUME NEW p \in Sealer, TearSeal(p) PROVE FALSE
  BY <1>1, <1>15 DEF TearSeal, TypeOK
<1>16. ASSUME NEW p \in Sealer, Release(p) \/ Crash(p) PROVE FoundOK'
  <2>1. UNCHANGED <<log, recorded, seals, unended>>
    BY <1>16 DEF Release, Crash, logVars, sealVars
  <2>2. /\ pc'[p] = "idle" /\ job'[p] = NoJob
        /\ \A q \in Sealer \ {p} : pc'[q] = pc[q] /\ job'[q] = job[q]
    BY <1>1, <1>16 DEF Release, Crash, Goto
  <2>3. NoJob.found = {} /\ NoJob.last.head = <<>>
    BY DEF NoJob, Genesis
  <2> QED
    BY <1>2, <2>1, <2>2, <2>3 DEF FoundOK
<1>17. CASE UNCHANGED vars
  BY <1>2, <1>17 DEF vars, logVars, sealVars, FoundOK
<1> QED
  BY <1>4, <1>6, <1>7, <1>8, <1>9, <1>10, <1>11, <1>12, <1>13, <1>14, <1>15, <1>16, <1>17
  DEF Next, Run

(* An event that is recorded, a line that is appended, or nothing the ledger
   can see. *)
LEMMA LedgerStep ==
    MaxTears = 0 /\ IInv /\ FoundOK /\ [Next]_vars => [Ledger!Next]_(Ledger!vars)
<1> SUFFICES ASSUME MaxTears = 0, IInv, FoundOK, [Next]_vars
             PROVE  Ledger!Record \/ Ledger!Extend \/ UNCHANGED <<recorded, Heads>>
  BY DEF Ledger!Next, Ledger!vars
<1>1. TypeOK
  BY DEF IInv
<1>2. ASSUME UNCHANGED <<recorded, seals>> PROVE UNCHANGED <<recorded, Heads>>
  BY <1>2 DEF Heads, GoodLines
<1>3. ASSUME NEW f \in File, EndLine(f) PROVE Ledger!Record
  <2>1. nextEvent \in Event \ recorded
    BY <1>1, <1>3, BoundAssumption DEF EndLine, TypeOK, Event
  <2>2. recorded' = recorded \cup {nextEvent} /\ Heads' = Heads
    BY <1>3 DEF EndLine, sealVars, Heads, GoodLines
  <2> QED
    BY <2>1, <2>2 DEF Ledger!Record
<1>4. ASSUME NEW p \in Sealer, AppendSeal(p) PROVE Ledger!Extend
  <2> DEFINE head == job[p].last.head
             S == job[p].found
  <2>1. head \in Heads \cup {<<>>} /\ S \subseteq recorded /\ S # {}
    BY <1>4 DEF FoundOK, AppendSeal
  <2>2. S \cap Folded(head) = {}
    BY DEF IInv, JobsOK, JobOK
  <2>3. S \cap Ledger!Folded(head) = {}
    BY <2>2 DEF Folded, Ledger!Folded
  <2>4. Heads' = Heads \cup {Append(head, S)}
    BY <1>1, <1>4, AppendHeads DEF AppendSeal, FoundOK, NewSeal
  <2>5. recorded' = recorded
    BY <1>4 DEF AppendSeal, logVars
  <2> HIDE DEF head, S
  <2>6. S \in (SUBSET (recorded \ Ledger!Folded(head))) \ {{}}
    BY <2>1, <2>3
  <2> QED
    BY <2>1, <2>4, <2>5, <2>6 DEF Ledger!Extend
<1>5. ASSUME NEW p \in Sealer, TearSeal(p) PROVE FALSE
  BY <1>1, <1>5 DEF TearSeal, TypeOK
<1>6. ASSUME NEW f \in File, BeginLine(f) \/ EndDamagedLine(f) \/ ClearSession(f)
      PROVE  UNCHANGED <<recorded, Heads>>
  BY <1>2, <1>6 DEF BeginLine, EndDamagedLine, ClearSession, sealVars
<1>7. ASSUME NEW p \in Sealer, \/ Start(p) \/ TryCreate(p) \/ StatLock(p) \/ RemoveLock(p)
                              \/ ReadLast(p) \/ (\E f \in File : Scan(p, f)) \/ EndScan(p)
                              \/ ReadKey(p) \/ CreateKey(p) \/ WriteKey(p) \/ Release(p) \/ Crash(p)
      PROVE  UNCHANGED <<recorded, Heads>>
  BY <1>2, <1>7 DEF Start, TryCreate, StatLock, RemoveLock, ReadLast, Scan, EndScan, ReadKey,
                    CreateKey, WriteKey, Release, Crash, logVars, sealVars
<1>8. CASE AgeLock
  BY <1>2, <1>8 DEF AgeLock, logVars, sealVars
<1>9. CASE UNCHANGED vars
  BY <1>2, <1>9 DEF vars, logVars, sealVars
<1> QED
  BY <1>3, <1>4, <1>5, <1>6, <1>7, <1>8, <1>9 DEF Next, Run

(* As long as each append to seals.jsonl is whole, sealing implements the
   ledger: heads only come to be there, each extends one that is there by
   recorded events its chain has not sealed. *)
THEOREM LedgerImplemented ==
    ASSUME MaxTears = 0
    PROVE  Spec => LedgerSpec
<1>1. Init => FoundOK
  BY DEF Init, FoundOK, NoJob, Genesis
<1>2. Init => Ledger!Init
  BY DEF Init, Ledger!Init, Heads, GoodLines
<1>3. MaxTears = 0
  OBVIOUS
<1> QED
  BY <1>1, <1>2, <1>3, InvCorrect, FoundStep, LedgerStep, PTL DEF Spec, LedgerSpec, Ledger!Spec
=============================================================================
