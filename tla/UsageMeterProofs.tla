-------------------------- MODULE UsageMeterProofs --------------------------
(***************************************************************************)
(* Proofs about UsageMeter, for any sessions, batch ids, ages, calls and   *)
(* killed passes.                                                          *)
(*                                                                         *)
(* BilledOnce: a unit moves one way, from the calls that are not counted   *)
(* yet over the signal log and the pass to the pending counts, and from    *)
(* there into one batch.  The invariant says that no unit is in two of     *)
(* these places, and that every batch under way or billed is apart from    *)
(* all of them and from every batch of another id.                         *)
(*                                                                         *)
(* NothingMissed: a mark whose size is that of the session counts all its  *)
(* calls.  The invariant says so of the marks in the file, of those in a   *)
(* pass, and of what a pass has read since it took the size.               *)
(*                                                                         *)
(* Accounted: the places a unit can be in are apart, and together they     *)
(* hold every unit; a detection has looked at just the units between the   *)
(* marks in the file and those it will write.  What is billed was          *)
(* acknowledged, had no answer, or is in the batch whose answer the pass   *)
(* has.  What a pass skips is all it finds in a session that has a size on *)
(* record and no count, and then the session has one: so only its first    *)
(* calls are ever skipped.                                                 *)
(***************************************************************************)
EXTENDS UsageMeter, FiniteSetTheorems, TLAPS

Pair  == Session \X Nat
Mark  == [seen : Nat \cup {None}, counted : Nat \cup {None}]
Batch == [id : Id \cup {None}, units : SUBSET Pair]
Count == [pending : SUBSET Pair, batch : Batch, dropped : SUBSET Pair]

Step == {"idle", "stat", "read", "append", "take", "taken", "add", "submit", "send", "wait"}

Pass == [at : Step, todo : SUBSET Session, session : Session \cup {None}, size : Nat,
         calls : Nat, read : SUBSET Pair, marks : [Session -> Mark], units : SUBSET Pair,
         free : SUBSET Pair, skipped : SUBSET Pair, file : Count,
         answer : {"none", "accepted", "refused"}]

TypeOK ==
    /\ calls \in [Session -> Nat]
    /\ found \in SUBSET Pair /\ IsFiniteSet(found)
    /\ marks \in [Session -> Mark]
    /\ opened \in SUBSET Pair /\ log \in SUBSET Pair /\ stale \in SUBSET Pair
    /\ file \in Count
    /\ pass \in Pass
    /\ pass.at \in {"read", "append"} => pass.session \in Session
    /\ wire \in SUBSET Batch /\ billed \in SUBSET Batch

-----------------------------------------------------------------------------
(* The findings of one session, and how a session's size grows. *)

FoundIn(F, s) == {u \in F : u[1] = s}

LEMMA FoundFinite ==
    ASSUME NEW F, IsFiniteSet(F), NEW s
    PROVE  IsFiniteSet(FoundIn(F, s)) /\ Cardinality(FoundIn(F, s)) \in Nat
<1>1. FoundIn(F, s) \in SUBSET F
  BY DEF FoundIn
<1> QED
  BY <1>1, FS_Subset, FS_CardinalityType

(* More findings make a session larger, unless it has them already. *)
LEMMA FoundGrows ==
    ASSUME NEW F, NEW G, IsFiniteSet(G), F \subseteq G, NEW s
    PROVE  /\ Cardinality(FoundIn(F, s)) <= Cardinality(FoundIn(G, s))
           /\ Cardinality(FoundIn(F, s)) = Cardinality(FoundIn(G, s))
                => FoundIn(F, s) = FoundIn(G, s)
<1>1. IsFiniteSet(FoundIn(G, s))
  BY FoundFinite
<1>2. FoundIn(F, s) \in SUBSET FoundIn(G, s)
  BY DEF FoundIn
<1> QED
  BY <1>1, <1>2, FS_Subset

LEMMA SizeIs == \A s : Size(s) = calls[s] + Cardinality(FoundIn(found, s))
BY DEF Size, FoundIn

LEMMA SizeType ==
    ASSUME TypeOK, NEW s \in Session
    PROVE  Size(s) \in Nat
<1>1. Cardinality(FoundIn(found, s)) \in Nat
  BY FoundFinite DEF TypeOK
<1> QED
  BY <1>1, SizeIs DEF TypeOK

(* The findings a pass appends are finitely many. *)
LEMMA FindingsFinite ==
    ASSUME NEW s \in Session, NEW n \in Nat
    PROVE  /\ IsFiniteSet({s} \X (1..n))
           /\ {s} \X (1..n) \in SUBSET Pair
<1>1. IsFiniteSet({s})
  BY FS_Singleton
<1>3. IsFiniteSet(1..n)
  BY FS_Interval
<1>2. {s} \X (1..n) \in SUBSET Pair
  BY DEF Pair
<1>4. IsFiniteSet({s} \X (1..n))
  BY <1>1, <1>3, FS_Product
<1> QED
  BY <1>2, <1>4

(* Pruning by age only takes units away. *)
LEMMA OldSome == \A units : Old(units) \subseteq units
BY DEF Old

-----------------------------------------------------------------------------
(* Types. *)

LEMMA NoPassType == NoPass \in Pass /\ EmptyFile \in Count /\ NoBatch \in Batch
BY DEF NoPass, NoMark, EmptyFile, NoBatch, Pass, Count, Batch, Mark, Step

LEMMA TypeInit == Init => TypeOK
<1>1. IsFiniteSet({})
  BY FS_EmptySet
<1> QED
  BY <1>1, NoPassType DEF Init, TypeOK, Mark, NoMark, NoPass

(* What becomes of the counts keeps its type. *)
LEMMA CountTypes ==
    ASSUME NEW f \in Count
    PROVE  /\ \A units \in SUBSET Pair : Add(f, units) \in Count
           /\ \A id \in Id \cup {None} : Batched(f, id) \in Count
           /\ Resent(f) \in Count
           /\ Emptied(f) \in Count
<1> USE OldSome
<1>1. \A units \in SUBSET Pair : Add(f, units) \in Count
  BY DEF Add, Count, Batch
<1>2. \A id \in Id \cup {None} : Batched(f, id) \in Count
  BY DEF Batched, Count, Batch
<1>3. Resent(f) \in Count
  BY DEF Resent, Kept, Count, Batch
<1>4. Emptied(f) \in Count
  BY NoPassType DEF Emptied, Batched, Count, Batch
<1> QED
  BY <1>1, <1>2, <1>3, <1>4

(* What a mark says was counted. *)
LEMMA DoneType ==
    ASSUME NEW k \in Mark
    PROVE  Done(k) \in Nat
BY DEF Done, Mark

(* A pass starts from what was counted, or skips all there is. *)
LEMMA PriorIs ==
    ASSUME NEW k \in Mark, NEW n \in Nat
    PROVE  /\ Prior(k, n) \in Nat /\ Done(k) <= Prior(k, n)
           /\ Prior(k, n) = Done(k) \/ (Done(k) = 0 /\ Prior(k, n) = n)
BY DoneType DEF Prior, Done

LEMMA TypeNext == TypeOK /\ [Next]_vars => TypeOK'
<1> SUFFICES ASSUME TypeOK, [Next]_vars PROVE TypeOK'
  OBVIOUS
<1> USE DEF TypeOK
<1>1. ASSUME NEW s \in Session, Call(s) PROVE TypeOK'
  BY <1>1 DEF Call, cloudVars
<1>2. ASSUME NEW s \in Session, OpenLog(s) PROVE TypeOK'
  BY <1>2 DEF OpenLog, cloudVars, Pair
<1>3. ASSUME NEW u \in Unit, AppendSignal(u) PROVE TypeOK'
  <2>1. CASE u \in opened
    BY <1>3 DEF AppendSignal, cloudVars, Pass
  <2>2. CASE u \in stale
    BY <1>3, <2>2 DEF AppendSignal, cloudVars, Pass
  <2> QED
    BY <1>3, <2>1, <2>2 DEF AppendSignal
<1>4. CASE Begin
  BY <1>4, NoPassType DEF Begin, sourceVars, cloudVars, Pass, Step, NoPass
<1>5. ASSUME NEW s \in Session, Stat(s) PROVE TypeOK'
  <2>1. Size(s) \in Nat /\ {"stat", "read"} \subseteq Step
    BY SizeType DEF Step
  <2>2. pass' \in Pass /\ pass'.at \in {"stat", "read"} /\ (pass'.at = "read" => pass'.session = s)
    BY <1>5, <2>1 DEF Stat, Pass
  <2> QED
    BY <1>5, <2>2 DEF Stat, sourceVars, cloudVars
<1>6. CASE Read
  <2>1. {u \in found : u[1] = pass.session} \in SUBSET Pair
    OBVIOUS
  <2>3. pass.session \in Session /\ calls[pass.session] \in Nat
    BY <1>6 DEF Read
  <2> DEFINE new == {pass.session} \X (Prior(pass.marks[pass.session], calls[pass.session]) + 1
                                       .. calls[pass.session])
             skip == {pass.session} \X (Done(pass.marks[pass.session]) + 1 ..
                                       Prior(pass.marks[pass.session], calls[pass.session]))
             seen == {u \in found : u[1] = pass.session}
  <2>5. \/ pass' = [pass EXCEPT !.at = "append", !.calls = calls[pass.session], !.read = seen,
                                !.units = @ \cup new, !.free = @, !.skipped = @ \cup skip]
        \/ pass' = [pass EXCEPT !.at = "append", !.calls = calls[pass.session], !.read = seen,
                                !.units = @, !.free = @ \cup new, !.skipped = @ \cup skip]
    BY <1>6 DEF Read
  <2>2. /\ Prior(pass.marks[pass.session], calls[pass.session]) \in Nat
        /\ Done(pass.marks[pass.session]) \in Nat
    BY <2>3, PriorIs, DoneType DEF Pass
  <2>6. new \in SUBSET Pair /\ seen \in SUBSET Pair /\ skip \in SUBSET Pair
    BY <2>1, <2>2, <2>3 DEF Pair
  <2> HIDE DEF new, seen, skip
  <2>7. /\ pass.units \cup new \in SUBSET Pair
        /\ pass.free \cup new \in SUBSET Pair
        /\ pass.skipped \cup skip \in SUBSET Pair
    BY <2>6 DEF Pass
  <2>8. calls[pass.session] \in Nat /\ "append" \in Step
    BY <2>3 DEF Step
  <2>4. pass' \in Pass /\ pass'.session \in Session
    BY <2>3, <2>5, <2>6, <2>7, <2>8 DEF Pass
  <2> QED
    BY <1>6, <2>4 DEF Read, sourceVars, cloudVars
<1>21. CASE ReadNothing
  <2>1. pass' \in Pass /\ pass'.at = "stat"
    <3>1. pass.marks \in [Session -> Mark] /\ pass.size \in Nat /\ pass.session \in Session
      BY <1>21 DEF ReadNothing, Pass
    <3>2. [pass.marks[pass.session] EXCEPT !.seen = pass.size] \in Mark
      BY <3>1 DEF Mark
    <3>3. pass' = [pass EXCEPT !.at = "stat", !.todo = @ \ {pass.session},
                               !.marks[pass.session] = [@ EXCEPT !.seen = pass.size]]
      BY <1>21 DEF ReadNothing
    <3> QED
      BY <3>1, <3>2, <3>3 DEF Pass, Step
  <2> QED
    BY <1>21, <2>1 DEF ReadNothing, sourceVars, cloudVars
<1>7. CASE AppendFindings
  <2>1. pass.session \in Session /\ pass.calls \in Nat
    BY <1>7 DEF AppendFindings, Pass
  <2>2. IsFiniteSet(({pass.session} \X (1..pass.calls)) \ pass.read)
    BY <2>1, FindingsFinite, FS_Subset
  <2>3. found' \in SUBSET Pair /\ IsFiniteSet(found')
    BY <1>7, <2>1, <2>2, FindingsFinite, FS_Union DEF AppendFindings
  <2>4. pass' \in Pass /\ pass'.at = "stat"
    BY <1>7, <2>1, DoneType DEF AppendFindings, Pass, Step, Mark, Bigger
  <2> QED
    BY <1>7, <2>3, <2>4 DEF AppendFindings, cloudVars
<1>8. CASE FailDetection
  BY <1>8, NoPassType DEF FailDetection, sourceVars, cloudVars, Pass, Step, NoPass
<1>9. CASE WriteMarks
  <2>1. \/ pass' = [NoPass EXCEPT !.at = "add", !.units = pass.units]
        \/ pass' = [NoPass EXCEPT !.at = "submit"]
    BY <1>9 DEF WriteMarks
  <2>2. pass.units \in SUBSET Pair /\ pass.marks \in [Session -> Mark] /\ {"add", "submit"} \subseteq Step
    BY DEF Pass, Step
  <2>3. pass' \in Pass /\ pass'.at \in {"add", "submit"}
    BY <2>1, <2>2, NoPassType DEF Pass
  <2>4. marks' \in [Session -> Mark]
    BY <1>9, <2>2 DEF WriteMarks
  <2> QED
    BY <1>9, <2>3, <2>4 DEF WriteMarks, cloudVars
<1>10. CASE TakeLog
  BY <1>10 DEF TakeLog, cloudVars, Pass, Step
<1>11. CASE ReadLog
  BY <1>11 DEF ReadLog, sourceVars, cloudVars, Pass, Step
<1>12. CASE AddCounts
  <2>1. file' \in Count
    BY <1>12, OldSome, CountTypes DEF AddCounts, Pass, Count
  <2> QED
    BY <1>12, <2>1, NoPassType DEF AddCounts, sourceVars, cloudVars, Pass, Step, NoPass
<1>13. CASE SkipSubmit
  BY <1>13, NoPassType, CountTypes DEF SkipSubmit, sourceVars, cloudVars, NoPass
<1>14. ASSUME NEW id \in Id, Submit(id) PROVE TypeOK'
  <2>1. file' \in Count
    BY <1>14, CountTypes DEF Submit
  <2>2. pass' \in Pass /\ pass'.at = "send"
    BY <1>14, <2>1, NoPassType DEF Submit, Pass, Step, NoPass
  <2> QED
    BY <1>14, <2>1, <2>2 DEF Submit, sourceVars, cloudVars
<1>15. CASE Send
  BY <1>15 DEF Send, sourceVars, Pass, Step, Count
<1>16. CASE Finish
  <2>1. pass.file \in Count /\ pass.file.batch.units \in SUBSET Pair
    BY DEF Pass, Count, Batch
  <2>2. file' \in Count
    BY <1>16, <2>1, NoPassType DEF Finish, Count
  <2>3. pass' \in Pass /\ pass'.at = "idle"
    BY <1>16, NoPassType DEF Finish, NoPass
  <2> QED
    BY <1>16, <2>2, <2>3 DEF Finish, sourceVars, cloudVars
<1>17. CASE Crash
  BY <1>17, NoPassType DEF Crash, sourceVars, cloudVars, NoPass
<1>18. ASSUME NEW m \in wire, Accept(m) \/ Refuse(m) \/ Lose(m) PROVE TypeOK'
  BY <1>18 DEF Accept, Refuse, Lose, sourceVars, Pass
<1>19. CASE Later \/ NewDay
  BY <1>19 DEF Later, NewDay, sourceVars, cloudVars
<1>20. CASE UNCHANGED vars
  BY <1>20 DEF vars, sourceVars, cloudVars
<1> QED
  BY <1>1, <1>2, <1>3, <1>4, <1>5, <1>6, <1>7, <1>8, <1>9, <1>10, <1>11, <1>12, <1>13, <1>14,
     <1>15, <1>16, <1>17, <1>18, <1>19, <1>20, <1>21 DEF Next, PassStep

(* Every variable keeps its type, whatever is killed, lost or resent. *)
THEOREM TypeCorrect == Spec => []TypeOK
BY TypeInit, TypeNext, PTL DEF Spec

-----------------------------------------------------------------------------
(* Where a unit can be before it is pending: not counted yet, in the signal
   log or on its way there, or with the pass. *)

Uncounted == {u \in Pair : u[2] > IF meter = "usage" THEN Done(marks[u[1]]) ELSE calls[u[1]]}

Sources == Uncounted \cup opened \cup log \cup stale \cup Held

SourcesApart ==
    /\ Uncounted \cap (opened \cup log \cup stale \cup Held) = {}
    /\ opened \cap (log \cup stale \cup Held) = {}
    /\ log \cap (stale \cup Held) = {}
    /\ stale \cap Held = {}

Batches == wire \cup billed \cup {file.batch}

(* Units leave the sources for the pending counts, and those for one batch. *)
CountsOK ==
    /\ Sources \cap file.pending = {}
    /\ \A m \in Batches : m.units \cap (Sources \cup file.pending) = {}
    /\ \A m, n \in Batches : m.id # n.id => m.units \cap n.units = {}
    /\ \A m \in Batches : m = NoBatch \/ m.id \in used
    /\ \A b, c \in billed : b.id = c.id => b = c

(* What a pass has in memory: calls beyond the marks in the file and within its
   own, and the counts it has written. *)
JobOK ==
    /\ pass.at \in {"stat", "read", "append"} =>
         /\ meter = "usage"
         /\ \A s \in Session : Done(marks[s]) <= Done(pass.marks[s])
         /\ \A u \in pass.units :
              /\ u[2] > Done(marks[u[1]])
              /\ \/ u[2] <= Done(pass.marks[u[1]])
                 \/ pass.at = "append" /\ u[1] = pass.session /\ u[2] <= pass.calls
    /\ pass.at \in {"send", "wait"} => pass.file = file

IInv == TypeOK /\ SourcesApart /\ CountsOK /\ JobOK

-----------------------------------------------------------------------------
(* Steps that touch neither counts nor batches and take units out of the
   sources, or move them within, keep the counts. *)
LEMMA CountsStay ==
    ASSUME CountsOK, Sources' \subseteq Sources, UNCHANGED <<file, wire, billed, used>>
    PROVE  CountsOK'
BY DEF CountsOK, Batches

(* Steps that leave capture alone and let a pass forget units keep the sources
   apart. *)
LEMMA SourcesStay ==
    ASSUME SourcesApart, UNCHANGED <<meter, calls, marks, opened, log, stale>>, Held' \subseteq Held
    PROVE  SourcesApart' /\ Sources' \subseteq Sources
<1>1. Uncounted' = Uncounted
  BY DEF Uncounted
<1> QED
  BY <1>1 DEF SourcesApart, Sources

(* The marks of the session a pass has looked at. *)
LEMMA MarkSet ==
    ASSUME TypeOK, AppendFindings
    PROVE  /\ pass.at = "append" /\ pass'.at = "stat" /\ pass.session \in Session
           /\ pass'.units = pass.units /\ pass'.free = pass.free /\ pass'.skipped = pass.skipped
           /\ \A t \in Session :
                Done(pass'.marks[t]) = IF t = pass.session THEN Bigger(Done(pass.marks[t]), pass.calls)
                                       ELSE Done(pass.marks[t])
<1> DEFINE r == pass.session
           n == Bigger(Done(pass.marks[r]), pass.calls)
<1>1. r \in Session /\ pass.marks \in [Session -> Mark] /\ pass.calls \in Nat
  BY DEF AppendFindings, TypeOK, Pass
<1>2. n \in Nat /\ n # None
  BY <1>1, DoneType, MeterAssumption DEF Bigger
<1>3. Done([seen |-> pass.size, counted |-> n]) = n
  BY <1>2 DEF Done
<1>4. pass' = [pass EXCEPT !.at = "stat", !.todo = @ \ {r},
                           !.marks[r] = [seen |-> pass.size, counted |-> n]]
  BY DEF AppendFindings
<1> HIDE DEF n
<1>5. /\ pass'.at = "stat" /\ pass'.units = pass.units /\ pass'.free = pass.free
      /\ pass'.skipped = pass.skipped
      /\ pass'.marks = [pass.marks EXCEPT ![r] = [seen |-> pass.size, counted |-> n]]
  BY <1>4 DEF TypeOK, Pass
<1>6. \A t \in Session : Done(pass'.marks[t]) = IF t = r THEN n ELSE Done(pass.marks[t])
  BY <1>1, <1>3, <1>5
<1> QED
  BY <1>1, <1>5, <1>6 DEF n, AppendFindings

LEMMA NothingSet ==
    ASSUME TypeOK, ReadNothing
    PROVE  /\ pass.at = "read" /\ pass'.at = "stat" /\ pass.session \in Session
           /\ calls[pass.session] = 0 /\ Done(pass.marks[pass.session]) = 0
           /\ pass'.units = pass.units /\ pass'.free = pass.free /\ pass'.skipped = pass.skipped
           /\ pass'.marks = [pass.marks EXCEPT ![pass.session].seen = pass.size]
           /\ \A t \in Session : Done(pass'.marks[t]) = Done(pass.marks[t])
<1> DEFINE r == pass.session
<1>1. r \in Session /\ pass.marks \in [Session -> Mark] /\ pass.at = "read" /\ calls[r] = 0
      /\ pass.marks[r].counted = None
  BY DEF ReadNothing, TypeOK, Pass
<1>2. pass' = [pass EXCEPT !.at = "stat", !.todo = @ \ {r}, !.marks[r].seen = pass.size]
  BY DEF ReadNothing
<1>3. /\ pass'.at = "stat" /\ pass'.units = pass.units /\ pass'.free = pass.free
      /\ pass'.skipped = pass.skipped
      /\ pass'.marks = [pass.marks EXCEPT ![r].seen = pass.size]
  BY <1>2 DEF TypeOK, Pass
<1>4. \A t \in Session : pass'.marks[t].counted = pass.marks[t].counted
  BY <1>1, <1>3 DEF Mark
<1>5. \A t \in Session : Done(pass'.marks[t]) = Done(pass.marks[t])
  BY <1>4 DEF Done
<1> QED
  BY <1>1, <1>3, <1>5 DEF Done

(* Steps of a pass that do not hold units. *)
LEMMA NoneHeld == pass.at \notin {"add", "taken"} => Held = {}
BY DEF Held

LEMMA IInvInit == Init => IInv
<1> SUFFICES ASSUME Init PROVE IInv
  OBVIOUS
<1>1. TypeOK
  BY TypeInit
<1>2. Held = {} /\ opened = {} /\ log = {} /\ stale = {} /\ file.pending = {}
  BY DEF Init, NoPass, EmptyFile, Held
<1>3. SourcesApart
  BY <1>2 DEF SourcesApart
<1>4. Batches = {NoBatch} /\ billed = {} /\ NoBatch.units = {}
  BY DEF Init, Batches, EmptyFile, NoBatch
<1>5. CountsOK
  BY <1>2, <1>4 DEF CountsOK
<1>6. JobOK
  BY DEF Init, JobOK, NoPass
<1> QED
  BY <1>1, <1>3, <1>5, <1>6 DEF IInv

(* Capture: a call, or a signal on its way to the log. *)
LEMMA CaptureStep ==
    ASSUME IInv, TypeOK', NEW s \in Session, Call(s) \/ OpenLog(s)
    PROVE  IInv'
<1> USE DEF IInv
<1>1. CASE Call(s)
  <2>1. Uncounted' = Uncounted
    BY <1>1 DEF Call, Uncounted
  <2>2. SourcesApart' /\ Sources' = Sources
    BY <1>1, <2>1 DEF Call, SourcesApart, Sources, Held
  <2>3. CountsOK'
    BY <1>1, <2>2, CountsStay DEF Call, cloudVars
  <2>4. JobOK'
    BY <1>1 DEF Call, JobOK
  <2> QED
    BY <2>2, <2>3, <2>4
<1>2. CASE OpenLog(s)
  <2> DEFINE n == <<s, calls[s] + 1>>
  <2>1. Uncounted' = Uncounted \ {n} /\ n \in Uncounted
    BY <1>2 DEF OpenLog, Uncounted, TypeOK, Pair
  <2>2. Held' = Held /\ opened' = opened \cup {n} /\ UNCHANGED <<log, stale>>
    BY <1>2 DEF OpenLog, Held
  <2>3. SourcesApart' /\ Sources' \subseteq Sources
    BY <2>1, <2>2 DEF SourcesApart, Sources
  <2>4. CountsOK'
    BY <1>2, <2>3, CountsStay DEF OpenLog, cloudVars
  <2>5. JobOK'
    BY <1>2 DEF OpenLog, JobOK
  <2> QED
    BY <2>3, <2>4, <2>5
<1> QED
  BY <1>1, <1>2

(* A hook writes its signal, to the log or to the one a pass has taken. *)
LEMMA SignalStep ==
    ASSUME IInv, TypeOK', NEW u \in Unit, AppendSignal(u)
    PROVE  IInv'
<1> USE DEF IInv
<1>1. Uncounted' = Uncounted
  BY DEF AppendSignal, Uncounted
<1>2. SourcesApart' /\ Sources' \subseteq Sources
  <2>1. CASE u \in opened /\ pass' = pass
    BY <1>1, <2>1 DEF AppendSignal, SourcesApart, Sources, Held
  <2>2. CASE u \in stale /\ pass.at = "taken"
    <3>1. Held' \subseteq Held \cup {u}
      BY <2>2 DEF AppendSignal, Held, TypeOK, Pass
    <3> QED
      BY <1>1, <2>2, <3>1 DEF AppendSignal, SourcesApart, Sources
  <2>3. CASE u \in stale /\ pass' = pass
    BY <1>1, <2>3 DEF AppendSignal, SourcesApart, Sources, Held
  <2> QED
    BY <2>1, <2>2, <2>3 DEF AppendSignal
<1>3. CountsOK'
  BY <1>2, CountsStay DEF AppendSignal, cloudVars
<1>4. JobOK'
  BY DEF AppendSignal, JobOK, TypeOK, Pass
<1> QED
  BY <1>2, <1>3, <1>4

(* Detection: a pass starts, looks at a session, reads it, appends findings, or
   fails. *)
LEMMA DetectStep ==
    ASSUME IInv, TypeOK',
           Begin \/ (\E s \in Session : Stat(s)) \/ Read \/ ReadNothing \/ AppendFindings \/ FailDetection \/ ReadLog
    PROVE  IInv'
<1> USE DEF IInv
<1>1. UNCHANGED <<meter, calls, marks, opened, log, stale, file, wire, billed, used>>
  BY DEF Begin, Stat, Read, ReadNothing, AppendFindings, FailDetection, ReadLog, sourceVars, cloudVars
<1>2. Held' \subseteq Held
  BY DEF Begin, Stat, Read, ReadNothing, AppendFindings, FailDetection, ReadLog, Held, TypeOK, Pass, NoPass
<1>3. SourcesApart' /\ CountsOK'
  BY <1>1, <1>2, SourcesStay, CountsStay
<1>4. JobOK'
  <2>1. CASE Begin
    <3>1. \A t \in Session : Done(marks[t]) \in Nat
      BY DoneType DEF TypeOK
    <3> QED
      BY <1>1, <2>1, <3>1 DEF Begin, JobOK, NoPass
  <2>2. CASE \E s \in Session : Stat(s)
    BY <1>1, <2>2 DEF Stat, JobOK, TypeOK, Pass
  <2>3. CASE Read
    <3> DEFINE r == pass.session
    <3>1. /\ pass'.at = "append" /\ pass'.session = r /\ pass'.calls = calls[r]
          /\ pass'.marks = pass.marks
          /\ pass'.units \subseteq pass.units \cup ({r} \X (Prior(pass.marks[r], calls[r]) + 1 .. calls[r]))
      BY <2>3 DEF Read, TypeOK, Pass
    <3>2. /\ meter = "usage"
          /\ \A t \in Session : Done(marks[t]) <= Done(pass.marks[t])
          /\ \A u \in pass.units : u[2] > Done(marks[u[1]]) /\ u[2] <= Done(pass.marks[u[1]])
      BY <2>3 DEF Read, JobOK
    <3>3. r \in Session /\ Done(pass.marks[r]) \in Nat /\ Done(marks[r]) \in Nat /\ calls[r] \in Nat
      BY <2>3, DoneType DEF Read, TypeOK, Pass
    <3>5. Prior(pass.marks[r], calls[r]) \in Nat /\ Done(pass.marks[r]) <= Prior(pass.marks[r], calls[r])
      BY <3>3, PriorIs DEF TypeOK, Pass
    <3>4. \A u \in {r} \X (Prior(pass.marks[r], calls[r]) + 1 .. calls[r]) :
             u[1] = r /\ u[2] > Done(marks[r]) /\ u[2] <= calls[r]
      BY <3>2, <3>3, <3>5
    <3> QED
      BY <1>1, <3>1, <3>2, <3>4 DEF JobOK
  <2>4. CASE AppendFindings
    <3> DEFINE r == pass.session
    <3>1. r \in Session /\ Done(pass.marks[r]) \in Nat /\ pass.calls \in Nat
      BY <2>4, DoneType DEF AppendFindings, TypeOK, Pass
    <3>2. /\ pass'.at = "stat" /\ pass'.units = pass.units
          /\ \A t \in Session : Done(pass'.marks[t]) =
               IF t = r THEN Bigger(Done(pass.marks[r]), pass.calls) ELSE Done(pass.marks[t])
      BY <2>4, MarkSet
    <3>3. /\ meter = "usage"
          /\ \A t \in Session : Done(marks[t]) <= Done(pass.marks[t])
          /\ \A u \in pass.units : /\ u[2] > Done(marks[u[1]])
                                   /\ \/ u[2] <= Done(pass.marks[u[1]])
                                      \/ u[1] = r /\ u[2] <= pass.calls
      BY <2>4 DEF AppendFindings, JobOK
    <3>4. /\ \A t \in Session : Done(pass.marks[t]) \in Nat /\ Done(marks[t]) \in Nat
          /\ \A u \in pass.units : u[1] \in Session /\ u[2] \in Nat
      BY DoneType DEF TypeOK, Pass, Pair
    <3>5. \A t \in Session : Done(pass.marks[t]) <= Done(pass'.marks[t])
      BY <3>1, <3>2, <3>4 DEF Bigger
    <3>6. pass.calls <= Done(pass'.marks[r]) /\ Done(pass'.marks[r]) \in Nat
      BY <3>1, <3>2 DEF Bigger
    <3>7. \A t \in Session : Done(marks[t]) <= Done(pass'.marks[t])
      BY <3>2, <3>3, <3>4, <3>1 DEF Bigger
    <3>8. \A u \in pass.units : u[2] <= Done(pass'.marks[u[1]])
      BY <3>1, <3>2, <3>3, <3>4 DEF Bigger
    <3> QED
      BY <1>1, <3>2, <3>3, <3>7, <3>8 DEF JobOK
  <2>5. CASE FailDetection
    BY <2>5 DEF FailDetection, JobOK, NoPass
  <2>6. CASE ReadLog
    BY <2>6 DEF ReadLog, JobOK, TypeOK, Pass
  <2>7. CASE ReadNothing
    <3>1. /\ pass.at = "read" /\ pass'.at = "stat" /\ pass'.units = pass.units
          /\ \A t \in Session : Done(pass'.marks[t]) = Done(pass.marks[t])
      BY <2>7, NothingSet
    <3>2. /\ meter = "usage"
          /\ \A t \in Session : Done(marks[t]) <= Done(pass.marks[t])
          /\ \A u \in pass.units : u[2] > Done(marks[u[1]]) /\ u[2] <= Done(pass.marks[u[1]])
      BY <3>1 DEF JobOK
    <3>3. \A u \in pass.units : u[1] \in Session
      BY DEF TypeOK, Pass, Pair
    <3> QED
      BY <1>1, <3>1, <3>2, <3>3 DEF JobOK
  <2> QED
    BY <2>1, <2>2, <2>3, <2>4, <2>5, <2>6, <2>7
<1> QED
  BY <1>3, <1>4

(* The marks are written: what the pass took is held, or goes no further. *)
LEMMA WriteMarksStep ==
    ASSUME IInv, WriteMarks
    PROVE  SourcesApart' /\ CountsOK' /\ JobOK'
<1> USE DEF IInv
<1>1. /\ meter = "usage"
      /\ \A t \in Session : Done(marks[t]) <= Done(pass.marks[t])
      /\ \A u \in pass.units : u[2] > Done(marks[u[1]]) /\ u[2] <= Done(pass.marks[u[1]])
  BY DEF WriteMarks, JobOK
<1>2. /\ \A t \in Session : Done(pass.marks[t]) \in Nat /\ Done(marks[t]) \in Nat
      /\ pass.units \in SUBSET Pair
  BY DoneType DEF TypeOK, Pass
<1>3. Uncounted' = {u \in Pair : u[2] > Done(pass.marks[u[1]])}
  BY <1>1 DEF WriteMarks, Uncounted
<1>4. Uncounted' \subseteq Uncounted
  <2>1. \A u \in Pair : u[1] \in Session /\ u[2] \in Nat
    BY DEF Pair
  <2> QED
    BY <1>1, <1>2, <1>3, <2>1 DEF Uncounted
<1>5. pass.units \subseteq Uncounted /\ pass.units \cap Uncounted' = {}
  <2>1. \A u \in pass.units : u \in Pair /\ u[1] \in Session /\ u[2] \in Nat
    BY <1>2 DEF Pair
  <2> QED
    BY <1>1, <1>2, <1>3, <2>1 DEF Uncounted
<1>6. Held = {} /\ Held' \subseteq pass.units
  BY DEF WriteMarks, Held, NoPass
<1>7. UNCHANGED <<opened, log, stale, file, wire, billed, used>>
  BY DEF WriteMarks, cloudVars
<1>8. SourcesApart' /\ Sources' \subseteq Sources
  BY <1>4, <1>5, <1>6, <1>7 DEF SourcesApart, Sources
<1>9. CountsOK'
  BY <1>7, <1>8, CountsStay
<1>10. JobOK'
  BY DEF WriteMarks, JobOK, NoPass
<1> QED
  BY <1>8, <1>9, <1>10

(* The log is renamed: its units are held, and hooks that have it open write
   to the renamed one. *)
LEMMA TakeLogStep ==
    ASSUME IInv, TakeLog
    PROVE  SourcesApart' /\ CountsOK' /\ JobOK'
<1> USE DEF IInv
<1>1. Held = {} /\ Held' = log /\ log' = {} /\ stale' = stale \cup opened /\ opened' = {}
  BY DEF TakeLog, Held, TypeOK, Pass
<1>2. Uncounted' = Uncounted
  BY DEF TakeLog, Uncounted
<1>3. SourcesApart' /\ Sources' \subseteq Sources
  BY <1>1, <1>2 DEF SourcesApart, Sources
<1>4. CountsOK'
  BY <1>3, CountsStay DEF TakeLog, cloudVars
<1>5. JobOK'
  BY DEF TakeLog, JobOK, TypeOK, Pass
<1> QED
  BY <1>3, <1>4, <1>5

(* What the pass holds becomes pending. *)
LEMMA AddCountsStep ==
    ASSUME IInv, AddCounts
    PROVE  SourcesApart' /\ CountsOK' /\ JobOK'
<1> USE DEF IInv
<1>1. Held = pass.units /\ Held' = {}
  BY DEF AddCounts, Held, NoPass
<1>2. UNCHANGED <<meter, calls, marks, opened, log, stale, wire, billed, used>>
  BY DEF AddCounts, sourceVars, cloudVars
<1>3. SourcesApart' /\ Sources' \subseteq Sources
  BY <1>1, <1>2, SourcesStay
<1>4. Sources' \cap Held = {}
  <2>1. Uncounted' = Uncounted
    BY <1>2 DEF Uncounted
  <2> QED
    BY <1>1, <1>2, <2>1 DEF Sources, SourcesApart
<1>5. Held \subseteq Sources
  BY DEF Sources
<1>6. file'.pending \subseteq file.pending \cup Held /\ file'.batch = file.batch
  BY <1>1 DEF AddCounts, Add, TypeOK, Count
<1>7. Batches' = Batches
  BY <1>2, <1>6 DEF Batches
<1>8. Sources' \cap file'.pending = {}
  BY <1>3, <1>4, <1>6 DEF CountsOK
<1>9. \A m \in Batches' : m.units \cap (Sources' \cup file'.pending) = {}
  BY <1>3, <1>5, <1>6, <1>7 DEF CountsOK
<1>10. CountsOK'
  BY <1>2, <1>7, <1>8, <1>9 DEF CountsOK
<1>11. JobOK'
  BY DEF AddCounts, JobOK, NoPass
<1> QED
  BY <1>3, <1>10, <1>11

-----------------------------------------------------------------------------
(* Steps that change the file or the batches keep the counts if units only
   leave what is pending, and the batch of the file is a part of the one before
   under its id, or nothing, or pending units under a new id. *)
LEMMA CountsMove ==
    ASSUME CountsOK, Sources' \subseteq Sources, file'.pending \subseteq file.pending,
           NEW id,
           wire' \subseteq wire \cup {file.batch}, billed' = billed,
           used \subseteq used',
           \/ /\ file'.batch.id = file.batch.id
              /\ file'.batch.units \subseteq file.batch.units
              /\ file'.batch = NoBatch \/ file.batch # NoBatch
           \/ file'.batch = NoBatch
           \/ /\ file'.batch.id = id /\ id \notin used /\ id \in used'
              /\ file'.batch.units \subseteq file.pending
              /\ file'.pending = {}
    PROVE  CountsOK'
<1>1. NoBatch.units = {}
  BY DEF NoBatch
<1>2. \A m \in Batches' : m = file'.batch \/ m \in Batches
  BY DEF Batches
<1>3. file.batch \in Batches
  BY DEF Batches
<1>4. Sources' \cap file'.pending = {}
  BY DEF CountsOK
<1>5. file'.batch.units \cap (Sources' \cup file'.pending) = {}
  BY <1>1, <1>3 DEF CountsOK
<1>6. \A m \in Batches : m.id # file'.batch.id => m.units \cap file'.batch.units = {}
  BY <1>1, <1>3 DEF CountsOK
<1>7. file'.batch = NoBatch \/ file'.batch.id \in used'
  BY <1>3 DEF CountsOK
<1>8. \A m \in Batches : m.units \cap (Sources' \cup file'.pending) = {}
  BY DEF CountsOK
<1>9. \A m, n \in Batches : m.id # n.id => m.units \cap n.units = {}
  BY DEF CountsOK
<1>10. \A m \in Batches : m = NoBatch \/ m.id \in used'
  BY DEF CountsOK
<1>11. \A b, c \in billed' : b.id = c.id => b = c
  BY DEF CountsOK
<1> QED
  BY <1>2, <1>4, <1>5, <1>6, <1>7, <1>8, <1>9, <1>10, <1>11 DEF CountsOK

(* A batch is written, under its id or a new one. *)
LEMMA SubmitStep ==
    ASSUME IInv, NEW id \in Id, Submit(id)
    PROVE  SourcesApart' /\ CountsOK' /\ JobOK'
<1> USE DEF IInv
<1>1. UNCHANGED <<meter, calls, marks, opened, log, stale, wire, billed>>
  BY DEF Submit, sourceVars, cloudVars
<1>2. Held' = {}
  BY DEF Submit, Held, NoPass
<1>3. SourcesApart' /\ Sources' \subseteq Sources
  BY <1>1, <1>2, SourcesStay
<1>4. file \in Count /\ file.batch \in Batch
  BY DEF TypeOK, Count
<1>5. CountsOK'
  <2>1. CASE Kept(file) # {}
    <3>1. file' = Resent(file) /\ used' = used
      BY <2>1 DEF Submit
    <3>2. /\ file'.pending = file.pending
          /\ file'.batch.id = file.batch.id
          /\ file'.batch.units = Kept(file) /\ Kept(file) \subseteq file.batch.units
      BY <1>4, <3>1 DEF Resent, Kept, Count, Batch
    <3>3. file.batch # NoBatch
      BY <2>1, <3>2 DEF NoBatch
    <3> QED
      BY <1>1, <1>3, <3>1, <3>2, <3>3, CountsMove
  <2>2. CASE Kept(file) = {}
    <3>1. file' = Batched(file, id) /\ id \notin used /\ used' = used \cup {id}
      BY <2>2 DEF Submit
    <3>2. /\ file'.pending = {}
          /\ file'.batch.id = id
          /\ file'.batch.units \subseteq file.pending
      BY <3>1 DEF Batched
    <3> QED
      BY <1>1, <1>3, <3>1, <3>2, CountsMove
  <2> QED
    BY <2>1, <2>2
<1>6. JobOK'
  BY DEF Submit, JobOK, NoPass
<1> QED
  BY <1>3, <1>5, <1>6

(* The request, its answer, or no submission. *)
LEMMA AnswerStep ==
    ASSUME IInv, SkipSubmit \/ Send \/ Finish
    PROVE  SourcesApart' /\ CountsOK' /\ JobOK'
<1> USE DEF IInv
<1>1. UNCHANGED <<meter, calls, marks, opened, log, stale, billed, used>>
  BY DEF SkipSubmit, Send, Finish, sourceVars, cloudVars
<1>2. Held' = {}
  BY DEF SkipSubmit, Send, Finish, Held, NoPass, TypeOK, Pass
<1>3. SourcesApart' /\ Sources' \subseteq Sources
  BY <1>1, <1>2, SourcesStay
<1>4. file \in Count
  BY DEF TypeOK
<1>5. CASE SkipSubmit
  <2>1. wire' = wire
    BY <1>5 DEF SkipSubmit, cloudVars
  <2>2. file' = file \/ (file'.pending = {} /\ file'.batch = NoBatch)
    BY <1>5 DEF SkipSubmit, Emptied, Batched
  <2>3. CountsOK'
    BY <1>1, <1>3, <2>1, <2>2, CountsMove
  <2>4. JobOK'
    BY <1>5 DEF SkipSubmit, JobOK, NoPass
  <2> QED
    BY <1>3, <2>3, <2>4
<1>6. CASE Send
  <2>1. file' = file /\ pass.file = file /\ wire' = wire \cup {file.batch}
    BY <1>6 DEF Send, JobOK
  <2>2. CountsOK'
    BY <1>1, <1>3, <2>1, CountsMove
  <2>3. JobOK'
    BY <1>6, <2>1 DEF Send, JobOK, TypeOK, Pass
  <2> QED
    BY <1>3, <2>2, <2>3
<1>7. CASE Finish
  <2>1. pass.file = file /\ wire' = wire
    BY <1>7 DEF Finish, JobOK, cloudVars
  <2>2. file'.pending = file.pending /\ (file'.batch = NoBatch \/ file'.batch = file.batch)
    BY <1>4, <1>7, <2>1 DEF Finish, Count
  <2>3. CountsOK'
    BY <1>1, <1>3, <2>1, <2>2, CountsMove
  <2>4. JobOK'
    BY <1>7 DEF Finish, JobOK, NoPass
  <2> QED
    BY <1>3, <2>3, <2>4
<1> QED
  BY <1>5, <1>6, <1>7

(* The cloud takes a request, and bills it if its id is new. *)
LEMMA CloudStep ==
    ASSUME IInv, NEW m \in wire, Accept(m) \/ Refuse(m) \/ Lose(m)
    PROVE  SourcesApart' /\ CountsOK' /\ JobOK'
<1> USE DEF IInv
<1>1. UNCHANGED <<meter, calls, marks, opened, log, stale, file, used>>
  BY DEF Accept, Refuse, Lose, sourceVars
<1>2. /\ pass'.at = pass.at /\ pass'.units = pass.units /\ pass'.marks = pass.marks
      /\ pass'.session = pass.session /\ pass'.calls = pass.calls /\ pass'.file = pass.file
  BY DEF Accept, Refuse, Lose, TypeOK, Pass
<1>3. SourcesApart' /\ Sources' \subseteq Sources
  BY <1>1, <1>2, SourcesStay DEF Held
<1>4. wire' = wire \ {m} /\ (billed' = billed \/ billed' = billed \cup {m})
  BY DEF Accept, Refuse, Lose
<1>5. billed' = billed \/ \A b \in billed : b.id # m.id
  BY DEF Accept, Refuse, Lose
<1>6. Batches' \subseteq Batches
  BY <1>1, <1>4 DEF Batches
<1>7. \A b, c \in billed' : b.id = c.id => b = c
  BY <1>4, <1>5 DEF CountsOK
<1>8. CountsOK'
  BY <1>1, <1>3, <1>6, <1>7 DEF CountsOK
<1>9. JobOK'
  BY <1>1, <1>2 DEF JobOK
<1> QED
  BY <1>3, <1>8, <1>9

(* A pass is killed, or time goes by. *)
LEMMA OtherStep ==
    ASSUME IInv, Crash \/ Later \/ NewDay \/ UNCHANGED vars
    PROVE  SourcesApart' /\ CountsOK' /\ JobOK'
<1> USE DEF IInv
<1>1. UNCHANGED <<meter, calls, marks, opened, log, stale, file, wire, billed, used>>
  BY DEF Crash, Later, NewDay, vars, sourceVars, cloudVars
<1>2. pass' = NoPass \/ pass' = pass
  BY DEF Crash, Later, NewDay, vars
<1>3. SourcesApart' /\ Sources' \subseteq Sources
  BY <1>1, <1>2, SourcesStay DEF Held, NoPass
<1>4. CountsOK'
  BY <1>1, <1>3, CountsStay
<1>5. JobOK'
  BY <1>1, <1>2 DEF JobOK, NoPass
<1> QED
  BY <1>3, <1>4, <1>5

LEMMA IInvNext == IInv /\ [Next]_vars => IInv'
<1> SUFFICES ASSUME IInv, [Next]_vars PROVE IInv'
  OBVIOUS
<1>1. TypeOK'
  BY TypeNext DEF IInv
<1>2. ASSUME NEW s \in Session, Call(s) \/ OpenLog(s) PROVE IInv'
  BY <1>1, <1>2, CaptureStep
<1>3. ASSUME NEW u \in Unit, AppendSignal(u) PROVE IInv'
  BY <1>1, <1>3, SignalStep
<1>4. ASSUME NEW s \in Session, Stat(s) PROVE IInv'
  BY <1>1, <1>4, DetectStep
<1>5. CASE Begin \/ Read \/ ReadNothing \/ AppendFindings \/ FailDetection \/ ReadLog
  BY <1>1, <1>5, DetectStep
<1>6. CASE WriteMarks
  BY <1>1, <1>6, WriteMarksStep DEF IInv
<1>7. CASE TakeLog
  BY <1>1, <1>7, TakeLogStep DEF IInv
<1>8. CASE AddCounts
  BY <1>1, <1>8, AddCountsStep DEF IInv
<1>9. ASSUME NEW id \in Id, Submit(id) PROVE IInv'
  BY <1>1, <1>9, SubmitStep DEF IInv
<1>10. CASE SkipSubmit \/ Send \/ Finish
  BY <1>1, <1>10, AnswerStep DEF IInv
<1>11. ASSUME NEW m \in wire, Accept(m) \/ Refuse(m) \/ Lose(m) PROVE IInv'
  BY <1>1, <1>11, CloudStep DEF IInv
<1>12. CASE Crash \/ Later \/ NewDay \/ UNCHANGED vars
  BY <1>1, <1>12, OtherStep DEF IInv
<1> QED
  BY <1>2, <1>3, <1>4, <1>5, <1>6, <1>7, <1>8, <1>9, <1>10, <1>11, <1>12 DEF Next, PassStep

(* The invariant of counting and submitting. *)
THEOREM IInvCorrect == Spec => []IInv
BY IInvInit, IInvNext, PTL DEF Spec

(* advanced-usage.ts: no call is in two batches that the cloud has counted,
   however often a batch is sent, and whatever is lost or killed. *)
THEOREM BilledOnceAlways == Spec => []BilledOnce
<1>1. IInv => BilledOnce
  BY DEF IInv, CountsOK, Batches, BilledOnce
<1> QED
  BY <1>1, IInvCorrect, PTL

-----------------------------------------------------------------------------
(* What a mark says of its session.  The log is a parameter, so that a lemma
   can speak of two states of it: c are the calls, F the findings. *)

SizeIn(c, F, s) == c[s] + Cardinality(FoundIn(F, s))

MarkTrue(k, s, c, F) ==
    /\ k.seen # None => k.seen <= SizeIn(c, F, s)
    /\ Done(k) <= c[s]
    /\ k.seen = SizeIn(c, F, s) => Done(k) = c[s] /\ {s} \X (1..c[s]) \subseteq F

MarksOK == \A s \in Session : MarkTrue(marks[s], s, calls, found)

PassMarksOK ==
    pass.at \in {"stat", "read", "append"} =>
        \A s \in Session : MarkTrue(pass.marks[s], s, calls, found)

(* What a pass has read of a session: all of it, unless it grew after its size
   was taken. *)
ReadTrue(size, n, seen, s, c, F) ==
    /\ size <= SizeIn(c, F, s)
    /\ n <= c[s]
    /\ seen \subseteq F
    /\ size = SizeIn(c, F, s) => n = c[s]

ReadOK ==
    /\ pass.at = "read" => pass.size <= SizeIn(calls, found, pass.session)
    /\ pass.at = "append" =>
         ReadTrue(pass.size, pass.calls, pass.read, pass.session, calls, found)

MInv == TypeOK /\ MarksOK /\ PassMarksOK /\ ReadOK

-----------------------------------------------------------------------------
(* A log that grows is larger, or is the same in this session. *)
LEMMA SizeGrows ==
    ASSUME NEW c \in [Session -> Nat], NEW d \in [Session -> Nat], NEW s \in Session,
           NEW F, NEW G, IsFiniteSet(F), IsFiniteSet(G),
           c[s] <= d[s], F \subseteq G
    PROVE  /\ SizeIn(c, F, s) \in Nat /\ SizeIn(d, G, s) \in Nat
           /\ SizeIn(c, F, s) <= SizeIn(d, G, s)
           /\ SizeIn(c, F, s) = SizeIn(d, G, s) => c[s] = d[s] /\ FoundIn(F, s) = FoundIn(G, s)
<1>1. Cardinality(FoundIn(F, s)) \in Nat /\ Cardinality(FoundIn(G, s)) \in Nat
  BY FoundFinite
<1>2. /\ Cardinality(FoundIn(F, s)) <= Cardinality(FoundIn(G, s))
      /\ Cardinality(FoundIn(F, s)) = Cardinality(FoundIn(G, s)) => FoundIn(F, s) = FoundIn(G, s)
  BY FoundGrows
<1>3. c[s] \in Nat /\ d[s] \in Nat
  OBVIOUS
<1> QED
  BY <1>1, <1>2, <1>3 DEF SizeIn

(* Marks, and what a pass has read, stay true while the log grows. *)
LEMMA MarkStays ==
    ASSUME NEW c \in [Session -> Nat], NEW d \in [Session -> Nat], NEW s \in Session,
           NEW F, NEW G, IsFiniteSet(F), IsFiniteSet(G),
           c[s] <= d[s], F \subseteq G,
           NEW k \in Mark, MarkTrue(k, s, c, F)
    PROVE  MarkTrue(k, s, d, G)
<1>1. /\ SizeIn(c, F, s) \in Nat /\ SizeIn(d, G, s) \in Nat
      /\ SizeIn(c, F, s) <= SizeIn(d, G, s)
      /\ SizeIn(c, F, s) = SizeIn(d, G, s) => c[s] = d[s]
  BY SizeGrows
<1>2. /\ k.seen \in Nat \cup {None} /\ Done(k) \in Nat /\ c[s] \in Nat /\ d[s] \in Nat
      /\ None \notin Nat
  BY DoneType, MeterAssumption DEF Mark
<1>3. k.seen = SizeIn(d, G, s) => k.seen = SizeIn(c, F, s) /\ c[s] = d[s]
  BY <1>1, <1>2 DEF MarkTrue
<1> QED
  BY <1>1, <1>2, <1>3 DEF MarkTrue

LEMMA ReadStays ==
    ASSUME NEW c \in [Session -> Nat], NEW d \in [Session -> Nat], NEW s \in Session,
           NEW F, NEW G, IsFiniteSet(F), IsFiniteSet(G),
           c[s] <= d[s], F \subseteq G,
           NEW size \in Nat, NEW n \in Nat, NEW seen, ReadTrue(size, n, seen, s, c, F)
    PROVE  ReadTrue(size, n, seen, s, d, G)
<1>1. /\ SizeIn(c, F, s) \in Nat /\ SizeIn(d, G, s) \in Nat
      /\ SizeIn(c, F, s) <= SizeIn(d, G, s)
      /\ SizeIn(c, F, s) = SizeIn(d, G, s) => c[s] = d[s]
  BY SizeGrows
<1>2. c[s] \in Nat /\ d[s] \in Nat
  OBVIOUS
<1> QED
  BY <1>1, <1>2 DEF ReadTrue

(* Steps that let the log grow and leave the marks and the pass's work alone. *)
LEMMA LogGrows ==
    ASSUME MInv, TypeOK', \A s \in Session : calls[s] <= calls'[s], found' = found, marks' = marks,
           \/ pass'.at \notin {"stat", "read", "append"}
           \/ /\ pass'.at = pass.at /\ pass'.marks = pass.marks /\ pass'.session = pass.session
              /\ pass'.size = pass.size /\ pass'.calls = pass.calls /\ pass'.read = pass.read
    PROVE  MarksOK' /\ PassMarksOK' /\ ReadOK'
<1> USE DEF MInv
<1>1. /\ calls \in [Session -> Nat] /\ calls' \in [Session -> Nat]
      /\ IsFiniteSet(found) /\ found \subseteq found'
      /\ marks \in [Session -> Mark]
  BY DEF TypeOK
<1>2. MarksOK'
  BY <1>1, MarkStays DEF MarksOK
<1>3. CASE pass'.at \notin {"stat", "read", "append"}
  BY <1>2, <1>3 DEF PassMarksOK, ReadOK
<1>4. CASE /\ pass'.at = pass.at /\ pass'.marks = pass.marks /\ pass'.session = pass.session
           /\ pass'.size = pass.size /\ pass'.calls = pass.calls /\ pass'.read = pass.read
  <2>1. /\ pass.marks \in [Session -> Mark] /\ pass.size \in Nat /\ pass.calls \in Nat
        /\ pass.at \in {"read", "append"} => pass.session \in Session
    BY DEF TypeOK, Pass
  <2>2. PassMarksOK'
    BY <1>1, <1>4, <2>1, MarkStays DEF PassMarksOK
  <2>3. CASE pass.at = "read"
    <3>1. /\ SizeIn(calls, found, pass.session) \in Nat /\ SizeIn(calls', found', pass.session) \in Nat
          /\ SizeIn(calls, found, pass.session) <= SizeIn(calls', found', pass.session)
      BY <1>1, <2>1, <2>3, SizeGrows
    <3> QED
      BY <1>2, <1>4, <2>1, <2>2, <2>3, <3>1 DEF ReadOK
  <2>4. CASE pass.at = "append"
    <3>1. ReadTrue(pass.size, pass.calls, pass.read, pass.session, calls', found')
      BY <1>1, <2>1, <2>4, ReadStays DEF ReadOK
    <3> QED
      BY <1>2, <1>4, <2>2, <2>4, <3>1 DEF ReadOK
  <2>5. CASE pass.at \notin {"read", "append"}
    BY <1>2, <1>4, <2>2, <2>5 DEF ReadOK
  <2> QED
    BY <2>3, <2>4, <2>5
<1> QED
  BY <1>3, <1>4

LEMMA MInvInit == Init => MInv
<1> SUFFICES ASSUME Init PROVE MInv
  OBVIOUS
<1>1. TypeOK
  BY TypeInit
<1>2. \A s \in Session : /\ FoundIn(found, s) = {} /\ calls[s] = 0
                         /\ marks[s].seen = None /\ Done(marks[s]) = 0
  BY DEF Init, FoundIn, NoMark, Done
<1>3. \A s \in Session : SizeIn(calls, found, s) = 0
  BY <1>2, FS_EmptySet DEF SizeIn
<1>4. \A s : {s} \X (1..0) = {}
  OBVIOUS
<1>5. MarksOK
  BY <1>2, <1>3, <1>4 DEF MarksOK, MarkTrue
<1>6. PassMarksOK /\ ReadOK
  BY DEF Init, NoPass, PassMarksOK, ReadOK
<1> QED
  BY <1>1, <1>5, <1>6 DEF MInv

(* Detection up to the findings. *)
LEMMA LookStep ==
    ASSUME MInv, TypeOK', Begin \/ (\E s \in Session : Stat(s)) \/ Read
    PROVE  MarksOK' /\ PassMarksOK' /\ ReadOK'
<1> USE DEF MInv
<1>1. UNCHANGED <<calls, found, marks>>
  BY DEF Begin, Stat, Read, sourceVars
<1>2. MarksOK'
  BY <1>1 DEF MarksOK
<1>3. CASE Begin
  <2>1. pass'.at \in {"stat", "take"} /\ (pass'.at = "stat" => pass'.marks = marks)
    BY <1>3 DEF Begin, NoPass
  <2> QED
    BY <1>1, <1>2, <2>1 DEF MarksOK, PassMarksOK, ReadOK
<1>4. ASSUME NEW s \in Session, Stat(s) PROVE MarksOK' /\ PassMarksOK' /\ ReadOK'
  <2>1. /\ pass.at = "stat" /\ pass'.marks = pass.marks
        /\ \/ pass'.at = "stat"
           \/ pass'.at = "read" /\ pass'.session = s /\ pass'.size = SizeIn(calls, found, s)
    BY <1>4, SizeIs DEF Stat, TypeOK, Pass, SizeIn
  <2>2. SizeIn(calls, found, s) \in Nat
    BY SizeType, SizeIs DEF SizeIn
  <2> QED
    BY <1>1, <1>2, <2>1, <2>2 DEF PassMarksOK, ReadOK
<1>5. CASE Read
  <2>1. /\ pass.at = "read" /\ pass'.at = "append" /\ pass'.marks = pass.marks
        /\ pass'.session = pass.session /\ pass'.size = pass.size
        /\ pass'.calls = calls[pass.session] /\ pass'.read \subseteq found
    <3>1. PICK active, units, free1, skipped1 :
            pass' = [pass EXCEPT !.at = "append", !.calls = calls[pass.session],
                                 !.read = {u \in found : u[1] = pass.session},
                                 !.units = IF active THEN units ELSE @,
                                 !.free = IF active THEN @ ELSE free1,
                                 !.skipped = skipped1]
      <4> DEFINE done == Done(pass.marks[pass.session])
                 prior == Prior(pass.marks[pass.session], calls[pass.session])
                 new == {pass.session} \X (prior + 1 .. calls[pass.session])
      <4>1. PICK active \in BOOLEAN :
              pass' = [pass EXCEPT !.at = "append", !.calls = calls[pass.session],
                                   !.read = {u \in found : u[1] = pass.session},
                                   !.units = IF active THEN @ \cup new ELSE @,
                                   !.free = IF active THEN @ ELSE @ \cup new,
                                   !.skipped = @ \cup ({pass.session} \X (done + 1 .. prior))]
        BY <1>5 DEF Read
      <4> HIDE DEF done, prior, new
      <4> WITNESS active, pass.units \cup new, pass.free \cup new,
                  pass.skipped \cup ({pass.session} \X (done + 1 .. prior))
      <4> QED
        BY <4>1
    <3>2. pass.at = "read"
      BY <1>5 DEF Read
    <3> QED
      BY <3>1, <3>2 DEF TypeOK, Pass
  <2>2. calls[pass.session] \in Nat
    BY <2>1 DEF TypeOK
  <2> QED
    BY <1>1, <1>2, <2>1, <2>2 DEF PassMarksOK, ReadOK, ReadTrue
<1> QED
  BY <1>3, <1>4, <1>5

(* The findings are appended, and the mark of the session follows. *)
LEMMA FindingsStep ==
    ASSUME MInv, TypeOK', AppendFindings
    PROVE  MarksOK' /\ PassMarksOK' /\ ReadOK'
<1> USE DEF MInv
<1> DEFINE r == pass.session
           k == [seen |-> pass.size, counted |-> Bigger(Done(pass.marks[r]), pass.calls)]
<1>1. /\ calls \in [Session -> Nat] /\ calls' = calls /\ marks' = marks
      /\ IsFiniteSet(found) /\ IsFiniteSet(found') /\ found \subseteq found'
      /\ marks \in [Session -> Mark]
  BY DEF AppendFindings, TypeOK
<1>2. /\ r \in Session /\ pass.marks \in [Session -> Mark] /\ pass.calls \in Nat /\ pass.size \in Nat
      /\ ReadTrue(pass.size, pass.calls, pass.read, r, calls, found)
      /\ \A s \in Session : MarkTrue(pass.marks[s], s, calls, found)
  BY DEF AppendFindings, TypeOK, Pass, ReadOK, PassMarksOK
<1>3. MarksOK'
  BY <1>1, MarkStays DEF MarksOK
<1>4. pass'.at = "stat" /\ pass'.marks = [pass.marks EXCEPT ![r] = k]
  BY DEF AppendFindings, TypeOK, Pass
<1>5. {r} \X (1..pass.calls) \subseteq found'
  BY <1>2 DEF AppendFindings, ReadTrue
<1>6. /\ SizeIn(calls, found, r) \in Nat /\ SizeIn(calls, found', r) \in Nat
      /\ SizeIn(calls, found, r) <= SizeIn(calls, found', r)
  BY <1>1, <1>2, SizeGrows
<1>7. Done(pass.marks[r]) \in Nat /\ Done(pass.marks[r]) <= calls[r] /\ calls[r] \in Nat
  BY <1>1, <1>2, DoneType DEF MarkTrue
<1>12. Done(k) = Bigger(Done(pass.marks[r]), pass.calls)
  BY <1>2, <1>7, MeterAssumption DEF Done, Bigger
<1>8. MarkTrue(k, r, calls, found')
  <2>1. k.seen = pass.size /\ k.seen <= SizeIn(calls, found', r)
    BY <1>2, <1>6 DEF ReadTrue
  <2>2. Done(k) <= calls[r]
    BY <1>2, <1>7, <1>12 DEF Bigger, ReadTrue
  <2>3. ASSUME k.seen = SizeIn(calls, found', r)
        PROVE  Done(k) = calls[r] /\ {r} \X (1..calls[r]) \subseteq found'
    <3>1. pass.calls = calls[r]
      BY <1>2, <1>6, <2>3 DEF ReadTrue
    <3>2. Done(k) = calls[r]
      BY <1>7, <1>12, <3>1 DEF Bigger
    <3> QED
      BY <1>5, <3>1, <3>2
  <2> QED
    BY <2>1, <2>2, <2>3 DEF MarkTrue
<1>9. \A s \in Session : MarkTrue(pass.marks[s], s, calls, found')
  BY <1>1, <1>2, MarkStays
<1> HIDE DEF k
<1>10. PassMarksOK'
  BY <1>1, <1>2, <1>4, <1>8, <1>9 DEF PassMarksOK
<1>11. ReadOK'
  BY <1>4 DEF ReadOK
<1> QED
  BY <1>3, <1>10, <1>11

(* A session without a whole event gets a size for a mark. *)
LEMMA NothingStep ==
    ASSUME MInv, TypeOK', ReadNothing
    PROVE  MarksOK' /\ PassMarksOK' /\ ReadOK'
<1> USE DEF MInv
<1> DEFINE r == pass.session
<1>1. UNCHANGED <<calls, found, marks>> /\ calls \in [Session -> Nat]
  BY DEF ReadNothing, sourceVars, TypeOK
<1>2. /\ r \in Session /\ pass'.at = "stat" /\ calls[r] = 0 /\ Done(pass.marks[r]) = 0
      /\ pass'.marks = [pass.marks EXCEPT ![r].seen = pass.size]
      /\ \A t \in Session : Done(pass'.marks[t]) = Done(pass.marks[t])
  BY NothingSet
<1>3. /\ pass.marks \in [Session -> Mark] /\ pass.size <= SizeIn(calls, found, r)
      /\ \A s \in Session : MarkTrue(pass.marks[s], s, calls, found)
  BY DEF ReadNothing, TypeOK, Pass, ReadOK, PassMarksOK
<1>4. ASSUME NEW s \in Session PROVE MarkTrue(pass'.marks[s], s, calls, found)
  <2>1. CASE s = r
    <3>1. pass'.marks[r].seen = pass.size /\ Done(pass'.marks[r]) = 0
      BY <1>2, <1>3 DEF Mark
    <3>2. {r} \X (1..0) = {}
      OBVIOUS
    <3> QED
      BY <1>2, <1>3, <2>1, <3>1, <3>2 DEF MarkTrue
  <2>2. CASE s # r
    <3>1. pass'.marks[s] = pass.marks[s]
      BY <1>2, <1>3, <2>2
    <3> QED
      BY <1>3, <3>1
  <2> QED
    BY <2>1, <2>2
<1> QED
  BY <1>1, <1>2, <1>4 DEF MarksOK, PassMarksOK, ReadOK

LEMMA MInvNext == MInv /\ [Next]_vars => MInv'
<1> SUFFICES ASSUME MInv, [Next]_vars PROVE MInv'
  OBVIOUS
<1> USE DEF MInv
<1>1. TypeOK'
  BY TypeNext
<1>2. \A s \in Session : calls[s] \in Nat
  BY DEF TypeOK
<1>3. ASSUME NEW s \in Session, Call(s) \/ OpenLog(s) PROVE MInv'
  <2>1. /\ \A t \in Session : calls[t] <= calls'[t]
        /\ found' = found /\ marks' = marks /\ pass' = pass
    BY <1>2, <1>3 DEF Call, OpenLog, TypeOK
  <2> QED
    BY <1>1, <2>1, LogGrows
<1>4. ASSUME NEW u \in Unit, AppendSignal(u) PROVE MInv'
  <2>1. /\ calls' = calls /\ found' = found /\ marks' = marks
        /\ \/ pass' = pass
           \/ pass'.at = "taken"
    BY <1>4 DEF AppendSignal, TypeOK, Pass
  <2>2. \A t \in Session : calls[t] <= calls'[t]
    BY <1>2, <2>1
  <2> QED
    BY <1>1, <2>1, <2>2, LogGrows
<1>5. CASE Begin \/ (\E s \in Session : Stat(s)) \/ Read
  BY <1>1, <1>5, LookStep
<1>6. CASE AppendFindings
  BY <1>1, <1>6, FindingsStep
<1>10. CASE ReadNothing
  BY <1>1, <1>10, NothingStep
<1>7. CASE WriteMarks
  <2>1. calls' = calls /\ found' = found /\ marks' = pass.marks /\ pass'.at \in {"add", "submit"}
    BY <1>7 DEF WriteMarks, NoPass
  <2>2. \A s \in Session : MarkTrue(pass.marks[s], s, calls, found)
    BY <1>7 DEF WriteMarks, PassMarksOK
  <2> QED
    BY <1>1, <2>1, <2>2 DEF MarksOK, PassMarksOK, ReadOK
<1>8. CASE FailDetection \/ TakeLog \/ ReadLog \/ AddCounts \/ SkipSubmit \/ Send \/ Finish \/ Crash
           \/ Later \/ NewDay \/ (\E id \in Id : Submit(id)) \/ UNCHANGED vars
  <2>1. calls' = calls /\ found' = found /\ marks' = marks
    BY <1>8 DEF FailDetection, TakeLog, ReadLog, AddCounts, SkipSubmit, Send, Finish, Crash,
       Later, NewDay, Submit, vars, sourceVars
  <2>2. pass'.at \notin {"stat", "read", "append"} \/ pass' = pass
    <3>1. CASE FailDetection \/ AddCounts \/ SkipSubmit \/ Finish \/ Crash
      BY <3>1 DEF FailDetection, AddCounts, SkipSubmit, Finish, Crash, NoPass
    <3>2. CASE TakeLog \/ ReadLog \/ Send
      BY <3>2 DEF TakeLog, ReadLog, Send, TypeOK, Pass
    <3>3. ASSUME NEW id \in Id, Submit(id) PROVE pass'.at = "send"
      BY <3>3 DEF Submit, NoPass
    <3>4. CASE Later \/ NewDay \/ UNCHANGED vars
      BY <3>4 DEF Later, NewDay, vars
    <3> QED
      BY <1>8, <3>1, <3>2, <3>3, <3>4
  <2>3. \A t \in Session : calls[t] <= calls'[t]
    BY <1>2, <2>1
  <2> QED
    BY <1>1, <2>1, <2>2, <2>3, LogGrows
<1>9. ASSUME NEW m \in wire, Accept(m) \/ Refuse(m) \/ Lose(m) PROVE MInv'
  <2>1. /\ calls' = calls /\ found' = found /\ marks' = marks
        /\ pass'.at = pass.at /\ pass'.marks = pass.marks /\ pass'.session = pass.session
        /\ pass'.size = pass.size /\ pass'.calls = pass.calls /\ pass'.read = pass.read
    BY <1>9 DEF Accept, Refuse, Lose, sourceVars, TypeOK, Pass
  <2>2. \A t \in Session : calls[t] <= calls'[t]
    BY <1>2, <2>1
  <2> QED
    BY <1>1, <2>1, <2>2, LogGrows
<1> QED
  BY <1>3, <1>4, <1>5, <1>6, <1>7, <1>8, <1>9, <1>10 DEF Next, PassStep

(* detect-log.ts:19-20: a session whose size is the one in its mark, which the
   next pass skips, has every call counted and every finding in the log. *)
THEOREM NothingMissedAlways == Spec => []NothingMissed
<1>1. MInv => NothingMissed
  BY SizeIs DEF MInv, MarksOK, MarkTrue, SizeIn, NothingMissed
<1> QED
  BY <1>1, MInvInit, MInvNext, PTL DEF Spec

-----------------------------------------------------------------------------
(* Where a counted unit is.  What a detection has looked at is between the marks
   in the file and those it will write. *)

Looking == pass.at \in {"stat", "read", "append"}

Within(u) ==
    /\ u[2] > Done(marks[u[1]])
    /\ \/ u[2] <= Done(pass.marks[u[1]])
       \/ pass.at = "append" /\ u[1] = pass.session /\ u[2] <= pass.calls

LookedOK ==
    Looking => /\ pass.units \cup pass.free \cup pass.skipped = {u \in Pair : Within(u)}
               /\ pass.units \cap (pass.free \cup pass.skipped) = {}
               /\ pass.free \cap pass.skipped = {}

Active == Sources \cup file.pending \cup file.batch.units

(* A unit that left for good is nowhere else. *)
GoneApart ==
    /\ Active \cap (file.dropped \cup acked \cup lost \cup free \cup skipped) = {}
    /\ file.dropped \cap (acked \cup lost \cup free \cup skipped) = {}
    /\ acked \cap (lost \cup free \cup skipped) = {}
    /\ lost \cap (free \cup skipped) = {}
    /\ free \cap skipped = {}

Everywhere == Active \cup file.dropped \cup acked \cup lost \cup free \cup skipped

PlacesInv ==
    /\ LookedOK
    /\ GoneApart
    /\ {u \in Pair : u[2] > 0} \subseteq Everywhere

LEMMA PlacesInit == Init => PlacesInv
<1> SUFFICES ASSUME Init PROVE PlacesInv
  OBVIOUS
<1>1. /\ pass.at = "idle" /\ file.dropped = {} /\ acked = {} /\ lost = {} /\ free = {}
      /\ skipped = {}
  BY DEF Init, NoPass, EmptyFile
<1>2. {u \in Pair : u[2] > 0} \subseteq Uncounted
  <2>1. \A u \in Pair : u[1] \in Session
    BY DEF Pair
  <2> QED
    BY <2>1 DEF Init, Uncounted, NoMark, Done
<1> QED
  BY <1>1, <1>2 DEF PlacesInv, LookedOK, Looking, GoneApart, Everywhere, Active, Sources

(* Steps that move units among the places before the end. *)
LEMMA PlacesStay ==
    ASSUME PlacesInv, LookedOK', Active' = Active, file'.dropped = file.dropped,
           UNCHANGED <<acked, lost, free, skipped>>
    PROVE  PlacesInv'
BY DEF PlacesInv, GoneApart, Everywhere

LEMMA PlacesCapture ==
    ASSUME IInv, PlacesInv, NEW s \in Session, Call(s) \/ OpenLog(s)
    PROVE  PlacesInv'
<1>1. LookedOK'
  <2>1. UNCHANGED <<pass, marks>>
    BY DEF Call, OpenLog
  <2> QED
    BY <2>1 DEF PlacesInv, LookedOK, Looking, Within
<1>2. Sources' = Sources
  <2>1. CASE Call(s)
    BY <2>1 DEF Call, Sources, Uncounted, Held
  <2>2. CASE OpenLog(s)
    <3> DEFINE n == <<s, calls[s] + 1>>
    <3>1. Uncounted' = Uncounted \ {n} /\ n \in Uncounted
      BY <2>2 DEF OpenLog, Uncounted, IInv, TypeOK, Pair
    <3>2. Held' = Held /\ opened' = opened \cup {n} /\ UNCHANGED <<log, stale>>
      BY <2>2 DEF OpenLog, Held
    <3> QED
      BY <3>1, <3>2 DEF Sources
  <2> QED
    BY <2>1, <2>2
<1>3. UNCHANGED <<file, acked, lost, free, skipped>>
  BY DEF Call, OpenLog, historyVars
<1> QED
  BY <1>1, <1>2, <1>3, PlacesStay DEF Active

LEMMA PlacesSignal ==
    ASSUME IInv, PlacesInv, NEW u \in Unit, AppendSignal(u)
    PROVE  PlacesInv'
<1> USE DEF IInv
<1>1. Uncounted' = Uncounted /\ UNCHANGED <<file, acked, free, skipped, marks>>
  BY DEF AppendSignal, Uncounted
<1>2. LookedOK'
  BY DEF AppendSignal, PlacesInv, LookedOK, Looking, Within, TypeOK, Pass
<1>3. CASE u \in opened /\ pass' = pass /\ log' = log \cup {u} /\ opened' = opened \ {u}
           /\ UNCHANGED <<stale, lost>>
  <2>1. Held' = Held
    BY <1>3 DEF Held
  <2>2. Active' = Active
    BY <1>1, <1>3, <2>1 DEF Active, Sources
  <2> QED
    BY <1>1, <1>2, <1>3, <2>2, PlacesStay
<1>4. CASE u \in stale /\ stale' = stale \ {u} /\ UNCHANGED <<opened, log>>
  <2>1. CASE pass.at = "taken"
    <3>1. Held' = Held \cup {u} /\ lost' = lost
      <4>1. pass'.at = "taken" /\ pass'.units = pass.units \cup {u}
        BY <1>4, <2>1 DEF AppendSignal, TypeOK, Pass, SourcesApart
      <4> QED
        BY <1>4, <2>1, <4>1 DEF AppendSignal, Held, SourcesApart
    <3>2. Active' = Active
      BY <1>1, <1>4, <3>1 DEF Active, Sources
    <3> QED
      BY <1>1, <1>2, <3>1, <3>2, PlacesStay
  <2>2. CASE pass.at # "taken"
    <3>1. Held' = Held /\ lost' = lost \cup {u}
      BY <1>4, <2>2 DEF AppendSignal, Held, SourcesApart
    <3>2. u \notin Uncounted /\ u \notin opened /\ u \notin log /\ u \notin Held
      BY <1>4 DEF SourcesApart
    <3>3. u \in Sources /\ u \notin file.pending /\ u \notin file.batch.units
      BY <1>4 DEF Sources, CountsOK, Batches
    <3>4. Active' = Active \ {u} /\ u \in Active
      BY <1>1, <1>4, <3>1, <3>2, <3>3 DEF Active, Sources
    <3> QED
      BY <1>1, <1>2, <3>1, <3>4 DEF PlacesInv, GoneApart, Everywhere
  <2> QED
    BY <2>1, <2>2
<1> QED
  BY <1>3, <1>4 DEF AppendSignal, SourcesApart

(* Detection counts nothing before the marks are written. *)
LEMMA PlacesDetect ==
    ASSUME IInv, PlacesInv,
           Begin \/ (\E s \in Session : Stat(s)) \/ Read \/ ReadNothing \/ AppendFindings \/ FailDetection \/ ReadLog
    PROVE  PlacesInv'
<1> USE DEF IInv
<1>1. UNCHANGED <<meter, calls, marks, opened, log, stale, file, acked, lost, free, skipped>>
  BY DEF Begin, Stat, Read, ReadNothing, AppendFindings, FailDetection, ReadLog, sourceVars, historyVars
<1>2. Held' = Held
  BY DEF Begin, Stat, Read, ReadNothing, AppendFindings, FailDetection, ReadLog, Held, TypeOK, Pass, NoPass
<1>3. Active' = Active
  BY <1>1, <1>2 DEF Active, Sources, Uncounted
<1>4. \A t \in Session : Done(pass.marks[t]) \in Nat /\ Done(marks[t]) \in Nat
  BY DoneType DEF TypeOK, Pass
<1>5. \A u \in Pair : u[1] \in Session /\ u[2] \in Nat
  BY DEF Pair
<1>6. LookedOK'
  <2>1. CASE Begin
    <3>1. CASE meter = "usage"
      <4>1. /\ pass'.at = "stat" /\ pass'.marks = marks /\ pass'.units = {} /\ pass'.free = {}
            /\ pass'.skipped = {}
        BY <2>1, <3>1 DEF Begin, NoPass
      <4>2. \A u \in Pair : ~Within(u)'
        BY <1>1, <1>4, <1>5, <4>1 DEF Within
      <4> QED
        BY <4>1, <4>2 DEF LookedOK
    <3>2. CASE meter # "usage"
      BY <2>1, <3>2 DEF Begin, NoPass, LookedOK, Looking
    <3> QED
      BY <3>1, <3>2
  <2>2. CASE \E s \in Session : Stat(s)
    <3>1. /\ pass.at = "stat" /\ pass'.at \in {"stat", "read"} /\ pass'.marks = pass.marks
          /\ pass'.units = pass.units /\ pass'.free = pass.free /\ pass'.skipped = pass.skipped
      BY <2>2 DEF Stat, TypeOK, Pass
    <3> QED
      BY <1>1, <3>1 DEF PlacesInv, LookedOK, Looking, Within
  <2>3. CASE Read
    <3>1. PICK r \in Session : r = pass.session
      BY <2>3 DEF Read, TypeOK
    <3> DEFINE done == Done(pass.marks[r])
               prior == Prior(pass.marks[r], calls[r])
    <3>2. PICK new, skip : new = {r} \X (prior + 1 .. calls[r]) /\ skip = {r} \X (done + 1 .. prior)
      OBVIOUS
    <3>3. /\ pass.at = "read" /\ pass'.at = "append" /\ pass'.session = r /\ pass'.calls = calls[r]
          /\ pass'.marks = pass.marks /\ pass'.skipped = pass.skipped \cup skip
          /\ \/ pass'.units = pass.units \cup new /\ pass'.free = pass.free
             \/ pass'.units = pass.units /\ pass'.free = pass.free \cup new
      BY <2>3, <3>1, <3>2 DEF Read, TypeOK, Pass
    <3>4. calls[r] \in Nat /\ Done(pass.marks[r]) \in Nat /\ Done(marks[r]) <= Done(pass.marks[r])
      BY <1>4, <2>3 DEF Read, JobOK, TypeOK
    <3>9. prior \in Nat /\ (prior = done \/ (done = 0 /\ prior = calls[r]))
      BY <3>4, PriorIs DEF TypeOK, Pass
    <3> HIDE DEF prior
    <3>10. PICK all : all = {u \in Pair : u[1] = r /\ u[2] > done /\ u[2] <= calls[r]}
      OBVIOUS
    <3>5. new \cup skip = all /\ new \cap skip = {}
      <4>1. CASE prior = done
        <5>1. skip = {} /\ new = {r} \X (done + 1 .. calls[r])
          BY <3>2, <3>4, <4>1
        <5>2. new = all
          BY <3>4, <3>10, <5>1 DEF Pair
        <5> QED
          BY <5>1, <5>2
      <4>2. CASE done = 0 /\ prior = calls[r]
        <5>1. new = {} /\ skip = {r} \X (1 .. calls[r])
          BY <3>2, <3>4, <4>2
        <5>2. skip = all
          BY <3>4, <3>10, <4>2, <5>1 DEF Pair
        <5> QED
          BY <5>1, <5>2
      <4> QED
        BY <3>9, <4>1, <4>2
    <3>6. /\ pass.units \cup pass.free \cup pass.skipped = {u \in Pair : Within(u)}
          /\ pass.units \cap (pass.free \cup pass.skipped) = {}
          /\ pass.free \cap pass.skipped = {}
      BY <3>3 DEF PlacesInv, LookedOK, Looking
    <3>7. {u \in Pair : Within(u)}' = {u \in Pair : Within(u)} \cup all
      <4>1. \A u \in Pair : Within(u) <=> u[2] > Done(marks[u[1]]) /\ u[2] <= Done(pass.marks[u[1]])
        BY <3>3 DEF Within
      <4>2. \A u \in Pair : Within(u)' <=> /\ u[2] > Done(marks[u[1]])
                                           /\ u[2] <= Done(pass.marks[u[1]]) \/ (u[1] = r /\ u[2] <= calls[r])
        BY <1>1, <3>3 DEF Within
      <4>3. \A u \in Pair : Within(u)' <=> Within(u) \/ u \in all
        <5> SUFFICES ASSUME NEW u \in Pair PROVE Within(u)' <=> Within(u) \/ u \in all
          OBVIOUS
        <5>1. u[2] \in Nat /\ Done(pass.marks[u[1]]) \in Nat /\ Done(marks[u[1]]) \in Nat
          BY <1>4, <1>5
        <5>2. u \in all <=> u[1] = r /\ u[2] > Done(pass.marks[r]) /\ u[2] <= calls[r]
          BY <3>10
        <5> QED
          BY <3>4, <4>1, <4>2, <5>1, <5>2
      <4> QED
        BY <3>10, <4>3
    <3>8. all \cap (pass.units \cup pass.free \cup pass.skipped) = {}
      <4>1. \A u \in all : u \in Pair /\ u[1] = r /\ u[2] > Done(pass.marks[r]) /\ u[2] \in Nat
        BY <1>5, <3>10
      <4>2. \A u \in all : ~Within(u)
        BY <3>3, <3>4, <4>1 DEF Within
      <4> QED
        BY <3>6, <4>2
    <3> QED
      BY <3>3, <3>5, <3>6, <3>7, <3>8 DEF LookedOK
  <2>4. CASE AppendFindings
    <3>1. PICK r \in Session : r = pass.session
      BY <2>4 DEF AppendFindings, TypeOK
    <3>2. /\ pass.at = "append" /\ pass'.at = "stat"
          /\ pass'.units = pass.units /\ pass'.free = pass.free /\ pass'.skipped = pass.skipped
          /\ \A t \in Session : Done(pass'.marks[t]) =
               IF t = r THEN Bigger(Done(pass.marks[r]), pass.calls) ELSE Done(pass.marks[t])
      BY <2>4, <3>1, MarkSet
    <3>3. pass.calls \in Nat
      BY DEF TypeOK, Pass
    <3>4. \A u \in Pair : Within(u)' <=> Within(u)
      <4> SUFFICES ASSUME NEW u \in Pair PROVE Within(u)' <=> Within(u)
        OBVIOUS
      <4>1. u[1] \in Session /\ u[2] \in Nat /\ Done(pass.marks[u[1]]) \in Nat
        BY <1>4, <1>5
      <4>2. Within(u)' <=> u[2] > Done(marks[u[1]]) /\ u[2] <= Done(pass'.marks[u[1]])
        BY <1>1, <3>2 DEF Within
      <4>3. CASE u[1] = r
        <5>1. Done(pass'.marks[u[1]]) = Bigger(Done(pass.marks[u[1]]), pass.calls)
          BY <3>2, <4>1, <4>3
        <5> QED
          BY <3>1, <3>2, <3>3, <4>1, <4>2, <4>3, <5>1 DEF Within, Bigger
      <4>4. CASE u[1] # r
        BY <3>1, <3>2, <4>1, <4>2, <4>4 DEF Within
      <4> QED
        BY <4>3, <4>4
    <3> QED
      BY <3>2, <3>4 DEF PlacesInv, LookedOK, Looking
  <2>7. CASE ReadNothing
    <3>1. /\ pass.at = "read" /\ pass'.at = "stat"
          /\ pass'.units = pass.units /\ pass'.free = pass.free /\ pass'.skipped = pass.skipped
          /\ \A t \in Session : Done(pass'.marks[t]) = Done(pass.marks[t])
      BY <2>7, NothingSet
    <3>2. \A u \in Pair : Within(u)' <=> Within(u)
      BY <1>1, <1>5, <3>1 DEF Within
    <3> QED
      BY <3>1, <3>2 DEF PlacesInv, LookedOK, Looking
  <2>5. CASE FailDetection
    BY <2>5 DEF FailDetection, NoPass, LookedOK, Looking
  <2>6. CASE ReadLog
    BY <2>6 DEF ReadLog, LookedOK, Looking, TypeOK, Pass
  <2> QED
    BY <2>1, <2>2, <2>3, <2>4, <2>5, <2>6, <2>7
<1> QED
  BY <1>1, <1>3, <1>6, PlacesStay

(* What was looked at is held, or free, once its marks are in the file. *)
LEMMA PlacesWriteMarks ==
    ASSUME IInv, PlacesInv, WriteMarks
    PROVE  PlacesInv'
<1> USE DEF IInv
<1>1. /\ pass.at = "stat" /\ meter = "usage" /\ meter' = meter /\ marks' = pass.marks
      /\ \A t \in Session : Done(marks[t]) <= Done(pass.marks[t])
      /\ UNCHANGED <<opened, log, stale, file, acked, lost>>
  BY DEF WriteMarks, JobOK
<1>2. \A u \in Pair : /\ u[1] \in Session /\ u[2] \in Nat
                      /\ Done(pass.marks[u[1]]) \in Nat /\ Done(marks[u[1]]) \in Nat
                      /\ Done(marks[u[1]]) <= Done(pass.marks[u[1]])
  BY <1>1, DoneType DEF Pair, TypeOK, Pass
<1>3. /\ pass.units \cup pass.free \cup pass.skipped = {u \in Pair : Within(u)}
      /\ pass.units \cap (pass.free \cup pass.skipped) = {} /\ pass.free \cap pass.skipped = {}
  BY <1>1 DEF PlacesInv, LookedOK, Looking
<1>4. \A u \in Pair : Within(u) <=> u[2] > Done(marks[u[1]]) /\ u[2] <= Done(pass.marks[u[1]])
  BY <1>1 DEF Within
<1>5. /\ Uncounted = Uncounted' \cup (pass.units \cup pass.free \cup pass.skipped)
      /\ Uncounted' \cap (pass.units \cup pass.free \cup pass.skipped) = {}
  <2>1. \A u \in Pair : /\ u \in Uncounted <=> u[2] > Done(marks[u[1]])
                        /\ u \in Uncounted' <=> u[2] > Done(pass.marks[u[1]])
    BY <1>1 DEF Uncounted
  <2>2. Uncounted \subseteq Pair /\ Uncounted' \subseteq Pair
    BY DEF Uncounted
  <2>3. \A u \in Pair : /\ u \in Uncounted <=> u \in Uncounted' \/ Within(u)
                        /\ ~(u \in Uncounted' /\ Within(u))
    BY <1>2, <1>4, <2>1
  <2> QED
    BY <1>3, <2>2, <2>3
<1>6. LookedOK'
  BY DEF WriteMarks, NoPass, LookedOK, Looking
<1>7. Held = {}
  BY <1>1 DEF Held
<1>8. /\ skipped' = skipped \cup pass.skipped
      /\ \/ Held' = pass.units /\ free' = free \cup pass.free
         \/ Held' = {} /\ free' = free \cup pass.free \cup pass.units
  BY DEF WriteMarks, Held, NoPass
<1>9. /\ Uncounted \cap (opened \cup log \cup stale \cup file.pending \cup file.batch.units) = {}
      /\ Uncounted \cap (file.dropped \cup acked \cup lost \cup free \cup skipped) = {}
  BY DEF SourcesApart, CountsOK, Sources, Batches, PlacesInv, GoneApart, Active
<1>10. PICK held, left :
          /\ Held' = held /\ free' = free \cup left
          /\ held \cup left \cup pass.skipped = pass.units \cup pass.free \cup pass.skipped
          /\ held \cap (left \cup pass.skipped) = {} /\ left \cap pass.skipped = {}
  <2>1. CASE Held' = pass.units /\ free' = free \cup pass.free
    BY <1>3, <2>1
  <2>2. CASE Held' = {} /\ free' = free \cup pass.free \cup pass.units
    <3>1. /\ Held' = {} /\ free' = free \cup (pass.free \cup pass.units)
          /\ {} \cup (pass.free \cup pass.units) \cup pass.skipped
               = pass.units \cup pass.free \cup pass.skipped
          /\ {} \cap ((pass.free \cup pass.units) \cup pass.skipped) = {}
          /\ (pass.free \cup pass.units) \cap pass.skipped = {}
      BY <1>3, <2>2
    <3> QED
      BY <3>1
  <2> QED
    BY <1>8, <2>1, <2>2
<1>11. held \cup left \cup pass.skipped \subseteq Uncounted
  BY <1>5, <1>10
<1>12. Active = Active' \cup left \cup pass.skipped
  BY <1>1, <1>5, <1>7, <1>10 DEF Active, Sources
<1>13. Active' \cap (left \cup pass.skipped) = {}
  <2>1. Active' = Uncounted' \cup held \cup (opened \cup log \cup stale \cup file.pending \cup file.batch.units)
    BY <1>1, <1>10 DEF Active, Sources
  <2> QED
    BY <1>5, <1>9, <1>10, <1>11, <2>1
<1>14. GoneApart'
  <2>1. /\ Active' \subseteq Active /\ Active \cap (file.dropped \cup acked \cup lost \cup free \cup skipped) = {}
        /\ file.dropped \cap (acked \cup lost \cup free \cup skipped) = {}
        /\ acked \cap (lost \cup free \cup skipped) = {}
        /\ lost \cap (free \cup skipped) = {} /\ free \cap skipped = {}
    BY <1>12 DEF PlacesInv, GoneApart
  <2>2. UNCHANGED <<file, acked, lost>> /\ free' = free \cup left /\ skipped' = skipped \cup pass.skipped
    BY <1>1, <1>8, <1>10
  <2>3. left \subseteq Active /\ pass.skipped \subseteq Active
    BY <1>12
  <2> QED
    BY <1>10, <1>13, <2>1, <2>2, <2>3 DEF GoneApart
<1>15. Everywhere' = Everywhere
  BY <1>1, <1>8, <1>10, <1>12 DEF Everywhere
<1> QED
  BY <1>6, <1>14, <1>15 DEF PlacesInv

LEMMA PlacesTakeLog ==
    ASSUME IInv, PlacesInv, TakeLog
    PROVE  PlacesInv'
<1> USE DEF IInv
<1>1. Held = {} /\ Held' = log /\ log' = {} /\ stale' = stale \cup opened /\ opened' = {}
  BY DEF TakeLog, Held, TypeOK, Pass
<1>2. Uncounted' = Uncounted /\ UNCHANGED <<file, acked, lost, free, skipped>>
  BY DEF TakeLog, Uncounted, historyVars
<1>3. Active' = Active
  BY <1>1, <1>2 DEF Active, Sources
<1>4. LookedOK'
  BY DEF TakeLog, LookedOK, Looking, TypeOK, Pass
<1> QED
  BY <1>2, <1>3, <1>4, PlacesStay

(* Steps that take units out of the active places and drop them. *)
LEMMA PlacesDrop ==
    ASSUME PlacesInv, LookedOK', UNCHANGED <<acked, lost, free, skipped>>, NEW gone, gone \subseteq Active,
           Active' \subseteq Active, Active \subseteq Active' \cup gone, Active' \cap gone = {},
           file'.dropped = file.dropped \cup gone
    PROVE  PlacesInv'
<1>1. GoneApart'
  BY DEF PlacesInv, GoneApart
<1>2. Everywhere \subseteq Everywhere'
  BY DEF Everywhere
<1> QED
  BY <1>1, <1>2 DEF PlacesInv

(* What the pass held is pending; what is too old is dropped. *)
LEMMA PlacesAddCounts ==
    ASSUME IInv, PlacesInv, AddCounts
    PROVE  PlacesInv'
<1> USE DEF IInv
<1>1. Held = pass.units /\ Held' = {}
  BY DEF AddCounts, Held, NoPass
<1>2. UNCHANGED <<meter, calls, marks, opened, log, stale, acked, lost, free, skipped>>
  BY DEF AddCounts, sourceVars, historyVars
<1>3. Uncounted' = Uncounted
  BY <1>2 DEF Uncounted
<1>4. LookedOK'
  BY DEF AddCounts, NoPass, LookedOK, Looking
<1>5. PICK gone : /\ gone \subseteq file.pending \cup Held
                  /\ file'.pending = (file.pending \cup Held) \ gone
                  /\ file'.dropped = file.dropped \cup gone
                  /\ file'.batch = file.batch
  <2>1. file \in Count
    BY DEF TypeOK
  <2>2. CASE meter = "usage"
    <3>1. /\ file'.pending = (file.pending \ Old(file.pending)) \cup Held
          /\ file'.dropped = file.dropped \cup Old(file.pending) /\ file'.batch = file.batch
      BY <1>1, <2>1, <2>2 DEF AddCounts, Count
    <3>2. Old(file.pending) \subseteq file.pending
      BY OldSome
    <3>3. Held \cap file.pending = {}
      BY DEF CountsOK, Sources
    <3> QED
      BY <3>1, <3>2, <3>3
  <2>3. CASE meter # "usage"
    <3>1. /\ file'.pending = (file.pending \cup Held) \ Old(file.pending \cup Held)
          /\ file'.dropped = file.dropped \cup Old(file.pending \cup Held) /\ file'.batch = file.batch
      BY <1>1, <2>1, <2>3 DEF AddCounts, Add, Count
    <3>2. Old(file.pending \cup Held) \subseteq file.pending \cup Held
      BY OldSome
    <3> QED
      BY <3>1, <3>2
  <2> QED
    BY <2>2, <2>3
<1>6. Sources = Sources' \cup Held /\ Sources' \cap Held = {}
  BY <1>1, <1>2, <1>3 DEF Sources, SourcesApart
<1>7. /\ Sources \cap file.pending = {}
      /\ file.batch.units \cap (Sources \cup file.pending) = {}
  BY DEF CountsOK, Batches
<1>8. Active' = (Sources' \cup ((file.pending \cup Held) \ gone)) \cup file.batch.units
  BY <1>5 DEF Active
<1>9. /\ Active' \subseteq Active /\ Active \subseteq Active' \cup gone /\ gone \subseteq Active
      /\ Active' \cap gone = {}
  BY <1>5, <1>6, <1>7, <1>8 DEF Active
<1> QED
  BY <1>2, <1>4, <1>5, <1>9, PlacesDrop

(* A batch is written, or what is left is too old. *)
LEMMA PlacesSubmit ==
    ASSUME IInv, PlacesInv, SkipSubmit \/ (\E id \in Id : Submit(id))
    PROVE  PlacesInv'
<1> USE DEF IInv
<1>1. UNCHANGED <<meter, calls, marks, opened, log, stale, acked, lost, free, skipped>> /\ pass.at = "submit"
  BY DEF SkipSubmit, Submit, sourceVars, historyVars
<1>2. Held = {} /\ Held' = {} /\ LookedOK'
  <2>1. pass'.at \in {"idle", "send"}
    <3>1. CASE SkipSubmit
      BY <3>1 DEF SkipSubmit, NoPass
    <3>2. CASE \E id \in Id : Submit(id)
      BY <3>2 DEF Submit, NoPass
    <3> QED
      BY <3>1, <3>2
  <2> QED
    BY <1>1, <2>1 DEF Held, LookedOK, Looking
<1>3. Sources' = Sources
  BY <1>1, <1>2 DEF Sources, Uncounted
<1>4. file \in Count /\ file.batch \in Batch
  BY DEF TypeOK, Count
<1>5. /\ Sources \cap file.pending = {}
      /\ file.batch.units \cap (Sources \cup file.pending) = {}
  BY DEF CountsOK, Batches
<1>6. PICK gone : /\ gone \subseteq file.pending \cup file.batch.units
                  /\ file'.pending \cup file'.batch.units = (file.pending \cup file.batch.units) \ gone
                  /\ file'.dropped = file.dropped \cup gone
  <2>1. Old(file.pending) \subseteq file.pending /\ Old(file.batch.units) \subseteq file.batch.units
    BY OldSome
  <2>2. CASE file' = file
    <3>1. /\ {} \subseteq file.pending \cup file.batch.units
          /\ file'.pending \cup file'.batch.units = (file.pending \cup file.batch.units) \ {}
          /\ file'.dropped = file.dropped \cup {}
      BY <2>2
    <3> QED
      BY <3>1
  <2>3. CASE file' = Resent(file)
    <3>1. /\ file'.pending = file.pending /\ file'.batch.units = file.batch.units \ Old(file.batch.units)
          /\ file'.dropped = file.dropped \cup Old(file.batch.units)
      BY <1>4, <2>3 DEF Resent, Kept, Count, Batch
    <3>2. file'.pending \cup file'.batch.units =
            (file.pending \cup file.batch.units) \ Old(file.batch.units)
      BY <1>5, <2>1, <3>1
    <3> QED
      BY <2>1, <3>1, <3>2
  <2>4. CASE Kept(file) = {} /\ \E id : file' = Batched(file, id)
    <3>1. /\ file'.pending = {} /\ file'.batch.units = file.pending \ Old(file.pending)
          /\ file'.dropped = file.dropped \cup (Old(file.batch.units) \cup Old(file.pending))
      BY <2>4 DEF Batched
    <3>2. file.batch.units \subseteq Old(file.batch.units)
      BY <2>4 DEF Kept
    <3>3. file'.pending \cup file'.batch.units = (file.pending \cup file.batch.units)
            \ (Old(file.batch.units) \cup Old(file.pending))
      BY <1>5, <2>1, <3>1, <3>2
    <3> QED
      BY <2>1, <3>1, <3>3
  <2>5. CASE Kept(file) = {} /\ file.pending \ Old(file.pending) = {} /\ file' = Emptied(file)
    <3>1. /\ file'.pending = {} /\ file'.batch.units = {}
          /\ file'.dropped = file.dropped \cup (Old(file.batch.units) \cup Old(file.pending))
      BY <2>5 DEF Emptied, Batched, NoBatch
    <3>2. file.batch.units \subseteq Old(file.batch.units) /\ file.pending \subseteq Old(file.pending)
      BY <2>5 DEF Kept
    <3> QED
      BY <2>1, <3>1, <3>2
  <2> QED
    BY <2>2, <2>3, <2>4, <2>5 DEF SkipSubmit, Submit
<1>7. /\ Active' \subseteq Active /\ Active \subseteq Active' \cup gone /\ gone \subseteq Active
      /\ Active' \cap gone = {}
  BY <1>3, <1>5, <1>6 DEF Active
<1> QED
  BY <1>1, <1>2, <1>6, <1>7, PlacesDrop

(* The answer ends the batch, or the pass is killed. *)
LEMMA PlacesFinish ==
    ASSUME IInv, PlacesInv, Finish \/ Crash
    PROVE  PlacesInv'
<1> USE DEF IInv
<1>1. UNCHANGED <<meter, calls, marks, opened, log, stale, free, skipped>> /\ pass' = NoPass
  BY DEF Finish, Crash, sourceVars
<1>2. Held' = {} /\ LookedOK' /\ Uncounted' = Uncounted
  BY <1>1 DEF NoPass, Held, LookedOK, Looking, Uncounted
<1>3. /\ Sources \cap file.pending = {}
      /\ file.batch.units \cap (Sources \cup file.pending) = {}
  BY DEF CountsOK, Batches
<1>4. CASE Finish
  <2>1. pass.file = file /\ Held = {} /\ lost' = lost /\ file \in Count /\ NoBatch.units = {}
    BY <1>4 DEF Finish, JobOK, Held, TypeOK, NoBatch
  <2>2. Sources' = Sources
    BY <1>1, <1>2, <2>1 DEF Sources
  <2>3. CASE file' = file /\ acked' = acked
    <3>1. Active' = Active
      BY <2>2, <2>3 DEF Active
    <3> QED
      BY <1>1, <1>2, <2>1, <2>3, <3>1, PlacesStay
  <2>4. CASE file' = [file EXCEPT !.batch = NoBatch] /\ acked' = acked \cup file.batch.units
    <3>1. file'.pending = file.pending /\ file'.batch.units = {} /\ file'.dropped = file.dropped
      BY <2>1, <2>4 DEF Count
    <3>2. /\ Active = Active' \cup file.batch.units /\ Active' \cap file.batch.units = {}
      BY <1>3, <2>2, <3>1 DEF Active
    <3> QED
      BY <1>1, <1>2, <2>1, <2>4, <3>1, <3>2 DEF PlacesInv, GoneApart, Everywhere
  <2>5. CASE /\ file' = [file EXCEPT !.batch = NoBatch, !.dropped = @ \cup file.batch.units]
             /\ acked' = acked
    <3>1. /\ file'.pending = file.pending /\ file'.batch.units = {}
          /\ file'.dropped = file.dropped \cup file.batch.units
      BY <2>1, <2>5 DEF Count
    <3>2. /\ Active = Active' \cup file.batch.units /\ Active' \cap file.batch.units = {}
      BY <1>3, <2>2, <3>1 DEF Active
    <3> QED
      BY <1>1, <1>2, <2>1, <2>5, <3>1, <3>2, PlacesDrop
  <2> QED
    BY <1>4, <2>1, <2>3, <2>4, <2>5 DEF Finish
<1>5. CASE Crash
  <2>1. file' = file /\ acked' = acked /\ lost' = lost \cup Held
    BY <1>5 DEF Crash, Held
  <2>2. Sources = Sources' \cup Held /\ Sources' \cap Held = {}
    BY <1>1, <1>2 DEF Sources, SourcesApart
  <2>3. Active = Active' \cup Held /\ Active' \cap Held = {}
    BY <1>3, <2>1, <2>2 DEF Active
  <2> QED
    BY <1>1, <1>2, <2>1, <2>3 DEF PlacesInv, GoneApart, Everywhere
<1> QED
  BY <1>4, <1>5

(* Requests, answers and time move no unit. *)
LEMMA PlacesOther ==
    ASSUME IInv, PlacesInv,
           Send \/ (\E m \in wire : Accept(m) \/ Refuse(m) \/ Lose(m)) \/ Later \/ NewDay \/ UNCHANGED vars
    PROVE  PlacesInv'
<1>1. UNCHANGED <<meter, calls, marks, opened, log, stale, file, acked, lost, free, skipped>>
  BY DEF Send, Accept, Refuse, Lose, Later, NewDay, vars, sourceVars, historyVars
<1>2. /\ pass'.at = pass.at \/ (pass.at = "send" /\ pass'.at = "wait")
      /\ pass'.units = pass.units /\ pass'.marks = pass.marks /\ pass'.free = pass.free
      /\ pass'.skipped = pass.skipped /\ pass'.session = pass.session /\ pass'.calls = pass.calls
  BY DEF Send, Accept, Refuse, Lose, Later, NewDay, vars, IInv, TypeOK, Pass
<1>3. Active' = Active
  BY <1>1, <1>2 DEF Active, Sources, Uncounted, Held
<1>4. LookedOK'
  BY <1>1, <1>2 DEF PlacesInv, LookedOK, Looking, Within
<1> QED
  BY <1>1, <1>3, <1>4, PlacesStay

LEMMA PlacesNext == IInv /\ PlacesInv /\ [Next]_vars => PlacesInv'
<1> SUFFICES ASSUME IInv, PlacesInv, [Next]_vars PROVE PlacesInv'
  OBVIOUS
<1>1. ASSUME NEW s \in Session, Call(s) \/ OpenLog(s) PROVE PlacesInv'
  BY <1>1, PlacesCapture
<1>2. ASSUME NEW u \in Unit, AppendSignal(u) PROVE PlacesInv'
  BY <1>2, PlacesSignal
<1>3. CASE Begin \/ (\E s \in Session : Stat(s)) \/ Read \/ ReadNothing \/ AppendFindings \/ FailDetection \/ ReadLog
  BY <1>3, PlacesDetect
<1>4. CASE WriteMarks
  BY <1>4, PlacesWriteMarks
<1>5. CASE TakeLog
  BY <1>5, PlacesTakeLog
<1>6. CASE AddCounts
  BY <1>6, PlacesAddCounts
<1>7. CASE SkipSubmit \/ (\E id \in Id : Submit(id))
  BY <1>7, PlacesSubmit
<1>8. CASE Finish \/ Crash
  BY <1>8, PlacesFinish
<1>9. CASE Send \/ (\E m \in wire : Accept(m) \/ Refuse(m) \/ Lose(m)) \/ Later \/ NewDay \/ UNCHANGED vars
  BY <1>9, PlacesOther
<1> QED
  BY <1>1, <1>2, <1>3, <1>4, <1>5, <1>6, <1>7, <1>8, <1>9 DEF Next, PassStep
-----------------------------------------------------------------------------
(* What the cloud has billed. *)

Waiting == pass.at = "wait"

(* The requests under way are unanswered ones, or the one a pass waits for; a
   unit that is billed was acknowledged, had no answer, or is in the batch whose
   answer the pass has; what is left of a batch is in all requests of its id. *)
CloudInv ==
    /\ used \subseteq Id
    /\ pass.at \in {"send", "wait"} => file.batch.id \in used
    /\ pass.at = "send" => pass.answer = "none"
    /\ \A m \in wire : m.units \subseteq unsure \/ (Waiting /\ pass.answer = "none" /\ m = file.batch)
    /\ \A m \in wire \cup billed : m.id = file.batch.id => file.batch.units \subseteq m.units
    /\ Billed \subseteq acked \cup unsure \cup
         (IF Waiting /\ pass.answer = "accepted" THEN file.batch.units ELSE {})
    /\ acked \subseteq Billed
    /\ Waiting /\ pass.answer = "accepted" => file.batch.units \subseteq Billed

LEMMA CloudInit == Init => CloudInv
BY DEF Init, CloudInv, Waiting, NoPass, Billed

(* Steps of which the cloud learns nothing. *)
LEMMA CloudStay ==
    ASSUME CloudInv, UNCHANGED <<wire, billed, used, acked, unsure>>, file'.batch = file.batch,
           \/ pass'.at = pass.at /\ pass'.answer = pass.answer
           \/ pass.at \notin {"send", "wait"} /\ pass'.at \notin {"send", "wait"}
    PROVE  CloudInv'
BY DEF CloudInv, Waiting, Billed

LEMMA CloudSubmit ==
    ASSUME IInv, CloudInv, SkipSubmit \/ (\E id \in Id : Submit(id))
    PROVE  CloudInv'
<1> USE DEF IInv
<1>1. UNCHANGED <<wire, billed, acked, unsure>> /\ pass.at = "submit" /\ pass'.at # "wait"
      /\ (pass'.at = "send" => pass'.answer = "none")
  <2>1. CASE SkipSubmit
    BY <2>1 DEF SkipSubmit, cloudVars, historyVars, NoPass
  <2>2. CASE \E id \in Id : Submit(id)
    BY <2>2 DEF Submit, cloudVars, historyVars, NoPass
  <2> QED
    BY <2>1, <2>2
<1>2. file \in Count /\ file.batch \in Batch /\ NoBatch.units = {}
  BY DEF TypeOK, Count, NoBatch
<1>3. \A m \in wire \cup billed : m = NoBatch \/ m.id \in used
  BY DEF CountsOK, Batches
<1>4. /\ used' \subseteq Id
      /\ pass'.at = "send" => file'.batch.id \in used'
      /\ \A m \in wire \cup billed : m.id = file'.batch.id => file'.batch.units \subseteq m.units
  <2>1. CASE SkipSubmit
    <3>1. used' = used /\ pass'.at = "idle" /\ (file' = file \/ file'.batch = NoBatch)
      <4>1. pass' = NoPass /\ used' = used /\ (file' = file \/ file' = Emptied(file))
        BY <2>1 DEF SkipSubmit
      <4>2. Emptied(file).batch = NoBatch
        BY DEF Emptied, Batched
      <4> QED
        BY <4>1, <4>2 DEF NoPass
    <3> QED
      BY <1>2, <3>1 DEF CloudInv
  <2>2. ASSUME NEW id \in Id, Submit(id)
        PROVE  /\ used' \subseteq Id /\ file'.batch.id \in used'
               /\ \A m \in wire \cup billed : m.id = file'.batch.id => file'.batch.units \subseteq m.units
    <3>1. CASE Kept(file) # {}
      <4>1. used' = used /\ file' = Resent(file)
        BY <2>2, <3>1 DEF Submit
      <4>2. file'.batch.id = file.batch.id /\ file'.batch.units \subseteq file.batch.units
        BY <1>2, <4>1 DEF Resent, Kept, Count, Batch
      <4>3. file.batch.id \in used
        <5>1. file.batch # NoBatch
          BY <1>2, <3>1 DEF Kept
        <5> QED
          BY <5>1 DEF CountsOK, Batches
      <4> QED
        BY <4>1, <4>2, <4>3 DEF CloudInv
    <3>2. CASE Kept(file) = {}
      <4>1. used' = used \cup {id} /\ id \notin used /\ file'.batch.id = id
        BY <2>2, <3>2 DEF Submit, Batched
      <4>2. \A m \in wire \cup billed : m.id # id
        BY <1>3, <4>1, MeterAssumption DEF NoBatch
      <4> QED
        BY <4>1, <4>2 DEF CloudInv
    <3> QED
      BY <3>1, <3>2
  <2> QED
    BY <2>1, <2>2
<1> QED
  BY <1>1, <1>4 DEF CloudInv, Waiting, Billed

LEMMA CloudSend ==
    ASSUME IInv, CloudInv, Send
    PROVE  CloudInv'
<1>1. /\ pass.at = "send" /\ pass'.at = "wait" /\ pass'.answer = pass.answer
      /\ wire' = wire \cup {file.batch} /\ UNCHANGED <<file, billed, used, acked, unsure>>
  BY DEF Send, IInv, JobOK, TypeOK, Pass, historyVars
<1> QED
  BY <1>1 DEF CloudInv, Waiting, Billed

LEMMA CloudFinish ==
    ASSUME IInv, CloudInv, Finish \/ Crash
    PROVE  CloudInv'
<1> USE DEF IInv
<1>1. UNCHANGED <<wire, billed, used>> /\ pass' = NoPass /\ pass'.at = "idle"
  BY DEF Finish, Crash, cloudVars, NoPass
<1>2. CASE Finish
  <2>1. pass.file = file /\ file \in Count /\ NoBatch.units = {} /\ Waiting
    BY <1>2 DEF Finish, JobOK, TypeOK, NoBatch, Waiting
  <2>2. CASE pass.answer = "accepted" /\ file'.batch = NoBatch /\ acked' = acked \cup file.batch.units
             /\ unsure' = unsure
    BY <1>1, <2>1, <2>2 DEF CloudInv, Waiting, Billed
  <2>3. CASE pass.answer = "refused" /\ file'.batch = NoBatch /\ acked' = acked /\ unsure' = unsure
    BY <1>1, <2>1, <2>3 DEF CloudInv, Waiting, Billed
  <2>4. CASE file' = file /\ acked' = acked /\ unsure' = unsure \cup file.batch.units
    BY <1>1, <2>1, <2>4 DEF CloudInv, Waiting, Billed
  <2> QED
    BY <1>2, <2>1, <2>2, <2>3, <2>4 DEF Finish, Count
<1>3. CASE Crash
  <2>1. UNCHANGED <<file, acked>> /\ (pass.at \in {"send", "wait"} => pass.file = file)
        /\ unsure' = IF pass.at \in {"send", "wait"} THEN unsure \cup pass.file.batch.units ELSE unsure
    BY <1>3 DEF Crash, JobOK
  <2> QED
    BY <1>1, <2>1 DEF CloudInv, Waiting, Billed
<1> QED
  BY <1>2, <1>3

LEMMA CloudAnswers ==
    ASSUME IInv, CloudInv, NEW m \in wire, Accept(m) \/ Refuse(m) \/ Lose(m)
    PROVE  CloudInv'
<1> USE DEF IInv
<1>1. UNCHANGED <<file, used, acked, unsure>> /\ wire' = wire \ {m} /\ pass'.at = pass.at
      /\ (Waiting => pass.file = file)
  BY DEF Accept, Refuse, Lose, historyVars, TypeOK, Pass, JobOK, Waiting
<1>2. CASE Lose(m)
  BY <1>1, <1>2 DEF Lose, CloudInv, Waiting, Billed
<1>3. CASE Refuse(m)
  <2>1. billed' = billed
        /\ pass'.answer = IF Waiting /\ file.batch = m THEN "refused" ELSE pass.answer
    BY <1>1, <1>3 DEF Refuse, TypeOK, Pass, Waiting
  <2> QED
    BY <1>1, <2>1 DEF CloudInv, Waiting, Billed
<1>4. CASE Accept(m)
  <2>1. /\ billed' = IF \E b \in billed : b.id = m.id THEN billed ELSE billed \cup {m}
        /\ pass'.answer = IF Waiting /\ file.batch = m THEN "accepted" ELSE pass.answer
    BY <1>1, <1>4 DEF Accept, TypeOK, Pass, Waiting
  <2>2. Billed \subseteq Billed' /\ Billed' \subseteq Billed \cup m.units
    BY <2>1 DEF Billed
  <2>3. \A n \in wire' \cup billed' : n.id = file.batch.id => file.batch.units \subseteq n.units
    BY <1>1, <2>1 DEF CloudInv
  <2>4. CASE Waiting /\ file.batch = m
    <3>1. file.batch.units \subseteq Billed'
      <4>1. \E b \in billed' : b.id = m.id
        BY <2>1
      <4> QED
        BY <2>3, <2>4, <4>1 DEF Billed
    <3>2. \A n \in wire' : n.units \subseteq unsure
      BY <1>1, <2>4 DEF CloudInv
    <3>3. pass'.answer = "accepted" /\ Waiting'
      BY <1>1, <2>1, <2>4 DEF Waiting
    <3>4. Billed' \subseteq acked \cup unsure \cup file.batch.units
      BY <2>2, <2>4 DEF CloudInv
    <3> QED
      BY <1>1, <2>2, <2>3, <2>4, <3>1, <3>2, <3>3, <3>4 DEF CloudInv, Waiting
  <2>5. CASE ~(Waiting /\ file.batch = m)
    <3>1. m.units \subseteq unsure
      BY <2>5 DEF CloudInv
    <3>2. pass'.answer = pass.answer /\ Waiting' = Waiting
      BY <1>1, <2>1, <2>5 DEF Waiting
    <3> QED
      BY <1>1, <2>2, <2>3, <3>1, <3>2 DEF CloudInv, Waiting
  <2> QED
    BY <2>4, <2>5
<1> QED
  BY <1>2, <1>3, <1>4

LEMMA CloudNext == IInv /\ CloudInv /\ [Next]_vars => CloudInv'
<1> SUFFICES ASSUME IInv, CloudInv, [Next]_vars PROVE CloudInv'
  OBVIOUS
<1> USE DEF IInv
<1>1. CASE SkipSubmit \/ (\E id \in Id : Submit(id))
  BY <1>1, CloudSubmit
<1>2. CASE Send
  BY <1>2, CloudSend
<1>3. CASE Finish \/ Crash
  BY <1>3, CloudFinish
<1>4. ASSUME NEW m \in wire, Accept(m) \/ Refuse(m) \/ Lose(m) PROVE CloudInv'
  BY <1>4, CloudAnswers
<1>5. CASE AddCounts
  <2>1. /\ UNCHANGED <<wire, billed, used, acked, unsure>> /\ file'.batch = file.batch
        /\ pass.at = "add" /\ pass'.at = "submit"
    BY <1>5 DEF AddCounts, Add, cloudVars, historyVars, NoPass, TypeOK, Count
  <2> QED
    BY <2>1, CloudStay
<1>6. CASE Begin \/ (\E s \in Session : Stat(s)) \/ Read \/ ReadNothing \/ AppendFindings \/ FailDetection \/ WriteMarks
           \/ TakeLog \/ ReadLog
  <2>1. /\ UNCHANGED <<wire, billed, used, acked, unsure, file>>
        /\ pass.at \notin {"send", "wait"} /\ pass'.at \notin {"send", "wait"}
    BY <1>6 DEF Begin, Stat, Read, ReadNothing, AppendFindings, FailDetection, WriteMarks, TakeLog, ReadLog,
                cloudVars, historyVars, NoPass, TypeOK, Pass
  <2> QED
    BY <2>1, CloudStay
<1>7. CASE (\E s \in Session : Call(s) \/ OpenLog(s)) \/ (\E u \in Unit : AppendSignal(u))
           \/ Later \/ NewDay \/ UNCHANGED vars
  <2>1. /\ UNCHANGED <<wire, billed, used, acked, unsure, file>>
        /\ pass'.at = pass.at /\ pass'.answer = pass.answer
    BY <1>7 DEF Call, OpenLog, AppendSignal, Later, NewDay, vars, cloudVars, historyVars, TypeOK, Pass
  <2>2. file'.batch = file.batch
    BY <2>1
  <2> QED
    BY <2>1, <2>2, CloudStay, Zenon
<1> QED
  BY <1>1, <1>2, <1>3, <1>4, <1>5, <1>6, <1>7 DEF Next, PassStep
-----------------------------------------------------------------------------
(* A unit is in one place alone. *)
OnlyIn(u, n) == {i \in DOMAIN Places : u \in Places[i]} = {n}

LEMMA OnePlace ==
    ASSUME IInv, PlacesInv, NEW u \in Counted
    PROVE  \E n : OnlyIn(u, n)
<1> USE DEF OnlyIn
<1>1. /\ DOMAIN Places = 1..11
      /\ Places[1] = opened /\ Places[2] = log /\ Places[3] = stale /\ Places[4] = Held
      /\ Places[5] = file.pending /\ Places[6] = file.batch.units /\ Places[7] = file.dropped
      /\ Places[8] = acked /\ Places[9] = lost /\ Places[10] = free
      /\ Places[11] = skipped
  BY DEF Places
<1>2. \A i \in DOMAIN Places : i \in {1, 2, 3, 4, 5, 6, 7, 8, 9, 10, 11}
  BY <1>1
<1>3. \A i \in {1, 2, 3, 4, 5, 6, 7, 8, 9, 10, 11} : i \in DOMAIN Places
  BY <1>1
<1>4. u \in Pair /\ u[2] > 0 /\ u \notin Uncounted
  <2>1. u \in Session \X (1..MaxCalls)
    BY DEF Counted, Unit
  <2>2. u \in Pair /\ u[1] \in Session /\ u[2] \in Nat /\ u[2] > 0
    BY <2>1, MeterAssumption DEF Pair
  <2>3. Done(marks[u[1]]) \in Nat /\ calls[u[1]] \in Nat
    BY <2>2, DoneType DEF IInv, TypeOK
  <2> QED
    BY <2>2, <2>3 DEF Counted, Uncounted
<1>5. /\ opened \cap (log \cup stale \cup Held) = {} /\ log \cap (stale \cup Held) = {}
      /\ stale \cap Held = {}
      /\ (opened \cup log \cup stale \cup Held) \cap file.pending = {}
      /\ file.batch.units \cap (opened \cup log \cup stale \cup Held \cup file.pending) = {}
  BY DEF IInv, SourcesApart, CountsOK, Sources, Batches
<1>6. /\ (opened \cup log \cup stale \cup Held \cup file.pending \cup file.batch.units)
            \cap (file.dropped \cup acked \cup lost \cup free \cup skipped) = {}
      /\ file.dropped \cap (acked \cup lost \cup free \cup skipped) = {}
      /\ acked \cap (lost \cup free \cup skipped) = {} /\ lost \cap (free \cup skipped) = {} /\ free \cap skipped = {}
  BY DEF PlacesInv, GoneApart, Active, Sources
<1>7. CASE u \in opened
  BY <1>1, <1>2, <1>3, <1>5, <1>6, <1>7
<1>8. CASE u \in log
  <2>1. /\ u \notin opened /\ u \notin stale /\ u \notin Held /\ u \notin file.pending /\ u \notin file.batch.units
        /\ u \notin file.dropped /\ u \notin acked /\ u \notin lost /\ u \notin free /\ u \notin skipped
    BY <1>5, <1>6, <1>8
  <2> QED
    BY <1>1, <1>2, <1>3, <1>8, <2>1
<1>9. CASE u \in stale
  BY <1>1, <1>2, <1>3, <1>5, <1>6, <1>9
<1>10. CASE u \in Held
  <2>1. /\ u \notin opened /\ u \notin log /\ u \notin stale /\ u \notin file.pending /\ u \notin file.batch.units
        /\ u \notin file.dropped /\ u \notin acked /\ u \notin lost /\ u \notin free /\ u \notin skipped
    BY <1>5, <1>6, <1>10
  <2> QED
    BY <1>1, <1>2, <1>3, <1>10, <2>1
<1>11. CASE u \in file.pending
  BY <1>1, <1>2, <1>3, <1>5, <1>6, <1>11
<1>12. CASE u \in file.batch.units
  BY <1>1, <1>2, <1>3, <1>5, <1>6, <1>12
<1>13. CASE u \in file.dropped
  BY <1>1, <1>2, <1>3, <1>6, <1>13
<1>14. CASE u \in acked
  BY <1>1, <1>2, <1>3, <1>6, <1>14
<1>15. CASE u \in lost
  BY <1>1, <1>2, <1>3, <1>6, <1>15
<1>16. CASE u \in free
  BY <1>1, <1>2, <1>3, <1>6, <1>16
<1>17. CASE u \in skipped
  BY <1>1, <1>2, <1>3, <1>6, <1>17
<1> QED
  BY <1>4, <1>7, <1>8, <1>9, <1>10, <1>11, <1>12, <1>13, <1>14, <1>15, <1>16, <1>17
  DEF PlacesInv, Everywhere, Active, Sources

-----------------------------------------------------------------------------
(* What is skipped is the first calls of a session. *)
First(U) == \A u \in U : {u[1]} \X (1..u[2]) \subseteq U

SkipInv == First(skipped) /\ First(pass.skipped)

LEMMA SkipNext == TypeOK /\ SkipInv /\ [Next]_vars => SkipInv'
<1> SUFFICES ASSUME TypeOK, SkipInv, [Next]_vars PROVE SkipInv'
  OBVIOUS
<1>1. First({})
  BY DEF First
<1>2. CASE Read
  <2> DEFINE r == pass.session
             done == Done(pass.marks[r])
             prior == Prior(pass.marks[r], calls[r])
             skip == {r} \X (done + 1 .. prior)
  <2>1. r \in Session /\ pass.marks[r] \in Mark /\ calls[r] \in Nat
    BY <1>2 DEF Read, TypeOK, Pass
  <2>2. done \in Nat /\ prior \in Nat /\ (prior = done \/ done = 0)
    BY <2>1, DoneType, PriorIs
  <2>3. pass'.skipped = pass.skipped \cup skip /\ skipped' = skipped
    BY <1>2 DEF Read, TypeOK, Pass, historyVars
  <2> HIDE DEF done, prior
  <2>4. First(skip)
    BY <2>2 DEF First
  <2> HIDE DEF skip
  <2> QED
    BY <2>3, <2>4 DEF SkipInv, First
<1>3. CASE WriteMarks
  <2>1. skipped' = skipped \cup pass.skipped /\ pass'.skipped = {}
    BY <1>3 DEF WriteMarks, NoPass
  <2> QED
    BY <1>1, <2>1 DEF SkipInv, First
<1>4. CASE ReadNothing
  <2>1. pass'.skipped = pass.skipped /\ skipped' = skipped
    BY <1>4, NothingSet DEF ReadNothing, historyVars
  <2> QED
    BY <2>1 DEF SkipInv
<1>5. CASE AppendFindings
  <2>1. pass'.skipped = pass.skipped /\ skipped' = skipped
    BY <1>5, MarkSet DEF AppendFindings, historyVars
  <2> QED
    BY <2>1 DEF SkipInv
<1>6. CASE Begin \/ FailDetection \/ AddCounts \/ SkipSubmit \/ Finish \/ Crash \/ (\E id \in Id : Submit(id))
  <2>1. pass'.skipped = {} /\ skipped' = skipped
    <3>1. ASSUME NEW id \in Id, Submit(id) PROVE pass'.skipped = {} /\ skipped' = skipped
      BY <3>1 DEF Submit, NoPass, historyVars
    <3>2. CASE Begin \/ AddCounts
      BY <3>2 DEF Begin, AddCounts, NoPass, historyVars
    <3>3. CASE FailDetection \/ SkipSubmit \/ Finish \/ Crash
      BY <3>3 DEF FailDetection, SkipSubmit, Finish, Crash, NoPass, historyVars
    <3> QED
      BY <1>6, <3>1, <3>2, <3>3
  <2> QED
    BY <1>1, <2>1 DEF SkipInv
<1>7. CASE \/ \E s \in Session : Call(s) \/ OpenLog(s) \/ Stat(s)
           \/ \E u \in Unit : AppendSignal(u)
           \/ TakeLog \/ ReadLog \/ Send
           \/ \E m \in wire : Accept(m) \/ Refuse(m) \/ Lose(m)
           \/ Later \/ NewDay \/ UNCHANGED vars
  <2>1. pass'.skipped = pass.skipped /\ skipped' = skipped
    BY <1>7 DEF Call, OpenLog, Stat, AppendSignal, TakeLog, ReadLog, Send, Accept, Refuse, Lose,
       Later, NewDay, vars, historyVars, TypeOK, Pass
  <2> QED
    BY <2>1 DEF SkipInv
<1> QED
  BY <1>2, <1>3, <1>4, <1>5, <1>6, <1>7 DEF Next, PassStep

(* detect-log.ts:24-25, advanced-usage.ts, rule-signals.ts: every unit that was
   counted is in one place and one only, from the signal log to the answer of its
   batch, whatever is killed, refused or resent; what is acknowledged is billed,
   and what was dropped is billed only if an answer did not come through.  Calls
   marked as counted and counted by no pass (detect-log.ts:166) are the first of
   their session. *)
THEOREM AccountedAlways == Spec => []Accounted
<1>1. Init => IInv /\ PlacesInv /\ CloudInv /\ SkipInv
  <2>1. Init => SkipInv
    BY DEF Init, NoPass, SkipInv, First
  <2> QED
    BY <2>1, IInvInit, PlacesInit, CloudInit
<1>2. IInv /\ PlacesInv /\ CloudInv /\ SkipInv /\ [Next]_vars
        => (IInv /\ PlacesInv /\ CloudInv /\ SkipInv)'
  BY IInvNext, PlacesNext, CloudNext, SkipNext DEF IInv
<1>3. IInv /\ PlacesInv /\ CloudInv /\ SkipInv => Accounted
  <2> SUFFICES ASSUME IInv, PlacesInv, CloudInv, SkipInv PROVE Accounted
    OBVIOUS
  <2>1. ASSUME NEW u \in Counted
        PROVE  Cardinality({i \in DOMAIN Places : u \in Places[i]}) = 1
    <3>1. PICK n : OnlyIn(u, n)
      BY OnePlace
    <3>2. Cardinality({n}) = 1
      BY FS_Singleton
    <3> QED
      BY <3>1, <3>2 DEF OnlyIn
  <2>2. acked \subseteq Billed
    BY DEF CloudInv
  <2>3. file.dropped \cap Billed \subseteq unsure
    <3>1. Billed \subseteq acked \cup unsure \cup file.batch.units
      BY DEF CloudInv
    <3>2. file.dropped \cap (acked \cup file.batch.units) = {}
      BY DEF PlacesInv, GoneApart, Active
    <3> QED
      BY <3>1, <3>2
  <2> QED
    BY <2>1, <2>2, <2>3 DEF Accounted, SkipInv, First
<1> QED
  BY <1>1, <1>2, <1>3, PTL DEF Spec
=============================================================================
