----------------------- MODULE ExportFollowerProofs ------------------------
(***************************************************************************)
(* Proofs about ExportFollower, for any session files, sizes, numbers of   *)
(* events, kills and removals.                                             *)
(*                                                                         *)
(* AtLeastOnce speaks of the saved watermark, which is a copy of offsets   *)
(* that polls moved on, file by file, long before their events were        *)
(* written.  The invariant says of every offset, saved or in the           *)
(* follower's memory, that each line which begins before it was written,   *)
(* is one of the named exceptions, or is in the follower's hands.  It      *)
(* speaks of the beginnings of lines: the offset begin() takes of a half   *)
(* written file lies inside a line.                                        *)
(*                                                                         *)
(* NotRepeated needs to know why an event that was written as often as the *)
(* kills allow is not read again: it is behind the offsets in memory and,  *)
(* until they are saved, behind no other watermark.  An event whose        *)
(* watermark was saved is behind every offset from then on, or, while a    *)
(* start without --since has not looked at its file, below the end of that *)
(* file; only a start with --since that finds no watermark loses this.     *)
(* KeptFiles needs the slot that a rotation has vacated.                   *)
(***************************************************************************)
EXTENDS ExportFollower, SequenceTheorems, FiniteSetTheorems, TLAPS

Offset == [at : Nat, of : Nat]

Step == {"down", "begin", "poll", "read", "rotate", "shift", "write", "save", "fill", "sleep"}

Locals == [at : Step, todo : SUBSET File, file : File \cup {None}, size : Nat,
           offsets : [File -> Offset], events : SUBSET Event, slot : Nat]

Line == Event \cup {0}

TypeInv ==
    /\ happened \in 0..MaxEvents
    /\ log \in [File -> Seq(Event)]
    /\ \A f \in File : \A i \in DOMAIN log[f] : log[f][i] <= happened
    /\ there \subseteq File /\ half \subseteq there
    /\ \A f \in half : log[f] # <<>>
    /\ removed \in [File -> Nat]
    /\ follower \in Locals
    /\ follower.at = "read" => follower.file \in File
    /\ watermark \in [File -> Offset] \cup {None}
    /\ out \in Seq(Line) /\ all \in Seq(Line)
    /\ saved \in Nat \cup {None}
    /\ settled \subseteq Event /\ retold \subseteq settled

-----------------------------------------------------------------------------
(* What is known about one offset of one file. *)

SizeOf(line, torn) == 2 * Len(line) - (IF torn THEN 1 ELSE 0)

BelowOf(line, offset)  == {line[i] : i \in {j \in DOMAIN line : 2 * (j - 1) < offset}}
PassedOf(line, offset) == {line[i] : i \in {j \in DOMAIN line : 2 * j <= offset}}

(* An offset of the present file, the nth of its name, is in the file, and the
   lines before it are known; of an earlier file of that name, nothing is. *)
Good(o, line, torn, n, known) ==
    /\ o.of <= n
    /\ o.of = n => o.at <= SizeOf(line, torn) /\ BelowOf(line, o.at) \subseteq known

LEMMA SizeIs == \A f : Size(f) = SizeOf(log[f], f \in half)
BY DEF Size, SizeOf

LEMMA BelowIs == \A f, offset : Below(f, offset) = BelowOf(log[f], offset)
BY DEF Below, BelowOf

LEMMA PassedIs == \A f, offset : Passed(f, offset) = PassedOf(log[f], offset)
BY DEF Passed, PassedOf

(* More is known. *)
LEMMA GoodMore ==
    ASSUME NEW o, NEW line, NEW torn, NEW n, NEW known, NEW more,
           known \subseteq more, Good(o, line, torn, n, known)
    PROVE  Good(o, line, torn, n, more)
BY DEF Good

(* A line is appended to a file whose last line is whole. *)
LEMMA GoodAppend ==
    ASSUME NEW o \in Offset, NEW line \in Seq(Event), NEW n \in Nat, NEW known, NEW e \in Event,
           NEW torn \in BOOLEAN, Good(o, line, FALSE, n, known)
    PROVE  Good(o, Append(line, e), torn, n, known)
<1>1. o.of <= n /\ o.at \in Nat
  BY DEF Good, Offset
<1>2. ASSUME o.of = n
      PROVE  /\ o.at <= SizeOf(Append(line, e), torn)
             /\ BelowOf(Append(line, e), o.at) \subseteq known
  <2>1. o.at <= 2 * Len(line) /\ BelowOf(line, o.at) \subseteq known
    BY <1>2 DEF Good, SizeOf
  <2>2. Len(Append(line, e)) = Len(line) + 1 /\ Len(line) \in Nat
    OBVIOUS
  <2>3. o.at <= SizeOf(Append(line, e), torn)
    BY <1>1, <2>1, <2>2 DEF SizeOf
  <2>4. ASSUME NEW i \in DOMAIN Append(line, e), 2 * (i - 1) < o.at
        PROVE  Append(line, e)[i] \in known
    <3>1. i \in 1..Len(line) /\ Append(line, e)[i] = line[i]
      BY <1>1, <2>1, <2>2, <2>4
    <3> QED
      BY <2>1, <2>4, <3>1 DEF BelowOf
  <2> QED
    BY <2>3, <2>4 DEF BelowOf
<1> QED
  BY <1>1, <1>2 DEF Good

(* The second half of the last line is written. *)
LEMMA GoodEnd ==
    ASSUME NEW o \in Offset, NEW line \in Seq(Event), NEW n \in Nat, NEW known,
           Good(o, line, TRUE, n, known)
    PROVE  Good(o, line, FALSE, n, known)
<1>1. Len(line) \in Nat /\ o.at \in Nat
  BY DEF Offset
<1> QED
  BY <1>1 DEF Good, SizeOf

(* The file is removed. *)
LEMMA GoodRemoved ==
    ASSUME NEW o \in Offset, NEW line, NEW torn, NEW next, NEW n \in Nat, NEW known,
           Good(o, line, torn, n, known)
    PROVE  Good(o, next, torn, n + 1, known)
<1>1. o.of \in Nat
  BY DEF Offset
<1> QED
  BY <1>1 DEF Good

LEMMA SizeNat ==
    ASSUME TypeInv, NEW f \in File
    PROVE  Size(f) \in Nat /\ SizeOf(log[f], f \in half) \in Nat
<1>1. log[f] \in Seq(Event) /\ Len(log[f]) \in Nat
  BY DEF TypeInv
<1>2. CASE f \in half
  <2>1. Len(log[f]) # 0
    BY <1>1, <1>2 DEF TypeInv
  <2> QED
    BY <1>1, <1>2, <2>1 DEF Size, SizeOf
<1>3. CASE f \notin half
  BY <1>1, <1>3 DEF Size, SizeOf
<1> QED
  BY <1>2, <1>3

(* The top of a file is a good offset. *)
LEMMA GoodZero ==
    ASSUME TypeInv, NEW f \in File, NEW known, NEW n \in Nat, n <= removed[f]
    PROVE  Good([at |-> 0, of |-> n], log[f], f \in half, removed[f], known)
<1>1. SizeOf(log[f], f \in half) \in Nat
  BY SizeNat
<1>2. BelowOf(log[f], 0) = {}
  <2>1. \A j \in DOMAIN log[f] : ~(2 * (j - 1) < 0)
    BY DEF TypeInv
  <2> QED
    BY <2>1 DEF BelowOf
<1> QED
  BY <1>1, <1>2 DEF Good
-----------------------------------------------------------------------------
(* Type correctness. *)

LEMMA EventsFinite ==
    ASSUME TypeInv, NEW S \in SUBSET Event
    PROVE  IsFiniteSet(S) /\ Cardinality(S) \in Nat
<1>1. MaxEvents \in Nat
  BY FollowerAssumption
<1>2. IsFiniteSet(Event)
  BY <1>1, FS_Interval DEF Event
<1> QED
  BY <1>2, FS_Subset, FS_CardinalityType

(* The text of a poll. *)
LEMMA TextType ==
    ASSUME TypeInv, NEW text \in Texts(follower.events)
    PROVE  /\ text \in Seq(Line)
           /\ Len(text) = Cardinality(follower.events)
           /\ ToSet(text) = follower.events
           /\ \A i \in DOMAIN text : text[i] \in follower.events
<1>1. follower.events \in SUBSET Event
  BY DEF TypeInv, Locals
<1>2. Cardinality(follower.events) \in Nat
  BY <1>1, EventsFinite
<1>3. text \in [1..Cardinality(follower.events) -> follower.events] /\ ToSet(text) = follower.events
  BY DEF Texts
<1>4. text \in Seq(follower.events) /\ Len(text) = Cardinality(follower.events)
  BY <1>2, <1>3
<1>5. follower.events \subseteq Line
  BY <1>1 DEF Line
<1> QED
  BY <1>3, <1>4, <1>5

LEMMA AppendedType ==
    ASSUME NEW lines \in Seq(Line), NEW unended, NEW text \in Seq(Line)
    PROVE  Appended(lines, unended, text) \in Seq(Line)
<1>1. CASE unended /\ text # <<>>
  <2>1. Tail(text) \in Seq(Line)
    BY <1>1
  <2> QED
    BY <1>1, <2>1 DEF Appended
<1>2. CASE ~(unended /\ text # <<>>)
  BY <1>2 DEF Appended
<1> QED
  BY <1>1, <1>2

(* Some whole lines of a text, and half of the next one perhaps. *)
LEMMA PartType ==
    ASSUME TypeInv, NEW text \in Texts(follower.events),
           NEW n \in 0..Cardinality(follower.events) - 1, NEW broken \in BOOLEAN
    PROVE  SubSeq(text, 1, n) \o (IF broken THEN <<0>> ELSE <<>>) \in Seq(Line)
<1>1. Cardinality(follower.events) \in Nat
  <2>1. follower.events \in SUBSET Event
    BY DEF TypeInv, Locals
  <2> QED
    BY <2>1, EventsFinite
<1>2. text \in Seq(Line) /\ Len(text) = Cardinality(follower.events)
  BY TextType
<1>3. SubSeq(text, 1, n) \in Seq(Line)
  BY <1>1, <1>2, SubSeqProperties
<1>4. <<0>> \in Seq(Line) /\ <<>> \in Seq(Line)
  BY DEF Line
<1> QED
  BY <1>3, <1>4

LEMMA TypeInit == Init => TypeInv
<1> SUFFICES ASSUME Init PROVE TypeInv
  OBVIOUS
<1>1. MaxEvents \in Nat
  BY FollowerAssumption
<1>2. NoOffsets \in [File -> Offset]
  BY DEF NoOffsets, Offset
<1>3. Down \in Locals /\ Down.at = "down"
  BY <1>2 DEF Down, Locals, Step
<1> QED
  BY <1>1, <1>3 DEF Init, TypeInv

LEMMA TypeNext == TypeInv /\ [Next]_vars => TypeInv'
<1> SUFFICES ASSUME TypeInv, [Next]_vars PROVE TypeInv'
  OBVIOUS
<1> USE DEF TypeInv
<1>0. Down \in Locals /\ Down.at = "down"
  BY DEF Down, Locals, Step, NoOffsets, Offset
<1>1. ASSUME NEW f \in File, AppendLine(f) PROVE TypeInv'
  <2>1. happened + 1 \in Event /\ happened + 1 \in 0..MaxEvents
    BY <1>1, FollowerAssumption DEF AppendLine, Event
  <2>2. log' = [log EXCEPT ![f] = Append(@, happened + 1)] /\ happened' = happened + 1
    BY <1>1 DEF AppendLine
  <2>3. log' \in [File -> Seq(Event)]
    BY <2>1, <2>2
  <2>4. ASSUME NEW g \in File, NEW i \in DOMAIN log'[g] PROVE log'[g][i] <= happened'
    <3>1. log[g] \in Seq(Event) /\ \A j \in DOMAIN log[g] : log[g][j] \in Nat /\ log[g][j] <= happened
      BY FollowerAssumption DEF Event
    <3>2. CASE g = f
      <4>1. log'[g] = Append(log[g], happened + 1)
        BY <2>2, <3>2
      <4> QED
        BY <2>1, <2>2, <2>4, <3>1, <4>1
    <3>3. CASE g # f
      BY <2>1, <2>2, <2>4, <3>1, <3>3
    <3> QED
      BY <3>2, <3>3
  <2>5. ASSUME NEW g \in half' PROVE log'[g] # <<>>
    <3>1. g \in File /\ (g = f \/ g \in half)
      BY <1>1, <2>5 DEF AppendLine
    <3>2. CASE g = f
      BY <2>1, <2>2, <3>1, <3>2
    <3>3. CASE g # f
      BY <2>2, <3>1, <3>3
    <3> QED
      BY <3>2, <3>3
  <2>6. there' \subseteq File /\ half' \subseteq there'
    BY <1>1 DEF AppendLine
  <2>7. UNCHANGED <<removed, follower, watermark, out, all, saved, settled, retold>>
    BY <1>1 DEF AppendLine, outVars, historyVars
  <2> QED
    BY <2>1, <2>2, <2>3, <2>4, <2>5, <2>6, <2>7
<1>2. ASSUME NEW f \in File, EndLine(f) PROVE TypeInv'
  BY <1>2 DEF EndLine, outVars, historyVars
<1>3. ASSUME NEW f \in File, RemoveSession(f) PROVE TypeInv'
  <2>1. log' = [log EXCEPT ![f] = <<>>] /\ f \notin half
    BY <1>3 DEF RemoveSession
  <2>2. log' \in [File -> Seq(Event)]
    BY <2>1
  <2>3. \A g \in File : \A i \in DOMAIN log'[g] : log'[g][i] <= happened
    BY <2>1
  <2>4. \A g \in half : log'[g] # <<>>
    BY <2>1
  <2>5. there' \subseteq File /\ half \subseteq there' /\ removed' \in [File -> Nat]
    BY <1>3 DEF RemoveSession
  <2>6. UNCHANGED <<happened, half, follower, watermark, out, all, saved, settled, retold>>
    BY <1>3 DEF RemoveSession, outVars, historyVars
  <2> QED
    BY <2>2, <2>3, <2>4, <2>5, <2>6
<1>4. CASE Start
  <2>1. follower' \in Locals /\ follower'.at = "begin"
    BY <1>4, <1>0 DEF Start, Down, Locals, Step, NoOffsets, Offset
  <2> QED
    BY <1>4, <2>1 DEF Start, logVars, outVars
<1>5. ASSUME NEW f \in File, BeginAtEnd(f) PROVE TypeInv'
  <2>1. follower' \in Locals /\ follower'.at = "begin"
    <3>1. CASE f \in there
      <4>1. follower' = [follower EXCEPT !.todo = @ \ {f},
                                         !.offsets[f] = [at |-> Size(f), of |-> removed[f]]]
        BY <1>5, <3>1 DEF BeginAtEnd
      <4>2. [at |-> Size(f), of |-> removed[f]] \in Offset
        BY SizeNat DEF Offset
      <4>3. [follower.offsets EXCEPT ![f] = [at |-> Size(f), of |-> removed[f]]] \in [File -> Offset]
        BY <4>2 DEF Locals
      <4> QED
        BY <1>5, <4>1, <4>3 DEF BeginAtEnd, Locals
    <3>2. CASE f \notin there
      <4>1. follower' = [follower EXCEPT !.todo = @ \ {f}] /\ follower.at = "begin"
        BY <1>5, <3>2 DEF BeginAtEnd
      <4> QED
        BY <4>1 DEF Locals
    <3> QED
      BY <3>1, <3>2
  <2> QED
    BY <1>5, <2>1 DEF BeginAtEnd, logVars, outVars
<1>6. CASE ListFiles
  <2>1. follower' \in Locals /\ follower'.at = "poll"
    BY <1>6 DEF ListFiles, Locals, Step
  <2> QED
    BY <1>6, <2>1 DEF ListFiles, logVars, outVars, historyVars
<1>7. ASSUME NEW f \in File, Stat(f) PROVE TypeInv'
  <2> DEFINE offset == IF Size(f) < follower.offsets[f].at THEN 0 ELSE follower.offsets[f].at
  <2>1. offset \in Nat /\ Size(f) \in Nat
    BY SizeNat DEF Locals, Offset
  <2>2. StatFrom(f, offset)
    BY <1>7 DEF Stat
  <2> HIDE DEF offset
  <2>3. follower' \in Locals /\ (follower'.at = "read" => follower'.file \in File)
    <3>1. CASE f \in there
      <4>1. [follower.offsets EXCEPT ![f] = [at |-> offset, of |-> removed[f]]] \in [File -> Offset]
        BY <2>1 DEF Locals, Offset
      <4>2. follower' = [follower EXCEPT
                  !.todo = @ \ {f},
                  !.offsets[f] = [at |-> offset, of |-> removed[f]],
                  !.at = IF Size(f) > offset THEN "read" ELSE "poll",
                  !.file = IF Size(f) > offset THEN f ELSE None,
                  !.size = IF Size(f) > offset THEN Size(f) ELSE 0]
        BY <2>2, <3>1 DEF StatFrom
      <4>3. CASE Size(f) > offset
        BY <2>1, <4>1, <4>2, <4>3 DEF Locals, Step
      <4>4. CASE ~(Size(f) > offset)
        BY <2>1, <4>1, <4>2, <4>4 DEF Locals, Step
      <4> QED
        BY <4>3, <4>4
    <3>2. CASE f \notin there
      <4>1. follower' = [follower EXCEPT !.todo = @ \ {f}] /\ follower.at = "poll"
        BY <2>2, <3>2 DEF StatFrom
      <4> QED
        BY <4>1 DEF Locals
    <3> QED
      BY <3>1, <3>2
  <2> QED
    BY <2>2, <2>3 DEF StatFrom, logVars, outVars
<1>8. CASE Read
  <2> DEFINE f    == follower.file
             from == follower.offsets[f].at
             end  == Smaller(follower.size, Size(f))
             next == WholeLines(from, end)
             new  == [at |-> next, of |-> IF from <= Size(f) THEN removed[f] ELSE follower.offsets[f].of]
             read == follower.events \cup (Passed(f, end) \ Below(f, from))
  <2>1. f \in File /\ follower.offsets[f] \in Offset
    BY <1>8 DEF Read, Locals
  <2>2. from \in Nat /\ Size(f) \in Nat /\ follower.size \in Nat
    BY <2>1, SizeNat DEF Locals, Offset
  <2>3. end \in Nat /\ next \in Nat
    BY <2>2 DEF Smaller, WholeLines
  <2>4. new \in Offset
    BY <2>1, <2>3 DEF Offset
  <2>5. read \in SUBSET Event
    BY <2>1 DEF Passed, Locals
  <2>6. follower' = [follower EXCEPT !.at = "poll", !.file = None, !.size = 0,
                                     !.events = read, !.offsets[f] = new]
    BY <1>8 DEF Read
  <2> HIDE DEF f, new, read
  <2>7. [follower.offsets EXCEPT ![f] = new] \in [File -> Offset]
    BY <2>4 DEF Locals
  <2>8. follower' \in Locals /\ follower'.at = "poll"
    BY <2>5, <2>6, <2>7 DEF Locals, Step
  <2> QED
    BY <1>8, <2>8 DEF Read, logVars, outVars
<1>9. CASE FailRead
  BY <1>9, <1>0 DEF FailRead, logVars, outVars, historyVars
<1>10. CASE EndPoll
  <2>1. follower' \in Locals /\ follower'.at # "read"
    BY <1>10 DEF EndPoll, Locals, Step
  <2> QED
    BY <1>10, <2>1 DEF EndPoll, logVars, outVars, historyVars
<1>11. CASE RemoveOldest
  <2>1. CASE Keep = 0
    <3>1. out' = <<>> /\ follower' = [follower EXCEPT !.at = "write"]
      BY <1>11, <2>1 DEF RemoveOldest
    <3>2. follower' \in Locals /\ follower'.at = "write"
      BY <3>1 DEF Locals, Step
    <3>3. out' \in Seq(Line)
      BY <3>1
    <3> QED
      BY <1>11, <3>2, <3>3 DEF RemoveOldest, logVars, historyVars
  <2>2. CASE Keep # 0
    <3>1. out' = out /\ follower' = [follower EXCEPT !.at = "shift", !.slot = Keep - 1]
      BY <1>11, <2>2 DEF RemoveOldest
    <3>2. Keep - 1 \in Nat
      BY <2>2, FollowerAssumption
    <3> QED
      BY <1>11, <3>1, <3>2 DEF RemoveOldest, logVars, historyVars, Locals, Step
  <2> QED
    BY <2>1, <2>2
<1>12. CASE Shift
  <2>1. follower' \in Locals /\ follower'.at # "read"
    <3>1. follower' = [follower EXCEPT !.slot = @ - 1] /\ follower.slot > 0 /\ follower.at = "shift"
      BY <1>12 DEF Shift
    <3>2. follower.slot - 1 \in Nat
      BY <3>1 DEF Locals
    <3> QED
      BY <3>1, <3>2 DEF Locals
  <2> QED
    BY <1>12, <2>1 DEF Shift, logVars, historyVars
<1>13. CASE Rotate
  <2>1. follower' \in Locals /\ follower'.at # "read"
    BY <1>13 DEF Rotate, Locals, Step
  <2> QED
    BY <1>13, <2>1 DEF Rotate, logVars, historyVars
<1>14. CASE Write
  <2>1. follower' \in Locals /\ follower'.at # "read"
    BY <1>14 DEF Write, Locals, Step
  <2>2. PICK text \in Texts(follower.events) :
             out' = Appended(out, cut, text) /\ all' = Appended(all, cut, text)
    BY <1>14 DEF Write
  <2>3. out' \in Seq(Line) /\ all' \in Seq(Line)
    BY <2>2, TextType, AppendedType
  <2> QED
    BY <1>14, <2>1, <2>3 DEF Write, logVars
<1>15. CASE Truncate
  <2>1. follower' \in Locals /\ follower'.at # "read"
    BY <1>15 DEF Truncate, Locals, Step
  <2> QED
    BY <1>15, <2>1 DEF Truncate, logVars, outVars, historyVars
<1>16. CASE Fill
  <2>1. follower' \in Locals /\ follower'.at # "read"
    BY <1>16 DEF Fill, Locals, Step
  <2>2. watermark' \in [File -> Offset]
    BY <1>16 DEF Fill, Locals
  <2>3. saved' \in Nat \cup {None}
    BY <1>16, FollowerAssumption DEF Fill
  <2>4. settled' \subseteq Event /\ retold' \subseteq settled'
    BY <1>16 DEF Fill, Locals
  <2> QED
    BY <1>16, <2>1, <2>2, <2>3, <2>4 DEF Fill, logVars, outVars
<1>17. CASE Stop
  BY <1>17, <1>0 DEF Stop, logVars, outVars, historyVars
<1>18. CASE Kill
  BY <1>18, <1>0 DEF Kill, logVars, outVars
<1>19. CASE KillWriting
  <2>1. PICK text \in Texts(follower.events), n \in 0..Cardinality(follower.events) - 1,
             broken \in BOOLEAN :
             LET part == SubSeq(text, 1, n) \o (IF broken THEN <<0>> ELSE <<>>)
             IN  out' = Appended(out, cut, part) /\ all' = Appended(all, cut, part)
    BY <1>19 DEF KillWriting
  <2>2. out' \in Seq(Line) /\ all' \in Seq(Line)
    BY <2>1, PartType, AppendedType
  <2> QED
    BY <1>19, <1>0, <2>2 DEF KillWriting, logVars
<1>20. CASE UNCHANGED vars
  BY <1>20 DEF vars, logVars, outVars, historyVars
<1> QED
  BY <1>1, <1>2, <1>3, <1>4, <1>5, <1>6, <1>7, <1>8, <1>9, <1>10, <1>11, <1>12, <1>13, <1>14,
     <1>15, <1>16, <1>17, <1>18, <1>19, <1>20 DEF Next, FollowerStep

THEOREM TypeCorrect == Spec => []TypeOK
<1>1. TypeInv => TypeOK
  <2> SUFFICES ASSUME TypeInv PROVE TypeOK
    OBVIOUS
  <2>1. \A f \in File : Range(log[f]) \subseteq Event
    BY DEF TypeInv, Range
  <2>2. Range(out) \subseteq Event \cup {0} /\ Range(all) \subseteq Event \cup {0}
    BY DEF TypeInv, Range, Line
  <2>3. follower.events \subseteq Event /\ follower.todo \subseteq File
    BY DEF TypeInv, Locals
  <2> QED
    BY <2>1, <2>2, <2>3 DEF TypeInv, TypeOK
<1> QED
  BY <1>1, TypeInit, TypeNext, PTL DEF Spec

-----------------------------------------------------------------------------
(* What a write adds to what was written. *)

LEMMA AppendedHas ==
    ASSUME NEW lines \in Seq(Line), NEW unended, NEW text \in Seq(Line)
    PROVE  /\ ToSet(lines) \subseteq ToSet(Appended(lines, unended, text))
           /\ ~unended => ToSet(text) \subseteq ToSet(Appended(lines, unended, text))
           /\ unended => ToSet(text) \subseteq ToSet(Appended(lines, unended, text)) \cup {text[1]}
<1>1. ASSUME NEW more \in Seq(Line)
      PROVE  ToSet(lines) \subseteq ToSet(lines \o more) /\ ToSet(more) \subseteq ToSet(lines \o more)
  <2>1. \A i \in DOMAIN lines : i \in DOMAIN (lines \o more) /\ (lines \o more)[i] = lines[i]
    OBVIOUS
  <2>2. \A i \in DOMAIN more : /\ Len(lines) + i \in DOMAIN (lines \o more)
                               /\ (lines \o more)[Len(lines) + i] = more[i]
    OBVIOUS
  <2> QED
    BY <2>1, <2>2 DEF ToSet
<1>2. CASE unended /\ text # <<>>
  <2>1. Tail(text) \in Seq(Line) /\ Appended(lines, unended, text) = lines \o Tail(text)
    BY <1>2 DEF Appended
  <2>2. ToSet(text) \subseteq ToSet(Tail(text)) \cup {text[1]}
    <3>1. ASSUME NEW i \in DOMAIN text, i # 1
          PROVE  i - 1 \in DOMAIN Tail(text) /\ Tail(text)[i - 1] = text[i]
      BY <1>2, <3>1
    <3> QED
      BY <3>1 DEF ToSet
  <2> QED
    BY <1>1, <1>2, <2>1, <2>2
<1>3. CASE ~(unended /\ text # <<>>)
  <2>1. Appended(lines, unended, text) = lines \o text
    BY <1>3 DEF Appended
  <2> QED
    BY <1>1, <2>1
<1> QED
  BY <1>2, <1>3

LEMMA ExceptionsGrow ==
    ASSUME [Next]_vars
    PROVE  Excepted \subseteq Excepted'
<1> USE DEF Excepted
<1>1. ASSUME NEW f \in File, BeginAtEnd(f) PROVE Excepted \subseteq Excepted'
  BY <1>1 DEF BeginAtEnd
<1>2. ASSUME NEW f \in File, Stat(f) PROVE Excepted \subseteq Excepted'
  BY <1>2 DEF Stat, StatFrom
<1>3. CASE Read
  BY <1>3 DEF Read
<1>4. CASE Write
  BY <1>4 DEF Write
<1>5. CASE KillWriting
  BY <1>5 DEF KillWriting
<1>6. UNCHANGED <<skipped, overtaken, glued>> => Excepted \subseteq Excepted'
  OBVIOUS
<1> QED
  BY <1>1, <1>2, <1>3, <1>4, <1>5, <1>6
  DEF Next, FollowerStep, vars, historyVars, AppendLine, EndLine, RemoveSession, Start,
      ListFiles, FailRead, EndPoll, RemoveOldest, Shift, Rotate, Truncate, Fill, Stop, Kill

LEMMA WrittenGrows ==
    ASSUME TypeInv, [Next]_vars
    PROVE  ToSet(all) \subseteq ToSet(all)'
<1>1. CASE Write
  <2>1. PICK text \in Texts(follower.events) : all' = Appended(all, cut, text)
    BY <1>1 DEF Write
  <2>2. text \in Seq(Line) /\ all \in Seq(Line)
    BY TextType DEF TypeInv
  <2> QED
    BY <2>1, <2>2, AppendedHas
<1>2. CASE KillWriting
  <2>1. PICK text \in Texts(follower.events), n \in 0..Cardinality(follower.events) - 1,
             broken \in BOOLEAN :
             all' = Appended(all, cut, SubSeq(text, 1, n) \o (IF broken THEN <<0>> ELSE <<>>))
    BY <1>2 DEF KillWriting
  <2>2. all \in Seq(Line)
    BY DEF TypeInv
  <2> QED
    BY <2>1, <2>2, PartType, AppendedHas
<1>3. all' = all => ToSet(all) \subseteq ToSet(all)'
  OBVIOUS
<1> QED
  BY <1>1, <1>2, <1>3
  DEF Next, FollowerStep, vars, outVars, AppendLine, EndLine, RemoveSession, Start, BeginAtEnd,
      ListFiles, Stat, StatFrom, Read, FailRead, EndPoll, RemoveOldest, Shift, Rotate, Truncate,
      Fill, Stop, Kill

-----------------------------------------------------------------------------
(* What stands before the offsets. *)

Known == ToSet(all) \cup Excepted

(* Events a poll has read and not written. *)
InHand == IF follower.at \in {"save", "fill"} THEN {} ELSE follower.events

OffsetsInv ==
    /\ watermark # None =>
         \A f \in File : Good(watermark[f], log[f], f \in half, removed[f], Known)
    /\ \A f \in File : Good(follower.offsets[f], log[f], f \in half, removed[f], Known \cup InHand)
    /\ follower.at \in {"begin", "sleep", "down"} => follower.events = {}

(* Only a start that found no watermark skips anything, and what it skips has
   happened. *)
SkippedInv ==
    /\ \A e \in skipped : e \in Event /\ e <= happened
    /\ follower.at = "begin" /\ follower.todo # {} => saved = None \/ afresh
    /\ ~afresh /\ saved # None => \A e \in skipped : e <= saved

IInv == TypeInv /\ OffsetsInv /\ SkippedInv

LEMMA KnownGrows ==
    ASSUME TypeInv, [Next]_vars
    PROVE  Known \subseteq Known'
BY ExceptionsGrow, WrittenGrows DEF Known

(* A step that leaves the files alone leaves their offsets good. *)
LEMMA StillGood ==
    ASSUME TypeInv, OffsetsInv, [Next]_vars, UNCHANGED <<log, half, removed>>, NEW f \in File
    PROVE  /\ watermark # None => Good(watermark[f], log'[f], f \in half', removed'[f], Known')
           /\ Known \cup InHand \subseteq Known' \cup InHand' =>
                Good(follower.offsets[f], log'[f], f \in half', removed'[f], Known' \cup InHand')
<1>1. watermark # None => Good(watermark[f], log[f], f \in half, removed[f], Known')
  BY KnownGrows, GoodMore DEF OffsetsInv
<1>2. Good(follower.offsets[f], log[f], f \in half, removed[f], Known \cup InHand)
  BY DEF OffsetsInv
<1>3. Known \cup InHand \subseteq Known' \cup InHand' =>
        Good(follower.offsets[f], log[f], f \in half, removed[f], Known' \cup InHand')
  BY <1>2, GoodMore
<1> QED
  BY <1>1, <1>3

(* A follower that ended holds nothing. *)
LEMMA DownGood ==
    ASSUME TypeInv, TypeInv', OffsetsInv, [Next]_vars, UNCHANGED <<log, half, removed, watermark>>,
           follower' = Down
    PROVE  OffsetsInv'
<1>1. ASSUME NEW f \in File
      PROVE  Good(follower'.offsets[f], log'[f], f \in half', removed'[f], Known' \cup InHand')
  <2>1. follower'.offsets[f] = [at |-> 0, of |-> 0]
    BY DEF Down, NoOffsets
  <2>2. 0 <= removed[f]
    BY DEF TypeInv
  <2> QED
    BY <2>1, <2>2, GoodZero
<1>2. follower'.events = {}
  BY DEF Down
<1> QED
  BY <1>1, <1>2, StillGood DEF OffsetsInv

LEMMA OffsetsInit == Init => OffsetsInv
<1> SUFFICES ASSUME Init PROVE OffsetsInv
  OBVIOUS
<1>1. TypeInv
  BY TypeInit
<1>2. ASSUME NEW f \in File
      PROVE  Good(follower.offsets[f], log[f], f \in half, removed[f], Known \cup InHand)
  <2>1. follower.offsets[f] = [at |-> 0, of |-> 0] /\ 0 <= removed[f]
    BY DEF Init, Down, NoOffsets
  <2> QED
    BY <1>1, <2>1, GoodZero
<1> QED
  BY <1>2 DEF Init, OffsetsInv, Down

(* Nothing but the follower's state changes, and what it holds stays. *)
LEMMA HandsGood ==
    ASSUME TypeInv, OffsetsInv, [Next]_vars, UNCHANGED <<log, half, removed>>,
           watermark' \in {watermark, None},
           follower'.offsets = follower.offsets,
           Known \cup InHand \subseteq Known' \cup InHand',
           follower'.at \in {"begin", "sleep", "down"} => follower'.events = {}
    PROVE  OffsetsInv'
BY StillGood DEF OffsetsInv

(* A line that ends within what was read, and begins before the next offset,
   was behind the offset already or is among those that were read. *)
LEMMA ReadPasses ==
    ASSUME NEW line \in Seq(Event), NEW from \in Nat, NEW end \in Nat
    PROVE  BelowOf(line, WholeLines(from, end)) \subseteq
             BelowOf(line, from) \cup (PassedOf(line, end) \ BelowOf(line, from))
<1> SUFFICES ASSUME NEW j \in DOMAIN line, 2 * (j - 1) < WholeLines(from, end),
                    line[j] \notin BelowOf(line, from)
             PROVE  line[j] \in PassedOf(line, end)
  BY DEF BelowOf
<1>1. j \in Nat /\ ~(2 * (j - 1) < from)
  BY DEF BelowOf
<1>2. 2 * (end \div 2) > from /\ 2 * (j - 1) < 2 * (end \div 2)
  BY <1>1 DEF WholeLines
<1>3. 2 * j <= end
  BY <1>1, <1>2
<1> QED
  BY <1>3 DEF PassedOf

LEMMA WholeLinesBound ==
    ASSUME NEW from \in Nat, NEW end \in Nat, NEW size \in Nat, end <= size, from <= size
    PROVE  WholeLines(from, end) <= size /\ WholeLines(from, end) \in Nat
BY DEF WholeLines

LEMMA OffsetsNext == TypeInv /\ TypeInv' /\ OffsetsInv /\ [Next]_vars => OffsetsInv'
<1> SUFFICES ASSUME TypeInv, TypeInv', OffsetsInv, [Next]_vars PROVE OffsetsInv'
  OBVIOUS
<1> DEFINE Hands == Known \cup InHand
<1>0. \A f \in File : follower.offsets[f] \in Offset /\ (watermark # None => watermark[f] \in Offset)
  BY DEF TypeInv, Locals
<1>1. ASSUME NEW f \in File, AppendLine(f) PROVE OffsetsInv'
  <2>1. log' = [log EXCEPT ![f] = Append(@, happened + 1)] /\ f \notin half
        /\ half' \in {half, half \cup {f}} /\ removed' = removed
    BY <1>1 DEF AppendLine
  <2>2. Known' = Known /\ InHand' = InHand /\ UNCHANGED <<follower, watermark>>
    BY <1>1 DEF AppendLine, Known, InHand, Excepted, outVars, historyVars
  <2>3. happened + 1 \in Event
    BY <1>1, FollowerAssumption DEF AppendLine, TypeInv, Event
  <2>4. ASSUME NEW o \in Offset, NEW g \in File, NEW known,
               Good(o, log[g], g \in half, removed[g], known)
        PROVE  Good(o, log'[g], g \in half', removed'[g], known)
    <3>1. CASE g = f
      <4>1. log[f] \in Seq(Event) /\ removed[f] \in Nat /\ log'[f] = Append(log[f], happened + 1)
        BY <2>1 DEF TypeInv
      <4>2. (f \in half) = FALSE /\ (f \in half') \in BOOLEAN
        BY <2>1
      <4>3. Good(o, log[f], FALSE, removed[f], known)
        BY <2>4, <3>1, <4>2
      <4>4. Good(o, Append(log[f], happened + 1), f \in half', removed[f], known)
        BY <2>3, <4>1, <4>3, <4>2, GoodAppend
      <4> QED
        BY <2>1, <3>1, <4>1, <4>4
    <3>2. CASE g # f
      <4>1. log'[g] = log[g] /\ (g \in half' <=> g \in half) /\ removed'[g] = removed[g]
        BY <2>1, <3>2
      <4> QED
        BY <2>4, <4>1
    <3> QED
      BY <3>1, <3>2
  <2>5. \A g \in File : Good(follower.offsets[g], log'[g], g \in half', removed'[g], Known \cup InHand)
    BY <1>0, <2>4 DEF OffsetsInv
  <2>6. watermark # None => \A g \in File : Good(watermark[g], log'[g], g \in half', removed'[g], Known)
    BY <1>0, <2>4 DEF OffsetsInv
  <2> QED
    BY <2>2, <2>5, <2>6 DEF OffsetsInv
<1>2. ASSUME NEW f \in File, EndLine(f) PROVE OffsetsInv'
  <2>1. f \in half /\ half' = half \ {f} /\ log' = log /\ removed' = removed
    BY <1>2 DEF EndLine
  <2>2. Known' = Known /\ InHand' = InHand /\ UNCHANGED <<follower, watermark>>
    BY <1>2 DEF EndLine, Known, InHand, Excepted, outVars, historyVars
  <2>3. ASSUME NEW o \in Offset, NEW g \in File, NEW known,
               Good(o, log[g], g \in half, removed[g], known)
        PROVE  Good(o, log'[g], g \in half', removed'[g], known)
    <3>1. CASE g = f
      <4>1. log[f] \in Seq(Event) /\ removed[f] \in Nat
        BY DEF TypeInv
      <4>2. (f \in half) = TRUE /\ (f \in half') = FALSE
        BY <2>1
      <4>3. Good(o, log[f], TRUE, removed[f], known)
        BY <2>3, <3>1, <4>2
      <4> QED
        BY <2>1, <3>1, <4>1, <4>2, <4>3, GoodEnd
    <3>2. CASE g # f
      <4>1. (g \in half' <=> g \in half)
        BY <2>1, <3>2
      <4> QED
        BY <2>1, <2>3, <4>1
    <3> QED
      BY <3>1, <3>2
  <2>4. \A g \in File : Good(follower.offsets[g], log'[g], g \in half', removed'[g], Known \cup InHand)
    BY <1>0, <2>3 DEF OffsetsInv
  <2>5. watermark # None => \A g \in File : Good(watermark[g], log'[g], g \in half', removed'[g], Known)
    BY <1>0, <2>3 DEF OffsetsInv
  <2> QED
    BY <2>2, <2>4, <2>5 DEF OffsetsInv
<1>3. ASSUME NEW f \in File, RemoveSession(f) PROVE OffsetsInv'
  <2>1. log' = [log EXCEPT ![f] = <<>>] /\ half' = half /\ removed' = [removed EXCEPT ![f] = @ + 1]
    BY <1>3 DEF RemoveSession
  <2>2. Known' = Known /\ InHand' = InHand /\ UNCHANGED <<follower, watermark>>
    BY <1>3 DEF RemoveSession, Known, InHand, Excepted, outVars, historyVars
  <2>3. ASSUME NEW o \in Offset, NEW g \in File, NEW known,
               Good(o, log[g], g \in half, removed[g], known)
        PROVE  Good(o, log'[g], g \in half', removed'[g], known)
    <3>1. CASE g = f
      <4>1. log'[f] = <<>> /\ removed'[f] = removed[f] + 1 /\ removed[f] \in Nat
        BY <2>1 DEF TypeInv
      <4>2. Good(o, <<>>, f \in half, removed[f] + 1, known)
        BY <2>3, <3>1, <4>1, GoodRemoved
      <4> QED
        BY <2>1, <3>1, <4>1, <4>2
    <3>2. CASE g # f
      <4>1. log'[g] = log[g] /\ removed'[g] = removed[g]
        BY <2>1, <3>2 DEF TypeInv
      <4> QED
        BY <2>1, <2>3, <4>1
    <3> QED
      BY <3>1, <3>2
  <2>4. \A g \in File : Good(follower.offsets[g], log'[g], g \in half', removed'[g], Known \cup InHand)
    BY <1>0, <2>3 DEF OffsetsInv
  <2>5. watermark # None => \A g \in File : Good(watermark[g], log'[g], g \in half', removed'[g], Known)
    BY <1>0, <2>3 DEF OffsetsInv
  <2> QED
    BY <2>2, <2>4, <2>5 DEF OffsetsInv
<1>4. CASE Start
  <2>1. UNCHANGED <<log, half, removed, watermark>>
    BY <1>4 DEF Start, logVars
  <2>2. follower'.events = {}
    BY <1>4 DEF Start, Down
  <2>3. ASSUME NEW f \in File
        PROVE  Good(follower'.offsets[f], log'[f], f \in half', removed'[f], Known' \cup InHand')
    <3>1. CASE watermark = None
      <4>1. follower'.offsets[f] = [at |-> 0, of |-> 0]
        BY <1>4, <3>1 DEF Start, Down, NoOffsets
      <4>2. 0 <= removed[f]
        BY DEF TypeInv
      <4> QED
        BY <2>1, <4>1, <4>2, GoodZero
    <3>2. CASE watermark # None
      <4>1. follower'.offsets[f] = watermark[f]
        BY <1>4, <3>2 DEF Start, Down
      <4>2. Good(watermark[f], log[f], f \in half, removed[f], Known)
        BY <3>2 DEF OffsetsInv
      <4> QED
        BY <2>1, <4>1, <4>2, KnownGrows, GoodMore
    <3> QED
      BY <3>1, <3>2
  <2> QED
    BY <2>1, <2>2, <2>3, StillGood DEF OffsetsInv
<1>5. ASSUME NEW f \in File, BeginAtEnd(f) PROVE OffsetsInv'
  <2>1. UNCHANGED <<log, half, removed, watermark, all>>
    BY <1>5 DEF BeginAtEnd, logVars, outVars
  <2>2. follower'.events = {} /\ follower.events = {}
    <3>1. follower.events = {}
      BY <1>5 DEF BeginAtEnd, OffsetsInv
    <3>2. CASE f \in there
      <4>1. follower' = [follower EXCEPT !.todo = @ \ {f},
                                         !.offsets[f] = [at |-> Size(f), of |-> removed[f]]]
        BY <1>5, <3>2 DEF BeginAtEnd
      <4> QED
        BY <3>1, <4>1 DEF TypeInv, Locals
    <3>3. CASE f \notin there
      <4>1. follower' = [follower EXCEPT !.todo = @ \ {f}]
        BY <1>5, <3>3 DEF BeginAtEnd
      <4> QED
        BY <3>1, <4>1 DEF TypeInv, Locals
    <3> QED
      BY <3>2, <3>3
  <2>3. Hands \subseteq Known' \cup InHand'
    BY <2>2, KnownGrows DEF InHand
  <2>4. CASE f \in there
    <3>1. follower' = [follower EXCEPT !.todo = @ \ {f},
                                       !.offsets[f] = [at |-> Size(f), of |-> removed[f]]]
          /\ skipped' = skipped \cup ToSet(log[f])
      BY <1>5, <2>4 DEF BeginAtEnd
    <3>2. Good([at |-> Size(f), of |-> removed[f]], log[f], f \in half, removed[f], Known' \cup InHand')
      <4>1. BelowOf(log[f], Size(f)) \subseteq ToSet(log[f])
        BY DEF BelowOf, ToSet
      <4>2. ToSet(log[f]) \subseteq Known'
        BY <3>1 DEF Known, Excepted
      <4>3. Size(f) <= SizeOf(log[f], f \in half) /\ removed[f] \in Nat
        BY SizeIs, SizeNat DEF TypeInv
      <4> QED
        BY <4>1, <4>2, <4>3 DEF Good
    <3>3. \A g \in File : follower'.offsets[g] =
                            IF g = f THEN [at |-> Size(f), of |-> removed[f]] ELSE follower.offsets[g]
      BY <3>1 DEF TypeInv, Locals
    <3>4. \A g \in File : Good(follower'.offsets[g], log'[g], g \in half', removed'[g], Known' \cup InHand')
      BY <2>1, <2>3, <3>2, <3>3, StillGood
    <3> QED
      BY <2>1, <2>2, <3>4, StillGood DEF OffsetsInv
  <2>5. CASE f \notin there
    <3>0. follower' = [follower EXCEPT !.todo = @ \ {f}]
      BY <1>5, <2>5 DEF BeginAtEnd
    <3>1. follower'.offsets = follower.offsets
      BY <3>0 DEF TypeInv, Locals
    <3> QED
      BY <2>1, <2>2, <2>3, <3>1, HandsGood
  <2> QED
    BY <2>4, <2>5
<1>6. CASE ListFiles
  <2>1. UNCHANGED <<log, half, removed, watermark>> /\ follower'.offsets = follower.offsets
    BY <1>6 DEF ListFiles, logVars
  <2>2. follower'.events = {} /\ follower.events = {} /\ follower'.at = "poll"
    BY <1>6 DEF ListFiles, OffsetsInv, TypeInv, Locals
  <2>3. Hands \subseteq Known' \cup InHand'
    BY <2>2, KnownGrows DEF InHand
  <2> QED
    BY <2>1, <2>2, <2>3, HandsGood
<1>7. ASSUME NEW f \in File, Stat(f) PROVE OffsetsInv'
  <2> DEFINE offset == IF Size(f) < follower.offsets[f].at THEN 0 ELSE follower.offsets[f].at
  <2>1. StatFrom(f, offset)
    BY <1>7 DEF Stat
  <2>2. UNCHANGED <<log, half, removed, watermark>>
    BY <2>1 DEF StatFrom, logVars
  <2>3. follower.at = "poll" /\ follower'.at \in {"poll", "read"} /\ follower'.events = follower.events
    BY <2>1 DEF StatFrom, TypeInv, Locals
  <2>4. Hands \subseteq Known' \cup InHand'
    BY <2>3, KnownGrows DEF InHand
  <2>5. CASE f \in there
    <3>1. \A g \in File : follower'.offsets[g] =
                            IF g = f THEN [at |-> offset, of |-> removed[f]] ELSE follower.offsets[g]
      <4>1. follower' = [follower EXCEPT
                  !.todo = @ \ {f},
                  !.offsets[f] = [at |-> offset, of |-> removed[f]],
                  !.at = IF Size(f) > offset THEN "read" ELSE "poll",
                  !.file = IF Size(f) > offset THEN f ELSE None,
                  !.size = IF Size(f) > offset THEN Size(f) ELSE 0]
        BY <2>1, <2>5 DEF StatFrom
      <4> HIDE DEF offset
      <4>2. follower'.offsets = [follower.offsets EXCEPT ![f] = [at |-> offset, of |-> removed[f]]]
        BY <4>1 DEF TypeInv, Locals
      <4> QED
        BY <4>2 DEF TypeInv, Locals
    <3>2. Good([at |-> offset, of |-> removed[f]], log[f], f \in half, removed[f], Known' \cup InHand')
      <4>1. CASE Size(f) < follower.offsets[f].at
        <5>1. offset = 0 /\ removed[f] \in Nat
          BY <4>1 DEF TypeInv
        <5> QED
          BY <5>1, GoodZero
      <4>2. CASE ~(Size(f) < follower.offsets[f].at)
        <5>1. offset = follower.offsets[f].at /\ offset \in Nat /\ Size(f) \in Nat /\ removed[f] \in Nat
          BY <1>0, <4>2, SizeNat DEF Offset, TypeInv
        <5>2. offset <= SizeOf(log[f], f \in half)
          BY <4>2, <5>1, SizeIs
        <5>3. CASE follower.offsets[f].of = removed[f]
          <6>1. BelowOf(log[f], offset) \subseteq Hands
            BY <5>1, <5>3 DEF OffsetsInv, Good
          <6> QED
            BY <2>4, <5>1, <5>2, <6>1 DEF Good
        <5>4. CASE follower.offsets[f].of # removed[f]
          <6>1. overtaken' = overtaken \cup Below(f, offset)
            BY <2>1, <2>5, <4>2, <5>1, <5>4 DEF StatFrom
          <6>2. BelowOf(log[f], offset) \subseteq Known'
            BY <6>1, BelowIs DEF Known, Excepted
          <6> QED
            BY <5>1, <5>2, <6>2 DEF Good
        <5> QED
          BY <5>3, <5>4
      <4> QED
        BY <4>1, <4>2
    <3>3. \A g \in File : Good(follower'.offsets[g], log'[g], g \in half', removed'[g], Known' \cup InHand')
      BY <2>2, <2>4, <3>1, <3>2, StillGood
    <3> QED
      BY <2>2, <2>3, <3>3, StillGood DEF OffsetsInv
  <2>6. CASE f \notin there
    <3>0. follower' = [follower EXCEPT !.todo = @ \ {f}]
      BY <2>1, <2>6 DEF StatFrom
    <3>1. follower'.offsets = follower.offsets
      BY <3>0 DEF TypeInv, Locals
    <3> QED
      BY <2>2, <2>3, <2>4, <3>1, HandsGood
  <2> QED
    BY <2>5, <2>6
<1>8. CASE Read
  <2> DEFINE f    == follower.file
             from == follower.offsets[f].at
             end  == Smaller(follower.size, Size(f))
             next == WholeLines(from, end)
             new  == [at |-> next, of |-> IF from <= Size(f) THEN removed[f] ELSE follower.offsets[f].of]
             read == follower.events \cup (Passed(f, end) \ Below(f, from))
  <2>1. f \in File /\ log[f] \in Seq(Event) /\ removed[f] \in Nat /\ follower.offsets[f] \in Offset
    BY <1>0, <1>8 DEF Read, TypeInv
  <2>2. from \in Nat /\ Size(f) \in Nat /\ follower.size \in Nat
    BY <2>1, SizeNat DEF TypeInv, Locals, Offset
  <2>3. end \in Nat /\ end <= Size(f)
    BY <2>2 DEF Smaller
  <2>4. follower' = [follower EXCEPT !.at = "poll", !.file = None, !.size = 0,
                                     !.events = read, !.offsets[f] = new]
        /\ follower.at = "read" /\ UNCHANGED <<log, half, removed, watermark>>
        /\ overtaken' = IF follower.offsets[f].of # removed[f] /\ from <= Size(f)
                        THEN overtaken \cup Below(f, from) ELSE overtaken
    BY <1>8 DEF Read, logVars
  <2> HIDE DEF f, new, read, from, end, next
  <2>5. follower'.at = "poll" /\ follower'.events = read
        /\ \A g \in File : follower'.offsets[g] = IF g = f THEN new ELSE follower.offsets[g]
    BY <2>4 DEF TypeInv, Locals
  <2>6. Known' \cup InHand' = Known' \cup read /\ InHand = follower.events
    BY <2>4, <2>5 DEF InHand
  <2>7. Hands \subseteq Known' \cup InHand'
    BY <2>6, KnownGrows DEF read
  <2>8. BelowOf(log[f], next) \subseteq BelowOf(log[f], from) \cup read
    <3>1. BelowOf(log[f], next) \subseteq BelowOf(log[f], from) \cup (PassedOf(log[f], end) \ BelowOf(log[f], from))
      BY <2>1, <2>2, <2>3, ReadPasses DEF next
    <3> QED
      BY <3>1, BelowIs, PassedIs DEF read
  <2>9. Good(new, log[f], f \in half, removed[f], Known' \cup InHand')
    <3>1. CASE from <= Size(f)
      <4>1. new = [at |-> next, of |-> removed[f]]
        BY <3>1 DEF new
      <4>2. next <= SizeOf(log[f], f \in half)
        BY <2>2, <2>3, <3>1, SizeIs, WholeLinesBound DEF next
      <4>3. BelowOf(log[f], from) \subseteq Known' \cup InHand'
        <5>1. CASE follower.offsets[f].of = removed[f]
          <6>1. BelowOf(log[f], from) \subseteq Hands
            BY <2>1, <5>1 DEF OffsetsInv, Good, from
          <6> QED
            BY <2>7, <6>1
        <5>2. CASE follower.offsets[f].of # removed[f]
          <6>1. Below(f, from) \subseteq Known'
            BY <2>4, <3>1, <5>2 DEF Known, Excepted
          <6> QED
            BY <6>1, BelowIs
        <5> QED
          BY <5>1, <5>2
      <4> QED
        BY <2>1, <2>6, <2>8, <4>1, <4>2, <4>3 DEF Good
    <3>2. CASE ~(from <= Size(f))
      <4>1. next = from
        BY <2>2, <2>3, <3>2 DEF next, WholeLines
      <4>2. new = [at |-> from, of |-> follower.offsets[f].of]
        BY <3>2, <4>1 DEF new
      <4>3. Good(follower.offsets[f], log[f], f \in half, removed[f], Known' \cup InHand')
        BY <2>1, <2>4, <2>7, StillGood
      <4> QED
        BY <4>2, <4>3 DEF Good, from
    <3> QED
      BY <3>1, <3>2
  <2>10. \A g \in File : Good(follower'.offsets[g], log'[g], g \in half', removed'[g], Known' \cup InHand')
    BY <2>4, <2>5, <2>7, <2>9, StillGood
  <2> QED
    BY <2>4, <2>5, <2>10, StillGood DEF OffsetsInv
<1>9. CASE FailRead
  BY <1>9, DownGood DEF FailRead, logVars
<1>10. CASE EndPoll
  <2>1. UNCHANGED <<log, half, removed, watermark>> /\ follower'.offsets = follower.offsets
        /\ follower'.events = follower.events /\ follower.at = "poll"
        /\ follower'.at \in {"save", "rotate", "write"}
        /\ (follower'.at = "save" => follower.events = {})
    BY <1>10 DEF EndPoll, logVars, TypeInv, Locals
  <2>2. Hands \subseteq Known' \cup InHand'
    BY <2>1, KnownGrows DEF InHand
  <2> QED
    BY <2>1, <2>2, HandsGood
<1>11. CASE RemoveOldest \/ Shift \/ Rotate
  <2>1. UNCHANGED <<log, half, removed, watermark>> /\ follower'.offsets = follower.offsets
        /\ follower'.events = follower.events /\ follower.at \in {"rotate", "shift"}
        /\ follower'.at \in {"shift", "write"}
    BY <1>11 DEF RemoveOldest, Shift, Rotate, logVars, TypeInv, Locals
  <2>2. Hands \subseteq Known' \cup InHand'
    BY <2>1, KnownGrows DEF InHand
  <2> QED
    BY <2>1, <2>2, HandsGood
<1>12. CASE Write
  <2>1. UNCHANGED <<log, half, removed, watermark>> /\ follower'.offsets = follower.offsets
        /\ follower'.at = "save" /\ follower.at = "write"
    BY <1>12 DEF Write, logVars, TypeInv, Locals
  <2>2. PICK text \in Texts(follower.events) :
             /\ all' = Appended(all, cut, text)
             /\ glued' = IF cut THEN glued \cup {text[1]} ELSE glued
    BY <1>12 DEF Write
  <2>3. text \in Seq(Line) /\ ToSet(text) = follower.events /\ all \in Seq(Line)
    BY TextType DEF TypeInv
  <2>4. follower.events \subseteq Known'
    <3>0. /\ ~cut => ToSet(text) \subseteq ToSet(Appended(all, cut, text))
          /\ cut => ToSet(text) \subseteq ToSet(Appended(all, cut, text)) \cup {text[1]}
      BY <2>3, AppendedHas
    <3>1. ~cut => follower.events \subseteq ToSet(all')
      BY <2>2, <2>3, <3>0
    <3>2. cut => follower.events \subseteq ToSet(all') \cup {text[1]}
      BY <2>2, <2>3, <3>0
    <3>3. cut => {text[1]} \subseteq glued'
      BY <2>2
    <3> QED
      BY <3>1, <3>2, <3>3 DEF Known, Excepted
  <2>5. Hands \subseteq Known' \cup InHand'
    BY <2>1, <2>4, KnownGrows DEF InHand
  <2> QED
    BY <2>1, <2>5, HandsGood
<1>13. CASE Truncate
  <2>1. UNCHANGED <<log, half, removed>> /\ watermark' = None /\ follower'.offsets = follower.offsets
        /\ follower'.at = "fill" /\ follower.at = "save"
    BY <1>13 DEF Truncate, logVars, TypeInv, Locals
  <2>2. Hands \subseteq Known' \cup InHand'
    BY <2>1, KnownGrows DEF InHand
  <2> QED
    BY <2>1, <2>2, HandsGood
<1>14. CASE Fill
  <2>1. UNCHANGED <<log, half, removed>> /\ watermark' = follower.offsets
        /\ follower'.offsets = follower.offsets /\ follower'.events = {}
        /\ follower'.at = "sleep" /\ follower.at = "fill"
    BY <1>14 DEF Fill, logVars, TypeInv, Locals
  <2>2. InHand = {} /\ InHand' = {}
    BY <2>1 DEF InHand
  <2>3. ASSUME NEW f \in File
        PROVE  Good(follower.offsets[f], log'[f], f \in half', removed'[f], Known')
    BY <2>1, <2>2, KnownGrows, StillGood
  <2> QED
    BY <2>1, <2>2, <2>3 DEF OffsetsInv
<1>15. CASE Stop
  BY <1>15, DownGood DEF Stop, logVars
<1>16. CASE Kill
  BY <1>16, DownGood DEF Kill, logVars
<1>17. CASE KillWriting
  BY <1>17, DownGood DEF KillWriting, logVars
<1>18. CASE UNCHANGED vars
  <2>1. UNCHANGED <<log, half, removed, watermark, follower>> /\ InHand' = InHand
    BY <1>18 DEF vars, logVars, InHand
  <2>2. Hands \subseteq Known' \cup InHand'
    BY <2>1, KnownGrows
  <2> QED
    BY <2>1, <2>2, HandsGood DEF OffsetsInv
<1> QED
  BY <1>1, <1>2, <1>3, <1>4, <1>5, <1>6, <1>7, <1>8, <1>9, <1>10, <1>11, <1>12, <1>13, <1>14,
     <1>15, <1>16, <1>17, <1>18 DEF Next, FollowerStep

LEMMA SkippedInit == Init => SkippedInv
BY DEF Init, SkippedInv, Down

LEMMA SkippedNext == TypeInv /\ SkippedInv /\ [Next]_vars => SkippedInv'
<1> SUFFICES ASSUME TypeInv, SkippedInv, [Next]_vars PROVE SkippedInv'
  OBVIOUS
<1> USE DEF SkippedInv
<1>0. happened \in Nat /\ \A e \in Event : e \in Nat
  BY FollowerAssumption DEF TypeInv, Event
<1>1. ASSUME NEW f \in File, AppendLine(f) PROVE SkippedInv'
  <2>1. happened' = happened + 1 /\ UNCHANGED <<skipped, follower, saved, afresh>>
    BY <1>1 DEF AppendLine, historyVars
  <2> QED
    BY <1>0, <2>1
<1>2. CASE Start
  <2>1. UNCHANGED <<happened, skipped, saved>> /\ afresh' = (afresh \/ (watermark = None /\ saved # None))
    BY <1>2 DEF Start, logVars
  <2>2. follower'.todo # {} => watermark = None
    BY <1>2 DEF Start, Down
  <2> QED
    BY <2>1, <2>2
<1>3. ASSUME NEW f \in File, BeginAtEnd(f) PROVE SkippedInv'
  <2>1. UNCHANGED <<happened, saved, afresh>> /\ follower.at = "begin" /\ follower.todo # {}
    BY <1>3 DEF BeginAtEnd, logVars
  <2>2. saved = None \/ afresh
    BY <2>1
  <2>3. \A e \in skipped' : e \in Event /\ e <= happened
    <3>1. \A e \in ToSet(log[f]) : e \in Event /\ e <= happened
      BY DEF TypeInv, ToSet
    <3> QED
      BY <1>3, <3>1 DEF BeginAtEnd
  <2> QED
    BY <2>1, <2>2, <2>3
<1>4. CASE Fill
  <2>1. UNCHANGED <<happened, skipped, afresh>> /\ saved' = (IF saved = None THEN happened ELSE saved)
        /\ follower'.at = "sleep"
    BY <1>4 DEF Fill, logVars, TypeInv, Locals
  <2> QED
    BY <2>1
<1>5. ASSUME UNCHANGED <<happened, skipped, saved, afresh>>, UNCHANGED follower \/ follower'.at # "begin"
      PROVE  SkippedInv'
  BY <1>5
<1>6. \A f \in File : Stat(f) => follower'.at # "begin"
  BY DEF Stat, StatFrom, TypeInv, Locals
<1>7. ListFiles \/ Read \/ EndPoll \/ RemoveOldest \/ Shift \/ Rotate \/ Write \/ Truncate
        => follower'.at # "begin"
  BY DEF ListFiles, Read, EndPoll, RemoveOldest, Shift, Rotate, Write, Truncate, TypeInv, Locals
<1>8. FailRead \/ Stop \/ Kill \/ KillWriting => follower'.at # "begin"
  BY DEF FailRead, Stop, Kill, KillWriting, Down
<1> QED
  BY <1>1, <1>2, <1>3, <1>4, <1>5, <1>6, <1>7, <1>8
  DEF Next, FollowerStep, vars, logVars, historyVars, EndLine, RemoveSession, Stat, StatFrom,
      ListFiles, Read, EndPoll, RemoveOldest, Shift, Rotate, Write, Truncate, FailRead, Stop, Kill,
      KillWriting

-----------------------------------------------------------------------------
(* The invariant holds, and with it the property. *)

THEOREM IInvCorrect == Spec => []IInv
<1>1. Init => IInv
  BY TypeInit, OffsetsInit, SkippedInit DEF IInv
<1>2. IInv /\ [Next]_vars => IInv'
  BY TypeNext, OffsetsNext, SkippedNext DEF IInv
<1> QED
  BY <1>1, <1>2, PTL DEF Spec

(* Delivery is at least once: whatever stands before a saved offset was written
   whole, or is one of the named exceptions (export-command.ts:222-252, 354-362). *)
THEOREM AtLeastOnceAlways == Spec => []AtLeastOnce
<1>1. IInv => AtLeastOnce
  <2> SUFFICES ASSUME IInv PROVE AtLeastOnce
    OBVIOUS
  <2>1. ASSUME watermark # None, NEW f \in File, watermark[f].of = removed[f]
        PROVE  Passed(f, watermark[f].at) \subseteq ToSet(all) \cup Excepted
    <3>1. Good(watermark[f], log[f], f \in half, removed[f], Known)
      BY <2>1 DEF IInv, OffsetsInv
    <3>2. BelowOf(log[f], watermark[f].at) \subseteq Known
      BY <2>1, <3>1 DEF Good
    <3>3. watermark[f].at \in Nat /\ \A j \in DOMAIN log[f] : j \in Nat
      BY <2>1 DEF IInv, TypeInv, Offset
    <3>4. PassedOf(log[f], watermark[f].at) \subseteq BelowOf(log[f], watermark[f].at)
      BY <3>3 DEF PassedOf, BelowOf
    <3> QED
      BY <3>2, <3>4, PassedIs DEF Known
  <2> QED
    BY <2>1 DEF AtLeastOnce, IInv, SkippedInv
<1> QED
  BY <1>1, IInvCorrect, PTL
-----------------------------------------------------------------------------
(* How often an event stands in the output. *)

Occurs(lines, e) == {i \in DOMAIN lines : lines[i] = e}

(* An event stands there once at most; only these events, and half lines. *)
Once(lines, e)      == \A i, j \in DOMAIN lines : lines[i] = e /\ lines[j] = e => i = j
Only(lines, events) == \A i \in DOMAIN lines : lines[i] \in events \/ lines[i] = 0

Times(e) == Cardinality(Occurs(all, e))

LEMMA OccursFinite ==
    ASSUME NEW lines \in Seq(Line), NEW e
    PROVE  /\ IsFiniteSet(Occurs(lines, e))
           /\ Cardinality(Occurs(lines, e)) \in Nat
           /\ Cardinality(Occurs(lines, e)) > 0 => e \in ToSet(lines)
<1>1. Len(lines) \in Nat /\ DOMAIN lines = 1..Len(lines)
  OBVIOUS
<1>2. IsFiniteSet(1..Len(lines))
  BY <1>1, FS_Interval
<1>3. Occurs(lines, e) \in SUBSET (1..Len(lines))
  BY <1>1 DEF Occurs
<1>4. IsFiniteSet(Occurs(lines, e)) /\ Cardinality(Occurs(lines, e)) \in Nat
  BY <1>2, <1>3, FS_Subset, FS_CardinalityType
<1>5. ASSUME Cardinality(Occurs(lines, e)) > 0
      PROVE  e \in ToSet(lines)
  <2>1. Occurs(lines, e) # {}
    BY <1>4, <1>5, FS_EmptySet
  <2> QED
    BY <2>1 DEF Occurs, ToSet
<1> QED
  BY <1>4, <1>5

(* Text in which an event stands once adds one occurrence at most; other text
   adds none. *)
LEMMA OccursInTwo ==
    ASSUME NEW lines \in Seq(Line), NEW more \in Seq(Line), NEW e
    PROVE  /\ e \notin ToSet(more) => Occurs(lines \o more, e) = Occurs(lines, e)
           /\ (\A i, j \in DOMAIN more : more[i] = e /\ more[j] = e => i = j) =>
                Cardinality(Occurs(lines \o more, e)) <= Cardinality(Occurs(lines, e)) + 1
<1>1. \A i \in DOMAIN lines : i \in DOMAIN (lines \o more) /\ (lines \o more)[i] = lines[i]
  OBVIOUS
<1>2. \A i \in DOMAIN (lines \o more) : i \notin DOMAIN lines =>
        /\ i - Len(lines) \in DOMAIN more
        /\ (lines \o more)[i] = more[i - Len(lines)]
  OBVIOUS
<1>3. ASSUME e \notin ToSet(more)
      PROVE  Occurs(lines \o more, e) = Occurs(lines, e)
  <2>1. \A i \in DOMAIN more : more[i] # e
    BY <1>3 DEF ToSet
  <2> QED
    BY <1>1, <1>2, <2>1 DEF Occurs
<1>4. ASSUME e \in ToSet(more), \A i, j \in DOMAIN more : more[i] = e /\ more[j] = e => i = j
      PROVE  Cardinality(Occurs(lines \o more, e)) <= Cardinality(Occurs(lines, e)) + 1
  <2>1. PICK k \in DOMAIN more : more[k] = e
    BY <1>4 DEF ToSet
  <2>2. Occurs(lines \o more, e) \subseteq Occurs(lines, e) \cup {Len(lines) + k}
    <3> SUFFICES ASSUME NEW i \in Occurs(lines \o more, e), i \notin Occurs(lines, e)
                 PROVE  i = Len(lines) + k
      OBVIOUS
    <3>1. i \in DOMAIN (lines \o more) /\ (lines \o more)[i] = e
      BY DEF Occurs
    <3>2. i \notin DOMAIN lines
      BY <1>1, <3>1 DEF Occurs
    <3>3. i - Len(lines) = k
      BY <1>2, <1>4, <2>1, <3>1, <3>2
    <3>4. i \in Int /\ Len(lines) \in Int /\ k \in Int
      BY <3>1
    <3> QED
      BY <3>3, <3>4
  <2>3. IsFiniteSet(Occurs(lines, e)) /\ Cardinality(Occurs(lines, e)) \in Nat
    BY OccursFinite
  <2> DEFINE S == Occurs(lines, e)
             x == Len(lines) + k
  <2>4. /\ IsFiniteSet(S \cup {x})
        /\ Cardinality(S \cup {x}) <= Cardinality(S) + 1
    <3> HIDE DEF S, x
    <3>1. IsFiniteSet(S) /\ Cardinality(S) \in Nat
      BY <2>3 DEF S
    <3>2. /\ IsFiniteSet(S \cup {x})
          /\ Cardinality(S \cup {x}) = IF x \in S THEN Cardinality(S) ELSE Cardinality(S) + 1
      BY <3>1, FS_AddElement, Zenon
    <3> QED
      BY <3>1, <3>2
  <2>5. Cardinality(Occurs(lines \o more, e)) <= Cardinality(S \cup {x})
    BY <2>2, <2>4, FS_Subset
  <2>6. Cardinality(S \cup {x}) \in Nat
    BY <2>4, FS_CardinalityType
  <2>7. lines \o more \in Seq(Line)
    OBVIOUS
  <2>8. Cardinality(Occurs(lines \o more, e)) \in Nat
    BY <2>7, OccursFinite
  <2> QED
    BY <2>3, <2>4, <2>5, <2>6, <2>8
<1>5. ASSUME e \notin ToSet(more)
      PROVE  Cardinality(Occurs(lines \o more, e)) <= Cardinality(Occurs(lines, e)) + 1
  BY <1>3, <1>5, OccursFinite
<1> QED
  BY <1>3, <1>4, <1>5

LEMMA OccursInAppended ==
    ASSUME NEW lines \in Seq(Line), NEW unended, NEW text \in Seq(Line), NEW e,
           \A i, j \in DOMAIN text : text[i] = e /\ text[j] = e => i = j
    PROVE  /\ e \notin ToSet(text) =>
                Occurs(Appended(lines, unended, text), e) = Occurs(lines, e)
           /\ Cardinality(Occurs(Appended(lines, unended, text), e))
                <= Cardinality(Occurs(lines, e)) + 1
<1>1. CASE unended /\ text # <<>>
  <2>1. Tail(text) \in Seq(Line) /\ Appended(lines, unended, text) = lines \o Tail(text)
    BY <1>1 DEF Appended
  <2>2. \A i \in DOMAIN Tail(text) : i + 1 \in DOMAIN text /\ Tail(text)[i] = text[i + 1]
    BY <1>1
  <2>3. \A i, j \in DOMAIN Tail(text) : Tail(text)[i] = e /\ Tail(text)[j] = e => i = j
    <3> SUFFICES ASSUME NEW i \in DOMAIN Tail(text), NEW j \in DOMAIN Tail(text),
                        Tail(text)[i] = e, Tail(text)[j] = e
                 PROVE  i = j
      OBVIOUS
    <3>1. i + 1 = j + 1
      BY <2>2
    <3>2. i \in Int /\ j \in Int
      BY <2>1
    <3> QED
      BY <3>1, <3>2
  <2>4. ToSet(Tail(text)) \subseteq ToSet(text)
    BY <2>2 DEF ToSet
  <2> DEFINE more == Tail(text)
  <2> HIDE DEF more
  <2>5. /\ e \notin ToSet(more) => Occurs(lines \o more, e) = Occurs(lines, e)
        /\ Cardinality(Occurs(lines \o more, e)) <= Cardinality(Occurs(lines, e)) + 1
    BY <2>1, <2>3, OccursInTwo DEF more
  <2> QED
    BY <2>1, <2>4, <2>5 DEF more
<1>2. CASE ~(unended /\ text # <<>>)
  <2>1. Appended(lines, unended, text) = lines \o text
    BY <1>2 DEF Appended
  <2> QED
    BY <2>1, OccursInTwo
<1> QED
  BY <1>1, <1>2

(* An event stands once in the text of a poll, and once in what a killed
   follower wrote of it. *)
LEMMA TextOnce ==
    ASSUME TypeInv, NEW text \in Texts(follower.events), NEW e \in Event
    PROVE  /\ \A i, j \in DOMAIN text : text[i] = e /\ text[j] = e => i = j
           /\ ToSet(text) = follower.events
<1>1. /\ ToSet(text) = follower.events
      /\ \A i, j \in DOMAIN text : i < j => text[i] < text[j]
  BY DEF Texts
<1>2. text \in Seq(Line)
  BY TextType
<1>3. \A i, j \in DOMAIN text : i \in Int /\ j \in Int /\ text[i] \in Int
  BY <1>2, FollowerAssumption DEF Line, Event
<1> QED
  BY <1>1, <1>3

LEMMA PartOnce ==
    ASSUME TypeInv, NEW text \in Texts(follower.events),
           NEW n \in Nat, n <= Cardinality(follower.events), NEW rest \in Seq(Line),
           \A i \in DOMAIN rest : rest[i] = 0, NEW e \in Event,
           NEW part, part = SubSeq(text, 1, n) \o rest
    PROVE  /\ part \in Seq(Line)
           /\ Once(part, e)
           /\ Only(part, follower.events)
<1>1. text \in Seq(Line) /\ Len(text) = Cardinality(follower.events)
  BY TextType
<1>2. Cardinality(follower.events) \in Nat
  BY EventsFinite DEF TypeInv, Locals
<1>3. /\ SubSeq(text, 1, n) \in Seq(Line) /\ Len(SubSeq(text, 1, n)) = n
      /\ \A i \in 1..n : i \in DOMAIN text /\ SubSeq(text, 1, n)[i] = text[i]
  BY <1>1, <1>2, SubSeqProperties
<1>4. part \in Seq(Line)
  BY <1>3
<1>5. \A i \in DOMAIN part : (i \in 1..n /\ i \in DOMAIN text /\ part[i] = text[i]) \/ part[i] = 0
  BY <1>4, <1>3
<1>6. e # 0
  BY FollowerAssumption DEF Event
<1>7. \A i, j \in DOMAIN part : part[i] = e /\ part[j] = e => i = j
  BY <1>5, <1>6, TextOnce DEF Once
<1>8. \A i \in DOMAIN part : part[i] \in follower.events \/ part[i] = 0
  <2>1. \A i \in DOMAIN text : text[i] \in follower.events
    BY TextType
  <2> QED
    BY <1>5, <2>1
<1> QED
  BY <1>4, <1>7, <1>8 DEF Once, Only
-----------------------------------------------------------------------------
(* What may be written again. *)

(* A line is behind the offset of its file. *)
Behind(e, offsets) ==
    \A f \in File : \A j \in DOMAIN log[f] :
        log[f][j] = e => offsets[f].of = removed[f] /\ 2 * j <= offsets[f].at

(* An event that was written as often as the kills so far allow. *)
Spent(e) == Times(e) = 1 + kills

LogUnique ==
    \A f, g \in File : \A i \in DOMAIN log[f], j \in DOMAIN log[g] :
        log[f][i] = log[g][j] => f = g /\ i = j

(* It is behind the offsets of the follower and, unless the watermark is about
   to be written, behind those of the watermark. *)
SpentOK ==
    \A e \in Event : Spent(e) =>
        /\ follower.at # "down" => Behind(e, follower.offsets)
        /\ follower.at \notin {"save", "fill"} =>
             e \notin follower.events /\ watermark # None /\ Behind(e, watermark)

TimesOK == \A e \in Event : Times(e) <= 1 + kills

HandsOK ==
    /\ \A e \in follower.events : Behind(e, follower.offsets)
    /\ \A e \in Event : (e \in follower.events \/ e \in ToSet(all)) => e <= happened
    /\ follower.at = "begin" /\ follower.todo # {} => watermark = None

RepeatInv == kills \in Nat /\ LogUnique /\ TimesOK /\ SpentOK /\ HandsOK

LEMMA TimesType == TypeInv => \A e : Times(e) \in Nat /\ (Times(e) > 0 => e \in ToSet(all))
BY OccursFinite DEF TypeInv, Times

LEMMA TimesStay ==
    ASSUME UNCHANGED <<all, kills>>
    PROVE  \A e : Times(e)' = Times(e) /\ (Spent(e)' <=> Spent(e))
BY DEF Times, Occurs, Spent

LEMMA RepeatInit == Init => RepeatInv
<1> SUFFICES ASSUME Init PROVE RepeatInv
  OBVIOUS
<1>1. all \in Seq(Line) /\ ToSet(all) = {}
  BY DEF Init, ToSet
<1>2. \A e : Times(e) = 0
  BY <1>1, OccursFinite DEF Times
<1>3. LogUnique
  BY DEF Init, LogUnique
<1> QED
  BY <1>1, <1>2, <1>3 DEF Init, RepeatInv, TimesOK, SpentOK, Spent, HandsOK, Down

(* The log, the output and the kills stay; what the follower holds is less, and
   its offsets are behind the same lines. *)
LEMMA RepeatStays ==
    ASSUME TypeInv, RepeatInv, UNCHANGED <<happened, log, removed, kills, all>>,
           follower'.events \subseteq follower.events,
           follower'.at # "down" =>
             /\ follower.at # "down"
             /\ \A e \in Event : Behind(e, follower.offsets) => Behind(e, follower'.offsets),
           follower'.at \notin {"save", "fill"} =>
             follower.at \notin {"save", "fill"} /\ watermark' = watermark,
           follower'.at = "down" => follower'.events = {},
           follower'.at = "begin" /\ follower'.todo # {} => watermark' = None
    PROVE  RepeatInv'
<1>1. \A e : Times(e)' = Times(e) /\ (Spent(e)' <=> Spent(e))
  BY DEF Times, Occurs, Spent
<1>2. ASSUME NEW e \in Event, Spent(e)
      PROVE  /\ follower'.at # "down" => Behind(e, follower.offsets)'
             /\ follower'.at \notin {"save", "fill"} =>
                  e \notin follower'.events /\ watermark' # None /\ Behind(e, watermark)'
  <2>1. follower'.at # "down" => Behind(e, follower'.offsets)
    BY <1>2 DEF RepeatInv, SpentOK
  <2>2. follower'.at \notin {"save", "fill"} =>
          e \notin follower.events /\ watermark # None /\ Behind(e, watermark')
    BY <1>2 DEF RepeatInv, SpentOK
  <2> QED
    BY <2>1, <2>2 DEF Behind
<1>3. ASSUME NEW e \in follower'.events PROVE Behind(e, follower.offsets)'
  <2>1. Behind(e, follower.offsets) /\ follower'.at # "down" /\ e \in Event
    BY <1>3 DEF RepeatInv, HandsOK, TypeInv, Locals
  <2>2. Behind(e, follower'.offsets)
    BY <2>1
  <2> QED
    BY <2>2 DEF Behind
<1>4. LogUnique'
  BY DEF RepeatInv, LogUnique
<1> QED
  BY <1>1, <1>2, <1>3, <1>4 DEF RepeatInv, TimesOK, SpentOK, HandsOK, ToSet

(* A killed follower: what was written once more is allowed now. *)
LEMMA RepeatKilled ==
    ASSUME TypeInv, RepeatInv, UNCHANGED <<happened, log, removed>>, kills' = kills + 1,
           follower' = Down,
           \A e \in Event : /\ Times(e)' \in Nat /\ Times(e)' <= Times(e) + 1
                            /\ e \notin follower.events => Times(e)' = Times(e)
                            /\ e \in ToSet(all)' => e \in ToSet(all) \/ e \in follower.events,
           follower.at \notin {"save", "fill"} \/ \A e \in Event : Times(e)' = Times(e)
    PROVE  RepeatInv'
<1> USE DEF RepeatInv
<1>1. kills' \in Nat /\ LogUnique'
  BY DEF LogUnique
<1>2. \A e \in Event : Times(e)' <= 1 + kills
  <2> SUFFICES ASSUME NEW e \in Event PROVE Times(e)' <= 1 + kills
    OBVIOUS
  <2>1. Times(e) \in Nat /\ Times(e) <= 1 + kills
    BY TimesType DEF TimesOK
  <2>2. CASE Times(e)' = Times(e)
    BY <2>1, <2>2
  <2>3. CASE Times(e)' # Times(e)
    <3>1. e \in follower.events /\ follower.at \notin {"save", "fill"}
      BY <2>3
    <3>2. Times(e) # 1 + kills
      BY <3>1 DEF SpentOK, Spent
    <3> QED
      BY <2>1, <3>2
  <2> QED
    BY <2>2, <2>3
<1>3. TimesOK' /\ SpentOK'
  BY <1>1, <1>2 DEF TimesOK, SpentOK, Spent
<1>4. HandsOK'
  BY DEF HandsOK, Down
<1> QED
  BY <1>1, <1>3, <1>4

(* A look at a file keeps the lines that were behind its offset behind it. *)
LEMMA BehindStat ==
    ASSUME TypeInv, OffsetsInv, NEW f \in File, Stat(f), NEW e \in Event,
           Behind(e, follower.offsets)
    PROVE  Behind(e, follower'.offsets)
<1>0. \A g \in File : follower.offsets[g] \in Offset
  BY DEF TypeInv, Locals
<1> DEFINE offset == IF Size(f) < follower.offsets[f].at THEN 0 ELSE follower.offsets[f].at
<1>1. StatFrom(f, offset)
  BY DEF Stat
<1>2. UNCHANGED <<happened, log, removed, watermark, all, kills>> /\ follower.at = "poll"
      /\ follower'.at \in {"poll", "read"} /\ follower'.events = follower.events
  BY <1>1 DEF StatFrom, logVars, outVars, TypeInv, Locals
<1>3. follower'.offsets = follower.offsets
      \/ follower'.offsets = [follower.offsets EXCEPT ![f] = [at |-> offset, of |-> removed[f]]]
  BY <1>1 DEF StatFrom, TypeInv, Locals
<1>4. Good(follower.offsets[f], log[f], f \in half, removed[f], Known \cup InHand)
  BY DEF OffsetsInv
<1>5. follower.offsets[f].of = removed[f] => offset = follower.offsets[f].at
  BY <1>0, <1>4, SizeIs, SizeNat DEF Good, Offset
<1> HIDE DEF offset
<1>6. Behind(e, follower'.offsets)
  <2> DEFINE o == [at |-> offset, of |-> removed[f]]
  <2>1. o.at = offset /\ o.of = removed[f]
    OBVIOUS
  <2> HIDE DEF o
  <2>2. \A g \in File : /\ follower'.offsets[g].of = removed[g]
                         /\ follower'.offsets[g].at = follower.offsets[g].at
                      \/ follower.offsets[g].of # removed[g]
    <3>1. CASE follower'.offsets = follower.offsets
      BY <3>1
    <3>2. CASE follower'.offsets = [follower.offsets EXCEPT ![f] = o]
      BY <1>5, <2>1, <3>2 DEF TypeInv, Locals
    <3> QED
      BY <1>3, <3>1, <3>2 DEF o
  <2> QED
    BY <2>2 DEF Behind
<1> QED
  BY <1>6

(* A read keeps the lines that were behind the offset behind it, and finds none
   of them. *)
LEMMA BehindRead ==
    ASSUME TypeInv, OffsetsInv, LogUnique, Read
    PROVE  /\ \A e \in Event : Behind(e, follower.offsets) => Behind(e, follower'.offsets)
           /\ \A e \in follower'.events \ follower.events :
                /\ e \in Event /\ e <= happened
                /\ ~Behind(e, follower.offsets) /\ Behind(e, follower'.offsets)
                /\ \A f \in File : \A j \in DOMAIN log[f] : log[f][j] = e => 2 * j <= Size(f)
<1> DEFINE f    == follower.file
           from == follower.offsets[f].at
           end  == Smaller(follower.size, Size(f))
           next == WholeLines(from, end)
           new  == [at |-> next, of |-> IF from <= Size(f) THEN removed[f] ELSE follower.offsets[f].of]
           read == Passed(f, end) \ Below(f, from)
<1>1. f \in File /\ follower.offsets[f] \in Offset
  BY DEF Read, TypeInv, Locals
<1>2. from \in Nat /\ Size(f) \in Nat /\ follower.size \in Nat
  BY <1>1, SizeNat DEF TypeInv, Locals, Offset
<1>3. end \in Nat /\ next \in Nat /\ end <= Size(f) /\ from <= next
  BY <1>2 DEF Smaller, WholeLines
<1>4. follower' = [follower EXCEPT !.at = "poll", !.file = None, !.size = 0,
                                   !.events = @ \cup read, !.offsets[f] = new]
  BY DEF Read
<1>5. UNCHANGED <<happened, log, removed, watermark, all, kills>> /\ follower.at = "read"
  BY DEF Read, logVars, outVars
<1>6. follower'.at = "poll" /\ follower'.events = follower.events \cup read
      /\ follower'.offsets = [follower.offsets EXCEPT ![f] = new]
  BY <1>4 DEF TypeInv, Locals
<1>7. Good(follower.offsets[f], log[f], f \in half, removed[f], Known \cup InHand)
  BY <1>1 DEF OffsetsInv
<1>8. follower.offsets[f].of = removed[f] => new.of = removed[f]
  BY <1>2, <1>7, SizeIs DEF Good
<1>9. \A e \in read : \E j \in DOMAIN log[f] : /\ log[f][j] = e /\ j \in Nat
                                               /\ 2 * j <= end /\ ~(2 * (j - 1) < from)
  <2> SUFFICES ASSUME NEW e \in read
               PROVE  \E j \in DOMAIN log[f] : /\ log[f][j] = e /\ j \in Nat
                                               /\ 2 * j <= end /\ ~(2 * (j - 1) < from)
    OBVIOUS
  <2>1. e \in Passed(f, end) /\ e \notin Below(f, from)
    OBVIOUS
  <2> HIDE DEF read, end
  <2>2. PICK j \in DOMAIN log[f] : log[f][j] = e /\ 2 * j <= end
    BY <2>1 DEF Passed
  <2>3. ~(2 * (j - 1) < from)
    BY <2>1, <2>2 DEF Below
  <2>4. j \in Nat
    BY <1>1 DEF TypeInv
  <2> QED
    BY <2>2, <2>3, <2>4
<1>10. ASSUME NEW e \in read
       PROVE  /\ e \in Event /\ e <= happened /\ ~Behind(e, follower.offsets)
              /\ Behind(e, [follower.offsets EXCEPT ![f] = new])
              /\ \A g \in File : \A i \in DOMAIN log[g] : log[g][i] = e => 2 * i <= Size(g)
  <2>1. PICK j \in DOMAIN log[f] : log[f][j] = e /\ j \in Nat /\ 2 * j <= end /\ ~(2 * (j - 1) < from)
    BY <1>9, <1>10
  <2>2. e \in Event /\ e <= happened
    BY <1>1, <2>1 DEF TypeInv
  <2>3. 2 * j > from
    BY <1>2, <2>1
  <2>4. ~Behind(e, follower.offsets)
    BY <1>1, <1>2, <2>1, <2>3 DEF Behind
  <2>5. 2 * j <= next
    BY <1>2, <1>3, <2>1, <2>3 DEF WholeLines
  <2>10. 2 * j <= Size(f)
    BY <1>2, <1>3, <2>1
  <2>6. new.of = removed[f]
    BY <1>2, <1>3, <2>1, <2>3
  <2> HIDE DEF next, end, new
  <2>7. new.at = next
    BY DEF new
  <2>8. \A g \in File : \A i \in DOMAIN log[g] : log[g][i] = e => g = f /\ i = j
    BY <1>1, <2>1 DEF LogUnique
  <2>9. [follower.offsets EXCEPT ![f] = new][f] = new
    BY <1>1 DEF TypeInv, Locals
  <2> QED
    BY <2>2, <2>4, <2>5, <2>6, <2>7, <2>8, <2>9, <2>10 DEF Behind
<1>11. new.at = next
  OBVIOUS
<1> HIDE DEF new, read, next, end
<1>12. ASSUME NEW e \in Event, Behind(e, follower.offsets)
       PROVE  Behind(e, [follower.offsets EXCEPT ![f] = new])
  <2> SUFFICES ASSUME NEW g \in File, NEW j \in DOMAIN log[g], log[g][j] = e
               PROVE  /\ [follower.offsets EXCEPT ![f] = new][g].of = removed[g]
                      /\ 2 * j <= [follower.offsets EXCEPT ![f] = new][g].at
    BY DEF Behind
  <2>1. follower.offsets[g].of = removed[g] /\ 2 * j <= follower.offsets[g].at
    BY <1>12 DEF Behind
  <2>2. CASE g = f
    <3>1. [follower.offsets EXCEPT ![f] = new][g] = new
      BY <1>1, <2>2 DEF TypeInv, Locals
    <3>2. j \in Nat
      BY DEF TypeInv
    <3> QED
      BY <1>2, <1>3, <1>8, <1>11, <2>1, <2>2, <3>1, <3>2
  <2>3. CASE g # f
    BY <2>1, <2>3 DEF TypeInv, Locals
  <2> QED
    BY <2>2, <2>3
<1> QED
  BY <1>6, <1>10, <1>12

LEMMA RepeatNext == TypeInv /\ TypeInv' /\ OffsetsInv /\ RepeatInv /\ [Next]_vars => RepeatInv'
<1> SUFFICES ASSUME TypeInv, TypeInv', OffsetsInv, RepeatInv, [Next]_vars PROVE RepeatInv'
  OBVIOUS
<1>0. \A f \in File : follower.offsets[f] \in Offset
  BY DEF TypeInv, Locals
<1>1. ASSUME NEW f \in File, AppendLine(f) PROVE RepeatInv'
  <2>1. log' = [log EXCEPT ![f] = Append(@, happened + 1)] /\ happened' = happened + 1
        /\ UNCHANGED <<removed, follower, watermark, all, kills>> /\ happened \in Nat
    BY <1>1, FollowerAssumption DEF AppendLine, outVars, TypeInv
  <2>2. \A g \in File : log[g] \in Seq(Event) /\ \A i \in DOMAIN log[g] : log[g][i] \in Nat /\ log[g][i] <= happened
    <3> SUFFICES ASSUME NEW g \in File
                 PROVE  log[g] \in Seq(Event) /\ \A i \in DOMAIN log[g] : log[g][i] \in Nat /\ log[g][i] <= happened
      OBVIOUS
    <3>1. log[g] \in Seq(Event) /\ \A i \in DOMAIN log[g] : log[g][i] <= happened
      BY DEF TypeInv
    <3>2. \A i \in DOMAIN log[g] : log[g][i] \in Event
      BY <3>1
    <3> QED
      BY <3>1, <3>2, FollowerAssumption DEF Event
  <2>3. ASSUME NEW g \in File, NEW i \in DOMAIN log'[g]
        PROVE  \/ i \in DOMAIN log[g] /\ log'[g][i] = log[g][i]
               \/ g = f /\ i = Len(log[f]) + 1 /\ log'[g][i] = happened + 1
    <3>1. CASE g = f
      <4>1. log'[g] = Append(log[f], happened + 1) /\ log[f] \in Seq(Event)
        BY <2>1, <2>2, <3>1 DEF TypeInv
      <4> QED
        BY <2>3, <3>1, <4>1
    <3>2. CASE g # f
      BY <2>1, <2>3, <3>2 DEF TypeInv
    <3> QED
      BY <3>1, <3>2
  <2>4. LogUnique'
    <3> SUFFICES ASSUME NEW g \in File, NEW k \in File, NEW i \in DOMAIN log'[g],
                        NEW j \in DOMAIN log'[k], log'[g][i] = log'[k][j]
                 PROVE  g = k /\ i = j
      BY DEF LogUnique
    <3>1. \A n \in Nat : n <= happened => n # happened + 1
      BY <2>1
    <3> QED
      BY <2>2, <2>3, <3>1 DEF RepeatInv, LogUnique
  <2>5. ASSUME NEW e \in Event, e <= happened, NEW offsets, Behind(e, offsets)
        PROVE  \A g \in File : \A j \in DOMAIN log'[g] :
                 log'[g][j] = e => offsets[g].of = removed[g] /\ 2 * j <= offsets[g].at
    <3>1. e # happened + 1
      BY <2>1, <2>5, FollowerAssumption DEF Event
    <3> QED
      BY <2>3, <2>5, <3>1 DEF Behind
  <2>6. \A e : Times(e)' = Times(e) /\ (Spent(e)' <=> Spent(e))
    BY <2>1, TimesStay
  <2>7. \A e \in Event : e \in follower.events \/ e \in ToSet(all) => e <= happened /\ e <= happened + 1
    BY <2>1, FollowerAssumption DEF RepeatInv, HandsOK, Event
  <2>8. ASSUME NEW e \in Event, Spent(e) PROVE e <= happened
    <3>1. Times(e) > 0
      BY <2>8 DEF Spent, RepeatInv
    <3> QED
      BY <2>7, <3>1, TimesType
  <2>10. SpentOK'
    <3> SUFFICES ASSUME NEW e \in Event, Spent(e)
                 PROVE  /\ follower.at # "down" => Behind(e, follower.offsets)'
                        /\ follower.at \notin {"save", "fill"} =>
                             e \notin follower.events /\ watermark # None /\ Behind(e, watermark)'
      BY <2>1, <2>6 DEF SpentOK
    <3>1. e <= happened
      BY <2>8
    <3>2. /\ follower.at # "down" => Behind(e, follower.offsets)
          /\ follower.at \notin {"save", "fill"} =>
               e \notin follower.events /\ watermark # None /\ Behind(e, watermark)
      BY DEF RepeatInv, SpentOK
    <3> QED
      BY <2>1, <2>5, <3>1, <3>2 DEF Behind
  <2>11. HandsOK'
    <3>1. ASSUME NEW e \in follower.events PROVE Behind(e, follower.offsets)'
      <4>1. e \in Event /\ e <= happened /\ Behind(e, follower.offsets)
        BY <2>7, <3>1 DEF RepeatInv, HandsOK, TypeInv, Locals
      <4> QED
        BY <2>1, <2>5, <4>1 DEF Behind
    <3> QED
      BY <2>1, <2>7, <3>1 DEF RepeatInv, HandsOK, ToSet
  <2> QED
    BY <2>1, <2>4, <2>6, <2>10, <2>11 DEF RepeatInv, TimesOK
<1>2. ASSUME NEW f \in File, RemoveSession(f) PROVE RepeatInv'
  <2>1. log' = [log EXCEPT ![f] = <<>>] /\ removed' = [removed EXCEPT ![f] = @ + 1]
        /\ UNCHANGED <<happened, follower, watermark, all, kills>>
    BY <1>2 DEF RemoveSession, outVars
  <2>2. \A g \in File : \A i \in DOMAIN log'[g] :
          g # f /\ i \in DOMAIN log[g] /\ log'[g][i] = log[g][i] /\ removed'[g] = removed[g]
    BY <2>1 DEF TypeInv
  <2>3. LogUnique'
    BY <2>2 DEF RepeatInv, LogUnique
  <2>5. \A e : Times(e)' = Times(e) /\ (Spent(e)' <=> Spent(e))
    BY <2>1, TimesStay
  <2>6. SpentOK'
    <3> SUFFICES ASSUME NEW e \in Event, Spent(e)
                 PROVE  /\ follower.at # "down" => Behind(e, follower.offsets)'
                        /\ follower.at \notin {"save", "fill"} =>
                             e \notin follower.events /\ watermark # None /\ Behind(e, watermark)'
      BY <2>1, <2>5 DEF SpentOK
    <3>1. /\ follower.at # "down" => Behind(e, follower.offsets)
          /\ follower.at \notin {"save", "fill"} =>
               e \notin follower.events /\ watermark # None /\ Behind(e, watermark)
      BY DEF RepeatInv, SpentOK
    <3>2. Behind(e, follower.offsets) => Behind(e, follower.offsets)'
      BY <2>1, <2>2 DEF Behind
    <3>3. Behind(e, watermark) => Behind(e, watermark)'
      BY <2>1, <2>2 DEF Behind
    <3> QED
      BY <3>1, <3>2, <3>3
  <2>7. HandsOK'
    <3>1. ASSUME NEW e \in follower.events PROVE Behind(e, follower.offsets)'
      <4>1. Behind(e, follower.offsets)
        BY DEF RepeatInv, HandsOK
      <4> QED
        BY <2>1, <2>2, <4>1 DEF Behind
    <3> QED
      BY <2>1, <3>1 DEF RepeatInv, HandsOK, ToSet
  <2> QED
    BY <2>1, <2>3, <2>5, <2>6, <2>7 DEF RepeatInv, TimesOK
<1>3. CASE Start
  <2>1. UNCHANGED <<happened, log, removed, watermark, all, kills>> /\ follower.at = "down"
        /\ follower'.at = "begin" /\ follower'.events = {}
        /\ (follower'.todo # {} => watermark = None)
        /\ (watermark # None => follower'.offsets = watermark)
    BY <1>3 DEF Start, logVars, outVars, Down
  <2>2. \A e : Times(e)' = Times(e) /\ (Spent(e)' <=> Spent(e))
    BY <2>1, TimesStay
  <2>3. SpentOK'
    <3> SUFFICES ASSUME NEW e \in Event, Spent(e)
                 PROVE  watermark # None /\ Behind(e, watermark)
      BY <2>1, <2>2 DEF SpentOK, Behind
    <3> QED
      BY <2>1 DEF RepeatInv, SpentOK
  <2>4. HandsOK'
    BY <2>1 DEF RepeatInv, HandsOK, ToSet
  <2>5. LogUnique'
    BY <2>1 DEF RepeatInv, LogUnique
  <2> QED
    BY <2>1, <2>2, <2>3, <2>4, <2>5 DEF RepeatInv, TimesOK
<1>4. ASSUME NEW f \in File, BeginAtEnd(f) PROVE RepeatInv'
  <2>1. UNCHANGED <<happened, log, removed, watermark, all, kills>> /\ follower.at = "begin"
        /\ follower.todo # {} /\ follower'.at = "begin" /\ follower'.events = follower.events
    BY <1>4 DEF BeginAtEnd, logVars, outVars, TypeInv, Locals
  <2>2. watermark = None /\ follower.events = {}
    BY <2>1 DEF RepeatInv, HandsOK, OffsetsInv
  <2>3. \A e : Times(e)' = Times(e) /\ (Spent(e)' <=> Spent(e))
    BY <2>1, TimesStay
  <2>4. \A e \in Event : ~Spent(e)
    BY <2>1, <2>2 DEF RepeatInv, SpentOK
  <2>5. LogUnique'
    BY <2>1 DEF RepeatInv, LogUnique
  <2> QED
    BY <2>1, <2>2, <2>3, <2>4, <2>5 DEF RepeatInv, TimesOK, SpentOK, HandsOK, ToSet
<1>5. ASSUME NEW f \in File, Stat(f) PROVE RepeatInv'
  <2>1. UNCHANGED <<happened, log, removed, watermark, all, kills>> /\ follower.at = "poll"
        /\ follower'.at \in {"poll", "read"} /\ follower'.events = follower.events
    BY <1>5 DEF Stat, StatFrom, logVars, outVars, TypeInv, Locals
  <2>2. \A e \in Event : Behind(e, follower.offsets) => Behind(e, follower'.offsets)
    BY <1>5, BehindStat
  <2> QED
    BY <2>1, <2>2, RepeatStays
<1>6. CASE Read
  <2>1. UNCHANGED <<happened, log, removed, watermark, all, kills>> /\ follower.at = "read"
        /\ follower'.at = "poll" /\ follower.events \subseteq follower'.events
    BY <1>6 DEF Read, logVars, outVars, TypeInv, Locals
  <2>2. LogUnique
    BY DEF RepeatInv
  <2>3. \A e \in Event : Behind(e, follower.offsets) => Behind(e, follower'.offsets)
    BY <1>6, <2>2, BehindRead
  <2>4. \A e \in follower'.events \ follower.events :
          /\ e \in Event /\ e <= happened
          /\ ~Behind(e, follower.offsets) /\ Behind(e, follower'.offsets)
    BY <1>6, <2>2, BehindRead
  <2>5. \A e : Times(e)' = Times(e) /\ (Spent(e)' <=> Spent(e))
    BY <2>1, TimesStay
  <2>6. SpentOK'
    <3> SUFFICES ASSUME NEW e \in Event, Spent(e)
                 PROVE  /\ Behind(e, follower'.offsets)
                        /\ e \notin follower'.events /\ watermark # None /\ Behind(e, watermark)
      BY <2>1, <2>5 DEF SpentOK, Behind
    <3>1. Behind(e, follower.offsets) /\ e \notin follower.events /\ watermark # None /\ Behind(e, watermark)
      BY <2>1 DEF RepeatInv, SpentOK
    <3> QED
      BY <2>3, <2>4, <3>1
  <2>7. HandsOK'
    <3>1. \A e \in follower'.events : Behind(e, follower'.offsets)
      BY <2>3, <2>4 DEF RepeatInv, HandsOK, TypeInv, Locals
    <3>2. \A e \in follower'.events : Behind(e, follower.offsets)'
      BY <2>1, <3>1 DEF Behind
    <3>3. ToSet(all)' = ToSet(all)
      BY <2>1
    <3> QED
      BY <2>1, <2>4, <3>2, <3>3 DEF RepeatInv, HandsOK
  <2>8. LogUnique'
    BY <2>1 DEF RepeatInv, LogUnique
  <2> QED
    BY <2>1, <2>5, <2>6, <2>7, <2>8 DEF RepeatInv, TimesOK
<1>7. CASE Write
  <2>1. PICK text \in Texts(follower.events) : all' = Appended(all, cut, text)
    BY <1>7 DEF Write
  <2>2. UNCHANGED <<happened, log, removed, watermark, kills>> /\ follower.at = "write"
        /\ follower' = [follower EXCEPT !.at = "save"]
    BY <1>7 DEF Write, logVars
  <2>3. follower'.at = "save" /\ follower'.events = follower.events /\ follower'.offsets = follower.offsets
        /\ follower'.todo = follower.todo
    BY <2>2 DEF TypeInv, Locals
  <2>4. text \in Seq(Line) /\ all \in Seq(Line) /\ ToSet(text) = follower.events
    BY TextType DEF TypeInv
  <2>5. ASSUME NEW e \in Event
        PROVE  /\ Times(e)' \in Nat /\ Times(e)' <= Times(e) + 1
               /\ e \notin follower.events => Times(e)' = Times(e)
    <3>1. \A i, j \in DOMAIN text : text[i] = e /\ text[j] = e => i = j
      BY TextOnce
    <3>2. all' \in Seq(Line)
      BY DEF TypeInv
    <3> QED
      BY <2>1, <2>4, <3>1, <3>2, OccursInAppended, OccursFinite DEF Times
  <2>6. TimesOK' /\ \A e \in Event : Spent(e)' => Spent(e) \/ e \in follower.events
    <3> SUFFICES ASSUME NEW e \in Event
                 PROVE  Times(e)' <= 1 + kills /\ (Spent(e)' => Spent(e) \/ e \in follower.events)
      BY <2>2 DEF TimesOK
    <3>1. Times(e) \in Nat /\ Times(e) <= 1 + kills /\ kills \in Nat
      BY TimesType DEF RepeatInv, TimesOK
    <3>2. e \in follower.events => Times(e) # 1 + kills
      BY <2>2 DEF RepeatInv, SpentOK, Spent
    <3> QED
      BY <2>2, <2>5, <3>1, <3>2 DEF Spent
  <2>7. SpentOK'
    <3>1. \A e \in Event : Spent(e)' => Behind(e, follower.offsets)
      BY <2>2, <2>6 DEF RepeatInv, SpentOK, HandsOK
    <3> QED
      BY <2>2, <2>3, <3>1 DEF SpentOK, Behind
  <2>8. HandsOK'
    <3>1. \A e \in Event : e \in ToSet(all)' => e \in ToSet(all) \/ e \in follower.events
      <4> SUFFICES ASSUME NEW e \in Event, e \in ToSet(all)', e \notin follower.events
                   PROVE  e \in ToSet(all)
        OBVIOUS
      <4>1. Occurs(all', e) = Occurs(all, e)
        BY <2>1, <2>4, TextOnce, OccursInAppended
      <4> QED
        BY <4>1 DEF Occurs, ToSet
    <3>2. \A e \in follower'.events : Behind(e, follower.offsets)'
      BY <2>2, <2>3 DEF RepeatInv, HandsOK, Behind
    <3> QED
      BY <2>2, <2>3, <3>1, <3>2 DEF RepeatInv, HandsOK
  <2>9. LogUnique'
    BY <2>2 DEF RepeatInv, LogUnique
  <2> QED
    BY <2>2, <2>6, <2>7, <2>8, <2>9 DEF RepeatInv
<1>8. CASE Fill
  <2>1. UNCHANGED <<happened, log, removed, all, kills>> /\ watermark' = follower.offsets
        /\ follower'.at = "sleep" /\ follower'.events = {} /\ follower'.offsets = follower.offsets
        /\ follower.at = "fill"
    BY <1>8 DEF Fill, logVars, outVars, TypeInv, Locals
  <2>2. watermark' # None
    <3>1. watermark' \in [File -> Offset]
      BY <2>1 DEF TypeInv, Locals
    <3> QED
      BY <3>1, FollowerAssumption DEF Offset
  <2>3. \A e : Times(e)' = Times(e) /\ (Spent(e)' <=> Spent(e))
    BY <2>1, TimesStay
  <2>4. SpentOK'
    BY <2>1, <2>2, <2>3 DEF RepeatInv, SpentOK, Behind
  <2>5. LogUnique' /\ HandsOK'
    BY <2>1 DEF RepeatInv, LogUnique, HandsOK, ToSet
  <2> QED
    BY <2>1, <2>3, <2>4, <2>5 DEF RepeatInv, TimesOK
<1>9. CASE Kill
  <2>1. UNCHANGED <<happened, log, removed, all>> /\ kills' = kills + 1 /\ follower' = Down
    BY <1>9 DEF Kill, logVars, outVars
  <2>2. \A e : Times(e)' = Times(e) /\ Times(e) \in Nat /\ ToSet(all)' = ToSet(all)
    BY <2>1, TimesType DEF Times, Occurs
  <2> QED
    BY <2>1, <2>2, RepeatKilled
<1>10. CASE KillWriting
  <2>1. PICK text \in Texts(follower.events), n \in 0..Cardinality(follower.events) - 1,
             rest \in Seq(Line) :
               (\A i \in DOMAIN rest : rest[i] = 0) /\ all' = Appended(all, cut, SubSeq(text, 1, n) \o rest)
    <3>1. PICK text \in Texts(follower.events), n \in 0..Cardinality(follower.events) - 1,
               broken \in BOOLEAN :
                 all' = Appended(all, cut, SubSeq(text, 1, n) \o (IF broken THEN <<0>> ELSE <<>>))
      BY <1>10 DEF KillWriting
    <3>2. CASE broken
      <4>1. <<0>> \in Seq(Line) /\ \A i \in DOMAIN <<0>> : <<0>>[i] = 0
        BY DEF Line
      <4> QED
        BY <3>1, <3>2, <4>1
    <3>3. CASE ~broken
      <4>1. <<>> \in Seq(Line) /\ \A i \in DOMAIN <<>> : <<>>[i] = 0
        OBVIOUS
      <4> QED
        BY <3>1, <3>3, <4>1
    <3> QED
      BY <3>2, <3>3
  <2>2. UNCHANGED <<happened, log, removed>> /\ kills' = kills + 1 /\ follower' = Down
        /\ follower.at = "write"
    BY <1>10 DEF KillWriting, logVars
  <2> DEFINE part == SubSeq(text, 1, n) \o rest
  <2>3. all' = Appended(all, cut, part) /\ part = SubSeq(text, 1, n) \o rest
        /\ \A i \in DOMAIN rest : rest[i] = 0
    BY <2>1
  <2> HIDE DEF part
  <2>4. ASSUME NEW e \in Event
        PROVE  /\ part \in Seq(Line)
               /\ Once(part, e) /\ Only(part, follower.events)
    <3>1. /\ TypeInv
          /\ text \in Texts(follower.events)
          /\ n \in Nat /\ n <= Cardinality(follower.events)
          /\ rest \in Seq(Line)
          /\ \A i \in DOMAIN rest : rest[i] = 0
          /\ e \in Event
          /\ part = SubSeq(text, 1, n) \o rest
      <4>1. Cardinality(follower.events) \in Nat
        BY EventsFinite DEF TypeInv, Locals
      <4> QED
        BY <2>1, <2>3, <4>1
    <3> QED
      BY <3>1, PartOnce
  <2>5. ASSUME NEW e \in Event
        PROVE  /\ Times(e)' \in Nat /\ Times(e)' <= Times(e) + 1
               /\ e \notin follower.events => Times(e)' = Times(e)
               /\ e \in ToSet(all)' => e \in ToSet(all) \/ e \in follower.events
    <3>1. e \notin follower.events => e \notin ToSet(part)
      BY <2>4, FollowerAssumption DEF Only, Event, ToSet
    <3>2. all \in Seq(Line) /\ all' \in Seq(Line)
      BY DEF TypeInv
    <3>3. /\ e \notin follower.events => Occurs(all', e) = Occurs(all, e)
          /\ Times(e)' <= Times(e) + 1
      <4>1. part \in Seq(Line) /\ \A i, j \in DOMAIN part : part[i] = e /\ part[j] = e => i = j
        BY <2>4 DEF Once
      <4>2. /\ e \notin ToSet(part) => Occurs(Appended(all, cut, part), e) = Occurs(all, e)
            /\ Cardinality(Occurs(Appended(all, cut, part), e)) <= Cardinality(Occurs(all, e)) + 1
        BY <3>2, <4>1, OccursInAppended, Zenon
      <4> QED
        BY <2>3, <3>1, <4>2 DEF Times
    <3>4. e \in ToSet(all)' => e \in ToSet(all) \/ e \in follower.events
      BY <3>3 DEF Occurs, ToSet
    <3> QED
      BY <3>2, <3>3, <3>4, OccursFinite DEF Times
  <2> QED
    BY <2>2, <2>5, RepeatKilled
<1>11. CASE ListFiles
  <2>1. UNCHANGED <<happened, log, removed, watermark, all, kills>> /\ follower.at \in {"begin", "sleep"}
        /\ follower'.at = "poll" /\ follower'.events = {} /\ follower'.offsets = follower.offsets
    BY <1>11 DEF ListFiles, logVars, outVars, TypeInv, Locals
  <2> QED
    BY <2>1, RepeatStays
<1>12. CASE EndPoll \/ RemoveOldest \/ Shift \/ Rotate \/ Truncate
  <2>1. UNCHANGED <<happened, log, removed, all, kills>>
        /\ follower'.events = follower.events /\ follower'.offsets = follower.offsets
        /\ follower'.at \in {"save", "rotate", "write", "shift", "fill"}
        /\ follower.at \in {"poll", "rotate", "shift", "save"}
        /\ (follower'.at \notin {"save", "fill"} => watermark' = watermark /\ follower.at # "save")
    BY <1>12 DEF EndPoll, RemoveOldest, Shift, Rotate, Truncate, logVars, outVars, TypeInv, Locals
  <2> QED
    BY <2>1, RepeatStays
<1>13. CASE FailRead \/ Stop
  <2>1. UNCHANGED <<happened, log, removed, watermark, all, kills>> /\ follower' = Down
        /\ follower.at \in {"read", "sleep"}
    BY <1>13 DEF FailRead, Stop, logVars, outVars
  <2>2. follower'.at = "down" /\ follower'.events = {}
    BY <2>1 DEF Down
  <2> QED
    BY <2>1, <2>2, RepeatStays
<1>14. CASE UNCHANGED vars \/ \E f \in File : EndLine(f)
  <2>1. UNCHANGED <<happened, log, removed, watermark, all, kills, follower>>
    BY <1>14 DEF vars, EndLine, logVars, outVars
  <2>2. follower.at = "down" => follower.events = {}
    BY DEF OffsetsInv
  <2>3. follower.at = "begin" /\ follower.todo # {} => watermark = None
    BY DEF RepeatInv, HandsOK
  <2> QED
    BY <2>1, <2>2, <2>3, RepeatStays
<1> QED
  BY <1>1, <1>2, <1>3, <1>4, <1>5, <1>6, <1>7, <1>8, <1>9, <1>10, <1>11, <1>12, <1>13, <1>14
  DEF Next, FollowerStep

-----------------------------------------------------------------------------
(* What is settled. *)

(* A line is behind the offset of its file, or in one of some files. *)
BehindBut(e, offsets, files) ==
    \A f \in File \ files : \A j \in DOMAIN log[f] :
        log[f][j] = e => offsets[f].of = removed[f] /\ 2 * j <= offsets[f].at

(* A line is not half written. *)
Whole(e) == \A f \in File : \A j \in DOMAIN log[f] : log[f][j] = e => 2 * j <= Size(f)

(* A start without --since finds the settled events below the ends of the files;
   every other one finds them behind its watermark, or takes them for new. *)
KeptBehind(e) ==
    /\ e \notin follower.events
    /\ watermark # None => Behind(e, watermark)
    /\ follower.at \notin {"down", "begin"} => Behind(e, follower.offsets)
    /\ follower.at = "begin" => BehindBut(e, follower.offsets, follower.todo)

SettledInv ==
    /\ \A f \in File : f \notin there => log[f] = <<>>
    /\ \A e \in settled : e <= happened
    /\ \A e \in settled \cup follower.events : Whole(e)
    /\ \A e \in settled \ retold : KeptBehind(e)

LEMMA SettledInit == Init => SettledInv
BY DEF Init, SettledInv, Down

(* The files stay, and what the follower holds is less. *)
LEMMA SettledStays ==
    ASSUME TypeInv, SettledInv, UNCHANGED <<happened, log, there, half, removed, settled, retold>>,
           follower'.events \subseteq follower.events,
           watermark' \in {watermark, None},
           \/ follower'.at = "down"
           \/ /\ {follower.at, follower'.at} \cap {"down", "begin"} = {}
              /\ \A e \in Event : Behind(e, follower.offsets) => Behind(e, follower'.offsets)
    PROVE  SettledInv'
<1>1. \A e \in (settled \cup follower.events)' : Whole(e)'
  BY DEF SettledInv, Whole, Size
<1>2. ASSUME NEW e \in settled \ retold PROVE KeptBehind(e)'
  <2>1. KeptBehind(e) /\ e \in Event
    BY DEF SettledInv, TypeInv
  <2>2. e \notin follower'.events /\ (watermark' # None => Behind(e, watermark)')
    BY <2>1 DEF KeptBehind, Behind
  <2>3. CASE follower'.at = "down"
    BY <2>2, <2>3 DEF KeptBehind
  <2>4. CASE /\ {follower.at, follower'.at} \cap {"down", "begin"} = {}
             /\ \A x \in Event : Behind(x, follower.offsets) => Behind(x, follower'.offsets)
    <3>1. follower.at \notin {"down", "begin"} /\ follower'.at \notin {"down", "begin"}
      BY <2>4
    <3>2. Behind(e, follower'.offsets)
      BY <2>1, <2>4, <3>1 DEF KeptBehind
    <3> QED
      BY <2>2, <3>1, <3>2 DEF KeptBehind, Behind
  <2> QED
    BY <2>3, <2>4
<1> QED
  BY <1>1, <1>2 DEF SettledInv

(* A line that was there is in its place still, or gone with its file, and the
   files a start has not looked at yet are the same. *)
LEMMA SettledFiles ==
    ASSUME TypeInv, SettledInv, HandsOK,
           UNCHANGED <<follower, watermark, settled, retold>>,
           happened' \in Nat, happened <= happened',
           \A f \in File : f \notin there' => log'[f] = <<>>,
           \A f \in File : \A j \in DOMAIN log'[f] :
              \/ /\ j \in DOMAIN log[f] /\ log'[f][j] = log[f][j] /\ removed'[f] = removed[f]
                 /\ 2 * j <= Size(f) => 2 * j <= Size(f)'
              \/ log'[f][j] \in Nat /\ log'[f][j] > happened
    PROVE  SettledInv'
<1>1. happened \in Nat /\ \A e \in settled \cup follower.events : e \in Nat /\ e <= happened
  BY FollowerAssumption DEF SettledInv, HandsOK, TypeInv, Locals, Event
<1>2. \A e \in settled \cup follower.events :
        \A f \in File : \A j \in DOMAIN log'[f] : log'[f][j] = e =>
            /\ j \in DOMAIN log[f] /\ log[f][j] = e /\ removed'[f] = removed[f]
            /\ 2 * j <= Size(f) => 2 * j <= Size(f)'
  BY <1>1
<1>3. \A e \in (settled \cup follower.events)' : Whole(e)'
  BY <1>2 DEF SettledInv, Whole
<1>4. \A e \in (settled \ retold)' : KeptBehind(e)'
  <2> SUFFICES ASSUME NEW e \in settled \ retold PROVE KeptBehind(e)'
    OBVIOUS
  <2>1. KeptBehind(e)
    BY DEF SettledInv
  <2> QED
    BY <1>2, <2>1 DEF KeptBehind, Behind, BehindBut
<1>5. \A e \in settled' : e <= happened'
  BY <1>1
<1> QED
  BY <1>3, <1>4, <1>5 DEF SettledInv

LEMMA SettledNext ==
    TypeInv /\ TypeInv' /\ OffsetsInv /\ RepeatInv /\ SettledInv /\ [Next]_vars => SettledInv'
<1> SUFFICES ASSUME TypeInv, TypeInv', OffsetsInv, RepeatInv, SettledInv, [Next]_vars
             PROVE  SettledInv'
  OBVIOUS
<1>0. HandsOK /\ LogUnique /\ happened \in Nat
  BY FollowerAssumption DEF RepeatInv, TypeInv
<1>1. ASSUME NEW f \in File, AppendLine(f) PROVE SettledInv'
  <2>1. log' = [log EXCEPT ![f] = Append(@, happened + 1)] /\ happened' = happened + 1
        /\ there' = there \cup {f} /\ half' \in {half, half \cup {f}} /\ f \notin half
        /\ UNCHANGED <<removed, follower, watermark, settled, retold>>
    BY <1>1 DEF AppendLine, historyVars
  <2>2. \A g \in File : log[g] \in Seq(Event) /\ Len(log[g]) \in Nat
    BY DEF TypeInv
  <2>3. \A g \in File : g \notin there' => log'[g] = <<>>
    BY <2>1 DEF SettledInv, TypeInv
  <2>4. ASSUME NEW g \in File, NEW j \in DOMAIN log'[g]
        PROVE  \/ /\ j \in DOMAIN log[g] /\ log'[g][j] = log[g][j] /\ removed'[g] = removed[g]
                  /\ 2 * j <= Size(g) => 2 * j <= Size(g)'
               \/ log'[g][j] \in Nat /\ log'[g][j] > happened
    <3>1. CASE g # f
      <4>1. log'[g] = log[g] /\ (g \in half' <=> g \in half)
        BY <2>1, <3>1 DEF TypeInv
      <4>2. Size(g)' = Size(g)
        BY <4>1 DEF Size
      <4> QED
        BY <2>1, <4>1, <4>2
    <3>2. CASE g = f
      <4>1. log'[g] = Append(log[f], happened + 1) /\ log[f] \in Seq(Event) /\ Len(log[f]) \in Nat
        BY <2>1, <2>2, <3>2 DEF TypeInv
      <4>2. CASE j = Len(log[f]) + 1
        <5>1. log'[g][j] = happened + 1
          BY <4>1, <4>2
        <5> QED
          BY <1>0, <5>1
      <4>3. CASE j # Len(log[f]) + 1
        <5>1. j \in 1..Len(log[f]) /\ log'[g][j] = log[f][j] /\ Len(log'[g]) = Len(log[f]) + 1
          BY <4>1, <4>3
        <5>2. 2 * j <= 2 * Len(log[f])
          BY <4>1, <5>1
        <5>3. Size(g)' = 2 * (Len(log[f]) + 1) - (IF g \in half' THEN 1 ELSE 0)
          BY <5>1 DEF Size
        <5>4. 2 * Len(log[f]) <= Size(g)' /\ Size(g)' \in Int
          <6>1. CASE g \in half'
            BY <4>1, <5>3, <6>1
          <6>2. CASE g \notin half'
            BY <4>1, <5>3, <6>2
          <6> QED
            BY <6>1, <6>2
        <5>5. 2 * j <= Size(g)'
          BY <4>1, <5>1, <5>2, <5>4
        <5> QED
          BY <2>1, <2>2, <3>2, <5>1, <5>5
      <4> QED
        BY <4>2, <4>3
    <3> QED
      BY <3>1, <3>2
  <2>5. happened' \in Nat /\ happened <= happened'
    BY <1>0, <2>1
  <2> QED
    BY <1>0, <2>1, <2>3, <2>4, <2>5, SettledFiles
<1>2. ASSUME NEW f \in File, EndLine(f) PROVE SettledInv'
  <2>1. UNCHANGED <<happened, log, there, removed, follower, watermark, settled, retold>>
        /\ half' = half \ {f}
    BY <1>2 DEF EndLine, historyVars
  <2>2. ASSUME NEW g \in File, NEW j \in DOMAIN log[g], 2 * j <= Size(g)
        PROVE  2 * j <= Size(g)'
    <3>1. Len(log[g]) \in Nat /\ j \in 1..Len(log[g])
      BY DEF TypeInv
    <3>2. Size(g) <= Size(g)'
      BY <2>1, <3>1 DEF Size
    <3>3. Size(g) \in Int /\ Size(g)' \in Int
      BY <2>1, <3>1 DEF Size
    <3> QED
      BY <2>2, <3>1, <3>2, <3>3
  <2>3. \A g \in File : g \notin there' => log'[g] = <<>>
    BY <2>1 DEF SettledInv
  <2> QED
    BY <1>0, <2>1, <2>2, <2>3, SettledFiles
<1>3. ASSUME NEW f \in File, RemoveSession(f) PROVE SettledInv'
  <2>1. UNCHANGED <<happened, half, follower, watermark, settled, retold>>
        /\ log' = [log EXCEPT ![f] = <<>>] /\ there' = there \ {f}
        /\ removed' = [removed EXCEPT ![f] = @ + 1]
    BY <1>3 DEF RemoveSession, historyVars
  <2>2. ASSUME NEW g \in File, NEW j \in DOMAIN log'[g]
        PROVE  /\ j \in DOMAIN log[g] /\ log'[g][j] = log[g][j] /\ removed'[g] = removed[g]
               /\ 2 * j <= Size(g) => 2 * j <= Size(g)'
    <3>1. g # f /\ log'[g] = log[g] /\ removed'[g] = removed[g]
      BY <2>1 DEF TypeInv
    <3> QED
      BY <2>1, <3>1 DEF Size
  <2>3. \A g \in File : g \notin there' => log'[g] = <<>>
    BY <2>1 DEF SettledInv, TypeInv
  <2> QED
    BY <1>0, <2>1, <2>2, <2>3, SettledFiles
<1>4. CASE Start
  <2>1. UNCHANGED <<happened, log, there, half, removed, watermark, settled>>
        /\ retold' = (IF watermark = None /\ since THEN settled ELSE retold)
        /\ follower'.at = "begin" /\ follower'.events = {}
        /\ (watermark # None => follower'.offsets = watermark)
        /\ (watermark = None /\ ~since => follower'.todo = there)
    BY <1>4 DEF Start, logVars, Down
  <2>2. \A e \in (settled \cup follower.events)' : Whole(e)'
    BY <2>1 DEF SettledInv, Whole, Size
  <2>3. ASSUME NEW e \in settled \ retold' PROVE KeptBehind(e)'
    <3>1. e \in settled \ retold /\ ~(watermark = None /\ since)
      BY <2>1, <2>3
    <3>2. watermark # None => Behind(e, watermark)
      BY <3>1 DEF SettledInv, KeptBehind
    <3>3. CASE watermark # None
      BY <2>1, <3>2, <3>3 DEF KeptBehind, Behind, BehindBut
    <3>4. CASE watermark = None
      <4>1. \A f \in File \ there : log[f] = <<>>
        BY DEF SettledInv
      <4>2. BehindBut(e, follower.offsets, follower.todo)'
        BY <2>1, <3>1, <3>4, <4>1 DEF BehindBut
      <4> QED
        BY <2>1, <3>4, <4>2 DEF KeptBehind
    <3> QED
      BY <3>3, <3>4
  <2> QED
    BY <2>1, <2>2, <2>3 DEF SettledInv
<1>5. ASSUME NEW f \in File, BeginAtEnd(f) PROVE SettledInv'
  <2>1. UNCHANGED <<happened, log, there, half, removed, watermark, settled, retold>>
        /\ follower.at = "begin" /\ follower'.at = "begin" /\ follower'.events = follower.events
        /\ follower'.todo = follower.todo \ {f}
        /\ (f \in there => follower'.offsets =
              [follower.offsets EXCEPT ![f] = [at |-> Size(f), of |-> removed[f]]])
        /\ (f \notin there => follower'.offsets = follower.offsets)
    BY <1>5 DEF BeginAtEnd, logVars, outVars, TypeInv, Locals
  <2>2. \A e \in (settled \cup follower.events)' : Whole(e)'
    BY <2>1 DEF SettledInv, Whole, Size
  <2>3. ASSUME NEW e \in settled \ retold PROVE KeptBehind(e)'
    <3>1. KeptBehind(e) /\ Whole(e)
      BY DEF SettledInv
    <3>2. ASSUME NEW g \in File, g \notin follower'.todo, NEW j \in DOMAIN log[g], log[g][j] = e
          PROVE  follower'.offsets[g].of = removed[g] /\ 2 * j <= follower'.offsets[g].at
      <4>1. CASE g = f
        <5>1. f \in there
          BY <3>2, <4>1 DEF SettledInv
        <5>2. follower'.offsets[f] = [at |-> Size(f), of |-> removed[f]]
          BY <2>1, <5>1 DEF TypeInv, Locals
        <5>3. 2 * j <= Size(f)
          BY <3>1, <3>2, <4>1 DEF Whole
        <5> QED
          BY <4>1, <5>2, <5>3
      <4>2. CASE g # f
        <5>1. g \notin follower.todo /\ follower'.offsets[g] = follower.offsets[g]
          BY <2>1, <3>2, <4>2 DEF TypeInv, Locals
        <5> QED
          BY <2>1, <3>1, <3>2, <5>1 DEF KeptBehind, BehindBut
      <4> QED
        BY <4>1, <4>2
    <3>3. BehindBut(e, follower.offsets, follower.todo)'
      BY <2>1, <3>2 DEF BehindBut
    <3> QED
      BY <2>1, <3>1, <3>3 DEF KeptBehind, Behind
  <2> QED
    BY <2>1, <2>2, <2>3 DEF SettledInv
<1>6. CASE ListFiles
  <2>1. UNCHANGED <<happened, log, there, half, removed, watermark, settled, retold>>
        /\ follower'.at = "poll" /\ follower'.events = {} /\ follower'.offsets = follower.offsets
        /\ (follower.at = "sleep" \/ (follower.at = "begin" /\ follower.todo = {}))
    BY <1>6 DEF ListFiles, logVars, historyVars, TypeInv, Locals
  <2>2. \A e \in (settled \cup follower.events)' : Whole(e)'
    BY <2>1 DEF SettledInv, Whole, Size
  <2>3. ASSUME NEW e \in settled \ retold PROVE KeptBehind(e)'
    <3>1. KeptBehind(e)
      BY DEF SettledInv
    <3>2. Behind(e, follower.offsets)
      BY <2>1, <3>1 DEF KeptBehind, BehindBut, Behind
    <3> QED
      BY <2>1, <3>1, <3>2 DEF KeptBehind, Behind
  <2> QED
    BY <2>1, <2>2, <2>3 DEF SettledInv
<1>7. ASSUME NEW f \in File, Stat(f) PROVE SettledInv'
  <2>1. UNCHANGED <<happened, log, there, half, removed, watermark, settled, retold>>
        /\ follower.at = "poll" /\ follower'.at \in {"poll", "read"}
        /\ follower'.events = follower.events
    BY <1>7 DEF Stat, StatFrom, logVars, outVars, TypeInv, Locals
  <2>2. \A e \in Event : Behind(e, follower.offsets) => Behind(e, follower'.offsets)
    BY <1>7, BehindStat
  <2> QED
    BY <2>1, <2>2, SettledStays
<1>8. CASE Read
  <2>1. UNCHANGED <<happened, log, there, half, removed, watermark, settled, retold>>
        /\ follower.at = "read" /\ follower'.at = "poll"
    BY <1>8 DEF Read, logVars, outVars, TypeInv, Locals
  <2>2. /\ \A e \in Event : Behind(e, follower.offsets) => Behind(e, follower'.offsets)
        /\ \A e \in follower'.events \ follower.events :
              ~Behind(e, follower.offsets) /\ Whole(e)
    BY <1>0, <1>8, BehindRead DEF Whole
  <2>3. \A e \in (settled \cup follower.events)' : Whole(e)'
    <3>1. \A e \in (settled \cup follower.events)' : Whole(e)
      BY <2>1, <2>2 DEF SettledInv
    <3> QED
      BY <2>1, <3>1 DEF Whole, Size
  <2>4. ASSUME NEW e \in settled \ retold PROVE KeptBehind(e)'
    <3>1. KeptBehind(e) /\ e \in Event
      BY DEF SettledInv, TypeInv
    <3>2. Behind(e, follower.offsets) /\ e \notin follower'.events
      BY <2>1, <2>2, <3>1 DEF KeptBehind
    <3>3. Behind(e, follower'.offsets)
      BY <2>2, <3>1, <3>2
    <3> QED
      BY <2>1, <3>1, <3>2, <3>3 DEF KeptBehind, Behind
  <2> QED
    BY <2>1, <2>3, <2>4 DEF SettledInv
<1>9. CASE Fill
  <2>1. UNCHANGED <<happened, log, there, half, removed>> /\ watermark' = follower.offsets
        /\ settled' = settled \cup follower.events /\ retold' = retold \ follower.events
        /\ follower.at = "fill" /\ follower'.at = "sleep" /\ follower'.events = {}
        /\ follower'.offsets = follower.offsets
    BY <1>9 DEF Fill, logVars, TypeInv, Locals
  <2>2. \A e \in (settled \cup follower.events)' : Whole(e)'
    BY <2>1 DEF SettledInv, Whole, Size
  <2>3. ASSUME NEW e \in settled' \ retold' PROVE KeptBehind(e)'
    <3>1. e \in follower.events \/ e \in settled \ retold
      BY <2>1, <2>3
    <3>2. Behind(e, follower.offsets)
      BY <1>0, <2>1, <3>1 DEF HandsOK, SettledInv, KeptBehind
    <3> QED
      BY <2>1, <3>2 DEF KeptBehind, Behind
  <2>4. \A e \in settled' : e <= happened'
    BY <1>0, <2>1 DEF HandsOK, SettledInv, TypeInv, Locals
  <2> QED
    BY <2>1, <2>2, <2>3, <2>4 DEF SettledInv
<1>10. CASE EndPoll \/ RemoveOldest \/ Shift \/ Rotate \/ Write \/ Truncate
  <2>1. UNCHANGED <<happened, log, there, half, removed, settled, retold>>
        /\ watermark' \in {watermark, None}
        /\ follower'.events = follower.events /\ follower'.offsets = follower.offsets
        /\ follower'.at \in {"save", "rotate", "write", "shift", "fill"}
        /\ follower.at \in {"poll", "rotate", "shift", "write", "save"}
    BY <1>10 DEF EndPoll, RemoveOldest, Shift, Rotate, Write, Truncate, logVars, outVars,
                 historyVars, TypeInv, Locals
  <2>2. {follower.at, follower'.at} \cap {"down", "begin"} = {}
    BY <2>1
  <2> QED
    BY <2>1, <2>2, SettledStays
<1>11. CASE FailRead \/ Stop \/ Kill \/ KillWriting
  <2>1. UNCHANGED <<happened, log, there, half, removed, watermark, settled, retold>>
        /\ follower'.at = "down" /\ follower'.events = {}
    BY <1>11 DEF FailRead, Stop, Kill, KillWriting, logVars, outVars, historyVars, Down
  <2> QED
    BY <2>1, SettledStays
<1>12. CASE UNCHANGED vars
  <2>1. UNCHANGED <<happened, log, there, half, removed, follower, watermark, settled, retold>>
    BY <1>12 DEF vars, logVars, outVars, historyVars
  <2>2. \A e : Whole(e)' <=> Whole(e)
    BY <2>1 DEF Whole, Size
  <2>3. \A e : KeptBehind(e)' <=> KeptBehind(e)
    BY <2>1 DEF KeptBehind, Behind, BehindBut
  <2> QED
    BY <2>1, <2>2, <2>3 DEF SettledInv
<1> QED
  BY <1>1, <1>2, <1>3, <1>4, <1>5, <1>6, <1>7, <1>8, <1>9, <1>10, <1>11, <1>12
  DEF Next, FollowerStep

-----------------------------------------------------------------------------
RInv == IInv /\ RepeatInv /\ SettledInv

(* TypeInv, OffsetsInv, SkippedInv, RepeatInv and SettledInv together are
   inductive. *)
THEOREM RInvCorrect == Spec => []RInv
<1>1. Init => RInv
  BY TypeInit, OffsetsInit, SkippedInit, RepeatInit, SettledInit DEF RInv, IInv
<1>2. RInv /\ [Next]_vars => RInv'
  BY TypeNext, OffsetsNext, SkippedNext, RepeatNext, SettledNext DEF RInv, IInv
<1> QED
  BY <1>1, <1>2, PTL DEF Spec

(* What a step writes was in the follower's hands, and is written once. *)
LEMMA WrittenWasHeld ==
    ASSUME TypeInv, [Next]_vars, NEW e \in Event, Occurs(all', e) # Occurs(all, e)
    PROVE  /\ follower.at = "write" /\ e \in follower.events
           /\ Cardinality(Occurs(all', e)) <= Cardinality(Occurs(all, e)) + 1
<1>1. CASE Write
  <2>1. PICK text \in Texts(follower.events) : all' = Appended(all, cut, text)
    BY <1>1 DEF Write
  <2>2. text \in Seq(Line) /\ all \in Seq(Line) /\ ToSet(text) = follower.events
    BY TextType DEF TypeInv
  <2>3. \A i, j \in DOMAIN text : text[i] = e /\ text[j] = e => i = j
    BY TextOnce
  <2>4. /\ e \notin ToSet(text) => Occurs(Appended(all, cut, text), e) = Occurs(all, e)
        /\ Cardinality(Occurs(Appended(all, cut, text), e)) <= Cardinality(Occurs(all, e)) + 1
    BY <2>2, <2>3, OccursInAppended, Zenon
  <2>5. follower.at = "write"
    BY <1>1 DEF Write
  <2> QED
    BY <2>1, <2>2, <2>4, <2>5
<1>2. CASE KillWriting
  <2>1. PICK text \in Texts(follower.events), n \in 0..Cardinality(follower.events) - 1,
             broken \in BOOLEAN :
               all' = Appended(all, cut, SubSeq(text, 1, n) \o (IF broken THEN <<0>> ELSE <<>>))
    BY <1>2 DEF KillWriting
  <2> DEFINE rest == IF broken THEN <<0>> ELSE <<>>
             part == SubSeq(text, 1, n) \o rest
  <2>2. rest \in Seq(Line) /\ \A i \in DOMAIN rest : rest[i] = 0
    <3>1. <<0>> \in Seq(Line) /\ \A i \in DOMAIN <<0>> : <<0>>[i] = 0
      BY DEF Line
    <3>2. <<>> \in Seq(Line) /\ \A i \in DOMAIN <<>> : <<>>[i] = 0
      OBVIOUS
    <3> QED
      BY <3>1, <3>2
  <2>3. all' = Appended(all, cut, part) /\ part = SubSeq(text, 1, n) \o rest
    BY <2>1
  <2>4. Cardinality(follower.events) \in Nat
    BY EventsFinite DEF TypeInv, Locals
  <2> HIDE DEF rest, part
  <2>5. part \in Seq(Line) /\ Once(part, e) /\ Only(part, follower.events)
    <3>1. n \in Nat /\ n <= Cardinality(follower.events) /\ text \in Texts(follower.events)
      BY <2>1, <2>4
    <3> QED
      BY <2>2, <2>3, <3>1, PartOnce
  <2>6. e \notin follower.events => e \notin ToSet(part)
    BY <2>5, FollowerAssumption DEF Only, Event, ToSet
  <2>7. all \in Seq(Line) /\ \A i, j \in DOMAIN part : part[i] = e /\ part[j] = e => i = j
    BY <2>5 DEF TypeInv, Once
  <2>8. /\ e \notin ToSet(part) => Occurs(Appended(all, cut, part), e) = Occurs(all, e)
        /\ Cardinality(Occurs(Appended(all, cut, part), e)) <= Cardinality(Occurs(all, e)) + 1
    BY <2>5, <2>7, OccursInAppended, Zenon
  <2>9. follower.at = "write"
    BY <1>2 DEF KillWriting
  <2> QED
    BY <2>3, <2>6, <2>8, <2>9
<1>3. all' # all
  OBVIOUS
<1> QED
  BY <1>1, <1>2, <1>3
  DEF Next, FollowerStep, vars, outVars, AppendLine, EndLine, RemoveSession, Start, BeginAtEnd,
      ListFiles, Stat, StatFrom, Read, FailRead, EndPoll, RemoveOldest, Shift, Rotate, Truncate,
      Fill, Stop, Kill

(* An event whose watermark was saved is not written again, unless a start with
   --since found the watermark truncated (export-command.ts:345-362), and no
   event is written more often than the kills explain. *)
THEOREM NotRepeatedAlways == Spec => NotRepeated
<1>1. RInv /\ RInv' /\ [Next]_vars =>
        [\A e \in Event : Lines(e)' # Lines(e) =>
            /\ Cardinality(Lines(e)') <= 1 + kills
            /\ e \in settled => e \in retold]_vars
  <2> SUFFICES ASSUME RInv, RInv', [Next]_vars, NEW e \in Event, Lines(e)' # Lines(e)
               PROVE  /\ Cardinality(Lines(e)') <= 1 + kills
                      /\ e \in settled => e \in retold
    OBVIOUS
  <2>1. Lines(e)' = Occurs(all', e) /\ Lines(e) = Occurs(all, e)
    BY DEF Lines, Occurs
  <2>2. e \in follower.events
    BY <2>1, WrittenWasHeld DEF RInv, IInv
  <2>3. e \in settled => e \in retold
    BY <2>2 DEF RInv, SettledInv, KeptBehind
  <2>4. Cardinality(Lines(e)') <= 1 + kills
    <3>1. follower.at = "write" /\ Cardinality(Lines(e)') <= Times(e) + 1
      BY <2>1, WrittenWasHeld DEF RInv, IInv, Times
    <3>2. Times(e) \in Nat /\ Times(e) <= 1 + kills /\ kills \in Nat
      BY TimesType DEF RInv, IInv, RepeatInv, TimesOK
    <3>3. Times(e) # 1 + kills
      BY <2>2, <3>1 DEF RInv, RepeatInv, SpentOK, Spent
    <3>4. Cardinality(Lines(e)') \in Nat
      <4>1. all' \in Seq(Line)
        BY DEF RInv, IInv, TypeInv
      <4> QED
        BY <2>1, <4>1, OccursFinite
    <3> QED
      BY <3>1, <3>2, <3>3, <3>4
  <2> QED
    BY <2>3, <2>4
<1> QED
  BY <1>1, RInvCorrect, PTL DEF Spec, NotRepeated
-----------------------------------------------------------------------------
(* The rotated files. *)

(* The slot that a rotation has emptied. *)
Vacated == IF follower.at = "shift" THEN follower.slot + 1 ELSE 0

(* Only the vacated slot may be empty below a file, and none may be once
   something was deleted, unless a rotation was killed. *)
NoHole(from) ==
    ~short => \A n \in 1..Keep : \A m \in n..Keep :
        rotated[m] # None \/ from[Keep] > 0 => n = Vacated \/ rotated[n] # None

Cut(from) == from \in [0..Keep -> 0..Len(all)] /\ CutAt(from) /\ NoHole(from)

KeptInv ==
    /\ rotated \in [1..Keep -> Seq(Line) \cup {None}]
    /\ follower.at = "shift" => follower.slot \in 0..Keep - 1 /\ rotated[Vacated] = None
    /\ \E from : Cut(from)

LEMMA LineNone == None \notin Seq(Line)
<1>1. Line \subseteq Nat
  BY FollowerAssumption DEF Line, Event
<1>2. Seq(Line) \subseteq Seq(Nat)
  BY <1>1, SeqMonotonic
<1> QED
  BY <1>2, FollowerAssumption

LEMMA KeptInit == Init => KeptInv
<1> SUFFICES ASSUME Init PROVE KeptInv
  OBVIOUS
<1>1. out = <<>> /\ all = <<>> /\ rotated = [n \in 1..Keep |-> None] /\ follower.at = "down"
  BY DEF Init, Down
<1>2. rotated \in [1..Keep -> Seq(Line) \cup {None}]
  BY <1>1
<1> DEFINE from == [n \in 0..Keep |-> 0]
<1>3. from \in [0..Keep -> 0..Len(all)] /\ \A n \in 0..Keep : from[n] = 0
  BY <1>1
<1>4. Keep \in 0..Keep /\ 0 \in 0..Keep /\ \A n \in 1..Keep : n - 1 \in 0..Keep /\ n \in 0..Keep
  BY FollowerAssumption
<1> HIDE DEF from
<1>5. CutAt(from)
  <2>1. SubSeq(all, 1, 0) = <<>>
    BY <1>1
  <2> QED
    BY <1>1, <1>3, <1>4, <2>1 DEF CutAt
<1>6. NoHole(from)
  BY <1>1, <1>3, <1>4 DEF NoHole
<1> QED
  BY <1>1, <1>2, <1>3, <1>5, <1>6 DEF KeptInv, Cut

(* A step that leaves the files alone. *)
LEMMA KeptStays ==
    ASSUME KeptInv, UNCHANGED <<out, all, rotated>>, short => short',
           follower.at = "shift" => short' \/ (follower'.at = "shift" /\ follower'.slot = follower.slot),
           follower'.at = "shift" => follower.at = "shift" /\ follower'.slot = follower.slot
    PROVE  KeptInv'
<1>1. PICK from : Cut(from)
  BY DEF KeptInv
<1>2. CutAt(from)'
  BY <1>1 DEF Cut, CutAt
<1>3. NoHole(from)'
  BY <1>1 DEF Cut, NoHole, Vacated
<1>4. from \in [0..Keep -> 0..Len(all)]'
  BY <1>1 DEF Cut
<1>5. Cut(from)'
  BY <1>2, <1>3, <1>4 DEF Cut
<1> QED
  BY <1>5 DEF KeptInv, Vacated

(* Lines behind the others change no piece that was cut from these. *)
LEMMA PiecesOfMore ==
    ASSUME NEW lines \in Seq(Line), NEW more \in Seq(Line), NEW a \in 0..Len(lines)
    PROVE  /\ \A b \in 0..Len(lines) : SubSeq(lines \o more, a + 1, b) = SubSeq(lines, a + 1, b)
           /\ SubSeq(lines \o more, a + 1, Len(lines \o more)) =
                SubSeq(lines, a + 1, Len(lines)) \o more
<1>1. lines \o more \in Seq(Line) /\ Len(lines \o more) = Len(lines) + Len(more)
      /\ Len(lines) \in Nat /\ Len(more) \in Nat
  OBVIOUS
<1>2. ASSUME NEW b \in 0..Len(lines)
      PROVE  SubSeq(lines \o more, a + 1, b) = SubSeq(lines, a + 1, b)
  <2> DEFINE s == SubSeq(lines \o more, a + 1, b)
             t == SubSeq(lines, a + 1, b)
  <2>1. /\ s \in Seq(Line) /\ t \in Seq(Line) /\ Len(s) = Len(t)
        /\ \A i \in 1..Len(s) : s[i] = t[i]
    BY <1>1, SubSeqProperties
  <2> HIDE DEF s, t
  <2>2. s = t
    BY <2>1, SeqEqual
  <2> QED
    BY <2>2 DEF s, t
<1>3. SubSeq(lines \o more, a + 1, Len(lines \o more)) = SubSeq(lines, a + 1, Len(lines)) \o more
  <2> DEFINE s == SubSeq(lines \o more, a + 1, Len(lines \o more))
             u == SubSeq(lines, a + 1, Len(lines))
  <2>1. s \in Seq(Line) /\ u \in Seq(Line) /\ Len(u) = Len(lines) - a
        /\ Len(s) = Len(lines) + Len(more) - a
    BY <1>1, SubSeqProperties
  <2>2. \A i \in 1..Len(s) : s[i] = (u \o more)[i]
    BY <1>1, <2>1, SubSeqProperties
  <2> HIDE DEF s, u
  <2>3. u \o more \in Seq(Line) /\ Len(u \o more) = Len(s)
    <3>1. u \o more \in Seq(Line) /\ Len(u \o more) = Len(u) + Len(more)
      BY <2>1, ConcatProperties
    <3> QED
      BY <1>1, <2>1, <3>1
  <2>4. s = u \o more
    BY <2>1, <2>2, <2>3, SeqEqual
  <2> QED
    BY <2>4 DEF s, u
<1> QED
  BY <1>2, <1>3

(* The same text goes to the end of the output and of all that was written. *)
LEMMA KeptAppended ==
    ASSUME TypeInv, KeptInv, NEW text \in Seq(Line), UNCHANGED rotated, short => short',
           out' = Appended(out, cut, text), all' = Appended(all, cut, text),
           follower.at # "shift", follower'.at # "shift"
    PROVE  KeptInv'
<1>1. PICK from : Cut(from)
  BY DEF KeptInv
<1>2. PICK more \in Seq(Line) : out' = out \o more /\ all' = all \o more
  <2>1. CASE cut /\ text # <<>>
    <3>1. Tail(text) \in Seq(Line)
      BY <2>1
    <3> QED
      BY <2>1, <3>1 DEF Appended
  <2>2. CASE ~(cut /\ text # <<>>)
    BY <2>2 DEF Appended
  <2> QED
    BY <2>1, <2>2
<1>3. all \in Seq(Line) /\ Len(all) \in Nat /\ Len(all') = Len(all) + Len(more) /\ Len(more) \in Nat
  BY <1>2 DEF TypeInv
<1>4. /\ from \in [0..Keep -> 0..Len(all)]
      /\ 0 \in 0..Keep /\ \A n \in 1..Keep : n - 1 \in 0..Keep /\ n \in 0..Keep
  BY <1>1, FollowerAssumption DEF Cut
<1>5. CutAt(from)'
  <2>1. out' = SubSeq(all', from[0] + 1, Len(all'))
    <3>1. from[0] \in 0..Len(all)
      BY <1>4
    <3>2. SubSeq(all \o more, from[0] + 1, Len(all \o more)) =
            SubSeq(all, from[0] + 1, Len(all)) \o more
      BY <1>3, <3>1, PiecesOfMore
    <3>3. out = SubSeq(all, from[0] + 1, Len(all))
      BY <1>1 DEF Cut, CutAt
    <3> QED
      BY <1>2, <3>2, <3>3
  <2>2. ASSUME NEW n \in 1..Keep
        PROVE  SubSeq(all', from[n] + 1, from[n - 1]) = SubSeq(all, from[n] + 1, from[n - 1])
    <3>1. from[n] \in 0..Len(all) /\ from[n - 1] \in 0..Len(all)
      BY <1>4
    <3>2. SubSeq(all \o more, from[n] + 1, from[n - 1]) = SubSeq(all, from[n] + 1, from[n - 1])
      BY <1>3, <3>1, PiecesOfMore
    <3> QED
      BY <1>2, <3>2
  <2> QED
    BY <1>1, <2>1, <2>2 DEF Cut, CutAt
<1>6. from \in [0..Keep -> 0..Len(all')]
  BY <1>3, <1>4
<1>7. NoHole(from)'
  BY <1>1 DEF Cut, NoHole, Vacated
<1>8. Cut(from)'
  BY <1>5, <1>6, <1>7 DEF Cut
<1> QED
  BY <1>8 DEF KeptInv

(* One slot is set; the pieces of the others stay. *)
LEMMA KeptRemoveOldest ==
    ASSUME TypeInv, KeptInv, RemoveOldest
    PROVE  KeptInv'
<1>1. PICK from : Cut(from)
  BY DEF KeptInv
<1>2. from \in [0..Keep -> 0..Len(all)] /\ Len(all) \in Nat /\ all' = all /\ short' = short
      /\ follower.at = "rotate"
  BY <1>1 DEF Cut, TypeInv, RemoveOldest, historyVars
<1>3. CASE Keep = 0
  <2>1. out' = <<>> /\ rotated' = rotated /\ follower'.at = "write"
    BY <1>3 DEF RemoveOldest, TypeInv, Locals
  <2>2. PICK next : next \in [0..Keep -> 0..Len(all)] /\ next[0] = Len(all)
    <3>1. /\ [from EXCEPT ![0] = Len(all)] \in [0..Keep -> 0..Len(all)]
          /\ [from EXCEPT ![0] = Len(all)][0] = Len(all)
      BY <1>2, <1>3
    <3> QED
      BY <3>1
  <2>3. 1..Keep = {}
    BY <1>3
  <2>4. SubSeq(all, Len(all) + 1, Len(all)) = <<>>
    BY <1>2, SubSeqEmpty
  <2>5. Cut(next)'
    BY <1>2, <2>1, <2>2, <2>3, <2>4 DEF Cut, CutAt, NoHole
  <2> QED
    BY <2>1, <2>5 DEF KeptInv
<1>4. CASE Keep # 0
  <2>1. /\ rotated' = [rotated EXCEPT ![Keep] = None] /\ out' = out
        /\ follower'.at = "shift" /\ follower'.slot = Keep - 1
    BY <1>4 DEF RemoveOldest, TypeInv, Locals
  <2>2. Keep \in Nat \ {0} /\ Keep \in 1..Keep /\ Keep - 1 \in 0..Keep /\ Keep \in 0..Keep
        /\ \A n \in 1..Keep : n - 1 \in 0..Keep /\ n \in 0..Keep /\ n - 1 # Keep
    BY <1>4, FollowerAssumption
  <2>3. PICK next : /\ next \in [0..Keep -> 0..Len(all)] /\ next[Keep] = from[Keep - 1]
                    /\ \A n \in 0..Keep : n # Keep => next[n] = from[n]
    <3> DEFINE new == [from EXCEPT ![Keep] = from[Keep - 1]]
    <3>1. /\ new \in [0..Keep -> 0..Len(all)] /\ new[Keep] = from[Keep - 1]
          /\ \A n \in 0..Keep : n # Keep => new[n] = from[n]
      BY <1>2, <2>2
    <3> HIDE DEF new
    <3> QED
      BY <3>1
  <2>4. rotated'[Keep] = None /\ \A n \in 1..Keep : n # Keep => rotated'[n] = rotated[n]
    BY <2>1, <2>2 DEF KeptInv
  <2>5. CutAt(next)'
    <3>1. out' = SubSeq(all', next[0] + 1, Len(all'))
      <4>1. next[0] = from[0]
        BY <2>2, <2>3
      <4> QED
        BY <1>1, <1>2, <2>1, <4>1 DEF Cut, CutAt
    <3>2. ASSUME NEW n \in 1..Keep
          PROVE  IF rotated'[n] = None THEN next[n] = next[n - 1]
                 ELSE next[n] <= next[n - 1] /\ rotated'[n] = SubSeq(all', next[n] + 1, next[n - 1])
      <4>1. CASE n = Keep
        BY <2>2, <2>3, <2>4, <4>1
      <4>2. CASE n # Keep
        <5>1. next[n] = from[n] /\ next[n - 1] = from[n - 1] /\ rotated'[n] = rotated[n]
          BY <2>2, <2>3, <2>4, <4>2
        <5> QED
          BY <1>1, <1>2, <5>1 DEF Cut, CutAt
      <4> QED
        BY <4>1, <4>2
    <3> QED
      BY <3>1, <3>2 DEF CutAt
  <2>6. Vacated = 0 /\ Vacated' = Keep
    BY <1>2, <2>1, <2>2 DEF Vacated
  <2>7. NoHole(next)'
    <3> SUFFICES ASSUME ~short, NEW n \in 1..Keep, NEW m \in n..Keep,
                        rotated'[m] # None \/ next[Keep] > 0, n # Keep
                 PROVE  rotated'[n] # None
      BY <1>2, <2>6 DEF NoHole
    <3>1. m \in 1..Keep
      BY <2>2
    <3>2. CASE rotated'[m] # None
      <4>1. rotated[m] # None
        BY <2>4, <3>1, <3>2
      <4>2. rotated[n] # None
        BY <1>1, <2>2, <2>6, <4>1 DEF Cut, NoHole
      <4> QED
        BY <2>4, <4>2
    <3>3. CASE next[Keep] > 0
      <4>1. from[Keep - 1] > 0
        BY <2>3, <3>3
      <4>2. rotated[Keep] # None \/ from[Keep] > 0
        BY <1>1, <2>2, <4>1 DEF Cut, CutAt
      <4>3. Keep \in n..Keep
        BY <2>2
      <4>4. rotated[n] # None
        BY <1>1, <2>2, <2>6, <4>2, <4>3 DEF Cut, NoHole
      <4> QED
        BY <2>4, <4>4
    <3> QED
      BY <3>2, <3>3
  <2>8. Cut(next)'
    BY <1>2, <2>3, <2>5, <2>7 DEF Cut
  <2>9. rotated' \in [1..Keep -> Seq(Line) \cup {None}]
    BY <2>1 DEF KeptInv
  <2> QED
    BY <2>1, <2>2, <2>4, <2>6, <2>8, <2>9 DEF KeptInv
<1> QED
  BY <1>3, <1>4

LEMMA KeptShift ==
    ASSUME TypeInv, KeptInv, Shift
    PROVE  KeptInv'
<1>1. PICK from : Cut(from)
  BY DEF KeptInv
<1>0. PICK n : n = follower.slot
  OBVIOUS
<1>2. from \in [0..Keep -> 0..Len(all)] /\ Len(all) \in Nat /\ all' = all /\ short' = short /\ out' = out
      /\ follower.at = "shift" /\ n > 0 /\ follower'.at = "shift" /\ follower'.slot = n - 1
  BY <1>0, <1>1 DEF Cut, TypeInv, Locals, Shift, historyVars
<1>3. /\ n \in 0..Keep - 1 /\ rotated[n + 1] = None /\ Vacated = n + 1
      /\ rotated \in [1..Keep -> Seq(Line) \cup {None}]
  BY <1>0, <1>2 DEF KeptInv, Vacated
<1>4. Keep \in Nat /\ n \in Nat /\ n - 1 \in 0..Keep - 1 /\ n \in 1..Keep /\ n + 1 \in 1..Keep /\ Vacated' = n
      /\ Keep \in 0..Keep /\ \A k \in 1..Keep : k - 1 \in 0..Keep /\ k \in 0..Keep
  BY <1>2, <1>3, FollowerAssumption DEF Vacated
<1>5. CASE rotated[n] = None
  <2>1. rotated' = rotated
    BY <1>0, <1>5 DEF Shift
  <2>2. CutAt(from)'
    BY <1>1, <1>2, <2>1 DEF Cut, CutAt
  <2>3. NoHole(from)'
    <3> SUFFICES ASSUME ~short, NEW k \in 1..Keep, NEW m \in k..Keep,
                        rotated[m] # None \/ from[Keep] > 0, k # n
                 PROVE  rotated[k] # None
      BY <1>2, <1>4, <2>1 DEF NoHole
    <3>1. \A i \in 1..Keep : \A j \in i..Keep :
            rotated[j] # None \/ from[Keep] > 0 => i = n + 1 \/ rotated[i] # None
      BY <1>1, <1>3 DEF Cut, NoHole
    <3>2. from[Keep] = 0
      <4>1. Keep \in n..Keep
        BY <1>4
      <4>2. ~(from[Keep] > 0)
        BY <1>4, <1>5, <3>1, <4>1
      <4> QED
        BY <1>2, <1>4, <4>2
    <3>3. m < n
      <4> SUFFICES ASSUME ~(m < n) PROVE FALSE
        OBVIOUS
      <4>1. m \in n..Keep
        BY <1>4
      <4>2. rotated[m] # None
        BY <3>2
      <4> QED
        BY <1>4, <1>5, <3>1, <4>1, <4>2
    <3>4. k # n + 1
      BY <1>4, <3>3
    <3> QED
      BY <3>1, <3>4
  <2>4. Cut(from)'
    BY <1>1, <1>2, <2>2, <2>3 DEF Cut
  <2> QED
    BY <1>2, <1>3, <1>4, <1>5, <2>1, <2>4 DEF KeptInv
<1>6. CASE rotated[n] # None
  <2>1. rotated' = [rotated EXCEPT ![n + 1] = rotated[n], ![n] = None]
    BY <1>0, <1>6 DEF Shift
  <2>2. /\ rotated'[n + 1] = rotated[n] /\ rotated'[n] = None
        /\ \A k \in 1..Keep : k # n /\ k # n + 1 => rotated'[k] = rotated[k]
        /\ rotated' \in [1..Keep -> Seq(Line) \cup {None}]
    BY <1>3, <1>4, <2>1
  <2>3. PICK next : /\ next \in [0..Keep -> 0..Len(all)] /\ next[n] = from[n - 1]
                    /\ \A k \in 0..Keep : k # n => next[k] = from[k]
    <3> DEFINE new == [from EXCEPT ![n] = from[n - 1]]
    <3>1. /\ new \in [0..Keep -> 0..Len(all)] /\ new[n] = from[n - 1]
          /\ \A k \in 0..Keep : k # n => new[k] = from[k]
      BY <1>2, <1>4
    <3> HIDE DEF new
    <3> QED
      BY <3>1
  <2>4. from[n + 1] = from[n] /\ from[n] <= from[n - 1] /\ rotated[n] = SubSeq(all, from[n] + 1, from[n - 1])
    <3>1. \A k \in 1..Keep :
            IF rotated[k] = None THEN from[k] = from[k - 1]
            ELSE from[k] <= from[k - 1] /\ rotated[k] = SubSeq(all, from[k] + 1, from[k - 1])
      BY <1>1 DEF Cut, CutAt
    <3>2. from[n + 1] = from[(n + 1) - 1] /\ (n + 1) - 1 = n
      BY <1>3, <1>4, <3>1
    <3> QED
      BY <1>4, <1>6, <3>1, <3>2
  <2>5. CutAt(next)'
    <3>1. out' = SubSeq(all', next[0] + 1, Len(all'))
      <4>1. next[0] = from[0]
        BY <1>2, <1>4, <2>3
      <4> QED
        BY <1>1, <1>2, <4>1 DEF Cut, CutAt
    <3>2. ASSUME NEW k \in 1..Keep
          PROVE  IF rotated'[k] = None THEN next[k] = next[k - 1]
                 ELSE next[k] <= next[k - 1] /\ rotated'[k] = SubSeq(all', next[k] + 1, next[k - 1])
      <4>1. CASE k = n
        <5>1. n - 1 \in 0..Keep /\ n - 1 # n
          BY <1>4
        <5> QED
          BY <2>2, <2>3, <4>1, <5>1
      <4>2. CASE k = n + 1
        <5>1. next[k] = from[n] /\ next[k - 1] = from[n - 1]
          <6>1. k - 1 = n /\ k # n /\ k \in 0..Keep
            BY <1>4, <4>2
          <6> QED
            BY <2>3, <2>4, <4>2, <6>1
        <5> QED
          BY <1>2, <1>6, <2>2, <2>4, <4>2, <5>1
      <4>3. CASE k # n /\ k # n + 1
        <5>1. k - 1 # n /\ k - 1 \in 0..Keep /\ k \in 0..Keep
          BY <1>4, <4>3
        <5>2. next[k] = from[k] /\ next[k - 1] = from[k - 1] /\ rotated'[k] = rotated[k]
          BY <2>2, <2>3, <4>3, <5>1
        <5> QED
          BY <1>1, <1>2, <5>2 DEF Cut, CutAt
      <4> QED
        BY <4>1, <4>2, <4>3
    <3> QED
      BY <3>1, <3>2 DEF CutAt
  <2>6. NoHole(next)'
    <3> SUFFICES ASSUME ~short, NEW k \in 1..Keep, NEW m \in k..Keep,
                        rotated'[m] # None \/ next[Keep] > 0, k # n
                 PROVE  rotated'[k] # None
      BY <1>2, <1>4 DEF NoHole
    <3>1. \A i \in 1..Keep : \A j \in i..Keep :
            rotated[j] # None \/ from[Keep] > 0 => i = n + 1 \/ rotated[i] # None
      BY <1>1, <1>3 DEF Cut, NoHole
    <3>2. CASE k = n + 1
      BY <1>6, <2>2, <3>2
    <3>3. CASE k # n + 1
      <4>1. next[Keep] = from[Keep]
        BY <1>3, <1>4, <2>3
      <4>2. rotated[m] # None \/ from[Keep] > 0 \/ (m = n + 1 /\ n \in k..Keep)
        BY <1>4, <2>2, <3>3, <4>1
      <4>3. rotated[k] # None
        BY <1>6, <3>1, <3>3, <4>2
      <4> QED
        BY <2>2, <3>3, <4>3
    <3> QED
      BY <3>2, <3>3
  <2>7. Cut(next)'
    BY <1>2, <2>3, <2>5, <2>6 DEF Cut
  <2> QED
    BY <1>2, <1>4, <2>2, <2>7 DEF KeptInv
<1> QED
  BY <1>5, <1>6

LEMMA KeptRotate ==
    ASSUME TypeInv, KeptInv, Rotate
    PROVE  KeptInv'
<1>1. PICK from : Cut(from)
  BY DEF KeptInv
<1>2. from \in [0..Keep -> 0..Len(all)] /\ all \in Seq(Line) /\ Len(all) \in Nat
      /\ all' = all /\ short' = short /\ out' = <<>> /\ out \in Seq(Line)
      /\ rotated' = [rotated EXCEPT ![1] = out]
      /\ follower.at = "shift" /\ follower.slot = 0 /\ follower'.at = "write"
  BY <1>1 DEF Cut, TypeInv, Locals, Rotate, historyVars
<1>3. /\ 0 \in 0..Keep - 1 /\ Vacated = 1 /\ rotated[1] = None /\ Vacated' = 0
      /\ rotated \in [1..Keep -> Seq(Line) \cup {None}]
  BY <1>2 DEF KeptInv, Vacated
<1>4. Keep \in Nat /\ 1 \in 1..Keep /\ 0 \in 0..Keep /\ 1 \in 0..Keep /\ 1 - 1 = 0
      /\ Keep \in 0..Keep /\ Keep # 0
      /\ \A k \in 1..Keep : k - 1 \in 0..Keep /\ k \in 0..Keep /\ (k - 1 = 0 => k = 1)
  BY <1>3, FollowerAssumption
<1>5. PICK next : /\ next \in [0..Keep -> 0..Len(all)] /\ next[0] = Len(all)
                  /\ \A k \in 1..Keep : next[k] = from[k]
  <2> DEFINE new == [from EXCEPT ![0] = Len(all)]
  <2>1. /\ new \in [0..Keep -> 0..Len(all)] /\ new[0] = Len(all)
        /\ \A k \in 1..Keep : new[k] = from[k]
    BY <1>2, <1>4
  <2> HIDE DEF new
  <2> QED
    BY <2>1
<1>6. rotated'[1] = out /\ out # None /\ \A k \in 1..Keep : k # 1 => rotated'[k] = rotated[k]
  BY <1>2, <1>3, <1>4, LineNone
<1>7. /\ out = SubSeq(all, from[0] + 1, Len(all))
      /\ \A k \in 1..Keep :
            IF rotated[k] = None THEN from[k] = from[k - 1]
            ELSE from[k] <= from[k - 1] /\ rotated[k] = SubSeq(all, from[k] + 1, from[k - 1])
  BY <1>1 DEF Cut, CutAt
<1>8. CutAt(next)'
  <2>1. out' = SubSeq(all', next[0] + 1, Len(all'))
    BY <1>2, <1>5, SubSeqEmpty
  <2>2. ASSUME NEW k \in 1..Keep
        PROVE  IF rotated'[k] = None THEN next[k] = next[k - 1]
               ELSE next[k] <= next[k - 1] /\ rotated'[k] = SubSeq(all', next[k] + 1, next[k - 1])
    <3>1. CASE k = 1
      <4>1. from[1] = from[0] /\ next[1] = from[0] /\ next[1 - 1] = Len(all) /\ from[0] \in 0..Len(all)
        <5>1. from[1] = from[1 - 1]
          BY <1>3, <1>4, <1>7
        <5> QED
          BY <1>2, <1>4, <1>5, <5>1
      <4>2. k - 1 = 1 - 1 /\ next[k] <= next[k - 1]
        BY <1>2, <3>1, <4>1
      <4>3. rotated'[k] = SubSeq(all', next[k] + 1, next[k - 1]) /\ rotated'[k] # None
        BY <1>2, <1>6, <1>7, <3>1, <4>1, <4>2
      <4> QED
        BY <4>2, <4>3
    <3>2. CASE k # 1
      <4>1. k - 1 \in 1..Keep
        BY <1>4, <3>2
      <4>2. next[k] = from[k] /\ next[k - 1] = from[k - 1] /\ rotated'[k] = rotated[k]
        BY <1>5, <1>6, <3>2, <4>1
      <4> QED
        BY <1>2, <1>7, <4>2
    <3> QED
      BY <3>1, <3>2
  <2> QED
    BY <2>1, <2>2 DEF CutAt
<1>9. NoHole(next)'
  <2> SUFFICES ASSUME ~short, NEW k \in 1..Keep, NEW m \in k..Keep,
                      rotated'[m] # None \/ next[Keep] > 0
               PROVE  rotated'[k] # None
    BY <1>2, <1>3 DEF NoHole
  <2>1. \A i \in 1..Keep : \A j \in i..Keep :
          rotated[j] # None \/ from[Keep] > 0 => i = 1 \/ rotated[i] # None
    BY <1>1, <1>3 DEF Cut, NoHole
  <2>2. CASE k = 1
    BY <1>6, <2>2
  <2>3. CASE k # 1
    <3>1. m \in 1..Keep /\ m # 1
      BY <1>4, <2>3
    <3>2. next[Keep] = from[Keep] /\ rotated'[m] = rotated[m] /\ rotated'[k] = rotated[k]
      BY <1>4, <1>5, <1>6, <2>3, <3>1
    <3> QED
      BY <2>1, <2>3, <3>2
  <2> QED
    BY <2>2, <2>3
<1>10. Cut(next)'
  BY <1>2, <1>5, <1>8, <1>9 DEF Cut
<1> QED
  BY <1>2, <1>3, <1>10 DEF KeptInv

LEMMA KeptNext == TypeInv /\ KeptInv /\ [Next]_vars => KeptInv'
<1> SUFFICES ASSUME TypeInv, KeptInv, [Next]_vars PROVE KeptInv'
  OBVIOUS
<1>1. CASE RemoveOldest
  BY <1>1, KeptRemoveOldest
<1>2. CASE Shift
  BY <1>2, KeptShift
<1>3. CASE Rotate
  BY <1>3, KeptRotate
<1>4. CASE Write
  <2>1. PICK text \in Texts(follower.events) :
          out' = Appended(out, cut, text) /\ all' = Appended(all, cut, text)
    BY <1>4 DEF Write
  <2>2. rotated' = rotated /\ short' = short /\ follower.at = "write" /\ follower'.at = "save"
    BY <1>4 DEF Write, TypeInv, Locals
  <2> QED
    BY <2>1, <2>2, TextType, KeptAppended
<1>5. CASE KillWriting
  <2>1. PICK text \in Texts(follower.events), n \in 0..Cardinality(follower.events) - 1,
             broken \in BOOLEAN :
             LET part == SubSeq(text, 1, n) \o (IF broken THEN <<0>> ELSE <<>>)
             IN  out' = Appended(out, cut, part) /\ all' = Appended(all, cut, part)
    BY <1>5 DEF KillWriting
  <2>2. rotated' = rotated /\ short' = short /\ follower.at = "write" /\ follower'.at = "down"
    BY <1>5 DEF KillWriting, Down
  <2>3. PICK part \in Seq(Line) : out' = Appended(out, cut, part) /\ all' = Appended(all, cut, part)
    BY <2>1, PartType
  <2> QED
    BY <2>2, <2>3, KeptAppended
<1>6. CASE Kill
  <2>1. UNCHANGED <<out, all, rotated>> /\ (short' <=> short \/ follower.at = "shift") /\ follower'.at = "down"
    BY <1>6 DEF Kill, outVars, Down
  <2> QED
    BY <2>1, KeptStays
<1>7. CASE FailRead \/ Stop \/ Start
  <2>1. UNCHANGED <<out, all, rotated, short>> /\ follower.at # "shift" /\ follower'.at # "shift"
    <3>1. CASE Start
      BY <3>1 DEF Start, outVars, Down
    <3>2. CASE FailRead \/ Stop
      BY <3>2 DEF FailRead, Stop, outVars, historyVars, Down
    <3> QED
      BY <1>7, <3>1, <3>2
  <2> QED
    BY <2>1, KeptStays
<1>8. CASE ListFiles \/ Read \/ EndPoll \/ Truncate \/ Fill
           \/ (\E f \in File : BeginAtEnd(f)) \/ (\E f \in File : Stat(f))
  <2>1. UNCHANGED <<out, all, rotated, short>> /\ follower.at # "shift" /\ follower'.at # "shift"
    BY <1>8 DEF ListFiles, Read, EndPoll, Truncate, Fill, BeginAtEnd, Stat, StatFrom, outVars,
                historyVars, TypeInv, Locals
  <2> QED
    BY <2>1, KeptStays
<1>9. CASE UNCHANGED vars \/ \E f \in File : AppendLine(f) \/ EndLine(f) \/ RemoveSession(f)
  <2>1. UNCHANGED <<out, all, rotated, short, follower>>
    BY <1>9 DEF vars, AppendLine, EndLine, RemoveSession, outVars, historyVars
  <2> QED
    BY <2>1, KeptStays
<1> QED
  BY <1>1, <1>2, <1>3, <1>4, <1>5, <1>6, <1>7, <1>8, <1>9 DEF Next, FollowerStep

(* The output and the rotated files are together what was written last, in its
   order (rotate, export-command.ts:271-284), and nothing is deleted while a slot
   is free, unless the follower was killed between two renames. *)
THEOREM KeptFilesAlways == Spec => []KeptFiles
<1>1. Init => TypeInv /\ KeptInv
  BY TypeInit, KeptInit
<1>2. TypeInv /\ KeptInv /\ [Next]_vars => (TypeInv /\ KeptInv)'
  BY TypeNext, KeptNext
<1>3. KeptInv => KeptFiles
  <2> SUFFICES ASSUME KeptInv PROVE KeptFiles
    OBVIOUS
  <2>1. PICK from : Cut(from)
    BY DEF KeptInv
  <2>2. ASSUME from[Keep] > 0, ~short, follower.at # "shift", NEW n \in 1..Keep
        PROVE  rotated[n] # None
    <3>1. Keep \in n..Keep /\ n # 0
      BY FollowerAssumption
    <3> QED
      BY <2>1, <2>2, <3>1 DEF Cut, NoHole, Vacated
  <2> QED
    BY <2>1, <2>2 DEF Cut, KeptFiles
<1> QED
  BY <1>1, <1>2, <1>3, PTL DEF Spec
=============================================================================
