--------------------------- MODULE LivePushProofs ---------------------------
(***************************************************************************)
(* Proofs about LivePush, for any hooks, events, back-offs, batch sizes,   *)
(* deferred events and killed hooks.                                       *)
(*                                                                         *)
(* EachOnce: an event is at one place - with a hook that defers, with a    *)
(* pusher, in the queue file, being encrypted, pending, in a batch, or     *)
(* received, given up or appended too late - and a step moves events from  *)
(* one place to another.  The invariant adds that no sequence has an event *)
(* twice, and what a push carries at each of its steps.                    *)
(*                                                                         *)
(* InOrder: the events of the line, which with hooks is the proxy, lie in  *)
(* order from what is received over what its pusher carries and its        *)
(* batches to what is pending.  It needs to know that the line's events    *)
(* never get into the queue file, and so into another's push.              *)
(*                                                                         *)
(* EndIsDrained: what was queued before close() is in the batch on its way *)
(* and the first of the chain, as many as it still waits for; what was in  *)
(* the buffer at stop() is in the batch that it waits for, and an event    *)
(* that is buffered later was not.                                         *)
(*                                                                         *)
(* GateTells: while no pushes overlapped, the gate tells the refusals and  *)
(* the time since the last, or the one pusher that has counted an outcome  *)
(* holds the gate that does.  The windows double, by a recursive function, *)
(* so DoubledIs first shows that the recursion is well defined.            *)
(***************************************************************************)
EXTENDS LivePush, FiniteSetTheorems, SequenceTheorems, TLAPS

Event == Nat \ {0}

Step == {"idle", "take", "read", "check", "post", "record", "unlink", "truncate", "fill"}

Gate == [left : Nat, backoff : Nat]

Push == [at : Step, own : Seq(Event), held : Seq(Event), outcome : Outcome \cup {"none"},
         next : Gate \cup {None}]

TypeOK ==
    /\ deployment \in {"hooks", "stream"}
    /\ happened \in Nat
    /\ source \in [1..MaxEvents -> Pusher \cup {None}]
    /\ queue \in Seq(Event) \cup {None}
    /\ appending \in [Hook -> [to : {"none", "queue", "gone"} \cup Pusher, event : Nat]]
    /\ push \in [Pusher -> Push]
    /\ file \in [length : Nat, gate : Gate \cup {None}]
    /\ memory \in Gate \cup {None}
    /\ encrypting \subseteq Event /\ pending \in Seq(Event) /\ chain \in Seq(Seq(Event))
    /\ ending \in {"no", "called", "done"} /\ ahead \in Nat /\ beside \in BOOLEAN
    /\ received \in Seq(Event)

-----------------------------------------------------------------------------
(* Types. *)

LEMMA IdleType == Idle \in Push /\ NoFile \in [length : Nat, gate : Gate \cup {None}]
BY DEF Idle, Push, Step, NoFile

LEMMA NextGateType ==
    ASSUME NEW g \in Gate \cup {None}, NEW outcome
    PROVE  NextGate(g, outcome) \in Gate \cup {None}
<1>1. BackoffMin \in Nat /\ BackoffMax \in Nat
  BY PushAssumption
<1>2. CASE g \in Gate
  BY <1>1, <1>2 DEF NextGate, Gate, Smaller
<1>3. CASE g = None
  BY <1>1, <1>3 DEF NextGate, Gate, Smaller
<1> QED
  BY <1>2, <1>3

LEMMA LessType ==
    ASSUME NEW g \in Gate \cup {None}
    PROVE  Less(g) \in Gate \cup {None}
BY DEF Less, Gate, Bigger

(* What a pusher is when its push is over. *)
LEMMA EndType ==
    ASSUME TypeOK, NEW p \in Pusher, End(p)
    PROVE  push' \in [Pusher -> Push] /\ ahead' \in Nat
BY IdleType DEF TypeOK, End

LEMMA NoneIsNoQueue == None \notin Seq(Event)
<1>1. Seq(Event) \subseteq Seq(Nat)
  BY DEF Event
<1> QED
  BY <1>1, PushAssumption

LEMMA TypeInit == Init => TypeOK
<1> SUFFICES ASSUME Init PROVE TypeOK
  OBVIOUS
<1>1. <<>> \in Seq(Event) /\ <<>> \in Seq(Seq(Event))
  OBVIOUS
<1>2. deployment \in {"hooks", "stream"}
  BY PushAssumption DEF Init
<1>3. appending \in [Hook -> [to : {"none", "queue", "gone"} \cup Pusher, event : Nat]]
  BY DEF Init
<1>4. push \in [Pusher -> Push] /\ file \in [length : Nat, gate : Gate \cup {None}]
  BY IdleType DEF Init
<1>5. source \in [1..MaxEvents -> Pusher \cup {None}]
  BY DEF Init
<1> QED
  BY <1>1, <1>2, <1>3, <1>4, <1>5 DEF Init, TypeOK

LEMMA BatchesType == TypeOK => Batches \in Seq(Seq(Event)) /\ Len(Batches) \in Nat
<1> SUFFICES ASSUME TypeOK PROVE Batches \in Seq(Seq(Event))
  OBVIOUS
<1> QED
  BY DEF TypeOK, Batches

LEMMA HappenType ==
    ASSUME TypeOK, NEW p \in Pusher, Happen(p)
    PROVE  /\ happened' = happened + 1 /\ happened \in Nat /\ happened' \in Nat
           /\ happened + 1 \in Event /\ happened + 1 \in 1..MaxEvents
           /\ source' \in [1..MaxEvents -> Pusher \cup {None}]
           /\ source'[happened + 1] = p
           /\ \A e \in 1..happened : source'[e] = source[e]
<1>1. happened \in Nat /\ MaxEvents \in Nat /\ happened < MaxEvents
  BY PushAssumption DEF TypeOK, Happen
<1>2. source' = [source EXCEPT ![happened + 1] = p] /\ happened' = happened + 1
  BY DEF Happen
<1>3. source \in [1..MaxEvents -> Pusher \cup {None}]
  BY DEF TypeOK
<1> QED
  BY <1>1, <1>2, <1>3 DEF Event

(* A hook that defers has an event, and the file it has open is the queue or
   one that a pusher has renamed and not read yet. *)
HookOK ==
    \A h \in Hook :
        /\ appending[h].to = "none" <=> appending[h].event = 0
        /\ appending[h].to = "queue" => queue # None
        /\ appending[h].to \in Pusher => push[appending[h].to].at = "read"

LEMMA PushFields ==
    ASSUME NEW r \in Push
    PROVE  /\ \A at \in Step : [r EXCEPT !.at = at] \in Push
           /\ \A at \in Step, held \in Seq(Event) : [r EXCEPT !.at = at, !.held = held] \in Push
           /\ \A held \in Seq(Event) : [r EXCEPT !.held = held] \in Push
           /\ \A at \in Step, next \in Gate \cup {None} : [r EXCEPT !.at = at, !.next = next] \in Push
BY DEF Push

LEMMA PushPosted ==
    ASSUME NEW r \in Push, NEW outcome \in Outcome
    PROVE  [r EXCEPT !.at = "record", !.outcome = outcome, !.own = <<>>, !.held = <<>>] \in Push
<1>1. <<>> \in Seq(Event) /\ "record" \in Step
  BY DEF Step
<1> QED
  BY <1>1 DEF Push

LEMMA PushBegun ==
    ASSUME NEW own \in Seq(Event)
    PROVE  /\ [Idle EXCEPT !.at = "take", !.own = own] \in Push
           /\ [Idle EXCEPT !.at = "post", !.held = own] \in Push
<1>1. "take" \in Step /\ "post" \in Step
  BY DEF Step
<1> QED
  BY <1>1, IdleType DEF Push

LEMMA TypeNext == TypeOK /\ HookOK /\ [Next]_vars => TypeOK'
<1> SUFFICES ASSUME TypeOK, HookOK, [Next]_vars PROVE TypeOK'
  OBVIOUS
<1> USE DEF TypeOK
<1>1. ASSUME NEW h \in Hook, DeferOpen(h) PROVE TypeOK'
  <2>1. h \in Pusher
    BY DEF Pusher
  <2>2. happened' \in Nat /\ source' \in [1..MaxEvents -> Pusher \cup {None}]
    BY <1>1, <2>1, HappenType DEF DeferOpen
  <2> QED
    BY <1>1, <2>2 DEF DeferOpen, gateVars, batchVars
<1>2. ASSUME NEW h \in Hook, DeferWrite(h) PROVE TypeOK'
  <2> DEFINE e == appending[h].event
  <2>1. appending' \in [Hook -> [to : {"none", "queue", "gone"} \cup Pusher, event : Nat]]
    BY <1>2 DEF DeferWrite
  <2>2. e \in Event
    BY <1>2, PushAssumption DEF DeferWrite, HookOK, Event
  <2>3. CASE appending[h].to = "queue" /\ queue' = Append(queue, e) /\ UNCHANGED <<late, push>>
    <3>1. queue' \in Seq(Event)
      BY <2>2, <2>3 DEF HookOK
    <3> QED
      BY <1>2, <2>1, <2>3, <3>1 DEF DeferWrite, gateVars, batchVars
  <2>4. ASSUME NEW p \in Pusher, push' = [push EXCEPT ![p].held = Append(@, e)],
               UNCHANGED <<queue, late>>
        PROVE  TypeOK'
    <3>1. push[p] \in Push /\ push[p].held \in Seq(Event)
      BY DEF Push
    <3>3. [push[p] EXCEPT !.held = Append(@, e)] \in Push
      <4>1. Append(push[p].held, e) \in Seq(Event)
        BY <2>2, <3>1
      <4> HIDE DEF e
      <4> QED
        BY <3>1, <4>1, PushFields
    <3>2. push' \in [Pusher -> Push]
      BY <2>4, <3>3
    <3> QED
      BY <1>2, <2>1, <2>4, <3>2 DEF DeferWrite, gateVars, batchVars
  <2>5. CASE appending[h].to = "gone" /\ UNCHANGED <<queue, push>>
    BY <1>2, <2>1, <2>5 DEF DeferWrite, gateVars, batchVars
  <2> QED
    BY <1>2, <2>3, <2>4, <2>5 DEF DeferWrite
<1>3. ASSUME NEW h \in Hook, PushHook(h) PROVE TypeOK'
  <2>1. h \in Pusher
    BY DEF Pusher
  <2>2. happened + 1 \in Event /\ happened' \in Nat /\ source' \in [1..MaxEvents -> Pusher \cup {None}]
    BY <1>3, <2>1, HappenType DEF PushHook
  <2>3. [Idle EXCEPT !.at = "take", !.own = <<happened + 1>>] \in Push
    <3>1. <<happened + 1>> \in Seq(Event)
      BY <2>2
    <3> QED
      BY <3>1, PushBegun
  <2> QED
    BY <1>3, <2>2, <2>3 DEF PushHook, gateVars, batchVars, queueVars
<1>4. ASSUME NEW h \in Hook, Crash(h) PROVE TypeOK'
  BY <1>4, IdleType DEF Crash, batchVars
<1>5. ASSUME NEW p \in Pusher, PushStep(p) PROVE TypeOK'
  <2> USE DEF queueVars, gateVars, batchVars
  <2>0. push[p] \in Push /\ push[p].own \in Seq(Event) /\ push[p].held \in Seq(Event)
    BY DEF Push
  <2>1. CASE Take(p)
    <3>1. CASE queue = None
      <4>1. [push[p] EXCEPT !.at = "check", !.held = push[p].own] \in Push
        BY <2>0, PushFields DEF Step
      <4> QED
        BY <2>1, <3>1, <4>1 DEF Take
    <3>2. CASE queue # None
      <4>1. [push[p] EXCEPT !.at = "read", !.held = queue] \in Push
        <5>1. queue \in Seq(Event) /\ "read" \in Step
          BY <3>2 DEF Step
        <5> QED
          BY <2>0, <5>1, PushFields
      <4>2. appending' \in [Hook -> [to : {"none", "queue", "gone"} \cup Pusher, event : Nat]]
        <5>1. appending' = [g \in Hook |-> IF appending[g].to = "queue"
                                          THEN [appending[g] EXCEPT !.to = p] ELSE appending[g]]
          BY <2>1, <3>2 DEF Take
        <5> QED
          BY <5>1
      <4>3. push' = [push EXCEPT ![p] = [push[p] EXCEPT !.at = "read", !.held = queue]]
        BY <2>1, <3>2 DEF Take
      <4>4. push' \in [Pusher -> Push]
        BY <4>1, <4>3
      <4> QED
        BY <2>1, <3>2, <4>2, <4>4 DEF Take
    <3> QED
      BY <3>1, <3>2
  <2>2. CASE ReadTaken(p)
    <3>0. PICK s : /\ s = SubSeq(push[p].held, Bigger(Len(push[p].held) - MaxDeferred, 0) + 1, Len(push[p].held))
                   /\ push' = [push EXCEPT ![p].at = "check", ![p].held = s \o push[p].own]
      BY <2>2 DEF ReadTaken
    <3>1. s \in Seq(Event)
      <4>1. Len(push[p].held) \in Nat /\ Bigger(Len(push[p].held) - MaxDeferred, 0) \in Nat
        BY <2>0, PushAssumption DEF Bigger
      <4> QED
        BY <2>0, <3>0, <4>1, SubSeqProperties
    <3>2. [push[p] EXCEPT !.at = "check", !.held = s \o push[p].own] \in Push
      <4>1. s \o push[p].own \in Seq(Event) /\ "check" \in Step
        BY <2>0, <3>1 DEF Step
      <4> QED
        BY <2>0, <4>1, PushFields
    <3>3. push' \in [Pusher -> Push]
      BY <3>0, <3>2
    <3>4. appending' \in [Hook -> [to : {"none", "queue", "gone"} \cup Pusher, event : Nat]]
      BY <2>2 DEF ReadTaken
    <3> QED
      BY <2>2, <3>3, <3>4 DEF ReadTaken
  <2>3. CASE CheckGate(p)
    <3>1. [push[p] EXCEPT !.at = "post"] \in Push
      BY <2>0, PushFields DEF Step
    <3>2. CASE GateOpen(file.gate)
      BY <2>3, <3>1, <3>2 DEF CheckGate
    <3>3. CASE ~GateOpen(file.gate)
      BY <2>3, <3>3, EndType DEF CheckGate, End
    <3> QED
      BY <3>2, <3>3
  <2>4. CASE Post(p)
    <3>1. PICK outcome \in Outcome :
             /\ push' = [push EXCEPT ![p].at = "record", ![p].outcome = outcome, ![p].own = <<>>,
                                     ![p].held = <<>>]
             /\ received' \in {received, received \o push[p].held}
      BY <2>4 DEF Post
    <3>2. [push[p] EXCEPT !.at = "record", !.outcome = outcome, !.own = <<>>, !.held = <<>>] \in Push
      BY <2>0, PushPosted
    <3>4. received' \in Seq(Event)
      <4>1. received \in Seq(Event) /\ received \o push[p].held \in Seq(Event)
        BY <2>0
      <4> QED
        BY <3>1, <4>1
    <3>3. push' \in [Pusher -> Push] /\ received' \in Seq(Event)
      BY <3>1, <3>2, <3>4
    <3> QED
      BY <2>4, <3>3 DEF Post
  <2>5. CASE Record(p)
    <3>1. NextGate(file.gate, push[p].outcome) \in Gate \cup {None}
      BY NextGateType
    <3>2. \A next \in Gate \cup {None} : [push[p] EXCEPT !.at = "truncate", !.next = next] \in Push
      BY <2>0, PushFields DEF Step
    <3>3. [push[p] EXCEPT !.at = "unlink"] \in Push
      BY <2>0, PushFields DEF Step
    <3>4. CASE End(p)
      BY <2>5, <3>4, EndType DEF Record, End
    <3>5. CASE UNCHANGED batchVars
      <4>1. push' \in [Pusher -> Push]
        BY <2>5, <3>1, <3>2, <3>3, EndType DEF Record
      <4> QED
        BY <2>5, <3>5, <4>1 DEF Record
    <3> QED
      BY <2>5, <3>4, <3>5 DEF Record
  <2>6. CASE Unlink(p)
    BY <2>6, EndType, IdleType DEF Unlink, End
  <2>7. CASE Truncate(p)
    BY <2>7, IdleType DEF Truncate, Push, Step
  <2>8. CASE Fill(p)
    BY <2>8, EndType DEF Fill, End, Push, Length
  <2> QED
    BY <1>5, <2>1, <2>2, <2>3, <2>4, <2>5, <2>6, <2>7, <2>8 DEF PushStep
<1>6. CASE Clear
  BY <1>6, IdleType DEF Clear, queueVars, batchVars
<1>7. CASE Enqueue
  <2>1. Proxy \in Pusher
    BY DEF Pusher
  <2>2. happened + 1 \in Event /\ happened' \in Nat /\ source' \in [1..MaxEvents -> Pusher \cup {None}]
    BY <1>7, <2>1, HappenType DEF Enqueue
  <2>3. Append(pending, happened + 1) \in Seq(Event)
    BY <2>2
  <2>4. pending' \in Seq(Event) /\ chain' \in Seq(Seq(Event))
    <3>1. <<>> \in Seq(Event) /\ Append(chain, Append(pending, happened + 1)) \in Seq(Seq(Event))
      BY <2>3
    <3> QED
      BY <1>7, <2>3, <3>1 DEF Enqueue
  <2> QED
    BY <1>7, <2>2, <2>4 DEF Enqueue, gateVars, queueVars
<1>8. CASE DrainTimer
  BY <1>8, BatchesType DEF DrainTimer, gateVars, queueVars
<1>9. CASE NextBatch
  <2>1. [Idle EXCEPT !.at = "take", !.own = Head(chain)] \in Push /\ Tail(chain) \in Seq(Seq(Event))
    <3>1. Head(chain) \in Seq(Event) /\ Tail(chain) \in Seq(Seq(Event))
      BY <1>9 DEF NextBatch
    <3> QED
      BY <3>1, PushBegun
  <2> QED
    BY <1>9, <2>1 DEF NextBatch, gateVars, queueVars
<1>10. CASE Close
  BY <1>10, BatchesType DEF Close, gateVars, queueVars
<1>11. CASE Closed
  BY <1>11 DEF Closed, gateVars, queueVars
<1>12. CASE PushStream
  <2>1. Stream \in Pusher
    BY DEF Pusher
  <2>2. happened + 1 \in Event /\ happened' \in Nat /\ source' \in [1..MaxEvents -> Pusher \cup {None}]
    BY <1>12, <2>1, HappenType DEF PushStream
  <2> QED
    BY <1>12, <2>2 DEF PushStream, gateVars, queueVars
<1>13. ASSUME Flush PROVE pending' \in Seq(Event) /\ push' \in [Pusher -> Push]
  <2>1. [Idle EXCEPT !.at = "post", !.held = pending] \in Push
    BY PushBegun
  <2>2. push' = push \/ push' = [push EXCEPT ![Stream] = [Idle EXCEPT !.at = "post", !.held = pending]]
    BY <1>13 DEF Flush
  <2>3. pending' = pending \/ pending' = <<>>
    BY <1>13 DEF Flush
  <2>4. push' \in [Pusher -> Push]
    BY <2>1, <2>2
  <2>5. <<>> \in Seq(Event)
    OBVIOUS
  <2> QED
    BY <2>3, <2>4, <2>5
<1>14. CASE FlushTimer
  BY <1>13, <1>14 DEF FlushTimer, gateVars, queueVars
<1>15. CASE RecordStream
  <2>1. memory' \in Gate \cup {None} /\ push' \in [Pusher -> Push]
    BY <1>15, NextGateType, IdleType DEF RecordStream
  <2> QED
    BY <1>15, <2>1 DEF RecordStream, queueVars
<1>16. CASE Stop
  BY <1>13, <1>16 DEF Stop, gateVars, queueVars
<1>17. CASE Stopped
  BY <1>17 DEF Stopped, gateVars, queueVars
<1>18. CASE Tick
  <2>1. push' \in [Pusher -> Push]
    <3>1. ASSUME NEW p \in Pusher PROVE [push[p] EXCEPT !.next = Less(@)] \in Push
      BY LessType DEF Push
    <3> QED
      BY <1>18, <3>1 DEF Tick
  <2>2. file' \in [length : Nat, gate : Gate \cup {None}] /\ memory' \in Gate \cup {None}
    BY <1>18, LessType DEF Tick
  <2> QED
    BY <1>18, <2>1, <2>2 DEF Tick, batchVars, queueVars
<1>19. CASE UNCHANGED vars
  BY <1>19 DEF vars, queueVars, gateVars, batchVars
<1>20. ASSUME NEW e \in encrypting, Buffer(e) PROVE TypeOK'
  <2>1. Append(pending, e) \in Seq(Event)
    OBVIOUS
  <2> QED
    BY <1>20, <2>1 DEF Buffer, gateVars, queueVars
<1>21. ASSUME NEW e \in encrypting, Withhold(e) PROVE TypeOK'
  BY <1>21 DEF Withhold, gateVars, queueVars
<1> QED
  BY <1>1, <1>2, <1>3, <1>4, <1>5, <1>6, <1>7, <1>8, <1>9, <1>10, <1>11, <1>12, <1>14, <1>15, <1>16,
     <1>17, <1>18, <1>19, <1>20, <1>21 DEF Next

LEMMA HookNext == TypeOK /\ HookOK /\ [Next]_vars => HookOK'
<1> SUFFICES ASSUME TypeOK, HookOK, [Next]_vars PROVE HookOK'
  OBVIOUS
<1> USE PushAssumption DEF HookOK
<1>0. /\ push \in [Pusher -> Push] /\ happened \in Nat
      /\ appending \in [Hook -> [to : {"none", "queue", "gone"} \cup Pusher, event : Nat]]
  BY DEF TypeOK
<1>1. ASSUME NEW h \in Hook, DeferOpen(h) PROVE HookOK'
  <2>1. happened + 1 # 0
    BY <1>0
  <2>2. \A g \in Hook : appending'[g] = IF g = h THEN [to |-> "queue", event |-> happened + 1] ELSE appending[g]
    BY <1>0, <1>1 DEF DeferOpen
  <2>3. queue' # None /\ push' = push
    <3>1. <<>> # None
      <4>1. <<>> \in Seq(Event)
        OBVIOUS
      <4> QED
        BY <4>1, NoneIsNoQueue
    <3> QED
      BY <1>1, <3>1 DEF DeferOpen
  <2>4. "queue" \notin Pusher
    BY PushAssumption
  <2> QED
    BY <1>0, <2>1, <2>2, <2>3, <2>4
<1>2. ASSUME NEW h \in Hook, DeferWrite(h) PROVE HookOK'
  <2>1. \A g \in Hook : appending'[g] = IF g = h THEN [to |-> "none", event |-> 0] ELSE appending[g]
    BY <1>0, <1>2 DEF DeferWrite
  <2>2. \A p \in Pusher : push'[p].at = push[p].at
    <3>1. CASE push' = push
      BY <3>1
    <3>2. ASSUME NEW q \in Pusher, push' = [push EXCEPT ![q].held = Append(@, appending[h].event)]
          PROVE  \A p \in Pusher : push'[p].at = push[p].at
      <4>1. push'[q] = [push[q] EXCEPT !.held = Append(@, appending[h].event)]
        BY <1>0, <3>2
      <4>2. push'[q].at = push[q].at
        BY <1>0, <4>1 DEF Push
      <4> QED
        BY <1>0, <3>2, <4>2
    <3> QED
      BY <1>2, <3>1, <3>2 DEF DeferWrite
  <2>3. queue = None => queue' = queue
    BY <1>2 DEF DeferWrite
  <2>4. CASE queue' = queue
    BY <1>0, <2>1, <2>2, <2>4
  <2>5. CASE queue # None /\ queue' = Append(queue, appending[h].event)
    <3>1. queue' # None
      <4>1. queue \in Seq(Event) /\ appending[h].event \in Nat
        BY <1>0, <2>5 DEF TypeOK
      <4>2. queue' \in Seq(Nat)
        BY <2>5, <4>1 DEF Event
      <4> QED
        BY <4>2
    <3> QED
      BY <1>0, <2>1, <2>2, <2>5, <3>1
  <2> QED
    BY <1>2, <2>3, <2>4, <2>5 DEF DeferWrite
<1>3. ASSUME NEW h \in Hook, PushHook(h) PROVE HookOK'
  BY <1>0, <1>3 DEF PushHook, Pusher, queueVars, Idle
<1>4. ASSUME NEW h \in Hook, Crash(h) PROVE HookOK'
  <2>1. \A g \in Hook : /\ appending'[g].event = appending[g].event
                        /\ appending'[g].to = IF appending[g].to = h THEN "gone" ELSE appending[g].to
    BY <1>0, <1>4 DEF Crash
  <2>2. \A p \in Pusher : p # h => push'[p] = push[p]
    BY <1>0, <1>4 DEF Crash
  <2>3. queue' = queue /\ h \in Pusher
    BY <1>4 DEF Crash, Pusher
  <2> QED
    BY <1>0, <2>1, <2>2, <2>3
<1>5. ASSUME NEW p \in Pusher, PushStep(p) PROVE HookOK'
  <2>1. CASE Take(p)
    <3>1. \A q \in Pusher : q # p => push'[q] = push[q]
      BY <1>0, <2>1 DEF Take
    <3>2. \A h \in Hook : appending[h].to # p
      BY <1>0, <2>1 DEF Take
    <3>3. CASE queue = None
      BY <1>0, <2>1, <3>1, <3>2, <3>3 DEF Take
    <3>4. CASE queue # None
      <4>1. \A g \in Hook : /\ appending'[g].event = appending[g].event
                            /\ appending'[g].to = IF appending[g].to = "queue" THEN p ELSE appending[g].to
        BY <1>0, <2>1, <3>4 DEF Take
      <4>2. push'[p].at = "read"
        BY <1>0, <2>1, <3>4 DEF Take, Push
      <4> QED
        BY <1>0, <3>1, <4>1, <4>2
    <3> QED
      BY <3>3, <3>4
  <2>2. CASE ReadTaken(p)
    <3>1. \A q \in Pusher : q # p => push'[q] = push[q]
      BY <1>0, <2>2 DEF ReadTaken
    <3>2. \A g \in Hook : /\ appending'[g].event = appending[g].event
                          /\ appending'[g].to = IF appending[g].to = p THEN "gone" ELSE appending[g].to
      BY <1>0, <2>2 DEF ReadTaken
    <3>3. queue' = queue
      BY <2>2 DEF ReadTaken
    <3> QED
      BY <1>0, <3>1, <3>2, <3>3
  <2>3. ASSUME UNCHANGED <<queue, appending>>, push[p].at # "read",
               \A q \in Pusher : q # p => push'[q] = push[q]
        PROVE  HookOK'
    BY <1>0, <2>3
  <2>4. CASE CheckGate(p)
    BY <1>0, <2>3, <2>4 DEF CheckGate, End, queueVars
  <2>5. CASE Post(p)
    BY <1>0, <2>3, <2>5 DEF Post, queueVars
  <2>6. CASE Record(p)
    BY <1>0, <2>3, <2>6 DEF Record, End, queueVars
  <2>7. CASE Unlink(p)
    BY <1>0, <2>3, <2>7 DEF Unlink, End, queueVars
  <2>8. CASE Truncate(p)
    BY <1>0, <2>3, <2>8 DEF Truncate, queueVars
  <2>9. CASE Fill(p)
    BY <1>0, <2>3, <2>9 DEF Fill, End, queueVars
  <2> QED
    BY <1>5, <2>1, <2>2, <2>4, <2>5, <2>6, <2>7, <2>8, <2>9 DEF PushStep
<1>6. ASSUME UNCHANGED <<queue, appending>>,
             \A q \in Pusher : push[q].at = "read" => push'[q].at = "read"
      PROVE  HookOK'
  BY <1>0, <1>6
<1>7. CASE \/ Clear \/ Enqueue \/ DrainTimer \/ Close \/ Closed \/ PushStream \/ Stopped
           \/ \E e \in encrypting : Buffer(e) \/ Withhold(e)
           \/ UNCHANGED vars
  BY <1>6, <1>7 DEF Clear, Enqueue, DrainTimer, Close, Closed, PushStream, Buffer, Withhold, Stopped, vars, queueVars
<1>8. CASE NextBatch
  BY <1>0, <1>6, <1>8 DEF NextBatch, queueVars
<1>9. CASE FlushTimer \/ Stop
  <2>1. \A q \in Pusher : push[q].at = "read" => push'[q] = push[q]
    BY <1>0, <1>9 DEF FlushTimer, Stop, Flush
  <2> QED
    BY <1>6, <1>9, <2>1 DEF FlushTimer, Stop, queueVars
<1>10. CASE RecordStream
  BY <1>0, <1>6, <1>10 DEF RecordStream, queueVars
<1>11. CASE Tick
  <2>1. \A q \in Pusher : push'[q].at = push[q].at
    BY <1>0, <1>11 DEF Tick, Push
  <2> QED
    BY <1>6, <1>11, <2>1 DEF Tick, queueVars
<1> QED
  BY <1>1, <1>2, <1>3, <1>4, <1>5, <1>7, <1>8, <1>9, <1>10, <1>11 DEF Next
TypeInv == TypeOK /\ HookOK

LEMMA TypeInvNext == TypeInv /\ [Next]_vars => TypeInv'
BY TypeNext, HookNext DEF TypeInv

LEMMA TypeInvInit == Init => TypeInv
<1>1. Init => HookOK
  BY PushAssumption DEF Init, HookOK
<1> QED
  BY <1>1, TypeInit DEF TypeInv

(* The variables keep their types, and a hook that defers writes to a file
   that there is. *)
THEOREM TypeCorrect == Spec => []TypeInv
<1> QED
  BY TypeInvInit, TypeInvNext, PTL DEF Spec

-----------------------------------------------------------------------------
(* Where events are. *)

Kind == {"hook", "push", "queue", "encrypting", "pending", "chain", "received", "dropped", "late"}

Spot == Pusher \cup {None}

Carried(p) == ToSet(push[p].own) \cup ToSet(push[p].held)

Deferred == IF queue = None THEN {} ELSE ToSet(queue)

Chained == UNION {ToSet(chain[i]) : i \in DOMAIN chain}

(* Event e is at the spot x of its kind; only hooks and pushers have several. *)
At(k, x, e) ==
    \/ k = "hook" /\ x \in Hook /\ appending[x].event = e
    \/ k = "push" /\ x \in Pusher /\ e \in Carried(x)
    \/ k = "queue" /\ x = None /\ e \in Deferred
    \/ k = "encrypting" /\ x = None /\ e \in encrypting
    \/ k = "pending" /\ x = None /\ e \in ToSet(pending)
    \/ k = "chain" /\ x = None /\ e \in Chained
    \/ k = "received" /\ x = None /\ e \in ToSet(received)
    \/ k = "dropped" /\ x = None /\ e \in dropped
    \/ k = "late" /\ x = None /\ e \in late

Placed(e) == \E k \in Kind, x \in Spot : At(k, x, e)

Alone(e) == \A k, l \in Kind, x, y \in Spot : At(k, x, e) /\ At(l, y, e) => k = l /\ x = y

Places ==
    /\ \A e \in 1..happened : Placed(e) /\ Alone(e)
    /\ \A k \in Kind, x \in Spot, e \in Event : At(k, x, e) => e \in 1..happened

(* No event is twice in one place. *)
Single(s) == \A i, j \in DOMAIN s : s[i] = s[j] => i = j

(* What a push carries, by how far it is. *)
CarriedOK ==
    \A p \in Pusher :
        /\ Single(push[p].own) /\ Single(push[p].held)
        /\ push[p].at = "take" => push[p].held = <<>>
        /\ push[p].at = "read" => ToSet(push[p].own) \cap ToSet(push[p].held) = {}
        /\ push[p].at \in {"check", "post"} => ToSet(push[p].own) \subseteq ToSet(push[p].held)
        /\ push[p].at \notin {"take", "read", "check", "post"} =>
             push[p].own = <<>> /\ push[p].held = <<>>

OnceInPlace ==
    /\ queue # None => Single(queue)
    /\ Single(pending) /\ Single(received)
    /\ \A i \in DOMAIN chain : Single(chain[i])
    /\ \A i, j \in DOMAIN chain : i # j => ToSet(chain[i]) \cap ToSet(chain[j]) = {}

PlacesInv == Places /\ CarriedOK /\ OnceInPlace

-----------------------------------------------------------------------------
(* Sets of sequences, and sequences without repeats. *)

LEMMA SetNone == ToSet(<<>>) = {} /\ Single(<<>>)
BY DEF ToSet, Single

LEMMA SetOne == ASSUME NEW e PROVE ToSet(<<e>>) = {e} /\ Single(<<e>>)
BY DEF ToSet, Single

LEMMA SetAppend ==
    ASSUME NEW T, NEW s \in Seq(T), NEW e
    PROVE  /\ ToSet(Append(s, e)) = ToSet(s) \cup {e}
           /\ Single(s) /\ e \notin ToSet(s) => Single(Append(s, e))
<1>1. /\ DOMAIN s = 1..Len(s) /\ Len(s) \in Nat
      /\ DOMAIN Append(s, e) = 1..Len(s) + 1
      /\ \A i \in 1..Len(s) : Append(s, e)[i] = s[i]
      /\ Append(s, e)[Len(s) + 1] = e
  OBVIOUS
<1>2. ToSet(Append(s, e)) = ToSet(s) \cup {e}
  <2>1. \A i \in 1..Len(s) + 1 : i \in 1..Len(s) \/ i = Len(s) + 1
    BY <1>1
  <2>2. \A i \in 1..Len(s) : i \in 1..Len(s) + 1
    BY <1>1
  <2>3. Len(s) + 1 \in 1..Len(s) + 1
    BY <1>1
  <2> QED
    BY <1>1, <2>1, <2>2, <2>3 DEF ToSet
<1>3. ASSUME Single(s), e \notin ToSet(s) PROVE Single(Append(s, e))
  BY <1>1, <1>3 DEF Single, ToSet
<1> QED
  BY <1>2, <1>3

LEMMA SetConcat ==
    ASSUME NEW T, NEW s \in Seq(T), NEW t \in Seq(T)
    PROVE  /\ ToSet(s \o t) = ToSet(s) \cup ToSet(t)
           /\ Single(s) /\ Single(t) /\ ToSet(s) \cap ToSet(t) = {} => Single(s \o t)
<1>1. /\ DOMAIN s = 1..Len(s) /\ Len(s) \in Nat /\ DOMAIN t = 1..Len(t) /\ Len(t) \in Nat
      /\ DOMAIN (s \o t) = 1..Len(s) + Len(t)
      /\ \A i \in 1..Len(s) : (s \o t)[i] = s[i]
      /\ \A i \in Len(s) + 1 .. Len(s) + Len(t) : (s \o t)[i] = t[i - Len(s)] /\ i - Len(s) \in 1..Len(t)
      /\ \A i \in 1..Len(t) : (s \o t)[Len(s) + i] = t[i] /\ Len(s) + i \in 1..Len(s) + Len(t)
  OBVIOUS
<1>2. \A i \in 1..Len(s) + Len(t) : i \in 1..Len(s) \/ i \in Len(s) + 1 .. Len(s) + Len(t)
  BY <1>1
<1>3. ToSet(s \o t) = ToSet(s) \cup ToSet(t)
  <2>1. \A i \in 1..Len(s) : i \in 1..Len(s) + Len(t)
    BY <1>1
  <2>2. \A i \in 1..Len(s) + Len(t) : (s \o t)[i] \in ToSet(s) \cup ToSet(t)
    BY <1>1, <1>2 DEF ToSet
  <2>3. \A i \in 1..Len(s) : s[i] \in ToSet(s \o t)
    BY <1>1, <2>1 DEF ToSet
  <2>4. \A i \in 1..Len(t) : t[i] \in ToSet(s \o t)
    BY <1>1 DEF ToSet
  <2> QED
    BY <1>1, <2>2, <2>3, <2>4 DEF ToSet
<1>4. ASSUME Single(s), Single(t), ToSet(s) \cap ToSet(t) = {} PROVE Single(s \o t)
  <2>1. \A i \in 1..Len(s), j \in 1..Len(t) : s[i] # t[j]
    BY <1>1, <1>4 DEF ToSet
  <2>2. SUFFICES ASSUME NEW i \in 1..Len(s) + Len(t), NEW j \in 1..Len(s) + Len(t),
                        (s \o t)[i] = (s \o t)[j]
                 PROVE  i = j
    BY <1>1 DEF Single
  <2>3. CASE i \in 1..Len(s) /\ j \in 1..Len(s)
    BY <1>1, <1>4, <2>2, <2>3 DEF Single
  <2>4. CASE i \in Len(s) + 1 .. Len(s) + Len(t) /\ j \in Len(s) + 1 .. Len(s) + Len(t)
    <3>1. i - Len(s) = j - Len(s)
      BY <1>1, <1>4, <2>2, <2>4 DEF Single
    <3> QED
      BY <1>1, <3>1
  <2> QED
    BY <1>1, <1>2, <2>1, <2>2, <2>3, <2>4
<1> QED
  BY <1>3, <1>4

(* The last events of a sequence, from the one after the first k. *)
LEMMA SetRest ==
    ASSUME NEW T, NEW s \in Seq(T), NEW k \in 0..Len(s)
    PROVE  LET rest == SubSeq(s, k + 1, Len(s))
           IN  /\ rest \in Seq(T)
               /\ Len(rest) = Len(s) - k
               /\ \A i \in 1..Len(rest) : rest[i] = s[k + i]
               /\ ToSet(s) = ToSet(rest) \cup {s[i] : i \in 1..k}
               /\ Single(s) => Single(rest) /\ ToSet(rest) \cap {s[i] : i \in 1..k} = {}
<1> DEFINE rest == SubSeq(s, k + 1, Len(s))
<1>1. Len(s) \in Nat /\ k \in Nat /\ DOMAIN s = 1..Len(s)
  OBVIOUS
<1>2. rest \in Seq(T) /\ Len(rest) = Len(s) - k /\ \A i \in 1..Len(rest) : rest[i] = s[k + i]
  <2>1. k + 1 \in Int /\ Len(s) \in Int /\ \A i \in k + 1 .. Len(s) : s[i] \in T
    BY <1>1
  <2>2. rest \in Seq(T)
    BY <1>1, <2>1, SubSeqProperties
  <2>3. Len(rest) = Len(s) - k
    <3>1. Len(rest) = IF k + 1 <= Len(s) THEN Len(s) - (k + 1) + 1 ELSE 0
      BY <2>1, SubSeqProperties
    <3>2. Len(s) \in Nat /\ k \in Nat /\ k <= Len(s)
      OBVIOUS
    <3> HIDE DEF rest
    <3> QED
      BY <3>1, <3>2
  <2>4. ASSUME NEW i \in 1..Len(s) - k PROVE rest[i] = s[k + i]
    <3>1. rest[i] = s[k + 1 + i - 1]
      BY <1>1, <2>1, SubSeqProperties
    <3> QED
      BY <1>1, <3>1
  <2> QED
    BY <2>2, <2>3, <2>4
<1> HIDE DEF rest
<1>3. DOMAIN rest = 1..Len(s) - k
  BY <1>2
<1>4. \A i \in 1..Len(s) : i \in 1..k \/ (i - k \in 1..Len(s) - k /\ i = k + (i - k))
  BY <1>1
<1>5. \A i \in 1..Len(s) - k : k + i \in 1..Len(s) /\ k + i \notin 1..k
  BY <1>1
<1>6. 1..k \subseteq 1..Len(s)
  BY <1>1
<1>7. ToSet(s) = ToSet(rest) \cup {s[i] : i \in 1..k}
  <2>1. \A i \in 1..Len(s) : s[i] \in ToSet(rest) \cup {s[j] : j \in 1..k}
    <3>1. \A i \in 1..Len(s) - k : s[k + i] \in ToSet(rest)
      BY <1>2, <1>3 DEF ToSet
    <3>2. \A i \in 1..k : s[i] \in {s[j] : j \in 1..k}
      OBVIOUS
    <3> QED
      BY <1>4, <3>1, <3>2
  <2>2. \A i \in 1..Len(s) - k : rest[i] \in ToSet(s)
    BY <1>1, <1>2, <1>3, <1>5 DEF ToSet
  <2>3. \A i \in 1..k : s[i] \in ToSet(s)
    BY <1>1, <1>6 DEF ToSet
  <2> QED
    BY <1>1, <1>3, <2>1, <2>2, <2>3 DEF ToSet
<1>8. ASSUME Single(s) PROVE Single(rest) /\ ToSet(rest) \cap {s[i] : i \in 1..k} = {}
  <2>1. Single(rest)
    <3>1. SUFFICES ASSUME NEW i \in 1..Len(s) - k, NEW j \in 1..Len(s) - k, rest[i] = rest[j]
                   PROVE  i = j
      BY <1>3 DEF Single
    <3>2. k + i = k + j
      BY <1>1, <1>2, <1>5, <1>8, <3>1 DEF Single
    <3> QED
      BY <1>1, <3>2
  <2>2. \A i \in 1..Len(s) - k, j \in 1..k : rest[i] # s[j]
    BY <1>1, <1>2, <1>5, <1>6, <1>8 DEF Single
  <2> QED
    BY <1>3, <2>1, <2>2 DEF ToSet
<1> QED
  BY <1>2, <1>7, <1>8 DEF rest

-----------------------------------------------------------------------------
(* Events move from one place to another. *)

(* The events of S, which are at (k1, x1) or new, are now at (k0, x0). *)
Moves(S, k1, x1, k0, x0) ==
    /\ k0 \in Kind /\ x0 \in Spot
    /\ \A e \in S : e \in Event
    /\ \A e \in S : e \in 1..happened => k1 \in Kind /\ x1 \in Spot /\ At(k1, x1, e)
    /\ happened' >= happened
    /\ \A e \in Event : e \in 1..happened' <=> e \in 1..happened \/ e \in S
    /\ \A k \in Kind, x \in Spot, e \in Event :
          At(k, x, e)' <=> \/ At(k, x, e) /\ ~(e \in S /\ k = k1 /\ x = x1)
                           \/ e \in S /\ k = k0 /\ x = x0

LEMMA PlacesMoved ==
    ASSUME NEW S, NEW k1, NEW x1, NEW k0, NEW x0, happened \in Nat, happened' \in Nat,
           Places, Moves(S, k1, x1, k0, x0)
    PROVE  Places'
<1>1. ASSUME NEW k \in Kind, NEW x \in Spot, NEW e \in Event, At(k, x, e)' PROVE e \in 1..happened'
  <2>1. CASE e \in S
    BY <2>1 DEF Moves
  <2>2. CASE At(k, x, e)
    BY <2>2 DEF Moves, Places
  <2> QED
    BY <1>1, <2>1, <2>2 DEF Moves
<1>2. ASSUME NEW e \in 1..happened' PROVE Placed(e)' /\ Alone(e)'
  <2>0. e \in Event
    BY DEF Event
  <2>1. CASE e \in S
    <3>1. At(k0, x0, e)' /\ k0 \in Kind /\ x0 \in Spot
      BY <2>0, <2>1 DEF Moves
    <3>2. ASSUME NEW k \in Kind, NEW x \in Spot, At(k, x, e)' PROVE k = k0 /\ x = x0
      <4>1. CASE At(k, x, e) /\ ~(k = k1 /\ x = x1)
        <5>1. e \in 1..happened
          BY <2>0, <4>1 DEF Places
        <5>2. k1 \in Kind /\ x1 \in Spot /\ At(k1, x1, e)
          BY <2>1, <5>1 DEF Moves
        <5>3. k = k1 /\ x = x1
          BY <4>1, <5>1, <5>2 DEF Places, Alone
        <5> QED
          BY <4>1, <5>3
      <4> QED
        BY <2>0, <2>1, <3>2, <4>1 DEF Moves
    <3>3. Placed(e)'
      BY <3>1 DEF Placed, Spot, Kind
    <3>4. Alone(e)'
      BY <3>2 DEF Alone, Spot, Kind
    <3> QED
      BY <3>3, <3>4
  <2>2. CASE e \notin S
    <3>1. \A k \in Kind, x \in Spot : At(k, x, e)' <=> At(k, x, e)
      BY <2>0, <2>2 DEF Moves
    <3>2. Placed(e) /\ Alone(e)
      BY <2>0, <2>2 DEF Moves, Places
    <3>3. Placed(e)'
      BY <3>1, <3>2 DEF Placed, Spot, Kind
    <3>4. Alone(e)'
      BY <3>1, <3>2 DEF Alone, Spot, Kind
    <3> QED
      BY <3>3, <3>4
  <2> QED
    BY <2>1, <2>2
<1> QED
  BY <1>1, <1>2 DEF Places, Spot, Kind, Event

(* An event is in no two places. *)
LEMMA Apart ==
    ASSUME Places, NEW e \in Event, NEW k \in Kind, NEW l \in Kind, NEW x \in Spot, NEW y \in Spot,
           At(k, x, e), At(l, y, e)
    PROVE  k = l /\ x = y
BY DEF Places, Alone

(* Nothing moves. *)
LEMMA PlacesStay ==
    ASSUME PlacesInv, UNCHANGED <<happened, queue, encrypting, pending, chain, received, dropped, late>>,
           \A h \in Hook : appending'[h].event = appending[h].event,
           \A p \in Pusher : push'[p].own = push[p].own /\ push'[p].held = push[p].held,
           CarriedOK'
    PROVE  PlacesInv'
<1>1. \A p \in Pusher : Carried(p)' = Carried(p)
  BY DEF Carried
<1>2. Deferred' = Deferred /\ Chained' = Chained
  BY DEF Deferred, Chained
<1>3. \A k, x, e : At(k, x, e)' <=> At(k, x, e)
  BY <1>1, <1>2 DEF At
<1>4. Places'
  BY <1>3 DEF PlacesInv, Places, Placed, Alone, Spot, Kind, Event
<1>5. OnceInPlace'
  BY DEF PlacesInv, OnceInPlace
<1> QED
  BY <1>4, <1>5 DEF PlacesInv

LEMMA PlacesInit == Init => PlacesInv
<1> SUFFICES ASSUME Init PROVE PlacesInv
  OBVIOUS
<1>1. \A p \in Pusher : push[p].own = <<>> /\ push[p].held = <<>> /\ push[p].at = "idle"
  BY DEF Init, Idle
<1>2. \A p \in Pusher : Carried(p) = {}
  BY <1>1, SetNone DEF Carried
<1>3. Deferred = {} /\ Chained = {} /\ ToSet(pending) = {} /\ ToSet(received) = {}
  BY SetNone DEF Init, Deferred, Chained
<1>4. \A h \in Hook : appending[h].event = 0
  BY DEF Init
<1>5. \A k, x : \A e \in Event : ~At(k, x, e)
  BY <1>2, <1>3, <1>4 DEF At, Init, Event
<1>6. Places
  BY <1>5 DEF Places, Init
<1>7. CarriedOK
  BY <1>1, SetNone DEF CarriedOK
<1>8. OnceInPlace
  BY SetNone DEF OnceInPlace, Init
<1> QED
  BY <1>6, <1>7, <1>8 DEF PlacesInv

LEMMA PlacesDeferOpen ==
    ASSUME TypeInv, PlacesInv, NEW h \in Hook, DeferOpen(h)
    PROVE  PlacesInv'
<1> DEFINE new == happened + 1
<1>1. happened \in Nat /\ happened' = new /\ new \in Event
  BY DEF DeferOpen, Happen, TypeInv, TypeOK, Event
<1>2. /\ appending'[h].event = new /\ appending[h].event = 0
      /\ \A g \in Hook \ {h} : appending'[g] = appending[g]
  BY DEF DeferOpen, TypeInv, TypeOK, HookOK
<1>3. Deferred' = Deferred
  BY SetNone DEF DeferOpen, Deferred
<1>4. /\ \A p \in Pusher : Carried(p)' = Carried(p)
      /\ Chained' = Chained /\ pending' = pending /\ encrypting' = encrypting /\ received' = received
      /\ dropped' = dropped /\ late' = late
  BY DEF DeferOpen, Carried, Chained, batchVars
<1>5. Moves({new}, "hook", h, "hook", h)
  <2>1. "hook" \in Kind /\ h \in Spot
    BY DEF Kind, Spot, Pusher
  <2>2. \A e \in Event : e \in 1..happened' <=> e \in 1..happened \/ e = new
    BY <1>1 DEF Event
  <2>3. ~(new \in 1..happened) /\ happened' >= happened
    BY <1>1
  <2> HIDE DEF new
  <2>4. \A k \in Kind, x \in Spot, e \in Event :
          At(k, x, e)' <=> At(k, x, e) \/ (e = new /\ k = "hook" /\ x = h)
    BY <1>1, <1>2, <1>3, <1>4 DEF At, Event
  <2>5. ~At("hook", h, new)
    BY <1>1, <1>2 DEF At, Event
  <2> QED
    BY <1>1, <2>1, <2>2, <2>3, <2>4, <2>5 DEF Moves
<1>6. Places'
  BY <1>1, <1>5, PlacesMoved DEF PlacesInv
<1>7. CarriedOK'
  BY DEF PlacesInv, CarriedOK, DeferOpen
<1>8. OnceInPlace'
  BY SetNone DEF PlacesInv, OnceInPlace, DeferOpen, batchVars
<1> QED
  BY <1>6, <1>7, <1>8 DEF PlacesInv

LEMMA PlacesDeferWrite ==
    ASSUME TypeInv, PlacesInv, NEW h \in Hook, DeferWrite(h)
    PROVE  PlacesInv'
<1> PICK e : e = appending[h].event
  OBVIOUS
<1>1. e \in Event /\ happened \in Nat /\ happened' = happened /\ received' = received /\ dropped' = dropped
  BY PushAssumption DEF DeferWrite, TypeInv, TypeOK, HookOK, Event
<1>2. /\ appending'[h].event = 0
      /\ \A g \in Hook \ {h} : appending'[g] = appending[g]
  BY DEF DeferWrite, TypeInv, TypeOK
<1>3. Chained' = Chained /\ pending' = pending /\ encrypting' = encrypting /\ chain' = chain
  BY DEF DeferWrite, batchVars, Chained
<1>4. "hook" \in Kind /\ h \in Spot /\ At("hook", h, e)
  BY DEF Kind, Spot, Pusher, At
<1>5. e \in 1..happened
  BY <1>1, <1>4 DEF PlacesInv, Places
<1>6. ASSUME NEW k0 \in Kind, NEW x0 \in Spot,
             \A k \in Kind, x \in Spot, f \in Event :
                At(k, x, f)' <=> \/ At(k, x, f) /\ ~(f = e /\ k = "hook" /\ x = h)
                                 \/ f = e /\ k = k0 /\ x = x0
      PROVE  Places'
  <2>1. Moves({e}, "hook", h, k0, x0)
    BY <1>1, <1>4, <1>5, <1>6 DEF Moves
  <2> QED
    BY <1>1, <2>1, PlacesMoved DEF PlacesInv
<1>7. CASE appending[h].to = "queue" /\ queue' = Append(queue, e) /\ UNCHANGED <<late, push>>
  <2>1. queue \in Seq(Event) /\ queue' \in Seq(Event) /\ queue # None /\ queue' # None
    <3>1. queue \in Seq(Event) /\ queue # None
      BY <1>7 DEF TypeInv, TypeOK, HookOK
    <3>2. Append(queue, e) \in Seq(Event)
      BY <1>1, <3>1
    <3> QED
      BY <1>7, <3>1, <3>2, NoneIsNoQueue
  <2>2. Deferred' = Deferred \cup {e} /\ (Single(queue) /\ e \notin Deferred => Single(queue'))
    BY <1>7, <2>1, SetAppend DEF Deferred
  <2>3. \A p \in Pusher : Carried(p)' = Carried(p)
    BY <1>7 DEF Carried
  <2>4. "queue" \in Kind /\ None \in Spot
    BY DEF Kind, Spot
  <2>5. Places'
    <3>1. \A k \in Kind, x \in Spot, f \in Event :
                At(k, x, f)' <=> \/ At(k, x, f) /\ ~(f = e /\ k = "hook" /\ x = h)
                                 \/ f = e /\ k = "queue" /\ x = None
      BY <1>1, <1>2, <1>3, <1>7, <2>2, <2>3 DEF At, Event
    <3> QED
      BY <1>6, <2>4, <3>1
  <2>6. e \notin Deferred
    <3>1. e \in Deferred => At("queue", None, e)
      BY DEF At
    <3> QED
      BY <1>1, <1>4, <2>4, <3>1, Apart DEF PlacesInv
  <2> QED
    BY <1>1, <1>3, <1>7, <2>1, <2>2, <2>5, <2>6 DEF PlacesInv, OnceInPlace, CarriedOK
<1>8. ASSUME NEW p \in Pusher, appending[h].to = p,
             push' = [push EXCEPT ![p].held = Append(@, e)], UNCHANGED <<queue, late>>
      PROVE  PlacesInv'
  <2>1. /\ push[p] \in Push /\ push[p].at = "read" /\ push[p].held \in Seq(Event)
        /\ push'[p] = [push[p] EXCEPT !.held = Append(@, e)]
        /\ \A q \in Pusher \ {p} : push'[q] = push[q]
    BY <1>8 DEF TypeInv, TypeOK, HookOK, Push
  <2>2. push'[p].at = "read" /\ push'[p].own = push[p].own /\ push'[p].held = Append(push[p].held, e)
    BY <2>1 DEF Push
  <2>3. Carried(p)' = Carried(p) \cup {e}
    BY <2>1, <2>2, SetAppend DEF Carried
  <2>4. \A q \in Pusher \ {p} : Carried(q)' = Carried(q)
    BY <2>1 DEF Carried
  <2>5. Deferred' = Deferred
    BY <1>8 DEF Deferred
  <2>6. "push" \in Kind /\ p \in Spot
    BY DEF Kind, Spot
  <2>7. Places'
    <3>1. \A k \in Kind, x \in Spot, f \in Event :
                At(k, x, f)' <=> \/ At(k, x, f) /\ ~(f = e /\ k = "hook" /\ x = h)
                                 \/ f = e /\ k = "push" /\ x = p
      BY <1>1, <1>2, <1>3, <1>8, <2>3, <2>4, <2>5 DEF At, Event
    <3> QED
      BY <1>6, <2>6, <3>1
  <2>8. e \notin Carried(p)
    <3>1. e \in Carried(p) => At("push", p, e)
      BY DEF At
    <3> QED
      BY <1>1, <1>4, <2>6, <3>1, Apart DEF PlacesInv
  <2>9. CarriedOK'
    <3>1. Single(push'[p].held)
      BY <2>1, <2>2, <2>8, SetAppend DEF PlacesInv, CarriedOK, Carried
    <3>2. ToSet(push'[p].own) \cap ToSet(push'[p].held) = {}
      BY <2>1, <2>2, <2>8, SetAppend DEF PlacesInv, CarriedOK, Carried
    <3> QED
      BY <2>1, <2>2, <3>1, <3>2 DEF PlacesInv, CarriedOK
  <2> QED
    BY <1>1, <1>3, <1>8, <2>7, <2>9 DEF PlacesInv, OnceInPlace
<1>9. CASE appending[h].to = "gone" /\ late' = late \cup {e} /\ UNCHANGED <<queue, push>>
  <2>1. "late" \in Kind /\ None \in Spot
    BY DEF Kind, Spot
  <2>2. Deferred' = Deferred /\ \A p \in Pusher : Carried(p)' = Carried(p)
    BY <1>9 DEF Deferred, Carried
  <2>3. \A k \in Kind, x \in Spot, f \in Event :
                At(k, x, f)' <=> \/ At(k, x, f) /\ ~(f = e /\ k = "hook" /\ x = h)
                                 \/ f = e /\ k = "late" /\ x = None
    BY <1>1, <1>2, <1>3, <1>9, <2>2 DEF At, Event
  <2>4. Places'
    BY <1>6, <2>1, <2>3
  <2> QED
    BY <1>1, <1>3, <1>9, <2>4 DEF PlacesInv, OnceInPlace, CarriedOK
<1> QED
  BY <1>7, <1>8, <1>9 DEF DeferWrite

LEMMA PlacesPushHook ==
    ASSUME TypeInv, PlacesInv, NEW h \in Hook, PushHook(h)
    PROVE  PlacesInv'
<1> DEFINE new == happened + 1
<1>0. h \in Pusher
  BY DEF Pusher
<1>1. happened \in Nat /\ happened' = new /\ new \in Event
  BY DEF PushHook, Happen, TypeInv, TypeOK, Event
<1>2. /\ push'[h].at = "take" /\ push'[h].own = <<new>> /\ push'[h].held = <<>>
      /\ push[h].own = <<>> /\ push[h].held = <<>>
      /\ \A p \in Pusher \ {h} : push'[p] = push[p]
  BY <1>0 DEF PushHook, TypeInv, TypeOK, PlacesInv, CarriedOK, Idle
<1>3. Carried(h) = {} /\ Carried(h)' = {new} /\ \A p \in Pusher \ {h} : Carried(p)' = Carried(p)
  BY <1>2, SetNone, SetOne DEF Carried
<1>4. /\ Deferred' = Deferred /\ Chained' = Chained /\ pending' = pending /\ encrypting' = encrypting /\ received' = received
      /\ dropped' = dropped /\ late' = late /\ appending' = appending /\ queue' = queue /\ chain' = chain
  BY DEF PushHook, Deferred, Chained, batchVars, queueVars
<1>5. Moves({new}, "push", h, "push", h)
  <2>1. "push" \in Kind /\ h \in Spot
    BY <1>0 DEF Kind, Spot
  <2>2. \A e \in Event : e \in 1..happened' <=> e \in 1..happened \/ e = new
    BY <1>1 DEF Event
  <2>3. ~(new \in 1..happened) /\ happened' >= happened
    BY <1>1
  <2> HIDE DEF new
  <2>4. \A k \in Kind, x \in Spot, e \in Event :
          At(k, x, e)' <=> At(k, x, e) \/ (e = new /\ k = "push" /\ x = h)
    BY <1>0, <1>3, <1>4 DEF At
  <2>5. ~At("push", h, new)
    BY <1>3 DEF At
  <2> QED
    BY <1>1, <2>1, <2>2, <2>3, <2>4, <2>5 DEF Moves
<1>6. Places'
  BY <1>1, <1>5, PlacesMoved DEF PlacesInv
<1>7. CarriedOK'
  <2>1. Single(<<new>>) /\ Single(<<>>)
    BY SetNone, SetOne
  <2> QED
    BY <1>2, <2>1 DEF PlacesInv, CarriedOK
<1>8. OnceInPlace'
  BY <1>4 DEF PlacesInv, OnceInPlace
<1> QED
  BY <1>6, <1>7, <1>8 DEF PlacesInv

LEMMA PlacesCrash ==
    ASSUME TypeInv, PlacesInv, NEW h \in Hook, Crash(h)
    PROVE  PlacesInv'
<1>0. h \in Pusher /\ "push" \in Kind /\ "received" \in Kind /\ "dropped" \in Kind /\ h \in Spot /\ None \in Spot
  BY DEF Pusher, Kind, Spot
<1>1. happened \in Nat /\ happened' = happened
  BY DEF Crash, TypeInv, TypeOK
<1>2. push'[h] = Idle /\ \A p \in Pusher \ {h} : push'[p] = push[p]
  BY <1>0 DEF Crash, TypeInv, TypeOK
<1>3. Carried(h)' = {} /\ \A p \in Pusher \ {h} : Carried(p)' = Carried(p)
  BY <1>2, SetNone DEF Carried, Idle
<1>4. \A g \in Hook : appending'[g].event = appending[g].event
  BY DEF Crash, TypeInv, TypeOK
<1>5. /\ Deferred' = Deferred /\ Chained' = Chained /\ pending' = pending /\ encrypting' = encrypting /\ received' = received
      /\ late' = late /\ queue' = queue /\ chain' = chain
  BY DEF Crash, Deferred, Chained, batchVars
<1>6. \A e \in Carried(h) : e \in Event
  BY <1>0 DEF TypeInv, TypeOK, Push, Carried, ToSet
<1>7. \A e \in Carried(h) : At("push", h, e)
  BY <1>0 DEF At
<1>8. Carried(h) \cap ToSet(received) = {}
  <2>1. \A e \in ToSet(received) : At("received", None, e)
    BY DEF At
  <2>2. "push" # "received"
    OBVIOUS
  <2> QED
    BY <1>0, <1>6, <1>7, <2>1, <2>2, Apart DEF PlacesInv
<1>9. dropped' = dropped \cup Carried(h)
  BY <1>8 DEF Crash, Carried
<1>10. Moves(Carried(h), "push", h, "dropped", None)
  <2>1. \A k \in Kind, x \in Spot, e \in Event :
          At(k, x, e)' <=> \/ At(k, x, e) /\ ~(e \in Carried(h) /\ k = "push" /\ x = h)
                           \/ e \in Carried(h) /\ k = "dropped" /\ x = None
    BY <1>3, <1>4, <1>5, <1>9 DEF At
  <2>2. \A e \in Carried(h) : e \in 1..happened
    BY <1>0, <1>6, <1>7 DEF PlacesInv, Places
  <2> QED
    BY <1>0, <1>1, <1>6, <1>7, <2>1, <2>2 DEF Moves
<1>11. Places'
  BY <1>1, <1>10, PlacesMoved DEF PlacesInv
<1>12. CarriedOK'
  BY <1>2, SetNone DEF PlacesInv, CarriedOK, Idle
<1>13. OnceInPlace'
  BY <1>5 DEF PlacesInv, OnceInPlace
<1> QED
  BY <1>11, <1>12, <1>13 DEF PlacesInv

(* The sequences of a pusher, and the events it carries. *)
LEMMA CarriedType ==
    ASSUME TypeInv, NEW p \in Pusher
    PROVE  /\ push[p] \in Push /\ push[p].own \in Seq(Event) /\ push[p].held \in Seq(Event)
           /\ p \in Spot /\ None \in Spot
           /\ \A e \in Carried(p) : e \in Event /\ At("push", p, e)
           /\ Kind = {"hook", "push", "queue", "encrypting", "pending", "chain", "received", "dropped", "late"}
<1>1. push[p] \in Push /\ push[p].own \in Seq(Event) /\ push[p].held \in Seq(Event)
  BY DEF TypeInv, TypeOK, Push
<1>2. \A e \in Carried(p) : e \in Event /\ At("push", p, e)
  BY <1>1 DEF Carried, ToSet, At
<1> QED
  BY <1>1, <1>2 DEF Spot, Kind

LEMMA PlacesTake ==
    ASSUME TypeInv, PlacesInv, NEW p \in Pusher, Take(p)
    PROVE  PlacesInv'
<1>0. /\ push[p] \in Push /\ push[p].own \in Seq(Event) /\ push[p].held \in Seq(Event)
      /\ p \in Spot /\ None \in Spot /\ "push" \in Kind /\ "queue" \in Kind
      /\ \A e \in Carried(p) : e \in Event /\ At("push", p, e)
  BY CarriedType
<1>1. /\ happened \in Nat /\ happened' = happened /\ pending' = pending /\ encrypting' = encrypting /\ chain' = chain
      /\ received' = received /\ dropped' = dropped /\ late' = late
  BY DEF Take, TypeInv, TypeOK, batchVars
<1>2. push[p].held = <<>> /\ Single(push[p].own)
  BY DEF Take, PlacesInv, CarriedOK
<1>3. CASE queue = None
  <2>1. /\ push'[p].at = "check" /\ push'[p].own = push[p].own /\ push'[p].held = push[p].own
        /\ \A q \in Pusher \ {p} : push'[q] = push[q]
    BY <1>0, <1>3 DEF Take, TypeInv, TypeOK, Push
  <2>2. \A q \in Pusher : Carried(q)' = Carried(q)
    BY <1>2, <2>1, SetNone DEF Carried
  <2>3. queue' = queue /\ appending' = appending /\ Deferred' = Deferred /\ Chained' = Chained
    BY <1>1, <1>3 DEF Take, Deferred, Chained
  <2>4. \A k, x, e : At(k, x, e)' <=> At(k, x, e)
    BY <1>1, <2>2, <2>3 DEF At
  <2>5. Places'
    BY <1>1, <2>4 DEF PlacesInv, Places, Placed, Alone, Spot, Kind, Event
  <2>6. CarriedOK'
    BY <1>2, <2>1 DEF PlacesInv, CarriedOK
  <2>7. OnceInPlace'
    BY <1>1, <2>3 DEF PlacesInv, OnceInPlace
  <2> QED
    BY <2>5, <2>6, <2>7 DEF PlacesInv
<1>4. CASE queue # None
  <2>1. /\ push'[p].at = "read" /\ push'[p].own = push[p].own /\ push'[p].held = queue
        /\ \A q \in Pusher \ {p} : push'[q] = push[q]
    BY <1>0, <1>4 DEF Take, TypeInv, TypeOK, Push
  <2>2. Deferred = ToSet(queue) /\ Deferred' = {} /\ queue' = None /\ Chained' = Chained
    BY <1>1, <1>4 DEF Take, Deferred, Chained
  <2>3. Carried(p)' = Carried(p) \cup Deferred /\ \A q \in Pusher \ {p} : Carried(q)' = Carried(q)
    BY <1>2, <2>1, <2>2, SetNone DEF Carried
  <2>4. \A h \in Hook : appending'[h].event = appending[h].event
    <3>1. appending' = [h \in Hook |-> IF appending[h].to = "queue"
                                      THEN [appending[h] EXCEPT !.to = p] ELSE appending[h]]
      BY <1>4 DEF Take
    <3>2. appending \in [Hook -> [to : {"none", "queue", "gone"} \cup Pusher, event : Nat]]
      BY DEF TypeInv, TypeOK
    <3> QED
      BY <3>1, <3>2
  <2>5. \A e \in Deferred : e \in Event /\ At("queue", None, e)
    BY <1>4, <2>2 DEF At, TypeInv, TypeOK, ToSet
  <2>6. Deferred \cap Carried(p) = {}
    <3>1. "queue" # "push"
      OBVIOUS
    <3> QED
      BY <1>0, <2>5, <3>1, Apart DEF PlacesInv
  <2>7. Moves(Deferred, "queue", None, "push", p)
    <3>1. \A k \in Kind, x \in Spot, e \in Event :
            At(k, x, e)' <=> \/ At(k, x, e) /\ ~(e \in Deferred /\ k = "queue" /\ x = None)
                             \/ e \in Deferred /\ k = "push" /\ x = p
      BY <1>1, <2>2, <2>3, <2>4 DEF At
    <3>2. \A e \in Deferred : e \in 1..happened
      BY <1>0, <2>5 DEF PlacesInv, Places
    <3> QED
      BY <1>0, <1>1, <2>5, <3>1, <3>2 DEF Moves
  <2>8. Places'
    BY <1>1, <2>7, PlacesMoved DEF PlacesInv
  <2>9. CarriedOK'
    <3>1. Single(queue) /\ ToSet(push[p].own) \cap ToSet(queue) = {}
      BY <1>4, <2>2, <2>6 DEF PlacesInv, OnceInPlace, Carried
    <3> QED
      BY <1>2, <2>1, <3>1 DEF PlacesInv, CarriedOK
  <2>10. OnceInPlace'
    BY <1>1, <2>2 DEF PlacesInv, OnceInPlace
  <2> QED
    BY <2>8, <2>9, <2>10 DEF PlacesInv
<1> QED
  BY <1>3, <1>4

LEMMA PlacesReadTaken ==
    ASSUME TypeInv, PlacesInv, NEW p \in Pusher, ReadTaken(p)
    PROVE  PlacesInv'
<1>0. /\ push[p] \in Push /\ push[p].own \in Seq(Event) /\ push[p].held \in Seq(Event)
      /\ p \in Spot /\ None \in Spot /\ "push" \in Kind /\ "dropped" \in Kind
      /\ \A e \in Carried(p) : e \in Event /\ At("push", p, e)
  BY CarriedType
<1>1. /\ happened \in Nat /\ happened' = happened /\ pending' = pending /\ encrypting' = encrypting /\ chain' = chain
      /\ received' = received /\ queue' = queue /\ late' = late /\ Deferred' = Deferred /\ Chained' = Chained
  BY DEF ReadTaken, TypeInv, TypeOK, batchVars, Deferred, Chained
<1>2. /\ Single(push[p].held) /\ Single(push[p].own) /\ ToSet(push[p].own) \cap ToSet(push[p].held) = {}
  BY DEF ReadTaken, PlacesInv, CarriedOK
<1>3. PICK skipped \in 0..Len(push[p].held) : skipped = Bigger(Len(push[p].held) - MaxDeferred, 0)
  <2>1. Len(push[p].held) \in Nat /\ MaxDeferred \in Nat
    BY <1>0, PushAssumption
  <2> QED
    BY <2>1 DEF Bigger
<1>4. PICK rest : rest = SubSeq(push[p].held, skipped + 1, Len(push[p].held))
  OBVIOUS
<1>5. PICK S : S = {push[p].held[i] : i \in 1..skipped}
  OBVIOUS
<1>6. /\ rest \in Seq(Event) /\ ToSet(push[p].held) = ToSet(rest) \cup S
      /\ Single(rest) /\ ToSet(rest) \cap S = {}
  <2> DEFINE s == push[p].held
  <2>1. s \in Seq(Event) /\ Single(s)
    BY <1>0, <1>2
  <2>2. rest = SubSeq(s, skipped + 1, Len(s)) /\ S = {s[i] : i \in 1..skipped} /\ skipped \in 0..Len(s)
    BY <1>4, <1>5
  <2> HIDE DEF s
  <2>3. LET r == SubSeq(s, skipped + 1, Len(s))
        IN  /\ r \in Seq(Event) /\ Len(r) = Len(s) - skipped
            /\ \A i \in 1..Len(r) : r[i] = s[skipped + i]
            /\ ToSet(s) = ToSet(r) \cup {s[i] : i \in 1..skipped}
            /\ Single(s) => Single(r) /\ ToSet(r) \cap {s[i] : i \in 1..skipped} = {}
    BY <2>1, <2>2, SetRest
  <2>4. rest \in Seq(Event) /\ ToSet(s) = ToSet(rest) \cup S /\ Single(rest) /\ ToSet(rest) \cap S = {}
    BY <2>1, <2>2, <2>3
  <2> QED
    BY <2>4 DEF s
<1>7. /\ push' = [push EXCEPT ![p].at = "check", ![p].held = rest \o push[p].own]
      /\ dropped' = dropped \cup S
  BY <1>3, <1>4, <1>5 DEF ReadTaken
<1>8. /\ push'[p].at = "check" /\ push'[p].own = push[p].own /\ push'[p].held = rest \o push[p].own
      /\ \A q \in Pusher \ {p} : push'[q] = push[q]
  BY <1>0, <1>7 DEF TypeInv, TypeOK, Push
<1>9. /\ ToSet(rest \o push[p].own) = ToSet(rest) \cup ToSet(push[p].own)
      /\ Single(rest \o push[p].own)
  BY <1>0, <1>2, <1>6, SetConcat
<1>10. /\ Carried(p)' = Carried(p) \ S /\ S \subseteq Carried(p)
       /\ \A q \in Pusher \ {p} : Carried(q)' = Carried(q)
  BY <1>2, <1>6, <1>8, <1>9 DEF Carried
<1>11. \A h \in Hook : appending'[h].event = appending[h].event
  BY DEF ReadTaken, TypeInv, TypeOK
<1>12. Moves(S, "push", p, "dropped", None)
  <2>1. \A k \in Kind, x \in Spot, e \in Event :
          At(k, x, e)' <=> \/ At(k, x, e) /\ ~(e \in S /\ k = "push" /\ x = p)
                           \/ e \in S /\ k = "dropped" /\ x = None
    BY <1>1, <1>7, <1>10, <1>11 DEF At
  <2>2. \A e \in S : e \in Event /\ At("push", p, e)
    BY <1>0, <1>10
  <2>3. \A e \in S : e \in 1..happened
    BY <1>0, <2>2 DEF PlacesInv, Places
  <2> QED
    BY <1>0, <1>1, <2>1, <2>2, <2>3 DEF Moves
<1>13. Places'
  BY <1>1, <1>12, PlacesMoved DEF PlacesInv
<1>14. CarriedOK'
  BY <1>2, <1>8, <1>9 DEF PlacesInv, CarriedOK
<1>15. OnceInPlace'
  BY <1>1 DEF PlacesInv, OnceInPlace
<1> QED
  BY <1>13, <1>14, <1>15 DEF PlacesInv

(* What a pusher carries is given up. *)
LEMMA PlacesDropped ==
    ASSUME TypeInv, PlacesInv, NEW p \in Pusher, Carried(p)' = {}, dropped' = dropped \cup Carried(p),
           \A q \in Pusher \ {p} : push'[q] = push[q],
           \A h \in Hook : appending'[h].event = appending[h].event,
           UNCHANGED <<happened, queue, encrypting, pending, chain, received, late>>,
           push'[p].at \notin {"take", "read", "check", "post"},
           push'[p].own = <<>>, push'[p].held = <<>>
    PROVE  PlacesInv'
<1>0. /\ p \in Spot /\ None \in Spot /\ "push" \in Kind /\ "dropped" \in Kind
      /\ \A e \in Carried(p) : e \in Event /\ At("push", p, e)
  BY CarriedType
<1>1. \A q \in Pusher \ {p} : Carried(q)' = Carried(q)
  BY DEF Carried
<1>2. Deferred' = Deferred /\ Chained' = Chained /\ happened \in Nat /\ happened' = happened
  BY DEF Deferred, Chained, TypeInv, TypeOK
<1>3. Moves(Carried(p), "push", p, "dropped", None)
  <2>1. \A k \in Kind, x \in Spot, e \in Event :
          At(k, x, e)' <=> \/ At(k, x, e) /\ ~(e \in Carried(p) /\ k = "push" /\ x = p)
                           \/ e \in Carried(p) /\ k = "dropped" /\ x = None
    BY <1>1, <1>2 DEF At
  <2>2. \A e \in Carried(p) : e \in 1..happened
    BY <1>0 DEF PlacesInv, Places
  <2> QED
    BY <1>0, <1>2, <2>1, <2>2 DEF Moves
<1>4. Places'
  BY <1>2, <1>3, PlacesMoved DEF PlacesInv
<1>5. CarriedOK'
  BY SetNone DEF PlacesInv, CarriedOK
<1>6. OnceInPlace'
  BY DEF PlacesInv, OnceInPlace
<1> QED
  BY <1>4, <1>5, <1>6 DEF PlacesInv

(* What a pusher carries reaches the relay. *)
LEMMA PlacesReceived ==
    ASSUME TypeInv, PlacesInv, NEW p \in Pusher, push[p].at = "post", Carried(p)' = {},
           received' = received \o push[p].held,
           \A q \in Pusher \ {p} : push'[q] = push[q],
           UNCHANGED <<happened, appending, queue, encrypting, pending, chain, dropped, late>>,
           push'[p].at \notin {"take", "read", "check", "post"},
           push'[p].own = <<>>, push'[p].held = <<>>
    PROVE  PlacesInv'
<1>0. /\ p \in Spot /\ None \in Spot /\ "push" \in Kind /\ "received" \in Kind
      /\ push[p].held \in Seq(Event)
      /\ \A e \in Carried(p) : e \in Event /\ At("push", p, e)
  BY CarriedType
<1>1. \A q \in Pusher \ {p} : Carried(q)' = Carried(q)
  BY DEF Carried
<1>2. Deferred' = Deferred /\ Chained' = Chained /\ happened \in Nat /\ happened' = happened
  BY DEF Deferred, Chained, TypeInv, TypeOK
<1>3. Carried(p) = ToSet(push[p].held) /\ Single(push[p].held)
  BY DEF PlacesInv, CarriedOK, Carried
<1>4. received \in Seq(Event) /\ Single(received)
  BY DEF TypeInv, TypeOK, PlacesInv, OnceInPlace
<1>5. Carried(p) \cap ToSet(received) = {}
  <2>1. \A e \in ToSet(received) : At("received", None, e)
    BY DEF At
  <2>2. "push" # "received"
    OBVIOUS
  <2> QED
    BY <1>0, <2>1, <2>2, Apart DEF PlacesInv
<1>6. ToSet(received') = ToSet(received) \cup Carried(p) /\ Single(received')
  BY <1>0, <1>3, <1>4, <1>5, SetConcat
<1>7. Moves(Carried(p), "push", p, "received", None)
  <2>1. \A k \in Kind, x \in Spot, e \in Event :
          At(k, x, e)' <=> \/ At(k, x, e) /\ ~(e \in Carried(p) /\ k = "push" /\ x = p)
                           \/ e \in Carried(p) /\ k = "received" /\ x = None
    BY <1>1, <1>2, <1>6 DEF At
  <2>2. \A e \in Carried(p) : e \in 1..happened
    BY <1>0 DEF PlacesInv, Places
  <2> QED
    BY <1>0, <1>2, <2>1, <2>2 DEF Moves
<1>8. Places'
  BY <1>2, <1>7, PlacesMoved DEF PlacesInv
<1>9. CarriedOK'
  BY SetNone DEF PlacesInv, CarriedOK
<1>10. OnceInPlace'
  BY <1>6 DEF PlacesInv, OnceInPlace
<1> QED
  BY <1>8, <1>9, <1>10 DEF PlacesInv

(* A push goes on with the events it carries, or has none and ends. *)
LEMMA PlacesGoOn ==
    ASSUME TypeInv, PlacesInv, NEW p \in Pusher,
           UNCHANGED <<happened, appending, queue, encrypting, pending, chain, received, dropped, late>>,
           \A q \in Pusher \ {p} : push'[q] = push[q],
           push'[p].own = push[p].own, push'[p].held = push[p].held,
           \/ push[p].at = "check" /\ push'[p].at = "post"
           \/ {push[p].at, push'[p].at} \cap {"take", "read", "check", "post"} = {}
    PROVE  PlacesInv'
<1>1. CarriedOK'
  BY DEF PlacesInv, CarriedOK
<1> QED
  BY <1>1, PlacesStay

LEMMA PlacesPushStep ==
    ASSUME TypeInv, PlacesInv, NEW p \in Pusher, PushStep(p)
    PROVE  PlacesInv'
<1> USE DEF queueVars, batchVars
<1>0. push \in [Pusher -> Push] /\ push[p] \in Push
  BY DEF TypeInv, TypeOK
<1>1. ASSUME push[p].at \notin {"take", "read", "check", "post"}
      PROVE  push[p].own = <<>> /\ push[p].held = <<>>
  BY <1>1 DEF PlacesInv, CarriedOK
<1>2. ASSUME End(p)
      PROVE  /\ push'[p].at = "idle" /\ push'[p].own = <<>> /\ push'[p].held = <<>>
             /\ Carried(p)' = {} /\ UNCHANGED <<encrypting, pending, chain>>
             /\ \A q \in Pusher \ {p} : push'[q] = push[q]
  BY <1>0, <1>2, SetNone DEF End, Idle, Carried
<1>3. CASE CheckGate(p)
  <2>1. CASE GateOpen(file.gate)
    <3>1. /\ push'[p].at = "post" /\ push'[p].own = push[p].own /\ push'[p].held = push[p].held
          /\ \A q \in Pusher \ {p} : push'[q] = push[q]
      BY <1>0, <1>3, <2>1 DEF CheckGate, Push
    <3> QED
      BY <1>3, <2>1, <3>1, PlacesGoOn DEF CheckGate
  <2>2. CASE ~GateOpen(file.gate)
    <3>1. Carried(p) = ToSet(push[p].held)
      BY <1>3 DEF CheckGate, PlacesInv, CarriedOK, Carried
    <3>2. /\ End(p) /\ dropped' = dropped \cup Carried(p)
          /\ UNCHANGED <<happened, queue, appending, received, late>>
      BY <1>3, <2>2, <3>1 DEF CheckGate
    <3> QED
      BY <1>2, <3>2, PlacesDropped
  <2> QED
    BY <2>1, <2>2
<1>4. CASE Post(p)
  <2>1. PICK outcome \in Outcome :
          /\ push' = [push EXCEPT ![p].at = "record", ![p].outcome = outcome, ![p].own = <<>>, ![p].held = <<>>]
          /\ \/ received' = received \o push[p].held /\ UNCHANGED dropped
             \/ dropped' = dropped \cup ToSet(push[p].held) /\ UNCHANGED received
    BY <1>4 DEF Post
  <2>2. /\ push'[p].at = "record" /\ push'[p].own = <<>> /\ push'[p].held = <<>>
        /\ \A q \in Pusher \ {p} : push'[q] = push[q]
    BY <1>0, <2>1 DEF Push
  <2>3. Carried(p)' = {}
    BY <2>2, SetNone DEF Carried
  <2>4. Carried(p) = ToSet(push[p].held)
    BY <1>4 DEF Post, PlacesInv, CarriedOK, Carried
  <2>5. push[p].at = "post" /\ UNCHANGED <<happened, queue, appending, encrypting, pending, chain, late>>
    BY <1>4 DEF Post
  <2>6. CASE received' = received \o push[p].held /\ UNCHANGED dropped
    BY <2>2, <2>3, <2>5, <2>6, PlacesReceived
  <2>7. CASE dropped' = dropped \cup ToSet(push[p].held) /\ UNCHANGED received
    BY <2>2, <2>3, <2>4, <2>5, <2>7, PlacesDropped
  <2> QED
    BY <2>1, <2>6, <2>7
<1>5. CASE Record(p)
  <2>1. UNCHANGED <<happened, queue, appending, encrypting, pending, chain, received, dropped, late>>
    BY <1>5 DEF Record, End
  <2>2. /\ push'[p].own = push[p].own /\ push'[p].held = push[p].held
        /\ push'[p].at \in {"truncate", "unlink", "idle"}
        /\ \A q \in Pusher \ {p} : push'[q] = push[q]
    <3>1. CASE End(p)
      BY <1>1, <1>2, <1>5, <3>1 DEF Record
    <3>2. CASE push' = [push EXCEPT ![p].at = "unlink"]
      BY <1>0, <3>2 DEF Push
    <3>3. ASSUME NEW next, push' = [push EXCEPT ![p].at = "truncate", ![p].next = next]
          PROVE  /\ push'[p].own = push[p].own /\ push'[p].held = push[p].held
                 /\ push'[p].at = "truncate"
                 /\ \A q \in Pusher \ {p} : push'[q] = push[q]
      BY <1>0, <3>3 DEF Push
    <3> QED
      BY <1>5, <3>1, <3>2, <3>3 DEF Record
  <2> QED
    BY <1>5, <2>1, <2>2, PlacesGoOn DEF Record
<1>6. CASE Unlink(p)
  BY <1>1, <1>2, <1>6, PlacesGoOn DEF Unlink
<1>7. CASE Truncate(p)
  <2>1. /\ push'[p].own = push[p].own /\ push'[p].held = push[p].held /\ push'[p].at = "fill"
        /\ \A q \in Pusher \ {p} : push'[q] = push[q]
    BY <1>0, <1>7 DEF Truncate, Push
  <2> QED
    BY <1>7, <2>1, PlacesGoOn DEF Truncate
<1>8. CASE Fill(p)
  BY <1>1, <1>2, <1>8, PlacesGoOn DEF Fill
<1> QED
  BY <1>3, <1>4, <1>5, <1>6, <1>7, <1>8, PlacesTake, PlacesReadTaken DEF PushStep

(* A batch joins the chain. *)
LEMMA ChainLonger ==
    ASSUME TypeInv, PlacesInv, NEW b \in Seq(Event), chain' = Append(chain, b), Single(b),
           ToSet(b) \cap Chained = {}
    PROVE  /\ Chained' = Chained \cup ToSet(b)
           /\ \A i \in DOMAIN chain' : Single(chain'[i])
           /\ \A i, j \in DOMAIN chain' : i # j => ToSet(chain'[i]) \cap ToSet(chain'[j]) = {}
<1>1. /\ chain \in Seq(Seq(Event)) /\ Len(chain) \in Nat /\ DOMAIN chain = 1..Len(chain)
      /\ DOMAIN chain' = 1..Len(chain) + 1
      /\ \A i \in 1..Len(chain) : chain'[i] = chain[i]
      /\ chain'[Len(chain) + 1] = b
  BY DEF TypeInv, TypeOK
<1>2. \A i \in 1..Len(chain) + 1 : i \in 1..Len(chain) \/ i = Len(chain) + 1
  BY <1>1
<1>3. 1..Len(chain) \subseteq 1..Len(chain) + 1 /\ Len(chain) + 1 \in 1..Len(chain) + 1
  BY <1>1
<1>4. Chained' = Chained \cup ToSet(b)
  <2>1. \A e : e \in Chained' <=> \E i \in 1..Len(chain) + 1 : e \in ToSet(chain'[i])
    BY <1>1 DEF Chained
  <2>2. \A e : e \in Chained <=> \E i \in 1..Len(chain) : e \in ToSet(chain[i])
    BY <1>1 DEF Chained
  <2> QED
    BY <1>1, <1>2, <1>3, <2>1, <2>2
<1>5. \A i \in 1..Len(chain) : Single(chain[i]) /\ ToSet(chain[i]) \cap ToSet(b) = {}
  BY <1>1 DEF PlacesInv, OnceInPlace, Chained
<1>6. \A i, j \in 1..Len(chain) : i # j => ToSet(chain[i]) \cap ToSet(chain[j]) = {}
  BY <1>1 DEF PlacesInv, OnceInPlace
<1> QED
  BY <1>1, <1>2, <1>4, <1>5, <1>6

(* A new event is pending. *)
LEMMA PlacesPending ==
    ASSUME TypeInv, PlacesInv, happened' = happened + 1, pending' = Append(pending, happened + 1),
           UNCHANGED <<queue, appending, push, encrypting, chain, received, dropped, late>>
    PROVE  PlacesInv'
<1> PICK new : new = happened + 1
  OBVIOUS
<1>1. happened \in Nat /\ happened' = new /\ new \in Event /\ new \notin 1..happened
  BY DEF TypeInv, TypeOK, Event
<1>2. /\ Deferred' = Deferred /\ Chained' = Chained /\ \A p \in Pusher : Carried(p)' = Carried(p)
  BY DEF Deferred, Chained, Carried
<1>3. "pending" \in Kind /\ None \in Spot
  BY DEF Kind, Spot
<1>4. \A k \in Kind, x \in Spot : ~At(k, x, new)
  BY <1>1 DEF PlacesInv, Places
<1>5. new \notin ToSet(pending)
  BY <1>3, <1>4 DEF At
<1>6. pending \in Seq(Event) /\ Single(pending)
  BY DEF TypeInv, TypeOK, PlacesInv, OnceInPlace
<1>7. ToSet(pending') = ToSet(pending) \cup {new} /\ Single(pending')
  BY <1>1, <1>5, <1>6, SetAppend
<1>8. Moves({new}, "pending", None, "pending", None)
  <2>1. \A k \in Kind, x \in Spot, e \in Event :
          At(k, x, e)' <=> At(k, x, e) \/ (e = new /\ k = "pending" /\ x = None)
    BY <1>2, <1>7 DEF At
  <2>2. \A e \in Event : e \in 1..happened' <=> e \in 1..happened \/ e = new
    BY <1>1 DEF Event
  <2>3. ~At("pending", None, new) /\ happened' >= happened
    BY <1>1, <1>3, <1>4
  <2> QED
    BY <1>1, <1>3, <2>1, <2>2, <2>3 DEF Moves
<1>9. Places'
  BY <1>1, <1>8, PlacesMoved DEF PlacesInv
<1>10. CarriedOK' /\ OnceInPlace'
  BY <1>7 DEF PlacesInv, CarriedOK, OnceInPlace
<1> QED
  BY <1>9, <1>10 DEF PlacesInv

(* A new event is being encrypted. *)
LEMMA PlacesPushStream ==
    ASSUME TypeInv, PlacesInv, PushStream
    PROVE  PlacesInv'
<1> PICK new : new = happened + 1
  OBVIOUS
<1>1. /\ happened \in Nat /\ happened' = new /\ new \in Event /\ new \notin 1..happened
      /\ encrypting' = encrypting \cup {new}
      /\ UNCHANGED <<queue, appending, push, pending, chain, received, dropped, late>>
  BY DEF TypeInv, TypeOK, Event, PushStream, Happen, queueVars
<1>2. /\ Deferred' = Deferred /\ Chained' = Chained /\ \A p \in Pusher : Carried(p)' = Carried(p)
  BY <1>1 DEF Deferred, Chained, Carried
<1>3. "encrypting" \in Kind /\ None \in Spot
  BY DEF Kind, Spot
<1>4. ~At("encrypting", None, new)
  BY <1>1, <1>3 DEF PlacesInv, Places
<1>5. Moves({new}, "encrypting", None, "encrypting", None)
  <2>1. \A k \in Kind, x \in Spot, e \in Event :
          At(k, x, e)' <=> At(k, x, e) \/ (e = new /\ k = "encrypting" /\ x = None)
    BY <1>1, <1>2 DEF At
  <2>2. \A e \in Event : e \in 1..happened' <=> e \in 1..happened \/ e = new
    <3>1. new = happened + 1
      OBVIOUS
    <3> QED
      BY <1>1, <3>1 DEF Event
  <2>3. happened' >= happened
    BY <1>1
  <2> QED
    BY <1>1, <1>3, <1>4, <2>1, <2>2, <2>3 DEF Moves
<1>6. Places'
  BY <1>1, <1>5, PlacesMoved DEF PlacesInv
<1>7. CarriedOK' /\ OnceInPlace'
  BY <1>1 DEF PlacesInv, CarriedOK, OnceInPlace
<1> QED
  BY <1>6, <1>7 DEF PlacesInv

(* An encrypted event joins the buffer. *)
LEMMA PlacesBuffer ==
    ASSUME TypeInv, PlacesInv, NEW e \in encrypting, Buffer(e)
    PROVE  PlacesInv'
<1>1. /\ happened \in Nat /\ happened' = happened /\ encrypting' = encrypting \ {e}
      /\ pending' = Append(pending, e)
      /\ UNCHANGED <<queue, appending, push, chain, received, dropped, late>>
  BY DEF TypeInv, TypeOK, Buffer, queueVars
<1>2. /\ Deferred' = Deferred /\ Chained' = Chained /\ \A p \in Pusher : Carried(p)' = Carried(p)
  BY <1>1 DEF Deferred, Chained, Carried
<1>3. "encrypting" \in Kind /\ "pending" \in Kind /\ None \in Spot /\ "encrypting" # "pending"
  BY DEF Kind, Spot
<1>4. e \in Event /\ At("encrypting", None, e)
  BY DEF TypeInv, TypeOK, At
<1>5. e \notin ToSet(pending)
  <2>1. e \in ToSet(pending) => At("pending", None, e)
    BY DEF At
  <2> QED
    BY <1>3, <1>4, <2>1, Apart DEF PlacesInv
<1>6. pending \in Seq(Event) /\ Single(pending)
  BY DEF TypeInv, TypeOK, PlacesInv, OnceInPlace
<1>7. ToSet(pending') = ToSet(pending) \cup {e} /\ Single(pending')
  BY <1>1, <1>5, <1>6, SetAppend
<1>8. Moves({e}, "encrypting", None, "pending", None)
  <2>1. \A k \in Kind, x \in Spot, f \in Event :
          At(k, x, f)' <=> \/ At(k, x, f) /\ ~(f = e /\ k = "encrypting" /\ x = None)
                           \/ f = e /\ k = "pending" /\ x = None
    BY <1>1, <1>2, <1>7 DEF At
  <2>2. e \in 1..happened
    BY <1>3, <1>4 DEF PlacesInv, Places
  <2> QED
    BY <1>1, <1>3, <1>4, <2>1, <2>2 DEF Moves
<1>9. Places'
  BY <1>1, <1>8, PlacesMoved DEF PlacesInv
<1>10. CarriedOK' /\ OnceInPlace'
  BY <1>1, <1>7 DEF PlacesInv, CarriedOK, OnceInPlace
<1> QED
  BY <1>9, <1>10 DEF PlacesInv

(* An event is withheld, or cannot be encrypted. *)
LEMMA PlacesWithhold ==
    ASSUME TypeInv, PlacesInv, NEW e \in encrypting, Withhold(e)
    PROVE  PlacesInv'
<1>1. /\ happened \in Nat /\ happened' = happened /\ encrypting' = encrypting \ {e}
      /\ dropped' = dropped \cup {e}
      /\ UNCHANGED <<queue, appending, push, pending, chain, received, late>>
  BY DEF TypeInv, TypeOK, Withhold, queueVars
<1>2. /\ Deferred' = Deferred /\ Chained' = Chained /\ \A p \in Pusher : Carried(p)' = Carried(p)
  BY <1>1 DEF Deferred, Chained, Carried
<1>3. "encrypting" \in Kind /\ "dropped" \in Kind /\ None \in Spot
  BY DEF Kind, Spot
<1>4. e \in Event /\ At("encrypting", None, e)
  BY DEF TypeInv, TypeOK, At
<1>5. Moves({e}, "encrypting", None, "dropped", None)
  <2>1. \A k \in Kind, x \in Spot, f \in Event :
          At(k, x, f)' <=> \/ At(k, x, f) /\ ~(f = e /\ k = "encrypting" /\ x = None)
                           \/ f = e /\ k = "dropped" /\ x = None
    BY <1>1, <1>2 DEF At
  <2>2. e \in 1..happened
    BY <1>3, <1>4 DEF PlacesInv, Places
  <2> QED
    BY <1>1, <1>3, <1>4, <2>1, <2>2 DEF Moves
<1>6. Places'
  BY <1>1, <1>5, PlacesMoved DEF PlacesInv
<1>7. CarriedOK' /\ OnceInPlace'
  BY <1>1 DEF PlacesInv, CarriedOK, OnceInPlace
<1> QED
  BY <1>6, <1>7 DEF PlacesInv

(* What is pending, and perhaps a new event, becomes a batch of the chain. *)
LEMMA PlacesBatch ==
    ASSUME TypeInv, PlacesInv, NEW b \in Seq(Event), chain' = Append(chain, b), pending' = <<>>,
           \/ b = pending /\ happened' = happened
           \/ b = Append(pending, happened + 1) /\ happened' = happened + 1,
           UNCHANGED <<queue, appending, push, encrypting, received, dropped, late>>
    PROVE  PlacesInv'
<1> PICK new : new = happened + 1
  OBVIOUS
<1>1. happened \in Nat /\ new \in Event /\ new \notin 1..happened /\ happened' \in Nat
  BY DEF TypeInv, TypeOK, Event
<1>2. /\ Deferred' = Deferred /\ \A p \in Pusher : Carried(p)' = Carried(p)
  BY DEF Deferred, Carried
<1>3. "pending" \in Kind /\ "chain" \in Kind /\ None \in Spot /\ "pending" # "chain"
  BY DEF Kind, Spot
<1>4. \A k \in Kind, x \in Spot : ~At(k, x, new)
  BY <1>1 DEF PlacesInv, Places
<1>5. new \notin ToSet(pending) /\ new \notin Chained
  BY <1>3, <1>4 DEF At
<1>6. pending \in Seq(Event) /\ Single(pending)
  BY DEF TypeInv, TypeOK, PlacesInv, OnceInPlace
<1>7. \A e \in ToSet(pending) : e \in Event /\ At("pending", None, e)
  BY <1>6 DEF At, ToSet
<1>8. ToSet(pending) \cap Chained = {}
  <2>1. \A e \in Chained : At("chain", None, e)
    BY DEF At
  <2> QED
    BY <1>3, <1>7, <2>1, Apart DEF PlacesInv
<1>9. /\ Single(b) /\ ToSet(b) \cap Chained = {} /\ ToSet(pending) \subseteq ToSet(b)
      /\ \A e \in ToSet(b) : e \in ToSet(pending) \/ (e = new /\ happened' = happened + 1)
      /\ happened' = happened + 1 => new \in ToSet(b)
  <2>1. CASE b = pending /\ happened' = happened
    BY <1>1, <1>6, <1>8, <2>1
  <2>2. CASE b = Append(pending, new) /\ happened' = happened + 1
    <3>1. ToSet(b) = ToSet(pending) \cup {new} /\ Single(b)
      BY <1>1, <1>5, <1>6, <2>2, SetAppend
    <3> QED
      BY <1>5, <1>8, <2>2, <3>1
  <2> QED
    BY <2>1, <2>2
<1>10. /\ Chained' = Chained \cup ToSet(b)
       /\ \A i \in DOMAIN chain' : Single(chain'[i])
       /\ \A i, j \in DOMAIN chain' : i # j => ToSet(chain'[i]) \cap ToSet(chain'[j]) = {}
  BY <1>9, ChainLonger
<1>11. Moves(ToSet(b), "pending", None, "chain", None)
  <2>1. ToSet(pending') = {}
    BY SetNone
  <2>2. \A k \in Kind, x \in Spot, e \in Event :
          At(k, x, e)' <=> \/ At(k, x, e) /\ ~(e \in ToSet(b) /\ k = "pending" /\ x = None)
                           \/ e \in ToSet(b) /\ k = "chain" /\ x = None
    BY <1>2, <1>9, <1>10, <2>1 DEF At
  <2>3. \A e \in ToSet(pending) : e \in 1..happened
    BY <1>3, <1>7 DEF PlacesInv, Places
  <2>4. \A e \in Event : e \in 1..happened' <=> e \in 1..happened \/ e \in ToSet(b)
    <3>1. CASE happened' = happened
      <4>1. \A e \in ToSet(b) : e \in ToSet(pending)
        BY <1>1, <1>9, <3>1
      <4> QED
        BY <2>3, <3>1, <4>1
    <3>2. CASE happened' = happened + 1
      <4>1. \A e \in Event : e \in 1..happened' <=> e \in 1..happened \/ e = new
        BY <1>1, <3>2 DEF Event
      <4> QED
        BY <1>9, <2>3, <3>2, <4>1
    <3> QED
      BY <3>1, <3>2
  <2>5. \A e \in ToSet(b) : e \in 1..happened => At("pending", None, e)
    BY <1>1, <1>7, <1>9
  <2>6. happened' >= happened
    BY <1>1
  <2>7. \A e \in ToSet(b) : e \in Event
    BY <1>1, <1>7, <1>9
  <2> QED
    BY <1>3, <2>2, <2>4, <2>5, <2>6, <2>7 DEF Moves
<1>12. Places'
  BY <1>1, <1>11, PlacesMoved DEF PlacesInv
<1>13. CarriedOK'
  BY DEF PlacesInv, CarriedOK
<1>14. OnceInPlace'
  BY <1>10, SetNone DEF PlacesInv, OnceInPlace
<1> QED
  BY <1>12, <1>13, <1>14 DEF PlacesInv

(* The first batch of the chain begins its push. *)
LEMMA PlacesNextBatch ==
    ASSUME TypeInv, PlacesInv, NextBatch
    PROVE  PlacesInv'
<1> PICK b : b = Head(chain)
  OBVIOUS
<1>1. /\ chain \in Seq(Seq(Event)) /\ Len(chain) \in Nat /\ Len(chain) > 0 /\ DOMAIN chain = 1..Len(chain)
      /\ b = chain[1] /\ b \in Seq(Event)
      /\ DOMAIN chain' = 1..Len(chain) - 1
      /\ \A i \in 1..Len(chain) - 1 : chain'[i] = chain[i + 1]
  BY DEF NextBatch, TypeInv, TypeOK
<1>2. /\ Proxy \in Pusher /\ Proxy \in Spot /\ None \in Spot
      /\ "push" \in Kind /\ "chain" \in Kind
  BY DEF Pusher, Spot, Kind
<1>3. /\ push'[Proxy].at = "take" /\ push'[Proxy].own = b /\ push'[Proxy].held = <<>>
      /\ \A p \in Pusher \ {Proxy} : push'[p] = push[p]
  BY <1>2 DEF NextBatch, TypeInv, TypeOK, Idle
<1>4. Carried(Proxy) = {} /\ Carried(Proxy)' = ToSet(b)
  BY <1>2, <1>3, SetNone DEF NextBatch, PlacesInv, CarriedOK, Carried
<1>5. \A p \in Pusher \ {Proxy} : Carried(p)' = Carried(p)
  BY <1>3 DEF Carried
<1>6. /\ happened \in Nat /\ happened' = happened /\ queue' = queue /\ appending' = appending
      /\ Deferred' = Deferred /\ pending' = pending /\ encrypting' = encrypting /\ received' = received /\ dropped' = dropped
      /\ late' = late
  BY DEF NextBatch, TypeInv, TypeOK, queueVars, Deferred
<1>7. /\ \A i \in 1..Len(chain) : Single(chain[i])
      /\ \A i, j \in 1..Len(chain) : i # j => ToSet(chain[i]) \cap ToSet(chain[j]) = {}
  BY <1>1 DEF PlacesInv, OnceInPlace
<1>8. \A i \in 1..Len(chain) - 1 : i + 1 \in 1..Len(chain) /\ i + 1 # 1
  BY <1>1
<1>9. \A i \in 1..Len(chain) : i = 1 \/ (i - 1 \in 1..Len(chain) - 1 /\ chain'[i - 1] = chain[i])
  <2>1. \A i \in 1..Len(chain) : i = 1 \/ (i - 1 \in 1..Len(chain) - 1 /\ (i - 1) + 1 = i)
    BY <1>1
  <2> QED
    BY <1>1, <2>1
<1>10. Chained' = Chained \ ToSet(b) /\ ToSet(b) \subseteq Chained
  <2>1. \A e : e \in Chained' <=> \E i \in 1..Len(chain) - 1 : e \in ToSet(chain'[i])
    BY <1>1 DEF Chained
  <2>2. \A e : e \in Chained <=> \E i \in 1..Len(chain) : e \in ToSet(chain[i])
    BY <1>1 DEF Chained
  <2>3. 1 \in 1..Len(chain)
    BY <1>1
  <2>4. \A i \in 1..Len(chain) - 1 : ToSet(chain'[i]) \cap ToSet(b) = {}
    BY <1>1, <1>7, <1>8, <2>3
  <2>5. \A e \in Chained' : e \in Chained
    BY <1>1, <1>8, <2>1, <2>2
  <2>6. \A e \in Chained : e \in ToSet(b) \/ e \in Chained'
    BY <1>1, <1>9, <2>1, <2>2
  <2> QED
    BY <1>1, <2>1, <2>2, <2>3, <2>4, <2>5, <2>6
<1>11. \A e \in ToSet(b) : e \in Event /\ At("chain", None, e)
  BY <1>1, <1>10 DEF At, ToSet
<1>12. Moves(ToSet(b), "chain", None, "push", Proxy)
  <2>1. \A k \in Kind, x \in Spot, e \in Event :
          At(k, x, e)' <=> \/ At(k, x, e) /\ ~(e \in ToSet(b) /\ k = "chain" /\ x = None)
                           \/ e \in ToSet(b) /\ k = "push" /\ x = Proxy
    BY <1>2, <1>4, <1>5, <1>6, <1>10 DEF At
  <2>2. \A e \in ToSet(b) : e \in 1..happened
    BY <1>2, <1>11 DEF PlacesInv, Places
  <2> QED
    BY <1>2, <1>6, <1>11, <2>1, <2>2 DEF Moves
<1>13. Places'
  BY <1>6, <1>12, PlacesMoved DEF PlacesInv
<1>14. CarriedOK'
  <2>1. Single(b) /\ Single(<<>>)
    <3>1. 1 \in 1..Len(chain)
      BY <1>1
    <3> QED
      BY <1>1, <1>7, <3>1, SetNone
  <2> QED
    BY <1>3, <2>1 DEF PlacesInv, CarriedOK
<1>15. OnceInPlace'
  <2>1. \A i \in 1..Len(chain) - 1 : Single(chain'[i])
    BY <1>1, <1>7, <1>8
  <2>2. \A i, j \in 1..Len(chain) - 1 : i # j => ToSet(chain'[i]) \cap ToSet(chain'[j]) = {}
    <3>1. \A i, j \in 1..Len(chain) - 1 : i # j => i + 1 # j + 1
      BY <1>1
    <3> QED
      BY <1>1, <1>7, <1>8, <3>1
  <2> QED
    BY <1>1, <1>6, <2>1, <2>2 DEF PlacesInv, OnceInPlace
<1> QED
  BY <1>13, <1>14, <1>15 DEF PlacesInv

(* The transport's buffer becomes a push of its own or is given up. *)
LEMMA PlacesFlush ==
    ASSUME TypeInv, PlacesInv, Flush,
           UNCHANGED <<happened, queue, appending, encrypting, chain, received, late>>
    PROVE  PlacesInv'
<1>0. /\ Stream \in Pusher /\ Stream \in Spot /\ None \in Spot
      /\ "push" \in Kind /\ "pending" \in Kind /\ "dropped" \in Kind
      /\ push \in [Pusher -> Push] /\ pending \in Seq(Event) /\ happened \in Nat
  BY DEF Pusher, Spot, Kind, TypeInv, TypeOK
<1>1. Deferred' = Deferred /\ Chained' = Chained
  BY DEF Deferred, Chained
<1>2. \A e \in ToSet(pending) : e \in Event /\ At("pending", None, e)
  BY <1>0 DEF ToSet, At
<1>3. \A e \in ToSet(pending) : e \in 1..happened
  BY <1>0, <1>2 DEF PlacesInv, Places
<1>4. Single(pending) /\ Single(<<>>) /\ ToSet(<<>>) = {}
  BY SetNone DEF PlacesInv, OnceInPlace
<1>5. CASE UNCHANGED <<pending, push, dropped>>
  <2>1. CarriedOK'
    BY <1>5 DEF PlacesInv, CarriedOK
  <2> QED
    BY <1>5, <2>1, PlacesStay
<1>6. CASE /\ push[Stream].at = "idle" /\ pending' = <<>> /\ UNCHANGED dropped
           /\ push' = [push EXCEPT ![Stream] = [Idle EXCEPT !.at = "post", !.held = pending]]
  <2>1. /\ push'[Stream].at = "post" /\ push'[Stream].own = <<>> /\ push'[Stream].held = pending
        /\ \A p \in Pusher \ {Stream} : push'[p] = push[p]
    BY <1>0, <1>6 DEF Idle
  <2>2. Carried(Stream) = {}
    BY <1>0, <1>4, <1>6 DEF PlacesInv, CarriedOK, Carried
  <2>3. Carried(Stream)' = ToSet(pending) /\ \A p \in Pusher \ {Stream} : Carried(p)' = Carried(p)
    BY <1>4, <2>1 DEF Carried
  <2>4. Moves(ToSet(pending), "pending", None, "push", Stream)
    <3>1. \A k \in Kind, x \in Spot, e \in Event :
            At(k, x, e)' <=> \/ At(k, x, e) /\ ~(e \in ToSet(pending) /\ k = "pending" /\ x = None)
                             \/ e \in ToSet(pending) /\ k = "push" /\ x = Stream
      BY <1>0, <1>1, <1>4, <1>6, <2>2, <2>3 DEF At
    <3> QED
      BY <1>0, <1>2, <1>3, <3>1 DEF Moves
  <2>5. Places'
    BY <1>0, <2>4, PlacesMoved DEF PlacesInv
  <2>6. CarriedOK'
    BY <1>4, <2>1 DEF PlacesInv, CarriedOK
  <2>7. OnceInPlace'
    BY <1>4, <1>6 DEF PlacesInv, OnceInPlace
  <2> QED
    BY <2>5, <2>6, <2>7 DEF PlacesInv
<1>7. CASE pending' = <<>> /\ dropped' = dropped \cup ToSet(pending) /\ UNCHANGED push
  <2>1. \A p \in Pusher : Carried(p)' = Carried(p)
    BY <1>7 DEF Carried
  <2>2. Moves(ToSet(pending), "pending", None, "dropped", None)
    <3>1. \A k \in Kind, x \in Spot, e \in Event :
            At(k, x, e)' <=> \/ At(k, x, e) /\ ~(e \in ToSet(pending) /\ k = "pending" /\ x = None)
                             \/ e \in ToSet(pending) /\ k = "dropped" /\ x = None
      BY <1>0, <1>1, <1>4, <1>7, <2>1 DEF At
    <3> QED
      BY <1>0, <1>2, <1>3, <3>1 DEF Moves
  <2>3. Places'
    BY <1>0, <2>2, PlacesMoved DEF PlacesInv
  <2>4. CarriedOK' /\ OnceInPlace'
    BY <1>4, <1>7 DEF PlacesInv, CarriedOK, OnceInPlace
  <2> QED
    BY <2>3, <2>4 DEF PlacesInv
<1> QED
  BY <1>5, <1>6, <1>7 DEF Flush

LEMMA PlacesNext == TypeInv /\ PlacesInv /\ [Next]_vars => PlacesInv'
<1> SUFFICES ASSUME TypeInv, PlacesInv, [Next]_vars PROVE PlacesInv'
  OBVIOUS
<1>0. push \in [Pusher -> Push] /\ pending \in Seq(Event) /\ happened \in Nat
  BY DEF TypeInv, TypeOK
<1>1. ASSUME UNCHANGED <<happened, queue, appending, push, encrypting, pending, chain, received, dropped, late>>
      PROVE  PlacesInv'
  <2>1. CarriedOK'
    BY <1>1 DEF PlacesInv, CarriedOK
  <2> QED
    BY <1>1, <2>1, PlacesStay
<1>2. CASE Clear \/ Closed \/ Stopped \/ UNCHANGED vars
  BY <1>1, <1>2 DEF Clear, Closed, Stopped, vars, queueVars, batchVars
<1>3. CASE Enqueue
  <2>1. /\ happened' = happened + 1 /\ happened + 1 \in Event
        /\ UNCHANGED <<queue, appending, push, encrypting, received, dropped, late>>
    BY <1>0, <1>3 DEF Enqueue, Happen, queueVars, Event
  <2>2. Append(pending, happened + 1) \in Seq(Event)
    BY <1>0, <2>1
  <2> QED
    BY <1>3, <2>1, <2>2, PlacesPending, PlacesBatch DEF Enqueue
<1>4. CASE DrainTimer \/ Close
  <2>1. /\ chain' = Batches /\ pending' = <<>>
        /\ UNCHANGED <<happened, queue, appending, push, encrypting, received, dropped, late>>
    BY <1>4 DEF DrainTimer, Close, queueVars
  <2>2. CASE pending = <<>>
    BY <1>1, <2>1, <2>2 DEF Batches
  <2>3. CASE pending # <<>>
    BY <1>0, <2>1, <2>3, PlacesBatch DEF Batches
  <2> QED
    BY <2>2, <2>3
<1>5. CASE NextBatch
  BY <1>5, PlacesNextBatch
<1>6. CASE PushStream
  BY <1>6, PlacesPushStream
<1>7. CASE FlushTimer \/ Stop
  BY <1>7, PlacesFlush DEF FlushTimer, Stop, queueVars
<1>8. CASE RecordStream
  <2>1. Stream \in Pusher
    BY DEF Pusher
  <2>2. push[Stream].at = "record" /\ push[Stream].own = <<>> /\ push[Stream].held = <<>>
    BY <1>8, <2>1 DEF RecordStream, PlacesInv, CarriedOK
  <2>3. /\ push'[Stream].at = "idle" /\ push'[Stream].own = <<>> /\ push'[Stream].held = <<>>
        /\ \A p \in Pusher \ {Stream} : push'[p] = push[p]
    BY <1>0, <1>8, <2>1 DEF RecordStream, Idle
  <2>4. UNCHANGED <<happened, appending, queue, encrypting, pending, chain, received, dropped, late>>
    BY <1>8 DEF RecordStream, queueVars
  <2> QED
    BY <2>1, <2>2, <2>3, <2>4, PlacesGoOn
<1>9. CASE Tick
  <2>1. \A p \in Pusher : push'[p] = [push[p] EXCEPT !.next = Less(@)]
    BY <1>9 DEF Tick
  <2>2. \A p \in Pusher : /\ push'[p].own = push[p].own /\ push'[p].held = push[p].held
                          /\ push'[p].at = push[p].at
    BY <1>0, <2>1 DEF Push
  <2>3. UNCHANGED <<happened, appending, queue, encrypting, pending, chain, received, dropped, late>>
    BY <1>9 DEF Tick, queueVars, batchVars
  <2>4. CarriedOK'
    BY <2>2 DEF PlacesInv, CarriedOK
  <2> QED
    BY <2>2, <2>3, <2>4, PlacesStay
<1> QED
  BY <1>2, <1>3, <1>4, <1>5, <1>6, <1>7, <1>8, <1>9, PlacesDeferOpen, PlacesDeferWrite,
     PlacesPushHook, PlacesCrash, PlacesPushStep, PlacesBuffer, PlacesWithhold DEF Next

IInv == TypeInv /\ PlacesInv

(* Every event that happened is in just one place, and no sequence has it
   twice. *)
THEOREM IInvCorrect == Spec => []IInv
<1>1. Init => IInv
  BY TypeInvInit, PlacesInit DEF IInv
<1>2. IInv /\ [Next]_vars => IInv'
  BY TypeInvNext, PlacesNext DEF IInv
<1> QED
  BY <1>1, <1>2, PTL DEF Spec

-----------------------------------------------------------------------------
(* Counting the places. *)

(* A set of at most one element counts 1 just when it has one. *)
LEMMA CountOne ==
    ASSUME NEW S, \A x, y \in S : x = y
    PROVE  Cardinality(S) = IF S = {} THEN 0 ELSE 1
<1>1. CASE S = {}
  BY <1>1, FS_EmptySet
<1>2. CASE S # {}
  <2>1. PICK x : x \in S
    BY <1>2
  <2>2. S = {x}
    BY <2>1
  <2> QED
    BY <1>2, <2>2, FS_Singleton
<1> QED
  BY <1>1, <1>2

(* The sets of places that EachOnce counts. *)
LEMMA CountPlaces ==
    ASSUME IInv, NEW e \in 1..happened
    PROVE  /\ Cardinality({h \in Hook : appending[h].event = e})
                = IF \E x \in Spot : At("hook", x, e) THEN 1 ELSE 0
           /\ Cardinality({p \in Pusher : e \in ToSet(push[p].own) \cup ToSet(push[p].held)})
                = IF \E x \in Spot : At("push", x, e) THEN 1 ELSE 0
           /\ (IF queue # None /\ e \in ToSet(queue) THEN 1 ELSE 0)
                = IF \E x \in Spot : At("queue", x, e) THEN 1 ELSE 0
           /\ (IF e \in encrypting THEN 1 ELSE 0)
                = IF \E x \in Spot : At("encrypting", x, e) THEN 1 ELSE 0
           /\ (IF e \in ToSet(pending) THEN 1 ELSE 0)
                = IF \E x \in Spot : At("pending", x, e) THEN 1 ELSE 0
           /\ Cardinality({i \in DOMAIN chain : e \in ToSet(chain[i])})
                = IF \E x \in Spot : At("chain", x, e) THEN 1 ELSE 0
           /\ Cardinality({i \in DOMAIN received : received[i] = e})
                = IF \E x \in Spot : At("received", x, e) THEN 1 ELSE 0
           /\ Cardinality({e} \cap dropped) = IF \E x \in Spot : At("dropped", x, e) THEN 1 ELSE 0
           /\ Cardinality({e} \cap late) = IF \E x \in Spot : At("late", x, e) THEN 1 ELSE 0
<1>0. e \in Event /\ None \in Spot /\ Hook \subseteq Spot /\ Pusher \subseteq Spot
  BY DEF Event, Spot, Pusher, IInv, TypeInv, TypeOK
<1>00. \A k \in Kind, x, y \in Spot : At(k, x, e) /\ At(k, y, e) => x = y
  BY DEF IInv, PlacesInv, Places, Alone
<1>1. Cardinality({h \in Hook : appending[h].event = e})
        = IF \E x \in Spot : At("hook", x, e) THEN 1 ELSE 0
  <2>1. \A x \in Spot : At("hook", x, e) <=> x \in Hook /\ appending[x].event = e
    BY DEF At
  <2>2. \A h \in Hook, g \in Hook : appending[h].event = e /\ appending[g].event = e => h = g
    BY <1>0, <1>00, <2>1 DEF Kind
  <2>3. {h \in Hook : appending[h].event = e} = {} <=> ~\E x \in Spot : At("hook", x, e)
    BY <1>0, <2>1
  <2> QED
    BY <2>2, <2>3, CountOne
<1>2. Cardinality({p \in Pusher : e \in ToSet(push[p].own) \cup ToSet(push[p].held)})
        = IF \E x \in Spot : At("push", x, e) THEN 1 ELSE 0
  <2>1. \A x \in Spot : At("push", x, e) <=> x \in Pusher /\ e \in ToSet(push[x].own) \cup ToSet(push[x].held)
    BY DEF At, Carried
  <2>2. \A p, q \in {r \in Pusher : e \in ToSet(push[r].own) \cup ToSet(push[r].held)} : p = q
    BY <1>0, <1>00, <2>1 DEF Kind
  <2>3. {r \in Pusher : e \in ToSet(push[r].own) \cup ToSet(push[r].held)} = {}
          <=> ~\E x \in Spot : At("push", x, e)
    BY <1>0, <2>1
  <2> QED
    BY <2>2, <2>3, CountOne
<1>3. (IF queue # None /\ e \in ToSet(queue) THEN 1 ELSE 0) = IF \E x \in Spot : At("queue", x, e) THEN 1 ELSE 0
  BY <1>0 DEF At, Deferred
<1>4. (IF e \in ToSet(pending) THEN 1 ELSE 0) = IF \E x \in Spot : At("pending", x, e) THEN 1 ELSE 0
  BY <1>0 DEF At
<1>5. Cardinality({i \in DOMAIN chain : e \in ToSet(chain[i])}) = IF \E x \in Spot : At("chain", x, e) THEN 1 ELSE 0
  <2>1. \A i, j \in {k \in DOMAIN chain : e \in ToSet(chain[k])} : i = j
    BY DEF IInv, PlacesInv, OnceInPlace
  <2>2. {i \in DOMAIN chain : e \in ToSet(chain[i])} = {} <=> e \notin Chained
    BY DEF Chained
  <2>3. e \in Chained <=> \E x \in Spot : At("chain", x, e)
    BY <1>0 DEF At
  <2> QED
    BY <2>1, <2>2, <2>3, CountOne
<1>6. Cardinality({i \in DOMAIN received : received[i] = e}) = IF \E x \in Spot : At("received", x, e) THEN 1 ELSE 0
  <2>1. \A i, j \in {k \in DOMAIN received : received[k] = e} : i = j
    BY DEF IInv, PlacesInv, OnceInPlace, Single
  <2>2. {i \in DOMAIN received : received[i] = e} = {} <=> e \notin ToSet(received)
    BY DEF ToSet
  <2>3. e \in ToSet(received) <=> \E x \in Spot : At("received", x, e)
    BY <1>0 DEF At
  <2> QED
    BY <2>1, <2>2, <2>3, CountOne
<1>7. Cardinality({e} \cap dropped) = IF \E x \in Spot : At("dropped", x, e) THEN 1 ELSE 0
  <2>1. {e} \cap dropped = {} <=> ~\E x \in Spot : At("dropped", x, e)
    BY <1>0 DEF At
  <2> QED
    BY <2>1, CountOne
<1>8. Cardinality({e} \cap late) = IF \E x \in Spot : At("late", x, e) THEN 1 ELSE 0
  <2>1. {e} \cap late = {} <=> ~\E x \in Spot : At("late", x, e)
    BY <1>0 DEF At
  <2> QED
    BY <2>1, CountOne
<1>9. (IF e \in encrypting THEN 1 ELSE 0) = IF \E x \in Spot : At("encrypting", x, e) THEN 1 ELSE 0
  BY <1>0 DEF At
<1> QED
  BY <1>1, <1>2, <1>3, <1>4, <1>5, <1>6, <1>7, <1>8, <1>9

(* EachOnce, for any number of hooks: no two pushes take the same deferred
   events, and none is forgotten (takeDeferredPush, drain, doFlush). *)
THEOREM EachOnceAlways == Spec => []EachOnce
<1>1. ASSUME IInv, NEW e \in 1..happened
      PROVE  Waiting(e) + Cardinality({i \in DOMAIN received : received[i] = e})
             + Cardinality({e} \cap dropped) + Cardinality({e} \cap late) = 1
  <2> DEFINE Holds(k) == \E x \in Spot : At(k, x, e)
             N(k) == IF Holds(k) THEN 1 ELSE 0
  <2>1. /\ Waiting(e) = N("hook") + N("push") + N("queue") + N("encrypting") + N("pending") + N("chain")
        /\ Cardinality({i \in DOMAIN received : received[i] = e}) = N("received")
        /\ Cardinality({e} \cap dropped) = N("dropped")
        /\ Cardinality({e} \cap late) = N("late")
    BY <1>1, CountPlaces DEF Waiting
  <2>2. PICK k \in Kind : Holds(k)
    BY <1>1 DEF IInv, PlacesInv, Places, Placed
  <2>3. \A l \in Kind : Holds(l) => l = k
    BY <1>1, <2>2 DEF IInv, PlacesInv, Places, Alone
  <2> HIDE DEF Holds
  <2>4. \A l \in Kind : N(l) = IF l = k THEN 1 ELSE 0
    BY <2>2, <2>3
  <2> HIDE DEF N
  <2> QED
    BY <2>1, <2>2, <2>4 DEF Kind
<1>2. IInv => EachOnce
  BY <1>1 DEF EachOnce
<1> QED
  BY <1>2, IInvCorrect, PTL

-----------------------------------------------------------------------------
(* The pusher that has batches or a buffer: the proxy, or the transport.  The
   other deployment does nothing. *)

Line == IF deployment = "hooks" THEN Proxy ELSE Stream

OfLine == {e \in Event : source[e] = Line}

OneDeployment ==
    /\ deployment = "hooks" => push[Stream].at = "idle" /\ encrypting = {}
    /\ deployment = "stream" =>
         /\ \A p \in Pusher \ {Stream} : push[p].at = "idle"
         /\ queue = None /\ chain = <<>> /\ \A h \in Hook : appending[h].to = "none"
    /\ push[Stream].at \in {"idle", "post", "record"}

LEMMA DeploymentInit == Init => OneDeployment
BY PushAssumption DEF Init, OneDeployment, Idle, Pusher

LEMMA DeploymentNext == TypeInv /\ OneDeployment /\ [Next]_vars => OneDeployment'
<1> SUFFICES ASSUME TypeInv, OneDeployment, [Next]_vars PROVE OneDeployment'
  OBVIOUS
<1>0. /\ push \in [Pusher -> Push] /\ Stream \in Pusher /\ Proxy \in Pusher /\ Proxy # Stream
      /\ Hook \subseteq Pusher /\ Stream \notin Hook /\ deployment \in {"hooks", "stream"}
      /\ appending \in [Hook -> [to : {"none", "queue", "gone"} \cup Pusher, event : Nat]]
  BY PushAssumption DEF TypeInv, TypeOK, Pusher
<1>1. deployment' = deployment
  BY DEF Next, DeferOpen, DeferWrite, PushHook, Crash, PushStep, Take, ReadTaken, CheckGate, Post,
         Record, Unlink, Truncate, Fill, Clear, Enqueue, DrainTimer, NextBatch, Close, Closed,
         PushStream, Buffer, Withhold, FlushTimer, RecordStream, Stop, Stopped, Tick, vars
<1>E. deployment = "hooks" => encrypting' = encrypting
  BY PushAssumption DEF Next, DeferOpen, DeferWrite, PushHook, Crash, PushStep, Take, ReadTaken, CheckGate,
         Post, Record, Unlink, Truncate, Fill, End, Clear, Enqueue, DrainTimer, NextBatch, Close, Closed,
         PushStream, Buffer, Withhold, FlushTimer, RecordStream, Stop, Stopped, Tick, vars, batchVars
<1>2. ASSUME deployment = "hooks", push'[Stream] = push[Stream] PROVE OneDeployment'
  BY <1>0, <1>1, <1>E, <1>2 DEF OneDeployment
<1>3. ASSUME NEW h \in Hook, DeferOpen(h) \/ PushHook(h) PROVE OneDeployment'
  <2>1. push'[Stream] = push[Stream] /\ deployment = "hooks"
    BY <1>0, <1>3 DEF DeferOpen, PushHook
  <2> QED
    BY <1>2, <2>1
<1>4. ASSUME NEW h \in Hook, DeferWrite(h) PROVE OneDeployment'
  <2>1. appending[h].to \in {"queue", "gone"} \cup Pusher
    BY <1>4 DEF DeferWrite
  <2>2. deployment = "hooks"
    BY <1>0, <2>1, PushAssumption DEF OneDeployment
  <2>3. appending[h].to # Stream
    BY <1>0 DEF TypeInv, HookOK, OneDeployment
  <2>4. push'[Stream] = push[Stream]
    BY <1>0, <1>4, <2>3 DEF DeferWrite
  <2> QED
    BY <1>2, <2>2, <2>4
<1>5. ASSUME NEW h \in Hook, Crash(h) PROVE OneDeployment'
  <2>1. deployment = "hooks"
    BY <1>0, <1>5 DEF Crash, OneDeployment
  <2>2. push'[Stream] = push[Stream]
    BY <1>0, <1>5 DEF Crash
  <2> QED
    BY <1>2, <2>1, <2>2
<1>6. ASSUME NEW p \in Pusher, PushStep(p) PROVE OneDeployment'
  <2>1. push[p].at # "idle"
    BY <1>6 DEF PushStep, Take, ReadTaken, CheckGate, Post, Record, Unlink, Truncate, Fill
  <2>2. \A q \in Pusher \ {p} : push'[q] = push[q]
    BY <1>0, <1>6 DEF PushStep, Take, ReadTaken, CheckGate, Post, Record, Unlink, Truncate, Fill, End
  <2>3. CASE p # Stream
    <3>1. deployment = "hooks"
      BY <1>0, <2>1, <2>3 DEF OneDeployment
    <3> QED
      BY <1>0, <1>2, <2>2, <2>3, <3>1
  <2>4. CASE p = Stream
    <3>1. Post(p)
      BY <1>6, <2>1, <2>4
         DEF OneDeployment, PushStep, Take, ReadTaken, CheckGate, Post, Record, Unlink, Truncate, Fill
    <3>2. push'[p].at = "record"
      BY <1>0, <3>1 DEF Post, Push
    <3>3. UNCHANGED <<queue, chain, appending>>
      BY <3>1 DEF Post, queueVars, batchVars
    <3>4. deployment = "stream"
      BY <1>0, <2>1, <2>4 DEF OneDeployment
    <3> QED
      BY <1>1, <2>2, <2>4, <3>2, <3>3, <3>4 DEF OneDeployment
  <2> QED
    BY <2>3, <2>4
<1>7. CASE \/ Clear \/ Enqueue \/ DrainTimer \/ Close \/ Closed \/ PushStream \/ Stopped
           \/ \E e \in encrypting : Buffer(e) \/ Withhold(e)
           \/ UNCHANGED vars
  <2>1. push' = push
    BY <1>7 DEF Clear, Enqueue, DrainTimer, Close, Closed, PushStream, Buffer, Withhold, Stopped, vars
  <2>2. deployment = "hooks" \/ UNCHANGED <<queue, chain, appending>>
    BY <1>7 DEF Clear, Enqueue, DrainTimer, Close, Closed, PushStream, Buffer, Withhold, Stopped, vars, queueVars, batchVars
  <2> QED
    BY <1>0, <1>1, <1>2, <2>1, <2>2 DEF OneDeployment
<1>8. CASE NextBatch
  <2>1. deployment = "hooks" /\ push'[Stream] = push[Stream]
    BY <1>0, <1>8 DEF NextBatch, OneDeployment
  <2> QED
    BY <1>2, <2>1
<1>9. CASE FlushTimer \/ Stop \/ RecordStream
  <2>1. deployment = "stream" /\ UNCHANGED <<queue, chain, appending>>
    BY <1>0, <1>9 DEF FlushTimer, Stop, RecordStream, queueVars, OneDeployment
  <2>2. \A p \in Pusher \ {Stream} : push'[p] = push[p]
    BY <1>0, <1>9 DEF FlushTimer, Stop, RecordStream, Flush
  <2>3. push'[Stream].at \in {"idle", "post", "record"}
    <3>1. CASE RecordStream
      BY <1>0, <3>1 DEF RecordStream, Idle
    <3>2. CASE Flush
      BY <1>0, <3>2 DEF Flush, Idle, OneDeployment
    <3> QED
      BY <1>9, <3>1, <3>2 DEF FlushTimer, Stop
  <2> QED
    BY <1>1, <2>1, <2>2, <2>3 DEF OneDeployment
<1>10. CASE Tick
  <2>1. \A p \in Pusher : push'[p].at = push[p].at
    BY <1>0, <1>10 DEF Tick, Push
  <2> QED
    BY <1>0, <1>1, <1>10, <2>1 DEF OneDeployment, Tick, queueVars, batchVars
<1> QED
  BY <1>3, <1>4, <1>5, <1>6, <1>7, <1>8, <1>9, <1>10 DEF Next

LEMMA SameDeployment == [Next]_vars => deployment' = deployment
BY DEF Next, DeferOpen, DeferWrite, PushHook, Crash, PushStep, Take, ReadTaken, CheckGate, Post,
       Record, Unlink, Truncate, Fill, Clear, Enqueue, DrainTimer, NextBatch, Close, Closed,
       PushStream, Buffer, Withhold, FlushTimer, RecordStream, Stop, Stopped, Tick, vars

(* Only hooks defer events, and only the line's own pusher carries the events
   of the line, which it does not take from the queue. *)
SourceOK ==
    /\ \A e \in 1..happened : source[e] \in Hook \cup {Line}
    /\ \A h \in Hook : appending[h].event \notin OfLine
    /\ Deferred \cap OfLine = {}
    /\ \A p \in Pusher \ {Line} : Carried(p) \cap OfLine = {}
    /\ push[Line].at = "read" => ToSet(push[Line].held) \cap OfLine = {}

LEMMA LineType ==
    ASSUME TypeInv
    PROVE  Line \in {Proxy, Stream} /\ Line \in Pusher /\ Line \notin Hook /\ Hook \subseteq Pusher
BY PushAssumption DEF Line, Pusher

(* The events that are somewhere have happened. *)
LEMMA Known ==
    ASSUME IInv
    PROVE  /\ \A h \in Hook : appending[h].event \in 1..happened \/ appending[h].event = 0
           /\ Deferred \subseteq 1..happened
           /\ \A p \in Pusher : Carried(p) \subseteq 1..happened
           /\ ToSet(pending) \subseteq 1..happened
           /\ Chained \subseteq 1..happened
           /\ ToSet(received) \subseteq 1..happened
<1>1. \A k \in Kind, x \in Spot, e \in Event : At(k, x, e) => e \in 1..happened
  BY DEF IInv, PlacesInv, Places
<1>2. None \in Spot /\ Hook \subseteq Spot /\ Pusher \subseteq Spot
  BY DEF Spot, Pusher
<1>3. ASSUME NEW h \in Hook, appending[h].event # 0 PROVE appending[h].event \in 1..happened
  <2>1. appending[h].event \in Event /\ At("hook", h, appending[h].event)
    BY <1>3 DEF IInv, TypeInv, TypeOK, Event, At
  <2> QED
    BY <1>1, <1>2, <2>1 DEF Kind
<1>4. ASSUME NEW e \in Deferred PROVE e \in 1..happened
  <2>1. e \in Event
    BY <1>4 DEF IInv, TypeInv, TypeOK, Deferred, ToSet
  <2>2. At("queue", None, e)
    BY <1>4 DEF At
  <2> QED
    BY <1>1, <1>2, <2>1, <2>2 DEF Kind
<1>5. ASSUME NEW p \in Pusher, NEW e \in Carried(p) PROVE e \in 1..happened
  BY <1>1, <1>2, <1>5, CarriedType DEF IInv
<1>6. ASSUME NEW e \in ToSet(pending) PROVE e \in 1..happened
  <2>1. e \in Event /\ At("pending", None, e)
    BY <1>6 DEF IInv, TypeInv, TypeOK, ToSet, At
  <2> QED
    BY <1>1, <1>2, <2>1 DEF Kind
<1>7. ASSUME NEW e \in Chained PROVE e \in 1..happened
  <2>1. e \in Event
    <3>1. PICK i \in DOMAIN chain : e \in ToSet(chain[i])
      BY <1>7 DEF Chained
    <3>2. chain[i] \in Seq(Event)
      BY DEF IInv, TypeInv, TypeOK
    <3> QED
      BY <3>1, <3>2 DEF ToSet
  <2>2. At("chain", None, e)
    BY <1>7 DEF At
  <2> QED
    BY <1>1, <1>2, <2>1, <2>2 DEF Kind
<1>8. ASSUME NEW e \in ToSet(received) PROVE e \in 1..happened
  <2>1. e \in Event /\ At("received", None, e)
    BY <1>8 DEF IInv, TypeInv, TypeOK, ToSet, At
  <2> QED
    BY <1>1, <1>2, <2>1 DEF Kind
<1> QED
  BY <1>3, <1>4, <1>5, <1>6, <1>7, <1>8

(* Which events are the line's never changes, and a new one is just when it
   happens to the line's pusher. *)
LEMMA LineSame ==
    ASSUME IInv, [Next]_vars
    PROVE  /\ Line' = Line /\ happened \in Nat /\ happened' \in Nat /\ happened' >= happened
           /\ \A e \in 1..happened : e \in OfLine' <=> e \in OfLine
           /\ UNCHANGED <<happened, source>> \/ \E p \in Hook \cup {Line} : Happen(p)
<1>1. Line' = Line /\ happened \in Nat
  BY SameDeployment DEF Line, IInv, TypeInv, TypeOK
<1>2. UNCHANGED <<happened, source>> \/ \E p \in Hook \cup {Line} : Happen(p)
  BY PushAssumption DEF Next, DeferOpen, DeferWrite, PushHook, Crash, PushStep, Take, ReadTaken, CheckGate, Post,
         Record, Unlink, Truncate, Fill, Clear, Enqueue, DrainTimer, NextBatch, Close, Closed,
         PushStream, Buffer, Withhold, FlushTimer, RecordStream, Stop, Stopped, Tick, vars, Line
<1>3. CASE UNCHANGED <<happened, source>>
  BY <1>1, <1>2, <1>3 DEF OfLine, Event
<1>4. ASSUME NEW p \in Hook \cup {Line}, Happen(p)
      PROVE  happened' \in Nat /\ happened' >= happened /\ \A e \in 1..happened : e \in OfLine' <=> e \in OfLine
  <2>1. p \in Pusher
    BY LineType DEF IInv
  <2>2. happened' = happened + 1 /\ \A e \in 1..happened : source'[e] = source[e]
    BY <1>4, <2>1, HappenType DEF IInv, TypeInv
  <2> QED
    BY <1>1, <2>2 DEF OfLine, Event
<1> QED
  BY <1>1, <1>2, <1>3, <1>4

LEMMA SourceInit == Init => SourceOK
<1> SUFFICES ASSUME Init PROVE SourceOK
  OBVIOUS
<1>1. \A p \in Pusher : push[p] = Idle
  BY DEF Init
<1>2. \A p \in Pusher : Carried(p) = {}
  BY <1>1, SetNone DEF Carried, Idle
<1>3. Deferred = {} /\ \A h \in Hook : appending[h].event = 0
  BY DEF Init, Deferred
<1>4. push[Line].at = "idle"
  BY <1>1 DEF Idle, Line, Pusher
<1> QED
  BY <1>2, <1>3, <1>4 DEF Init, SourceOK, OfLine, Event

(* The events that happen come from hooks or the line. *)
LEMMA SourceHappens ==
    ASSUME IInv, SourceOK, [Next]_vars
    PROVE  \A e \in 1..happened' : source'[e] \in Hook \cup {Line}
<1>1. Line' = Line /\ happened \in Nat
  BY LineSame
<1>2. CASE UNCHANGED <<happened, source>>
  BY <1>2 DEF SourceOK
<1>3. ASSUME NEW p \in Hook \cup {Line}, Happen(p) PROVE \A e \in 1..happened' : source'[e] \in Hook \cup {Line}
  <2>1. p \in Pusher
    BY LineType DEF IInv
  <2>2. /\ happened' = happened + 1 /\ source'[happened + 1] = p
        /\ \A e \in 1..happened : source'[e] = source[e]
    BY <1>3, <2>1, HappenType DEF IInv, TypeInv
  <2>3. \A e \in 1..happened + 1 : e = happened + 1 \/ e \in 1..happened
    BY <1>1
  <2> QED
    BY <2>2, <2>3 DEF SourceOK
<1> QED
  BY <1>2, <1>3, LineSame

(* Nothing that the line's events must keep out of gains an event. *)
LEMMA SourceStays ==
    ASSUME IInv, SourceOK, [Next]_vars,
           \A h \in Hook : appending'[h].event \in {appending[h].event, 0},
           Deferred' \subseteq Deferred,
           \A p \in Pusher \ {Line} : Carried(p)' \subseteq Carried(p),
           push'[Line].at = "read" => push[Line].at = "read" /\ push'[Line].held = push[Line].held
    PROVE  SourceOK'
<1>1. Line' = Line /\ Line \in Pusher /\ \A e \in 1..happened : e \in OfLine' <=> e \in OfLine
  BY LineSame, LineType DEF IInv
<1>2. 0 \notin OfLine'
  BY DEF OfLine, Event
<1>3. ToSet(push[Line].held) \subseteq 1..happened
  BY <1>1, Known DEF Carried
<1>4. \A h \in Hook : appending'[h].event \notin OfLine'
  BY <1>1, <1>2, Known DEF SourceOK
<1>5. Deferred' \cap OfLine' = {}
  BY <1>1, Known DEF SourceOK
<1>6. \A p \in Pusher \ {Line} : Carried(p)' \cap OfLine' = {}
  BY <1>1, Known DEF SourceOK
<1>7. push'[Line].at = "read" => ToSet(push'[Line].held) \cap OfLine' = {}
  BY <1>1, <1>3 DEF SourceOK
<1> QED
  BY <1>1, <1>4, <1>5, <1>6, <1>7, SourceHappens DEF SourceOK

LEMMA RestWithin ==
    ASSUME NEW T, NEW s \in Seq(T), NEW k \in 0..Len(s)
    PROVE  /\ SubSeq(s, k + 1, Len(s)) \in Seq(T)
           /\ ToSet(SubSeq(s, k + 1, Len(s))) \subseteq ToSet(s)
BY SetRest

(* What a pusher carries grows only when it takes the queue, a hook appends to
   the file it took, a batch begins, or an event happens to it. *)
LEMMA CarriedLess ==
    ASSUME IInv, NEW p \in Pusher, PushStep(p), ~Take(p)
    PROVE  /\ \A q \in Pusher : Carried(q)' \subseteq Carried(q)
           /\ \A q \in Pusher \ {p} : push'[q] = push[q]
           /\ push'[p].at # "read"
           /\ \A h \in Hook : appending'[h].event = appending[h].event
           /\ queue' = queue
<1>0. push \in [Pusher -> Push] /\ push[p] \in Push
  BY DEF IInv, TypeInv, TypeOK
<1>1. \A q \in Pusher \ {p} : push'[q] = push[q]
  BY <1>0 DEF PushStep, ReadTaken, CheckGate, Post, Record, Unlink, Truncate, Fill, End
<1>2. /\ queue' = queue /\ \A h \in Hook : appending'[h].event = appending[h].event
  <2>1. CASE ReadTaken(p)
    BY <2>1 DEF ReadTaken, IInv, TypeInv, TypeOK
  <2> QED
    BY <2>1 DEF PushStep, CheckGate, Post, Record, Unlink, Truncate, Fill, queueVars
<1>3. ASSUME push'[p].own = push[p].own \/ push'[p].own = <<>>,
             push'[p].held = push[p].held \/ push'[p].held = <<>>
      PROVE  Carried(p)' \subseteq Carried(p)
  BY <1>3, SetNone DEF Carried
<1>4. CASE ReadTaken(p)
  <2>1. PICK rest : /\ push'[p].at = "check" /\ push'[p].own = push[p].own
                    /\ push'[p].held = rest \o push[p].own
                    /\ rest = SubSeq(push[p].held, Bigger(Len(push[p].held) - MaxDeferred, 0) + 1, Len(push[p].held))
    BY <1>0, <1>4 DEF ReadTaken, Push
  <2>2. PICK skipped \in 0..Len(push[p].held) : skipped = Bigger(Len(push[p].held) - MaxDeferred, 0)
    <3>1. Len(push[p].held) \in Nat /\ MaxDeferred \in Nat
      BY <1>0, PushAssumption DEF Push
    <3> QED
      BY <3>1 DEF Bigger
  <2>3. push[p].held \in Seq(Event) /\ push[p].own \in Seq(Event)
    BY <1>0 DEF Push
  <2>4. rest \in Seq(Event) /\ ToSet(rest) \subseteq ToSet(push[p].held)
    <3> DEFINE s == push[p].held
    <3>1. s \in Seq(Event) /\ skipped \in 0..Len(s) /\ rest = SubSeq(s, skipped + 1, Len(s))
      BY <2>1, <2>2, <2>3
    <3> HIDE DEF s
    <3>2. SubSeq(s, skipped + 1, Len(s)) \in Seq(Event) /\ ToSet(SubSeq(s, skipped + 1, Len(s))) \subseteq ToSet(s)
      BY ONLY <3>1, RestWithin
    <3> QED
      BY <3>1, <3>2 DEF s
  <2>5. ToSet(rest \o push[p].own) = ToSet(rest) \cup ToSet(push[p].own)
    BY <2>3, <2>4, SetConcat
  <2>6. Carried(p)' \subseteq Carried(p)
    BY <2>1, <2>4, <2>5 DEF Carried
  <2> QED
    BY <1>1, <1>2, <2>1, <2>6 DEF Carried
<1>5. CASE ~ReadTaken(p)
  <2>1. /\ push'[p].own = push[p].own \/ push'[p].own = <<>>
        /\ push'[p].held = push[p].held \/ push'[p].held = <<>>
        /\ push'[p].at # "read"
    <3>1. CASE CheckGate(p)
      BY <1>0, <3>1 DEF CheckGate, End, Idle, Push
    <3>2. CASE Post(p)
      BY <1>0, <3>2 DEF Post, Push
    <3>3. CASE Record(p)
      <4>1. CASE End(p)
        BY <1>0, <4>1 DEF End, Idle
      <4>2. CASE push' = [push EXCEPT ![p].at = "unlink"]
        BY <1>0, <4>2 DEF Push
      <4>3. ASSUME NEW next, push' = [push EXCEPT ![p].at = "truncate", ![p].next = next]
            PROVE  /\ push'[p].own = push[p].own /\ push'[p].held = push[p].held /\ push'[p].at = "truncate"
        BY <1>0, <4>3 DEF Push
      <4> QED
        BY <3>3, <4>1, <4>2, <4>3 DEF Record
    <3>4. CASE Unlink(p) \/ Fill(p)
      BY <1>0, <3>4 DEF Unlink, Fill, End, Idle
    <3>5. CASE Truncate(p)
      BY <1>0, <3>5 DEF Truncate, Push
    <3> QED
      BY <1>5, <3>1, <3>2, <3>3, <3>4, <3>5 DEF PushStep
  <2>2. Carried(p)' \subseteq Carried(p)
    BY <1>3, <2>1
  <2> QED
    BY <1>1, <1>2, <2>1, <2>2 DEF Carried
<1> QED
  BY <1>4, <1>5

LEMMA SourceNext == IInv /\ OneDeployment /\ SourceOK /\ [Next]_vars => SourceOK'
<1> SUFFICES ASSUME IInv, OneDeployment, SourceOK, [Next]_vars PROVE SourceOK'
  OBVIOUS
<1>0. /\ push \in [Pusher -> Push] /\ Line \in Pusher /\ Line \in {Proxy, Stream} /\ Hook \subseteq Pusher
      /\ Line \notin Hook
      /\ appending \in [Hook -> [to : {"none", "queue", "gone"} \cup Pusher, event : Nat]]
  BY LineType DEF IInv, TypeInv, TypeOK
<1>L. /\ Line' = Line /\ happened \in Nat /\ \A e \in 1..happened : e \in OfLine' <=> e \in OfLine
  BY LineSame
<1>S. \A e \in 1..happened' : source'[e] \in Hook \cup {Line}
  BY SourceHappens
<1>1. ASSUME UNCHANGED <<queue, push>>, \A h \in Hook : appending'[h].event \in {appending[h].event, 0}
      PROVE  SourceOK'
  <2>1. Deferred' = Deferred /\ \A p \in Pusher : Carried(p)' = Carried(p)
    BY <1>1 DEF Deferred, Carried
  <2> QED
    BY <1>0, <1>1, <2>1, SourceStays
<1>2. ASSUME NEW h \in Hook, Happen(h)
      PROVE  /\ happened + 1 \notin OfLine' /\ happened' = happened + 1
  BY <1>0, <1>2, <1>L, HappenType DEF IInv, TypeInv, OfLine
<1>3. ASSUME NEW h \in Hook, DeferOpen(h) PROVE SourceOK'
  <2>1. \A g \in Hook : appending'[g].event = IF g = h THEN happened + 1 ELSE appending[g].event
    BY <1>0, <1>3 DEF DeferOpen
  <2>2. Deferred' = Deferred /\ push' = push /\ \A p \in Pusher : Carried(p)' = Carried(p)
    BY <1>3, SetNone DEF DeferOpen, Deferred, Carried
  <2>3. \A g \in Hook : appending'[g].event \notin OfLine'
    <3>1. 0 \notin OfLine' /\ happened + 1 \notin OfLine'
      BY <1>2, <1>3 DEF OfLine, Event, DeferOpen
    <3> QED
      BY <1>L, <2>1, <3>1, Known DEF SourceOK
  <2>4. ToSet(push[Line].held) \subseteq Carried(Line)
    BY DEF Carried
  <2> QED
    BY <1>0, <1>L, <1>S, <2>2, <2>3, <2>4, Known DEF SourceOK
<1>4. ASSUME NEW h \in Hook, DeferWrite(h) PROVE SourceOK'
  <2> PICK e : e = appending[h].event
    OBVIOUS
  <2>1. \A g \in Hook : appending'[g].event \in {appending[g].event, 0}
    BY <1>0, <1>4 DEF DeferWrite
  <2>2. e \notin OfLine /\ e \in 1..happened
    BY <1>0, <1>4, Known, PushAssumption DEF SourceOK, DeferWrite, IInv, TypeInv, HookOK
  <2>3. e \notin OfLine'
    BY <1>L, <2>2
  <2>4. \A g \in Hook : appending'[g].event \notin OfLine'
    <3>1. 0 \notin OfLine'
      BY DEF OfLine, Event
    <3> QED
      BY <1>L, <2>1, <3>1, Known DEF SourceOK
  <2>5. CASE UNCHANGED <<queue, push>>
    BY <1>1, <2>1, <2>5
  <2>6. CASE appending[h].to = "queue" /\ queue' = Append(queue, e) /\ UNCHANGED push
    <3>1. queue \in Seq(Event) /\ queue # None
      BY <2>6 DEF IInv, TypeInv, TypeOK, HookOK
    <3>2. Deferred' \subseteq Deferred \cup {e}
      BY <2>6, <3>1, SetAppend DEF Deferred
    <3>3. Deferred' \cap OfLine' = {}
      BY <1>L, <2>3, <3>2, Known DEF SourceOK
    <3>4. \A p \in Pusher : Carried(p)' = Carried(p)
      BY <2>6 DEF Carried
    <3>5. ToSet(push[Line].held) \subseteq Carried(Line)
      BY DEF Carried
    <3> QED
      BY <1>0, <1>L, <1>S, <2>4, <2>6, <3>3, <3>4, <3>5, Known DEF SourceOK
  <2>7. ASSUME NEW p \in Pusher, push' = [push EXCEPT ![p].held = Append(@, e)], UNCHANGED queue
        PROVE  SourceOK'
    <3>1. push[p].held \in Seq(Event) /\ push[p] \in Push
      BY <1>0 DEF Push
    <3>2. /\ push'[p].own = push[p].own /\ push'[p].held = Append(push[p].held, e)
          /\ push'[p].at = push[p].at
          /\ \A q \in Pusher \ {p} : push'[q] = push[q]
      BY <1>0, <2>7, <3>1 DEF Push
    <3>3. ToSet(push'[p].held) = ToSet(push[p].held) \cup {e}
      BY <3>1, <3>2, SetAppend
    <3>4. \A q \in Pusher : Carried(q)' \subseteq Carried(q) \cup {e}
      BY <3>2, <3>3 DEF Carried
    <3>5. \A q \in Pusher \ {Line} : Carried(q)' \cap OfLine' = {}
      BY <1>L, <2>3, <3>4, Known DEF SourceOK
    <3>6. ToSet(push'[Line].held) \subseteq ToSet(push[Line].held) \cup {e}
      BY <1>0, <3>2, <3>3
    <3>7. push'[Line].at = push[Line].at
      BY <1>0, <3>2
    <3>8. ToSet(push[Line].held) \subseteq 1..happened
      BY <1>0, Known DEF Carried
    <3>9. push'[Line].at = "read" => ToSet(push'[Line].held) \cap OfLine' = {}
      BY <1>L, <2>3, <3>6, <3>7, <3>8 DEF SourceOK
    <3>10. Deferred' = Deferred
      BY <2>7 DEF Deferred
    <3>11. Deferred' \cap OfLine' = {}
      BY <1>L, <3>10, Known DEF SourceOK
    <3> QED
      BY <1>L, <1>S, <2>4, <3>5, <3>9, <3>11 DEF SourceOK
  <2> QED
    BY <1>4, <2>5, <2>6, <2>7 DEF DeferWrite
<1>5. ASSUME NEW h \in Hook, PushHook(h) PROVE SourceOK'
  <2>1. /\ push'[h].own = <<happened + 1>> /\ push'[h].held = <<>>
        /\ \A p \in Pusher \ {h} : push'[p] = push[p]
    BY <1>0, <1>5 DEF PushHook, Idle
  <2>2. Carried(h)' = {happened + 1} /\ \A p \in Pusher \ {h} : Carried(p)' = Carried(p)
    BY <2>1, SetNone, SetOne DEF Carried
  <2>3. Deferred' = Deferred /\ appending' = appending
    BY <1>5 DEF PushHook, Deferred, queueVars
  <2>4. happened + 1 \notin OfLine' /\ 0 \notin OfLine'
    BY <1>2, <1>5 DEF PushHook, OfLine, Event
  <2>5. \A p \in Pusher \ {Line} : Carried(p)' \cap OfLine' = {}
    BY <1>L, <2>2, <2>4, Known DEF SourceOK
  <2>6. push'[Line] = push[Line] /\ ToSet(push[Line].held) \subseteq 1..happened
    BY <1>0, <2>1, Known DEF Carried
  <2>7. \A g \in Hook : appending'[g].event \notin OfLine'
    BY <1>L, <2>3, <2>4, Known DEF SourceOK
  <2>8. Deferred' \cap OfLine' = {}
    BY <1>L, <2>3, Known DEF SourceOK
  <2> QED
    BY <1>L, <1>S, <2>5, <2>6, <2>7, <2>8 DEF SourceOK
<1>6. ASSUME NEW h \in Hook, Crash(h) PROVE SourceOK'
  <2>1. push'[h] = Idle /\ \A p \in Pusher \ {h} : push'[p] = push[p]
    BY <1>0, <1>6 DEF Crash
  <2>2. \A p \in Pusher : Carried(p)' \subseteq Carried(p)
    BY <2>1, SetNone DEF Carried, Idle
  <2>3. Deferred' = Deferred /\ \A g \in Hook : appending'[g].event = appending[g].event
    BY <1>0, <1>6 DEF Crash, Deferred
  <2> QED
    BY <1>0, <2>1, <2>2, <2>3, SourceStays
<1>7. ASSUME NEW p \in Pusher, PushStep(p) PROVE SourceOK'
  <2>1. CASE Take(p) /\ queue # None
    <3>1. /\ push'[p].at = "read" /\ push'[p].own = push[p].own /\ push'[p].held = queue
          /\ \A q \in Pusher \ {p} : push'[q] = push[q]
      <4>1. push[p] \in Push
        BY <1>0
      <4> QED
        BY <1>0, <2>1, <4>1 DEF Take, Push
    <3>2. Deferred = ToSet(queue) /\ Deferred' = {}
      BY <2>1 DEF Take, Deferred
    <3>3. \A q \in Pusher : Carried(q)' \subseteq Carried(q) \cup Deferred
      BY <3>1, <3>2 DEF Carried
    <3>4. \A h \in Hook : appending'[h].event = appending[h].event
      <4>1. appending' = [h \in Hook |-> IF appending[h].to = "queue"
                                        THEN [appending[h] EXCEPT !.to = p] ELSE appending[h]]
        BY <2>1 DEF Take
      <4> QED
        BY <1>0, <4>1
    <3>5. \A q \in Pusher \ {Line} : Carried(q)' \cap OfLine' = {}
      BY <1>L, <3>3, Known DEF SourceOK
    <3>6. \A h \in Hook : appending'[h].event \notin OfLine'
      <4>1. 0 \notin OfLine'
        BY DEF OfLine, Event
      <4> QED
        BY <1>L, <3>4, <4>1, Known DEF SourceOK
    <3>7. push'[Line].at = "read" => ToSet(push'[Line].held) \cap OfLine' = {}
      <4>1. CASE p = Line
        BY <1>L, <3>1, <3>2, <4>1, Known DEF SourceOK
      <4>2. CASE p # Line
        <5>1. push'[Line] = push[Line] /\ ToSet(push[Line].held) \subseteq 1..happened
          BY <1>0, <3>1, <4>2, Known DEF Carried
        <5> QED
          BY <1>L, <5>1 DEF SourceOK
      <4> QED
        BY <4>1, <4>2
    <3> QED
      BY <1>L, <1>S, <3>2, <3>5, <3>6, <3>7 DEF SourceOK
  <2>2. CASE Take(p) /\ queue = None
    <3>1. /\ push'[p].at = "check" /\ push'[p].own = push[p].own /\ push'[p].held = push[p].own
          /\ \A q \in Pusher \ {p} : push'[q] = push[q]
      <4>1. push[p] \in Push
        BY <1>0
      <4> QED
        BY <1>0, <2>2, <4>1 DEF Take, Push
    <3>2. \A q \in Pusher : Carried(q)' \subseteq Carried(q)
      BY <3>1 DEF Carried
    <3>3. Deferred' = Deferred /\ appending' = appending
      BY <2>2 DEF Take, Deferred
    <3>4. push'[Line].at = "read" => push'[Line] = push[Line]
      BY <1>0, <3>1
    <3> QED
      BY <3>2, <3>3, <3>4, SourceStays
  <2>3. CASE ~Take(p)
    <3>1. Deferred' = Deferred
      BY <1>7, <2>3, CarriedLess DEF Deferred
    <3>2. push'[Line].at = "read" => push'[Line] = push[Line]
      BY <1>0, <1>7, <2>3, CarriedLess
    <3> QED
      BY <1>7, <2>3, <3>1, <3>2, CarriedLess, SourceStays
  <2> QED
    BY <2>1, <2>2, <2>3
<1>8. CASE \/ Clear \/ Enqueue \/ DrainTimer \/ Close \/ Closed \/ PushStream \/ Stopped
           \/ \E e \in encrypting : Buffer(e) \/ Withhold(e)
           \/ UNCHANGED vars
  BY <1>1, <1>8 DEF Clear, Enqueue, DrainTimer, Close, Closed, PushStream, Buffer, Withhold, Stopped, vars, queueVars
<1>9. CASE NextBatch \/ FlushTimer \/ Stop \/ RecordStream
  <2>1. queue' = queue /\ appending' = appending /\ Deferred' = Deferred
    BY <1>9 DEF NextBatch, FlushTimer, Stop, RecordStream, queueVars, Deferred
  <2>2. deployment \in {"hooks", "stream"} /\ Proxy \in Pusher /\ Stream \in Pusher
    BY DEF IInv, TypeInv, TypeOK, Pusher
  <2>3. \A p \in Pusher \ {Line} : push'[p] = push[p]
    BY <1>0, <1>9, <2>2 DEF NextBatch, FlushTimer, Stop, RecordStream, Flush, Line, OneDeployment
  <2>4. push'[Line].at = "read" => push'[Line] = push[Line]
    <3>1. CASE NextBatch
      <4>1. Line = Proxy
        BY <2>2, <3>1 DEF NextBatch, OneDeployment, Line
      <4>2. push'[Proxy].at = "take"
        BY <1>0, <2>2, <3>1 DEF NextBatch, Idle
      <4> QED
        BY <4>1, <4>2
    <3>2. CASE FlushTimer \/ Stop
      <4>1. Line = Stream
        BY <3>2 DEF FlushTimer, Stop, Line
      <4>2. push'[Stream] = push[Stream] \/ push'[Stream].at = "post"
        BY <1>0, <2>2, <3>2 DEF FlushTimer, Stop, Flush, Idle
      <4> QED
        BY <4>1, <4>2
    <3>3. CASE RecordStream
      <4>1. Line = Stream
        BY <2>2, <3>3 DEF RecordStream, OneDeployment, Line
      <4>2. push'[Stream].at = "idle"
        BY <1>0, <2>2, <3>3 DEF RecordStream, Idle
      <4> QED
        BY <4>1, <4>2
    <3> QED
      BY <1>9, <3>1, <3>2, <3>3
  <2>5. \A p \in Pusher \ {Line} : Carried(p)' = Carried(p)
    BY <2>3 DEF Carried
  <2> QED
    BY <2>1, <2>4, <2>5, SourceStays
<1>10. CASE Tick
  <2>1. \A p \in Pusher : push'[p] = [push[p] EXCEPT !.next = Less(@)]
    BY <1>10 DEF Tick
  <2>2. \A p \in Pusher : push'[p].at = push[p].at /\ push'[p].own = push[p].own /\ push'[p].held = push[p].held
    BY <1>0, <2>1 DEF Push
  <2>3. Deferred' = Deferred /\ appending' = appending /\ \A p \in Pusher : Carried(p)' = Carried(p)
    BY <1>10, <2>2 DEF Tick, queueVars, Deferred, Carried
  <2> QED
    BY <1>0, <2>2, <2>3, SourceStays
<1> QED
  BY <1>3, <1>4, <1>5, <1>6, <1>7, <1>8, <1>9, <1>10 DEF Next

-----------------------------------------------------------------------------
(* The order of the line's events, over what the relay has received, what the
   line's pusher carries, its batches and what is pending.  The parts take
   these as parameters, so that lemmas can speak of two states; Z is the set of
   the line's events. *)

InOrderIn(Z, s) == \A i, j \in DOMAIN s : i < j /\ s[i] \in Z /\ s[j] \in Z => s[i] < s[j]

Follows(Z, A, B) == \A e \in A \cap Z, f \in B \cap Z : e < f

Batched(ch) == UNION {ToSet(ch[i]) : i \in DOMAIN ch}

OrderOK(Z, rec, own, held, ch, pend) ==
    /\ InOrderIn(Z, rec) /\ InOrderIn(Z, own) /\ InOrderIn(Z, held) /\ InOrderIn(Z, pend)
    /\ \A i \in DOMAIN ch : InOrderIn(Z, ch[i])
    /\ \A i, j \in DOMAIN ch : i < j => Follows(Z, ToSet(ch[i]), ToSet(ch[j]))
    /\ Follows(Z, ToSet(rec), ToSet(own) \cup ToSet(held))
    /\ Follows(Z, ToSet(rec), Batched(ch))
    /\ Follows(Z, ToSet(rec), ToSet(pend))
    /\ Follows(Z, ToSet(own) \cup ToSet(held), Batched(ch))
    /\ Follows(Z, ToSet(own) \cup ToSet(held), ToSet(pend))
    /\ Follows(Z, Batched(ch), ToSet(pend))

LEMMA OrderNone ==
    ASSUME NEW Z, NEW s, ToSet(s) \cap Z = {}
    PROVE  InOrderIn(Z, s)
BY DEF InOrderIn, ToSet

LEMMA OrderEmpty == ASSUME NEW Z PROVE InOrderIn(Z, <<>>)
BY DEF InOrderIn

LEMMA OrderConcat ==
    ASSUME NEW Z, NEW s \in Seq(Event), NEW t \in Seq(Event), InOrderIn(Z, s), InOrderIn(Z, t),
           Follows(Z, ToSet(s), ToSet(t))
    PROVE  InOrderIn(Z, s \o t)
<1>1. /\ DOMAIN s = 1..Len(s) /\ Len(s) \in Nat /\ DOMAIN t = 1..Len(t) /\ Len(t) \in Nat
      /\ DOMAIN (s \o t) = 1..Len(s) + Len(t)
      /\ \A i \in 1..Len(s) : (s \o t)[i] = s[i]
      /\ \A i \in Len(s) + 1 .. Len(s) + Len(t) : (s \o t)[i] = t[i - Len(s)] /\ i - Len(s) \in 1..Len(t)
  OBVIOUS
<1>2. \A i \in 1..Len(s) + Len(t) : i \in 1..Len(s) \/ i \in Len(s) + 1 .. Len(s) + Len(t)
  BY <1>1
<1>3. SUFFICES ASSUME NEW i \in 1..Len(s) + Len(t), NEW j \in 1..Len(s) + Len(t), i < j,
                      (s \o t)[i] \in Z, (s \o t)[j] \in Z
               PROVE  (s \o t)[i] < (s \o t)[j]
  BY <1>1 DEF InOrderIn
<1>4. CASE i \in 1..Len(s) /\ j \in 1..Len(s)
  BY <1>1, <1>3, <1>4 DEF InOrderIn
<1>5. CASE i \in Len(s) + 1 .. Len(s) + Len(t) /\ j \in Len(s) + 1 .. Len(s) + Len(t)
  <2>1. i - Len(s) < j - Len(s)
    BY <1>1, <1>3
  <2> QED
    BY <1>1, <1>3, <1>5, <2>1 DEF InOrderIn
<1>6. CASE i \in 1..Len(s) /\ j \in Len(s) + 1 .. Len(s) + Len(t)
  <2>1. (s \o t)[i] \in ToSet(s) /\ (s \o t)[j] \in ToSet(t)
    BY <1>1, <1>6 DEF ToSet
  <2> QED
    BY <1>3, <2>1 DEF Follows
<1>7. ~(i \in Len(s) + 1 .. Len(s) + Len(t) /\ j \in 1..Len(s))
  BY <1>1, <1>3
<1> QED
  BY <1>2, <1>4, <1>5, <1>6, <1>7

LEMMA OrderAppend ==
    ASSUME NEW Z, NEW s \in Seq(Event), NEW n \in Event, InOrderIn(Z, s), \A e \in ToSet(s) \cap Z : e < n
    PROVE  InOrderIn(Z, Append(s, n))
<1>1. /\ DOMAIN s = 1..Len(s) /\ Len(s) \in Nat
      /\ DOMAIN Append(s, n) = 1..Len(s) + 1
      /\ \A i \in 1..Len(s) : Append(s, n)[i] = s[i]
      /\ Append(s, n)[Len(s) + 1] = n
  OBVIOUS
<1>2. \A i \in 1..Len(s) + 1 : i \in 1..Len(s) \/ i = Len(s) + 1
  BY <1>1
<1>3. SUFFICES ASSUME NEW i \in 1..Len(s) + 1, NEW j \in 1..Len(s) + 1, i < j,
                      Append(s, n)[i] \in Z, Append(s, n)[j] \in Z
               PROVE  Append(s, n)[i] < Append(s, n)[j]
  BY <1>1 DEF InOrderIn
<1>4. i \in 1..Len(s)
  BY <1>1, <1>3
<1>5. CASE j \in 1..Len(s)
  BY <1>1, <1>3, <1>4, <1>5 DEF InOrderIn
<1>6. CASE j = Len(s) + 1
  <2>1. s[i] \in ToSet(s)
    BY <1>1, <1>4 DEF ToSet
  <2> QED
    BY <1>1, <1>3, <1>4, <1>6, <2>1
<1> QED
  BY <1>2, <1>5, <1>6

LEMMA BatchedMore ==
    ASSUME NEW ch \in Seq(Seq(Event)), NEW b \in Seq(Event)
    PROVE  Batched(Append(ch, b)) = Batched(ch) \cup ToSet(b)
<1>1. /\ DOMAIN ch = 1..Len(ch) /\ Len(ch) \in Nat
      /\ DOMAIN Append(ch, b) = 1..Len(ch) + 1
      /\ \A i \in 1..Len(ch) : Append(ch, b)[i] = ch[i]
      /\ Append(ch, b)[Len(ch) + 1] = b
  OBVIOUS
<1>2. \A i \in 1..Len(ch) + 1 : i \in 1..Len(ch) \/ i = Len(ch) + 1
  BY <1>1
<1>3. 1..Len(ch) \subseteq 1..Len(ch) + 1 /\ Len(ch) + 1 \in 1..Len(ch) + 1
  BY <1>1
<1>4. \A e : e \in Batched(Append(ch, b)) <=> \E i \in 1..Len(ch) + 1 : e \in ToSet(Append(ch, b)[i])
  BY <1>1 DEF Batched
<1>5. \A e : e \in Batched(ch) <=> \E i \in 1..Len(ch) : e \in ToSet(ch[i])
  BY <1>1 DEF Batched
<1> QED
  BY <1>1, <1>2, <1>3, <1>4, <1>5

LEMMA BatchedLess ==
    ASSUME NEW ch \in Seq(Seq(Event)), ch # <<>>
    PROVE  /\ Batched(Tail(ch)) \subseteq Batched(ch) /\ ToSet(Head(ch)) \subseteq Batched(ch)
           /\ DOMAIN Tail(ch) = 1..Len(ch) - 1
           /\ \A i \in 1..Len(ch) - 1 : Tail(ch)[i] = ch[i + 1] /\ i + 1 \in DOMAIN ch /\ 1 < i + 1
           /\ 1 \in DOMAIN ch /\ Head(ch) = ch[1] /\ Head(ch) \in Seq(Event)
<1>1. /\ Len(ch) \in Nat /\ Len(ch) > 0 /\ DOMAIN ch = 1..Len(ch) /\ Head(ch) = ch[1] /\ Head(ch) \in Seq(Event)
      /\ DOMAIN Tail(ch) = 1..Len(ch) - 1
      /\ \A i \in 1..Len(ch) - 1 : Tail(ch)[i] = ch[i + 1]
  OBVIOUS
<1>2. 1 \in 1..Len(ch) /\ \A i \in 1..Len(ch) - 1 : i + 1 \in 1..Len(ch) /\ 1 < i + 1
  BY <1>1
<1>3. \A e : e \in Batched(Tail(ch)) <=> \E i \in 1..Len(ch) - 1 : e \in ToSet(Tail(ch)[i])
  BY <1>1 DEF Batched
<1>4. \A e : e \in Batched(ch) <=> \E i \in 1..Len(ch) : e \in ToSet(ch[i])
  BY <1>1 DEF Batched
<1> QED
  BY <1>1, <1>2, <1>3, <1>4

-----------------------------------------------------------------------------
(* The order is kept when... *)

(* ...other events become the line's. *)
LEMMA OrderSame ==
    ASSUME NEW Z, NEW Y, NEW rec, NEW own, NEW held, NEW ch, NEW pend, NEW K,
           OrderOK(Z, rec, own, held, ch, pend), Z \cap K = Y \cap K,
           ToSet(rec) \cup ToSet(own) \cup ToSet(held) \cup Batched(ch) \cup ToSet(pend) \subseteq K
    PROVE  OrderOK(Y, rec, own, held, ch, pend)
<1>1. ASSUME NEW s, ToSet(s) \subseteq K, InOrderIn(Z, s) PROVE InOrderIn(Y, s)
  <2>1. \A i \in DOMAIN s : s[i] \in K
    BY <1>1 DEF ToSet
  <2> QED
    BY <1>1, <2>1 DEF InOrderIn
<1>2. ASSUME NEW A, NEW B, A \subseteq K, B \subseteq K, Follows(Z, A, B) PROVE Follows(Y, A, B)
  BY <1>2 DEF Follows
<1>3. \A i \in DOMAIN ch : ToSet(ch[i]) \subseteq K
  BY DEF Batched
<1>4. /\ ToSet(rec) \subseteq K /\ ToSet(own) \subseteq K /\ ToSet(held) \subseteq K
      /\ Batched(ch) \subseteq K /\ ToSet(pend) \subseteq K /\ ToSet(own) \cup ToSet(held) \subseteq K
  OBVIOUS
<1> QED
  BY <1>1, <1>2, <1>3, <1>4 DEF OrderOK

(* ...a new event is pending. *)
LEMMA OrderNew ==
    ASSUME NEW Z, NEW rec, NEW own, NEW held, NEW ch, NEW pend \in Seq(Event), NEW n \in Event,
           OrderOK(Z, rec, own, held, ch, pend),
           \A e \in ToSet(rec) \cup ToSet(own) \cup ToSet(held) \cup Batched(ch) \cup ToSet(pend) : e < n
    PROVE  OrderOK(Z, rec, own, held, ch, Append(pend, n))
<1>1. ToSet(Append(pend, n)) = ToSet(pend) \cup {n}
  BY SetAppend
<1>2. InOrderIn(Z, Append(pend, n))
  BY OrderAppend DEF OrderOK
<1>3. ASSUME NEW A, Follows(Z, A, ToSet(pend)), \A e \in A : e < n PROVE Follows(Z, A, ToSet(Append(pend, n)))
  BY <1>1, <1>3 DEF Follows
<1> QED
  BY <1>2, <1>3 DEF OrderOK

(* ...what is pending becomes the last batch. *)
LEMMA OrderBatch ==
    ASSUME NEW Z, NEW rec, NEW own, NEW held, NEW ch \in Seq(Seq(Event)), NEW pend \in Seq(Event),
           OrderOK(Z, rec, own, held, ch, pend)
    PROVE  OrderOK(Z, rec, own, held, Append(ch, pend), <<>>)
<1>1. Batched(Append(ch, pend)) = Batched(ch) \cup ToSet(pend) /\ ToSet(<<>>) = {} /\ InOrderIn(Z, <<>>)
  BY BatchedMore, SetNone, OrderEmpty
<1>2. /\ DOMAIN ch = 1..Len(ch) /\ Len(ch) \in Nat
      /\ DOMAIN Append(ch, pend) = 1..Len(ch) + 1
      /\ \A i \in 1..Len(ch) : Append(ch, pend)[i] = ch[i]
      /\ Append(ch, pend)[Len(ch) + 1] = pend
  OBVIOUS
<1>3. \A i \in 1..Len(ch) + 1 : i \in 1..Len(ch) \/ i = Len(ch) + 1
  BY <1>2
<1>4. \A i \in DOMAIN Append(ch, pend) : InOrderIn(Z, Append(ch, pend)[i])
  BY <1>2, <1>3 DEF OrderOK
<1>5. \A i \in DOMAIN ch : Follows(Z, ToSet(ch[i]), ToSet(pend))
  BY DEF OrderOK, Follows, Batched
<1>6. \A i, j \in DOMAIN Append(ch, pend) : i < j =>
         Follows(Z, ToSet(Append(ch, pend)[i]), ToSet(Append(ch, pend)[j]))
  <2>1. SUFFICES ASSUME NEW i \in 1..Len(ch) + 1, NEW j \in 1..Len(ch) + 1, i < j
                 PROVE  Follows(Z, ToSet(Append(ch, pend)[i]), ToSet(Append(ch, pend)[j]))
    BY <1>2
  <2>2. i \in 1..Len(ch)
    BY <1>2, <2>1
  <2>3. CASE j \in 1..Len(ch)
    BY <1>2, <2>1, <2>2, <2>3 DEF OrderOK
  <2>4. CASE j = Len(ch) + 1
    BY <1>2, <1>5, <2>2, <2>4
  <2> QED
    BY <1>3, <2>3, <2>4
<1>7. \A A : Follows(Z, A, {})
  BY DEF Follows
<1>8. ASSUME NEW A, Follows(Z, A, Batched(ch)), Follows(Z, A, ToSet(pend))
      PROVE  Follows(Z, A, Batched(ch) \cup ToSet(pend))
  BY <1>8 DEF Follows
<1> QED
  BY <1>1, <1>4, <1>6, <1>7, <1>8 DEF OrderOK

(* ...the first batch begins its push. *)
LEMMA OrderBegin ==
    ASSUME NEW Z, NEW rec, NEW ch \in Seq(Seq(Event)), NEW pend, ch # <<>>,
           OrderOK(Z, rec, <<>>, <<>>, ch, pend)
    PROVE  OrderOK(Z, rec, Head(ch), <<>>, Tail(ch), pend)
<1> PICK b, rest : b = Head(ch) /\ rest = Tail(ch)
  OBVIOUS
<1>1. /\ Batched(rest) \subseteq Batched(ch) /\ ToSet(b) \subseteq Batched(ch)
      /\ DOMAIN rest = 1..Len(ch) - 1
      /\ \A i \in 1..Len(ch) - 1 : rest[i] = ch[i + 1] /\ i + 1 \in DOMAIN ch /\ 1 < i + 1
      /\ 1 \in DOMAIN ch /\ b = ch[1]
  BY BatchedLess
<1>2. ToSet(<<>>) = {} /\ InOrderIn(Z, <<>>) /\ ToSet(b) \cup ToSet(<<>>) = ToSet(b)
  BY SetNone, OrderEmpty
<1>3. \A i \in DOMAIN rest : InOrderIn(Z, rest[i]) /\ Follows(Z, ToSet(b), ToSet(rest[i]))
  BY <1>1 DEF OrderOK
<1>4. \A i, j \in DOMAIN rest : i < j => Follows(Z, ToSet(rest[i]), ToSet(rest[j]))
  <2>1. \A i, j \in 1..Len(ch) - 1 : i < j => i + 1 < j + 1
    OBVIOUS
  <2> QED
    BY <1>1, <2>1 DEF OrderOK
<1>5. Follows(Z, ToSet(b), Batched(rest))
  BY <1>3 DEF Follows, Batched
<1>6. InOrderIn(Z, b)
  BY <1>1 DEF OrderOK
<1>7. \A A, B, C, D : Follows(Z, A, B) /\ C \subseteq A /\ D \subseteq B => Follows(Z, C, D)
  BY DEF Follows
<1>8. /\ Follows(Z, ToSet(rec), ToSet(b)) /\ Follows(Z, ToSet(rec), Batched(rest))
      /\ Follows(Z, ToSet(b), ToSet(pend)) /\ Follows(Z, Batched(rest), ToSet(pend))
  BY <1>1, <1>7 DEF OrderOK
<1>9. OrderOK(Z, rec, b, <<>>, rest, pend)
  BY <1>2, <1>3, <1>4, <1>5, <1>6, <1>8 DEF OrderOK
<1> QED
  BY <1>9

(* ...the pusher carries no other events of the line. *)
LEMMA OrderHeld ==
    ASSUME NEW Z, NEW rec, NEW own, NEW held, NEW ch, NEW pend, NEW own2, NEW held2,
           OrderOK(Z, rec, own, held, ch, pend),
           (ToSet(own2) \cup ToSet(held2)) \cap Z \subseteq ToSet(own) \cup ToSet(held),
           InOrderIn(Z, own2), InOrderIn(Z, held2)
    PROVE  OrderOK(Z, rec, own2, held2, ch, pend)
<1>1. ASSUME NEW A, Follows(Z, ToSet(own) \cup ToSet(held), A) PROVE Follows(Z, ToSet(own2) \cup ToSet(held2), A)
  BY <1>1 DEF Follows
<1>2. Follows(Z, ToSet(rec), ToSet(own2) \cup ToSet(held2))
  BY DEF OrderOK, Follows
<1> QED
  BY <1>1, <1>2 DEF OrderOK

(* ...what the pusher carries is received. *)
LEMMA OrderReceived ==
    ASSUME NEW Z, NEW rec \in Seq(Event), NEW own, NEW held \in Seq(Event), NEW ch, NEW pend,
           OrderOK(Z, rec, own, held, ch, pend)
    PROVE  OrderOK(Z, rec \o held, <<>>, <<>>, ch, pend)
<1>1. Follows(Z, ToSet(rec), ToSet(held))
  BY DEF OrderOK, Follows
<1>2. InOrderIn(Z, rec \o held) /\ ToSet(rec \o held) = ToSet(rec) \cup ToSet(held)
  BY <1>1, OrderConcat, SetConcat DEF OrderOK
<1>3. ToSet(<<>>) = {} /\ InOrderIn(Z, <<>>) /\ ToSet(<<>>) \cup ToSet(<<>>) = {}
  BY SetNone, OrderEmpty
<1>4. \A A, B, C : Follows(Z, A, C) /\ Follows(Z, B, C) => Follows(Z, A \cup B, C)
  BY DEF Follows
<1>5. \A A, B, C : Follows(Z, A \cup B, C) => Follows(Z, B, C)
  BY DEF Follows
<1>6. \A A : Follows(Z, A, {}) /\ Follows(Z, {}, A)
  BY DEF Follows
<1> QED
  BY <1>2, <1>3, <1>4, <1>5, <1>6 DEF OrderOK

(* ...events of others are received. *)
LEMMA OrderOthers ==
    ASSUME NEW Z, NEW rec \in Seq(Event), NEW own, NEW held, NEW ch, NEW pend, NEW s \in Seq(Event),
           OrderOK(Z, rec, own, held, ch, pend), ToSet(s) \cap Z = {}
    PROVE  OrderOK(Z, rec \o s, own, held, ch, pend)
<1>1. Follows(Z, ToSet(rec), ToSet(s)) /\ InOrderIn(Z, s)
  BY OrderNone DEF Follows
<1>2. InOrderIn(Z, rec \o s) /\ ToSet(rec \o s) = ToSet(rec) \cup ToSet(s)
  BY <1>1, OrderConcat, SetConcat DEF OrderOK
<1>3. \A A : Follows(Z, ToSet(rec), A) => Follows(Z, ToSet(rec) \cup ToSet(s), A)
  BY DEF Follows
<1> QED
  BY <1>2, <1>3 DEF OrderOK

-----------------------------------------------------------------------------
(* The order is kept by every step. *)

Ordered == OrderOK(OfLine, received, push[Line].own, push[Line].held, chain, pending)

(* The transport's events are encrypted and buffered in any order. *)
OrderInv == deployment = "hooks" => Ordered

LInv == IInv /\ OneDeployment /\ SourceOK

LEMMA OrderInit == Init => OrderInv
<1> SUFFICES ASSUME Init PROVE Ordered
  BY DEF OrderInv
<1>1. push[Line].own = <<>> /\ push[Line].held = <<>>
  BY DEF Init, Line, Pusher, Idle
<1>2. received = <<>> /\ chain = <<>> /\ pending = <<>>
  BY DEF Init
<1>3. ToSet(<<>>) = {} /\ InOrderIn(OfLine, <<>>) /\ Batched(<<>>) = {} /\ DOMAIN <<>> = {}
  BY SetNone, OrderEmpty DEF Batched
<1>4. \A A : Follows(OfLine, A, {}) /\ Follows(OfLine, {}, A)
  BY DEF Follows
<1>5. OrderOK(OfLine, <<>>, <<>>, <<>>, <<>>, <<>>)
  BY <1>3, <1>4 DEF OrderOK
<1> QED
  BY <1>1, <1>2, <1>5 DEF Ordered

(* The events of the line in the next state are in order in this one. *)
LEMMA OrderNow ==
    ASSUME LInv, Ordered, [Next]_vars
    PROVE  /\ OrderOK(OfLine', received, push[Line].own, push[Line].held, chain, pending)
           /\ Deferred \cap OfLine' = {}
           /\ \A h \in Hook : appending[h].event \notin OfLine'
           /\ \A p \in Pusher \ {Line} : ToSet(push[p].held) \cap OfLine' = {}
           /\ push[Line].at = "read" => ToSet(push[Line].held) \cap OfLine' = {}
           /\ Line' = Line
<1>1. OfLine \cap (1..happened) = OfLine' \cap (1..happened) /\ Line \in Pusher
  BY LineSame, LineType DEF LInv, IInv
<1>2. \A p \in Pusher : ToSet(push[p].own) \cup ToSet(push[p].held) \subseteq 1..happened
  BY Known DEF LInv, Carried
<1>3. Batched(chain) \subseteq 1..happened
  BY Known DEF LInv, Batched, Chained
<1>4. ToSet(received) \cup ToSet(push[Line].own) \cup ToSet(push[Line].held) \cup Batched(chain) \cup ToSet(pending)
        \subseteq 1..happened
  BY <1>1, <1>2, <1>3, Known DEF LInv
<1>5. OrderOK(OfLine', received, push[Line].own, push[Line].held, chain, pending)
  BY <1>1, <1>4, OrderSame DEF Ordered
<1>6. 0 \notin OfLine'
  BY DEF OfLine, Event
<1>7. /\ Deferred \cap OfLine' = {}
      /\ \A h \in Hook : appending[h].event \notin OfLine'
  BY <1>1, <1>6, Known DEF LInv, SourceOK
<1>8. /\ \A p \in Pusher \ {Line} : ToSet(push[p].held) \cap OfLine' = {}
      /\ push[Line].at = "read" => ToSet(push[Line].held) \cap OfLine' = {}
  BY <1>1, <1>2 DEF LInv, SourceOK, Carried
<1> QED
  BY <1>5, <1>7, <1>8, LineSame DEF LInv

(* The line's pusher and batches stay as they are. *)
LEMMA OrderStays ==
    ASSUME LInv, Ordered, [Next]_vars, UNCHANGED <<received, chain, pending>>,
           push'[Line].own = push[Line].own \/ push'[Line].own = <<>>,
           push'[Line].held = push[Line].held \/ push'[Line].held = <<>>
    PROVE  Ordered'
<1>1. OrderOK(OfLine', received, push[Line].own, push[Line].held, chain, pending) /\ Line' = Line
  BY OrderNow
<1>2. ToSet(<<>>) = {} /\ InOrderIn(OfLine', <<>>)
  BY SetNone, OrderEmpty
<1>3. InOrderIn(OfLine', push'[Line].own) /\ InOrderIn(OfLine', push'[Line].held)
  BY <1>1, <1>2 DEF OrderOK
<1>4. (ToSet(push'[Line].own) \cup ToSet(push'[Line].held)) \cap OfLine'
        \subseteq ToSet(push[Line].own) \cup ToSet(push[Line].held)
  BY <1>2
<1> QED
  BY <1>1, <1>3, <1>4, OrderHeld DEF Ordered

(* The events that are read from the file go before the pusher's own. *)
LEMMA OrderTaken ==
    ASSUME NEW Z, NEW own \in Seq(Event), NEW held \in Seq(Event), NEW k \in 0..Len(held),
           InOrderIn(Z, own), ToSet(held) \cap Z = {}
    PROVE  LET rest == SubSeq(held, k + 1, Len(held))
           IN  InOrderIn(Z, rest \o own) /\ ToSet(rest \o own) \cap Z \subseteq ToSet(own)
<1> DEFINE rest == SubSeq(held, k + 1, Len(held))
<1>1. rest \in Seq(Event) /\ ToSet(rest) \subseteq ToSet(held)
  BY SetRest
<1> HIDE DEF rest
<1>2. InOrderIn(Z, rest) /\ Follows(Z, ToSet(rest), ToSet(own))
  BY <1>1, OrderNone DEF Follows
<1>3. InOrderIn(Z, rest \o own)
  BY <1>1, <1>2, OrderConcat
<1>4. ToSet(rest \o own) = ToSet(rest) \cup ToSet(own)
  BY <1>1, SetConcat
<1> QED
  BY <1>1, <1>3, <1>4 DEF rest

LEMMA OrderPushStep ==
    ASSUME LInv, Ordered, [Next]_vars, NEW p \in Pusher, PushStep(p)
    PROVE  Ordered'
<1> USE DEF queueVars, batchVars
<1>0. /\ push \in [Pusher -> Push] /\ push[p] \in Push /\ Line \in Pusher
      /\ push[p].own \in Seq(Event) /\ push[p].held \in Seq(Event) /\ received \in Seq(Event)
  BY LineType DEF LInv, IInv, TypeInv, TypeOK, Push
<1>1. /\ OrderOK(OfLine', received, push[Line].own, push[Line].held, chain, pending) /\ Line' = Line
      /\ Deferred \cap OfLine' = {}
      /\ \A q \in Pusher \ {Line} : ToSet(push[q].held) \cap OfLine' = {}
      /\ push[Line].at = "read" => ToSet(push[Line].held) \cap OfLine' = {}
  BY OrderNow
<1>2. CASE Take(p)
  <2>1. \A q \in Pusher \ {p} : push'[q] = push[q]
    BY <1>0, <1>2 DEF Take
  <2>2. UNCHANGED <<received, chain, pending>>
    BY <1>2 DEF Take
  <2>3. CASE p # Line
    BY <1>0, <2>1, <2>2, <2>3, OrderStays
  <2>4. CASE p = Line
    <3>1. push'[p].own = push[p].own
      BY <1>0, <1>2 DEF Take, Push
    <3>2. CASE queue = None
      <4>1. push'[p].held = push[p].own
        BY <1>0, <1>2, <3>2 DEF Take, Push
      <4>2. /\ (ToSet(push'[p].own) \cup ToSet(push'[p].held)) \cap OfLine' \subseteq ToSet(push[p].own) \cup ToSet(push[p].held)
            /\ InOrderIn(OfLine', push'[p].own) /\ InOrderIn(OfLine', push'[p].held)
        BY <1>1, <2>4, <3>1, <4>1 DEF OrderOK
      <4> QED
        BY <1>1, <2>2, <2>4, <4>2, OrderHeld DEF Ordered
    <3>3. CASE queue # None
      <4>1. push'[p].held = queue /\ ToSet(queue) = Deferred
        BY <1>0, <1>2, <3>3 DEF Take, Push, Deferred
      <4>2. InOrderIn(OfLine', push'[p].held)
        BY <1>1, <4>1, OrderNone
      <4>3. /\ (ToSet(push'[p].own) \cup ToSet(push'[p].held)) \cap OfLine' \subseteq ToSet(push[p].own) \cup ToSet(push[p].held)
            /\ InOrderIn(OfLine', push'[p].own)
        BY <1>1, <2>4, <3>1, <4>1 DEF OrderOK
      <4> QED
        BY <1>1, <2>2, <2>4, <4>2, <4>3, OrderHeld DEF Ordered
    <3> QED
      BY <3>2, <3>3
  <2> QED
    BY <2>3, <2>4
<1>3. CASE ReadTaken(p)
  <2>1. PICK rest : /\ push'[p].own = push[p].own /\ push'[p].held = rest \o push[p].own
                    /\ rest = SubSeq(push[p].held, Bigger(Len(push[p].held) - MaxDeferred, 0) + 1, Len(push[p].held))
    BY <1>0, <1>3 DEF ReadTaken, Push
  <2>2. UNCHANGED <<received, chain, pending>> /\ \A q \in Pusher \ {p} : push'[q] = push[q]
    BY <1>0, <1>3 DEF ReadTaken
  <2>3. CASE p # Line
    BY <1>0, <2>2, <2>3, OrderStays
  <2>4. CASE p = Line
    <3>1. PICK skipped \in 0..Len(push[p].held) : skipped = Bigger(Len(push[p].held) - MaxDeferred, 0)
      <4>1. Len(push[p].held) \in Nat /\ MaxDeferred \in Nat
        BY <1>0, PushAssumption
      <4> QED
        BY <4>1 DEF Bigger
    <3>2. PICK own, held : own = push[Line].own /\ held = push[Line].held
      OBVIOUS
    <3>3. /\ own \in Seq(Event) /\ held \in Seq(Event) /\ skipped \in 0..Len(held)
          /\ rest = SubSeq(held, skipped + 1, Len(held))
          /\ InOrderIn(OfLine', own) /\ ToSet(held) \cap OfLine' = {}
      BY <1>0, <1>1, <1>3, <2>1, <2>4, <3>1, <3>2 DEF ReadTaken, OrderOK
    <3>4. InOrderIn(OfLine', rest \o own) /\ ToSet(rest \o own) \cap OfLine' \subseteq ToSet(own)
      BY <3>3, OrderTaken
    <3>5. push'[Line].own = own /\ push'[Line].held = rest \o own
      BY <2>1, <2>4, <3>2
    <3>6. (ToSet(own) \cup ToSet(rest \o own)) \cap OfLine' \subseteq ToSet(own) \cup ToSet(held)
      BY <3>4
    <3>7. OrderOK(OfLine', received, own, rest \o own, chain, pending)
      BY <1>1, <3>2, <3>3, <3>4, <3>6, OrderHeld
    <3> QED
      BY <1>1, <2>2, <3>5, <3>7 DEF Ordered
  <2> QED
    BY <2>3, <2>4
<1>4. CASE Post(p)
  <2>1. /\ push'[p].own = <<>> /\ push'[p].held = <<>> /\ \A q \in Pusher \ {p} : push'[q] = push[q]
        /\ UNCHANGED <<chain, pending>>
        /\ received' = received \/ received' = received \o push[p].held
    BY <1>0, <1>4 DEF Post, Push
  <2>2. CASE received' = received
    BY <1>0, <2>1, <2>2, OrderStays
  <2>3. CASE received' = received \o push[p].held /\ p = Line
    BY <1>0, <1>1, <2>1, <2>3, OrderReceived DEF Ordered
  <2>4. CASE received' = received \o push[p].held /\ p # Line
    BY <1>0, <1>1, <2>1, <2>4, OrderOthers DEF Ordered
  <2> QED
    BY <2>1, <2>2, <2>3, <2>4
<1>5. ASSUME CheckGate(p) \/ Record(p) \/ Unlink(p) \/ Truncate(p) \/ Fill(p) PROVE Ordered'
  <2>1. UNCHANGED <<received, chain, pending>>
    BY <1>5 DEF CheckGate, Record, Unlink, Truncate, Fill, End
  <2>2. \A q \in Pusher \ {p} : push'[q] = push[q]
    BY <1>0, <1>5 DEF CheckGate, Record, Unlink, Truncate, Fill, End
  <2>3. /\ push'[p].own = push[p].own \/ push'[p].own = <<>>
        /\ push'[p].held = push[p].held \/ push'[p].held = <<>>
    <3>1. CASE End(p)
      BY <1>0, <3>1 DEF End, Idle
    <3>2. ASSUME NEW at, push' = [push EXCEPT ![p].at = at]
          PROVE  push'[p].own = push[p].own /\ push'[p].held = push[p].held
      BY <1>0, <3>2 DEF Push
    <3>3. ASSUME NEW next, push' = [push EXCEPT ![p].at = "truncate", ![p].next = next]
          PROVE  push'[p].own = push[p].own /\ push'[p].held = push[p].held
      BY <1>0, <3>3 DEF Push
    <3> QED
      BY <1>5, <3>1, <3>2, <3>3 DEF CheckGate, Record, Unlink, Truncate, Fill
  <2> QED
    BY <1>0, <2>1, <2>2, <2>3, OrderStays
<1> QED
  BY <1>2, <1>3, <1>4, <1>5 DEF PushStep

LEMMA OrderDeferWrite ==
    ASSUME LInv, Ordered, [Next]_vars, NEW h \in Hook, DeferWrite(h)
    PROVE  Ordered'
<1> USE DEF queueVars, batchVars
<1> PICK e : e = appending[h].event
  OBVIOUS
<1>0. /\ push \in [Pusher -> Push] /\ push[Line] \in Push /\ Line \in Pusher
      /\ push[Line].held \in Seq(Event)
  BY LineType DEF LInv, IInv, TypeInv, TypeOK, Push
<1>1. UNCHANGED <<received, chain, pending>>
  BY DEF DeferWrite
<1>2. CASE push' = push
  BY <1>1, <1>2, OrderStays
<1>3. ASSUME NEW p \in Pusher, appending[h].to = p, push' = [push EXCEPT ![p].held = Append(@, e)]
      PROVE  Ordered'
  <2>1. CASE p # Line
    <3>1. push'[Line] = push[Line]
      BY <1>0, <1>3, <2>1
    <3> QED
      BY <1>1, <3>1, OrderStays
  <2>2. CASE p = Line
    <3> PICK own, held : own = push[Line].own /\ held = push[Line].held
      OBVIOUS
    <3>1. /\ push'[Line].own = own /\ push'[Line].held = Append(held, e) /\ held \in Seq(Event)
          /\ push[Line].at = "read"
      BY <1>0, <1>3, <2>2 DEF Push, LInv, IInv, TypeInv, HookOK
    <3>2. /\ OrderOK(OfLine', received, own, held, chain, pending) /\ Line' = Line
          /\ e \notin OfLine' /\ ToSet(held) \cap OfLine' = {}
      BY <3>1, OrderNow
    <3>3. ToSet(Append(held, e)) \cap OfLine' = {}
      BY <3>1, <3>2, SetAppend
    <3>4. InOrderIn(OfLine', Append(held, e)) /\ InOrderIn(OfLine', own)
      BY <3>2, <3>3, OrderNone DEF OrderOK
    <3>5. (ToSet(own) \cup ToSet(Append(held, e))) \cap OfLine' \subseteq ToSet(own) \cup ToSet(held)
      BY <3>3
    <3>6. OrderOK(OfLine', received, own, Append(held, e), chain, pending)
      BY <3>2, <3>4, <3>5, OrderHeld
    <3> QED
      BY <1>1, <3>1, <3>2, <3>6 DEF Ordered
  <2> QED
    BY <2>1, <2>2
<1> QED
  BY <1>2, <1>3 DEF DeferWrite

(* A new event is pending, the batch is full, or the timer or close() makes a
   batch of what is pending. *)
LEMMA OrderPending ==
    ASSUME LInv, Ordered, [Next]_vars, Enqueue \/ DrainTimer \/ Close
    PROVE  Ordered'
<1> USE DEF queueVars, batchVars
<1>0. pending \in Seq(Event) /\ chain \in Seq(Seq(Event)) /\ happened \in Nat
  BY DEF LInv, IInv, TypeInv, TypeOK
<1>1. UNCHANGED <<push, received>>
  BY DEF Enqueue, DrainTimer, Close
<1> PICK own, held : own = push[Line].own /\ held = push[Line].held
  OBVIOUS
<1>2. OrderOK(OfLine', received, own, held, chain, pending) /\ Line' = Line
  BY OrderNow
<1>3. SUFFICES OrderOK(OfLine', received, own, held, chain', pending')
  BY <1>1, <1>2 DEF Ordered
<1>4. CASE Enqueue
  <2> PICK n : n = happened + 1
    OBVIOUS
  <2>1. n \in Event /\ \A e \in 1..happened : e < n
    BY <1>0 DEF Event
  <2>2. ToSet(own) \cup ToSet(held) \subseteq 1..happened
    BY Known, LineType DEF LInv, IInv, Carried
  <2>3. Batched(chain) \subseteq 1..happened
    BY Known DEF LInv, Batched, Chained
  <2>4. \A e \in ToSet(received) \cup ToSet(own) \cup ToSet(held) \cup Batched(chain) \cup ToSet(pending) : e < n
    BY <2>1, <2>2, <2>3, Known DEF LInv
  <2>5. OrderOK(OfLine', received, own, held, chain, Append(pending, n))
    BY <1>0, <1>2, <2>1, <2>4, OrderNew
  <2>6. OrderOK(OfLine', received, own, held, Append(chain, Append(pending, n)), <<>>)
    <3>1. Append(pending, n) \in Seq(Event)
      BY <1>0, <2>1
    <3> QED
      BY <1>0, <2>5, <3>1, OrderBatch
  <2> QED
    BY <1>4, <2>5, <2>6 DEF Enqueue
<1>5. CASE DrainTimer \/ Close
  <2>1. chain' = Batches /\ pending' = <<>>
    BY <1>5 DEF DrainTimer, Close
  <2>2. OrderOK(OfLine', received, own, held, Append(chain, pending), <<>>)
    BY <1>0, <1>2, OrderBatch
  <2> QED
    BY <1>2, <2>1, <2>2 DEF Batches
<1> QED
  BY <1>4, <1>5

LEMMA OrderNextBatch ==
    ASSUME LInv, Ordered, [Next]_vars, NextBatch
    PROVE  Ordered'
<1>0. /\ push \in [Pusher -> Push] /\ Proxy \in Pusher /\ chain \in Seq(Seq(Event)) /\ chain # <<>>
      /\ deployment \in {"hooks", "stream"}
  BY DEF LInv, IInv, TypeInv, TypeOK, Pusher, NextBatch
<1>1. Line = Proxy
  BY <1>0 DEF LInv, OneDeployment, Line
<1>2. push[Line].own = <<>> /\ push[Line].held = <<>>
  BY <1>0, <1>1 DEF NextBatch, LInv, IInv, PlacesInv, CarriedOK
<1>3. OrderOK(OfLine', received, <<>>, <<>>, chain, pending) /\ Line' = Line
  BY <1>2, OrderNow
<1>4. /\ push'[Line].own = Head(chain) /\ push'[Line].held = <<>> /\ chain' = Tail(chain)
      /\ UNCHANGED <<received, pending>>
  BY <1>0, <1>1 DEF NextBatch, Idle
<1>5. OrderOK(OfLine', received, Head(chain), <<>>, Tail(chain), pending)
  BY <1>0, <1>3, OrderBegin
<1> QED
  BY <1>3, <1>4, <1>5 DEF Ordered

LEMMA OrderNext == LInv /\ OrderInv /\ [Next]_vars => OrderInv'
<1> SUFFICES ASSUME LInv, OrderInv, [Next]_vars PROVE OrderInv'
  OBVIOUS
<1>D. CASE deployment # "hooks"
  BY <1>D, SameDeployment DEF OrderInv
<1> SUFFICES ASSUME deployment = "hooks", Ordered PROVE Ordered'
  BY <1>D DEF OrderInv
<1> USE DEF batchVars
<1>0. /\ push \in [Pusher -> Push] /\ Line \in Pusher /\ Line \notin Hook /\ Hook \subseteq Pusher
      /\ Stream \in Pusher
  BY LineType DEF LInv, IInv, TypeInv, TypeOK, Pusher
<1>1. ASSUME NEW h \in Hook, DeferOpen(h) \/ PushHook(h) \/ Crash(h) PROVE Ordered'
  <2>1. push'[Line] = push[Line] /\ UNCHANGED <<received, chain, pending>>
    BY <1>0, <1>1 DEF DeferOpen, PushHook, Crash
  <2> QED
    BY <2>1, OrderStays
<1>2. CASE Clear \/ Closed \/ Stopped \/ UNCHANGED vars
  <2>1. UNCHANGED <<push, received, chain, pending>>
    BY <1>2 DEF Clear, Closed, Stopped, vars
  <2> QED
    BY <2>1, OrderStays
<1>3. CASE RecordStream
  <2>1. push' = [push EXCEPT ![Stream] = Idle] /\ UNCHANGED <<received, chain, pending>>
    BY <1>3 DEF RecordStream
  <2>2. /\ push'[Line].own = push[Line].own \/ push'[Line].own = <<>>
        /\ push'[Line].held = push[Line].held \/ push'[Line].held = <<>>
    BY <1>0, <2>1 DEF Idle
  <2> QED
    BY <2>1, <2>2, OrderStays
<1>4. /\ ~PushStream /\ ~FlushTimer /\ ~Stop
      /\ \A e \in encrypting : ~Buffer(e) /\ ~Withhold(e)
  BY DEF PushStream, FlushTimer, Stop, Buffer, Withhold
<1>5. CASE Tick
  <2>1. push'[Line] = [push[Line] EXCEPT !.next = Less(@)] /\ UNCHANGED <<received, chain, pending>>
    BY <1>0, <1>5 DEF Tick
  <2>2. push'[Line].own = push[Line].own /\ push'[Line].held = push[Line].held
    BY <1>0, <2>1 DEF Push
  <2> QED
    BY <2>1, <2>2, OrderStays
<1> QED
  BY <1>1, <1>2, <1>3, <1>4, <1>5, OrderPushStep, OrderDeferWrite, OrderPending, OrderNextBatch DEF Next

THEOREM LInvCorrect == Spec => [](LInv /\ OrderInv)
<1>1. Init => LInv /\ OrderInv
  BY TypeInvInit, PlacesInit, DeploymentInit, SourceInit, OrderInit DEF LInv, IInv
<1>2. LInv /\ OrderInv /\ [Next]_vars => (LInv /\ OrderInv)'
  BY TypeInvNext, PlacesNext, DeploymentNext, SourceNext, OrderNext DEF LInv, IInv
<1> QED
  BY <1>1, <1>2, PTL DEF Spec

(* InOrder, for any number of events, batches and deferred events: the proxy's
   batches arrive in the order their events were emitted (cloud-push.ts:17). *)
THEOREM InOrderAlways == Spec => []InOrder
<1>1. ASSUME LInv, OrderInv, NEW i \in DOMAIN received, NEW j \in DOMAIN received, i < j,
             source[received[i]] = Proxy, source[received[j]] = Proxy
      PROVE  received[i] < received[j]
  <2>1. received[i] \in 1..happened /\ received[j] \in 1..happened /\ happened \in Nat
    BY <1>1, Known DEF ToSet, LInv, IInv, TypeInv, TypeOK
  <2>2. Line = Proxy /\ deployment = "hooks"
    <3>1. Proxy \in Hook \cup {Line}
      BY <1>1, <2>1 DEF LInv, SourceOK
    <3> QED
      BY <3>1, PushAssumption DEF Line
  <2>3. received[i] \in OfLine /\ received[j] \in OfLine
    <3>1. \A e \in 1..happened : source[e] = Line => e \in OfLine
      BY <2>1 DEF OfLine, Event
    <3> QED
      BY <1>1, <2>1, <2>2, <3>1
  <2> QED
    BY <1>1, <2>2, <2>3 DEF OrderInv, Ordered, OrderOK, InOrderIn
<1>2. LInv /\ OrderInv => InOrder
  BY <1>1 DEF InOrder
<1> QED
  BY <1>2, LInvCorrect, PTL

-----------------------------------------------------------------------------
(* What close() and stop() wait for. *)

Busy == IF push[Proxy].at = "idle" THEN 0 ELSE 1

(* The events that were handed over before close() are in the batches that it
   waits for: the one on its way and the first ones of the chain. *)
CloseWaits ==
    /\ before \subseteq OfLine /\ before \cap ToSet(pending) = {}
    /\ \A i \in DOMAIN chain : i > ahead - Busy => ToSet(chain[i]) \cap before = {}
    /\ ahead = 0 => Carried(Proxy) \cap before = {}

(* What was in the buffer at stop() is in the batch that it waits for. *)
StopWaits ==
    ending # "no" /\ ~beside =>
        /\ before \cap encrypting = {} /\ before \cap ToSet(pending) = {}
        /\ ahead = 0 => before \cap Carried(Stream) = {}

EndInv ==
    /\ before \subseteq 1..happened
    /\ ending = "no" => before = {}
    /\ ending = "done" => ahead = 0
    /\ deployment = "hooks" => CloseWaits
    /\ deployment = "stream" => StopWaits

LEMMA EndInit == Init => EndInv
BY SetNone DEF Init, EndInv, CloseWaits, StopWaits

(* The events handed over stay those of the line. *)
LEMMA BeforeKept ==
    ASSUME LInv, EndInv, [Next]_vars, UNCHANGED before, deployment = "hooks"
    PROVE  before' \subseteq OfLine' /\ before' \subseteq 1..happened' /\ deployment' = "hooks"
<1>1. \A e \in 1..happened : e \in OfLine' <=> e \in OfLine
  BY LineSame DEF LInv
<1>2. happened \in Nat /\ happened' \in Nat /\ happened' >= happened
  BY LineSame DEF LInv
<1>3. 1..happened \subseteq 1..happened'
  BY <1>2
<1>4. before \subseteq OfLine /\ before \subseteq 1..happened
  BY DEF EndInv, CloseWaits
<1> QED
  BY <1>1, <1>3, <1>4, SameDeployment

(* The proxy's batches stay as they are, and its push carries no other events
   of the line. *)
LEMMA CloseStays ==
    ASSUME LInv, EndInv, [Next]_vars, deployment = "hooks",
           UNCHANGED <<before, ending, pending, chain, ahead, Busy>>,
           Carried(Proxy)' \cap OfLine' \subseteq Carried(Proxy)
    PROVE  EndInv'
<1>1. before' \subseteq OfLine' /\ before' \subseteq 1..happened' /\ deployment' = "hooks"
  BY BeforeKept
<1>2. CloseWaits'
  BY <1>1 DEF EndInv, CloseWaits
<1> QED
  BY <1>1, <1>2 DEF EndInv

(* A push is over. *)
LEMMA CloseEnd ==
    ASSUME LInv, EndInv, [Next]_vars, deployment = "hooks", NEW p \in Pusher, End(p),
           push[p].at # "idle"
    PROVE  EndInv'
<1>1. before' \subseteq OfLine' /\ before' \subseteq 1..happened' /\ deployment' = "hooks"
  BY BeforeKept DEF End
<1>0. /\ push \in [Pusher -> Push] /\ Proxy \in Pusher /\ ahead \in Nat
      /\ chain \in Seq(Seq(Event)) /\ DOMAIN chain \subseteq Nat \ {0}
  BY DEF LInv, IInv, TypeInv, TypeOK, Pusher
<1>2. CASE p # Proxy
  <2>1. push'[Proxy] = push[Proxy] /\ UNCHANGED <<before, ending, pending, chain, ahead>>
    BY <1>0, <1>2 DEF End
  <2>2. UNCHANGED <<before, ending, pending, chain, ahead, Busy>> /\ Carried(Proxy)' = Carried(Proxy)
    BY <2>1 DEF Busy, Carried
  <2> QED
    BY <2>2, CloseStays
<1>3. CASE p = Proxy
  <2>1. /\ push'[Proxy] = Idle /\ Busy = 1 /\ Busy' = 0 /\ Carried(Proxy)' = {}
        /\ UNCHANGED <<before, ending, pending, chain>>
        /\ ahead' = IF ahead > 0 THEN ahead - 1 ELSE ahead
    BY <1>0, <1>3, SetNone DEF End, Idle, Busy, Carried
  <2>2. \A i \in DOMAIN chain : i > ahead' - Busy' => i > ahead - Busy
    BY <1>0, <2>1
  <2>3. CloseWaits'
    BY <1>1, <2>1, <2>2 DEF EndInv, CloseWaits
  <2>4. ending' = "done" => ahead' = 0
    BY <1>0, <2>1 DEF EndInv
  <2> QED
    BY <1>1, <2>1, <2>3, <2>4 DEF EndInv
<1> QED
  BY <1>2, <1>3

LEMMA ClosePushStep ==
    ASSUME LInv, EndInv, [Next]_vars, deployment = "hooks", NEW p \in Pusher, PushStep(p)
    PROVE  EndInv'
<1> USE DEF batchVars
<1>0. /\ push \in [Pusher -> Push] /\ push[p] \in Push /\ Proxy \in Pusher /\ Line = Proxy
      /\ push[p].at # "idle"
  BY DEF LInv, IInv, TypeInv, TypeOK, Pusher, Line, PushStep, Take, ReadTaken, CheckGate, Post, Record,
         Unlink, Truncate, Fill
<1>1. CASE End(p)
  BY <1>0, <1>1, CloseEnd
<1>2. CASE ~End(p)
  <2>1. UNCHANGED <<before, ending, pending, chain, ahead>>
    BY <1>2 DEF PushStep, Take, ReadTaken, CheckGate, Post, Record, Unlink, Truncate, Fill
  <2>2. push'[p].at # "idle" /\ \A q \in Pusher \ {p} : push'[q] = push[q]
    <3>1. CASE Take(p)
      BY <1>0, <3>1 DEF Take, Push
    <3>2. CASE ReadTaken(p)
      BY <1>0, <3>2 DEF ReadTaken, Push
    <3>3. CASE CheckGate(p)
      <4>1. push' = [push EXCEPT ![p].at = "post"]
        BY <1>2, <3>3 DEF CheckGate
      <4> QED
        BY <1>0, <4>1 DEF Push
    <3>4. CASE Post(p)
      BY <1>0, <3>4 DEF Post, Push
    <3>5. CASE Truncate(p)
      BY <1>0, <3>5 DEF Truncate, Push
    <3>6. ~Unlink(p) /\ ~Fill(p)
      BY <1>2 DEF Unlink, Fill
    <3>7. CASE Record(p)
      <4>1. CASE push' = [push EXCEPT ![p].at = "unlink"]
        BY <1>0, <4>1 DEF Push
      <4>2. ASSUME NEW next, push' = [push EXCEPT ![p].at = "truncate", ![p].next = next]
            PROVE  push'[p].at = "truncate" /\ \A q \in Pusher \ {p} : push'[q] = push[q]
        BY <1>0, <4>2 DEF Push
      <4> QED
        BY <1>2, <3>7, <4>1, <4>2 DEF Record
    <3> QED
      BY <3>1, <3>2, <3>3, <3>4, <3>5, <3>6, <3>7 DEF PushStep
  <2>3. Busy' = Busy
    BY <1>0, <2>2 DEF Busy
  <2>4. Carried(Proxy)' \cap OfLine' \subseteq Carried(Proxy)
    <3>1. CASE Take(p)
      <4>1. Deferred \cap OfLine' = {}
        <5>1. Deferred \subseteq 1..happened /\ \A e \in 1..happened : e \in OfLine' <=> e \in OfLine
          BY Known, LineSame DEF LInv
        <5> QED
          BY <5>1 DEF LInv, SourceOK
      <4>2. CASE queue = None
        <5>1. push'[p].own = push[p].own /\ push'[p].held = push[p].own
          BY <1>0, <3>1, <4>2 DEF Take, Push
        <5> QED
          BY <1>0, <2>2, <5>1 DEF Carried
      <4>3. CASE queue # None
        <5>1. push'[p].own = push[p].own /\ push'[p].held = queue
          BY <1>0, <3>1, <4>3 DEF Take, Push
        <5>2. Carried(p)' \subseteq Carried(p) \cup Deferred
          BY <4>3, <5>1 DEF Carried, Deferred
        <5> QED
          BY <1>0, <2>2, <4>1, <5>2 DEF Carried
      <4> QED
        BY <4>2, <4>3
    <3>2. CASE ~Take(p)
      BY <1>0, <3>2, CarriedLess DEF LInv
    <3> QED
      BY <3>1, <3>2
  <2> QED
    BY <2>1, <2>3, <2>4, CloseStays
<1> QED
  BY <1>1, <1>2

LEMMA CloseDeferWrite ==
    ASSUME LInv, EndInv, [Next]_vars, deployment = "hooks", NEW h \in Hook, DeferWrite(h)
    PROVE  EndInv'
<1> PICK e : e = appending[h].event
  OBVIOUS
<1>0. push \in [Pusher -> Push] /\ Proxy \in Pusher
  BY DEF LInv, IInv, TypeInv, TypeOK, Pusher
<1>1. UNCHANGED <<before, ending, pending, chain, ahead>>
  BY DEF DeferWrite, batchVars
<1>2. e \notin OfLine'
  <2>1. e \in 1..happened \/ e = 0
    BY Known DEF LInv
  <2>2. 0 \notin OfLine' /\ \A f \in 1..happened : f \in OfLine' <=> f \in OfLine
    BY LineSame DEF LInv, OfLine, Event
  <2> QED
    BY <2>1, <2>2 DEF LInv, SourceOK
<1>3. CASE push' = push
  BY <1>1, <1>3, CloseStays DEF Busy, Carried
<1>4. ASSUME NEW p \in Pusher, push' = [push EXCEPT ![p].held = Append(@, e)]
      PROVE  EndInv'
  <2>1. push[p] \in Push /\ push[p].held \in Seq(Event)
    BY <1>0 DEF Push
  <2>2. /\ push'[p].at = push[p].at /\ push'[p].own = push[p].own /\ push'[p].held = Append(push[p].held, e)
        /\ \A q \in Pusher \ {p} : push'[q] = push[q]
    BY <1>0, <1>4, <2>1 DEF Push
  <2>3. ToSet(push'[p].held) = ToSet(push[p].held) \cup {e}
    BY <2>1, <2>2, SetAppend
  <2>4. Carried(Proxy)' \subseteq Carried(Proxy) \cup {e} /\ push'[Proxy].at = push[Proxy].at
    BY <1>0, <2>2, <2>3 DEF Carried
  <2>5. Busy' = Busy
    BY <2>4 DEF Busy
  <2> QED
    BY <1>1, <1>2, <2>4, <2>5, CloseStays
<1> QED
  BY <1>3, <1>4 DEF DeferWrite

(* A batch is added to the end of the chain. *)
LEMMA CloseBatch ==
    ASSUME LInv, EndInv, [Next]_vars, deployment = "hooks", UNCHANGED <<before, ending, ahead, push>>,
           ToSet(pending') \cap before = {},
           \/ chain' = chain
           \/ \E b \in Seq(Event) : chain' = Append(chain, b) /\ ToSet(b) \cap before = {}
    PROVE  EndInv'
<1>0. chain \in Seq(Seq(Event))
  BY DEF LInv, IInv, TypeInv, TypeOK
<1>1. before' \subseteq OfLine' /\ before' \subseteq 1..happened' /\ deployment' = "hooks"
  BY BeforeKept
<1>2. Busy' = Busy /\ Carried(Proxy)' = Carried(Proxy)
  BY DEF Busy, Carried
<1>3. \A i \in DOMAIN chain' : i > ahead - Busy => ToSet(chain'[i]) \cap before = {}
  <2>1. CASE chain' = chain
    BY <2>1 DEF EndInv, CloseWaits
  <2>2. ASSUME NEW b \in Seq(Event), chain' = Append(chain, b), ToSet(b) \cap before = {}
        PROVE  \A i \in DOMAIN chain' : i > ahead - Busy => ToSet(chain'[i]) \cap before = {}
    <3>1. /\ DOMAIN chain = 1..Len(chain) /\ Len(chain) \in Nat
          /\ DOMAIN chain' = 1..Len(chain) + 1
          /\ \A i \in 1..Len(chain) : chain'[i] = chain[i]
          /\ chain'[Len(chain) + 1] = b
      BY <1>0, <2>2
    <3>2. \A i \in 1..Len(chain) + 1 : i \in 1..Len(chain) \/ i = Len(chain) + 1
      BY <3>1
    <3> QED
      BY <2>2, <3>1, <3>2 DEF EndInv, CloseWaits
  <2> QED
    BY <2>1, <2>2
<1>4. CloseWaits'
  BY <1>1, <1>2, <1>3 DEF EndInv, CloseWaits
<1> QED
  BY <1>1, <1>4 DEF EndInv

LEMMA CloseEnqueue ==
    ASSUME LInv, EndInv, [Next]_vars, Enqueue \/ DrainTimer
    PROVE  EndInv'
<1>0. pending \in Seq(Event) /\ happened \in Nat /\ ToSet(<<>>) = {}
  BY SetNone DEF LInv, IInv, TypeInv, TypeOK
<1>1. deployment = "hooks" /\ UNCHANGED <<before, ending, ahead, push>>
  BY DEF Enqueue, DrainTimer
<1>2. ToSet(pending) \cap before = {} /\ before \subseteq 1..happened
  BY <1>1 DEF EndInv, CloseWaits
<1>3. CASE Enqueue
  <2> PICK b : b = Append(pending, happened + 1)
    OBVIOUS
  <2>1. b \in Seq(Event) /\ ToSet(b) = ToSet(pending) \cup {happened + 1}
    BY <1>0, SetAppend DEF Event
  <2>2. happened + 1 \notin before
    BY <1>0, <1>2
  <2>3. ToSet(b) \cap before = {}
    BY <1>2, <2>1, <2>2
  <2>4. \/ pending' = b /\ chain' = chain
        \/ pending' = <<>> /\ chain' = Append(chain, b)
    BY <1>3 DEF Enqueue
  <2> QED
    BY <1>0, <1>1, <2>1, <2>3, <2>4, CloseBatch
<1>4. CASE DrainTimer
  <2>1. pending' = <<>> /\ (chain' = chain \/ chain' = Append(chain, pending))
    BY <1>4 DEF DrainTimer, Batches
  <2> QED
    BY <1>0, <1>1, <1>2, <2>1, CloseBatch
<1> QED
  BY <1>3, <1>4

LEMMA CloseNextBatch ==
    ASSUME LInv, EndInv, [Next]_vars, NextBatch
    PROVE  EndInv'
<1>0. /\ push \in [Pusher -> Push] /\ Proxy \in Pusher /\ chain \in Seq(Seq(Event)) /\ chain # <<>>
      /\ deployment \in {"hooks", "stream"} /\ ahead \in Nat
  BY DEF LInv, IInv, TypeInv, TypeOK, Pusher, NextBatch
<1>1. deployment = "hooks" /\ UNCHANGED <<before, ending, ahead, pending>> /\ chain' = Tail(chain)
  BY <1>0 DEF LInv, OneDeployment, NextBatch
<1>2. before' \subseteq OfLine' /\ before' \subseteq 1..happened' /\ deployment' = "hooks"
  BY <1>1, BeforeKept
<1>3. /\ push'[Proxy].at = "take" /\ push'[Proxy].own = Head(chain) /\ push'[Proxy].held = <<>>
      /\ push[Proxy].at = "idle"
  BY <1>0 DEF NextBatch, Idle
<1>4. Busy = 0 /\ Busy' = 1 /\ Carried(Proxy)' = ToSet(Head(chain))
  BY <1>3, SetNone DEF Busy, Carried
<1>5. /\ DOMAIN chain' = 1..Len(chain) - 1 /\ Len(chain) \in Nat
      /\ \A i \in 1..Len(chain) - 1 : chain'[i] = chain[i + 1] /\ i + 1 \in DOMAIN chain
      /\ 1 \in DOMAIN chain /\ Head(chain) = chain[1]
  BY <1>0, <1>1, BatchedLess
<1>6. \A i \in DOMAIN chain : i > ahead => ToSet(chain[i]) \cap before = {}
  BY <1>0, <1>1, <1>4 DEF EndInv, CloseWaits
<1>7. \A i \in 1..Len(chain) - 1 : i > ahead - 1 => i + 1 > ahead
  BY <1>0, <1>5
<1>8. \A i \in DOMAIN chain' : i > ahead' - Busy' => ToSet(chain'[i]) \cap before' = {}
  BY <1>1, <1>4, <1>5, <1>6, <1>7
<1>9. ahead' = 0 => Carried(Proxy)' \cap before' = {}
  BY <1>1, <1>4, <1>5, <1>6
<1>10. CloseWaits'
  BY <1>1, <1>2, <1>8, <1>9 DEF EndInv, CloseWaits
<1> QED
  BY <1>1, <1>2, <1>10 DEF EndInv

LEMMA CloseClose ==
    ASSUME LInv, EndInv, [Next]_vars, Close
    PROVE  EndInv'
<1>0. /\ push \in [Pusher -> Push] /\ Proxy \in Pusher /\ happened \in Nat
      /\ chain' \in Seq(Seq(Event)) /\ Len(chain') \in Nat
  BY BatchesType DEF LInv, IInv, TypeInv, TypeOK, Pusher, Close
<1>1. /\ deployment = "hooks" /\ UNCHANGED <<push, source, happened>> /\ pending' = <<>> /\ ending' = "called"
      /\ ahead' = Len(chain') + Busy' /\ before' = {e \in 1..happened : source[e] = Proxy}
  BY DEF Close, Busy
<1>2. deployment' = "hooks" /\ ToSet(pending') = {}
  BY <1>1, SameDeployment, SetNone
<1>3. before' \subseteq OfLine' /\ before' \subseteq 1..happened'
  BY <1>0, <1>1, <1>2 DEF OfLine, Line, Event
<1>4. Busy' \in {0, 1} /\ DOMAIN chain' = 1..Len(chain')
  BY <1>0 DEF Busy
<1>5. \A i \in DOMAIN chain' : ~(i > ahead' - Busy')
  BY <1>0, <1>1, <1>4
<1>6. ahead' = 0 => Carried(Proxy)' = {}
  <2>1. SUFFICES ASSUME ahead' = 0 PROVE Carried(Proxy)' = {}
    OBVIOUS
  <2>2. push[Proxy].at = "idle"
    BY <1>0, <1>1, <1>4, <2>1 DEF Busy
  <2>3. push[Proxy].own = <<>> /\ push[Proxy].held = <<>>
    BY <1>0, <2>2 DEF LInv, IInv, PlacesInv, CarriedOK
  <2> QED
    BY <1>1, <2>3, SetNone DEF Carried
<1>7. CloseWaits'
  BY <1>2, <1>3, <1>5, <1>6 DEF CloseWaits
<1> QED
  BY <1>1, <1>2, <1>3, <1>7 DEF EndInv

LEMMA EndHooks == LInv /\ EndInv /\ [Next]_vars /\ deployment = "hooks" => EndInv'
<1> SUFFICES ASSUME LInv, EndInv, [Next]_vars, deployment = "hooks" PROVE EndInv'
  OBVIOUS
<1> USE DEF batchVars
<1>0. push \in [Pusher -> Push] /\ Proxy \in Pusher /\ Proxy \notin Hook /\ push[Stream].at = "idle"
  BY PushAssumption DEF LInv, IInv, TypeInv, TypeOK, Pusher, OneDeployment
<1>1. ASSUME push'[Proxy].at = push[Proxy].at, push'[Proxy].own = push[Proxy].own,
             push'[Proxy].held = push[Proxy].held, UNCHANGED <<before, ending, pending, chain, ahead>>
      PROVE  EndInv'
  BY <1>1, CloseStays DEF Busy, Carried
<1>2. ASSUME NEW h \in Hook, DeferOpen(h) \/ PushHook(h) \/ Crash(h) PROVE EndInv'
  <2>1. push'[Proxy] = push[Proxy] /\ UNCHANGED <<before, ending, pending, chain, ahead>>
    BY <1>0, <1>2 DEF DeferOpen, PushHook, Crash
  <2> QED
    BY <1>1, <2>1
<1>3. CASE Clear \/ UNCHANGED vars
  <2>1. push' = push /\ UNCHANGED <<before, ending, pending, chain, ahead>>
    BY <1>3 DEF Clear, vars
  <2> QED
    BY <1>1, <2>1
<1>4. CASE Closed
  <2>1. /\ UNCHANGED <<push, before, pending, chain, ahead>> /\ ending' = "done" /\ ahead' = 0
        /\ ending = "called"
    BY <1>4 DEF Closed
  <2>2. before' \subseteq OfLine' /\ before' \subseteq 1..happened' /\ deployment' = "hooks"
    BY <2>1, BeforeKept
  <2>3. CloseWaits'
    BY <2>1, <2>2 DEF EndInv, CloseWaits, Busy, Carried
  <2> QED
    BY <2>1, <2>2, <2>3 DEF EndInv
<1>5. CASE Tick
  <2>1. push'[Proxy] = [push[Proxy] EXCEPT !.next = Less(@)] /\ UNCHANGED <<before, ending, pending, chain, ahead>>
    BY <1>0, <1>5 DEF Tick
  <2>2. /\ push'[Proxy].at = push[Proxy].at /\ push'[Proxy].own = push[Proxy].own
        /\ push'[Proxy].held = push[Proxy].held
    BY <1>0, <2>1 DEF Push
  <2> QED
    BY <1>1, <2>1, <2>2
<1>6. /\ ~PushStream /\ ~FlushTimer /\ ~RecordStream /\ ~Stop /\ ~Stopped
      /\ \A e \in encrypting : ~Buffer(e) /\ ~Withhold(e)
  BY <1>0 DEF PushStream, FlushTimer, RecordStream, Stop, Stopped, Buffer, Withhold
<1> QED
  BY <1>2, <1>3, <1>4, <1>5, <1>6, ClosePushStep, CloseDeferWrite, CloseEnqueue, CloseNextBatch, CloseClose
     DEF Next

LEMMA EndStream == LInv /\ EndInv /\ [Next]_vars /\ deployment = "stream" => EndInv'
<1> SUFFICES ASSUME LInv, EndInv, [Next]_vars, deployment = "stream" PROVE EndInv'
  OBVIOUS
<1> USE DEF batchVars
<1>0. /\ push \in [Pusher -> Push] /\ Stream \in Pusher /\ Proxy \in Pusher /\ Proxy # Stream
      /\ Hook \subseteq Pusher \ {Stream} /\ happened \in Nat /\ ending \in {"no", "called", "done"}
      /\ push[Stream].at \in {"idle", "post", "record"} /\ pending \in Seq(Event)
  BY PushAssumption DEF LInv, IInv, TypeInv, TypeOK, Pusher, OneDeployment
<1>1. deployment' = "stream" /\ happened' \in Nat /\ happened' >= happened
  BY SameDeployment, LineSame DEF LInv
<1>2. 1..happened \subseteq 1..happened'
  BY <1>0, <1>1
<1>3. ASSUME before' \in {before, (1..happened) \ encrypting},
             ending' = "no" => ending = "no" /\ before' = before,
             ending' = "done" => ahead' = 0, StopWaits'
      PROVE  EndInv'
  BY <1>1, <1>2, <1>3 DEF EndInv
<1>4. ASSUME UNCHANGED <<before, ending, ahead, beside>>, encrypting' \subseteq encrypting,
             ToSet(pending') \subseteq ToSet(pending) \cup encrypting,
             Carried(Stream)' \subseteq Carried(Stream) \cup ToSet(pending)
      PROVE  EndInv'
  BY <1>1, <1>3, <1>4 DEF EndInv, StopWaits
<1>5. /\ ~\E h \in Hook : DeferOpen(h) \/ DeferWrite(h) \/ PushHook(h) \/ Crash(h)
      /\ ~Enqueue /\ ~DrainTimer /\ ~NextBatch /\ ~Close /\ ~Closed /\ ~Clear
  <2>1. /\ \A p \in Pusher \ {Stream} : push[p].at = "idle"
        /\ chain = <<>> /\ \A h \in Hook : appending[h].to = "none"
    BY DEF LInv, OneDeployment
  <2>2. \A h \in Hook : ~DeferOpen(h) /\ ~PushHook(h) /\ ~Crash(h)
    BY <1>0, <2>1 DEF DeferOpen, PushHook, Crash
  <2>3. \A h \in Hook : ~DeferWrite(h)
    BY <2>1, PushAssumption DEF DeferWrite
  <2>4. ~Enqueue /\ ~DrainTimer /\ ~NextBatch /\ ~Close /\ ~Closed /\ ~Clear
    BY <2>1 DEF Enqueue, DrainTimer, NextBatch, Close, Closed, Clear
  <2> QED
    BY <2>2, <2>3, <2>4
<1>6. ASSUME NEW p \in Pusher, PushStep(p) PROVE EndInv'
  <2>1. push[p].at # "idle"
    BY <1>6 DEF PushStep, Take, ReadTaken, CheckGate, Post, Record, Unlink, Truncate, Fill
  <2>2. p = Stream
    BY <2>1 DEF LInv, OneDeployment
  <2>3. Post(p)
    BY <1>0, <1>6, <2>1, <2>2 DEF PushStep, Take, ReadTaken, CheckGate, Post, Record, Unlink, Truncate, Fill
  <2>4. /\ push'[Stream].own = <<>> /\ push'[Stream].held = <<>>
        /\ UNCHANGED <<before, ending, encrypting, pending, ahead, beside>>
    BY <1>0, <2>2, <2>3 DEF Post, Push
  <2>5. Carried(Stream)' = {}
    BY <2>4, SetNone DEF Carried
  <2> QED
    BY <1>4, <2>4, <2>5
<1>7. CASE PushStream
  <2>1. ending' = "no" /\ ending = "no" /\ UNCHANGED before
    BY <1>7 DEF PushStream
  <2> QED
    BY <1>3, <2>1 DEF StopWaits
<1>8. CASE FlushTimer
  <2>1. UNCHANGED <<before, ending, encrypting, ahead, beside>> /\ Flush
    BY <1>8 DEF FlushTimer
  <2>2. pending' \in {pending, <<>>}
    BY <2>1 DEF Flush
  <2>3. ToSet(pending') \subseteq ToSet(pending)
    BY <2>2, SetNone
  <2>4. Carried(Stream)' \subseteq Carried(Stream) \cup ToSet(pending)
    <3>1. CASE push' = push
      BY <3>1 DEF Carried
    <3>2. CASE push' = [push EXCEPT ![Stream] = [Idle EXCEPT !.at = "post", !.held = pending]]
      <4>1. push'[Stream].own = <<>> /\ push'[Stream].held = pending
        BY <1>0, <3>2 DEF Idle
      <4> QED
        BY <4>1, SetNone DEF Carried
    <3> QED
      BY <2>1, <3>1, <3>2 DEF Flush
  <2> QED
    BY <1>4, <2>1, <2>3, <2>4
<1>9. CASE RecordStream
  <2>1. /\ push'[Stream].own = <<>> /\ push'[Stream].held = <<>> /\ ahead' = 0
        /\ UNCHANGED <<before, ending, encrypting, pending, beside>>
    BY <1>0, <1>9 DEF RecordStream, Idle
  <2>2. Carried(Stream)' = {}
    BY <2>1, SetNone DEF Carried
  <2> QED
    BY <1>3, <2>1, <2>2 DEF EndInv, StopWaits
<1>10. CASE Stop
  <2>1. /\ before' = (1..happened) \ encrypting /\ encrypting' = encrypting
        /\ ending' = "called" /\ Flush /\ beside' = (push[Stream].at # "idle")
        /\ ahead' = IF push'[Stream] # push[Stream] THEN 1 ELSE 0
    BY <1>10 DEF Stop
  <2>2. ASSUME push[Stream].at = "idle"
        PROVE  ToSet(pending') = {} /\ (ahead' = 0 => Carried(Stream)' = {})
    <3>1. pending' = <<>> /\ (ahead' = 0 => push'[Stream] = push[Stream])
      BY <1>0, <2>1, <2>2 DEF Flush
    <3>2. push[Stream].own = <<>> /\ push[Stream].held = <<>>
      BY <1>0, <2>2 DEF LInv, IInv, PlacesInv, CarriedOK
    <3> QED
      BY <3>1, <3>2, SetNone DEF Carried
  <2>3. StopWaits'
    BY <2>1, <2>2 DEF StopWaits
  <2> QED
    BY <1>3, <2>1, <2>3
<1>11. CASE Stopped
  <2>1. /\ ending' = "done" /\ ending = "called" /\ ahead' = 0 /\ ahead = 0
        /\ UNCHANGED <<push, before, encrypting, pending, beside>>
    BY <1>11 DEF Stopped
  <2> QED
    BY <1>3, <2>1 DEF EndInv, StopWaits, Carried
<1>12. CASE Tick
  <2>1. /\ push'[Stream] = [push[Stream] EXCEPT !.next = Less(@)]
        /\ UNCHANGED <<before, ending, encrypting, pending, ahead, beside>>
    BY <1>0, <1>12 DEF Tick
  <2>2. push'[Stream].own = push[Stream].own /\ push'[Stream].held = push[Stream].held
    BY <1>0, <2>1 DEF Push
  <2> QED
    BY <1>4, <2>1, <2>2 DEF Carried
<1>13. CASE UNCHANGED vars
  BY <1>4, <1>13 DEF vars, Carried
<1>14. ASSUME NEW e \in encrypting, Buffer(e) PROVE EndInv'
  <2>1. /\ encrypting' = encrypting \ {e} /\ pending' = Append(pending, e)
        /\ UNCHANGED <<push, before, ending, ahead, beside>>
    BY <1>14 DEF Buffer
  <2>2. ToSet(pending') = ToSet(pending) \cup {e}
    BY <1>0, <2>1, SetAppend
  <2> QED
    BY <1>4, <2>1, <2>2 DEF Carried
<1>15. ASSUME NEW e \in encrypting, Withhold(e) PROVE EndInv'
  <2>1. encrypting' = encrypting \ {e} /\ UNCHANGED <<push, pending, before, ending, ahead, beside>>
    BY <1>15 DEF Withhold
  <2> QED
    BY <1>4, <2>1 DEF Carried
<1> QED
  BY <1>5, <1>6, <1>7, <1>8, <1>9, <1>10, <1>11, <1>12, <1>13, <1>14, <1>15 DEF Next

THEOREM EndInvCorrect == Spec => [](LInv /\ EndInv)
<1>1. Init => LInv /\ EndInv
  BY TypeInvInit, PlacesInit, DeploymentInit, SourceInit, EndInit DEF LInv, IInv
<1>2. LInv /\ EndInv /\ [Next]_vars => (LInv /\ EndInv)'
  <2>1. LInv => deployment \in {"hooks", "stream"}
    BY DEF LInv, IInv, TypeInv, TypeOK
  <2> QED
    BY <2>1, TypeInvNext, PlacesNext, DeploymentNext, SourceNext, EndHooks, EndStream DEF LInv, IInv
<1> QED
  BY <1>1, <1>2, PTL DEF Spec

(* An event that is at none of the places that Waiting counts. *)
LEMMA WaitingNone ==
    ASSUME IInv, NEW e \in 1..happened,
           \A x \in Spot : /\ ~At("hook", x, e) /\ ~At("queue", x, e) /\ ~At("push", x, e)
                           /\ ~At("encrypting", x, e) /\ ~At("pending", x, e) /\ ~At("chain", x, e)
    PROVE  Waiting(e) = 0
<1> DEFINE N(k) == IF \E x \in Spot : At(k, x, e) THEN 1 ELSE 0
<1>1. Waiting(e) = N("hook") + N("push") + N("queue") + N("encrypting") + N("pending") + N("chain")
  BY CountPlaces DEF Waiting
<1>2. /\ N("hook") = 0 /\ N("push") = 0 /\ N("queue") = 0
      /\ N("encrypting") = 0 /\ N("pending") = 0 /\ N("chain") = 0
  OBVIOUS
<1> HIDE DEF N
<1> QED
  BY <1>1, <1>2

(* EndIsDrained, for any number of events and batches: close() returns when what
   was queued before it has been pushed, and stop() when what was in the buffer
   has, unless a batch was on its way; an event that was still being encrypted is
   buffered after stop()'s flush and may wait. *)
THEOREM EndIsDrainedAlways == Spec => []EndIsDrained
<1>1. ASSUME LInv, EndInv, ending = "done", ~beside, NEW e \in before
      PROVE  Waiting(e) = 0
  <2>0. e \in 1..happened /\ e \in Event /\ ahead = 0 /\ deployment \in {"hooks", "stream"}
    BY <1>1 DEF EndInv, LInv, IInv, TypeInv, TypeOK, Event
  <2>1. CASE deployment = "hooks"
    <3>1. CloseWaits /\ Line = Proxy /\ e \in OfLine
      BY <1>1, <2>1 DEF EndInv, CloseWaits, Line
    <3>2. \A x \in Spot : ~At("hook", x, e) /\ ~At("queue", x, e)
      BY <1>1, <3>1 DEF At, LInv, SourceOK
    <3>3. \A x \in Spot : ~At("push", x, e)
      BY <1>1, <2>0, <3>1 DEF At, LInv, SourceOK, CloseWaits
    <3>4. \A x \in Spot : ~At("pending", x, e)
      BY <1>1, <3>1 DEF At, CloseWaits
    <3>5. \A x \in Spot : ~At("chain", x, e)
      <4>1. DOMAIN chain \subseteq Nat \ {0} /\ Busy \in {0, 1}
        BY <1>1 DEF LInv, IInv, TypeInv, TypeOK, Busy
      <4>2. \A i \in DOMAIN chain : i > ahead - Busy
        BY <2>0, <4>1
      <4>3. e \notin Chained
        BY <1>1, <3>1, <4>2 DEF CloseWaits, Chained
      <4> QED
        BY <4>3 DEF At
    <3>6. \A x \in Spot : ~At("encrypting", x, e)
      BY <1>1, <2>1 DEF At, LInv, OneDeployment
    <3> QED
      BY <1>1, <2>0, <3>2, <3>3, <3>4, <3>5, <3>6, WaitingNone DEF LInv
  <2>2. CASE deployment = "stream"
    <3>1. e \notin encrypting /\ e \notin ToSet(pending) /\ e \notin Carried(Stream)
      BY <1>1, <2>0, <2>2 DEF EndInv, StopWaits
    <3>2. /\ queue = None /\ chain = <<>> /\ \A h \in Hook : appending[h].event = 0
          /\ \A p \in Pusher \ {Stream} : push[p].at = "idle"
      BY <1>1, <2>2 DEF LInv, OneDeployment, IInv, TypeInv, HookOK
    <3>3. \A p \in Pusher \ {Stream} : push[p].own = <<>> /\ push[p].held = <<>>
      BY <1>1, <3>2 DEF LInv, IInv, PlacesInv, CarriedOK
    <3>4. Chained = {} /\ Deferred = {} /\ \A p \in Pusher : e \notin Carried(p)
      BY <3>1, <3>2, <3>3, SetNone DEF Chained, Deferred, Carried
    <3>5. \A x \in Spot : /\ ~At("hook", x, e) /\ ~At("queue", x, e) /\ ~At("push", x, e)
                          /\ ~At("encrypting", x, e) /\ ~At("pending", x, e) /\ ~At("chain", x, e)
      BY <2>0, <3>1, <3>2, <3>4 DEF At, Event
    <3> QED
      BY <1>1, <2>0, <3>5, WaitingNone DEF LInv
  <2> QED
    BY <2>0, <2>1, <2>2
<1>2. LInv /\ EndInv => EndIsDrained
  BY <1>1 DEF EndIsDrained
<1> QED
  BY <1>2, EndInvCorrect, PTL
-----------------------------------------------------------------------------
(* GateTells. *)

(* The recursion of Doubled is well defined: for every n there is a function
   that obeys it up to n (from the least n for which there were none, the one
   before it would give it), and two such functions agree. *)
LEMMA LeastNumber ==
    ASSUME NEW S \in SUBSET Nat, S # {}
    PROVE  \E x \in S : \A y \in S : x <= y
<1>1. PICK x \in S : \A y \in S : ~(<<y, x>> \in OpToRel(<, Nat))
  BY NatLessThanWellFounded, WFMin
<1>2. \A y \in S : ~(y < x)
  BY <1>1 DEF OpToRel
<1> QED
  BY <1>2

DoublesTo(f, n) ==
    /\ f \in [0..n -> Nat]
    /\ f[0] = BackoffMin
    /\ \A i \in 1..n : f[i] = 2 * f[i - 1]

LEMMA DoublesExists == ASSUME NEW n \in Nat PROVE \E f : DoublesTo(f, n)
<1> DEFINE Bad == {m \in Nat : \A f : ~DoublesTo(f, m)}
<1>1. CASE Bad = {}
  BY <1>1
<1>2. CASE Bad # {}
  <2>1. PICK m \in Bad : \A k \in Bad : m <= k
    BY <1>2, LeastNumber
  <2>2. CASE m = 0
    <3> DEFINE f == [i \in 0..0 |-> BackoffMin]
    <3>1. DoublesTo(f, 0)
      BY PushAssumption DEF DoublesTo
    <3> QED
      BY <2>1, <2>2, <3>1
  <2>3. CASE m # 0
    <3>1. m - 1 \in Nat /\ m - 1 \notin Bad
      BY <2>1, <2>3
    <3>2. PICK g : DoublesTo(g, m - 1)
      BY <3>1
    <3> DEFINE f == [i \in 0..m |-> IF i = m THEN 2 * g[m - 1] ELSE g[i]]
    <3>3. f \in [0..m -> Nat] /\ f[0] = BackoffMin
      BY <2>3, <3>1, <3>2 DEF DoublesTo
    <3>4. ASSUME NEW i \in 1..m PROVE f[i] = 2 * f[i - 1]
      <4>1. i - 1 \in 0..m /\ i - 1 # m /\ f[i - 1] = g[i - 1]
        BY <2>1
      <4>2. CASE i = m
        BY <4>1, <4>2
      <4>3. CASE i # m
        BY <3>1, <3>2, <4>1, <4>3 DEF DoublesTo
      <4> QED
        BY <4>2, <4>3
    <3>5. DoublesTo(f, m)
      BY <3>3, <3>4 DEF DoublesTo
    <3> QED
      BY <2>1, <3>5
  <2> QED
    BY <2>2, <2>3
<1> QED
  BY <1>1, <1>2

LEMMA DoublesAgree ==
    ASSUME NEW m \in Nat, NEW n \in Nat, NEW f, NEW g, DoublesTo(f, m), DoublesTo(g, n),
           NEW k \in Nat, k <= m, k <= n
    PROVE  f[k] = g[k]
<1> DEFINE Bad == {i \in Nat : i <= m /\ i <= n /\ f[i] # g[i]}
<1>1. CASE Bad = {}
  BY <1>1
<1>2. CASE Bad # {}
  <2>1. PICK i \in Bad : \A j \in Bad : i <= j
    BY <1>2, LeastNumber
  <2>2. i # 0
    BY <2>1 DEF DoublesTo
  <2>3. i - 1 \in Nat /\ i - 1 \notin Bad
    BY <2>1, <2>2
  <2>4. f[i - 1] = g[i - 1]
    BY <2>1, <2>3
  <2>5. f[i] = 2 * f[i - 1] /\ g[i] = 2 * g[i - 1]
    BY <2>1, <2>2 DEF DoublesTo
  <2> QED
    BY <2>1, <2>4, <2>5
<1> QED
  BY <1>1, <1>2

LEMMA DoubledIs ==
    /\ Doubled \in [Nat -> Nat]
    /\ Doubled[0] = BackoffMin
    /\ \A n \in Nat : Doubled[n + 1] = 2 * Doubled[n]
<1> DEFINE F(n) == CHOOSE f : DoublesTo(f, n)
<1>1. \A n \in Nat : DoublesTo(F(n), n)
  BY DoublesExists
<1> HIDE DEF F
<1> DEFINE D == [n \in Nat |-> F(n)[n]]
<1>2. D \in [Nat -> Nat]
  <2>1. ASSUME NEW n \in Nat PROVE F(n)[n] \in Nat
    <3>1. F(n) \in [0..n -> Nat] /\ n \in 0..n
      BY <1>1 DEF DoublesTo
    <3> QED
      BY <3>1
  <2> QED
    BY <2>1
<1>3. D[0] = BackoffMin
  BY <1>1 DEF DoublesTo
<1>4. ASSUME NEW n \in Nat \ {0} PROVE D[n] = 2 * D[n - 1]
  <2>1. DoublesTo(F(n), n) /\ DoublesTo(F(n - 1), n - 1) /\ n - 1 \in Nat
    BY <1>1
  <2>2. F(n)[n - 1] = F(n - 1)[n - 1]
    BY <2>1, DoublesAgree
  <2>3. F(n)[n] = 2 * F(n)[n - 1]
    <3>1. n \in 1..n /\ \A i \in 1..n : F(n)[i] = 2 * F(n)[i - 1]
      BY <2>1 DEF DoublesTo
    <3> QED
      BY <3>1
  <2> QED
    BY <2>1, <2>2, <2>3
<1> HIDE DEF D
<1>5. D = [n \in Nat |-> IF n = 0 THEN BackoffMin ELSE 2 * D[n - 1]]
  BY <1>2, <1>3, <1>4
<1>6. Doubled = [n \in Nat |-> IF n = 0 THEN BackoffMin ELSE 2 * Doubled[n - 1]]
  BY <1>5 DEF Doubled
<1>7. Doubled[0] = BackoffMin /\ \A n \in Nat : n # 0 => Doubled[n] = 2 * Doubled[n - 1]
  BY <1>6
<1> DEFINE Bad == {i \in Nat : Doubled[i] \notin Nat}
<1>8. CASE Bad = {}
  <2>1. \A n \in Nat : Doubled[n] \in Nat
    BY <1>8
  <2>2. Doubled \in [Nat -> Nat]
    BY <1>6, <2>1
  <2>3. ASSUME NEW n \in Nat PROVE Doubled[n + 1] = 2 * Doubled[n]
    <3>1. n + 1 \in Nat /\ n + 1 # 0 /\ (n + 1) - 1 = n
      OBVIOUS
    <3> QED
      BY <1>7, <3>1
  <2> QED
    BY <1>7, <2>2, <2>3
<1>9. CASE Bad # {}
  <2>1. PICK i \in Bad : \A j \in Bad : i <= j
    BY <1>9, LeastNumber
  <2>2. i # 0
    BY <1>7, <2>1, PushAssumption
  <2>3. i - 1 \in Nat /\ i - 1 \notin Bad
    BY <2>1, <2>2
  <2> QED
    BY <1>7, <2>1, <2>2, <2>3
<1> QED
  BY <1>8, <1>9

(* The window after one refusal more. *)
LEMMA WindowIs ==
    /\ Window(0) = 0 /\ Window(1) = BackoffMin
    /\ \A n \in Nat \ {0} : /\ Window(n) \in Nat /\ Window(n) <= BackoffMax
                          /\ Window(n + 1) = Smaller(2 * Window(n), BackoffMax)
<1>1. BackoffMin \in Nat /\ BackoffMax \in Nat /\ BackoffMin <= BackoffMax
  BY PushAssumption
<1>2. Window(0) = 0 /\ Window(1) = BackoffMin
  BY <1>1, DoubledIs DEF Window, Smaller
<1>3. ASSUME NEW n \in Nat \ {0}
      PROVE  /\ Window(n) \in Nat /\ Window(n) <= BackoffMax
             /\ Window(n + 1) = Smaller(2 * Window(n), BackoffMax)
  <2> DEFINE d == Doubled[n - 1]
  <2>1. n - 1 \in Nat /\ (n - 1) + 1 = n /\ n + 1 # 0 /\ (n + 1) - 1 = n
    OBVIOUS
  <2>2. d \in Nat /\ Doubled[n] = 2 * d
    BY <2>1, DoubledIs
  <2>3. Window(n) = Smaller(d, BackoffMax) /\ Window(n + 1) = Smaller(2 * d, BackoffMax)
    BY <2>1, <2>2 DEF Window
  <2> HIDE DEF d
  <2> QED
    BY <1>1, <2>2, <2>3 DEF Smaller
<1> QED
  BY <1>2, <1>3

LEMMA DoubledGrows == ASSUME NEW n \in Nat PROVE Doubled[n] > n
<1> DEFINE Bad == {m \in Nat : ~(Doubled[m] > m)}
<1>1. CASE Bad = {}
  BY <1>1
<1>2. CASE Bad # {}
  <2>1. PICK m \in Bad : \A k \in Bad : m <= k
    BY <1>2, LeastNumber
  <2>2. m # 0
    BY <2>1, DoubledIs, PushAssumption
  <2>3. m - 1 \in Nat /\ m - 1 \notin Bad /\ (m - 1) + 1 = m
    BY <2>1, <2>2
  <2>4. Doubled[m - 1] \in Nat /\ Doubled[m] = 2 * Doubled[m - 1] /\ Doubled[m - 1] > m - 1
    BY <2>3, DoubledIs
  <2> QED
    BY <2>1, <2>3, <2>4
<1> QED
  BY <1>1, <1>2

(* Enough refusals give the longest window. *)
LEMMA LongestIs == Longest \in Nat \ {0} /\ Window(Longest) = BackoffMax
<1> DEFINE S == {n \in 1..BackoffMax + 1 : Window(n) = BackoffMax}
<1>1. BackoffMax \in Nat
  BY PushAssumption
<1>2. BackoffMax + 1 \in S
  <2>1. Doubled[BackoffMax] \in Nat /\ Doubled[BackoffMax] > BackoffMax
    BY <1>1, DoubledGrows, DoubledIs
  <2>2. Window(BackoffMax + 1) = Smaller(Doubled[BackoffMax], BackoffMax)
    BY <1>1 DEF Window
  <2> QED
    BY <1>1, <2>1, <2>2 DEF Smaller
<1>3. PICK n \in S : \A m \in S : n <= m
  <2>1. S \in SUBSET Nat /\ S # {}
    BY <1>1, <1>2
  <2> HIDE DEF S
  <2> QED
    BY <2>1, LeastNumber
<1>4. ASSUME NEW m \in 1..n - 1 PROVE Window(m) < BackoffMax
  <2>1. m \in Nat \ {0} /\ m \in 1..BackoffMax + 1 /\ m < n
    BY <1>1, <1>3
  <2>2. Window(m) # BackoffMax /\ Window(m) \in Nat /\ Window(m) <= BackoffMax
    BY <1>3, <2>1, WindowIs
  <2> QED
    BY <1>1, <2>2
<1>5. \E l \in 1..BackoffMax + 1 : Window(l) = BackoffMax /\ \A m \in 1..l - 1 : Window(m) < BackoffMax
  BY <1>3, <1>4
<1>6. Longest \in 1..BackoffMax + 1 /\ Window(Longest) = BackoffMax
  BY <1>5 DEF Longest
<1> QED
  BY <1>1, <1>6

(* What the gate keeps, as long as nothing raced: it tells the refusals
   recorded so far and the time since, but for the pusher that has counted an
   outcome and is still to write it, which holds the next gate itself. *)
TheGate == IF deployment = "stream" THEN memory ELSE file.gate

Recording == {"unlink", "truncate", "fill"}

Tells(g, n, time) ==
    /\ g = None <=> n = 0
    /\ g # None => g.backoff = Window(n) /\ g.left = Bigger(Window(n) - time, 0)

GateOK ==
    /\ refusals \in 0..Longest /\ since \in Nat
    /\ \A p, q \in Pusher : UnderWay(p) /\ UnderWay(q) => p = q
    /\ (\A p \in Pusher : push[p].at \notin Recording) => Tells(TheGate, refusals, since)
    /\ \A p \in Pusher :
         /\ push[p].at = "unlink" => refusals = 0
         /\ push[p].at \in {"truncate", "fill"} => push[p].next # None /\ Tells(push[p].next, refusals, since)
         /\ push[p].at = "fill" => p \in open /\ file.length = 0

GateInv == ~raced => GateOK

LEMMA GateInit == Init => GateInv
<1> SUFFICES ASSUME Init PROVE GateOK
  BY DEF GateInv
<1>1. \A p \in Pusher : push[p].at = "idle"
  BY DEF Init, Idle
<1>2. refusals = 0 /\ since = 0 /\ memory = None /\ file.gate = None
  BY DEF Init, NoFile
<1>3. Tells(TheGate, refusals, since)
  BY <1>2 DEF Tells, TheGate
<1> QED
  BY <1>1, <1>2, <1>3, LongestIs DEF GateOK, UnderWay, Recording

(* The next gate tells the outcome that is counted with it. *)
LEMMA NextTells ==
    ASSUME NEW g, Tells(g, refusals, since), refusals \in 0..Longest, NEW outcome, Count(outcome), ~raced
    PROVE  /\ refusals' \in 0..Longest /\ since' = 0
           /\ NextGate(g, outcome) = None <=> refusals' = 0
           /\ NextGate(g, outcome) # None =>
                NextGate(g, outcome) = [left |-> Window(refusals'), backoff |-> Window(refusals')]
<1> DEFINE next == NextGate(g, outcome)
<1>0. /\ BackoffMin \in Nat \ {0} /\ BackoffMax \in Nat \ {0} /\ BackoffMin <= BackoffMax
      /\ Longest \in Nat \ {0} /\ Window(Longest) = BackoffMax
      /\ \A x \in Nat : None # [left |-> x, backoff |-> x]
  BY PushAssumption, LongestIs
<1>1. CASE outcome = "watched"
  BY <1>0, <1>1 DEF Count, NextGate
<1>2. CASE outcome = "receiving_paused"
  <2>1. refusals' = Longest /\ since' = 0
    BY <1>2 DEF Count
  <2>2. next = [left |-> BackoffMax, backoff |-> BackoffMax]
    BY <1>2 DEF NextGate
  <2> QED
    BY <1>0, <2>1, <2>2
<1>3. CASE outcome \notin {"watched", "receiving_paused"}
  <2>1. refusals' = Smaller(refusals + 1, Longest) /\ since' = 0
    BY <1>3 DEF Count
  <2> DEFINE w == IF g = None THEN BackoffMin ELSE Smaller(2 * g.backoff, BackoffMax)
  <2>2. next = [left |-> w, backoff |-> w]
    BY <1>3 DEF NextGate
  <2>3. w = Window(refusals') /\ w \in Nat /\ refusals' \in 1..Longest
    <3>1. CASE g = None
      <4>1. refusals = 0 /\ refusals' = 1
        BY <1>0, <2>1, <3>1 DEF Tells, Smaller
      <4> QED
        BY <1>0, <3>1, <4>1, WindowIs
    <3>2. CASE g # None
      <4>1. refusals \in 1..Longest /\ refusals \in Nat \ {0} /\ g.backoff = Window(refusals)
        BY <1>0, <3>2 DEF Tells
      <4>2. w = Smaller(2 * Window(refusals), BackoffMax) /\ Window(refusals) \in Nat
        BY <3>2, <4>1, WindowIs
      <4>3. CASE refusals < Longest
        <5>1. refusals' = refusals + 1
          BY <1>0, <2>1, <4>1, <4>3 DEF Smaller
        <5>2. w = Window(refusals')
          BY <4>1, <4>2, <5>1, WindowIs
        <5> QED
          BY <1>0, <4>1, <4>2, <4>3, <5>1, <5>2 DEF Smaller
      <4>4. CASE refusals = Longest
        <5>1. refusals' = Longest
          BY <1>0, <2>1, <4>4 DEF Smaller
        <5>2. w = BackoffMax
          BY <1>0, <4>2, <4>4 DEF Smaller
        <5> QED
          BY <1>0, <5>1, <5>2
      <4> QED
        BY <1>0, <4>1, <4>3, <4>4
    <3> QED
      BY <3>1, <3>2
  <2> HIDE DEF w
  <2> QED
    BY <1>0, <2>1, <2>2, <2>3
<1> QED
  BY <1>1, <1>2, <1>3

(* A gate just made tells the outcome. *)
LEMMA NewTells ==
    ASSUME NEW next, refusals' \in 0..Longest, since' = 0, next = None <=> refusals' = 0,
           next # None => next = [left |-> Window(refusals'), backoff |-> Window(refusals')]
    PROVE  Tells(next, refusals', since')
<1>1. CASE next = None
  BY <1>1 DEF Tells
<1>2. CASE next # None
  <2>1. refusals' \in Nat \ {0} /\ Window(refusals') \in Nat
    BY <1>2, WindowIs, LongestIs
  <2> QED
    BY <1>2, <2>1 DEF Bigger, Tells
<1> QED
  BY <1>1, <1>2

(* The time passes for the gate as for the refusals. *)
LEMMA LessTells ==
    ASSUME NEW g \in Gate \cup {None}, NEW n \in 0..Longest, NEW time \in Nat, Tells(g, n, time)
    PROVE  Tells(Less(g), n, IF n = 0 THEN 0 ELSE Smaller(time + 1, BackoffMax))
<1>0. Longest \in Nat \ {0} /\ BackoffMax \in Nat /\ None \notin Gate
  BY LongestIs, PushAssumption DEF Gate
<1>1. CASE g = None
  BY <1>0, <1>1 DEF Tells, Less
<1>2. CASE g # None
  <2>1. /\ n \in Nat \ {0} /\ Window(n) \in Nat /\ Window(n) <= BackoffMax
        /\ g.backoff = Window(n) /\ g.left = Bigger(Window(n) - time, 0) /\ g \in Gate
    BY <1>0, <1>2, WindowIs DEF Tells
  <2>2. Less(g) \in Gate /\ Less(g).backoff = g.backoff /\ Less(g).left = Bigger(g.left - 1, 0)
    BY <1>2, <2>1 DEF Less, Gate, Bigger
  <2>3. Less(g).left = Bigger(Window(n) - Smaller(time + 1, BackoffMax), 0)
    BY <1>0, <2>1, <2>2 DEF Bigger, Smaller
  <2> QED
    BY <1>0, <2>1, <2>2, <2>3 DEF Tells
<1> QED
  BY <1>1, <1>2

LEMMA RacedStays == [Next]_vars /\ raced => raced'
BY DEF Next, DeferOpen, DeferWrite, PushHook, Crash, PushStep, Take, ReadTaken, CheckGate, Post,
       Record, Unlink, Truncate, Fill, Clear, Enqueue, DrainTimer, NextBatch, Close, Closed,
       PushStream, Buffer, Withhold, FlushTimer, RecordStream, Stop, Stopped, Tick, vars, historyVars

(* A step that leaves the gates and what is counted alone. *)
LEMMA GateStays ==
    ASSUME GateOK, UNCHANGED <<deployment, file, memory, refusals, since>>,
           \A p \in Pusher : push'[p].at \in Recording =>
               push'[p].at = push[p].at /\ push'[p].next = push[p].next /\ (p \in open => p \in open'),
           \A p \in Pusher : push[p].at \in Recording => push'[p].at \in Recording,
           \A p \in Pusher : UnderWay(p)' => UnderWay(p) \/ \A q \in Pusher \ {p} : ~UnderWay(q)'
    PROVE  GateOK'
<1>1. TheGate' = TheGate
  BY DEF TheGate
<1>2. ASSUME NEW p \in Pusher, NEW q \in Pusher, UnderWay(p)', UnderWay(q)' PROVE p = q
  BY <1>2 DEF GateOK
<1>3. (\A p \in Pusher : push'[p].at \notin Recording) => Tells(TheGate', refusals', since')
  BY <1>1 DEF GateOK
<1>4. ASSUME NEW p \in Pusher
      PROVE  /\ push'[p].at = "unlink" => refusals' = 0
             /\ push'[p].at \in {"truncate", "fill"} =>
                  push'[p].next # None /\ Tells(push'[p].next, refusals', since')
             /\ push'[p].at = "fill" => p \in open' /\ file'.length = 0
  BY DEF GateOK, Recording
<1> QED
  BY <1>2, <1>3, <1>4 DEF GateOK

(* When one is past its look at the gate, no other is. *)
LEMMA GateOne ==
    ASSUME GateOK, NEW p \in Pusher, UnderWay(p), \A q \in Pusher \ {p} : push'[q].at = push[q].at
    PROVE  /\ \A q \in Pusher \ {p} : ~UnderWay(q) /\ ~UnderWay(q)'
           /\ \A q \in Pusher \ {p} : push[q].at \notin Recording /\ push'[q].at \notin Recording
           /\ \A q, r \in Pusher : UnderWay(q)' /\ UnderWay(r)' => q = r
BY DEF GateOK, UnderWay, Recording

LEMMA GatePushStep ==
    ASSUME TypeInv, OneDeployment, GateOK, NEW p \in Pusher, PushStep(p), ~raced'
    PROVE  GateOK'
<1>0. /\ push \in [Pusher -> Push] /\ push[p] \in Push /\ ~raced
      /\ deployment' = deployment /\ deployment \in {"hooks", "stream"}
      /\ push[p].at # "idle" /\ (p # Stream => deployment = "hooks") /\ Stream \in Pusher
      /\ \A q \in Pusher \ {p} : push'[q] = push[q]
  <2>1. push \in [Pusher -> Push] /\ deployment \in {"hooks", "stream"} /\ Stream \in Pusher
    BY DEF TypeInv, TypeOK, Pusher
  <2>2. ~raced
    BY DEF PushStep, Take, ReadTaken, CheckGate, Post, Record, Unlink, Truncate, Fill, historyVars
  <2>3. deployment' = deployment /\ push[p].at # "idle"
    BY DEF PushStep, Take, ReadTaken, CheckGate, Post, Record, Unlink, Truncate, Fill
  <2>4. \A q \in Pusher \ {p} : push'[q] = push[q]
    BY <2>1 DEF PushStep, Take, ReadTaken, CheckGate, Post, Record, Unlink, Truncate, Fill, End
  <2> QED
    BY <2>1, <2>2, <2>3, <2>4 DEF OneDeployment
<1>1. ASSUME UNCHANGED <<file, memory, refusals, since, open>>, push[p].at \notin Recording,
             push'[p].at \notin Recording,
             UnderWay(p)' => UnderWay(p) \/ \A q \in Pusher \ {p} : ~UnderWay(q)'
      PROVE  GateOK'
  BY <1>0, <1>1, GateStays DEF UnderWay
<1>2. ASSUME push'[p] = Idle, UnderWay(p), Tells(TheGate', refusals', since'),
             refusals' \in 0..Longest, since' \in Nat
      PROVE  GateOK'
  <2>1. push'[p].at = "idle"
    BY <1>2 DEF Idle
  <2> QED
    BY <1>0, <1>2, <2>1, GateOne DEF GateOK, UnderWay, Recording
<1>3. CASE Take(p)
  BY <1>0, <1>1, <1>3 DEF Take, Push, UnderWay, Recording, gateVars, historyVars
<1>4. CASE ReadTaken(p)
  BY <1>0, <1>1, <1>4 DEF ReadTaken, Push, UnderWay, Recording, gateVars, historyVars
<1>5. CASE CheckGate(p)
  <2>1. UNCHANGED <<file, memory, refusals, since, open>> /\ push[p].at = "check"
    BY <1>5 DEF CheckGate, gateVars
  <2>2. CASE GateOpen(file.gate)
    <3>1. push'[p].at = "post" /\ \A q \in Pusher \ {p} : ~UnderWay(q)
      BY <1>0, <1>5, <2>2 DEF CheckGate, Push
    <3>2. \A q \in Pusher \ {p} : ~UnderWay(q)'
      BY <1>0, <3>1 DEF UnderWay
    <3> QED
      BY <1>1, <2>1, <3>1, <3>2 DEF Recording
  <2>3. CASE ~GateOpen(file.gate)
    <3>1. push'[p].at = "idle"
      BY <1>0, <1>5, <2>3 DEF CheckGate, End, Idle
    <3> QED
      BY <1>1, <2>1, <3>1 DEF Recording, UnderWay
  <2> QED
    BY <2>2, <2>3
<1>6. CASE Post(p)
  <2>1. push[p].at = "post" /\ push'[p].at = "record" /\ UNCHANGED <<file, memory, refusals, since, open>>
    BY <1>0, <1>6 DEF Post, Push, gateVars, historyVars
  <2> QED
    BY <1>1, <2>1 DEF UnderWay, Recording
<1>7. CASE Record(p)
  <2> DEFINE next == NextGate(file.gate, push[p].outcome)
  <2>1. /\ p # Stream /\ push[p].at = "record" /\ Count(push[p].outcome)
        /\ UNCHANGED <<file, memory, open>>
        /\ \/ next # None /\ push' = [push EXCEPT ![p].at = "truncate", ![p].next = next]
           \/ next = None /\ push' = [push EXCEPT ![p].at = "unlink"]
           \/ next = None /\ file.gate = None /\ push' = [push EXCEPT ![p] = Idle]
    BY <1>7 DEF Record, End, gateVars
  <2>2. UnderWay(p) /\ push[p].at \notin Recording
    BY <2>1 DEF UnderWay, Recording
  <2>3. /\ \A q \in Pusher \ {p} : push[q].at \notin Recording /\ push'[q].at \notin Recording
        /\ \A q, r \in Pusher : UnderWay(q)' /\ UnderWay(r)' => q = r
    BY <1>0, <2>2, GateOne
  <2>4. Tells(file.gate, refusals, since) /\ TheGate = file.gate /\ TheGate' = file.gate
    BY <1>0, <2>1, <2>2, <2>3 DEF GateOK, TheGate
  <2>5. /\ refusals' \in 0..Longest /\ since' = 0 /\ (next = None <=> refusals' = 0)
        /\ Tells(next, refusals', since')
    BY <1>0, <2>1, <2>4, NextTells, NewTells DEF GateOK
  <2> HIDE DEF next
  <2>6. ASSUME next # None, push' = [push EXCEPT ![p].at = "truncate", ![p].next = next]
        PROVE  GateOK'
    <3>1. push'[p].at = "truncate" /\ push'[p].next = next
      BY <1>0, <2>6 DEF Push
    <3> QED
      BY <2>3, <2>5, <2>6, <3>1 DEF GateOK, Recording
  <2>7. ASSUME next = None, push' = [push EXCEPT ![p].at = "unlink"]
        PROVE  GateOK'
    <3>1. push'[p].at = "unlink"
      BY <1>0, <2>7 DEF Push
    <3> QED
      BY <2>3, <2>5, <2>7, <3>1 DEF GateOK, Recording
  <2>8. ASSUME next = None, file.gate = None, push' = [push EXCEPT ![p] = Idle]
        PROVE  GateOK'
    <3>1. push'[p] = Idle
      BY <1>0, <2>8
    <3> QED
      BY <1>2, <2>2, <2>4, <2>5, <2>8, <3>1
  <2> QED
    BY <2>1, <2>6, <2>7, <2>8
<1>8. CASE Unlink(p)
  <2>1. /\ push[p].at = "unlink" /\ push'[p] = Idle /\ file'.gate = None
        /\ UNCHANGED <<refusals, since>>
    BY <1>0, <1>8 DEF Unlink, End, NoFile, historyVars
  <2>2. UnderWay(p) /\ refusals = 0 /\ since \in Nat
    BY <2>1 DEF UnderWay, GateOK
  <2>3. deployment = "hooks"
    BY <1>0, <2>1 DEF OneDeployment
  <2> QED
    BY <1>0, <1>2, <2>1, <2>2, <2>3, LongestIs DEF Tells, TheGate
<1>9. CASE Truncate(p)
  <2>1. /\ push[p].at = "truncate" /\ push'[p].at = "fill" /\ push'[p].next = push[p].next
        /\ file'.length = 0 /\ p \in open' /\ UNCHANGED <<refusals, since>>
    BY <1>0, <1>9 DEF Truncate, Push, NoFile, historyVars
  <2>2. UnderWay(p)
    BY <2>1 DEF UnderWay
  <2> QED
    BY <1>0, <2>1, <2>2, GateOne DEF GateOK, Recording
<1>10. CASE Fill(p)
  <2>1. /\ push[p].at = "fill" /\ push'[p] = Idle /\ UNCHANGED <<refusals, since>>
    BY <1>0, <1>10 DEF Fill, End, historyVars
  <2>2. UnderWay(p) /\ p \in open /\ file.length = 0 /\ Tells(push[p].next, refusals, since)
    BY <2>1 DEF UnderWay, GateOK
  <2>3. Length(push[p].next, push[p].outcome) \in {1, 2, 3}
    BY DEF Length
  <2>4. file'.gate = push[p].next
    BY <1>10, <2>2, <2>3 DEF Fill
  <2>5. deployment = "hooks"
    BY <1>0, <2>1 DEF OneDeployment
  <2> QED
    BY <1>0, <1>2, <2>1, <2>2, <2>4, <2>5 DEF GateOK, TheGate
<1> QED
  BY <1>3, <1>4, <1>5, <1>6, <1>7, <1>8, <1>9, <1>10 DEF PushStep

LEMMA GateNext == TypeInv /\ OneDeployment /\ GateInv /\ [Next]_vars => GateInv'
<1> SUFFICES ASSUME TypeInv, OneDeployment, GateInv, [Next]_vars, ~raced' PROVE GateOK'
  BY DEF GateInv
<1>0. /\ push \in [Pusher -> Push] /\ deployment' = deployment /\ deployment \in {"hooks", "stream"}
      /\ Stream \in Pusher /\ Proxy \in Pusher /\ Stream # Proxy /\ Hook \subseteq Pusher /\ Stream \notin Hook
      /\ file \in [length : Nat, gate : Gate \cup {None}] /\ memory \in Gate \cup {None}
      /\ GateOK /\ ~raced
  BY SameDeployment, RacedStays, PushAssumption DEF TypeInv, TypeOK, Pusher, GateInv
<1>1. ASSUME UNCHANGED <<file, memory, refusals, since, open>>,
             \A p \in Pusher : (UnderWay(p) \/ UnderWay(p)') =>
                                  (push'[p].at = push[p].at /\ push'[p].next = push[p].next)
      PROVE  GateOK'
  <2>1. \A p \in Pusher : push'[p].at \in Recording =>
            push'[p].at = push[p].at /\ push'[p].next = push[p].next /\ (p \in open => p \in open')
    BY <1>1 DEF UnderWay, Recording
  <2>2. \A p \in Pusher : push[p].at \in Recording => push'[p].at \in Recording
    BY <1>1 DEF UnderWay, Recording
  <2>3. \A p \in Pusher : UnderWay(p)' => UnderWay(p) \/ \A q \in Pusher \ {p} : ~UnderWay(q)'
    BY <1>1 DEF UnderWay
  <2>4. UNCHANGED <<deployment, file, memory, refusals, since>>
    BY <1>0, <1>1
  <2> QED
    BY <1>0, <2>1, <2>2, <2>3, <2>4, GateStays
<1>20. ASSUME UNCHANGED <<file, memory, refusals, since, open, push>> PROVE GateOK'
  BY <1>1, <1>20 DEF UnderWay
<1>2. ASSUME NEW h \in Hook, DeferOpen(h) PROVE GateOK'
  <2>1. UNCHANGED <<file, memory, refusals, since, open, push>>
    BY <1>2 DEF DeferOpen, gateVars, historyVars
  <2> QED
    BY <1>20, <2>1
<1>3. ASSUME NEW h \in Hook, DeferWrite(h) PROVE GateOK'
  <2>1. UNCHANGED <<file, memory, refusals, since, open>>
    BY <1>3 DEF DeferWrite, gateVars, historyVars
  <2>2. push' = push \/ \E q \in Pusher : push' = [push EXCEPT ![q].held = Append(@, appending[h].event)]
    BY <1>3 DEF DeferWrite
  <2>3. ASSUME NEW q \in Pusher, push' = [push EXCEPT ![q].held = Append(@, appending[h].event)],
               NEW p \in Pusher
        PROVE  push'[p].at = push[p].at /\ push'[p].next = push[p].next
    BY <1>0, <2>3 DEF Push
  <2> QED
    BY <1>1, <1>20, <2>1, <2>2, <2>3 DEF UnderWay
<1>4. ASSUME NEW h \in Hook, PushHook(h) PROVE GateOK'
  <2>1. push'[h].at = "take" /\ push[h].at = "idle" /\ \A p \in Pusher \ {h} : push'[p] = push[p]
    BY <1>0, <1>4 DEF PushHook, Idle
  <2>2. UNCHANGED <<file, memory, refusals, since, open>>
    BY <1>4 DEF PushHook, gateVars, historyVars
  <2>3. ~UnderWay(h)' /\ ~UnderWay(h)
    BY <2>1 DEF UnderWay
  <2> QED
    BY <1>1, <2>1, <2>2, <2>3 DEF UnderWay
<1>5. ASSUME NEW h \in Hook, Crash(h) PROVE GateOK'
  <2>1. /\ ~UnderWay(h) /\ push'[h].at = "idle" /\ \A p \in Pusher \ {h} : push'[p] = push[p]
        /\ open' = open \ {h} /\ UNCHANGED <<file, memory, refusals, since>>
    BY <1>0, <1>5 DEF Crash, Idle
  <2> QED
    BY <1>0, <2>1, GateStays DEF UnderWay, Recording
<1>6. ASSUME NEW p \in Pusher, PushStep(p) PROVE GateOK'
  BY <1>0, <1>6, GatePushStep
<1>7. CASE Clear
  <2>1. /\ file'.gate = None /\ refusals' = 0 /\ since' = 0 /\ push' = push /\ deployment = "hooks"
        /\ \A p \in Pusher : ~UnderWay(p)
    BY <1>7 DEF Clear, NoFile
  <2>2. Tells(TheGate', refusals', since') /\ \A p \in Pusher : ~UnderWay(p)'
    BY <1>0, <2>1 DEF Tells, TheGate, UnderWay
  <2> QED
    <3>1. \A p \in Pusher : push'[p].at \notin Recording
      BY <2>2 DEF UnderWay, Recording
    <3>2. refusals' \in 0..Longest /\ since' \in Nat
      BY <2>1, LongestIs
    <3> QED
      BY <2>2, <3>1, <3>2 DEF GateOK, Recording
<1>8. CASE \/ Enqueue \/ DrainTimer \/ Close \/ Closed \/ PushStream \/ Stopped
           \/ \E e \in encrypting : Buffer(e) \/ Withhold(e)
           \/ UNCHANGED vars
  <2>1. UNCHANGED <<file, memory, refusals, since, open, push>>
    BY <1>8 DEF Enqueue, DrainTimer, Close, Closed, PushStream, Buffer, Withhold, Stopped, vars, gateVars, historyVars
  <2> QED
    BY <1>20, <2>1
<1>9. CASE NextBatch
  <2>1. push'[Proxy].at = "take" /\ push[Proxy].at = "idle" /\ \A p \in Pusher \ {Proxy} : push'[p] = push[p]
    BY <1>0, <1>9 DEF NextBatch, Idle
  <2>2. UNCHANGED <<file, memory, refusals, since, open>>
    BY <1>9 DEF NextBatch, gateVars, historyVars
  <2>3. ~UnderWay(Proxy)' /\ ~UnderWay(Proxy)
    BY <2>1 DEF UnderWay
  <2> QED
    BY <1>1, <2>1, <2>2, <2>3 DEF UnderWay
<1>10. CASE FlushTimer \/ Stop
  <2>1. Flush /\ deployment = "stream" /\ UNCHANGED <<file, memory, refusals, since, open>>
    BY <1>10 DEF FlushTimer, Stop, gateVars, historyVars
  <2>2. push' = push \/ (push[Stream].at = "idle" /\ push' = [push EXCEPT ![Stream] = [Idle EXCEPT !.at = "post", !.held = pending]])
    BY <2>1 DEF Flush
  <2>3. CASE push' = push
    BY <1>20, <2>1, <2>3
  <2>4. CASE push[Stream].at = "idle" /\ push' = [push EXCEPT ![Stream] = [Idle EXCEPT !.at = "post", !.held = pending]]
    <3>1. push'[Stream].at = "post" /\ \A p \in Pusher \ {Stream} : push'[p] = push[p] /\ push[p].at = "idle"
      BY <1>0, <2>1, <2>4 DEF Idle, OneDeployment
    <3> QED
      BY <1>0, <2>1, <2>4, <3>1, GateStays DEF UnderWay, Recording
  <2> QED
    BY <2>2, <2>3, <2>4
<1>11. CASE RecordStream
  <2>1. /\ push[Stream].at = "record" /\ push'[Stream].at = "idle" /\ deployment = "stream"
        /\ Count(push[Stream].outcome) /\ memory' = NextGate(memory, push[Stream].outcome)
    BY <1>0, <1>11 DEF RecordStream, Idle, OneDeployment
  <2>2. \A p \in Pusher \ {Stream} : push'[p].at = "idle" /\ push[p].at = "idle"
    BY <1>0, <1>11, <2>1 DEF RecordStream, OneDeployment
  <2>3. Tells(memory, refusals, since)
    BY <1>0, <2>1, <2>2 DEF GateOK, TheGate, Recording
  <2>4. refusals' \in 0..Longest /\ since' = 0 /\ Tells(memory', refusals', since')
    BY <1>0, <2>1, <2>3, NextTells, NewTells DEF GateOK
  <2>5. \A p \in Pusher : push'[p].at = "idle"
    BY <2>1, <2>2
  <2> QED
    BY <1>0, <2>1, <2>4, <2>5 DEF GateOK, TheGate, UnderWay, Recording
<1>12. CASE Tick
  <2>1. /\ file' = [file EXCEPT !.gate = Less(@)] /\ memory' = Less(memory) /\ open' = open
        /\ push' = [p \in Pusher |-> [push[p] EXCEPT !.next = Less(@)]]
        /\ since' = (IF refusals = 0 THEN 0 ELSE Smaller(since + 1, BackoffMax)) /\ refusals' = refusals
    BY <1>12 DEF Tick
  <2>2. /\ file'.gate = Less(file.gate) /\ file'.length = file.length
        /\ \A p \in Pusher : push'[p].at = push[p].at /\ push'[p].next = Less(push[p].next)
    BY <1>0, <2>1 DEF Push
  <2>3. refusals \in 0..Longest /\ since \in Nat /\ since' \in Nat
    BY <1>0, <2>1, PushAssumption DEF GateOK, Smaller
  <2>4. ASSUME NEW g \in Gate \cup {None}, Tells(g, refusals, since)
        PROVE  Tells(Less(g), refusals', since')
    BY <2>1, <2>3, <2>4, LessTells
  <2>5. TheGate \in Gate \cup {None} /\ TheGate' = Less(TheGate)
    BY <1>0, <2>1, <2>2 DEF TheGate
  <2>6. (\A p \in Pusher : push'[p].at \notin Recording) => Tells(TheGate', refusals', since')
    BY <1>0, <2>2, <2>4, <2>5 DEF GateOK
  <2>7. ASSUME NEW p \in Pusher, push'[p].at \in {"truncate", "fill"}
        PROVE  push'[p].next # None /\ Tells(push'[p].next, refusals', since')
    <3>1. push[p].next # None /\ Tells(push[p].next, refusals, since) /\ push[p].next \in Gate \cup {None}
      BY <1>0, <2>2, <2>7 DEF GateOK, Push
    <3>2. Less(push[p].next) # None
      BY <3>1, PushAssumption DEF Less, Gate, Bigger
    <3> QED
      BY <2>2, <2>4, <3>1, <3>2
  <2>8. \A p, q \in Pusher : UnderWay(p)' /\ UnderWay(q)' => p = q
    BY <1>0, <2>2 DEF GateOK, UnderWay
  <2> QED
    BY <1>0, <2>1, <2>2, <2>3, <2>6, <2>7, <2>8 DEF GateOK
<1> QED
  BY <1>2, <1>3, <1>4, <1>5, <1>6, <1>7, <1>8, <1>9, <1>10, <1>11, <1>12 DEF Next

THEOREM GateInvCorrect == Spec => [](TypeInv /\ OneDeployment /\ GateInv)
BY TypeInvInit, TypeInvNext, DeploymentInit, DeploymentNext, GateInit, GateNext, PTL DEF Spec

(* GateTells, for any back-offs: while pushes do not overlap, the gate is
   closed until the window that the refusals in a row ask for is over. *)
THEOREM GateTellsAlways == Spec => []GateTells
<1>1. TypeInv /\ GateInv => GateTells
  <2> SUFFICES ASSUME TypeInv, GateInv, ~raced,
                      \A p \in Pusher : ~UnderWay(p) \/ push[p].at \in {"post", "record"}
               PROVE  GateOpen(TheGate) <=> since >= Window(refusals)
    BY DEF GateTells, TheGate
  <2>1. refusals \in 0..Longest /\ since \in Nat /\ Tells(TheGate, refusals, since)
    BY DEF GateInv, GateOK, UnderWay, Recording
  <2>2. CASE refusals = 0
    BY <2>1, <2>2, WindowIs DEF Tells, GateOpen
  <2>3. CASE refusals # 0
    <3>1. refusals \in Nat \ {0} /\ Window(refusals) \in Nat
      BY <2>1, <2>3, LongestIs, WindowIs
    <3> QED
      BY <2>1, <2>3, <3>1 DEF Tells, GateOpen, Bigger
  <2> QED
    BY <2>2, <2>3
<1> QED
  BY <1>1, GateInvCorrect, PTL
=============================================================================
