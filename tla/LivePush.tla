------------------------------ MODULE LivePush ------------------------------
(***************************************************************************)
(* Live pushes of one machine to the relay: packages/sync-encryptor/src/   *)
(* shim-push.ts (hooks), live-gate.ts, streaming-transport.ts (the         *)
(* dashboard command) and packages/mcp-proxy/src/cloud-push.ts (the proxy).*)
(*                                                                         *)
(* A hook is one process that brings one event.  It either defers it - it  *)
(* appends it to the queue file and ends - or pushes it, after the events  *)
(* it takes from that file.  The proxy pushes its batches the same way, one *)
(* after the other.  All of them share the file of the live gate.  The     *)
(* dashboard command is a deployment of its own: its transport keeps its   *)
(* buffer and its gate in memory.                                          *)
(*   - The machine has credentials and a licence for live streaming, and   *)
(*     no event is recorded local-only (CapturePause models that filter).  *)
(*   - Events are numbered in the order they happen.                       *)
(*   - A time is what is left of it; Tick is one unit.                     *)
(***************************************************************************)
EXTENDS Integers, Sequences, FiniteSets

CONSTANTS
    Hook,         \* hook processes at a time
    Proxy,        \* the pusher that is the proxy
    Stream,       \* the pusher that is the dashboard's transport
    None,         \* no file, no gate, no batch
    Deployment,   \* deployments modelled, of "hooks" (with the proxy) and "stream"
    BackoffMin,   \* LIVE_BACKOFF_MIN_MS
    BackoffMax,   \* LIVE_BACKOFF_MAX_MS
    MaxDeferred,  \* MAX_DEFERRED
    MaxBatch,     \* maxBatchSize
    MaxEvents,    \* bound: events that happen
    MaxCrashes    \* bound: hooks that are killed

Pusher == Hook \cup {Proxy, Stream}

ASSUME PushAssumption ==
    /\ Proxy \notin Hook /\ Stream \notin Hook /\ Proxy # Stream
    /\ Pusher \cap {"none", "queue", "gone"} = {}   \* of appending[h].to
    /\ None \notin Seq(Nat) \cup [left : Nat, backoff : Nat]
    /\ Deployment \subseteq {"hooks", "stream"}
    /\ BackoffMin \in Nat \ {0} /\ BackoffMax \in Nat /\ BackoffMin <= BackoffMax
    /\ MaxDeferred \in Nat \ {0} /\ MaxBatch \in Nat \ {0}
    /\ MaxEvents \in Nat /\ MaxCrashes \in Nat

VARIABLES
    deployment,  \* "hooks" or "stream"
    happened,    \* the number of events so far
    source,      \* source[e]: the pusher that event e happened to
    queue,       \* live-push-deferred.jsonl: its events, or None
    appending,   \* appending[h]: the file a deferring hook has open
    push,        \* push[p]: where a push is
    file,        \* live-push-state.json
    open,        \* pushers that have that file open for writing
    memory,      \* the gate in the memory of the dashboard's transport
    encrypting,  \* events handed to the transport and not yet in its buffer
    pending,     \* the proxy's or the transport's events not yet in a batch
    timer,       \* the timer of pending is set
    chain,       \* the proxy's batches waiting for their turn
    ending,      \* close() or stop(): "no", "called", "done"
    ahead,       \* batches that close() or stop() waits for
    received,    \* the relay: events in the order they came
    dropped,     \* events given up: a closed gate, a failure, a crash, MAX_DEFERRED
    late,        \* history: events appended to a queue that was already read
    before,      \* history: events queued before close() or stop()
    beside,      \* history: stop() was called while a batch was on its way
    refusals,    \* history: refusals in a row, up to the longest back-off
    since,       \* history: the time since the last one
    raced,       \* history: pushes overlapped, or one was cut short, or the gate
                 \* was cleared under one
    crashes      \* counter for the bound

queueVars == <<queue, appending, late>>
gateVars == <<file, open, memory>>
batchVars == <<encrypting, pending, timer, chain, ending, ahead, before, beside>>
historyVars == <<refusals, since, raced>>
vars == <<deployment, happened, source, queueVars, push, gateVars, batchVars,
          received, dropped, historyVars, crashes>>

-----------------------------------------------------------------------------
ToSet(s) == {s[i] : i \in DOMAIN s}

Smaller(a, b) == IF a < b THEN a ELSE b

Bigger(a, b) == IF a > b THEN a ELSE b

(* readLiveGate: a file that is missing, cut short or garbled reads as null. *)
NoFile == [length |-> 0, gate |-> None]

(* liveGateOpen. *)
GateOpen(g) == g = None \/ g.left = 0

(* nextLiveGate. *)
NextGateSameWindow(g, outcome) ==
    IF outcome = "watched" THEN None
    ELSE IF outcome = "receiving_paused" THEN [left |-> BackoffMax, backoff |-> BackoffMax]
    ELSE LET window == IF g = None THEN BackoffMin ELSE g.backoff
         IN  [left |-> window, backoff |-> window]
NextGate(g, outcome) ==
    IF outcome = "watched" THEN None
    ELSE IF outcome = "receiving_paused" THEN [left |-> BackoffMax, backoff |-> BackoffMax]
    ELSE LET window == IF g = None THEN BackoffMin ELSE Smaller(2 * g.backoff, BackoffMax)
         IN  [left |-> window, backoff |-> window]

(* The length of the JSON that holds it: shortest, with one more digit, with
   the flag receiving_paused. *)
Length(g, outcome) ==
    IF outcome = "receiving_paused" THEN 3 ELSE IF g.backoff = BackoffMin THEN 1 ELSE 2

Idle == [at |-> "idle", own |-> <<>>, held |-> <<>>, outcome |-> "none", next |-> None]

(* A push between its look at the gate and the last step of recording it. *)
UnderWay(p) == push[p].at \in {"post", "record", "unlink", "truncate", "fill"}

(* The window after n refusals in a row; the n that gives the longest. *)
Doubled[n \in Nat] == IF n = 0 THEN BackoffMin ELSE 2 * Doubled[n - 1]

Window(n) == IF n = 0 THEN 0 ELSE Smaller(Doubled[n - 1], BackoffMax)

Longest == CHOOSE n \in 1..BackoffMax + 1 : Window(n) = BackoffMax /\ \A m \in 1..n - 1 : Window(m) < BackoffMax

(* A refusal, or its absence, is recorded, as long as that tells something. *)
Count(outcome) ==
    /\ refusals' = IF outcome = "watched" \/ raced THEN 0
                   ELSE IF outcome = "receiving_paused" THEN Longest
                   ELSE Smaller(refusals + 1, Longest)
    /\ since' = 0

(* An event happens to pusher p. *)
Happen(p) ==
    /\ happened < MaxEvents
    /\ happened' = happened + 1
    /\ source' = [source EXCEPT ![happened + 1] = p]

-----------------------------------------------------------------------------
(* Hooks. *)

(* deferLivePush: appendFile opens the queue, which makes it if it is missing,
   and then writes. *)
DeferOpen(h) ==
    /\ deployment = "hooks"
    /\ push[h].at = "idle" /\ appending[h].to = "none"
    /\ Happen(h)
    /\ queue' = IF queue = None THEN <<>> ELSE queue
    /\ appending' = [appending EXCEPT ![h] = [to |-> "queue", event |-> happened + 1]]
    /\ UNCHANGED <<deployment, late, push, gateVars, batchVars, received, dropped,
                   historyVars, crashes>>

DeferWrite(h) ==
    LET e == appending[h].event
    IN  /\ \/ /\ appending[h].to = "queue"
              /\ queue' = Append(queue, e)
              /\ UNCHANGED <<late, push>>
           \/ \E p \in Pusher :   \* the file that p has renamed and not read yet
                 /\ appending[h].to = p
                 /\ push' = [push EXCEPT ![p].held = Append(@, e)]
                 /\ UNCHANGED <<queue, late>>
           \/ /\ appending[h].to = "gone"
              /\ late' = late \cup {e}
              /\ UNCHANGED <<queue, push>>
        /\ appending' = [appending EXCEPT ![h] = [to |-> "none", event |-> 0]]
        /\ UNCHANGED <<deployment, happened, source, gateVars, batchVars, received, dropped,
                       historyVars, crashes>>

(* pushEventsToCloud with the hook's event. *)
PushHook(h) ==
    /\ deployment = "hooks"
    /\ push[h].at = "idle" /\ appending[h].to = "none"
    /\ Happen(h)
    /\ push' = [push EXCEPT ![h] = [Idle EXCEPT !.at = "take", !.own = <<happened + 1>>]]
    /\ UNCHANGED <<deployment, queueVars, gateVars, batchVars, received, dropped, historyVars,
                   crashes>>

(* The hook is killed.  The queue file it has renamed is never read. *)
Crash(h) ==
    /\ crashes < MaxCrashes
    /\ crashes' = crashes + 1
    /\ push[h].at # "idle"
    /\ push' = [push EXCEPT ![h] = Idle]
    /\ dropped' = dropped \cup ((ToSet(push[h].own) \cup ToSet(push[h].held)) \ ToSet(received))
    /\ appending' = [g \in Hook |-> IF appending[g].to = h THEN [appending[g] EXCEPT !.to = "gone"]
                                    ELSE appending[g]]
    /\ open' = open \ {h}
    /\ raced' = (raced \/ UnderWay(h))
    /\ UNCHANGED <<deployment, happened, source, queue, late, file, memory, batchVars, received,
                   refusals, since>>

-----------------------------------------------------------------------------
(* pushEventsToCloud, step by step. *)

(* takeDeferredPush: the queue is renamed; hooks that have it open keep it. *)
TakeCopy(p) ==
    /\ push[p].at = "take"
    /\ push' = [push EXCEPT ![p].at = "read", ![p].held = IF queue = None THEN <<>> ELSE queue]
    /\ UNCHANGED <<deployment, happened, source, queueVars, gateVars, batchVars, received, dropped,
                   historyVars, crashes>>
Take(p) ==
    /\ push[p].at = "take"
    /\ \/ /\ queue = None
          /\ push' = [push EXCEPT ![p].at = "check", ![p].held = push[p].own]
          /\ UNCHANGED <<queue, appending>>
       \/ /\ queue # None
          /\ push' = [push EXCEPT ![p].at = "read", ![p].held = queue]
          /\ queue' = None
          /\ appending' = [h \in Hook |-> IF appending[h].to = "queue"
                                          THEN [appending[h] EXCEPT !.to = p] ELSE appending[h]]
    /\ UNCHANGED <<deployment, happened, source, late, gateVars, batchVars, received, dropped,
                   historyVars, crashes>>

(* It is read and unlinked, and the newest of its events go out first. *)
ReadTaken(p) ==
    LET n       == Len(push[p].held)
        skipped == Bigger(n - MaxDeferred, 0)
    IN  /\ push[p].at = "read"
        /\ push' = [push EXCEPT ![p].at = "check",
                                ![p].held = SubSeq(push[p].held, skipped + 1, n) \o push[p].own]
        /\ dropped' = dropped \cup {push[p].held[i] : i \in 1..skipped}
        /\ appending' = [h \in Hook |-> IF appending[h].to = p
                                        THEN [appending[h] EXCEPT !.to = "gone"] ELSE appending[h]]
        /\ UNCHANGED <<deployment, happened, source, queue, late, gateVars, batchVars, received,
                       historyVars, crashes>>

(* What a pusher is when its push is over: a batch that close() waits for may
   be one less. *)
End(p) ==
    /\ push' = [push EXCEPT ![p] = Idle]
    /\ ahead' = IF p = Proxy /\ ahead > 0 THEN ahead - 1 ELSE ahead
    /\ UNCHANGED <<encrypting, pending, timer, chain, ending, before, beside>>

(* livePushAllowed: a closed gate drops the events, the deferred ones too. *)
CheckGate(p) ==
    /\ push[p].at = "check"
    /\ IF GateOpen(file.gate)
       THEN /\ push' = [push EXCEPT ![p].at = "post"]
            /\ raced' = (raced \/ \E q \in Pusher \ {p} : UnderWay(q))
            /\ UNCHANGED <<dropped, batchVars>>
       ELSE /\ End(p)
            /\ dropped' = dropped \cup ToSet(push[p].held)
            /\ UNCHANGED raced
    /\ UNCHANGED <<deployment, happened, source, queueVars, gateVars, received, refusals, since,
                   crashes>>

(* The request and its answer.  A push that fails may have been received. *)
Outcome == {"watched", "unwatched", "failed", "receiving_paused"}

Post(p) ==
    /\ push[p].at = "post"
    /\ \E outcome \in Outcome :
         /\ push' = [push EXCEPT ![p].at = "record", ![p].outcome = outcome, ![p].own = <<>>,
                                 ![p].held = <<>>]
         /\ \/ /\ outcome # "receiving_paused"
               /\ received' = received \o push[p].held
               /\ UNCHANGED dropped
            \/ /\ outcome \in {"failed", "receiving_paused"}
               /\ dropped' = dropped \cup ToSet(push[p].held)
               /\ UNCHANGED received
    /\ UNCHANGED <<deployment, happened, source, queueVars, gateVars, batchVars, historyVars,
                   crashes>>

(* recordLivePush: the gate is read. *)
Record(p) ==
    LET outcome == push[p].outcome
        next    == NextGate(file.gate, outcome)
    IN  /\ p # Stream
        /\ push[p].at = "record"
        /\ Count(outcome)
        /\ \/ /\ next # None
              /\ push' = [push EXCEPT ![p].at = "truncate", ![p].next = next]
              /\ UNCHANGED batchVars
           \/ /\ next = None /\ file.gate # None
              /\ push' = [push EXCEPT ![p].at = "unlink"]
              /\ UNCHANGED batchVars
           \/ /\ next = None /\ file.gate = None
              /\ End(p)
        /\ UNCHANGED <<deployment, happened, source, queueVars, gateVars, received, dropped, raced,
                       crashes>>

Unlink(p) ==
    /\ push[p].at = "unlink"
    /\ file' = NoFile
    /\ open' = {}
    /\ End(p)
    /\ UNCHANGED <<deployment, happened, source, queueVars, memory, received, dropped,
                   historyVars, crashes>>

(* writeFile truncates the file when it opens it. *)
Truncate(p) ==
    /\ push[p].at = "truncate"
    /\ push' = [push EXCEPT ![p].at = "fill"]
    /\ file' = NoFile
    /\ open' = open \cup {p}
    /\ UNCHANGED <<deployment, happened, source, queueVars, memory, batchVars, received, dropped,
                   historyVars, crashes>>

(* It writes from the start: the end of a longer text that another pusher
   wrote meanwhile stays.  A file that was unlinked is written in vain. *)
Fill(p) ==
    LET next   == push[p].next
        length == Length(next, push[p].outcome)
    IN  /\ push[p].at = "fill"
        /\ file' = IF p \notin open THEN file
                   ELSE IF file.length > length THEN [file EXCEPT !.gate = None]
                   ELSE [length |-> length, gate |-> next]
        /\ open' = open \ {p}
        /\ End(p)
        /\ UNCHANGED <<deployment, happened, source, queueVars, memory, received, dropped,
                       historyVars, crashes>>

(* clearLiveGate, for `omnodex live resume`. *)
Clear ==
    /\ deployment = "hooks"
    /\ file.gate # None
    /\ file' = NoFile
    /\ open' = {}
    /\ refusals' = 0
    /\ since' = 0
    /\ raced' = (raced \/ \E p \in Pusher : UnderWay(p))
    /\ UNCHANGED <<deployment, happened, source, queueVars, push, memory, batchVars, received,
                   dropped, crashes>>

PushStep(p) ==
    \/ Take(p) \/ ReadTaken(p) \/ CheckGate(p)
    \/ Post(p)
    \/ Record(p) \/ Unlink(p) \/ Truncate(p) \/ Fill(p)

-----------------------------------------------------------------------------
(* The proxy's queue of batches. *)

(* drain(): what is pending becomes the last batch of the chain. *)
BatchesFirst == IF pending = <<>> THEN chain ELSE <<pending>> \o chain
Batches == IF pending = <<>> THEN chain ELSE Append(chain, pending)

(* enqueue: a full batch is sent at once, another waits for the timer. *)
Enqueue ==
    /\ deployment = "hooks"
    /\ ending # "done"
    /\ Happen(Proxy)
    /\ IF Len(pending) + 1 >= MaxBatch
       THEN /\ chain' = Append(chain, Append(pending, happened + 1))
            /\ pending' = <<>>
            /\ timer' = FALSE
       ELSE /\ pending' = Append(pending, happened + 1)
            /\ timer' = TRUE
            /\ UNCHANGED chain
    /\ UNCHANGED <<deployment, queueVars, push, gateVars, encrypting, ending, ahead, before, beside,
                   received, dropped, historyVars, crashes>>

DrainTimer ==
    /\ deployment = "hooks"
    /\ timer
    /\ timer' = FALSE
    /\ chain' = Batches
    /\ pending' = <<>>
    /\ UNCHANGED <<deployment, happened, source, queueVars, push, gateVars, encrypting, ending, ahead,
                   before, beside, received, dropped, historyVars, crashes>>

(* The next batch of the chain is pushed when the one before it is done. *)
NextBatch ==
    /\ push[Proxy].at = "idle"
    /\ chain # <<>>
    /\ push' = [push EXCEPT ![Proxy] = [Idle EXCEPT !.at = "take", !.own = Head(chain)]]
    /\ chain' = Tail(chain)
    /\ UNCHANGED <<deployment, happened, source, queueVars, gateVars, encrypting, pending, timer,
                   ending, ahead, before, beside, received, dropped, historyVars, crashes>>

(* close(): it waits for the batches there are, with what was pending; an event
   that is queued meanwhile is taken, but nothing waits for it. *)
CloseUndrained ==
    /\ deployment = "hooks"
    /\ ending = "no"
    /\ ending' = "called"
    /\ ahead' = Len(chain) + (IF push[Proxy].at = "idle" THEN 0 ELSE 1)
    /\ before' = {e \in 1..happened : source[e] = Proxy}
    /\ UNCHANGED <<deployment, happened, source, queueVars, push, gateVars, encrypting, chain, pending,
                   timer, beside, received, dropped, historyVars, crashes>>
Close ==
    /\ deployment = "hooks"
    /\ ending = "no"
    /\ ending' = "called"
    /\ timer' = FALSE
    /\ chain' = Batches
    /\ pending' = <<>>
    /\ ahead' = Len(Batches) + (IF push[Proxy].at = "idle" THEN 0 ELSE 1)
    /\ before' = {e \in 1..happened : source[e] = Proxy}
    /\ UNCHANGED <<deployment, happened, source, queueVars, push, gateVars, encrypting, beside,
                   received, dropped, historyVars, crashes>>

Closed ==
    /\ deployment = "hooks"
    /\ ending = "called" /\ ahead = 0
    /\ ending' = "done"
    /\ UNCHANGED <<deployment, happened, source, queueVars, push, gateVars, encrypting, pending, timer,
                   chain, ahead, before, beside, received, dropped, historyVars, crashes>>

-----------------------------------------------------------------------------
(* The dashboard's transport. *)

(* doFlush: a closed gate drops the batch, and while a batch is on its way the
   buffer stays as it is. *)
Flush ==
    IF pending = <<>> \/ push[Stream].at # "idle" THEN UNCHANGED <<pending, push, dropped>>
    ELSE /\ pending' = <<>>
         /\ IF GateOpen(memory)
            THEN /\ push' = [push EXCEPT ![Stream] = [Idle EXCEPT !.at = "post", !.held = pending]]
                 /\ UNCHANGED dropped
            ELSE /\ dropped' = dropped \cup ToSet(pending)
                 /\ UNCHANGED push

(* push() up to its awaits.  Nobody waits for it: several events may be on
   their way to the buffer at once. *)
PushStream ==
    /\ deployment = "stream"
    /\ ending = "no"
    /\ Happen(Stream)
    /\ encrypting' = encrypting \cup {happened + 1}
    /\ UNCHANGED <<deployment, queueVars, push, gateVars, pending, timer, chain, ending, ahead, before,
                   beside, received, dropped, historyVars, crashes>>

(* push() after its awaits, in any order and after stop() too: the event is
   buffered, and the timer set. *)
Buffer(e) ==
    /\ deployment = "stream"
    /\ e \in encrypting
    /\ encrypting' = encrypting \ {e}
    /\ pending' = Append(pending, e)
    /\ timer' = TRUE
    /\ UNCHANGED <<deployment, happened, source, queueVars, push, gateVars, chain, ending, ahead, before,
                   beside, received, dropped, historyVars, crashes>>

(* A pause is in force, or the encryption fails. *)
Withhold(e) ==
    /\ deployment = "stream"
    /\ e \in encrypting
    /\ encrypting' = encrypting \ {e}
    /\ dropped' = dropped \cup {e}
    /\ UNCHANGED <<deployment, happened, source, queueVars, push, gateVars, pending, timer, chain, ending,
                   ahead, before, beside, received, historyVars, crashes>>

FlushTimer ==
    /\ deployment = "stream"
    /\ timer
    /\ timer' = FALSE
    /\ Flush
    /\ UNCHANGED <<deployment, happened, source, queueVars, gateVars, encrypting, chain, ending, ahead,
                   before, beside, received, historyVars, crashes>>

(* The batch has its answer: the gate in memory is set and the transport may
   flush again. *)
RecordStream ==
    /\ push[Stream].at = "record"
    /\ memory' = NextGate(memory, push[Stream].outcome)
    /\ Count(push[Stream].outcome)
    /\ push' = [push EXCEPT ![Stream] = Idle]
    /\ ahead' = 0
    /\ UNCHANGED <<deployment, happened, source, queueVars, file, open, encrypting, pending, timer,
                   chain, ending, before, beside, received, dropped, raced, crashes>>

(* stop(): a last flush, which does nothing while a batch is on its way. *)
Stop ==
    /\ deployment = "stream"
    /\ ending = "no"
    /\ ending' = "called"
    /\ timer' = FALSE
    /\ before' = (1..happened) \ encrypting
    /\ Flush
    /\ beside' = (push[Stream].at # "idle")
    /\ ahead' = IF push'[Stream] # push[Stream] THEN 1 ELSE 0
    /\ UNCHANGED <<deployment, happened, source, queueVars, gateVars, encrypting, chain, received,
                   historyVars, crashes>>

(* It returns once its own flush has. *)
Stopped ==
    /\ deployment = "stream"
    /\ ending = "called" /\ ahead = 0
    /\ ending' = "done"
    /\ UNCHANGED <<deployment, happened, source, queueVars, push, gateVars, encrypting, pending, timer,
                   chain, ahead, before, beside, received, dropped, historyVars, crashes>>

-----------------------------------------------------------------------------
(* Time passes. *)
Less(g) == IF g = None THEN None ELSE [g EXCEPT !.left = Bigger(@ - 1, 0)]

Tick ==
    /\ file' = [file EXCEPT !.gate = Less(@)]
    /\ memory' = Less(memory)
    /\ push' = [p \in Pusher |-> [push[p] EXCEPT !.next = Less(@)]]
    /\ since' = IF refusals = 0 THEN 0 ELSE Smaller(since + 1, BackoffMax)
    /\ UNCHANGED <<deployment, happened, source, queueVars, open, batchVars, received, dropped,
                   refusals, raced, crashes>>

Init ==
    /\ deployment \in Deployment
    /\ happened = 0
    /\ source = [e \in 1..MaxEvents |-> None]
    /\ queue = None
    /\ appending = [h \in Hook |-> [to |-> "none", event |-> 0]]
    /\ push = [p \in Pusher |-> Idle]
    /\ file = NoFile
    /\ open = {}
    /\ memory = None
    /\ encrypting = {} /\ pending = <<>> /\ timer = FALSE /\ chain = <<>>
    /\ ending = "no" /\ ahead = 0 /\ before = {} /\ beside = FALSE
    /\ received = <<>> /\ dropped = {} /\ late = {}
    /\ refusals = 0 /\ since = 0 /\ raced = FALSE
    /\ crashes = 0

Next ==
    \/ \E h \in Hook : DeferOpen(h) \/ DeferWrite(h) \/ PushHook(h) \/ Crash(h)
    \/ \E p \in Pusher : PushStep(p)
    \/ Clear
    \/ Enqueue \/ DrainTimer \/ NextBatch \/ Close \/ Closed
    \/ PushStream \/ \E e \in encrypting : Buffer(e) \/ Withhold(e)
    \/ FlushTimer \/ RecordStream \/ Stop \/ Stopped
    \/ Tick

Spec == Init /\ [][Next]_vars

-----------------------------------------------------------------------------
(* Properties. *)

(* Where an event is on its way to the relay. *)
Waiting(e) ==
    Cardinality({h \in Hook : appending[h].event = e})
    + Cardinality({p \in Pusher : e \in ToSet(push[p].own) \cup ToSet(push[p].held)})
    + (IF queue # None /\ e \in ToSet(queue) THEN 1 ELSE 0)
    + (IF e \in encrypting THEN 1 ELSE 0)
    + (IF e \in ToSet(pending) THEN 1 ELSE 0)
    + Cardinality({i \in DOMAIN chain : e \in ToSet(chain[i])})

(* Every event is on its way in one place, or has reached the relay, once, or
   was given up, or was appended to a queue that had been read: two pushes
   never take the same deferred events, and none forgets some. *)
EachOnce ==
    \A e \in 1..happened :
        Waiting(e) + Cardinality({i \in DOMAIN received : received[i] = e})
        + Cardinality({e} \cap dropped) + Cardinality({e} \cap late) = 1

(* cloud-push.ts:17: "Batches are pushed one at a time so events reach the
   relay in the order they were emitted".  The transport promises no order. *)
InOrder ==
    \A i, j \in DOMAIN received :
        i < j /\ source[received[i]] = Proxy /\ source[received[j]] = Proxy
        => received[i] < received[j]

(* Unless pushes overlapped, the gate is closed for as long as the refusals in
   a row ask for, and no longer. *)
GateTells ==
    LET gate == IF deployment = "stream" THEN memory ELSE file.gate
    IN  ~raced /\ (\A p \in Pusher : ~UnderWay(p) \/ push[p].at \in {"post", "record"}) =>
            (GateOpen(gate) <=> since >= Window(refusals))

(* Once close() has returned, nothing that was queued before it is on its way;
   once stop() has, nothing is that was in the buffer when it was called
   (streaming-transport.ts:166 "Flushes remaining events"), unless a batch was on
   its way then.  An event that was being encrypted is not in the buffer. *)
EndIsDrained == ending = "done" /\ ~beside => \A e \in before : Waiting(e) = 0

=============================================================================
