--------------------------- MODULE LiveDashboard ---------------------------
(***************************************************************************)
(* `omnodex dashboard` from its first read of the event log to its end:    *)
(* cli/src/index.ts (cmdDashboard), cli/src/streaming.ts, the tail of      *)
(* event-log/src/index.ts, and packages/projection, which keeps the read   *)
(* model and pairs the two observations of a routed call.                  *)
(*                                                                         *)
(* The dashboard rebuilds the read model, prepares (license, streaming     *)
(* key), and then tails each session: it reads the session once more to    *)
(* know what it has, and projects what comes after.  Hooks, the proxy and  *)
(* the background pass append beside it.  The abstractions:                *)
(*   - One agent's session, written by its hooks, and one session of the   *)
(*     proxy.  A call is seen by the hook, and by the proxy if it is       *)
(*     forwarded; both calls of one Tool look alike and are in the window. *)
(*   - Handlers run to their next wait for a file or a timer; the store    *)
(*     answers at once (DatabaseSync), so a pass over it is one step.      *)
(*   - A line is two halves long: a reader may see the first alone.        *)
(*   - Some hook calls are Flagged: a rule finds a risk in them, and the   *)
(*     dashboard or another process appends the finding.                   *)
(***************************************************************************)
EXTENDS Integers, Sequences, FiniteSets, SequencesExt

CONSTANTS
    ToolCall,  \* calls of the agent
    Tool,      \* Tool[c]: tool and arguments of a call
    Flagged,   \* calls a rule has a finding for
    MaxTorn    \* bound: lines that are seen half written

ASSUME DashboardAssumption ==
    /\ ToolCall \subseteq Nat \ {0} /\ IsFiniteSet(ToolCall)
    /\ Flagged \subseteq ToolCall
    /\ MaxTorn \in Nat

Session == {"agent", "proxy"}

(* A row of tool_calls, and the event it comes from: who saw which call. *)
Row == Session \X ToolCall

(* Events: a call as `by` saw it, or a finding as `by` wrote it. *)
Event == [kind : {"invoked"}, call : ToolCall, by : Session]
         \cup [kind : {"risk"}, call : Flagged, by : {"dashboard", "other"}]

VARIABLES
    index,     \* index.jsonl: sessions, some twice
    file,      \* file[s]: the lines of a session
    half,      \* sessions whose file ends in the first half of a line
    order,     \* rows in the order of their timestamps
    phase,     \* of cmdDashboard: "replay", "prepare", "live"
    todo,      \* what the replay has still to read
    store,     \* the read model
    tail,      \* tail[s]: the tail of a session
    known,     \* the evaluator: calls whose finding it has seen
    poller,    \* pollForRoot
    timer,     \* correlationTimer is set
    stopping,  \* stop(): "no", "aborted", "stopped"
    waitFor,   \* what stop() waits for
    torn,      \* counter for the bound
    missed,    \* history: lines a tail took for projected, which were not
    unpaired   \* history: history was replayed since the last correlation pass

logVars       == <<index, file, half, order, torn>>
liveVars      == <<tail, known, poller, timer, stopping, waitFor>>
dashboardVars == <<logVars, phase, todo, store, liveVars, missed, unpaired>>

-----------------------------------------------------------------------------
(* The read model. *)

EmptyStore == [rows |-> {}, count |-> [s \in Session |-> 0], cid |-> [r \in Row |-> 0],
               risks |-> {}, score |-> 0, marked |-> {}, servers |-> {}]

(* Projector.apply: a row that is there already is not counted again. *)
ApplyAgain(st, e) ==
    IF e.kind = "invoked"
    THEN [st EXCEPT !.rows = @ \cup {<<e.by, e.call>>}, !.count[e.by] = @ + 1,
                    !.servers = IF e.by = "agent" THEN @ \cup {"omnodex"} ELSE @]
    ELSE [st EXCEPT !.risks = @ \cup {e.call}, !.score = @ + 1]
Apply(st, e) ==
    IF e.kind = "invoked"
    THEN IF <<e.by, e.call>> \in st.rows THEN st
         ELSE [st EXCEPT !.rows = @ \cup {<<e.by, e.call>>}, !.count[e.by] = @ + 1,
                         !.servers = IF e.by = "agent" THEN @ \cup {"omnodex"} ELSE @]
    ELSE IF e.call \in st.risks THEN st
         ELSE [st EXCEPT !.risks = @ \cup {e.call}, !.score = @ + 1]

ApplyAll(st, events) ==
    LET after[i \in 0..Len(events)] == IF i = 0 THEN st ELSE Apply(after[i - 1], events[i])
    IN  after[Len(events)]

(* correlateToolCalls: each hook call, oldest first, takes the oldest call of
   the proxy that looks like it, is not older and is not taken. *)
Free(ord, rows, pairs, i) ==
    {j \in i + 1..Len(ord) : /\ ord[j] \in rows /\ ord[j][1] = "proxy"
                             /\ Tool[ord[j][2]] = Tool[ord[i][2]]
                             /\ \A q \in pairs : q[2] # ord[j]}

Take(ord, rows, pairs, i) ==
    LET free == Free(ord, rows, pairs, i)
    IN  IF ord[i] \notin rows \/ ord[i][1] = "proxy" \/ free = {} THEN pairs
        ELSE pairs \cup {<<ord[i], ord[CHOOSE j \in free : \A k \in free : j <= k]>>}

Pairs(ord, rows) ==
    LET after[i \in 0..Len(ord)] == IF i = 0 THEN {} ELSE Take(ord, rows, after[i - 1], i)
    IN  after[Len(ord)]

(* runCorrelation: both rows of a pair, and the findings on them, get the id
   of the hook's call; the session lists the upstream in place of the proxy,
   unless one of its calls still stands under the proxy. *)
CorrelateHooks(st) ==
    LET pairs == Pairs(order, st.rows)
    IN  [st EXCEPT !.cid = [r \in Row |-> IF \E q \in pairs : q[1] = r THEN r[2] ELSE @[r]],
                   !.marked = @ \cup {c \in st.risks : \E q \in pairs : q[1][2] = c}]
Correlate(st) ==
    LET pairs == Pairs(order, st.rows)
        cid   == [r \in Row |-> IF \E q \in pairs : r \in {q[1], q[2]}
                                THEN (CHOOSE q \in pairs : r \in {q[1], q[2]})[1][2]
                                ELSE st.cid[r]]
        stands == \E r \in st.rows : r[1] = "agent" /\ cid[r] = 0
    IN  [st EXCEPT !.cid = cid,
                   !.marked = @ \cup {c \in st.risks : \E q \in pairs : q[1][2] = c},
                   !.servers = IF pairs = {} THEN @
                               ELSE {"upstream"} \cup IF stands THEN @ ELSE @ \ {"omnodex"}]

(* collapseCorrelated: rows with one id are shown as one call. *)
Shown == {IF store.cid[r] = 0 THEN {r} ELSE {q \in store.rows : store.cid[q] = store.cid[r]} : r \in store.rows}

-----------------------------------------------------------------------------
(* The event log and those that append to it. *)

Size(s) == 2 * Len(file[s]) + IF s \in half THEN 1 ELSE 0

Lines(s) == {file[s][i] : i \in DOMAIN file[s]}

Registered(s) == \E i \in DOMAIN index : index[i] = s

(* The first append to a session registers it.  (Two processes that start it
   together both do: see DashboardInit.  A second entry that comes later changes
   nothing, as the rebuild has read the index and a tail is not set up twice.) *)
Register(s) ==
    /\ stopping # "stopped"
    /\ ~Registered(s)
    /\ index' = Append(index, s)
    /\ UNCHANGED <<file, half, order, torn, phase, todo, store, liveVars, missed, unpaired>>

AppendLine(s, e) ==
    /\ stopping # "stopped"
    /\ Registered(s)
    /\ file' = [file EXCEPT ![s] = Append(@, e)]

(* The hook of a call writes first, and in the order the agent makes calls;
   the proxy writes what is forwarded to it. *)
Recordable(s, c) ==
    /\ <<s, c>> \notin Range(order)
    /\ IF s = "proxy" THEN <<"agent", c>> \in Range(order)
       ELSE \A d \in ToolCall : d < c => <<s, d>> \in Range(order)

Record(s, c) ==
    /\ Recordable(s, c)
    /\ AppendLine(s, [kind |-> "invoked", call |-> c, by |-> s])
    /\ order' = Append(order, <<s, c>>)
    /\ half' = half \ {s}
    /\ UNCHANGED <<index, torn, phase, todo, store, liveVars, missed, unpaired>>

(* A reader may find the first half of the line alone: a tail that polls. *)
Tear(s) ==
    /\ torn < MaxTorn
    /\ tail[s].at = "poll"
    /\ s \notin half
    /\ Registered(s)
    /\ \E c \in ToolCall : Recordable(s, c)
    /\ half' = half \cup {s}
    /\ torn' = torn + 1
    /\ UNCHANGED <<index, file, order, phase, todo, store, liveVars, missed, unpaired>>

(* Another process finds the risk: the hook itself, or the background pass. *)
RecordRisk(c) ==
    /\ <<"agent", c>> \in Range(order)
    /\ \A e \in Lines("agent") : ~(e.kind = "risk" /\ e.call = c)
    /\ "agent" \notin half
    /\ AppendLine("agent", [kind |-> "risk", call |-> c, by |-> "other"])
    /\ UNCHANGED <<index, half, order, torn, phase, todo, store, liveVars, missed, unpaired>>

-----------------------------------------------------------------------------
(* cmdDashboard: rebuildReadModel reads the sessions that are listed, one
   after the other, and pairs what it read. *)
Rebuild ==
    /\ phase = "start"
    /\ phase' = "replay"
    /\ todo' = index
    /\ UNCHANGED <<logVars, store, liveVars, missed, unpaired>>

Replay ==
    /\ phase = "replay"
    /\ IF todo # <<>>
       THEN /\ store' = ApplyAll(store, file[Head(todo)])
            /\ todo' = Tail(todo)
            /\ UNCHANGED phase
       ELSE /\ store' = Correlate(store)
            /\ phase' = "prepare"
            /\ UNCHANGED todo
    /\ UNCHANGED <<logVars, liveVars, missed, unpaired>>

(* The license is validated and the key derived; then the loop starts. *)
Prepare ==
    /\ phase = "prepare"
    /\ phase' = "live"
    /\ poller' = "first"
    /\ UNCHANGED <<logVars, todo, store, tail, known, timer, stopping, waitFor, missed, unpaired>>

-----------------------------------------------------------------------------
(* startStreamingLoop: the poll of the index. *)

NoTail == [at |-> "none", replay |-> FALSE, offset |-> 0, seen |-> {}, work |-> <<>>]

(* launchTail: a session that has a tail gets no other one. *)
Launched(replay) ==
    [s \in Session |-> IF Registered(s) /\ tail[s].at = "none"
                       THEN [NoTail EXCEPT !.at = "seed", !.replay = replay] ELSE tail[s]]

(* What is listed first was in the rebuild, and its history is not replayed. *)
FirstPoll ==
    /\ poller = "first"
    /\ tail' = Launched(FALSE)
    /\ poller' = IF stopping = "no" THEN "sleep" ELSE "done"
    /\ UNCHANGED <<logVars, phase, todo, store, known, timer, stopping, waitFor, missed, unpaired>>

(* A poll that finds nothing new leaves all as it was: it is not taken. *)
Wake ==
    /\ poller = "sleep"
    /\ stopping # "no" \/ \E s \in Session : Registered(s) /\ tail[s].at = "none"
    /\ poller' = IF stopping = "no" THEN "list" ELSE "done"
    /\ UNCHANGED <<logVars, phase, todo, store, tail, known, timer, stopping, waitFor, missed, unpaired>>

(* The index was read before the end was asked for, perhaps. *)
NextPoll ==
    /\ poller = "list"
    /\ tail' = Launched(TRUE)
    /\ poller' = IF stopping = "no" THEN "sleep" ELSE "done"
    /\ UNCHANGED <<logVars, phase, todo, store, known, timer, stopping, waitFor, missed, unpaired>>

-----------------------------------------------------------------------------
(* tailSession. *)

(* A tail looks whether it is to end when it is back at its poll. *)
Ended == [NoTail EXCEPT !.at = "done"]

Go(t) == IF stopping = "no" THEN [t EXCEPT !.at = "poll"] ELSE Ended

InStore(st, e) == IF e.kind = "invoked" THEN <<e.by, e.call>> \in st.rows ELSE e.call \in st.risks

RiskCalls(events) == {e.call : e \in {x \in events : x.kind = "risk"}}

(* The session is read once more: what is there is taken for projected, or
   projected if the session is new.  The evaluator observes it. *)
Seed(s) ==
    /\ tail[s].at = "seed"
    /\ tail' = [tail EXCEPT ![s] = Go([NoTail EXCEPT !.seen = Lines(s)])]
    /\ known' = known \cup RiskCalls(Lines(s))
    /\ store' = IF tail[s].replay THEN ApplyAll(store, file[s]) ELSE store
    /\ unpaired' = (unpaired \/ (tail[s].replay /\ file[s] # <<>>))
    /\ missed' = IF tail[s].replay THEN missed
                 ELSE missed \cup {e \in Lines(s) : ~InStore(store, e)}
    /\ UNCHANGED <<logVars, phase, todo, poller, timer, stopping, waitFor>>

(* The lines a read from one size to another completes, by number: the half
   line of an earlier read is kept. *)
CompletedWhole(from, to) == [k \in 1..to \div 2 - (from + 1) \div 2 |-> (from + 1) \div 2 + k]
Completed(from, to) == [k \in 1..to \div 2 - from \div 2 |-> from \div 2 + k]

ReadOn(s) ==
    /\ tail[s].at = "poll"
    /\ \/ /\ Size(s) > tail[s].offset
          /\ LET lines == Completed(tail[s].offset, Size(s))
                 t == [tail[s] EXCEPT !.offset = Size(s), !.at = "work", !.work = lines]
             IN  tail' = [tail EXCEPT ![s] = IF lines = <<>> THEN Go(t) ELSE t]
       \/ /\ stopping # "no"
          /\ tail' = [tail EXCEPT ![s] = Ended]
    /\ UNCHANGED <<logVars, phase, todo, store, known, poller, timer, stopping, waitFor, missed, unpaired>>

NextLine(t) ==
    LET rest == [t EXCEPT !.work = Tail(@), !.at = "work"]
    IN  IF rest.work = <<>> THEN Go(rest) ELSE rest

(* One line of what was read: skipped if it was seen; else projected, and a
   correlation pass is due.  A call that has a finding nobody wrote yet is
   followed by it, and the tail waits for the append. *)
Work(s) ==
    LET t == tail[s]
        e == file[s][Head(t.work)]
        new == e \notin t.seen
        found == new /\ e.kind = "invoked" /\ s = "agent" /\ e.call \in Flagged \ known
    IN  /\ t.at = "work"
        /\ store' = IF new THEN Apply(store, e) ELSE store
        /\ known' = IF new /\ (e.kind = "risk" \/ found) THEN known \cup {e.call} ELSE known
        /\ timer' = ((new /\ stopping = "no") \/ timer)
        /\ tail' = IF found
                   THEN [tail EXCEPT ![s].at = "append",
                           ![s].seen = @ \cup {e, [kind |-> "risk", call |-> e.call, by |-> "dashboard"]}]
                   ELSE [tail EXCEPT ![s] = NextLine([t EXCEPT !.seen = @ \cup {e}])]
    /\ UNCHANGED <<logVars, phase, todo, poller, stopping, waitFor, missed, unpaired>>

(* The finding is in the log; it is projected and a pass is due. *)
AppendRisk(s) ==
    LET e == [kind |-> "risk", call |-> file[s][Head(tail[s].work)].call, by |-> "dashboard"]
    IN  /\ tail[s].at = "append"
        /\ s \notin half
        /\ AppendLine(s, e)
        /\ store' = Apply(store, e)
        /\ timer' = (stopping = "no" \/ timer)
        /\ tail' = [tail EXCEPT ![s] = NextLine(tail[s])]
    /\ UNCHANGED <<index, half, order, torn, phase, todo, known, poller, stopping, waitFor, missed, unpaired>>

(* scheduleCorrelation: no new call for correlationDelayMs. *)
TimerFires ==
    /\ timer
    /\ timer' = FALSE
    /\ store' = Correlate(store)
    /\ unpaired' = FALSE
    /\ UNCHANGED <<logVars, phase, todo, tail, known, poller, stopping, waitFor, missed>>

-----------------------------------------------------------------------------
(* stop(): abort, clear the timer, and wait until nothing runs. *)

Running == {s \in Session : tail[s].at \notin {"none", "done"}}
           \cup (IF poller \in {"off", "done"} THEN {} ELSE {"poller"})

Abort ==
    /\ phase = "live"
    /\ stopping = "no"
    /\ stopping' = "aborted"
    /\ timer' = FALSE
    /\ waitFor' = Running
    /\ UNCHANGED <<logVars, phase, todo, store, tail, known, poller, missed, unpaired>>

SettledOnce ==
    /\ stopping = "aborted"
    /\ waitFor \cap Running = {}
    /\ stopping' = "stopped"
    /\ waitFor' = {}
    /\ UNCHANGED <<logVars, phase, todo, store, tail, known, poller, timer, missed, unpaired>>
Settled ==
    /\ stopping = "aborted"
    /\ waitFor \cap Running = {}
    /\ waitFor' = Running
    /\ stopping' = IF Running = {} THEN "stopped" ELSE stopping
    /\ waitFor # {} \/ Running = {}
    /\ UNCHANGED <<logVars, phase, todo, store, tail, known, poller, timer, missed, unpaired>>

-----------------------------------------------------------------------------
DashboardInit ==
    /\ index \in {<<>>, <<"agent", "agent">>}
    /\ file = [s \in Session |-> <<>>]
    /\ half = {} /\ order = <<>> /\ torn = 0
    /\ phase = "start" /\ todo = <<>>
    /\ store = EmptyStore
    /\ tail = [s \in Session |-> NoTail]
    /\ known = {}
    /\ poller = "off" /\ timer = FALSE
    /\ stopping = "no" /\ waitFor = {}
    /\ missed = {} /\ unpaired = FALSE

Dashboard ==
    \/ Rebuild \/ Replay \/ Prepare
    \/ FirstPoll \/ Wake \/ NextPoll
    \/ \E s \in Session : Seed(s) \/ ReadOn(s) \/ Work(s) \/ AppendRisk(s)
    \/ TimerFires \/ Settled

DashboardNext ==
    \/ \E s \in Session : Register(s) \/ Tear(s) \/ \E c \in ToolCall : Record(s, c)
    \/ \E c \in Flagged : RecordRisk(c)
    \/ Dashboard
    \/ Abort

DashboardSpec == DashboardInit /\ [][DashboardNext]_dashboardVars

(* A handler of the dashboard runs when it is due, and a writer ends the line
   it began.  (The startup and the poll of the index follow one another.) *)
FairDashboardSpec ==
    /\ DashboardSpec
    /\ WF_dashboardVars(Rebuild \/ Replay \/ Prepare \/ FirstPoll \/ Wake \/ NextPoll)
    /\ \A s \in Session :
         /\ WF_dashboardVars(Seed(s) \/ ReadOn(s) \/ Work(s) \/ AppendRisk(s))
         /\ WF_dashboardVars(s \in half /\ \E c \in ToolCall : Record(s, c))

-----------------------------------------------------------------------------
(* Properties. *)

StoreType ==
    [rows : SUBSET Row, count : [Session -> Nat], cid : [Row -> ToolCall \cup {0}],
     risks : SUBSET Flagged, score : Nat, marked : SUBSET Flagged,
     servers : SUBSET {"omnodex", "upstream"}]

TailType ==
    [at : {"none", "seed", "poll", "work", "append", "done"}, replay : BOOLEAN,
     offset : Nat, seen : SUBSET Event, work : Seq(Nat)]

DashboardType ==
    /\ index \in Seq(Session) /\ todo \in Seq(Session)
    /\ file \in [Session -> Seq(Event)] /\ half \subseteq Session
    /\ order \in Seq(Row)
    /\ torn \in 0..MaxTorn
    /\ phase \in {"start", "replay", "prepare", "live"}
    /\ store \in StoreType
    /\ tail \in [Session -> TailType]
    /\ known \subseteq Flagged
    /\ poller \in {"off", "first", "sleep", "list", "done"} /\ timer \in BOOLEAN
    /\ stopping \in {"no", "aborted", "stopped"} /\ waitFor \subseteq Session \cup {"poller"}
    /\ missed \subseteq Event /\ unpaired \in BOOLEAN

(* The lines a tail has behind it. *)
Passed(s) ==
    IF tail[s].at \in {"poll", "work", "append"}
    THEN {file[s][i] : i \in {j \in DOMAIN file[s] : 2 * j <= tail[s].offset} \ Range(tail[s].work)}
    ELSE {}

(* The live read model is true to the log: every line a tail has passed is in
   it (unless it was missed before the tail began), a call or a finding is
   counted once however often its line or its session is read, and it has
   nothing that is not in the log. *)
ReadModelTrue ==
    /\ \A s \in Session : \A e \in Passed(s) : InStore(store, e) \/ e \in missed
    /\ \A s \in Session : store.count[s] = Cardinality({r \in store.rows : r[1] = s})
    /\ store.score = Cardinality(store.risks)
    /\ store.rows \subseteq Range(order)

(* Nothing is left to do: every session has a tail that has read it all. *)
Quiet ==
    /\ phase = "live" /\ stopping = "no" /\ ~timer
    /\ \A s \in Session : Registered(s) =>
         tail[s].at = "poll" /\ tail[s].offset = Size(s)

(* streaming.ts:301-306: once calls go quiet, a routed call is shown once, with
   the pairs a replay of the log would find, its finding marked, and the
   session's servers are those its calls stand under. *)
PairedAsReplayed ==
    Quiet /\ ~unpaired /\ missed = {} =>
        /\ \A q \in Pairs(order, Range(order)) : store.cid[q[1]] = q[1][2] /\ store.cid[q[2]] = q[1][2]
        /\ Cardinality(Shown) = Cardinality({r[2] : r \in store.rows})
        /\ \A c \in store.risks : store.cid[<<"agent", c>>] # 0 => c \in store.marked
        /\ store.servers = {IF store.cid[r] = 0 THEN "omnodex" ELSE "upstream" :
                              r \in {x \in store.rows : x[1] = "agent"}}

(* Nothing writes to the store after stop() has resolved. *)
QuietAfterStop == [][stopping = "stopped" => UNCHANGED <<store, tail>>]_dashboardVars

(* What is appended while the dashboard runs comes to be shown. *)
EventuallyShown ==
    <>[](stopping = "no" =>
            \A s \in Session : \A e \in Lines(s) : InStore(store, e) \/ e \in missed)

=============================================================================
