---------------------------- MODULE UpstreamPool ----------------------------
(***************************************************************************)
(* One upstream of the MCP proxy: packages/mcp-proxy/src/upstream-client.ts *)
(* (UpstreamClientPool), and how proxy-server.ts records what it observes.  *)
(*                                                                         *)
(* The pool keeps one entry per configured server and the entries share    *)
(* nothing but the tool index, which is rebuilt from all of them in the    *)
(* step that changes one, so one entry is modelled.  Everything runs on    *)
(* one event loop: an action is what runs between two awaits.  A client is *)
(* what one attempt makes; it may become the entry's connection.           *)
(*   - A tool list is the number of changes it includes.                   *)
(*   - Closing a client rejects what waits for its answers (the SDK); a    *)
(*     call that is rejected for another reason is handled a step later.   *)
(*   - A stdio upstream dies by itself and answers neither 401 nor 404, so *)
(*     a call to it changes nothing here and is left out; a connection     *)
(*     over HTTP is closed by the proxy only.                              *)
(*   - Clients and the timers of failed ones share names, which are used   *)
(*     again once nothing refers to them.                                  *)
(***************************************************************************)
EXTENDS Integers, FiniteSets

CONSTANTS
    Client,       \* clients and timers; a bound on those that exist at a time
    Call,         \* tools/call requests in flight at a time
    None,         \* no client, no timer
    InitialDelay, \* retry_initial_delay_ms
    GiveUpDelay,  \* retry_give_up_delay_ms
    Transport,    \* transports modelled, of "stdio" and "http"
    SessionAt,    \* SessionAt[t]: how far the session is when the pool starts
    MaxVersions,  \* bound, per transport: tool lists the server has in turn
    MaxRetries    \* bound: omnodex_status with retry_failed

ASSUME PoolAssumption ==
    /\ None \notin Client /\ Client # {}
    /\ InitialDelay \in Nat \ {0} /\ GiveUpDelay \in Nat
    /\ Transport \subseteq {"stdio", "http"}
    /\ SessionAt \in [Transport -> {"none", "open"}]
    /\ MaxVersions \in [Transport -> Nat \ {0}] /\ MaxRetries \in Nat

VARIABLES
    transport,  \* "stdio" or "http"
    closed,     \* pool.close() was called
    entry,      \* the UpstreamEntry
    client,     \* client[k]: what became of client k
    timers,     \* timers that are still to fire
    call,       \* call[c]: where a tools/call is
    version,    \* the server: its current tool list
    listings,   \* tools/list_changed announcements and the listings they led to
    session,    \* startSession: "none", "starting", "open"
    reported,   \* how often the newest observation is recorded in the session
    retries,    \* counter for the bound
    overlapped, \* history: an attempt began beside another, a connection or a timer,
                \* or a call on a connection that was gone was told 401
    unlisted,   \* history: an announcement was lost, or a listing failed or was passed
    twice,      \* history: the newest observation was made while the session started
    failures    \* history, over stdio: failures since a stable connection or a manual retry

sessionVars == <<session, reported, twice>>
historyVars == <<overlapped, unlisted, failures>>
vars == <<transport, closed, entry, client, timers, call, version, listings, retries,
          sessionVars, historyVars>>

-----------------------------------------------------------------------------
NewEntry == [state |-> "connecting", connection |-> None, tools |-> 0, stable |-> FALSE,
             failed |-> 0, before |-> 0, timer |-> None, exhausted |-> FALSE]

NoClient == [at |-> "none", list |-> 0]

NoCall == [at |-> "idle", on |-> None, why |-> "none", again |-> FALSE]

Attempting == {k \in Client : client[k].at \in {"making", "listed"}}

(* Clients that nothing refers to, beside those of `clients`, the timers
   `pending` and the calls `others`. *)
Unused(clients, pending, others) ==
    {k \in Client : /\ clients[k].at = "none"
                    /\ k \notin pending
                    /\ \A c \in others : call[c].on # k}

NewClient(clients, pending, others) == CHOOSE k \in Unused(clients, pending, others) : TRUE

(* InitialDelay * 2 ** n, and whether the delay before the retry that follows
   the n-th failure reaches the limit. *)
Delay[n \in Nat] == IF n = 0 THEN InitialDelay ELSE 2 * Delay[n - 1]

Exhausts(n) == n > 0 /\ Delay[n - 1] >= GiveUpDelay

Limit == CHOOSE n \in 1..GiveUpDelay + 1 : Exhausts(n) /\ \A m \in 1..n - 1 : ~Exhausts(m)

(* Some clients are closed: what waits for them is rejected. *)
Closing(ks) ==
    /\ call' = [c \in Call |-> IF call[c].at = "sent" /\ call[c].on \in ks THEN NoCall ELSE call[c]]
    /\ listings' = {l \in listings : l.on \notin ks}

(* runAttempt up to its first await.  `e` is the entry, `clients` and `pending`
   are the clients and the timers as the caller leaves them.  A timer that is
   pending is forgotten, not cleared. *)
Attempt(e, clients, pending, others) ==
    /\ Unused(clients, pending, others) # {}
    /\ entry' = [e EXCEPT !.state = "connecting", !.timer = None]
    /\ client' = [clients EXCEPT ![NewClient(clients, pending, others)] =
                      [at |-> "making", list |-> 0]]
    /\ timers' = pending
    /\ overlapped' = \/ overlapped
                     \/ e.connection # None
                     \/ pending # {}
                     \/ Attempting # {}

(* recordFailure: the timer of the next attempt, or the end of them.  The count
   is capped once it has reached the limit. *)
FailedSilently(e, k) ==
    LET n == IF Exhausts(e.failed) THEN e.failed ELSE e.failed + 1
    IN  /\ entry' = [e EXCEPT !.state = "failed", !.failed = n,
                              !.timer = IF Exhausts(n) THEN @ ELSE k]
        /\ timers' = IF Exhausts(n) THEN timers ELSE timers \cup {k}
        /\ failures' = IF transport = "http" \/ failures > Limit THEN failures ELSE failures + 1
Failed(e, k) ==
    LET n == IF Exhausts(e.failed) THEN e.failed ELSE e.failed + 1
    IN  /\ entry' = [e EXCEPT !.state = "failed", !.failed = n,
                              !.exhausted = @ \/ Exhausts(n),
                              !.timer = IF Exhausts(n) THEN @ ELSE k]
        /\ timers' = IF Exhausts(n) THEN timers ELSE timers \cup {k}
        /\ failures' = IF transport = "http" \/ failures > Limit THEN failures ELSE failures + 1

(* recordNeedsAuth. *)
NeedsAuth(e) ==
    /\ entry' = [e EXCEPT !.state = "needs_auth", !.timer = None]
    /\ timers' = timers \ {e.timer}

(* The entry without its connection, when that is k. *)
Without(e, k) ==
    IF e.connection = k
    THEN [e EXCEPT !.connection = None, !.tools = 0, !.stable = FALSE] ELSE e

(* observe: a listener that is told before the session starts leaves it to
   startSession; later it records the observation itself. *)
Observe ==
    /\ reported' = IF session = "none" THEN 0 ELSE 1
    /\ twice' = (session = "starting")
    /\ UNCHANGED session

-----------------------------------------------------------------------------
(* An attempt: connect, tools/list, and what runAttempt does with it. *)

(* The server is connected and has answered tools/list. *)
List(k) ==
    /\ client[k].at = "making"
    /\ client' = [client EXCEPT ![k] = [at |-> "listed", list |-> version]]
    /\ UNCHANGED <<transport, closed, entry, timers, call, version, listings, retries,
                   sessionVars, historyVars>>

(* The client becomes the entry's connection.  The one it had, if any, stays open. *)
Attach(k) ==
    /\ client[k].at = "listed"
    /\ ~closed
    /\ entry' = [entry EXCEPT !.state = "connected", !.connection = k, !.tools = client[k].list,
                              !.stable = FALSE, !.before = entry.failed, !.failed = 0,
                              !.exhausted = FALSE]
    /\ client' = [client EXCEPT ![k] = [at |-> "open", list |-> 0]]
    /\ Observe
    /\ UNCHANGED <<transport, closed, timers, call, version, listings, retries, historyVars>>

(* The pool was closed meanwhile. *)
AttachLate(k) ==
    /\ client[k].at = "listed"
    /\ closed
    /\ client' = [client EXCEPT ![k] = NoClient]
    /\ Closing({k})
    /\ UNCHANGED <<transport, closed, entry, timers, version, retries, sessionVars, historyVars>>

(* The connection or the listing fails or times out, or the server dies. *)
FailAttempt(k) ==
    /\ k \in Attempting
    /\ client' = [client EXCEPT ![k] = NoClient]
    /\ Closing({k})
    /\ \/ /\ closed
          /\ UNCHANGED <<entry, timers, failures>>
       \/ /\ ~closed
          /\ Failed(entry, k)
       \/ /\ ~closed
          /\ transport = "http"
          /\ NeedsAuth(entry)
          /\ UNCHANGED failures
    /\ UNCHANGED <<transport, closed, version, retries, sessionVars, overlapped, unlisted>>

(* The retry timer, also one that the entry no longer knows. *)
Fire(t) ==
    /\ t \in timers
    /\ Attempt(entry, client, timers \ {t}, Call)
    /\ UNCHANGED <<transport, closed, call, version, listings, retries, sessionVars,
                   unlisted, failures>>

(* retryFailed. *)
RetryFailedBeside ==
    /\ retries < MaxRetries
    /\ ~closed
    /\ entry.state \in {"failed", "needs_auth"}
    /\ Attempt([entry EXCEPT !.failed = 0, !.exhausted = FALSE], client, timers, Call)
    /\ retries' = retries + 1
    /\ failures' = 0
    /\ UNCHANGED <<transport, closed, call, version, listings, sessionVars, unlisted>>
RetryFailed ==
    /\ retries < MaxRetries
    /\ ~closed
    /\ entry.state \in {"failed", "needs_auth"}
    /\ Attempt([entry EXCEPT !.failed = 0, !.exhausted = FALSE], client,
               timers \ {entry.timer}, Call)
    /\ retries' = retries + 1
    /\ failures' = 0
    /\ UNCHANGED <<transport, closed, call, version, listings, sessionVars, unlisted>>

-----------------------------------------------------------------------------
(* A connection lives, and a stdio one ends. *)

(* STABLE_CONNECTION_MS have passed, which only handleDisconnect asks for. *)
Settle ==
    /\ transport = "stdio"
    /\ entry.connection # None
    /\ ~entry.stable
    /\ entry' = [entry EXCEPT !.stable = TRUE]
    /\ failures' = 0
    /\ UNCHANGED <<transport, closed, client, timers, call, version, listings, retries,
                   sessionVars, overlapped, unlisted>>

(* handleDisconnect, from onclose.  A connection that was short-lived brings
   back the failures before it. *)
FailedAfreshly(e) == Without(e, e.connection)
FailedBefore(e) ==
    Without([e EXCEPT !.failed = IF e.stable THEN e.failed ELSE e.before], e.connection)

Disconnect(k) ==
    /\ transport = "stdio"
    /\ client[k].at = "open"
    /\ entry.connection = k
    /\ ~closed
    /\ client' = [client EXCEPT ![k] = NoClient]
    /\ Closing({k})
    /\ Failed(FailedBefore(entry), k)
    /\ UNCHANGED <<transport, closed, version, retries, sessionVars, overlapped, unlisted>>

(* A client nobody holds is forgotten: its name can be used again. *)
Forget(k) ==
    /\ client[k].at = "open"
    /\ entry.connection # k
    /\ \A c \in Call : call[c].on # k
    /\ client' = [client EXCEPT ![k] = NoClient]
    /\ Closing({k})
    /\ UNCHANGED <<transport, closed, entry, timers, version, retries, sessionVars, historyVars>>

-----------------------------------------------------------------------------
(* Tool lists. *)

(* The server's tools change, and it tells every client it knows. *)
ChangeTools ==
    /\ version < MaxVersions[transport]
    /\ version' = version + 1
    /\ listings' = listings \cup
           {[on |-> k, got |-> 0, asked |-> FALSE] :
               k \in {j \in Client : client[j].at \in {"listed", "open"}}}
    /\ UNCHANGED <<transport, closed, entry, client, timers, call, retries, sessionVars, historyVars>>

(* handleToolsChanged up to its await.  An attempt that has its list and has
   not attached its client yet does not hear of it. *)
AskTools(l) ==
    /\ ~l.asked
    /\ IF ~closed /\ entry.connection = l.on
       THEN /\ listings' = (listings \ {l}) \cup {[l EXCEPT !.asked = TRUE]}
            /\ UNCHANGED unlisted
       ELSE /\ listings' = listings \ {l}
            /\ unlisted' = TRUE
    /\ UNCHANGED <<transport, closed, entry, client, timers, call, version, retries, sessionVars,
                   overlapped, failures>>

AnswerTools(l) ==
    /\ l.asked
    /\ l.got = 0
    /\ listings' = (listings \ {l}) \cup {[l EXCEPT !.got = version]}
    /\ UNCHANGED <<transport, closed, entry, client, timers, call, version, retries, sessionVars,
                   historyVars>>

(* The list replaces the entry's, whichever of the two is newer, as long as
   the client is still the entry's connection. *)
TakeToolsUnused(l) ==
    /\ l.got > 0
    /\ listings' = listings \ {l}
    /\ IF ~closed /\ entry.connection = l.on
       THEN /\ unlisted' = (unlisted \/ l.got < entry.tools)
            /\ Observe
       ELSE UNCHANGED <<unlisted, sessionVars>>
    /\ UNCHANGED <<transport, closed, entry, client, timers, call, version, retries, overlapped,
                   failures>>
TakeTools(l) ==
    /\ l.got > 0
    /\ listings' = listings \ {l}
    /\ IF ~closed /\ entry.connection = l.on
       THEN /\ entry' = [entry EXCEPT !.tools = l.got]
            /\ unlisted' = (unlisted \/ l.got < entry.tools)
            /\ Observe
       ELSE UNCHANGED <<entry, unlisted, sessionVars>>
    /\ UNCHANGED <<transport, closed, client, timers, call, version, retries, overlapped, failures>>

(* The listing fails: the previous list stays. *)
FailTools(l) ==
    /\ l.asked
    /\ listings' = listings \ {l}
    /\ unlisted' = TRUE
    /\ UNCHANGED <<transport, closed, entry, client, timers, call, version, retries, sessionVars,
                   overlapped, failures>>

-----------------------------------------------------------------------------
(* tools/call. *)

(* callTool up to its await: the tool index leads to the entry's connection. *)
Send(c) ==
    /\ transport = "http"
    /\ call[c].at = "idle"
    /\ ~closed
    /\ entry.connection # None
    /\ call' = [call EXCEPT ![c] = [at |-> "sent", on |-> entry.connection, why |-> "none",
                                    again |-> FALSE]]
    /\ UNCHANGED <<transport, closed, entry, client, timers, version, listings, retries,
                   sessionVars, historyVars>>

(* A result, an error of the tool, or the timeout of the call. *)
Answer(c) ==
    /\ call[c].at = "sent"
    /\ call' = [call EXCEPT ![c] = NoCall]
    /\ UNCHANGED <<transport, closed, entry, client, timers, version, listings, retries,
                   sessionVars, historyVars>>

(* 401 or 403, or the 404 of a server that no longer knows the session. *)
Reject(c) ==
    /\ call[c].at = "sent"
    /\ \E why \in {"auth", "session"} :
         call' = [call EXCEPT ![c].at = "rejected", ![c].why = why]
    /\ UNCHANGED <<transport, closed, entry, client, timers, version, listings, retries,
                   sessionVars, historyVars>>

(* The second try of a call ends in a plain error, whatever the reason. *)
GiveUpCall(c) ==
    /\ call[c].at = "rejected"
    /\ call[c].again
    /\ call' = [call EXCEPT ![c] = NoCall]
    /\ UNCHANGED <<transport, closed, entry, client, timers, version, listings, retries,
                   sessionVars, historyVars>>

(* markNeedsAuth. *)
RejectedAuth(c) ==
    LET k == call[c].on
    IN  /\ call[c].at = "rejected" /\ call[c].why = "auth" /\ ~call[c].again
        /\ client' = [client EXCEPT ![k] = NoClient]
        /\ call' = [d \in Call |-> IF d = c \/ (call[d].at = "sent" /\ call[d].on = k)
                                   THEN NoCall ELSE call[d]]
        /\ listings' = {l \in listings : l.on # k}
        /\ NeedsAuth(Without(entry, k))
        /\ overlapped' = (overlapped \/ entry.connection # k)
        /\ UNCHANGED <<transport, closed, version, retries, sessionVars, unlisted, failures>>

(* reconnect: the connection is dropped and closed, then an attempt, which the
   call waits for. *)
Waiting(k) == [at |-> "waiting", on |-> k, why |-> "none", again |-> TRUE]

RejectedSessionKept(c) ==
    /\ call[c].at = "rejected" /\ call[c].why = "session" /\ ~call[c].again
    /\ ~closed
    /\ Attempt(Without(entry, call[c].on), client, timers, Call)
    /\ call' = [call EXCEPT ![c] = Waiting(NewClient(client, timers, Call))]
    /\ UNCHANGED <<transport, closed, version, listings, retries, sessionVars, unlisted, failures>>
RejectedSession(c) ==
    LET k      == call[c].on
        shut   == [client EXCEPT ![k] = NoClient]
        others == Call \ {c}
        After(new) ==
            [d \in Call |-> IF d = c THEN new
                            ELSE IF call[d].at = "sent" /\ call[d].on = k THEN NoCall
                            ELSE call[d]]
    IN  /\ call[c].at = "rejected" /\ call[c].why = "session" /\ ~call[c].again
        /\ listings' = {l \in listings : l.on # k}
        /\ \/ /\ closed
              /\ client' = shut
              /\ call' = After(NoCall)
              /\ UNCHANGED <<entry, timers, overlapped>>
           \/ /\ ~closed
              /\ Attempt(Without(entry, k), shut, timers, others)
              /\ call' = After(Waiting(NewClient(shut, timers, others)))
        /\ UNCHANGED <<transport, closed, version, retries, sessionVars, unlisted, failures>>

(* The attempt it waited for is over: the call is sent once more, on whatever
   connection there is, or is told that there is none. *)
Resume(c) ==
    /\ call[c].at = "waiting"
    /\ call[c].on \notin Attempting
    /\ call' = [call EXCEPT ![c] =
           IF entry.state = "connected" /\ entry.connection # None
           THEN [@ EXCEPT !.at = "sent", !.on = entry.connection]
           ELSE NoCall]
    /\ UNCHANGED <<transport, closed, entry, client, timers, version, listings, retries,
                   sessionVars, historyVars>>

-----------------------------------------------------------------------------
(* The session, and the end of the pool. *)

(* startSession, with the initialized notification or the first call. *)
StartSession ==
    /\ session = "none"
    /\ session' = "starting"
    /\ UNCHANGED <<transport, closed, entry, client, timers, call, version, listings, retries,
                   reported, twice, historyVars>>

(* session.started is written: then the observations of the connected upstreams. *)
SessionStartedBare ==
    /\ session = "starting"
    /\ session' = "open"
    /\ UNCHANGED <<transport, closed, entry, client, timers, call, version, listings, retries,
                   reported, twice, historyVars>>
SessionStarted ==
    /\ session = "starting"
    /\ session' = "open"
    /\ reported' = IF entry.connection # None THEN reported + 1 ELSE reported
    /\ UNCHANGED <<transport, closed, entry, client, timers, call, version, listings, retries,
                   twice, historyVars>>

(* close(): a timer the entry no longer knows is not cleared. *)
Close ==
    /\ ~closed
    /\ closed' = TRUE
    /\ entry' = [entry EXCEPT !.connection = None]
    /\ timers' = timers \ {entry.timer}
    /\ client' = [k \in Client |-> IF k = entry.connection THEN NoClient ELSE client[k]]
    /\ Closing({entry.connection})
    /\ UNCHANGED <<transport, version, retries, sessionVars, historyVars>>

-----------------------------------------------------------------------------
(* start(): the first attempt. *)
Init ==
    /\ transport \in Transport
    /\ closed = FALSE
    /\ entry = NewEntry
    /\ client = [k \in Client |-> IF k = CHOOSE j \in Client : TRUE
                                  THEN [at |-> "making", list |-> 0] ELSE NoClient]
    /\ timers = {}
    /\ call = [c \in Call |-> NoCall]
    /\ version = 1
    /\ listings = {}
    /\ session = SessionAt[transport]
    /\ reported = 0
    /\ retries = 0
    /\ overlapped = FALSE
    /\ unlisted = FALSE
    /\ twice = FALSE
    /\ failures = 0

AttemptStep(k) == List(k) \/ Attach(k) \/ AttachLate(k) \/ FailAttempt(k)

CallStep(c) ==
    Answer(c) \/ Reject(c) \/ GiveUpCall(c) \/ RejectedAuth(c) \/ RejectedSession(c) \/ Resume(c)

Next ==
    \/ \E k \in Client : AttemptStep(k) \/ Fire(k) \/ Disconnect(k) \/ Forget(k)
    \/ RetryFailed \/ Settle
    \/ ChangeTools
    \/ \E l \in listings : AskTools(l) \/ AnswerTools(l) \/ TakeTools(l) \/ FailTools(l)
    \/ \E c \in Call : Send(c) \/ CallStep(c)
    \/ StartSession \/ SessionStarted
    \/ Close

Spec == Init /\ [][Next]_vars

(* Every await of an attempt and of a call has a timeout, timers fire, and a
   client nobody holds is collected. *)
FairSpec ==
    /\ Spec
    /\ \A k \in Client : WF_vars(AttemptStep(k)) /\ WF_vars(Fire(k)) /\ WF_vars(Forget(k))
    /\ \A c \in Call : WF_vars(CallStep(c))

-----------------------------------------------------------------------------
(* Properties. *)

(* Every variable has its type: the entry of upstream-client.ts, its clients,
   timers and calls. *)
TypeOK ==
    /\ transport \in Transport /\ closed \in BOOLEAN
    /\ entry.state \in {"connecting", "connected", "failed", "needs_auth"}
    /\ entry.connection \in Client \cup {None} /\ entry.timer \in Client \cup {None}
    /\ entry.tools \in 0..MaxVersions[transport]
    /\ entry.failed \in 0..Limit /\ entry.before \in 0..Limit
    /\ client \in [Client -> [at : {"none", "making", "listed", "open"}, list : 0..MaxVersions[transport]]]
    /\ timers \subseteq Client
    /\ call \in [Call -> [at : {"idle", "sent", "rejected", "waiting"}, on : Client \cup {None},
                          why : {"none", "auth", "session"}, again : BOOLEAN]]
    /\ reported \in 0..2

(* Every client that is open is the entry's connection, so close() and a lost
   session leave none behind; until attempts overlap. *)
NoneLeft ==
    ~overlapped => \A k \in Client : client[k].at = "open" => entry.connection = k

(* One thing at a time is under way for an upstream: an attempt, a connection,
   a retry timer, or none of them because retries have stopped; its state says
   which, and no other client is left open.  For an upstream over stdio always,
   over HTTP until an attempt begins beside another. *)
OneAtATime ==
    /\ transport = "stdio" => ~overlapped
    /\ ~overlapped /\ ~closed =>
         /\ (entry.state = "connecting") = (Attempting # {})
         /\ (entry.state = "connected") = (entry.connection # None)
         /\ (entry.state = "failed" /\ ~entry.exhausted) = (timers # {})
         /\ Cardinality(Attempting) <= 1
         /\ timers \subseteq {entry.timer}
    /\ NoneLeft

(* With nothing more on its way, the tools offered are the tools the server
   has, unless an announcement came before its client was attached, a listing
   failed, or an older answer passed a newer one. *)
ToolsCurrent ==
    entry.connection # None /\ ~unlisted /\ (\A l \in listings : l.on # entry.connection) =>
        entry.tools = version

(* upstream-client.ts:131-134: "an upstream that crashes right after starting
   still reaches the retry limit": the failures since a stable connection or a
   manual retry are never more than the limit. *)
GivesUp == transport = "stdio" => failures <= Limit

(* Once the session is open, what the connected upstream looked like is in it:
   once, or twice if it was observed while session.started was being written. *)
ObservationKept ==
    session = "open" /\ entry.connection # None => reported = IF twice THEN 2 ELSE 1

(* An upstream does not stay failed or connecting: it connects, or its retries
   stop, or credentials are needed. *)
Recovers ==
    []<>(closed \/ entry.exhausted \/ entry.state \in {"connected", "needs_auth"})

=============================================================================
