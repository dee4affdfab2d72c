-------------------------- MODULE EventLoopProofs --------------------------
(***************************************************************************)
(* Proofs about the two processes that run for as long as the agent does:  *)
(* the proxy's pool of upstreams (UpstreamPool) and the live dashboard     *)
(* (LiveDashboard), for any clients, calls, delays and bounds.             *)
(*                                                                         *)
(* UpstreamPool.  Retries and reconnections are begun by four different    *)
(* callers, none of which looks at the others.  What keeps them apart is   *)
(* that the state of the entry says which of them may act; what follows is *)
(* proved for as long as no attempt began beside another.                  *)
(*                                                                         *)
(* LiveDashboard.  That the read model is true to the log needs to know    *)
(* which lines a tail still has to do: they are the last ones it read, and *)
(* what it has seen is stored or about to be appended.  That live pairing  *)
(* ends as a replay would pair needs two facts about Pairs: rows that come *)
(* in the order of their session only add pairs, and in the whole log no   *)
(* call of the proxy is left over, since each has a hook call of its own   *)
(* before it.                                                              *)
(***************************************************************************)
EXTENDS UpstreamPool, LiveDashboard, FiniteSetTheorems, SequenceTheorems, WellFoundedInduction, TLAPS

-----------------------------------------------------------------------------
(* Induction up to a number. *)

LEMMA LeastNumber ==
    ASSUME NEW S \in SUBSET Nat, S # {}
    PROVE  \E x \in S : \A y \in S : x <= y
<1>1. PICK x \in S : \A y \in S : ~(<<y, x>> \in OpToRel(<, Nat))
  BY NatLessThanWellFounded, WFMin
<1>2. \A y \in S : ~(y < x)
  BY <1>1 DEF OpToRel
<1> QED
  BY <1>2

LEMMA CountUp ==
    ASSUME NEW n \in Nat, NEW S, 0 \in S, \A i \in 1..n : i - 1 \in S => i \in S
    PROVE  \A i \in 0..n : i \in S
<1> DEFINE Bad == {i \in 0..n : i \notin S}
<1>1. CASE Bad = {}
  BY <1>1
<1>2. CASE Bad # {}
  <2>1. PICK i \in Bad : \A j \in Bad : i <= j
    <3>1. Bad \in SUBSET Nat
      OBVIOUS
    <3> HIDE DEF Bad
    <3> QED
      BY <1>2, <3>1, LeastNumber
  <2>2. i # 0 /\ i \in 1..n /\ i - 1 \in 0..n /\ i - 1 \notin Bad
    BY <2>1
  <2> QED
    BY <2>1, <2>2
<1> QED
  BY <1>1, <1>2

-----------------------------------------------------------------------------
(* The pool of upstreams. *)
EntryType == [state : {"connecting", "connected", "failed", "needs_auth"},
              connection : Client \cup {None}, tools : Nat, stable : BOOLEAN, failed : Nat,
              before : Nat, timer : Client \cup {None}, exhausted : BOOLEAN]

ClientType == [at : {"none", "making", "listed", "open"}, list : Nat]

CallType == [at : {"idle", "sent", "rejected", "waiting"}, on : Client \cup {None},
             why : {"none", "auth", "session"}, again : BOOLEAN]

ListingType == [on : Client, got : Nat, asked : BOOLEAN]

(* The types, and what a connection and a call refer to. *)
TypeInv ==
    /\ transport \in {"stdio", "http"}
    /\ closed \in BOOLEAN
    /\ entry \in EntryType
    /\ client \in [Client -> ClientType]
    /\ timers \subseteq Client
    /\ call \in [Call -> CallType]
    /\ version \in Nat
    /\ listings \subseteq ListingType
    /\ overlapped \in BOOLEAN /\ unlisted \in BOOLEAN /\ twice \in BOOLEAN
    /\ failures \in Nat
    /\ \A c \in Call : call[c].at # "idle" => call[c].on \in Client
    /\ transport = "stdio" => \A c \in Call : call[c].at = "idle"
    /\ entry.connection # None => client[entry.connection].at = "open"
    /\ closed => entry.connection = None

-----------------------------------------------------------------------------
(* Types. *)

LEMMA NoType == NoClient \in ClientType /\ NoCall \in CallType /\ NewEntry \in EntryType
                /\ NoClient.at = "none" /\ NoCall.at = "idle" /\ NoCall.on = None
  BY DEF NoClient, ClientType, NoCall, CallType, NewEntry, EntryType

LEMMA EntryFields ==
    ASSUME NEW e \in EntryType
    PROVE  /\ e.connection \in Client \cup {None} /\ e.timer \in Client \cup {None}
           /\ e.failed \in Nat /\ e.before \in Nat /\ e.tools \in Nat
           /\ e.state \in {"connecting", "connected", "failed", "needs_auth"}
           /\ e.stable \in BOOLEAN /\ e.exhausted \in BOOLEAN
  BY DEF EntryType

LEMMA WithoutType ==
    ASSUME NEW e \in EntryType, NEW k
    PROVE  /\ Without(e, k) \in EntryType
           /\ Without(e, k).connection = IF e.connection = k THEN None ELSE e.connection
           /\ Without(e, k).state = e.state /\ Without(e, k).failed = e.failed
           /\ Without(e, k).timer = e.timer /\ Without(e, k).exhausted = e.exhausted
           /\ Without(e, k).before = e.before
           /\ e.connection # k => Without(e, k).tools = e.tools
  BY DEF Without, EntryType

(* What waits for closed clients is gone. *)
LEMMA ClosingType ==
    ASSUME TypeInv, NEW ks, Closing(ks)
    PROVE  /\ call' \in [Call -> CallType] /\ listings' \subseteq ListingType
           /\ \A c \in Call : call'[c] = call[c] \/ call'[c] = NoCall
           /\ \A c \in Call : call'[c].at # "idle" => call'[c].on \in Client
           /\ transport = "stdio" => \A c \in Call : call'[c].at = "idle"
  BY NoType DEF Closing, TypeInv

(* An attempt takes a client that is not in use. *)
LEMMA AttemptMakes ==
    ASSUME NEW e \in EntryType, NEW clients \in [Client -> ClientType], NEW pending, NEW others,
           Attempt(e, clients, pending, others)
    PROVE  /\ NewClient(clients, pending, others) \in Client
           /\ clients[NewClient(clients, pending, others)].at = "none"
           /\ client' = [clients EXCEPT ![NewClient(clients, pending, others)] =
                             [at |-> "making", list |-> 0]]
           /\ client' \in [Client -> ClientType]
           /\ entry' \in EntryType
           /\ entry'.state = "connecting" /\ entry'.timer = None
           /\ entry'.connection = e.connection /\ entry'.failed = e.failed
           /\ entry'.exhausted = e.exhausted /\ entry'.before = e.before
           /\ entry'.tools = e.tools
           /\ timers' = pending
           /\ overlapped' \in BOOLEAN
           /\ ~overlapped' => ~overlapped /\ e.connection = None /\ pending = {} /\ Attempting = {}
<1> DEFINE new == NewClient(clients, pending, others)
<1>1. new \in Unused(clients, pending, others)
  BY DEF Attempt, NewClient
<1>2. new \in Client /\ clients[new].at = "none"
  BY <1>1 DEF Unused
<1>3. entry' = [e EXCEPT !.state = "connecting", !.timer = None]
      /\ client' = [clients EXCEPT ![new] = [at |-> "making", list |-> 0]]
      /\ timers' = pending
  BY DEF Attempt
<1>4. overlapped' \in BOOLEAN
      /\ (~overlapped' => ~overlapped /\ e.connection = None /\ pending = {} /\ Attempting = {})
  BY Zenon DEF Attempt
<1> HIDE DEF new
<1>5. entry' \in EntryType /\ client' \in [Client -> ClientType]
  BY <1>2, <1>3 DEF EntryType, ClientType
<1> QED
  BY <1>2, <1>3, <1>4, <1>5 DEF EntryType, new

LEMMA FailedMakes ==
    ASSUME TypeInv, NEW e \in EntryType, NEW k \in Client, Failed(e, k)
    PROVE  /\ entry' \in EntryType /\ timers' \subseteq Client /\ failures' \in Nat
           /\ entry'.state = "failed" /\ entry'.connection = e.connection
           /\ entry'.before = e.before /\ entry'.tools = e.tools
           /\ \/ /\ Exhausts(entry'.failed) /\ entry'.exhausted /\ timers' = timers
                 /\ entry'.timer = e.timer
              \/ /\ ~Exhausts(entry'.failed) /\ entry'.exhausted = e.exhausted
                 /\ timers' = timers \cup {k} /\ entry'.timer = k
           /\ entry'.failed = IF Exhausts(e.failed) THEN e.failed ELSE e.failed + 1
<1> DEFINE n == IF Exhausts(e.failed) THEN e.failed ELSE e.failed + 1
<1>1. n \in Nat /\ n = (IF Exhausts(e.failed) THEN e.failed ELSE e.failed + 1)
      /\ timers \subseteq Client
  BY DEF EntryType, TypeInv
<1>2. /\ entry' = [e EXCEPT !.state = "failed", !.failed = n,
                            !.exhausted = @ \/ Exhausts(n),
                            !.timer = IF Exhausts(n) THEN @ ELSE k]
      /\ timers' = IF Exhausts(n) THEN timers ELSE timers \cup {k}
      /\ failures' = IF transport = "http" \/ failures > Limit THEN failures ELSE failures + 1
  BY DEF Failed
<1> HIDE DEF n
<1>3. failures' \in Nat
  BY <1>2 DEF TypeInv
<1>4. CASE Exhausts(n)
  <2>1. entry' = [e EXCEPT !.state = "failed", !.failed = n, !.exhausted = TRUE]
    BY <1>2, <1>4 DEF EntryType
  <2> QED
    BY <1>1, <1>2, <1>3, <1>4, <2>1 DEF EntryType
<1>5. CASE ~Exhausts(n)
  <2>1. entry' = [e EXCEPT !.state = "failed", !.failed = n, !.timer = k]
    BY <1>2, <1>5 DEF EntryType
  <2> QED
    BY <1>1, <1>2, <1>3, <1>5, <2>1 DEF EntryType
<1> QED
  BY <1>4, <1>5

LEMMA NeedsAuthMakes ==
    ASSUME TypeInv, NEW e \in EntryType, NeedsAuth(e)
    PROVE  /\ entry' \in EntryType /\ timers' \subseteq Client /\ timers' \subseteq timers
           /\ timers' = timers \ {e.timer}
           /\ entry'.state = "needs_auth" /\ entry'.connection = e.connection
           /\ entry'.failed = e.failed /\ entry'.exhausted = e.exhausted /\ entry'.timer = None
           /\ entry'.before = e.before /\ entry'.tools = e.tools
  BY DEF NeedsAuth, EntryType, TypeInv

LEMMA TypeInit == Init => TypeInv
<1> SUFFICES ASSUME Init PROVE TypeInv
  OBVIOUS
<1>1. client \in [Client -> ClientType]
  BY NoType DEF Init, ClientType
<1>2. call \in [Call -> CallType] /\ \A c \in Call : call[c].at = "idle"
  BY NoType DEF Init
<1>3. transport \in {"stdio", "http"} /\ entry \in EntryType /\ entry.connection = None
  BY NoType, PoolAssumption DEF Init, NewEntry
<1>4. /\ closed \in BOOLEAN /\ overlapped \in BOOLEAN /\ unlisted \in BOOLEAN /\ twice \in BOOLEAN
      /\ closed = FALSE
  BY DEF Init
<1> QED
  BY <1>1, <1>2, <1>3, <1>4 DEF Init, TypeInv

LEMMA ObserveType == ASSUME Observe PROVE twice' \in BOOLEAN
  BY DEF Observe

LEMMA TypeStep == TypeInv /\ [Next]_vars => TypeInv'
<1> SUFFICES ASSUME TypeInv, [Next]_vars PROVE TypeInv'
  OBVIOUS
<1> USE NoType
<1>1. ASSUME NEW k \in Client, List(k) PROVE TypeInv'
  <2>1. client' = [client EXCEPT ![k] = [at |-> "listed", list |-> version]]
        /\ client[k].at = "making"
        /\ UNCHANGED <<transport, closed, entry, timers, call, version, listings, sessionVars, historyVars>>
    BY <1>1 DEF List
  <2>2. client' \in [Client -> ClientType]
    BY <2>1 DEF TypeInv, ClientType
  <2>3. entry.connection # None => client'[entry.connection].at = "open"
    BY <2>1 DEF TypeInv, EntryType
  <2> QED
    BY <2>1, <2>2, <2>3 DEF TypeInv, sessionVars, historyVars
<1>2. ASSUME NEW k \in Client, Attach(k) PROVE TypeInv'
  <2>1. /\ client' = [client EXCEPT ![k] = [at |-> "open", list |-> 0]] /\ ~closed
        /\ entry' = [entry EXCEPT !.state = "connected", !.connection = k, !.tools = client[k].list,
                                  !.stable = FALSE, !.before = entry.failed, !.failed = 0,
                                  !.exhausted = FALSE]
        /\ UNCHANGED <<transport, closed, timers, call, version, listings, historyVars>>
    BY <1>2 DEF Attach
  <2>2. client' \in [Client -> ClientType] /\ client'[k].at = "open"
    BY <2>1 DEF TypeInv, ClientType
  <2>3. entry' \in EntryType /\ entry'.connection = k
    BY <2>1 DEF TypeInv, ClientType, EntryType
  <2>4. twice' \in BOOLEAN
    BY <1>2, ObserveType DEF Attach
  <2> QED
    BY <2>1, <2>2, <2>3, <2>4 DEF TypeInv, historyVars
<1>3. ASSUME NEW ks, Closing(ks), NEW k \in Client, client' = [client EXCEPT ![k] = NoClient],
             entry' \in EntryType, entry'.connection \in {entry.connection, None} \ {k},
             timers' \subseteq Client, failures' \in Nat,
             UNCHANGED <<transport, closed, version, sessionVars, overlapped, unlisted>>
      PROVE  TypeInv'
  <2>1. client' \in [Client -> ClientType]
    BY <1>3 DEF TypeInv
  <2>2. entry'.connection # None => client'[entry'.connection].at = "open"
    BY <1>3 DEF TypeInv, EntryType
  <2>3. closed => entry'.connection = None
    BY <1>3 DEF TypeInv
  <2> QED
    BY <1>3, <2>1, <2>2, <2>3, ClosingType DEF TypeInv, sessionVars
<1>4. ASSUME NEW k \in Client, AttachLate(k) PROVE TypeInv'
  <2>1. entry.connection # k
    BY <1>4, PoolAssumption DEF AttachLate, TypeInv
  <2> QED
    BY <1>3, <1>4, <2>1 DEF AttachLate, TypeInv, sessionVars, historyVars
<1>5. ASSUME NEW k \in Client, FailAttempt(k) PROVE TypeInv'
  <2>1. entry.connection # k /\ k \in Client
    BY <1>5, PoolAssumption DEF FailAttempt, Attempting, TypeInv
  <2>2. /\ entry' \in EntryType /\ entry'.connection = entry.connection
        /\ timers' \subseteq Client /\ failures' \in Nat
    BY <1>5, FailedMakes, NeedsAuthMakes DEF FailAttempt, TypeInv
  <2> QED
    BY <1>3, <1>5, <2>1, <2>2 DEF FailAttempt, TypeInv
<1>6. ASSUME NEW e \in EntryType, NEW clients \in [Client -> ClientType], NEW pending, NEW others,
             Attempt(e, clients, pending, others), pending \subseteq Client,
             e.connection # None => clients[e.connection].at = "open",
             e.connection \in {entry.connection, None},
             call' \in [Call -> CallType], listings' \subseteq ListingType, failures' \in Nat,
             \A c \in Call : call'[c].at # "idle" => call'[c].on \in Client,
             transport = "stdio" => \A c \in Call : call'[c].at = "idle",
             UNCHANGED <<transport, closed, version, sessionVars, unlisted>>
      PROVE  TypeInv'
  <2> DEFINE new == NewClient(clients, pending, others)
  <2>1. /\ new \in Client /\ clients[new].at = "none"
        /\ client' = [clients EXCEPT ![new] = [at |-> "making", list |-> 0]]
        /\ client' \in [Client -> ClientType]
        /\ entry' \in EntryType /\ entry'.connection = e.connection
        /\ timers' \subseteq Client /\ overlapped' \in BOOLEAN
    BY <1>6, AttemptMakes
  <2> HIDE DEF new
  <2>2. entry'.connection # None => client'[entry'.connection].at = "open"
    BY <1>6, <2>1 DEF EntryType
  <2>3. closed => entry'.connection = None
    BY <1>6, <2>1 DEF TypeInv
  <2> QED
    BY <1>6, <2>1, <2>2, <2>3 DEF TypeInv, sessionVars
<1>7. ASSUME NEW t \in Client, Fire(t) PROVE TypeInv'
  <2>1. timers \ {t} \subseteq Client
    BY DEF TypeInv
  <2> QED
    BY <1>6, <1>7, <2>1 DEF Fire, TypeInv
<1>8. CASE RetryFailed
  <2> DEFINE e == [entry EXCEPT !.failed = 0, !.exhausted = FALSE]
  <2>1. e \in EntryType /\ e.connection = entry.connection
    BY DEF TypeInv, EntryType
  <2>2. timers \ {entry.timer} \subseteq Client /\ failures' \in Nat
    BY <1>8 DEF TypeInv, RetryFailed
  <2>3. Attempt(e, client, timers \ {entry.timer}, Call)
    BY <1>8 DEF RetryFailed
  <2> HIDE DEF e
  <2> QED
    BY <1>6, <1>8, <2>1, <2>2, <2>3 DEF RetryFailed, TypeInv
<1>9. CASE Settle
  <2>1. entry' \in EntryType /\ entry'.connection = entry.connection
    BY <1>9 DEF Settle, TypeInv, EntryType
  <2> QED
    BY <1>9, <2>1 DEF Settle, TypeInv, sessionVars
<1>10. ASSUME NEW k \in Client, Disconnect(k) PROVE TypeInv'
  <2>1. FailedBefore(entry) \in EntryType /\ FailedBefore(entry).connection = None
    <3> DEFINE e == [entry EXCEPT !.failed = IF entry.stable THEN entry.failed ELSE entry.before]
    <3>1. e \in EntryType /\ e.connection = entry.connection
      BY DEF TypeInv, EntryType
    <3> HIDE DEF e
    <3>2. FailedBefore(entry) = Without(e, entry.connection)
      BY DEF FailedBefore, e
    <3> QED
      BY <3>1, <3>2, WithoutType
  <2>2. /\ entry' \in EntryType /\ entry'.connection = None
        /\ timers' \subseteq Client /\ failures' \in Nat
    BY <1>10, <2>1, FailedMakes DEF Disconnect
  <2>3. None # k
    BY PoolAssumption
  <2> QED
    BY <1>3, <1>10, <2>2, <2>3 DEF Disconnect
<1>11. ASSUME NEW k \in Client, Forget(k) PROVE TypeInv'
  BY <1>3, <1>11 DEF Forget, TypeInv, sessionVars, historyVars
<1>12. CASE ChangeTools
  <2>1. version' \in Nat
    BY <1>12 DEF ChangeTools, TypeInv
  <2>2. listings' \subseteq ListingType
    <3>1. \A k \in Client : [on |-> k, got |-> 0, asked |-> FALSE] \in ListingType
      BY DEF ListingType
    <3>2. listings \subseteq ListingType
      BY DEF TypeInv
    <3> QED
      BY <1>12, <3>1, <3>2 DEF ChangeTools
  <2> QED
    BY <1>12, <2>1, <2>2 DEF ChangeTools, TypeInv, sessionVars, historyVars
<1>13. ASSUME NEW l \in listings, AskTools(l) \/ AnswerTools(l) \/ FailTools(l) PROVE TypeInv'
  <2>1. listings' \subseteq ListingType
    <3>1. listings \subseteq ListingType /\ version \in Nat /\ l \in ListingType
      BY DEF TypeInv
    <3>2. [l EXCEPT !.asked = TRUE] \in ListingType /\ [l EXCEPT !.got = version] \in ListingType
      BY <3>1 DEF ListingType
    <3> QED
      BY <1>13, <3>1, <3>2 DEF AskTools, AnswerTools, FailTools
  <2>2. unlisted' \in BOOLEAN
    BY <1>13 DEF AskTools, AnswerTools, FailTools, TypeInv, historyVars
  <2> QED
    BY <1>13, <2>1, <2>2 DEF AskTools, AnswerTools, FailTools, TypeInv, sessionVars, historyVars
<1>14. ASSUME NEW l \in listings, TakeTools(l) PROVE TypeInv'
  <2>1. l.got \in Nat
    BY DEF TypeInv, ListingType
  <2>2. entry' \in EntryType /\ entry'.connection = entry.connection
    BY <1>14, <2>1 DEF TakeTools, TypeInv, EntryType
  <2>3. unlisted' \in BOOLEAN
    BY <1>14, Zenon DEF TakeTools, TypeInv
  <2>4. twice' \in BOOLEAN
    BY <1>14, ObserveType DEF TakeTools, TypeInv, sessionVars
  <2> QED
    BY <1>14, <2>2, <2>3, <2>4 DEF TakeTools, TypeInv
<1>15. ASSUME NEW c \in Call, NEW new \in CallType, call' = [call EXCEPT ![c] = new],
              new.at # "idle" => new.on \in Client /\ transport # "stdio",
              UNCHANGED <<transport, closed, entry, client, timers, version, listings,
                          sessionVars, historyVars>>
       PROVE  TypeInv'
  <2>1. call' \in [Call -> CallType]
    BY <1>15 DEF TypeInv
  <2>2. \A d \in Call : call'[d] = IF d = c THEN new ELSE call[d]
    BY <1>15 DEF TypeInv
  <2> QED
    BY <1>15, <2>1, <2>2 DEF TypeInv, sessionVars, historyVars
<1>16. ASSUME NEW c \in Call, Send(c) PROVE TypeInv'
  <2> DEFINE new == [at |-> "sent", on |-> entry.connection, why |-> "none", again |-> FALSE]
  <2>1. new \in CallType /\ new.on \in Client
    BY <1>16 DEF Send, CallType, TypeInv, EntryType
  <2>2. call' = [call EXCEPT ![c] = new] /\ transport # "stdio"
    BY <1>16 DEF Send
  <2> HIDE DEF new
  <2> QED
    BY <1>15, <1>16, <2>1, <2>2 DEF Send
<1>17. ASSUME NEW c \in Call, Answer(c) \/ GiveUpCall(c) PROVE TypeInv'
  BY <1>15, <1>17 DEF Answer, GiveUpCall
<1>18. ASSUME NEW c \in Call, Reject(c) PROVE TypeInv'
  <2>1. PICK why \in {"auth", "session"} :
          call' = [call EXCEPT ![c] = [call[c] EXCEPT !.at = "rejected", !.why = why]]
    BY <1>18 DEF Reject, TypeInv
  <2> DEFINE new == [call[c] EXCEPT !.at = "rejected", !.why = why]
  <2>2. new \in CallType /\ new.on = call[c].on
    BY DEF TypeInv, CallType
  <2>3. call[c].at = "sent" /\ call[c].on \in Client /\ transport # "stdio"
    BY <1>18 DEF Reject, TypeInv
  <2> HIDE DEF new
  <2>4. call' = [call EXCEPT ![c] = new]
    BY <2>1 DEF new
  <2> QED
    BY <1>15, <1>18, <2>2, <2>3, <2>4 DEF Reject
<1>19. ASSUME NEW c \in Call, Resume(c) PROVE TypeInv'
  <2> DEFINE new == IF entry.state = "connected" /\ entry.connection # None
                    THEN [call[c] EXCEPT !.at = "sent", !.on = entry.connection]
                    ELSE NoCall
  <2>1. new \in CallType /\ (new.at # "idle" => new.on \in Client)
    <3>1. call[c] \in CallType /\ entry.connection \in Client \cup {None}
      BY DEF TypeInv, EntryType
    <3>2. CASE entry.state = "connected" /\ entry.connection # None
      BY <3>1, <3>2 DEF CallType
    <3>3. CASE ~(entry.state = "connected" /\ entry.connection # None)
      BY <3>3
    <3> QED
      BY <3>2, <3>3
  <2>2. call[c].at = "waiting" /\ transport # "stdio"
    BY <1>19 DEF Resume, TypeInv
  <2>3. call' = [call EXCEPT ![c] = new]
    BY <1>19 DEF Resume
  <2> HIDE DEF new
  <2> QED
    BY <1>15, <1>19, <2>1, <2>2, <2>3 DEF Resume
<1>20. ASSUME NEW c \in Call, RejectedAuth(c) PROVE TypeInv'
  <2> DEFINE k == call[c].on
  <2>1. k \in Client /\ transport # "stdio" /\ k # None
    BY <1>20, PoolAssumption DEF RejectedAuth, TypeInv
  <2>2. /\ client' = [client EXCEPT ![k] = NoClient]
        /\ call' = [d \in Call |-> IF d = c \/ (call[d].at = "sent" /\ call[d].on = k)
                                   THEN NoCall ELSE call[d]]
        /\ listings' = {l \in listings : l.on # k}
        /\ NeedsAuth(Without(entry, k))
        /\ UNCHANGED <<transport, closed, version, sessionVars, unlisted, failures>>
    BY <1>20 DEF RejectedAuth
  <2>3. overlapped' \in BOOLEAN
    BY <1>20, Zenon DEF RejectedAuth, TypeInv
  <2> HIDE DEF k
  <2>4. /\ Without(entry, k) \in EntryType
        /\ Without(entry, k).connection = IF entry.connection = k THEN None ELSE entry.connection
    BY WithoutType DEF TypeInv
  <2>5. /\ entry' \in EntryType /\ timers' \subseteq Client
        /\ entry'.connection = IF entry.connection = k THEN None ELSE entry.connection
    BY <2>2, <2>4, NeedsAuthMakes
  <2>6. client' \in [Client -> ClientType] /\ call' \in [Call -> CallType]
        /\ listings' \subseteq ListingType
    BY <2>2 DEF TypeInv
  <2>7. \A d \in Call : call'[d].at # "idle" => call'[d].on \in Client
    BY <2>2 DEF TypeInv
  <2>8. entry'.connection # None => client'[entry'.connection].at = "open"
    BY <2>2, <2>5 DEF TypeInv, EntryType
  <2> QED
    BY <2>1, <2>2, <2>3, <2>5, <2>6, <2>7, <2>8 DEF TypeInv, sessionVars
<1>21. ASSUME NEW c \in Call, RejectedSession(c) PROVE TypeInv'
  <2> DEFINE k == call[c].on
             shut == [client EXCEPT ![k] = NoClient]
             others == Call \ {c}
             After(new) == [d \in Call |-> IF d = c THEN new
                                           ELSE IF call[d].at = "sent" /\ call[d].on = k THEN NoCall
                                           ELSE call[d]]
  <2>1. k \in Client /\ transport # "stdio" /\ k # None
    BY <1>21, PoolAssumption DEF RejectedSession, TypeInv
  <2>2. /\ listings' = {l \in listings : l.on # k}
        /\ UNCHANGED <<transport, closed, version, sessionVars, unlisted, failures>>
        /\ \/ /\ closed /\ client' = shut /\ call' = After(NoCall)
              /\ UNCHANGED <<entry, timers, overlapped>>
           \/ /\ ~closed
              /\ Attempt(Without(entry, k), shut, timers, others)
              /\ call' = After(Waiting(NewClient(shut, timers, others)))
    BY <1>21 DEF RejectedSession
  <2>3. /\ Without(entry, k) \in EntryType
        /\ Without(entry, k).connection = IF entry.connection = k THEN None ELSE entry.connection
    BY WithoutType DEF TypeInv
  <2>4. shut \in [Client -> ClientType]
        /\ \A j \in Client : j # k => shut[j] = client[j]
    BY DEF TypeInv
  <2>5. \A new \in CallType : After(new) \in [Call -> CallType]
    BY DEF TypeInv
  <2>6. \A new \in CallType : (new.at # "idle" => new.on \in Client) =>
          \A d \in Call : After(new)[d].at # "idle" => After(new)[d].on \in Client
    BY DEF TypeInv
  <2>7. listings' \subseteq ListingType
    BY <2>2 DEF TypeInv
  <2> HIDE DEF k, shut, others, After
  <2>8. CASE /\ closed /\ client' = shut /\ call' = After(NoCall)
             /\ UNCHANGED <<entry, timers, overlapped>>
    BY <2>1, <2>2, <2>4, <2>5, <2>6, <2>7, <2>8 DEF TypeInv, sessionVars
  <2>9. CASE /\ ~closed
             /\ Attempt(Without(entry, k), shut, timers, others)
             /\ call' = After(Waiting(NewClient(shut, timers, others)))
    <3> DEFINE new == NewClient(shut, timers, others)
    <3>1. new \in Client
      BY <2>3, <2>4, <2>9, AttemptMakes
    <3> HIDE DEF new
    <3>2. Waiting(new) \in CallType /\ Waiting(new).on \in Client
      BY <3>1 DEF Waiting, CallType
    <3>3. Without(entry, k).connection # None => shut[Without(entry, k).connection].at = "open"
      BY <2>3, <2>4 DEF TypeInv, EntryType
    <3>4. /\ call' \in [Call -> CallType]
          /\ \A d \in Call : call'[d].at # "idle" => call'[d].on \in Client
      BY <2>5, <2>6, <2>9, <3>2 DEF new
    <3>5. timers \subseteq Client /\ failures' \in Nat
      BY <2>2 DEF TypeInv
    <3> QED
      BY <1>6, <2>1, <2>2, <2>3, <2>4, <2>7, <2>9, <3>3, <3>4, <3>5
  <2> QED
    BY <2>2, <2>8, <2>9
<1>22. CASE StartSession \/ SessionStarted
  BY <1>22 DEF StartSession, SessionStarted, TypeInv, historyVars
<1>23. CASE Close
  <2>1. /\ entry' = [entry EXCEPT !.connection = None]
        /\ timers' = timers \ {entry.timer} /\ closed' = TRUE
        /\ client' = [k \in Client |-> IF k = entry.connection THEN NoClient ELSE client[k]]
        /\ Closing({entry.connection})
        /\ UNCHANGED <<transport, version, sessionVars, historyVars>>
    BY <1>23 DEF Close
  <2>2. entry' \in EntryType /\ entry'.connection = None
    BY <2>1 DEF TypeInv, EntryType
  <2>3. client' \in [Client -> ClientType] /\ timers' \subseteq Client
    BY <2>1 DEF TypeInv
  <2> QED
    BY <2>1, <2>2, <2>3, ClosingType DEF TypeInv, sessionVars, historyVars
<1>24. CASE UNCHANGED vars
  BY <1>24 DEF vars, sessionVars, historyVars, TypeInv
<1>25. ASSUME NEW t, Fire(t) PROVE t \in Client
  BY <1>25 DEF Fire, TypeInv
<1> QED
  BY <1>1, <1>2, <1>4, <1>5, <1>7, <1>8, <1>9, <1>10, <1>11, <1>12, <1>13, <1>14, <1>16, <1>17,
     <1>18, <1>19, <1>20, <1>21, <1>22, <1>23, <1>24 DEF Next, AttemptStep, CallStep

LEMMA TypeAlways == Spec => []TypeInv
  BY TypeInit, TypeStep, PTL DEF Spec

-----------------------------------------------------------------------------
(* One thing at a time. *)

Opened == {k \in Client : client[k].at = "open"}

(* What the state of the entry says of its attempt, connection and timer. *)
Fits ==
    /\ (entry.state = "connecting") = (Attempting # {})
    /\ (entry.state = "connected") = (entry.connection # None)
    /\ (entry.state = "failed" /\ ~entry.exhausted) = (timers # {})
    /\ entry.state = "connected" => ~entry.exhausted

Alone ==
    /\ \A j, k \in Attempting : j = k
    /\ Opened \subseteq {entry.connection}
    /\ timers \subseteq {entry.timer}
    /\ entry.exhausted => Exhausts(entry.failed)
    /\ closed => timers = {}
    /\ ~closed => Fits

OneInv == (transport = "stdio" => ~overlapped) /\ (~overlapped => Alone)

LEMMA OneInit == Init => OneInv
<1> SUFFICES ASSUME Init PROVE OneInv
  OBVIOUS
<1> DEFINE first == CHOOSE j \in Client : TRUE
<1>1. first \in Client
  BY PoolAssumption
<1> HIDE DEF first
<1>2. \A k \in Client : client[k].at = IF k = first THEN "making" ELSE "none"
  BY DEF Init, NoClient, first
<1>3. Attempting = {first} /\ Opened = {}
  BY <1>1, <1>2 DEF Attempting, Opened
<1>4. /\ entry.state = "connecting" /\ entry.connection = None /\ entry.exhausted = FALSE
      /\ timers = {} /\ closed = FALSE /\ overlapped = FALSE
  BY DEF Init, NewEntry
<1> QED
  BY <1>3, <1>4 DEF OneInv, Alone, Fits

LEMMA OneFrame ==
    ASSUME OneInv, UNCHANGED <<transport, overlapped, closed, timers>>,
           entry'.state = entry.state, entry'.connection = entry.connection,
           entry'.timer = entry.timer, entry'.exhausted = entry.exhausted,
           entry'.failed = entry.failed, Attempting' = Attempting, Opened' = Opened
    PROVE  OneInv'
  BY DEF OneInv, Alone, Fits

(* An attempt, whoever begins it. *)
LEMMA OneAttempt ==
    ASSUME TypeInv, OneInv, NEW e \in EntryType, NEW clients \in [Client -> ClientType],
           NEW pending \in SUBSET Client, NEW others, Attempt(e, clients, pending, others),
           e.exhausted => Exhausts(e.failed) \/ overlapped,
           \A k \in Client : clients[k] = client[k] \/ clients[k].at = "none",
           \A k \in Client : clients[k].at = "open" => k = e.connection \/ overlapped,
           ~closed, closed' = closed, transport' = transport,
           transport = "stdio" => /\ e.connection = None /\ pending = {}
                                  /\ entry.state # "connecting"
    PROVE  OneInv'
<1> DEFINE new == NewClient(clients, pending, others)
<1>1. /\ new \in Client /\ clients[new].at = "none"
      /\ client' = [clients EXCEPT ![new] = [at |-> "making", list |-> 0]]
      /\ entry'.state = "connecting" /\ entry'.timer = None
      /\ entry'.connection = e.connection /\ entry'.failed = e.failed
      /\ entry'.exhausted = e.exhausted /\ timers' = pending /\ entry' \in EntryType
  BY AttemptMakes
<1>2. ~overlapped' => ~overlapped /\ e.connection = None /\ pending = {} /\ Attempting = {}
  BY AttemptMakes
<1> HIDE DEF new
<1>3. \A k \in Client : client'[k].at = IF k = new THEN "making" ELSE clients[k].at
  BY <1>1 DEF ClientType
<1>4. ASSUME transport = "stdio" PROVE ~overlapped'
  <2>1. ~overlapped /\ Fits
    BY <1>4 DEF OneInv, Alone
  <2>2. Attempting = {} /\ e.connection = None /\ pending = {}
    BY <1>4, <2>1 DEF Fits
  <2> QED
    BY <2>1, <2>2 DEF Attempt
<1>5. ASSUME ~overlapped' PROVE Alone'
  <2>1. ~overlapped /\ e.connection = None /\ pending = {} /\ Attempting = {}
    BY <1>2, <1>5
  <2>2. Attempting' = {new}
    BY <1>1, <1>3, <2>1 DEF Attempting
  <2>3. Opened' = {}
    BY <1>1, <1>3, <2>1, PoolAssumption DEF Opened
  <2>4. entry'.exhausted => Exhausts(entry'.failed)
    BY <1>1, <2>1
  <2> QED
    BY <1>1, <2>1, <2>2, <2>3, <2>4 DEF Alone, Fits
<1> QED
  BY <1>4, <1>5 DEF OneInv

(* A failure of what the entry was doing. *)
LEMMA OneFailed ==
    ASSUME TypeInv, OneInv, NEW e \in EntryType, NEW k \in Client, Failed(e, k), ~closed,
           closed' = closed, overlapped' = overlapped, transport' = transport, timers = {},
           e.connection = None, e.exhausted => Exhausts(e.failed), ~overlapped,
           Attempting' = {}, Opened' = {}
    PROVE  OneInv'
<1>1. /\ entry' \in EntryType /\ entry'.state = "failed" /\ entry'.connection = None
      /\ \/ /\ Exhausts(entry'.failed) /\ entry'.exhausted /\ timers' = timers
         \/ /\ ~Exhausts(entry'.failed) /\ entry'.exhausted = e.exhausted
            /\ timers' = timers \cup {k} /\ entry'.timer = k
      /\ entry'.failed = IF Exhausts(e.failed) THEN e.failed ELSE e.failed + 1
  BY FailedMakes
<1>2. CASE Exhausts(entry'.failed) /\ entry'.exhausted /\ timers' = timers
  BY <1>1, <1>2 DEF OneInv, Alone, Fits
<1>3. CASE ~Exhausts(entry'.failed) /\ entry'.exhausted = e.exhausted
           /\ timers' = timers \cup {k} /\ entry'.timer = k
  <2>1. ~e.exhausted
    BY <1>1, <1>3
  <2> QED
    BY <1>1, <1>3, <2>1 DEF OneInv, Alone, Fits
<1> QED
  BY <1>1, <1>2, <1>3

LEMMA OneStep == TypeInv /\ OneInv /\ [Next]_vars => OneInv'
<1> SUFFICES ASSUME TypeInv, OneInv, [Next]_vars PROVE OneInv'
  OBVIOUS
<1>1. entry \in EntryType /\ client \in [Client -> ClientType] /\ timers \subseteq Client
      /\ closed \in BOOLEAN /\ entry.connection \in Client \cup {None}
      /\ \A k \in Client : client[k].at \in {"none", "making", "listed", "open"}
  BY DEF TypeInv, EntryType, ClientType
<1>2. ASSUME NEW k \in Client, List(k) PROVE OneInv'
  <2>1. /\ client' = [client EXCEPT ![k] = [at |-> "listed", list |-> version]]
        /\ client[k].at = "making"
        /\ UNCHANGED <<transport, closed, entry, timers, overlapped>>
    BY <1>2 DEF List, historyVars
  <2>2. Attempting' = Attempting /\ Opened' = Opened
    BY <1>1, <2>1 DEF Attempting, Opened
  <2> QED
    BY <2>1, <2>2, OneFrame
<1>3. ASSUME NEW k \in Client, Attach(k) PROVE OneInv'
  <2>1. /\ client' = [client EXCEPT ![k] = [at |-> "open", list |-> 0]] /\ ~closed
        /\ client[k].at = "listed"
        /\ entry'.state = "connected" /\ entry'.connection = k /\ entry'.exhausted = FALSE
        /\ entry'.timer = entry.timer
        /\ UNCHANGED <<transport, closed, timers, overlapped>>
    BY <1>1, <1>3 DEF Attach, EntryType, historyVars
  <2>2. ASSUME ~overlapped PROVE Alone'
    <3>1. k \in Attempting
      BY <2>1 DEF Attempting
    <3>2. Attempting = {k} /\ entry.state = "connecting" /\ entry.connection = None /\ timers = {}
      BY <2>1, <2>2, <3>1 DEF OneInv, Alone, Fits
    <3>3. Attempting' = {} /\ Opened' \subseteq {k}
      BY <1>1, <2>1, <2>2, <3>2, PoolAssumption DEF Attempting, Opened, OneInv, Alone
    <3>4. k # None
      BY PoolAssumption
    <3> QED
      BY <2>1, <3>2, <3>3, <3>4 DEF Alone, Fits
  <2> QED
    BY <2>1, <2>2 DEF OneInv
<1>4. ASSUME NEW k \in Client, AttachLate(k) PROVE OneInv'
  <2>1. client' = [client EXCEPT ![k] = NoClient] /\ closed
        /\ UNCHANGED <<transport, closed, entry, timers, overlapped>>
    BY <1>4 DEF AttachLate, historyVars
  <2>2. Attempting' \subseteq Attempting /\ Opened' \subseteq Opened
    BY <1>1, <2>1, NoType DEF Attempting, Opened
  <2> QED
    BY <2>1, <2>2 DEF OneInv, Alone
<1>5. ASSUME NEW k \in Client, FailAttempt(k) PROVE OneInv'
  <2>1. /\ client' = [client EXCEPT ![k] = NoClient] /\ k \in Attempting
        /\ UNCHANGED <<transport, closed, overlapped>>
    BY <1>5 DEF FailAttempt
  <2>2. Attempting' = Attempting \ {k} /\ Opened' = Opened
    BY <1>1, <2>1, NoType DEF Attempting, Opened
  <2>3. CASE closed /\ UNCHANGED <<entry, timers, failures>>
    BY <2>1, <2>2, <2>3 DEF OneInv, Alone
  <2>4. CASE overlapped
    BY <2>1, <2>4 DEF OneInv
  <2>5. CASE ~closed /\ ~overlapped
    <3>1. /\ Attempting = {k} /\ entry.state = "connecting" /\ entry.connection = None
          /\ timers = {}
          /\ entry.exhausted => Exhausts(entry.failed)
      BY <2>1, <2>5 DEF OneInv, Alone, Fits
    <3>2. Attempting' = {} /\ Opened' = {}
      BY <2>2, <2>5, <3>1, PoolAssumption DEF OneInv, Alone, Opened
    <3>3. CASE Failed(entry, k)
      BY <1>1, <2>1, <2>5, <3>1, <3>2, <3>3, OneFailed
    <3>4. CASE NeedsAuth(entry)
      <4>1. /\ timers' = {} /\ entry'.state = "needs_auth" /\ entry'.connection = None
            /\ entry'.failed = entry.failed /\ entry'.exhausted = entry.exhausted
        BY <1>1, <3>1, <3>4, NeedsAuthMakes
      <4> QED
        BY <2>1, <2>5, <3>1, <3>2, <4>1 DEF OneInv, Alone, Fits
    <3> QED
      BY <1>5, <2>5, <3>3, <3>4 DEF FailAttempt
  <2> QED
    BY <1>5, <2>3, <2>4, <2>5 DEF FailAttempt
<1>6. ASSUME NEW t \in Client, Fire(t) PROVE OneInv'
  <2>1. t \in timers /\ Attempt(entry, client, timers \ {t}, Call)
        /\ UNCHANGED <<transport, closed>>
    BY <1>6 DEF Fire
  <2>2. CASE closed
    <3>1. overlapped /\ transport # "stdio"
      BY <2>1, <2>2 DEF OneInv, Alone
    <3>2. overlapped'
      BY <2>1, <3>1 DEF Attempt
    <3> QED
      BY <2>1, <3>1, <3>2 DEF OneInv
  <2>3. CASE ~closed
    <3>1. entry.exhausted => Exhausts(entry.failed) \/ overlapped
      BY DEF OneInv, Alone
    <3>2. \A k \in Client : client[k].at = "open" => k = entry.connection \/ overlapped
      BY DEF OneInv, Alone, Opened
    <3>3. transport = "stdio" => /\ entry.connection = None /\ timers \ {t} = {}
                                 /\ entry.state # "connecting"
      BY <2>1, <2>3 DEF OneInv, Alone, Fits
    <3>4. timers \ {t} \in SUBSET Client
      BY <1>1
    <3> QED
      BY <1>1, <2>1, <2>3, <3>1, <3>2, <3>3, <3>4, OneAttempt
  <2> QED
    BY <2>2, <2>3
<1>7. CASE RetryFailed
  <2> DEFINE e == [entry EXCEPT !.failed = 0, !.exhausted = FALSE]
  <2>1. e \in EntryType /\ e.connection = entry.connection /\ e.exhausted = FALSE
    BY <1>1 DEF EntryType
  <2>2. /\ ~closed /\ entry.state \in {"failed", "needs_auth"}
        /\ Attempt(e, client, timers \ {entry.timer}, Call)
        /\ UNCHANGED <<transport, closed>>
    BY <1>7 DEF RetryFailed
  <2> HIDE DEF e
  <2>3. \A k \in Client : client[k].at = "open" => k = e.connection \/ overlapped
    BY <2>1 DEF OneInv, Alone, Opened
  <2>4. transport = "stdio" => /\ e.connection = None /\ timers \ {entry.timer} = {}
                               /\ entry.state # "connecting"
    BY <2>1, <2>2 DEF OneInv, Alone, Fits
  <2>5. timers \ {entry.timer} \in SUBSET Client
    BY <1>1
  <2> QED
    BY <1>1, <2>1, <2>2, <2>3, <2>4, <2>5, OneAttempt
<1>8. CASE Settle
  BY <1>1, <1>8, OneFrame DEF Settle, EntryType, Attempting, Opened
<1>9. ASSUME NEW k \in Client, Disconnect(k) PROVE OneInv'
  <2>1. /\ transport = "stdio" /\ entry.connection = k /\ ~closed /\ k # None
        /\ client' = [client EXCEPT ![k] = NoClient] /\ Failed(FailedBefore(entry), k)
        /\ UNCHANGED <<transport, closed, overlapped>>
    BY <1>9, PoolAssumption DEF Disconnect
  <2>2. /\ ~overlapped /\ Attempting = {} /\ timers = {} /\ Opened \subseteq {k}
        /\ entry.exhausted = FALSE
    BY <1>1, <2>1 DEF OneInv, Alone, Fits, EntryType
  <2>3. Attempting' = {} /\ Opened' = {}
    BY <1>1, <2>1, <2>2, NoType DEF Attempting, Opened
  <2>4. /\ FailedBefore(entry) \in EntryType /\ FailedBefore(entry).connection = None
        /\ FailedBefore(entry).exhausted = FALSE
    <3> DEFINE e == [entry EXCEPT !.failed = IF entry.stable THEN entry.failed ELSE entry.before]
    <3>1. e \in EntryType /\ e.connection = entry.connection /\ e.exhausted = FALSE
      BY <1>1, <2>2 DEF EntryType
    <3> HIDE DEF e
    <3>2. FailedBefore(entry) = Without(e, entry.connection)
      BY DEF FailedBefore, e
    <3> QED
      BY <3>1, <3>2, WithoutType
  <2> QED
    BY <2>1, <2>2, <2>3, <2>4, OneFailed
<1>10. ASSUME NEW k \in Client, Forget(k) PROVE OneInv'
  <2>1. client' = [client EXCEPT ![k] = NoClient] /\ client[k].at = "open"
        /\ UNCHANGED <<transport, closed, entry, timers, overlapped>>
    BY <1>10 DEF Forget, historyVars
  <2>2. Attempting' = Attempting /\ Opened' \subseteq Opened
    BY <1>1, <2>1, NoType DEF Attempting, Opened
  <2> QED
    BY <2>1, <2>2 DEF OneInv, Alone, Fits
<1>11. CASE UNCHANGED <<transport, closed, entry, client, timers, overlapped>>
  BY <1>11, OneFrame DEF Attempting, Opened
<1>12. CASE ChangeTools \/ StartSession \/ SessionStarted \/ UNCHANGED vars
  BY <1>11, <1>12 DEF ChangeTools, StartSession, SessionStarted, vars, historyVars
<1>13. ASSUME NEW l \in listings, AskTools(l) \/ AnswerTools(l) \/ FailTools(l) PROVE OneInv'
  BY <1>11, <1>13 DEF AskTools, AnswerTools, FailTools, historyVars
<1>14. ASSUME NEW l \in listings, TakeTools(l) PROVE OneInv'
  <2>1. UNCHANGED <<transport, closed, client, timers, overlapped>>
        /\ (entry' = entry \/ entry' = [entry EXCEPT !.tools = l.got])
    BY <1>14 DEF TakeTools
  <2> QED
    BY <1>1, <2>1, OneFrame DEF EntryType, Attempting, Opened
<1>15. ASSUME NEW c \in Call, Send(c) \/ Answer(c) \/ Reject(c) \/ GiveUpCall(c) \/ Resume(c)
       PROVE  OneInv'
  BY <1>11, <1>15 DEF Send, Answer, Reject, GiveUpCall, Resume, historyVars
<1>16. ASSUME NEW c \in Call, RejectedAuth(c) PROVE OneInv'
  <2> DEFINE k == call[c].on
  <2>1. k \in Client /\ transport # "stdio" /\ k # None
    BY <1>16, PoolAssumption DEF RejectedAuth, TypeInv
  <2>2. /\ client' = [client EXCEPT ![k] = NoClient] /\ NeedsAuth(Without(entry, k))
        /\ UNCHANGED <<transport, closed>>
        /\ (~overlapped' => ~overlapped /\ entry.connection = k)
    BY <1>16 DEF RejectedAuth
  <2> HIDE DEF k
  <2>3. ASSUME ~overlapped' PROVE Alone'
    <3>1. ~overlapped /\ entry.connection = k /\ ~closed
      BY <2>1, <2>2, <2>3 DEF TypeInv
    <3>2. Attempting = {} /\ timers = {} /\ Opened \subseteq {k} /\ ~entry.exhausted
      BY <2>1, <3>1 DEF OneInv, Alone, Fits
    <3>3. /\ timers' = {} /\ entry'.state = "needs_auth" /\ entry'.connection = None
          /\ entry'.exhausted = entry.exhausted
      BY <1>1, <2>2, <3>1, <3>2, WithoutType, NeedsAuthMakes
    <3>4. Attempting' = {} /\ Opened' = {}
      BY <1>1, <2>1, <2>2, <3>2, NoType DEF Attempting, Opened
    <3> QED
      BY <2>2, <3>1, <3>2, <3>3, <3>4 DEF Alone, Fits
  <2> QED
    BY <2>1, <2>2, <2>3 DEF OneInv
<1>17. ASSUME NEW c \in Call, RejectedSession(c) PROVE OneInv'
  <2> DEFINE k == call[c].on
             shut == [client EXCEPT ![k] = NoClient]
  <2>1. k \in Client /\ transport # "stdio" /\ k # None
    BY <1>17, PoolAssumption DEF RejectedSession, TypeInv
  <2>2. /\ UNCHANGED <<transport, closed>>
        /\ \/ closed /\ client' = shut /\ UNCHANGED <<entry, timers, overlapped>>
           \/ ~closed /\ Attempt(Without(entry, k), shut, timers, Call \ {c})
    BY <1>17 DEF RejectedSession
  <2>3. shut \in [Client -> ClientType] /\ \A j \in Client : shut[j] = IF j = k THEN NoClient ELSE client[j]
    BY <1>1, NoType
  <2> HIDE DEF k, shut
  <2>4. CASE closed /\ client' = shut /\ UNCHANGED <<entry, timers, overlapped>>
    <3>1. Attempting' \subseteq Attempting /\ Opened' \subseteq Opened
      BY <2>3, <2>4, NoType DEF Attempting, Opened
    <3> QED
      BY <2>2, <2>4, <3>1 DEF OneInv, Alone
  <2>5. CASE ~closed /\ Attempt(Without(entry, k), shut, timers, Call \ {c})
    <3> DEFINE e == Without(entry, k)
    <3>1. /\ e \in EntryType /\ e.failed = entry.failed /\ e.exhausted = entry.exhausted
          /\ e.connection = IF entry.connection = k THEN None ELSE entry.connection
      BY <1>1, WithoutType
    <3> HIDE DEF e
    <3>2. e.exhausted => Exhausts(e.failed) \/ overlapped
      BY <3>1 DEF OneInv, Alone
    <3>3. \A j \in Client : shut[j].at = "open" => j = e.connection \/ overlapped
      BY <2>3, <3>1, NoType DEF OneInv, Alone, Opened
    <3>4. \A j \in Client : shut[j] = client[j] \/ shut[j].at = "none"
      BY <2>3, NoType
    <3>5. Attempt(e, shut, timers, Call \ {c}) /\ timers \in SUBSET Client
      BY <1>1, <2>5 DEF e
    <3> QED
      BY <2>1, <2>2, <2>3, <2>5, <3>1, <3>2, <3>3, <3>4, <3>5, OneAttempt
  <2> QED
    BY <2>2, <2>4, <2>5
<1>18. CASE Close
  <2>1. /\ entry' = [entry EXCEPT !.connection = None]
        /\ timers' = timers \ {entry.timer} /\ closed' = TRUE
        /\ client' = [k \in Client |-> IF k = entry.connection THEN NoClient ELSE client[k]]
        /\ UNCHANGED <<transport, overlapped>>
    BY <1>18 DEF Close, historyVars
  <2>2. ASSUME ~overlapped PROVE Alone'
    <3>1. timers' = {}
      BY <2>1, <2>2 DEF OneInv, Alone
    <3>2. Attempting' \subseteq Attempting /\ Opened' = {}
      BY <1>1, <2>1, <2>2, NoType DEF Attempting, Opened, OneInv, Alone
    <3>3. entry'.exhausted = entry.exhausted /\ entry'.failed = entry.failed
      BY <1>1, <2>1 DEF EntryType
    <3> QED
      BY <2>1, <2>2, <3>1, <3>2, <3>3 DEF OneInv, Alone
  <2> QED
    BY <2>1, <2>2 DEF OneInv
<1>19. ASSUME NEW t, Fire(t) PROVE t \in Client
  BY <1>1, <1>19 DEF Fire
<1> QED
  BY <1>2, <1>3, <1>4, <1>5, <1>6, <1>7, <1>8, <1>9, <1>10, <1>12, <1>13, <1>14, <1>15, <1>16,
     <1>17, <1>18 DEF Next, AttemptStep, CallStep

LEMMA OneInvAlways == Spec => [](TypeInv /\ OneInv)
<1>1. Init => TypeInv /\ OneInv
  BY TypeInit, OneInit
<1>2. TypeInv /\ OneInv /\ [Next]_vars => (TypeInv /\ OneInv)'
  BY TypeStep, OneStep
<1> QED
  BY <1>1, <1>2, PTL DEF Spec

(* Until attempts overlap, every client that is open is the entry's connection. *)
LEMMA NoneLeftAlways == Spec => []NoneLeft
<1>1. OneInv => NoneLeft
  BY DEF OneInv, Alone, Opened, NoneLeft
<1> QED
  BY <1>1, OneInvAlways, PTL

(* An upstream over stdio never has two attempts, a retry timer beside an
   attempt, or a connection beside either; one over HTTP has not until an
   attempt begins beside another; its state says which it has, and no other
   client is left open. *)
THEOREM OneAtATimeAlways == Spec => []OneAtATime
<1>1. TypeInv /\ OneInv /\ NoneLeft => OneAtATime
  <2> SUFFICES ASSUME TypeInv, OneInv, NoneLeft, ~overlapped, ~closed
               PROVE  Cardinality(Attempting) <= 1 /\ Fits /\ timers \subseteq {entry.timer}
    BY DEF OneInv, OneAtATime, Fits
  <2>1. CASE Attempting = {}
    BY <2>1, FS_EmptySet DEF OneInv, Alone
  <2>2. CASE Attempting # {}
    <3>1. PICK k \in Attempting : TRUE
      BY <2>2
    <3>2. Attempting = {k}
      BY <3>1 DEF OneInv, Alone
    <3>3. Cardinality({k}) = 1
      BY FS_Singleton
    <3> QED
      BY <3>2, <3>3 DEF OneInv, Alone
  <2> QED
    BY <2>1, <2>2
<1> QED
  BY <1>1, OneInvAlways, NoneLeftAlways, PTL

-----------------------------------------------------------------------------
(* What the session has of the connected upstream. *)

ObservedInv ==
    entry.connection # None =>
        /\ session \in {"none", "starting", "open"}
        /\ session = "none" => reported = 0 /\ ~twice
        /\ session = "starting" => reported = IF twice THEN 1 ELSE 0
        /\ session = "open" => reported = IF twice THEN 2 ELSE 1

SessionInv == session \in {"none", "starting", "open"}

LEMMA ObserveTells ==
    ASSUME SessionInv, Observe
    PROVE  SessionInv' /\ ObservedInv'
<1>1. CASE session = "starting"
  BY <1>1 DEF SessionInv, Observe, ObservedInv
<1>2. CASE session # "starting"
  BY <1>2 DEF SessionInv, Observe, ObservedInv
<1> QED
  BY <1>1, <1>2

(* The actions that observe nothing make no connection, and leave what the
   session has alone. *)
LEMMA Unobserved ==
    ASSUME TypeInv, Next,
           ~\E k \in Client : Attach(k), ~\E l \in listings : TakeTools(l),
           ~StartSession, ~SessionStarted
    PROVE  UNCHANGED sessionVars /\ entry'.connection \in {entry.connection, None}
<1>1. entry \in EntryType /\ client \in [Client -> ClientType]
  BY DEF TypeInv
<1>2. ASSUME NEW k \in Client, List(k) \/ AttachLate(k) \/ Forget(k)
      PROVE  UNCHANGED sessionVars /\ entry'.connection \in {entry.connection, None}
  BY <1>2 DEF List, AttachLate, Forget
<1>3. ASSUME NEW k \in Client, FailAttempt(k)
      PROVE  UNCHANGED sessionVars /\ entry'.connection \in {entry.connection, None}
  BY <1>1, <1>3, FailedMakes, NeedsAuthMakes DEF FailAttempt
<1>4. ASSUME NEW k \in Client, Fire(k)
      PROVE  UNCHANGED sessionVars /\ entry'.connection \in {entry.connection, None}
  BY <1>1, <1>4, AttemptMakes DEF Fire
<1>5. ASSUME NEW k \in Client, Disconnect(k)
      PROVE  UNCHANGED sessionVars /\ entry'.connection \in {entry.connection, None}
  <2>1. FailedBefore(entry) \in EntryType /\ FailedBefore(entry).connection = None
    <3> DEFINE e == [entry EXCEPT !.failed = IF entry.stable THEN entry.failed ELSE entry.before]
    <3>1. e \in EntryType /\ e.connection = entry.connection
      BY <1>1 DEF EntryType
    <3> HIDE DEF e
    <3>2. FailedBefore(entry) = Without(e, entry.connection)
      BY DEF FailedBefore, e
    <3> QED
      BY <3>1, <3>2, WithoutType
  <2> QED
    BY <1>5, <2>1, FailedMakes DEF Disconnect
<1>6. CASE RetryFailed
  <2> DEFINE e == [entry EXCEPT !.failed = 0, !.exhausted = FALSE]
  <2>1. e \in EntryType /\ e.connection = entry.connection
    BY <1>1 DEF EntryType
  <2>2. UNCHANGED sessionVars /\ Attempt(e, client, timers \ {entry.timer}, Call)
    BY <1>6 DEF RetryFailed
  <2> HIDE DEF e
  <2> QED
    BY <1>1, <2>1, <2>2, AttemptMakes
<1>7. CASE Settle \/ Close
  BY <1>1, <1>7 DEF Settle, Close, EntryType
<1>8. CASE ChangeTools
  BY <1>8 DEF ChangeTools
<1>9. ASSUME NEW l \in listings, AskTools(l) \/ AnswerTools(l) \/ FailTools(l)
      PROVE  UNCHANGED sessionVars /\ entry'.connection \in {entry.connection, None}
  BY <1>9 DEF AskTools, AnswerTools, FailTools
<1>10. ASSUME NEW c \in Call, Send(c) \/ Answer(c) \/ Reject(c) \/ GiveUpCall(c) \/ Resume(c)
       PROVE  UNCHANGED sessionVars /\ entry'.connection \in {entry.connection, None}
  BY <1>10 DEF Send, Answer, Reject, GiveUpCall, Resume
<1>11. ASSUME NEW c \in Call, RejectedAuth(c)
       PROVE  UNCHANGED sessionVars /\ entry'.connection \in {entry.connection, None}
  BY <1>1, <1>11, WithoutType, NeedsAuthMakes DEF RejectedAuth
<1>12. ASSUME NEW c \in Call, RejectedSession(c)
       PROVE  UNCHANGED sessionVars /\ entry'.connection \in {entry.connection, None}
  <2> DEFINE k == call[c].on
             shut == [client EXCEPT ![k] = NoClient]
  <2>1. /\ UNCHANGED sessionVars
        /\ \/ UNCHANGED entry
           \/ Attempt(Without(entry, k), shut, timers, Call \ {c})
    BY <1>12 DEF RejectedSession
  <2>2. shut \in [Client -> ClientType]
    BY <1>1, NoType
  <2> HIDE DEF shut, k
  <2> QED
    BY <1>1, <2>1, <2>2, WithoutType, AttemptMakes
<1> QED
  BY <1>2, <1>3, <1>4, <1>5, <1>6, <1>7, <1>8, <1>9, <1>10, <1>11, <1>12
     DEF Next, AttemptStep, CallStep

LEMMA ObservedStep ==
    TypeInv /\ SessionInv /\ ObservedInv /\ [Next]_vars => (SessionInv /\ ObservedInv)'
<1> SUFFICES ASSUME TypeInv, SessionInv, ObservedInv, [Next]_vars
             PROVE  (SessionInv /\ ObservedInv)'
  OBVIOUS
<1>1. ASSUME UNCHANGED sessionVars, entry'.connection \in {entry.connection, None}
      PROVE  (SessionInv /\ ObservedInv)'
  BY <1>1 DEF SessionInv, ObservedInv, sessionVars
<1>2. CASE \E k \in Client : Attach(k)
  BY <1>2, ObserveTells DEF Attach
<1>3. ASSUME NEW l \in listings, TakeTools(l) PROVE (SessionInv /\ ObservedInv)'
  <2>1. CASE Observe
    BY <2>1, ObserveTells
  <2>2. CASE UNCHANGED <<entry, unlisted, sessionVars>>
    BY <1>1, <2>2
  <2> QED
    BY <1>3, <2>1, <2>2 DEF TakeTools
<1>4. CASE StartSession
  BY <1>4 DEF StartSession, SessionInv, ObservedInv
<1>5. CASE SessionStarted
  BY <1>5 DEF SessionStarted, SessionInv, ObservedInv
<1>6. CASE UNCHANGED vars
  BY <1>1, <1>6 DEF vars
<1> QED
  BY <1>1, <1>2, <1>3, <1>4, <1>5, <1>6, Unobserved

(* Once the session is open, what the connected upstream looks like is in it:
   once, or twice if it was observed while session.started was being written. *)
THEOREM ObservationKeptAlways == Spec => []ObservationKept
<1>1. Init => SessionInv /\ ObservedInv
  <2> SUFFICES ASSUME Init PROVE SessionInv /\ ObservedInv
    OBVIOUS
  <2>1. session \in {"none", "open"} /\ entry.connection = None
    BY PoolAssumption DEF Init, NewEntry
  <2> QED
    BY <2>1 DEF SessionInv, ObservedInv
<1>2. ObservedInv => ObservationKept
  BY DEF ObservedInv, ObservationKept
<1> QED
  BY <1>1, <1>2, TypeAlways, ObservedStep, PTL DEF Spec
-----------------------------------------------------------------------------
(* The tools that are offered. *)

(* An announcement is on its way to k, or a listing that has not gone by. *)
Told(k) == \E l \in listings : l.on = k /\ (l.got = 0 \/ l.got = version)

ToolsInv ==
    /\ \A l \in listings : l.got <= version /\ (~l.asked => l.got = 0)
    /\ ~unlisted =>
         /\ \A k \in Client : client[k].at = "listed" =>
              \/ client[k].list = version
              \/ \E l \in listings : l.on = k /\ ~l.asked
         /\ entry.connection # None => entry.tools = version \/ Told(entry.connection)

(* Closing clients takes the listings of theirs only, and what is not closed
   is as it was. *)
LEMMA ToolsKept ==
    ASSUME TypeInv, ToolsInv, UNCHANGED <<version, unlisted>>, listings' \subseteq listings,
           \A l \in listings : l \in listings' \/ l.on # entry'.connection,
           \A l \in listings : l \in listings' \/ client'[l.on].at # "listed",
           \A k \in Client : client'[k].at = "listed" => client'[k] = client[k],
           entry'.connection # None =>
               entry'.connection = entry.connection /\ entry'.tools = entry.tools
    PROVE  ToolsInv'
<1>1. \A l \in listings' : l.got <= version' /\ (~l.asked => l.got = 0)
  BY DEF ToolsInv
<1>2. ASSUME ~unlisted', NEW k \in Client, client'[k].at = "listed",
             client'[k].list # version'
      PROVE  \E l \in listings' : l.on = k /\ ~l.asked
  <2>1. client'[k] = client[k]
    BY <1>2
  <2>2. PICK l \in listings : l.on = k /\ ~l.asked
    BY <1>2, <2>1 DEF ToolsInv
  <2> QED
    BY <1>2, <2>2
<1>3. ASSUME ~unlisted', entry'.connection # None, entry'.tools # version'
      PROVE  \E l \in listings' : l.on = entry'.connection /\ (l.got = 0 \/ l.got = version')
  <2>1. PICK l \in listings : l.on = entry.connection /\ (l.got = 0 \/ l.got = version)
    BY <1>3 DEF ToolsInv, Told
  <2> QED
    BY <1>3, <2>1
<1> QED
  BY <1>1, <1>2, <1>3 DEF ToolsInv, Told

(* One client, or none, is closed. *)
LEMMA ToolsClosed ==
    ASSUME TypeInv, ToolsInv, UNCHANGED <<version, unlisted>>, NEW k,
           listings' = {l \in listings : l.on # k},
           \A j \in Client : client'[j].at = "listed" => client'[j] = client[j] /\ j # k,
           entry'.connection # None =>
               /\ entry'.connection = entry.connection /\ entry'.tools = entry.tools
               /\ entry'.connection # k
    PROVE  ToolsInv'
<1>1. \A l \in listings : l \in listings' \/ (l.on = k /\ l.on \in Client)
  BY DEF TypeInv, ListingType
<1>2. \A l \in listings : l \in listings' \/ l.on # entry'.connection
  BY <1>1, PoolAssumption
<1> QED
  BY <1>1, <1>2, ToolsKept

LEMMA ToolsStep == TypeInv /\ ToolsInv /\ [Next]_vars => ToolsInv'
<1> SUFFICES ASSUME TypeInv, ToolsInv, [Next]_vars PROVE ToolsInv'
  OBVIOUS
<1>1. /\ entry \in EntryType /\ client \in [Client -> ClientType] /\ timers \subseteq Client
      /\ entry.connection \in Client \cup {None} /\ version \in Nat
      /\ entry.connection # None => client[entry.connection].at = "open"
      /\ \A l \in listings : /\ l.on \in Client /\ l.got \in Nat /\ l.asked \in BOOLEAN
                             /\ l \in ListingType
  BY DEF TypeInv, EntryType, ListingType
<1>2. ASSUME NEW k \in Client, List(k) PROVE ToolsInv'
  <2>1. /\ client' = [client EXCEPT ![k] = [at |-> "listed", list |-> version]]
        /\ UNCHANGED <<entry, version, listings, unlisted>>
    BY <1>2 DEF List, historyVars
  <2>2. \A j \in Client : client'[j].list = version \/ client'[j] = client[j]
    BY <1>1, <2>1
  <2> QED
    BY <2>1, <2>2 DEF ToolsInv, Told
<1>3. ASSUME NEW k \in Client, Attach(k) PROVE ToolsInv'
  <2>1. /\ client' = [client EXCEPT ![k] = [at |-> "open", list |-> 0]]
        /\ client[k].at = "listed"
        /\ entry'.connection = k /\ entry'.tools = client[k].list
        /\ UNCHANGED <<version, listings, unlisted>>
    BY <1>1, <1>3 DEF Attach, EntryType, historyVars
  <2>2. \A j \in Client : client'[j].at = "listed" => client'[j] = client[j]
    BY <1>1, <2>1
  <2>3. ~unlisted => client[k].list = version \/ Told(k)
    BY <2>1 DEF ToolsInv, Told
  <2>4. Told(k)' = Told(k)
    BY <2>1 DEF Told
  <2> QED
    BY <2>1, <2>2, <2>3, <2>4 DEF ToolsInv
<1>4. ASSUME NEW k \in Client, client' = [client EXCEPT ![k] = NoClient], Closing({k}),
             UNCHANGED <<version, unlisted>>,
             entry'.connection # None =>
                 /\ entry'.connection = entry.connection /\ entry'.tools = entry.tools
                 /\ entry'.connection # k
      PROVE  ToolsInv'
  <2>1. listings' = {l \in listings : l.on # k}
    BY <1>4 DEF Closing
  <2>2. \A j \in Client : client'[j].at = "listed" => client'[j] = client[j] /\ j # k
    BY <1>1, <1>4, NoType
  <2> QED
    BY <1>4, <2>1, <2>2, ToolsClosed
<1>5. ASSUME NEW k \in Client, AttachLate(k) \/ Forget(k) PROVE ToolsInv'
  <2>1. /\ client' = [client EXCEPT ![k] = NoClient] /\ Closing({k})
        /\ UNCHANGED <<entry, version, unlisted>>
        /\ entry.connection # k
    BY <1>1, <1>5, PoolAssumption DEF AttachLate, Forget, historyVars
  <2> QED
    BY <1>4, <2>1
<1>6. ASSUME NEW k \in Client, FailAttempt(k) PROVE ToolsInv'
  <2>1. /\ client' = [client EXCEPT ![k] = NoClient] /\ Closing({k})
        /\ UNCHANGED <<version, unlisted>>
        /\ entry.connection # k
    BY <1>1, <1>6, PoolAssumption DEF FailAttempt, Attempting
  <2>2. entry'.connection = entry.connection /\ entry'.tools = entry.tools
    BY <1>1, <1>6, FailedMakes, NeedsAuthMakes DEF FailAttempt
  <2> QED
    BY <1>4, <2>1, <2>2
<1>7. ASSUME NEW k \in Client, Disconnect(k) PROVE ToolsInv'
  <2>1. /\ client' = [client EXCEPT ![k] = NoClient] /\ Closing({k})
        /\ UNCHANGED <<version, unlisted>>
    BY <1>7 DEF Disconnect
  <2>2. entry'.connection = None
    <3>1. FailedBefore(entry) \in EntryType /\ FailedBefore(entry).connection = None
      <4> DEFINE e == [entry EXCEPT !.failed = IF entry.stable THEN entry.failed ELSE entry.before]
      <4>1. e \in EntryType /\ e.connection = entry.connection
        BY <1>1 DEF EntryType
      <4> HIDE DEF e
      <4>2. FailedBefore(entry) = Without(e, entry.connection)
        BY DEF FailedBefore, e
      <4> QED
        BY <4>1, <4>2, WithoutType
    <3> QED
      BY <1>7, <3>1, FailedMakes DEF Disconnect
  <2> QED
    BY <1>4, <2>1, <2>2
<1>8. ASSUME NEW e \in EntryType, NEW pending, NEW others, Attempt(e, client, pending, others),
             e.connection = entry.connection, e.tools = entry.tools,
             UNCHANGED <<version, listings, unlisted>>
      PROVE  ToolsInv'
  <2> DEFINE new == NewClient(client, pending, others)
  <2>1. /\ client' = [client EXCEPT ![new] = [at |-> "making", list |-> 0]]
        /\ entry'.connection = e.connection /\ entry'.tools = e.tools
    BY <1>1, <1>8, AttemptMakes
  <2> HIDE DEF new
  <2>2. \A j \in Client : client'[j].at = "listed" => client'[j] = client[j]
    BY <1>1, <2>1
  <2> QED
    BY <1>8, <2>1, <2>2, ToolsKept
<1>9. ASSUME NEW t, Fire(t) PROVE ToolsInv'
  BY <1>1, <1>8, <1>9 DEF Fire
<1>10. CASE RetryFailed
  <2> DEFINE e == [entry EXCEPT !.failed = 0, !.exhausted = FALSE]
  <2>1. e \in EntryType /\ e.connection = entry.connection /\ e.tools = entry.tools
    BY <1>1 DEF EntryType
  <2>2. /\ Attempt(e, client, timers \ {entry.timer}, Call)
        /\ UNCHANGED <<version, listings, unlisted>>
    BY <1>10 DEF RetryFailed
  <2> HIDE DEF e
  <2> QED
    BY <1>8, <2>1, <2>2
<1>11. ASSUME UNCHANGED <<client, version, listings, unlisted>>,
              entry'.connection = entry.connection, entry'.tools = entry.tools
       PROVE  ToolsInv'
  BY <1>11, ToolsKept
<1>12. CASE Settle
  BY <1>1, <1>11, <1>12 DEF Settle, EntryType
<1>13. CASE ChangeTools
  <2>1. /\ version' = version + 1
        /\ listings' = listings \cup
               {[on |-> k, got |-> 0, asked |-> FALSE] :
                   k \in {j \in Client : client[j].at \in {"listed", "open"}}}
        /\ UNCHANGED <<entry, client, unlisted>>
    BY <1>13 DEF ChangeTools, historyVars
  <2>2. \A k \in Client : client[k].at \in {"listed", "open"} =>
          \E l \in listings' : l.on = k /\ l.got = 0 /\ ~l.asked
    <3> SUFFICES ASSUME NEW k \in Client, client[k].at \in {"listed", "open"}
                 PROVE  \E l \in listings' : l.on = k /\ l.got = 0 /\ ~l.asked
      OBVIOUS
    <3>1. [on |-> k, got |-> 0, asked |-> FALSE] \in listings'
      BY <2>1
    <3> QED
      BY <3>1
  <2>3. \A l \in listings' : l.got <= version' /\ (~l.asked => l.got = 0)
    <3>1. \A l \in listings : l.got <= version /\ (~l.asked => l.got = 0)
      BY DEF ToolsInv
    <3> QED
      BY <1>1, <2>1, <3>1
  <2>4. entry'.connection # None => Told(entry.connection)'
    BY <1>1, <2>1, <2>2 DEF Told
  <2> QED
    BY <2>1, <2>2, <2>3, <2>4 DEF ToolsInv
<1>14. ASSUME NEW l \in listings, AskTools(l) PROVE ToolsInv'
  <2>1. ~l.asked /\ l.got = 0 /\ UNCHANGED <<entry, client, version>>
    BY <1>14 DEF AskTools, ToolsInv
  <2>2. CASE ~closed /\ entry.connection = l.on
    <3> DEFINE new == [l EXCEPT !.asked = TRUE]
    <3>1. new.on = l.on /\ new.got = 0 /\ new.asked
      BY <1>1, <2>1 DEF ListingType
    <3>2. listings' = (listings \ {l}) \cup {new} /\ unlisted' = unlisted
      BY <1>14, <2>2 DEF AskTools
    <3> HIDE DEF new
    <3>3. \A m \in listings' : m.got <= version' /\ (~m.asked => m.got = 0)
      BY <1>1, <2>1, <3>1, <3>2 DEF ToolsInv
    <3>4. ASSUME ~unlisted, entry.tools # version PROVE Told(entry.connection)'
      BY <2>1, <2>2, <3>1, <3>2 DEF Told
    <3>5. ASSUME NEW k \in Client, client[k].at = "listed", NEW m \in listings, m.on = k
          PROVE  m \in listings'
      BY <1>1, <2>2, <3>2, <3>5, PoolAssumption
    <3> QED
      BY <2>1, <3>2, <3>3, <3>4, <3>5 DEF ToolsInv
  <2>3. CASE ~(~closed /\ entry.connection = l.on)
    <3>1. listings' = listings \ {l} /\ unlisted' = TRUE
      BY <1>14, <2>3 DEF AskTools
    <3> QED
      BY <2>1, <3>1 DEF ToolsInv
  <2> QED
    BY <2>2, <2>3
<1>15. ASSUME NEW l \in listings, AnswerTools(l) PROVE ToolsInv'
  <2> DEFINE new == [l EXCEPT !.got = version]
  <2>1. new.on = l.on /\ new.got = version /\ new.asked /\ l.asked
    BY <1>1, <1>15 DEF ListingType, AnswerTools
  <2>2. /\ listings' = (listings \ {l}) \cup {new}
        /\ UNCHANGED <<entry, client, version, unlisted>>
    BY <1>15 DEF AnswerTools, historyVars
  <2> HIDE DEF new
  <2>3. \A m \in listings' : m.got <= version' /\ (~m.asked => m.got = 0)
    BY <1>1, <2>1, <2>2 DEF ToolsInv
  <2>4. ASSUME Told(entry.connection) PROVE Told(entry.connection)'
    BY <2>1, <2>2, <2>4 DEF Told
  <2>5. ASSUME NEW m \in listings, ~m.asked PROVE m \in listings'
    BY <2>1, <2>2, <2>5
  <2> QED
    BY <2>2, <2>3, <2>4, <2>5 DEF ToolsInv
<1>16. ASSUME NEW l \in listings, FailTools(l) PROVE ToolsInv'
  BY <1>16 DEF FailTools, ToolsInv
<1>17. ASSUME NEW l \in listings, TakeTools(l) PROVE ToolsInv'
  <2>1. /\ l.got > 0 /\ listings' = listings \ {l} /\ l.asked
        /\ UNCHANGED <<client, version>>
    BY <1>1, <1>17 DEF TakeTools, ToolsInv
  <2>2. \A m \in listings' : m.got <= version' /\ (~m.asked => m.got = 0)
    BY <2>1 DEF ToolsInv
  <2>3. \A m \in listings : ~m.asked => m \in listings'
    BY <2>1
  <2>4. CASE ~closed /\ entry.connection = l.on
    <3>1. entry' = [entry EXCEPT !.tools = l.got] /\ unlisted' = (unlisted \/ l.got < entry.tools)
      BY <1>17, <2>4 DEF TakeTools
    <3>2. entry'.connection = entry.connection /\ entry'.tools = l.got
      BY <1>1, <3>1 DEF EntryType
    <3>3. ASSUME ~unlisted', l.got # version PROVE Told(entry.connection)'
      <4>1. ~unlisted /\ ~(l.got < entry.tools) /\ l.got <= version
        BY <3>1, <3>3 DEF ToolsInv
      <4>2. entry.tools # version
        BY <1>1, <3>3, <4>1
      <4>3. Told(entry.connection)
        BY <1>1, <2>4, <4>1, <4>2, PoolAssumption DEF ToolsInv
      <4> QED
        BY <1>1, <2>1, <3>2, <3>3, <4>3 DEF Told
    <3>4. ~unlisted' => ~unlisted
      BY <3>1, Zenon
    <3> QED
      BY <2>1, <2>2, <2>3, <3>2, <3>3, <3>4 DEF ToolsInv
  <2>5. CASE ~(~closed /\ entry.connection = l.on)
    <3>1. UNCHANGED <<entry, unlisted>>
      BY <1>17, <2>5 DEF TakeTools
    <3>2. entry.connection # None => l.on # entry.connection
      BY <2>5 DEF TypeInv
    <3> QED
      BY <2>1, <2>2, <2>3, <3>1, <3>2 DEF ToolsInv, Told
  <2> QED
    BY <2>4, <2>5
<1>18. ASSUME NEW c \in Call, Send(c) \/ Answer(c) \/ Reject(c) \/ GiveUpCall(c) \/ Resume(c)
       PROVE  ToolsInv'
  BY <1>11, <1>18 DEF Send, Answer, Reject, GiveUpCall, Resume, historyVars
<1>19. ASSUME NEW c \in Call, RejectedAuth(c) PROVE ToolsInv'
  <2> DEFINE k == call[c].on
  <2>1. /\ client' = [client EXCEPT ![k] = NoClient] /\ NeedsAuth(Without(entry, k))
        /\ listings' = {l \in listings : l.on # k}
        /\ UNCHANGED <<version, unlisted>>
    BY <1>19 DEF RejectedAuth
  <2>2. k \in Client
    BY <1>19 DEF RejectedAuth, TypeInv
  <2> HIDE DEF k
  <2>3. \A j \in Client : client'[j].at = "listed" => client'[j] = client[j] /\ j # k
    BY <1>1, <2>1, NoType
  <2>4. entry'.connection # None =>
           /\ entry'.connection = entry.connection /\ entry'.tools = entry.tools
           /\ entry'.connection # k
    BY <1>1, <2>1, <2>2, WithoutType, NeedsAuthMakes, PoolAssumption
  <2> QED
    BY <2>1, <2>3, <2>4, ToolsClosed
<1>20. ASSUME NEW c \in Call, RejectedSession(c) PROVE ToolsInv'
  <2> DEFINE k == call[c].on
             shut == [client EXCEPT ![k] = NoClient]
  <2>1. /\ listings' = {l \in listings : l.on # k}
        /\ UNCHANGED <<version, unlisted>>
        /\ \/ client' = shut /\ UNCHANGED entry /\ closed
           \/ Attempt(Without(entry, k), shut, timers, Call \ {c})
    BY <1>20 DEF RejectedSession
  <2>2. k \in Client
    BY <1>20 DEF RejectedSession, TypeInv
  <2>3. shut \in [Client -> ClientType]
        /\ \A j \in Client : shut[j] = IF j = k THEN NoClient ELSE client[j]
    BY <1>1, NoType
  <2> HIDE DEF k, shut
  <2>4. CASE client' = shut /\ UNCHANGED entry /\ closed
    <3>1. \A j \in Client : client'[j].at = "listed" => client'[j] = client[j] /\ j # k
      BY <2>3, <2>4, NoType
    <3>2. entry'.connection = None
      BY <2>4 DEF TypeInv
    <3> QED
      BY <2>1, <3>1, <3>2, ToolsClosed
  <2>5. CASE Attempt(Without(entry, k), shut, timers, Call \ {c})
    <3> DEFINE e == Without(entry, k)
               others == Call \ {c}
               new == NewClient(shut, timers, others)
    <3>1. /\ e \in EntryType
          /\ e.connection = IF entry.connection = k THEN None ELSE entry.connection
          /\ entry.connection # k => e.tools = entry.tools
      BY <1>1, WithoutType
    <3>2. Attempt(e, shut, timers, others)
      BY <2>5
    <3> HIDE DEF e, others
    <3>3. /\ client' = [shut EXCEPT ![new] = [at |-> "making", list |-> 0]]
          /\ entry'.connection = e.connection /\ entry'.tools = e.tools
      BY <2>3, <3>1, <3>2, AttemptMakes
    <3> HIDE DEF new
    <3>4. \A j \in Client : client'[j].at = "listed" => client'[j] = shut[j]
      BY <2>3, <3>3
    <3>5. \A j \in Client : client'[j].at = "listed" => client'[j] = client[j] /\ j # k
      BY <2>3, <3>4, NoType
    <3>6. entry'.connection # None =>
             /\ entry'.connection = entry.connection /\ entry'.tools = entry.tools
             /\ entry'.connection # k
      BY <3>1, <3>3
    <3> QED
      BY <2>1, <3>5, <3>6, ToolsClosed
  <2> QED
    BY <2>1, <2>4, <2>5
<1>21. CASE Close
  <2>1. /\ entry'.connection = None
        /\ client' = [k \in Client |-> IF k = entry.connection THEN NoClient ELSE client[k]]
        /\ listings' = {l \in listings : l.on \notin {entry.connection}}
        /\ UNCHANGED <<version, unlisted>>
    BY <1>1, <1>21 DEF Close, Closing, historyVars, EntryType
  <2>2. listings' = {l \in listings : l.on # entry.connection}
    BY <2>1
  <2>3. \A j \in Client : client'[j].at = "listed" => client'[j] = client[j] /\ j # entry.connection
    BY <1>1, <2>1, NoType
  <2> QED
    BY <2>1, <2>2, <2>3, ToolsClosed
<1>22. CASE StartSession \/ SessionStarted \/ UNCHANGED vars
  BY <1>11, <1>22 DEF StartSession, SessionStarted, vars, historyVars
<1> QED
  BY <1>2, <1>3, <1>5, <1>6, <1>7, <1>9, <1>10, <1>12, <1>13, <1>14, <1>15, <1>16, <1>17, <1>18,
     <1>19, <1>20, <1>21, <1>22 DEF Next, AttemptStep, CallStep

(* With nothing more on its way, the tools offered are the tools the server
   has, unless an announcement was lost, a listing failed or one was passed. *)
THEOREM ToolsCurrentAlways == Spec => []ToolsCurrent
<1>1. Init => ToolsInv
  <2> SUFFICES ASSUME Init PROVE ToolsInv
    OBVIOUS
  <2>1. \A k \in Client : client[k].at # "listed"
    BY NoType DEF Init
  <2> QED
    BY <2>1 DEF Init, ToolsInv, NewEntry
<1>2. ToolsInv => ToolsCurrent
  BY DEF ToolsInv, ToolsCurrent, Told
<1> QED
  BY <1>1, <1>2, TypeAlways, ToolsStep, PTL DEF Spec
-----------------------------------------------------------------------------
(* Retries end, for the delay doubles.  The recursion of Delay is well defined:
   for every n there is a function that obeys it up to n (from the least n for
   which there were none, the one before it would give it), and two such
   functions agree. *)
DoublesTo(f, n) ==
    /\ f \in [0..n -> Nat]
    /\ f[0] = InitialDelay
    /\ \A i \in 1..n : f[i] = 2 * f[i - 1]

LEMMA DoublesExists == ASSUME NEW n \in Nat PROVE \E f : DoublesTo(f, n)
<1> DEFINE Bad == {m \in Nat : \A f : ~DoublesTo(f, m)}
<1>1. CASE Bad = {}
  BY <1>1
<1>2. CASE Bad # {}
  <2>1. PICK m \in Bad : \A k \in Bad : m <= k
    BY <1>2, LeastNumber
  <2>2. CASE m = 0
    <3> DEFINE f == [i \in 0..0 |-> InitialDelay]
    <3>1. DoublesTo(f, 0)
      BY PoolAssumption DEF DoublesTo
    <3> QED
      BY <2>1, <2>2, <3>1
  <2>3. CASE m # 0
    <3>1. m - 1 \in Nat /\ m - 1 \notin Bad
      BY <2>1, <2>3
    <3>2. PICK g : DoublesTo(g, m - 1)
      BY <3>1
    <3> DEFINE f == [i \in 0..m |-> IF i = m THEN 2 * g[m - 1] ELSE g[i]]
    <3>3. f \in [0..m -> Nat] /\ f[0] = InitialDelay
      BY <2>3, <3>1, <3>2 DEF DoublesTo
    <3>4. ASSUME NEW i \in 1..m PROVE f[i] = 2 * f[i - 1]
      <4>1. i - 1 \in 0..m /\ i - 1 # m /\ f[i - 1] = g[i - 1]
        BY <2>1
      <4>2. CASE i = m
        BY <4>1, <4>2
      <4>3. CASE i # m
        BY <3>1, <3>2, <4>1, <4>3 DEF DoublesTo
      <4> QED
        BY <4>2, <4>3
    <3>5. DoublesTo(f, m)
      BY <3>3, <3>4 DEF DoublesTo
    <3> QED
      BY <2>1, <3>5
  <2> QED
    BY <2>2, <2>3
<1> QED
  BY <1>1, <1>2

LEMMA DoublesAgree ==
    ASSUME NEW m \in Nat, NEW n \in Nat, NEW f, NEW g, DoublesTo(f, m), DoublesTo(g, n),
           NEW k \in Nat, k <= m, k <= n
    PROVE  f[k] = g[k]
<1> DEFINE Bad == {i \in Nat : i <= m /\ i <= n /\ f[i] # g[i]}
<1>1. CASE Bad = {}
  BY <1>1
<1>2. CASE Bad # {}
  <2>1. PICK i \in Bad : \A j \in Bad : i <= j
    BY <1>2, LeastNumber
  <2>2. i # 0
    BY <2>1 DEF DoublesTo
  <2>3. i - 1 \in Nat /\ i - 1 \notin Bad
    BY <2>1, <2>2
  <2>4. f[i - 1] = g[i - 1]
    BY <2>1, <2>3
  <2>5. f[i] = 2 * f[i - 1] /\ g[i] = 2 * g[i - 1]
    BY <2>1, <2>2 DEF DoublesTo
  <2> QED
    BY <2>1, <2>4, <2>5
<1> QED
  BY <1>1, <1>2

LEMMA DelayIs ==
    /\ Delay \in [Nat -> Nat]
    /\ Delay[0] = InitialDelay
    /\ \A n \in Nat : Delay[n + 1] = 2 * Delay[n]
<1> DEFINE F(n) == CHOOSE f : DoublesTo(f, n)
<1>1. \A n \in Nat : DoublesTo(F(n), n)
  BY DoublesExists
<1> HIDE DEF F
<1> DEFINE D == [n \in Nat |-> F(n)[n]]
<1>2. D \in [Nat -> Nat]
  <2>1. ASSUME NEW n \in Nat PROVE F(n)[n] \in Nat
    <3>1. F(n) \in [0..n -> Nat] /\ n \in 0..n
      BY <1>1 DEF DoublesTo
    <3> QED
      BY <3>1
  <2> QED
    BY <2>1
<1>3. D[0] = InitialDelay
  BY <1>1 DEF DoublesTo
<1>4. ASSUME NEW n \in Nat \ {0} PROVE D[n] = 2 * D[n - 1]
  <2>1. DoublesTo(F(n), n) /\ DoublesTo(F(n - 1), n - 1) /\ n - 1 \in Nat
    BY <1>1
  <2>2. F(n)[n - 1] = F(n - 1)[n - 1]
    BY <2>1, DoublesAgree
  <2>3. F(n)[n] = 2 * F(n)[n - 1]
    <3>1. n \in 1..n /\ \A i \in 1..n : F(n)[i] = 2 * F(n)[i - 1]
      BY <2>1 DEF DoublesTo
    <3> QED
      BY <3>1
  <2> QED
    BY <2>1, <2>2, <2>3
<1> HIDE DEF D
<1>5. D = [n \in Nat |-> IF n = 0 THEN InitialDelay ELSE 2 * D[n - 1]]
  BY <1>2, <1>3, <1>4
<1>6. Delay = [n \in Nat |-> IF n = 0 THEN InitialDelay ELSE 2 * Delay[n - 1]]
  BY <1>5 DEF Delay
<1>7. Delay[0] = InitialDelay /\ \A n \in Nat : n # 0 => Delay[n] = 2 * Delay[n - 1]
  BY <1>6
<1> DEFINE Bad == {i \in Nat : Delay[i] \notin Nat}
<1>8. CASE Bad = {}
  <2>1. \A n \in Nat : Delay[n] \in Nat
    BY <1>8
  <2>2. Delay \in [Nat -> Nat]
    BY <1>6, <2>1
  <2>3. ASSUME NEW n \in Nat PROVE Delay[n + 1] = 2 * Delay[n]
    <3>1. n + 1 \in Nat /\ n + 1 # 0 /\ (n + 1) - 1 = n
      OBVIOUS
    <3> QED
      BY <1>7, <3>1
  <2> QED
    BY <1>7, <2>2, <2>3
<1>9. CASE Bad # {}
  <2>1. PICK i \in Bad : \A j \in Bad : i <= j
    BY <1>9, LeastNumber
  <2>2. i # 0
    BY <1>7, <2>1, PoolAssumption
  <2>3. i - 1 \in Nat /\ i - 1 \notin Bad
    BY <2>1, <2>2
  <2> QED
    BY <1>7, <2>1, <2>2, <2>3
<1> QED
  BY <1>8, <1>9

LEMMA DelayGrows == ASSUME NEW n \in Nat PROVE Delay[n] > n
<1> DEFINE Bad == {m \in Nat : ~(Delay[m] > m)}
<1>1. CASE Bad = {}
  BY <1>1
<1>2. CASE Bad # {}
  <2>1. PICK m \in Bad : \A k \in Bad : m <= k
    BY <1>2, LeastNumber
  <2>2. m # 0
    BY <2>1, DelayIs, PoolAssumption
  <2>3. m - 1 \in Nat /\ m - 1 \notin Bad /\ (m - 1) + 1 = m
    BY <2>1, <2>2
  <2>4. Delay[m - 1] \in Nat /\ Delay[m] = 2 * Delay[m - 1] /\ Delay[m - 1] > m - 1
    BY <2>3, DelayIs
  <2> QED
    BY <2>1, <2>3, <2>4
<1> QED
  BY <1>1, <1>2

(* After some failures the delay does reach the limit; Limit is the first. *)
LEMMA LimitReached == Limit \in Nat /\ Exhausts(Limit)
<1> DEFINE S == {n \in 1..GiveUpDelay + 1 : Exhausts(n)}
<1>1. GiveUpDelay \in Nat
  BY PoolAssumption
<1>2. GiveUpDelay + 1 \in S
  <2>1. Delay[GiveUpDelay] \in Nat /\ Delay[GiveUpDelay] > GiveUpDelay
    BY <1>1, DelayGrows, DelayIs
  <2> QED
    BY <1>1, <2>1 DEF Exhausts
<1>3. PICK n \in S : \A m \in S : n <= m
  <2>1. S \in SUBSET Nat /\ S # {}
    BY <1>1, <1>2
  <2> HIDE DEF S
  <2> QED
    BY <2>1, LeastNumber
<1>4. ASSUME NEW m \in 1..n - 1 PROVE ~Exhausts(m)
  <2>1. m \in 1..GiveUpDelay + 1 /\ m < n
    BY <1>1, <1>3
  <2> QED
    BY <1>3, <2>1
<1>5. \E l \in 1..GiveUpDelay + 1 : Exhausts(l) /\ \A m \in 1..l - 1 : ~Exhausts(m)
  BY <1>3, <1>4
<1>6. Limit \in 1..GiveUpDelay + 1 /\ Exhausts(Limit)
  BY <1>5 DEF Limit
<1> QED
  BY <1>1, <1>6

NotYet(n) == \A m \in 1..n : ~Exhausts(m)

GiveInv ==
    transport = "stdio" =>
      /\ failures <= Limit
      /\ ~closed =>
           /\ entry.state # "needs_auth"
           /\ entry.state = "connecting" \/ (entry.state = "failed" /\ ~entry.exhausted) =>
                NotYet(entry.failed) /\ failures <= entry.failed
           /\ entry.state = "connected" =>
                /\ entry.failed = 0 /\ NotYet(entry.before) /\ failures <= entry.before
                /\ entry.stable => failures = 0

LEMMA NotYetBounded ==
    ASSUME NEW n \in Nat, NotYet(n)
    PROVE  n < Limit /\ ~Exhausts(n) /\ (~Exhausts(n + 1) => NotYet(n + 1))
<1>1. ~Exhausts(0)
  BY DEF Exhausts
<1>2. Limit \in Nat /\ Limit # 0 /\ Exhausts(Limit)
  BY <1>1, LimitReached
<1>3. n < Limit
  BY <1>2 DEF NotYet
<1>4. ~Exhausts(n)
  <2>1. CASE n = 0
    BY <1>1, <2>1
  <2>2. CASE n # 0
    BY <2>2 DEF NotYet
  <2> QED
    BY <2>1, <2>2
<1>5. ASSUME ~Exhausts(n + 1), NEW m \in 1..n + 1 PROVE ~Exhausts(m)
  <2>1. m = n + 1 \/ m \in 1..n
    OBVIOUS
  <2> QED
    BY <1>5, <2>1 DEF NotYet
<1> QED
  BY <1>3, <1>4, <1>5 DEF NotYet

LEMMA GiveFailed ==
    ASSUME TypeInv, GiveInv, NEW e \in EntryType, NEW k \in Client, Failed(e, k),
           transport' = transport,
           transport = "stdio" => NotYet(e.failed) /\ failures <= e.failed
    PROVE  GiveInv'
<1> SUFFICES ASSUME transport = "stdio" PROVE GiveInv'
  BY DEF GiveInv
<1>1. e.failed \in Nat /\ failures \in Nat /\ Limit \in Nat
  BY LimitReached DEF EntryType, TypeInv
<1>2. /\ e.failed < Limit /\ ~Exhausts(e.failed)
      /\ ~Exhausts(e.failed + 1) => NotYet(e.failed + 1)
  BY <1>1, NotYetBounded
<1>3. failures' = IF transport = "http" \/ failures > Limit THEN failures ELSE failures + 1
  BY DEF Failed
<1>4. /\ entry'.state = "failed" /\ entry'.failed = e.failed + 1
      /\ entry'.exhausted \/ ~Exhausts(entry'.failed)
  BY <1>2, FailedMakes
<1>5. failures' <= entry'.failed /\ failures' <= Limit
  BY <1>1, <1>2, <1>3, <1>4
<1> QED
  BY <1>2, <1>4, <1>5 DEF GiveInv

LEMMA GiveStep == TypeInv /\ OneInv /\ GiveInv /\ [Next]_vars => GiveInv'
<1> SUFFICES ASSUME TypeInv, OneInv, GiveInv, [Next]_vars PROVE GiveInv'
  OBVIOUS
<1>1. /\ entry \in EntryType /\ client \in [Client -> ClientType] /\ Limit \in Nat
      /\ entry.connection \in Client \cup {None} /\ failures \in Nat /\ entry.failed \in Nat
  BY LimitReached DEF TypeInv, EntryType
<1>2. ASSUME UNCHANGED <<transport, closed, failures>>, entry'.state = entry.state,
             entry'.failed = entry.failed, entry'.before = entry.before,
             entry'.stable = entry.stable, entry'.exhausted = entry.exhausted
      PROVE  GiveInv'
  BY <1>2 DEF GiveInv
<1>3. ASSUME NEW k \in Client, List(k) \/ AttachLate(k) \/ Forget(k) PROVE GiveInv'
  BY <1>2, <1>3 DEF List, AttachLate, Forget, historyVars
<1>4. ASSUME NEW k \in Client, Attach(k) PROVE GiveInv'
  <2>1. /\ client[k].at = "listed" /\ ~closed
        /\ entry'.state = "connected" /\ entry'.failed = 0 /\ entry'.before = entry.failed
        /\ entry'.stable = FALSE
        /\ UNCHANGED <<transport, failures>>
    BY <1>1, <1>4 DEF Attach, EntryType, historyVars
  <2>2. transport = "stdio" => entry.state = "connecting"
    <3>1. k \in Attempting
      BY <2>1 DEF Attempting
    <3> QED
      BY <2>1, <3>1 DEF OneInv, Alone, Fits
  <2> QED
    BY <2>1, <2>2 DEF GiveInv
<1>5. ASSUME NEW k \in Client, FailAttempt(k) PROVE GiveInv'
  <2>1. k \in Attempting /\ UNCHANGED <<transport, closed>>
    BY <1>5 DEF FailAttempt
  <2>2. CASE closed /\ UNCHANGED <<entry, timers, failures>>
    BY <1>2, <2>1, <2>2
  <2>3. CASE ~closed /\ Failed(entry, k)
    <3>1. transport = "stdio" => entry.state = "connecting"
      BY <2>1, <2>3 DEF OneInv, Alone, Fits
    <3>2. transport = "stdio" => NotYet(entry.failed) /\ failures <= entry.failed
      BY <2>3, <3>1 DEF GiveInv
    <3> QED
      BY <1>1, <2>1, <2>3, <3>2, GiveFailed
  <2>4. CASE transport = "http"
    BY <2>1, <2>4 DEF GiveInv
  <2> QED
    BY <1>5, <2>2, <2>3, <2>4 DEF FailAttempt
<1>6. ASSUME NEW t \in Client, Fire(t) PROVE GiveInv'
  <2>1. /\ t \in timers /\ Attempt(entry, client, timers \ {t}, Call)
        /\ UNCHANGED <<transport, closed, failures>>
    BY <1>6 DEF Fire
  <2>2. entry'.state = "connecting" /\ entry'.failed = entry.failed
    BY <1>1, <2>1, AttemptMakes
  <2>3. transport = "stdio" => ~closed /\ entry.state = "failed" /\ ~entry.exhausted
    BY <2>1 DEF OneInv, Alone, Fits
  <2> QED
    BY <2>1, <2>2, <2>3 DEF GiveInv
<1>7. CASE RetryFailed
  <2> DEFINE e == [entry EXCEPT !.failed = 0, !.exhausted = FALSE]
  <2>1. e \in EntryType /\ e.failed = 0
    BY <1>1 DEF EntryType
  <2>2. /\ Attempt(e, client, timers \ {entry.timer}, Call)
        /\ failures' = 0 /\ UNCHANGED <<transport, closed>>
    BY <1>7 DEF RetryFailed
  <2> HIDE DEF e
  <2>3. entry'.state = "connecting" /\ entry'.failed = 0
    BY <1>1, <2>1, <2>2, AttemptMakes
  <2> QED
    BY <1>1, <2>2, <2>3 DEF GiveInv, NotYet
<1>8. CASE Settle
  <2>1. /\ entry'.state = entry.state /\ entry'.failed = entry.failed
        /\ entry'.before = entry.before /\ entry'.exhausted = entry.exhausted
        /\ failures' = 0 /\ UNCHANGED <<transport, closed>>
    BY <1>1, <1>8 DEF Settle, EntryType
  <2>2. entry.before \in Nat
    BY <1>1, EntryFields
  <2> QED
    BY <1>1, <2>1, <2>2 DEF GiveInv
<1>9. ASSUME NEW k \in Client, Disconnect(k) PROVE GiveInv'
  <2>1. /\ transport = "stdio" /\ entry.connection = k /\ ~closed
        /\ Failed(FailedBefore(entry), k) /\ transport' = transport
    BY <1>9 DEF Disconnect
  <2>2. entry.state = "connected"
    BY <2>1, PoolAssumption DEF OneInv, Alone, Fits
  <2>3. /\ entry.failed = 0 /\ NotYet(entry.before) /\ failures <= entry.before
        /\ (entry.stable => failures = 0) /\ NotYet(0)
    BY <2>1, <2>2 DEF GiveInv, NotYet
  <2>4. /\ FailedBefore(entry) \in EntryType
        /\ FailedBefore(entry).failed = IF entry.stable THEN entry.failed ELSE entry.before
    <3> DEFINE n == IF entry.stable THEN entry.failed ELSE entry.before
               e == [entry EXCEPT !.failed = n]
    <3>1. n \in Nat
      BY <1>1, EntryFields
    <3>2. e \in EntryType /\ e.connection = entry.connection /\ e.failed = n
      BY <1>1, <3>1 DEF EntryType
    <3>3. FailedBefore(entry) = Without(e, entry.connection)
      BY DEF FailedBefore
    <3> HIDE DEF e
    <3> QED
      BY <3>2, <3>3, WithoutType
  <2>5. NotYet(FailedBefore(entry).failed) /\ failures <= FailedBefore(entry).failed
    BY <2>3, <2>4
  <2> QED
    BY <2>1, <2>4, <2>5, GiveFailed
<1>10. ASSUME NEW l \in listings, AskTools(l) \/ AnswerTools(l) \/ FailTools(l) PROVE GiveInv'
  BY <1>2, <1>10 DEF AskTools, AnswerTools, FailTools, historyVars
<1>11. ASSUME NEW l \in listings, TakeTools(l) PROVE GiveInv'
  <2>1. UNCHANGED <<transport, closed, failures>>
        /\ (entry' = entry \/ entry' = [entry EXCEPT !.tools = l.got])
    BY <1>11 DEF TakeTools
  <2> QED
    BY <1>1, <1>2, <2>1 DEF EntryType
<1>12. ASSUME NEW c \in Call, Send(c) \/ Answer(c) \/ Reject(c) \/ GiveUpCall(c) \/ Resume(c)
       PROVE  GiveInv'
  BY <1>2, <1>12 DEF Send, Answer, Reject, GiveUpCall, Resume, historyVars
<1>13. ASSUME NEW c \in Call, RejectedAuth(c) \/ RejectedSession(c) PROVE GiveInv'
  <2>1. transport # "stdio" /\ transport' = transport
    BY <1>13 DEF RejectedAuth, RejectedSession, TypeInv
  <2> QED
    BY <2>1 DEF GiveInv
<1>14. CASE Close
  BY <1>14 DEF Close, GiveInv, historyVars
<1>15. CASE ChangeTools \/ StartSession \/ SessionStarted \/ UNCHANGED vars
  BY <1>2, <1>15 DEF ChangeTools, StartSession, SessionStarted, vars, historyVars
<1>16. ASSUME NEW t, Fire(t) PROVE t \in Client
  BY <1>16 DEF Fire, TypeInv
<1> QED
  BY <1>3, <1>4, <1>5, <1>6, <1>7, <1>8, <1>9, <1>10, <1>11, <1>12, <1>13, <1>14, <1>15, <1>16
     DEF Next, AttemptStep, CallStep

(* An upstream that crashes right after starting still reaches the retry limit:
   the failures since a stable connection or a manual retry never pass it. *)
THEOREM GivesUpAlways == Spec => []GivesUp
<1>1. Init => GiveInv
  <2> SUFFICES ASSUME Init PROVE GiveInv
    OBVIOUS
  <2>1. entry.state = "connecting" /\ entry.failed = 0 /\ failures = 0 /\ 0 <= Limit
    BY LimitReached DEF Init, NewEntry
  <2> QED
    BY <2>1 DEF GiveInv, NotYet
<1>2. GiveInv => GivesUp
  BY DEF GiveInv, GivesUp
<1> QED
  BY <1>1, <1>2, OneInvAlways, TypeAlways, GiveStep, PTL DEF Spec

-----------------------------------------------------------------------------
(* The dashboard: functions defined up to a number. *)

IsFold(f, A, a, n, g) ==
    f \in [0..n -> A] /\ f[0] = a /\ \A i \in 1..n : f[i] = g[<<f[i - 1], i>>]

LEMMA FoldExists ==
    ASSUME NEW A, NEW a \in A, NEW n \in Nat, NEW g, g \in [A \X (1..n) -> A]
    PROVE  \E f : IsFold(f, A, a, n, g)
<1> DEFINE S == {m \in 0..n : \E f : IsFold(f, A, a, m, g)}
<1>1. 0 \in S
  <2> DEFINE f == [i \in 0..0 |-> a]
  <2>1. IsFold(f, A, a, 0, g)
    BY DEF IsFold
  <2> HIDE DEF f
  <2> QED
    BY <2>1
<1>2. ASSUME NEW m \in 1..n, m - 1 \in S PROVE m \in S
  <2>1. PICK h : IsFold(h, A, a, m - 1, g)
    BY <1>2
  <2> DEFINE f == [i \in 0..m |-> IF i = m THEN g[<<h[m - 1], m>>] ELSE h[i]]
  <2>2. h \in [0..m - 1 -> A] /\ h[0] = a /\ \A i \in 1..m - 1 : h[i] = g[<<h[i - 1], i>>]
    BY <2>1 DEF IsFold
  <2>3. m - 1 \in 0..m - 1 /\ h[m - 1] \in A /\ g[<<h[m - 1], m>>] \in A
    BY <2>2
  <2>4. \A i \in 0..m : i # m => i \in 0..m - 1
    OBVIOUS
  <2>5. f \in [0..m -> A] /\ f[0] = a
    BY <2>2, <2>3, <2>4
  <2>6. ASSUME NEW i \in 1..m PROVE f[i] = g[<<f[i - 1], i>>]
    <3>1. i - 1 \in 0..m /\ i - 1 # m /\ f[i - 1] = h[i - 1]
      OBVIOUS
    <3>2. CASE i = m
      BY <3>1, <3>2
    <3>3. CASE i # m
      BY <2>2, <3>1, <3>3
    <3> QED
      BY <3>2, <3>3
  <2> HIDE DEF f
  <2>7. IsFold(f, A, a, m, g)
    BY <2>5, <2>6 DEF IsFold
  <2> QED
    BY <2>7
<1>3. n \in S
  <2> HIDE DEF S
  <2> QED
    BY <1>1, <1>2, CountUp
<1> QED
  BY <1>3
-----------------------------------------------------------------------------
(* The pairs that Pairs finds. *)
Matching(ord, rows, pairs, i) ==
    /\ \A q \in pairs : \E a \in 1..i : \E b \in a + 1..Len(ord) :
         /\ q = <<ord[a], ord[b]>>
         /\ ord[a] \in rows /\ ord[a][1] = "agent"
         /\ ord[b] \in rows /\ ord[b][1] = "proxy"
         /\ Tool[ord[a][2]] = Tool[ord[b][2]]
    /\ \A p, q \in pairs : p[1] = q[1] \/ p[2] = q[2] => p = q
    /\ \A a \in 1..i : \A b \in a + 1..Len(ord) :
         /\ ord[a] \in rows /\ ord[a][1] = "agent"
         /\ ord[b] \in rows /\ ord[b][1] = "proxy"
         /\ Tool[ord[a][2]] = Tool[ord[b][2]]
         /\ \A q \in pairs : q[2] # ord[b]
         => \E c \in a + 1..b : <<ord[a], ord[c]>> \in pairs

Injective(ord) == \A i, j \in 1..Len(ord) : ord[i] = ord[j] => i = j

LEMMA TakeIs ==
    ASSUME NEW ord \in Seq(Row), NEW rows, NEW pairs, NEW i \in 1..Len(ord)
    PROVE  \/ /\ ord[i] \notin rows \/ ord[i][1] = "proxy" \/ Free(ord, rows, pairs, i) = {}
              /\ Take(ord, rows, pairs, i) = pairs
           \/ /\ ord[i] \in rows /\ ord[i][1] = "agent"
              /\ \E b \in Free(ord, rows, pairs, i) :
                   /\ \A k \in Free(ord, rows, pairs, i) : b <= k
                   /\ Take(ord, rows, pairs, i) = pairs \cup {<<ord[i], ord[b]>>}
<1> DEFINE free == Free(ord, rows, pairs, i)
           b == CHOOSE j \in free : \A k \in free : j <= k
<1>1. free \subseteq Nat
  BY DEF Free
<1>2. ord[i] \in Row /\ ord[i][1] \in {"agent", "proxy"}
  BY DEF Row, Session
<1>3. CASE ord[i] \notin rows \/ ord[i][1] = "proxy" \/ free = {}
  BY <1>3 DEF Take
<1>4. CASE ord[i] \in rows /\ ord[i][1] # "proxy" /\ free # {}
  <2>1. \E j \in free : \A k \in free : j <= k
    BY <1>1, <1>4, LeastNumber
  <2>2. b \in free /\ \A k \in free : b <= k
    BY <2>1
  <2>3. Take(ord, rows, pairs, i) = pairs \cup {<<ord[i], ord[b]>>}
    BY <1>4 DEF Take
  <2> HIDE DEF b
  <2> QED
    BY <1>2, <1>4, <2>2, <2>3
<1> QED
  BY <1>3, <1>4

LEMMA TakeType ==
    ASSUME NEW ord \in Seq(Row), NEW rows, NEW pairs \in SUBSET (Row \X Row), NEW i \in 1..Len(ord)
    PROVE  Take(ord, rows, pairs, i) \in SUBSET (Row \X Row)
<1>1. Free(ord, rows, pairs, i) \subseteq 1..Len(ord)
  BY DEF Free
<1> QED
  BY <1>1, TakeIs

PairFold(f, ord, rows) ==
    /\ f \in [0..Len(ord) -> SUBSET (Row \X Row)]
    /\ f[0] = {}
    /\ \A i \in 1..Len(ord) : f[i] = Take(ord, rows, f[i - 1], i)

LEMMA PairsIs ==
    ASSUME NEW ord \in Seq(Row), NEW rows
    PROVE  \E f : PairFold(f, ord, rows) /\ Pairs(ord, rows) = f[Len(ord)]
<1> DEFINE n == Len(ord)
           A == SUBSET (Row \X Row)
           g == [x \in A \X (1..n) |-> Take(ord, rows, x[1], x[2])]
           Is(f) == f = [i \in 0..n |-> IF i = 0 THEN {} ELSE Take(ord, rows, f[i - 1], i)]
           after == CHOOSE f : Is(f)
<1>1. n \in Nat /\ {} \in A
  OBVIOUS
<1>2. g \in [A \X (1..n) -> A]
  BY TakeType
<1>3. PICK f \in [0..n -> A] : f[0] = {} /\ \A i \in 1..n : f[i] = g[<<f[i - 1], i>>]
  <2>1. PICK f : IsFold(f, A, {}, n, g)
    <3> HIDE DEF g, A, n
    <3> QED
      BY <1>1, <1>2, FoldExists
  <2> QED
    BY <2>1 DEF IsFold
<1>4. \A i \in 1..n : f[i - 1] \in A /\ f[i] = Take(ord, rows, f[i - 1], i)
  <2>1. \A i \in 1..n : i - 1 \in 0..n
    OBVIOUS
  <2> HIDE DEF A, n
  <2> QED
    BY <1>3, <2>1
<1>5. Is(f)
  BY <1>1, <1>3, <1>4
<1>6. Is(after)
  BY <1>5
<1>7. Pairs(ord, rows) = after[n]
  BY DEF Pairs
<1>8. after[0] = {} /\ \A i \in 1..n : after[i] = Take(ord, rows, after[i - 1], i)
  <2> HIDE DEF after
  <2> QED
    BY <1>1, <1>6
<1>9. after \in [0..n -> A]
  <2> DEFINE S == {i \in 0..n : after[i] = f[i]}
  <2> HIDE DEF after
  <2>1. 0 \in S
    <3>1. 0 \in 0..n
      BY <1>1
    <3> HIDE DEF n, A
    <3> QED
      BY <1>3, <1>8, <3>1
  <2>2. \A i \in 1..n : i - 1 \in S => i \in S
    BY <1>4, <1>8
  <2>3. \A i \in 0..n : i \in S
    <3> HIDE DEF S
    <3> QED
      BY <1>1, <2>1, <2>2, CountUp
  <2>4. \A i \in 0..n : after[i] \in A
    BY <1>3, <2>3
  <2>5. after = [i \in 0..n |-> after[i]]
    BY <1>6
  <2> QED
    BY <2>4, <2>5
<1> QED
  BY <1>7, <1>8, <1>9 DEF PairFold

LEMMA TakeKeeps ==
    ASSUME NEW ord \in Seq(Row), Injective(ord), NEW rows, NEW pairs, NEW i \in 1..Len(ord),
           Matching(ord, rows, pairs, i - 1)
    PROVE  Matching(ord, rows, Take(ord, rows, pairs, i), i)
<1> DEFINE new == Take(ord, rows, pairs, i)
           IsPair(q, n) == \E a \in 1..n : \E b \in a + 1..Len(ord) :
                           /\ q = <<ord[a], ord[b]>>
                           /\ ord[a] \in rows /\ ord[a][1] = "agent"
                           /\ ord[b] \in rows /\ ord[b][1] = "proxy"
                           /\ Tool[ord[a][2]] = Tool[ord[b][2]]
           Owed(a, b) == /\ ord[a] \in rows /\ ord[a][1] = "agent"
                         /\ ord[b] \in rows /\ ord[b][1] = "proxy"
                         /\ Tool[ord[a][2]] = Tool[ord[b][2]]
           Got(ps, a, b) == \E c \in a + 1..b : <<ord[a], ord[c]>> \in ps
<1>1. \A q \in pairs : IsPair(q, i - 1)
  BY DEF Matching
<1>2. \A p, q \in pairs : p[1] = q[1] \/ p[2] = q[2] => p = q
  BY DEF Matching
<1>3. \A a \in 1..i - 1 : \A b \in a + 1..Len(ord) :
        Owed(a, b) /\ (\A q \in pairs : q[2] # ord[b]) => Got(pairs, a, b)
  BY DEF Matching
<1>4. \A q \in pairs : IsPair(q, i)
  BY <1>1
<1>5. CASE /\ ord[i] \notin rows \/ ord[i][1] = "proxy" \/ Free(ord, rows, pairs, i) = {}
           /\ new = pairs
  <2>1. ASSUME NEW a \in 1..i, NEW b \in a + 1..Len(ord), Owed(a, b), \A q \in pairs : q[2] # ord[b]
        PROVE  Got(pairs, a, b)
    <3>1. CASE a # i
      <4>1. a \in 1..i - 1
        BY <3>1
      <4> HIDE DEF Owed, Got
      <4> QED
        BY <1>3, <2>1, <4>1
    <3>2. CASE a = i
      <4>1. b \in Free(ord, rows, pairs, i)
        BY <2>1, <3>2 DEF Free
      <4> QED
        BY <1>5, <2>1, <3>2, <4>1
    <3> QED
      BY <3>1, <3>2
  <2>2. Matching(ord, rows, pairs, i)
    BY <1>2, <1>4, <2>1 DEF Matching
  <2> QED
    BY <1>5, <2>2
<1>6. CASE /\ ord[i] \in rows /\ ord[i][1] = "agent"
           /\ \E b \in Free(ord, rows, pairs, i) :
                /\ \A k \in Free(ord, rows, pairs, i) : b <= k
                /\ new = pairs \cup {<<ord[i], ord[b]>>}
  <2>1. PICK m \in Free(ord, rows, pairs, i) :
          /\ \A k \in Free(ord, rows, pairs, i) : m <= k
          /\ new = pairs \cup {<<ord[i], ord[m]>>}
    BY <1>6
  <2>2. /\ m \in i + 1..Len(ord) /\ ord[m] \in rows /\ ord[m][1] = "proxy"
        /\ Tool[ord[i][2]] = Tool[ord[m][2]]
        /\ \A q \in pairs : q[2] # ord[m]
    BY DEF Free
  <2>3. IsPair(<<ord[i], ord[m]>>, i)
    BY <1>6, <2>2
  <2>4. \A q \in pairs : q[1] # ord[i]
    <3>1. ASSUME NEW q \in pairs PROVE q[1] # ord[i]
      <4>1. PICK a \in 1..i - 1 : \E b \in a + 1..Len(ord) : q = <<ord[a], ord[b]>>
        BY <1>1
      <4>2. q[1] = ord[a] /\ a # i /\ a \in 1..Len(ord)
        BY <4>1
      <4> QED
        BY <4>2 DEF Injective
    <3> QED
      BY <3>1
  <2>5. \A p, q \in new : p[1] = q[1] \/ p[2] = q[2] => p = q
    BY <1>2, <2>1, <2>2, <2>4
  <2>6. ASSUME NEW a \in 1..i, NEW b \in a + 1..Len(ord), Owed(a, b), \A q \in new : q[2] # ord[b]
        PROVE  Got(new, a, b)
    <3>1. CASE a # i
      <4>1. Got(pairs, a, b)
        <5>1. a \in 1..i - 1 /\ \A q \in pairs : q[2] # ord[b]
          BY <2>1, <2>6, <3>1
        <5> HIDE DEF Owed, Got
        <5> QED
          BY <1>3, <2>6, <5>1
      <4> QED
        BY <2>1, <4>1
    <3>2. CASE a = i
      <4>1. b \in Free(ord, rows, pairs, i)
        BY <2>1, <2>6, <3>2 DEF Free
      <4>2. m \in a + 1..b
        BY <2>1, <2>2, <3>2, <4>1
      <4> QED
        BY <2>1, <3>2, <4>2
    <3> QED
      BY <3>1, <3>2
  <2>7. \A q \in new : IsPair(q, i)
    BY <1>4, <2>1, <2>3
  <2>8. \A a \in 1..i : \A b \in a + 1..Len(ord) :
          Owed(a, b) /\ (\A q \in new : q[2] # ord[b]) => Got(new, a, b)
    <3> HIDE DEF Owed, Got, new
    <3> QED
      BY <2>6
  <2> HIDE DEF new
  <2>9. Matching(ord, rows, new, i)
    BY <2>5, <2>7, <2>8 DEF Matching
  <2> QED
    BY <2>9 DEF new
<1> QED
  BY <1>5, <1>6, TakeIs

LEMMA PairsMatch ==
    ASSUME NEW ord \in Seq(Row), Injective(ord), NEW rows
    PROVE  Matching(ord, rows, Pairs(ord, rows), Len(ord))
<1>1. PICK f : PairFold(f, ord, rows) /\ Pairs(ord, rows) = f[Len(ord)]
  BY PairsIs
<1> DEFINE n == Len(ord)
           S == {i \in 0..n : Matching(ord, rows, f[i], i)}
<1>2. n \in Nat
  OBVIOUS
<1>3. 0 \in S
  BY <1>1, <1>2 DEF PairFold, Matching
<1>4. \A i \in 1..n : i - 1 \in S => i \in S
  <2>1. ASSUME NEW i \in 1..n, i - 1 \in S PROVE i \in S
    <3>1. Matching(ord, rows, Take(ord, rows, f[i - 1], i), i)
      BY <2>1, TakeKeeps
    <3> QED
      BY <1>1, <3>1 DEF PairFold
  <2> QED
    BY <2>1
<1>5. \A i \in 0..n : i \in S
  <2> HIDE DEF S, n
  <2> QED
    BY <1>2, <1>3, <1>4, CountUp
<1> QED
  BY <1>1, <1>2, <1>5

Closed(ord, rows) ==
    \A n \in 1..Len(ord) : \A p \in 1..n - 1 :
        ord[p][1] = ord[n][1] /\ ord[n] \in rows => ord[p] \in rows

(* A pass over more of the rows keeps the pairs there were, if of each session
   it is the later rows that were missing. *)
HooksFrom(ord, rows, i) == \E a \in i..Len(ord) : ord[a] \in rows /\ ord[a][1] = "agent"

LEMMA TakeGrows ==
    ASSUME NEW ord \in Seq(Row), NEW few, NEW rows, few \subseteq rows, Closed(ord, few),
           NEW i \in 1..Len(ord), NEW old, NEW pairs, old \subseteq pairs,
           HooksFrom(ord, few, i) => \A q \in pairs \ old : q[2] \notin few
    PROVE  /\ Take(ord, few, old, i) \subseteq Take(ord, rows, pairs, i)
           /\ HooksFrom(ord, few, i + 1) =>
                \A q \in Take(ord, rows, pairs, i) \ Take(ord, few, old, i) : q[2] \notin few
<1> DEFINE X == Take(ord, few, old, i)
           Y == Take(ord, rows, pairs, i)
<1>1. Len(ord) \in Nat /\ \A a \in 1..Len(ord) : ord[a][1] \in {"agent", "proxy"}
  BY DEF Row, Session
<1>2. HooksFrom(ord, few, i + 1) => HooksFrom(ord, few, i)
  BY <1>1 DEF HooksFrom
<1>3. CASE ord[i] \notin rows \/ ord[i][1] = "proxy"
  <2>1. X = old /\ Y = pairs
    BY <1>3 DEF Take
  <2> QED
    BY <1>2, <2>1
<1>4. CASE ord[i] \in rows \ few /\ ord[i][1] = "agent"
  <2>1. X = old /\ pairs \subseteq Y
    BY <1>4, TakeIs DEF Take
  <2>2. ~HooksFrom(ord, few, i + 1)
    <3>1. ASSUME NEW a \in i + 1..Len(ord), ord[a] \in few, ord[a][1] = "agent" PROVE FALSE
      <4>1. a \in 1..Len(ord) /\ i \in 1..a - 1
        BY <1>1
      <4> QED
        BY <1>4, <3>1, <4>1 DEF Closed
    <3> QED
      BY <3>1 DEF HooksFrom
  <2> QED
    BY <2>1, <2>2
<1>5. CASE ord[i] \in few /\ ord[i][1] = "agent"
  <2> DEFINE F == Free(ord, few, old, i)
             G == Free(ord, rows, pairs, i)
  <2>1. \A q \in pairs \ old : q[2] \notin few
    BY <1>1, <1>5 DEF HooksFrom
  <2>2. F = {j \in G : ord[j] \in few}
    BY <2>1 DEF Free
  <2>3. CASE F = {}
    <3>1. X = old
      BY <2>3 DEF Take
    <3>2. CASE G = {}
      <4>1. Y = pairs
        BY <3>2 DEF Take
      <4> QED
        BY <1>2, <3>1, <4>1
    <3>3. CASE G # {}
      <4>1. PICK b \in G : Y = pairs \cup {<<ord[i], ord[b]>>}
        BY <1>5, <3>3, TakeIs
      <4>2. ord[b] \notin few
        BY <2>2, <2>3
      <4> QED
        BY <2>1, <3>1, <4>1, <4>2
    <3> QED
      BY <3>2, <3>3
  <2>4. CASE F # {}
    <3>1. ord[i] \in rows /\ G # {}
      BY <1>5, <2>2, <2>4
    <3>2. PICK b \in F : (\A k \in F : b <= k) /\ X = old \cup {<<ord[i], ord[b]>>}
      BY <1>5, <2>4, TakeIs
    <3>3. PICK c \in G : (\A k \in G : c <= k) /\ Y = pairs \cup {<<ord[i], ord[c]>>}
      BY <1>5, <3>1, TakeIs
    <3>4. b \in G /\ ord[b] \in few
      BY <2>2
    <3>5. /\ b \in 1..Len(ord) /\ c \in 1..Len(ord) /\ c <= b
          /\ ord[b][1] = "proxy" /\ ord[c][1] = "proxy"
      BY <3>3, <3>4 DEF Free
    <3>6. c \in F
      <4>1. CASE c = b
        BY <4>1
      <4>2. CASE c # b
        <5>1. c \in 1..b - 1
          BY <3>5, <4>2
        <5>2. ord[c] \in few
          BY <3>4, <3>5, <5>1 DEF Closed
        <5> QED
          BY <2>2, <5>2
      <4> QED
        BY <4>1, <4>2
    <3>7. b = c
      BY <3>2, <3>5, <3>6
    <3> QED
      BY <2>1, <3>2, <3>3, <3>7
  <2> QED
    BY <2>3, <2>4
<1> QED
  BY <1>1, <1>3, <1>4, <1>5

LEMMA PairsGrow ==
    ASSUME NEW ord \in Seq(Row), NEW few, NEW rows, few \subseteq rows, Closed(ord, few)
    PROVE  Pairs(ord, few) \subseteq Pairs(ord, rows)
<1>1. PICK f : PairFold(f, ord, few) /\ Pairs(ord, few) = f[Len(ord)]
  BY PairsIs
<1>2. PICK g : PairFold(g, ord, rows) /\ Pairs(ord, rows) = g[Len(ord)]
  BY PairsIs
<1> DEFINE n == Len(ord)
           Good(i) == f[i] \subseteq g[i] /\ (HooksFrom(ord, few, i + 1) => \A q \in g[i] \ f[i] : q[2] \notin few)
           S == {i \in 0..n : Good(i)}
<1>3. n \in Nat
  OBVIOUS
<1>4. 0 \in S
  BY <1>1, <1>2, <1>3 DEF PairFold
<1>5. ASSUME NEW i \in 1..n, i - 1 \in S PROVE i \in S
  <2>1. f[i] = Take(ord, few, f[i - 1], i) /\ g[i] = Take(ord, rows, g[i - 1], i)
    BY <1>1, <1>2 DEF PairFold
  <2>2. f[i - 1] \subseteq g[i - 1] /\ (HooksFrom(ord, few, i) => \A q \in g[i - 1] \ f[i - 1] : q[2] \notin few)
    <3>1. Good(i - 1) /\ (i - 1) + 1 = i
      BY <1>5
    <3> QED
      BY <3>1
  <2>3. Good(i)
    BY <2>1, <2>2, TakeGrows
  <2> QED
    BY <2>3
<1>6. \A i \in 0..n : i \in S
  <2> HIDE DEF S, n, Good
  <2> QED
    BY <1>3, <1>4, <1>5, CountUp
<1> QED
  BY <1>1, <1>2, <1>3, <1>6

(* A call that is recorded, and not read, changes no pair. *)
LEMMA PairsAppend ==
    ASSUME NEW ord \in Seq(Row), NEW rows, NEW r \in Row, r \notin rows
    PROVE  Pairs(Append(ord, r), rows) = Pairs(ord, rows)
<1> DEFINE n == Len(ord)
           long == Append(ord, r)
<1>1. /\ n \in Nat /\ long \in Seq(Row) /\ Len(long) = n + 1 /\ long[n + 1] = r
      /\ \A i \in 1..n : long[i] = ord[i]
  OBVIOUS
<1> HIDE DEF long
<1>2. PICK f : PairFold(f, ord, rows) /\ Pairs(ord, rows) = f[n]
  BY PairsIs
<1>3. PICK g : PairFold(g, long, rows) /\ Pairs(long, rows) = g[n + 1]
  BY <1>1, PairsIs
<1>4. \A i \in 1..n : \A ps : Take(long, rows, ps, i) = Take(ord, rows, ps, i)
  <2>1. ASSUME NEW i \in 1..n, NEW ps PROVE Take(long, rows, ps, i) = Take(ord, rows, ps, i)
    <3>1. Free(long, rows, ps, i) \subseteq 1..n
      BY <1>1 DEF Free
    <3>2. Free(long, rows, ps, i) = Free(ord, rows, ps, i)
      BY <1>1, <3>1 DEF Free
    <3> DEFINE F == Free(ord, rows, ps, i)
               b == CHOOSE j \in F : \A k \in F : j <= k
    <3>3. F # {} => b \in 1..n
      <4>1. F \subseteq 1..n
        BY DEF Free
      <4>2. F # {} => \E j \in F : \A k \in F : j <= k
        BY <4>1, LeastNumber
      <4> QED
        BY <4>1, <4>2
    <3>4. F # {} => long[b] = ord[b]
      BY <1>1, <3>3
    <3> QED
      BY <1>1, <3>2, <3>4 DEF Take
  <2> QED
    BY <2>1
<1> DEFINE S == {i \in 0..n : g[i] = f[i]}
<1>5. 0 \in S
  <2>1. 0 \in 0..n
    BY <1>1
  <2>2. f[0] = {} /\ g[0] = {}
    BY <1>2, <1>3 DEF PairFold
  <2> QED
    BY <2>1, <2>2
<1>6. ASSUME NEW i \in 1..n, i - 1 \in S PROVE i \in S
  <2>1. f[i] = Take(ord, rows, f[i - 1], i) /\ g[i] = Take(long, rows, g[i - 1], i)
    BY <1>1, <1>2, <1>3 DEF PairFold
  <2> QED
    BY <1>4, <1>6, <2>1
<1>7. \A i \in 0..n : i \in S
  <2> HIDE DEF S, n
  <2> QED
    BY <1>1, <1>5, <1>6, CountUp
<1>8. g[n + 1] = g[n]
  <2>1. g[n + 1] = Take(long, rows, g[n], n + 1)
    <3>1. n + 1 \in 1..n + 1 /\ (n + 1) - 1 = n
      BY <1>1
    <3> QED
      BY <1>1, <1>3, <3>1 DEF PairFold
  <2> QED
    BY <1>1, <2>1 DEF Take
<1> QED
  BY <1>1, <1>2, <1>3, <1>7, <1>8 DEF long

HooksFirst(ord) ==
    \A n \in 1..Len(ord) : ord[n][1] = "proxy" =>
        \E p \in 1..n - 1 : ord[p] = <<"agent", ord[n][2]>>

Taken(pairs, r) == \E q \in pairs : q[2] = r

(* No call of the proxy is left over: of those like it up to it each has a hook
   call of its own, and if one were left these would share the others. *)
LEMMA AllTaken ==
    ASSUME NEW ord \in Seq(Row), Injective(ord), HooksFirst(ord),
           NEW rows, rows = {ord[i] : i \in 1..Len(ord)},
           NEW b \in 1..Len(ord), ord[b][1] = "proxy"
    PROVE  Taken(Pairs(ord, rows), ord[b])
<1> DEFINE M == Pairs(ord, rows)
           P == {x \in 1..b : ord[x][1] = "proxy" /\ Tool[ord[x][2]] = Tool[ord[b][2]]}
           Ag(x) == CHOOSE p \in 1..x - 1 : ord[p] = <<"agent", ord[x][2]>>
           Got(x) == CHOOSE c \in 1..b : <<ord[Ag(x)], ord[c]>> \in M
           f == [x \in P |-> Got(x)]
<1> SUFFICES ASSUME \A q \in M : q[2] # ord[b] PROVE FALSE
  BY DEF Taken
<1>1. Matching(ord, rows, M, Len(ord))
  BY PairsMatch
<1> HIDE DEF M
<1>2. Len(ord) \in Nat /\ \A i \in 1..Len(ord) : ord[i] \in Row
  OBVIOUS
<1>13. \A x \in P : x \in 1..Len(ord) /\ ord[x][1] = "proxy" /\ Tool[ord[x][2]] = Tool[ord[b][2]]
  BY <1>2
<1>3. ASSUME NEW x \in P PROVE Ag(x) \in 1..x - 1 /\ ord[Ag(x)] = <<"agent", ord[x][2]>>
  <2>1. \E p \in 1..x - 1 : ord[p] = <<"agent", ord[x][2]>>
    <3>1. x \in 1..Len(ord) /\ ord[x][1] = "proxy"
      BY <1>13
    <3> HIDE DEF P
    <3> QED
      BY <3>1 DEF HooksFirst
  <2> QED
    BY <2>1
<1> HIDE DEF Ag
<1>4. ASSUME NEW x \in P PROVE Got(x) \in P \ {b} /\ <<ord[Ag(x)], ord[Got(x)]>> \in M
  <2>1. /\ Ag(x) \in 1..Len(ord) /\ b \in Ag(x) + 1..Len(ord)
        /\ ord[Ag(x)] \in rows /\ ord[Ag(x)][1] = "agent" /\ ord[b] \in rows
        /\ Tool[ord[Ag(x)][2]] = Tool[ord[b][2]]
    BY <1>2, <1>3
  <2>2. \E c \in Ag(x) + 1..b : <<ord[Ag(x)], ord[c]>> \in M
    BY <1>1, <2>1 DEF Matching
  <2>3. \E c \in 1..b : <<ord[Ag(x)], ord[c]>> \in M
    <3>1. Ag(x) + 1..b \subseteq 1..b
      BY <1>2, <2>1
    <3> QED
      BY <2>2, <3>1
  <2> DEFINE c == Got(x)
  <2>4. c \in 1..b /\ <<ord[Ag(x)], ord[c]>> \in M
    BY <2>3
  <2> HIDE DEF c
  <2>5. PICK a \in 1..Len(ord), d \in 1..Len(ord) :
          /\ <<ord[Ag(x)], ord[c]>> = <<ord[a], ord[d]>>
          /\ ord[d][1] = "proxy" /\ Tool[ord[a][2]] = Tool[ord[d][2]]
    <3>1. PICK a \in 1..Len(ord) : \E d \in a + 1..Len(ord) :
            /\ <<ord[Ag(x)], ord[c]>> = <<ord[a], ord[d]>>
            /\ ord[d][1] = "proxy" /\ Tool[ord[a][2]] = Tool[ord[d][2]]
      BY <1>1, <2>4 DEF Matching
    <3> QED
      BY <3>1
  <2>6. ord[c][1] = "proxy" /\ Tool[ord[c][2]] = Tool[ord[b][2]]
    BY <2>1, <2>5
  <2>7. c # b
    BY <2>4
  <2> QED
    BY <2>4, <2>6, <2>7 DEF c
<1>5. f \in [P -> P \ {b}]
  BY <1>4
<1>6. IsFiniteSet(P) /\ IsFiniteSet(P \ {b}) /\ Cardinality(P \ {b}) < Cardinality(P)
  <2>1. IsFiniteSet(1..b) /\ P \subseteq 1..b /\ b \in P
    BY FS_Interval
  <2>2. IsFiniteSet(P)
    BY <2>1, FS_Subset
  <2> HIDE DEF P
  <2>3. IsFiniteSet(P \ {b}) /\ Cardinality(P \ {b}) = Cardinality(P) - 1 /\ Cardinality(P) \in Nat
    BY <2>1, <2>2, FS_RemoveElement, FS_CardinalityType
  <2> QED
    BY <2>2, <2>3
<1>7. PICK x \in P, y \in P : x # y /\ f[x] = f[y]
  <2> HIDE DEF P, f
  <2> QED
    BY <1>5, <1>6, FS_PigeonHole
<1>8. Got(x) = Got(y)
  BY <1>7
<1>9. ord[Ag(x)] = ord[Ag(y)]
  <2>3. \A z \in P : <<ord[Ag(z)], ord[Got(z)]>> \in M
    BY <1>4
  <2> HIDE DEF P, Got
  <2> DEFINE p == <<ord[Ag(x)], ord[Got(x)]>>
             q == <<ord[Ag(y)], ord[Got(y)]>>
  <2>1. p \in M /\ q \in M /\ p[2] = q[2]
    BY <1>8, <2>3
  <2>2. p = q
    BY <1>1, <2>1 DEF Matching
  <2> QED
    BY <2>2
<1>10. ord[x] = ord[y]
  <2>2. \A z \in P : ord[Ag(z)] = <<"agent", ord[z][2]>>
    BY <1>3
  <2>3. ord[x][1] = ord[y][1] /\ ord[x] \in Row /\ ord[y] \in Row
    BY <1>2, <1>13
  <2>1. ord[x][2] = ord[y][2] /\ ord[x][1] = ord[y][1] /\ ord[x] \in Row /\ ord[y] \in Row
    BY <1>9, <2>2, <2>3
  <2> QED
    BY <2>1 DEF Row
<1> QED
  BY <1>7, <1>10, <1>13 DEF Injective

(* The ids of the rows are those of the pairs. *)
Named(ord, rows, cid) ==
    /\ \A q \in Pairs(ord, rows) : cid[q[1]] = q[1][2] /\ cid[q[2]] = q[1][2]
    /\ \A r \in Row : cid[r] # 0 =>
         \E q \in Pairs(ord, rows) : r \in {q[1], q[2]} /\ cid[r] = q[1][2]

ShownAs(rows, cid) == {IF cid[r] = 0 THEN {r} ELSE {q \in rows : cid[q] = cid[r]} : r \in rows}

CallsOf(rows) == {r[2] : r \in rows}

(* Then a call is shown once: with the id of its hook's row, or as that row. *)
LEMMA ShownOnce ==
    ASSUME NEW ord \in Seq(Row), Injective(ord), HooksFirst(ord),
           NEW rows, rows = {ord[i] : i \in 1..Len(ord)}, NEW cid \in [Row -> ToolCall \cup {0}],
           Named(ord, rows, cid)
    PROVE  Cardinality(ShownAs(rows, cid)) = Cardinality(CallsOf(rows))
<1> DEFINE M == Pairs(ord, rows)
           G(r) == IF cid[r] = 0 THEN {r} ELSE {q \in rows : cid[q] = cid[r]}
           shown == {G(r) : r \in rows}
           calls == {r[2] : r \in rows}
           h == [c \in calls |-> G(<<"agent", c>>)]
<1>1. rows \subseteq Row /\ \A r \in rows : r = <<r[1], r[2]>> /\ r[1] \in {"agent", "proxy"} /\ r[2] \in ToolCall
  BY DEF Row, Session
<1>2. \A q \in M : /\ q[1] \in rows /\ q[1][1] = "agent" /\ q[1][2] # 0
                   /\ q[2] \in rows /\ q[2][1] = "proxy"
  <2>1. ASSUME NEW q \in M PROVE /\ q[1] \in rows /\ q[1][1] = "agent"
                                 /\ q[2] \in rows /\ q[2][1] = "proxy"
    <3>1. Matching(ord, rows, M, Len(ord))
      BY PairsMatch
    <3> HIDE DEF M
    <3>2. PICK a \in 1..Len(ord) : \E b \in a + 1..Len(ord) :
             /\ q = <<ord[a], ord[b]>>
             /\ ord[a] \in rows /\ ord[a][1] = "agent"
             /\ ord[b] \in rows /\ ord[b][1] = "proxy"
      BY <3>1 DEF Matching
    <3> QED
      BY <3>2
  <2>2. 0 \notin ToolCall
    BY DashboardAssumption
  <2> QED
    BY <1>1, <2>1, <2>2
<1>3. \A c \in calls : <<"agent", c>> \in rows /\ <<"agent", c>> \in Row
  <2>1. ASSUME NEW i \in 1..Len(ord) PROVE <<"agent", ord[i][2]>> \in rows
    <3>1. CASE ord[i][1] = "proxy"
      <4>1. PICK p \in 1..i - 1 : ord[p] = <<"agent", ord[i][2]>>
        BY <3>1 DEF HooksFirst
      <4>2. p \in 1..Len(ord)
        OBVIOUS
      <4> QED
        BY <4>1, <4>2
    <3>2. CASE ord[i][1] # "proxy"
      <4>1. ord[i] \in rows
        OBVIOUS
      <4>2. ord[i] = <<"agent", ord[i][2]>>
        BY <1>1, <3>2, <4>1
      <4> QED
        BY <4>1, <4>2
    <3> QED
      BY <3>1, <3>2
  <2>2. \A r \in rows : <<"agent", r[2]>> \in rows
    BY <2>1
  <2> QED
    BY <1>1, <2>2
<1>4. \A q \in M : cid[q[1]] = q[1][2] /\ cid[q[2]] = q[1][2]
  BY DEF Named
<1>5. \A r \in Row : cid[r] # 0 => \E q \in M : r \in {q[1], q[2]} /\ cid[r] = q[1][2]
  BY DEF Named
<1>6. \A b \in rows : b[1] = "proxy" => \E q \in M : q[2] = b
  <2>1. ASSUME NEW i \in 1..Len(ord), ord[i][1] = "proxy" PROVE \E q \in M : q[2] = ord[i]
    <3>1. Taken(Pairs(ord, rows), ord[i])
      BY <2>1, AllTaken
    <3> QED
      BY <3>1 DEF Taken
  <2> HIDE DEF M
  <2> QED
    BY <2>1
<1> HIDE DEF M
<1>7. \A c \in calls : cid[<<"agent", c>>] # 0 => cid[<<"agent", c>>] = c
  <2>1. ASSUME NEW c \in calls, cid[<<"agent", c>>] # 0 PROVE cid[<<"agent", c>>] = c
    <3>1. PICK q \in M : <<"agent", c>> \in {q[1], q[2]} /\ cid[<<"agent", c>>] = q[1][2]
      BY <1>3, <1>5, <2>1
    <3>2. <<"agent", c>> # q[2]
      BY <1>2
    <3> QED
      BY <3>1, <3>2
  <2> QED
    BY <2>1
<1>13. h \in [calls -> shown]
  <2>1. ASSUME NEW c \in calls PROVE G(<<"agent", c>>) \in shown
    <3>1. <<"agent", c>> \in rows
      BY <1>3
    <3> HIDE DEF G, calls
    <3> QED
      BY <3>1
  <2> HIDE DEF G, calls, shown
  <2> QED
    BY <2>1
<1>8. h \in Injection(calls, shown)
  <2>2. ASSUME NEW c \in calls, NEW d \in calls, h[c] = h[d] PROVE c = d
    <3> DEFINE x == <<"agent", c>>
               y == <<"agent", d>>
    <3>1. y \in G(y) /\ G(x) = G(y) /\ x \in rows /\ y \in rows
      BY <1>3, <2>2
    <3>2. CASE cid[x] = 0
      BY <3>1, <3>2
    <3>3. CASE cid[x] # 0
      <4>1. cid[y] = cid[x]
        BY <3>1, <3>3
      <4> QED
        BY <1>7, <3>3, <4>1
    <3> QED
      BY <3>2, <3>3
  <2> HIDE DEF h, calls, shown
  <2>3. \A c, d \in calls : h[c] = h[d] => c = d
    BY <2>2
  <2> QED
    BY <1>13, <2>3, ZenonT(30) DEF Injection, IsInjective
<1>9. h \in Surjection(calls, shown)
  <2>2. ASSUME NEW r \in rows PROVE \E c \in calls : h[c] = G(r)
    <3>1. CASE r[1] = "agent"
      <4>1. r[2] \in calls /\ r = <<"agent", r[2]>>
        BY <1>1, <3>1
      <4>2. h[r[2]] = G(r)
        BY <4>1
      <4> QED
        BY <4>1, <4>2
    <3>2. CASE r[1] = "proxy"
      <4>1. PICK q \in M : q[2] = r
        BY <1>6, <3>2
      <4>2. /\ q[1] \in rows /\ q[1][2] \in calls /\ q[1] = <<"agent", q[1][2]>>
            /\ cid[q[1]] = cid[r] /\ cid[r] # 0
        BY <1>1, <1>2, <1>4, <4>1
      <4>3. G(q[1]) = G(r)
        BY <4>2
      <4>4. h[q[1][2]] = G(q[1])
        BY <4>2
      <4> QED
        BY <4>2, <4>3, <4>4
    <3> QED
      BY <1>1, <3>1, <3>2
  <2>3. \A z \in shown : \E c \in calls : h[c] = z
    <3> HIDE DEF h, calls, G
    <3> QED
      BY <2>2
  <2> HIDE DEF h, shown, calls
  <2> QED
    BY <1>13, <2>3 DEF Surjection
<1>10. ExistsBijection(calls, shown)
  <2> HIDE DEF h, shown, calls
  <2> QED
    BY <1>8, <1>9 DEF ExistsBijection, Bijection
<1>11. IsFiniteSet(calls)
  <2>1. calls \subseteq ToolCall
    BY <1>1
  <2> HIDE DEF calls
  <2> QED
    BY <2>1, DashboardAssumption, FS_Subset
<1>12. Cardinality(shown) = Cardinality(calls)
  <2> HIDE DEF calls, shown
  <2> QED
    BY <1>10, <1>11, FS_Bijection
<1> QED
  BY <1>12 DEF ShownAs, CallsOf
-----------------------------------------------------------------------------
(* What the read model counts. *)
Counted(st) ==
    /\ \A s \in Session : st.count[s] = Cardinality({r \in st.rows : r[1] = s})
    /\ st.score = Cardinality(st.risks)

Grows(st, later) == st.rows \subseteq later.rows /\ st.risks \subseteq later.risks

LEMMA FiniteRows == IsFiniteSet(Row) /\ IsFiniteSet(Flagged)
<1>1. IsFiniteSet(Session)
  <2>1. IsFiniteSet({"agent"})
    BY FS_Singleton
  <2> QED
    BY <2>1, FS_AddElement DEF Session
<1>2. IsFiniteSet(ToolCall) /\ Flagged \subseteq ToolCall
  BY DashboardAssumption
<1>3. IsFiniteSet(Row)
  BY <1>1, <1>2, FS_Product DEF Row
<1> QED
  BY <1>2, <1>3, FS_Subset

LEMMA ApplyKeeps ==
    ASSUME NEW st \in StoreType, Counted(st), NEW e \in Event
    PROVE  /\ Apply(st, e) \in StoreType
           /\ Counted(Apply(st, e))
           /\ Grows(st, Apply(st, e))
           /\ InStore(Apply(st, e), e)
           /\ \A r \in Apply(st, e).rows : r \in st.rows \/ (e.kind = "invoked" /\ r = <<e.by, e.call>>)
<1> DEFINE r == <<e.by, e.call>>
           N(s) == {x \in st.rows : x[1] = s}
<1>1. /\ st.rows \subseteq Row /\ st.count \in [Session -> Nat] /\ st.risks \subseteq Flagged
      /\ st.score \in Nat /\ st.servers \subseteq {"omnodex", "upstream"}
  BY DEF StoreType
<1>2. IsFiniteSet(st.rows) /\ IsFiniteSet(st.risks) /\ \A s \in Session : IsFiniteSet(N(s))
  BY <1>1, FiniteRows, FS_Subset
<1>3. CASE e.kind = "invoked" /\ r \in st.rows
  BY <1>3 DEF Apply, Grows, InStore
<1>4. CASE e.kind = "invoked" /\ r \notin st.rows
  <2> DEFINE new == [st EXCEPT !.rows = @ \cup {r}, !.count[e.by] = @ + 1,
                         !.servers = IF e.by = "agent" THEN @ \cup {"omnodex"} ELSE @]
  <2>1. Apply(st, e) = new
    BY <1>4 DEF Apply
  <2>2. e.by \in Session /\ e.call \in ToolCall /\ r \in Row
    BY <1>4 DEF Event, Row
  <2>3. /\ new.rows = st.rows \cup {r} /\ new.risks = st.risks /\ new.score = st.score
        /\ new.count = [st.count EXCEPT ![e.by] = @ + 1]
    BY DEF StoreType
  <2>4. new \in StoreType
    <3>1. new.count \in [Session -> Nat]
      BY <1>1, <2>2, <2>3
    <3>2. (IF e.by = "agent" THEN st.servers \cup {"omnodex"} ELSE st.servers) \subseteq {"omnodex", "upstream"}
      BY <1>1
    <3>3. st.rows \cup {r} \subseteq Row
      BY <1>1, <2>2
    <3> HIDE DEF r
    <3> QED
      BY <1>1, <2>3, <3>1, <3>2, <3>3 DEF StoreType
  <2>5. ASSUME NEW s \in Session PROVE new.count[s] = Cardinality({x \in new.rows : x[1] = s})
    <3>1. CASE s = e.by
      <4>1. {x \in new.rows : x[1] = s} = N(s) \cup {r} /\ r \notin N(s)
        BY <1>4, <2>3, <3>1
      <4>2. Cardinality(N(s) \cup {r}) = Cardinality(N(s)) + 1
        BY <1>2, <4>1, FS_AddElement
      <4>3. new.count[s] = st.count[s] + 1
        BY <1>1, <2>2, <2>3, <3>1
      <4> QED
        BY <4>1, <4>2, <4>3 DEF Counted
    <3>2. CASE s # e.by
      <4>1. {x \in new.rows : x[1] = s} = N(s)
        BY <2>3, <3>2
      <4>2. new.count[s] = st.count[s]
        BY <1>1, <2>2, <2>3, <3>2
      <4> QED
        BY <4>1, <4>2 DEF Counted
    <3> QED
      BY <3>1, <3>2
  <2> HIDE DEF new
  <2> QED
    BY <1>4, <2>1, <2>3, <2>4, <2>5 DEF Counted, Grows, InStore
<1>5. CASE e.kind # "invoked" /\ e.call \in st.risks
  BY <1>5 DEF Apply, Grows, InStore
<1>6. CASE e.kind # "invoked" /\ e.call \notin st.risks
  <2> DEFINE new == [st EXCEPT !.risks = @ \cup {e.call}, !.score = @ + 1]
  <2>1. Apply(st, e) = new
    BY <1>6 DEF Apply
  <2>2. e.call \in Flagged
    BY <1>6 DEF Event
  <2>3. /\ new.rows = st.rows /\ new.risks = st.risks \cup {e.call} /\ new.score = st.score + 1
        /\ new.count = st.count
    BY DEF StoreType
  <2>4. new \in StoreType
    <3>1. st.risks \cup {e.call} \subseteq Flagged /\ st.score + 1 \in Nat
      BY <1>1, <2>2
    <3> QED
      BY <3>1 DEF StoreType
  <2>5. Cardinality(st.risks \cup {e.call}) = Cardinality(st.risks) + 1
    BY <1>2, <1>6, FS_AddElement
  <2> HIDE DEF new
  <2> QED
    BY <1>6, <2>1, <2>3, <2>4, <2>5 DEF Counted, Grows, InStore
<1> QED
  BY <1>3, <1>4, <1>5, <1>6

LEMMA ApplyAllIs ==
    ASSUME NEW st \in StoreType, Counted(st), NEW events \in Seq(Event)
    PROVE  \E f : /\ f[0] = st
                  /\ \A i \in 1..Len(events) : f[i] = Apply(f[i - 1], events[i])
                  /\ ApplyAll(st, events) = f[Len(events)]
<1> DEFINE n == Len(events)
           A == {x \in StoreType : Counted(x)}
           g == [x \in A \X (1..n) |-> Apply(x[1], events[x[2]])]
           Is(f) == f = [i \in 0..n |-> IF i = 0 THEN st ELSE Apply(f[i - 1], events[i])]
           after == CHOOSE f : Is(f)
<1>1. n \in Nat /\ st \in A
  OBVIOUS
<1>2. g \in [A \X (1..n) -> A]
  <2>1. ASSUME NEW x \in A, NEW i \in 1..n PROVE Apply(x, events[i]) \in A
    BY ApplyKeeps
  <2> QED
    BY <2>1
<1>3. PICK f : IsFold(f, A, st, n, g)
  <2> HIDE DEF g, A, n
  <2> QED
    BY <1>1, <1>2, FoldExists
<1>4. f \in [0..n -> A] /\ f[0] = st /\ \A i \in 1..n : f[i] = Apply(f[i - 1], events[i])
  <2>1. f \in [0..n -> A] /\ f[0] = st /\ \A i \in 1..n : f[i] = g[<<f[i - 1], i>>]
    BY <1>3 DEF IsFold
  <2>2. \A i \in 1..n : f[i - 1] \in A
    <3>1. \A i \in 1..n : i - 1 \in 0..n
      BY <1>1
    <3> HIDE DEF A, n
    <3> QED
      BY <2>1, <3>1
  <2> HIDE DEF A, n
  <2> QED
    BY <2>1, <2>2
<1>5. Is(f)
  <2> HIDE DEF A
  <2> QED
    BY <1>1, <1>4
<1>6. Is(after)
  BY <1>5
<1>7. ApplyAll(st, events) = after[n]
  BY DEF ApplyAll
<1>8. after[0] = st /\ \A i \in 1..n : after[i] = Apply(after[i - 1], events[i])
  <2> HIDE DEF after
  <2> QED
    BY <1>1, <1>6
<1> QED
  BY <1>7, <1>8

LEMMA ApplyAllKeeps ==
    ASSUME NEW st \in StoreType, Counted(st), NEW events \in Seq(Event)
    PROVE  /\ ApplyAll(st, events) \in StoreType
           /\ Counted(ApplyAll(st, events))
           /\ Grows(st, ApplyAll(st, events))
           /\ \A i \in 1..Len(events) : InStore(ApplyAll(st, events), events[i])
           /\ \A r \in ApplyAll(st, events).rows : r \in st.rows \/
                \E i \in 1..Len(events) : events[i].kind = "invoked" /\ r = <<events[i].by, events[i].call>>
<1> DEFINE n == Len(events)
           From(r) == \E i \in 1..n : events[i].kind = "invoked" /\ r = <<events[i].by, events[i].call>>
<1>1. PICK f : /\ f[0] = st
               /\ \A i \in 1..n : f[i] = Apply(f[i - 1], events[i])
               /\ ApplyAll(st, events) = f[n]
  BY ApplyAllIs
<1> DEFINE Good(k) == /\ f[k] \in StoreType /\ Counted(f[k]) /\ Grows(st, f[k])
                      /\ \A i \in 1..k : InStore(f[k], events[i])
                      /\ \A r \in f[k].rows : r \in st.rows \/ From(r)
           S == {k \in 0..n : Good(k)}
<1>2. n \in Nat
  OBVIOUS
<1>3. Good(0)
  BY <1>1 DEF Grows
<1>4. ASSUME NEW k \in 1..n, Good(k - 1) PROVE Good(k)
  <2> DEFINE g == f[k - 1]
  <2>1. /\ f[k] = Apply(g, events[k]) /\ events[k] \in Event
        /\ g \in StoreType /\ Counted(g) /\ Grows(st, g)
        /\ \A i \in 1..k - 1 : InStore(g, events[i])
        /\ \A r \in g.rows : r \in st.rows \/ From(r)
    BY <1>1, <1>4
  <2> HIDE DEF g
  <2>2. /\ f[k] \in StoreType /\ Counted(f[k]) /\ Grows(g, f[k]) /\ InStore(f[k], events[k])
        /\ \A r \in f[k].rows : r \in g.rows \/ (events[k].kind = "invoked" /\ r = <<events[k].by, events[k].call>>)
    BY <2>1, ApplyKeeps
  <2>3. ASSUME NEW i \in 1..k PROVE InStore(f[k], events[i])
    <3>1. CASE i = k
      BY <2>2, <3>1
    <3>2. CASE i # k
      <4>1. InStore(g, events[i])
        BY <2>1, <3>2
      <4> QED
        BY <2>2, <4>1 DEF InStore, Grows
    <3> QED
      BY <3>1, <3>2
  <2>4. Grows(st, f[k])
    BY <2>1, <2>2 DEF Grows
  <2>5. \A r \in f[k].rows : r \in st.rows \/ From(r)
    BY <2>1, <2>2
  <2> QED
    BY <2>2, <2>3, <2>4, <2>5
<1>5. Good(n)
  <2>1. 0 \in S
    BY <1>2, <1>3
  <2>2. \A i \in 1..n : i - 1 \in S => i \in S
    <3> HIDE DEF Good
    <3> QED
      BY <1>2, <1>4
  <2>3. \A i \in 0..n : i \in S
    <3> HIDE DEF S, n, Good
    <3> QED
      BY <1>2, <2>1, <2>2, CountUp
  <2> QED
    BY <1>2, <2>3
<1> HIDE DEF From
<1> QED
  BY <1>1, <1>5 DEF From
-----------------------------------------------------------------------------
(* The invariant.  Rows and lines of a session are in the same order, and a call
   the proxy sees was seen by the hook before. *)
Seen(r) == [kind |-> "invoked", call |-> r[2], by |-> r[1]]

Ordered(f, ord) ==
    \A s \in Session : \A i \in 1..Len(f[s]) : f[s][i].kind = "invoked" =>
        f[s][i].by = s /\ \E p \in 1..Len(ord) : ord[p] = <<s, f[s][i].call>>

Logged(f, ord) ==
    \A p \in 1..Len(ord) : \E i \in 1..Len(f[ord[p][1]]) : f[ord[p][1]][i] = Seen(ord[p])

SameOrder(f, ord) ==
    \A n \in 1..Len(ord) : \A p \in 1..n - 1 : ord[p][1] = ord[n][1] =>
        \A j \in 1..Len(f[ord[n][1]]) : f[ord[n][1]][j] = Seen(ord[n]) =>
            \E i \in 1..j - 1 : f[ord[n][1]][i] = Seen(ord[p])

LogInv ==
    /\ Injective(order) /\ HooksFirst(order)
    /\ Ordered(file, order) /\ Logged(file, order) /\ SameOrder(file, order)
    /\ \A s \in Session : file[s] # <<>> => Registered(s)

(* A tail: the lines still to do are the last ones that were read, and what it
   has seen is in the store, but for a finding it is about to append. *)
OwnFinding(s) == [kind |-> "risk", call |-> file[s][Head(tail[s].work)].call, by |-> "dashboard"]

TailGood(s) ==
    LET t == tail[s]
        n == Len(t.work)
    IN  /\ t.offset <= Size(s)
        /\ n <= t.offset \div 2
        /\ \A k \in 1..n : t.work[k] = t.offset \div 2 - n + k
        /\ t.at \in {"work", "append"} <=> n # 0
        /\ t.at = "append" => /\ s = "agent"
                              /\ file[s][Head(t.work)].kind = "invoked"
                              /\ file[s][Head(t.work)].call \in Flagged
                              /\ InStore(store, file[s][Head(t.work)])
        /\ \A e \in t.seen : \/ InStore(store, e) \/ e \in missed
                             \/ t.at = "append" /\ e = OwnFinding(s)

TailInv == \A s \in Session : TailGood(s)

StopInv ==
    /\ timer => stopping = "no"
    /\ stopping # "no" => phase = "live"
    /\ phase = "live" <=> poller # "off"
    /\ stopping = "stopped" => Running = {}

StoreInv ==
    /\ Counted(store)
    /\ \A r \in store.rows : \E p \in 1..Len(order) : order[p] = r

PassedGood(s) == \A e \in Passed(s) : InStore(store, e) \/ e \in missed

PassedInv == \A s \in Session : PassedGood(s)

(* Pairing: what a store has is of pairs that its rows make. *)
CidFrom(ord, st) ==
    \A r \in Row : st.cid[r] # 0 =>
        \E q \in Pairs(ord, st.rows) : r \in {q[1], q[2]} /\ st.cid[r] = q[1][2]

ServersFrom(ord, st) ==
    /\ "upstream" \in st.servers => Pairs(ord, st.rows) # {}
    /\ "omnodex" \in st.servers => \E r \in st.rows : r[1] = "agent"
    /\ \A r \in st.rows : r[1] = "agent" /\ st.cid[r] = 0 => "omnodex" \in st.servers

Paired(ord, st) ==
    /\ \A q \in Pairs(ord, st.rows) : st.cid[q[1]] = q[1][2] /\ st.cid[q[2]] = q[1][2]
    /\ \A c \in st.risks : st.cid[<<"agent", c>>] # 0 => c \in st.marked
    /\ st.servers = {IF st.cid[r] = 0 THEN "omnodex" ELSE "upstream" : r \in {x \in st.rows : x[1] = "agent"}}

PassDone == phase \in {"prepare", "live"} /\ stopping = "no" /\ ~timer /\ ~unpaired

PairInv ==
    missed = {} =>
        /\ Closed(order, store.rows)
        /\ CidFrom(order, store)
        /\ ServersFrom(order, store)
        /\ PassDone => Paired(order, store)


-----------------------------------------------------------------------------
(* Types. *)
LEMMA NoTailType ==
    /\ NoTail \in TailType /\ Ended \in TailType
    /\ NoTail.at = "none" /\ NoTail.offset = 0 /\ NoTail.seen = {} /\ NoTail.work = <<>>
    /\ Ended.at = "done" /\ Ended.offset = 0 /\ Ended.seen = {} /\ Ended.work = <<>>
<1>1. <<>> \in Seq(Nat) /\ {} \in SUBSET Event
  OBVIOUS
<1>2. NoTail \in TailType
  BY <1>1 DEF NoTail, TailType
<1>3. Ended \in TailType
  BY <1>1 DEF Ended, NoTail, TailType
<1> QED
  BY <1>2, <1>3 DEF NoTail, Ended

LEMMA GoIs ==
    ASSUME NEW t \in TailType
    PROVE  /\ Go(t) \in TailType
           /\ stopping # "no" => Go(t) = Ended
           /\ stopping = "no" => /\ Go(t).at = "poll" /\ Go(t).offset = t.offset
                                 /\ Go(t).seen = t.seen /\ Go(t).work = t.work
  BY NoTailType DEF Go, TailType

LEMMA NextLineIs ==
    ASSUME NEW t \in TailType, t.work # <<>>
    PROVE  /\ NextLine(t) \in TailType
           /\ \/ NextLine(t) = Ended
              \/ /\ NextLine(t).offset = t.offset /\ NextLine(t).seen = t.seen
                 /\ NextLine(t).work = Tail(t.work)
                 /\ NextLine(t).at = IF Len(t.work) = 1 THEN "poll" ELSE "work"
<1> DEFINE rest == [t EXCEPT !.work = Tail(@), !.at = "work"]
<1>1. t.work \in Seq(Nat) /\ Tail(t.work) \in Seq(Nat) /\ Len(t.work) \in Nat
      /\ (Tail(t.work) = <<>> <=> Len(t.work) = 1)
  <2>1. t.work \in Seq(Nat)
    BY DEF TailType
  <2>2. Len(t.work) \in Nat \ {0} /\ Tail(t.work) \in Seq(Nat) /\ Len(Tail(t.work)) = Len(t.work) - 1
    BY <2>1
  <2>3. Tail(t.work) = <<>> <=> Len(Tail(t.work)) = 0
    BY <2>2, EmptySeq
  <2> QED
    BY <2>1, <2>2, <2>3
<1>2. rest \in TailType /\ rest.offset = t.offset /\ rest.seen = t.seen
      /\ rest.work = Tail(t.work) /\ rest.at = "work"
  BY <1>1 DEF TailType
<1>3. NextLine(t) = IF rest.work = <<>> THEN Go(rest) ELSE rest
  BY DEF NextLine
<1> HIDE DEF rest
<1> QED
  BY <1>1, <1>2, <1>3, GoIs

LEMMA TailFields ==
    ASSUME DashboardType, NEW s \in Session
    PROVE  /\ tail[s] \in TailType /\ tail[s].offset \in Nat /\ tail[s].seen \subseteq Event
           /\ tail[s].work \in Seq(Nat) /\ Len(tail[s].work) \in Nat
           /\ file[s] \in Seq(Event) /\ Len(file[s]) \in Nat
           /\ Size(s) \in Nat /\ Size(s) \in {2 * Len(file[s]), 2 * Len(file[s]) + 1}
<1>1. tail[s] \in TailType /\ file[s] \in Seq(Event)
  BY DEF DashboardType
<1>2. Len(file[s]) \in Nat
  BY <1>1
<1>3. tail[s].offset \in Nat /\ tail[s].seen \subseteq Event /\ tail[s].work \in Seq(Nat)
  BY <1>1 DEF TailType
<1>4. Size(s) = 2 * Len(file[s]) \/ Size(s) = 2 * Len(file[s]) + 1
  <2>1. Size(s) = 2 * Len(file[s]) + IF s \in half THEN 1 ELSE 0
    BY DEF Size
  <2>2. s \in half => Size(s) = 2 * Len(file[s]) + 1
    BY <2>1
  <2>3. s \notin half => Size(s) = 2 * Len(file[s])
    BY <1>2, <2>1
  <2> QED
    BY <2>2, <2>3
<1>5. Len(tail[s].work) \in Nat
  BY <1>3
<1> QED
  BY <1>1, <1>2, <1>3, <1>4, <1>5

(* The line a tail is at. *)
LEMMA HeadIs ==
    ASSUME DashboardType, NEW s \in Session, TailGood(s), tail[s].at \in {"work", "append"}
    PROVE  /\ tail[s].work # <<>> /\ Head(tail[s].work) = tail[s].work[1]
           /\ Head(tail[s].work) = tail[s].offset \div 2 - Len(tail[s].work) + 1
           /\ Head(tail[s].work) \in 1..Len(file[s])
           /\ file[s][Head(tail[s].work)] \in Event
           /\ Len(tail[s].work) \in Nat \ {0}
           /\ Tail(tail[s].work) \in Seq(Nat) /\ Len(Tail(tail[s].work)) = Len(tail[s].work) - 1
           /\ \A k \in 1..Len(tail[s].work) - 1 : Tail(tail[s].work)[k] = tail[s].work[k + 1]
<1> DEFINE t == tail[s]
<1>1. /\ t \in TailType /\ t.offset \in Nat /\ t.work \in Seq(Nat) /\ Len(t.work) \in Nat
      /\ file[s] \in Seq(Event) /\ Len(file[s]) \in Nat
      /\ Size(s) <= 2 * Len(file[s]) + 1
  BY TailFields
<1>2. /\ t.offset <= Size(s) /\ Len(t.work) <= t.offset \div 2 /\ Len(t.work) # 0
      /\ \A k \in 1..Len(t.work) : t.work[k] = t.offset \div 2 - Len(t.work) + k
  BY DEF TailGood
<1>3. Size(s) \in Nat
  BY TailFields
<1> HIDE DEF t
<1>4. t.work # <<>> /\ 1 \in 1..Len(t.work) /\ Head(t.work) = t.work[1]
  BY <1>1, <1>2
<1>5. Head(t.work) = t.offset \div 2 - Len(t.work) + 1
  BY <1>2, <1>4
<1>6. t.offset \div 2 <= Len(file[s])
  <2>1. t.offset <= 2 * Len(file[s]) + 1
    BY <1>1, <1>2, <1>3
  <2>2. t.offset \in Nat /\ Len(file[s]) \in Nat
    BY <1>1
  <2> QED
    BY <2>1, <2>2
<1>7. Head(t.work) \in 1..Len(file[s])
  <2> DEFINE o == t.offset \div 2
             n == Len(t.work)
             m == Len(file[s])
             h == Head(t.work)
  <2>1. o \in Nat /\ n \in Nat \ {0} /\ m \in Nat /\ n <= o
    BY <1>1, <1>2
  <2>2. h = o - n + 1 /\ o <= m
    BY <1>5, <1>6
  <2> HIDE DEF o, n, m, h
  <2>3. h \in 1..m
    BY <2>1, <2>2
  <2> QED
    BY <2>3 DEF h, m
<1>8. file[s][Head(t.work)] \in Event
  BY <1>1, <1>7
<1>9. /\ Tail(t.work) \in Seq(Nat) /\ Len(Tail(t.work)) = Len(t.work) - 1
      /\ \A k \in 1..Len(t.work) - 1 : Tail(t.work)[k] = t.work[k + 1]
  BY <1>1, <1>2
<1> QED
  BY <1>1, <1>2, <1>4, <1>5, <1>7, <1>8, <1>9 DEF t

LEMMA PairsRows ==
    ASSUME NEW ord \in Seq(Row), Injective(ord), NEW rows, NEW q \in Pairs(ord, rows)
    PROVE  /\ q[1] \in rows /\ q[1] \in Row /\ q[1][1] = "agent" /\ q[1] = <<"agent", q[1][2]>>
           /\ q[1][2] \in ToolCall /\ q[1][2] # 0
           /\ q[2] \in rows /\ q[2] \in Row /\ q[2][1] = "proxy"
<1>1. Matching(ord, rows, Pairs(ord, rows), Len(ord))
  BY PairsMatch
<1>2. PICK a \in 1..Len(ord) : \E b \in a + 1..Len(ord) :
         /\ q = <<ord[a], ord[b]>>
         /\ ord[a] \in rows /\ ord[a][1] = "agent"
         /\ ord[b] \in rows /\ ord[b][1] = "proxy"
  BY <1>1 DEF Matching
<1>3. PICK b \in a + 1..Len(ord) :
         /\ q = <<ord[a], ord[b]>>
         /\ ord[a] \in rows /\ ord[a][1] = "agent"
         /\ ord[b] \in rows /\ ord[b][1] = "proxy"
  BY <1>2
<1>4. ord[a] \in Row /\ ord[b] \in Row
  OBVIOUS
<1>5. q[1] = ord[a] /\ q[2] = ord[b]
  BY <1>3
<1>6. ord[a] = <<"agent", ord[a][2]>> /\ ord[a][2] \in ToolCall
  BY <1>3, <1>4 DEF Row
<1>7. 0 \notin ToolCall
  BY DashboardAssumption
<1> QED
  BY <1>3, <1>4, <1>5, <1>6, <1>7

LEMMA CorrelateIs ==
    ASSUME NEW st \in StoreType, DashboardType, Injective(order)
    PROVE  /\ Correlate(st) \in StoreType
           /\ Correlate(st).rows = st.rows /\ Correlate(st).risks = st.risks
           /\ Correlate(st).count = st.count /\ Correlate(st).score = st.score
           /\ \A q \in Pairs(order, st.rows) :
                Correlate(st).cid[q[1]] = q[1][2] /\ Correlate(st).cid[q[2]] = q[1][2]
           /\ \A r \in Row : (\A q \in Pairs(order, st.rows) : r \notin {q[1], q[2]})
                => Correlate(st).cid[r] = st.cid[r]
           /\ Correlate(st).marked =
                st.marked \cup {c \in st.risks : \E q \in Pairs(order, st.rows) : q[1][2] = c}
           /\ Pairs(order, st.rows) = {} => Correlate(st).servers = st.servers
           /\ Pairs(order, st.rows) # {} =>
                Correlate(st).servers = {"upstream"} \cup
                  IF \E r \in st.rows : r[1] = "agent" /\ Correlate(st).cid[r] = 0
                  THEN st.servers ELSE st.servers \ {"omnodex"}
<1> DEFINE pairs == Pairs(order, st.rows)
           new == Correlate(st)
           cid == [r \in Row |-> IF \E q \in pairs : r \in {q[1], q[2]}
                                 THEN (CHOOSE q \in pairs : r \in {q[1], q[2]})[1][2]
                                 ELSE st.cid[r]]
           marks == {c \in st.risks : \E q \in pairs : q[1][2] = c}
           stands == \E r \in st.rows : r[1] = "agent" /\ cid[r] = 0
           servers == IF pairs = {} THEN st.servers
                      ELSE {"upstream"} \cup IF stands THEN st.servers ELSE st.servers \ {"omnodex"}
<1>1. order \in Seq(Row) /\ st.risks \subseteq Flagged /\ st.marked \subseteq Flagged
      /\ st.servers \subseteq {"omnodex", "upstream"} /\ st.cid \in [Row -> ToolCall \cup {0}]
      /\ st.rows \subseteq Row
  BY DEF DashboardType, StoreType
<1>2. new = [st EXCEPT !.cid = cid, !.marked = @ \cup marks, !.servers = servers]
  BY DEF Correlate
<1>3. /\ new.rows = st.rows /\ new.risks = st.risks /\ new.count = st.count /\ new.score = st.score
      /\ new.cid = cid /\ new.marked = st.marked \cup marks /\ new.servers = servers
  <2> HIDE DEF cid, marks, servers, new
  <2> QED
    BY <1>2 DEF StoreType
<1>4. \A q \in pairs : q[1] \in Row /\ q[2] \in Row /\ q[1][1] = "agent" /\ q[2][1] = "proxy" /\ q[1][2] \in ToolCall
  BY <1>1, PairsRows
<1>5. \A p, q \in pairs : p[1] = q[1] \/ p[2] = q[2] => p = q
  BY <1>1, PairsMatch DEF Matching
<1> HIDE DEF pairs
<1>6. ASSUME NEW q \in pairs, NEW r \in {q[1], q[2]} PROVE cid[r] = q[1][2]
  <2> DEFINE p == CHOOSE p \in pairs : r \in {p[1], p[2]}
  <2>1. p \in pairs /\ r \in {p[1], p[2]}
    BY <1>6
  <2>2. cid[r] = p[1][2]
    BY <1>4, <1>6
  <2> HIDE DEF p
  <2>3. p = q
    BY <1>4, <1>5, <1>6, <2>1
  <2> QED
    BY <2>2, <2>3
<1>7. cid \in [Row -> ToolCall \cup {0}]
  <2>1. ASSUME NEW r \in Row PROVE cid[r] \in ToolCall \cup {0}
    <3>1. CASE \E q \in pairs : r \in {q[1], q[2]}
      <4>1. PICK q \in pairs : r \in {q[1], q[2]}
        BY <3>1
      <4>2. cid[r] = q[1][2]
        BY <1>6, <4>1
      <4> QED
        BY <1>4, <4>2
    <3>2. CASE ~\E q \in pairs : r \in {q[1], q[2]}
      BY <1>1, <3>2
    <3> QED
      BY <3>1, <3>2
  <2>2. cid = [r \in Row |-> cid[r]]
    OBVIOUS
  <2> HIDE DEF cid
  <2> QED
    BY <2>1, <2>2
<1>8. marks \subseteq Flagged /\ servers \subseteq {"omnodex", "upstream"}
  BY <1>1
<1>9. new \in StoreType
  <2> HIDE DEF cid, marks, servers, new
  <2> QED
    BY <1>1, <1>2, <1>7, <1>8 DEF StoreType
<1>10. \A r \in Row : (\A q \in pairs : r \notin {q[1], q[2]}) => cid[r] = st.cid[r]
  OBVIOUS
<1>11. \A q \in pairs : cid[q[1]] = q[1][2] /\ cid[q[2]] = q[1][2]
  BY <1>6
<1> HIDE DEF cid, new
<1> QED
  BY <1>3, <1>9, <1>10, <1>11 DEF pairs, new

LEMMA EventTypes ==
    /\ \A s \in Session, c \in ToolCall : [kind |-> "invoked", call |-> c, by |-> s] \in Event
    /\ \A c \in Flagged, b \in {"dashboard", "other"} : [kind |-> "risk", call |-> c, by |-> b] \in Event
    /\ \A e \in Event : e.kind = "invoked" => e.by \in Session /\ e.call \in ToolCall
    /\ \A e \in Event : e.kind # "invoked" => e.kind = "risk" /\ e.call \in Flagged
  BY DEF Event

LEMMA CompletedIs ==
    ASSUME NEW from \in Nat, NEW to \in Nat, from <= to
    PROVE  /\ Completed(from, to) \in Seq(Nat)
           /\ Len(Completed(from, to)) = to \div 2 - from \div 2
           /\ \A k \in 1..Len(Completed(from, to)) : Completed(from, to)[k] = from \div 2 + k
<1> DEFINE n == to \div 2 - from \div 2
<1>1. n \in Nat /\ from \div 2 \in Nat
  OBVIOUS
<1>2. Completed(from, to) = [k \in 1..n |-> from \div 2 + k]
  BY DEF Completed
<1>3. \A k \in 1..n : from \div 2 + k \in Nat
  BY <1>1
<1> HIDE DEF n
<1>4. Completed(from, to) \in Seq(Nat) /\ Len(Completed(from, to)) = n
  BY <1>1, <1>2, <1>3
<1> QED
  BY <1>2, <1>4 DEF n

LEMMA LaunchedIs ==
    ASSUME DashboardType, NEW b \in BOOLEAN
    PROVE  /\ Launched(b) \in [Session -> TailType]
           /\ \A s \in Session : \/ Launched(b)[s] = tail[s]
                                 \/ /\ tail[s].at = "none"
                                    /\ Launched(b)[s].at = "seed" /\ Launched(b)[s].offset = 0
                                    /\ Launched(b)[s].seen = {} /\ Launched(b)[s].work = <<>>
<1> DEFINE new == [NoTail EXCEPT !.at = "seed", !.replay = b]
<1>1. new \in TailType /\ new.at = "seed" /\ new.offset = 0 /\ new.seen = {} /\ new.work = <<>>
  BY NoTailType DEF TailType
<1>2. \A s \in Session : Launched(b)[s] = IF Registered(s) /\ tail[s].at = "none" THEN new ELSE tail[s]
  BY DEF Launched
<1>3. Launched(b) = [s \in Session |-> IF Registered(s) /\ tail[s].at = "none" THEN new ELSE tail[s]]
  BY DEF Launched
<1>4. \A s \in Session : tail[s] \in TailType
  BY DEF DashboardType
<1> HIDE DEF new
<1> QED
  BY <1>1, <1>2, <1>3, <1>4

(* What Seed, ReadOn and Work make of their tail. *)
LEMMA SeedIs ==
    ASSUME DashboardType, NEW s \in Session, Seed(s)
    PROVE  /\ tail' \in [Session -> TailType]
           /\ \A r \in Session \ {s} : tail'[r] = tail[r]
           /\ \/ tail'[s] = Ended
              \/ /\ tail'[s].at = "poll" /\ tail'[s].offset = 0
                 /\ tail'[s].seen = Lines(s) /\ tail'[s].work = <<>>
<1> DEFINE t == [NoTail EXCEPT !.seen = Lines(s)]
<1>1. Lines(s) \subseteq Event
  BY TailFields DEF Lines
<1>2. t \in TailType /\ t.offset = 0 /\ t.seen = Lines(s) /\ t.work = <<>>
  BY <1>1, NoTailType DEF TailType
<1>3. tail \in [Session -> TailType] /\ stopping \in {"no", "aborted", "stopped"}
  BY DEF DashboardType
<1>4. tail' = [tail EXCEPT ![s] = Go(t)]
  BY DEF Seed
<1> HIDE DEF t
<1>5. Go(t) \in TailType
  BY <1>2, GoIs
<1>6. tail'[s] = Go(t) /\ \A r \in Session \ {s} : tail'[r] = tail[r]
  BY <1>3, <1>4
<1> QED
  BY <1>2, <1>3, <1>4, <1>5, <1>6, GoIs

LEMMA ReadOnIs ==
    ASSUME DashboardType, NEW s \in Session, TailGood(s), ReadOn(s)
    PROVE  /\ tail' \in [Session -> TailType]
           /\ \A r \in Session \ {s} : tail'[r] = tail[r]
           /\ tail[s].at = "poll" /\ Len(tail[s].work) = 0
           /\ \/ tail'[s] = Ended
              \/ /\ tail[s].offset < Size(s)
                 /\ tail'[s].offset = Size(s) /\ tail'[s].seen = tail[s].seen
                 /\ Len(tail'[s].work) = Size(s) \div 2 - tail[s].offset \div 2
                 /\ \A k \in 1..Len(tail'[s].work) : tail'[s].work[k] = tail[s].offset \div 2 + k
                 /\ tail'[s].at = IF Len(tail'[s].work) = 0 THEN "poll" ELSE "work"
<1>1. tail \in [Session -> TailType] /\ stopping \in {"no", "aborted", "stopped"}
  BY DEF DashboardType
<1>2. tail[s].offset \in Nat /\ Size(s) \in Nat /\ tail[s].work \in Seq(Nat) /\ tail[s] \in TailType
  BY TailFields
<1>3. tail[s].at = "poll" /\ Len(tail[s].work) = 0
  BY <1>2 DEF ReadOn, TailGood
<1>4. CASE tail' = [tail EXCEPT ![s] = Ended]
  <2>1. tail'[s] = Ended /\ \A r \in Session \ {s} : tail'[r] = tail[r]
    BY <1>1, <1>4
  <2>2. tail' \in [Session -> TailType]
    BY <1>1, <1>4, NoTailType
  <2> QED
    BY <1>3, <2>1, <2>2
<1>5. CASE tail' # [tail EXCEPT ![s] = Ended]
  <2> DEFINE lines == Completed(tail[s].offset, Size(s))
             t == [tail[s] EXCEPT !.offset = Size(s), !.at = "work", !.work = lines]
  <2>1. Size(s) > tail[s].offset /\ tail' = [tail EXCEPT ![s] = IF lines = <<>> THEN Go(t) ELSE t]
    BY <1>5 DEF ReadOn
  <2>2. /\ lines \in Seq(Nat) /\ Len(lines) = Size(s) \div 2 - tail[s].offset \div 2
        /\ \A k \in 1..Len(lines) : lines[k] = tail[s].offset \div 2 + k
    <3> DEFINE from == tail[s].offset
               to == Size(s)
    <3>1. from \in Nat /\ to \in Nat /\ from <= to
      BY <1>2, <2>1
    <3> HIDE DEF from, to
    <3>2. /\ Completed(from, to) \in Seq(Nat)
          /\ Len(Completed(from, to)) = to \div 2 - from \div 2
          /\ \A k \in 1..Len(Completed(from, to)) : Completed(from, to)[k] = from \div 2 + k
      BY <3>1, CompletedIs
    <3> QED
      BY <3>2 DEF from, to
  <2> HIDE DEF lines
  <2>3. /\ t \in TailType /\ t.offset = Size(s) /\ t.at = "work" /\ t.work = lines
        /\ t.seen = tail[s].seen
    BY <1>2, <2>2 DEF TailType
  <2> HIDE DEF t
  <2>4. tail'[s] = (IF lines = <<>> THEN Go(t) ELSE t) /\ \A r \in Session \ {s} : tail'[r] = tail[r]
    BY <1>1, <2>1
  <2>5. tail' \in [Session -> TailType]
    BY <1>1, <2>1, <2>3, GoIs
  <2>6. lines = <<>> <=> Len(lines) = 0
    BY <2>2, EmptySeq
  <2>7. CASE lines = <<>>
    <3>1. tail'[s] = Go(t)
      BY <2>4, <2>7
    <3>2. tail'[s] = Ended \/ (/\ tail'[s].at = "poll" /\ tail'[s].offset = Size(s)
                               /\ tail'[s].seen = tail[s].seen /\ tail'[s].work = lines)
      BY <1>1, <2>3, <3>1, GoIs
    <3> QED
      BY <1>2, <1>3, <2>1, <2>2, <2>4, <2>5, <2>6, <2>7, <3>2
  <2>8. CASE lines # <<>>
    <3>1. tail'[s] = t
      BY <2>4, <2>8
    <3> QED
      BY <1>2, <1>3, <2>1, <2>2, <2>3, <2>4, <2>5, <2>6, <2>8, <3>1
  <2> QED
    BY <2>7, <2>8
<1> QED
  BY <1>4, <1>5

LEMMA WorkIs ==
    ASSUME DashboardType, NEW s \in Session, TailGood(s), Work(s)
    PROVE  LET h == Head(tail[s].work)
               e == file[s][h]
               risk == [kind |-> "risk", call |-> e.call, by |-> "dashboard"]
           IN  /\ tail' \in [Session -> TailType]
               /\ \A r \in Session \ {s} : tail'[r] = tail[r]
               /\ tail[s].at = "work"
               /\ e \in Event
               /\ store' = IF e \in tail[s].seen THEN store ELSE Apply(store, e)
               /\ \/ /\ e \notin tail[s].seen /\ e.kind = "invoked" /\ s = "agent" /\ e.call \in Flagged
                     /\ tail'[s].at = "append" /\ tail'[s].seen = tail[s].seen \cup {e, risk}
                     /\ tail'[s].offset = tail[s].offset /\ tail'[s].work = tail[s].work
                  \/ tail'[s] = Ended
                  \/ /\ tail'[s].offset = tail[s].offset /\ tail'[s].work = Tail(tail[s].work)
                     /\ tail'[s].seen = tail[s].seen \cup {e}
                     /\ tail'[s].at = IF Len(tail[s].work) = 1 THEN "poll" ELSE "work"
<1> DEFINE t == tail[s]
           e == file[s][Head(t.work)]
           risk == [kind |-> "risk", call |-> e.call, by |-> "dashboard"]
           found == e \notin t.seen /\ e.kind = "invoked" /\ s = "agent" /\ e.call \in Flagged \ known
           next == [t EXCEPT !.seen = @ \cup {e}]
           wait == [t EXCEPT !.at = "append", !.seen = @ \cup {e, risk}]
<1>1. tail \in [Session -> TailType] /\ t \in TailType /\ t.at = "work" /\ t.seen \subseteq Event
  BY TailFields DEF DashboardType, Work
<1>2. e \in Event /\ t.work # <<>>
  BY <1>1, HeadIs
<1>3. store' = IF e \in t.seen THEN store ELSE Apply(store, e)
  BY DEF Work
<1>4. tail' = IF found THEN [tail EXCEPT ![s].at = "append", ![s].seen = @ \cup {e, risk}]
              ELSE [tail EXCEPT ![s] = NextLine(next)]
  BY DEF Work
<1> HIDE DEF e
<1>5. found => risk \in Event
  BY EventTypes
<1>6. next \in TailType /\ next.seen = t.seen \cup {e} /\ next.offset = t.offset /\ next.work = t.work
  BY <1>1, <1>2 DEF TailType
<1>7. CASE found
  <2>1. tail' = [tail EXCEPT ![s] = wait]
    <3>1. [tail EXCEPT ![s].at = "append", ![s].seen = @ \cup {e, risk}] = [tail EXCEPT ![s] = wait]
      BY <1>1 DEF TailType
    <3> QED
      BY <1>4, <1>7, <3>1
  <2>2. /\ wait \in TailType /\ wait.at = "append" /\ wait.seen = t.seen \cup {e, risk}
        /\ wait.offset = t.offset /\ wait.work = t.work
    BY <1>1, <1>2, <1>5, <1>7 DEF TailType
  <2> HIDE DEF wait
  <2>3. tail'[s] = wait /\ \A r \in Session \ {s} : tail'[r] = tail[r]
    BY <1>1, <2>1
  <2>4. tail' \in [Session -> TailType]
    BY <1>1, <2>1, <2>2
  <2> HIDE DEF t, risk
  <2> QED
    BY <1>1, <1>2, <1>3, <1>7, <2>2, <2>3, <2>4 DEF e, t, risk
<1>8. CASE ~found
  <2>1. tail' = [tail EXCEPT ![s] = NextLine(next)]
    BY <1>4, <1>8
  <2> HIDE DEF next
  <2>2. /\ NextLine(next) \in TailType
        /\ \/ NextLine(next) = Ended
           \/ /\ NextLine(next).offset = t.offset /\ NextLine(next).seen = t.seen \cup {e}
              /\ NextLine(next).work = Tail(t.work)
              /\ NextLine(next).at = IF Len(t.work) = 1 THEN "poll" ELSE "work"
    BY <1>2, <1>6, NextLineIs
  <2>3. tail'[s] = NextLine(next) /\ \A r \in Session \ {s} : tail'[r] = tail[r]
    BY <1>1, <2>1
  <2>4. tail' \in [Session -> TailType]
    BY <1>1, <2>1, <2>2
  <2> HIDE DEF t
  <2> QED
    BY <1>1, <1>2, <1>3, <2>2, <2>3, <2>4 DEF e, t
<1> QED
  BY <1>7, <1>8

LEMMA AppendRiskIs ==
    ASSUME DashboardType, NEW s \in Session, TailGood(s), AppendRisk(s)
    PROVE  LET e == OwnFinding(s)
           IN  /\ e \in Event /\ s = "agent" /\ tail[s].at = "append" /\ s \notin half
               /\ Registered(s) /\ stopping # "stopped"
               /\ file' = [file EXCEPT ![s] = Append(@, e)]
               /\ file' \in [Session -> Seq(Event)]
               /\ store' = Apply(store, e)
               /\ tail' \in [Session -> TailType]
               /\ \A r \in Session \ {s} : tail'[r] = tail[r]
               /\ \/ tail'[s] = Ended
                  \/ /\ tail'[s].offset = tail[s].offset /\ tail'[s].work = Tail(tail[s].work)
                     /\ tail'[s].seen = tail[s].seen
                     /\ tail'[s].at = IF Len(tail[s].work) = 1 THEN "poll" ELSE "work"
<1> DEFINE e == OwnFinding(s)
<1>1. tail \in [Session -> TailType] /\ tail[s] \in TailType /\ tail[s].at = "append"
      /\ file \in [Session -> Seq(Event)]
  BY TailFields DEF DashboardType, AppendRisk
<1>2. tail[s].work # <<>>
  BY <1>1, HeadIs
<1>3. s = "agent" /\ e \in Event
  BY <1>1, EventTypes DEF OwnFinding, TailGood
<1>4. /\ s \notin half /\ Registered(s) /\ stopping # "stopped"
      /\ file' = [file EXCEPT ![s] = Append(@, e)] /\ store' = Apply(store, e)
      /\ tail' = [tail EXCEPT ![s] = NextLine(tail[s])]
  BY DEF AppendRisk, AppendLine, OwnFinding
<1> HIDE DEF e
<1>5. /\ NextLine(tail[s]) \in TailType
      /\ \/ NextLine(tail[s]) = Ended
         \/ /\ NextLine(tail[s]).offset = tail[s].offset /\ NextLine(tail[s]).seen = tail[s].seen
            /\ NextLine(tail[s]).work = Tail(tail[s].work)
            /\ NextLine(tail[s]).at = IF Len(tail[s].work) = 1 THEN "poll" ELSE "work"
  BY <1>1, <1>2, NextLineIs
<1>6. tail'[s] = NextLine(tail[s]) /\ \A r \in Session \ {s} : tail'[r] = tail[r]
  BY <1>1, <1>4
<1>7. tail' \in [Session -> TailType]
  BY <1>1, <1>4, <1>5
<1>8. file' \in [Session -> Seq(Event)]
  BY <1>1, <1>3, <1>4
<1> QED
  BY <1>1, <1>3, <1>4, <1>5, <1>6, <1>7, <1>8 DEF e

(* The next states, one by one. *)
LEMMA StepsAre ==
    ASSUME DashboardNext
    PROVE  \/ \E s \in Session : Register(s)
           \/ \E s \in Session : Tear(s)
           \/ \E s \in Session, c \in ToolCall : Record(s, c)
           \/ \E c \in Flagged : RecordRisk(c)
           \/ Rebuild \/ Replay \/ Prepare \/ FirstPoll \/ Wake \/ NextPoll
           \/ \E s \in Session : Seed(s)
           \/ \E s \in Session : ReadOn(s)
           \/ \E s \in Session : Work(s)
           \/ \E s \in Session : AppendRisk(s)
           \/ TimerFires \/ Settled \/ Abort
  BY DEF DashboardNext, Dashboard

(* What any step does to the log. *)
LogGrows ==
    \/ UNCHANGED <<file, order>> /\ \E s \in Session : index' = Append(index, s)
    \/ UNCHANGED <<index, file, order>>
    \/ \E s \in Session, c \in ToolCall :
         /\ UNCHANGED index
         /\ Recordable(s, c) /\ Registered(s)
         /\ file' = [file EXCEPT ![s] = Append(@, Seen(<<s, c>>))]
         /\ order' = Append(order, <<s, c>>)
    \/ \E c \in Flagged, b \in {"dashboard", "other"} :
         /\ UNCHANGED <<index, order>>
         /\ Registered("agent") /\ "agent" \notin half
         /\ file' = [file EXCEPT !["agent"] = Append(@, [kind |-> "risk", call |-> c, by |-> b])]

LEMMA LogSteps ==
    ASSUME DashboardType, TailInv, DashboardNext
    PROVE  LogGrows
<1>1. ASSUME NEW s \in Session, Register(s) PROVE LogGrows
  BY <1>1 DEF Register, LogGrows
<1>2. ASSUME NEW s \in Session, Tear(s) PROVE LogGrows
  BY <1>2 DEF Tear, LogGrows
<1>3. ASSUME NEW s \in Session, NEW c \in ToolCall, Record(s, c) PROVE LogGrows
  <2>1. Seen(<<s, c>>) = [kind |-> "invoked", call |-> c, by |-> s]
    BY DEF Seen
  <2> QED
    BY <1>3, <2>1 DEF Record, AppendLine, LogGrows
<1>4. ASSUME NEW c \in Flagged, RecordRisk(c) PROVE LogGrows
  BY <1>4 DEF RecordRisk, AppendLine, LogGrows
<1>5. ASSUME NEW s \in Session, AppendRisk(s) PROVE LogGrows
  <2>1. TailGood(s)
    BY DEF TailInv
  <2>2. /\ s = "agent" /\ s \notin half /\ Registered(s)
        /\ file' = [file EXCEPT ![s] = Append(@, OwnFinding(s))] /\ OwnFinding(s) \in Event
    BY <1>5, <2>1, AppendRiskIs
  <2>3. \E c \in Flagged : OwnFinding(s) = [kind |-> "risk", call |-> c, by |-> "dashboard"]
    BY <2>2 DEF OwnFinding, Event
  <2>4. UNCHANGED <<index, order>>
    BY <1>5 DEF AppendRisk
  <2> QED
    BY <2>2, <2>3, <2>4 DEF LogGrows
<1>6. CASE Rebuild \/ Replay \/ Prepare \/ FirstPoll \/ Wake \/ NextPoll \/ TimerFires \/ Settled \/ Abort
  BY <1>6 DEF LogGrows, logVars, Rebuild, Replay, Prepare, FirstPoll, Wake, NextPoll, TimerFires, Settled, Abort
<1>7. ASSUME NEW s \in Session, Seed(s) \/ ReadOn(s) \/ Work(s) PROVE LogGrows
  BY <1>7 DEF LogGrows, logVars, Seed, ReadOn, Work
<1> QED
  BY <1>1, <1>2, <1>3, <1>4, <1>5, <1>6, <1>7, StepsAre

LEMMA RecordableIs ==
    ASSUME DashboardType, NEW s \in Session, NEW c \in ToolCall, Recordable(s, c)
    PROVE  /\ <<s, c>> \in Row
           /\ \A i \in 1..Len(order) : order[i] # <<s, c>>
           /\ s = "proxy" => \E p \in 1..Len(order) : order[p] = <<"agent", c>>
<1>1. order \in Seq(Row)
  BY DEF DashboardType
<1>2. Range(order) = {order[i] : i \in 1..Len(order)}
  BY <1>1, RangeEquality
<1> QED
  BY <1>2 DEF Recordable, Row

LEMMA LogType ==
    ASSUME DashboardType, LogGrows
    PROVE  /\ index' \in Seq(Session) /\ order' \in Seq(Row)
           /\ file' \in [Session -> Seq(Event)]
           /\ \A s \in Session : /\ Len(file[s]) <= Len(file'[s])
                                 /\ \A i \in 1..Len(file[s]) : file'[s][i] = file[s][i]
           /\ Len(order) <= Len(order') /\ \A i \in 1..Len(order) : order'[i] = order[i]
<1>1. /\ index \in Seq(Session) /\ order \in Seq(Row) /\ file \in [Session -> Seq(Event)]
      /\ Len(order) \in Nat /\ \A s \in Session : file[s] \in Seq(Event) /\ Len(file[s]) \in Nat
  BY DEF DashboardType
<1>2. CASE UNCHANGED <<file, order>> /\ \E s \in Session : index' = Append(index, s)
  BY <1>1, <1>2
<1>3. CASE UNCHANGED <<index, file, order>>
  BY <1>1, <1>3
<1>4. ASSUME NEW s \in Session, NEW e \in Event, file' = [file EXCEPT ![s] = Append(@, e)]
      PROVE  /\ file' \in [Session -> Seq(Event)]
             /\ \A r \in Session : /\ Len(file[r]) <= Len(file'[r])
                                   /\ \A i \in 1..Len(file[r]) : file'[r][i] = file[r][i]
  <2>1. Append(file[s], e) \in Seq(Event) /\ Len(Append(file[s], e)) = Len(file[s]) + 1
        /\ \A i \in 1..Len(file[s]) : Append(file[s], e)[i] = file[s][i]
    BY <1>1
  <2>2. file' \in [Session -> Seq(Event)]
    BY <1>1, <1>4, <2>1
  <2>3. ASSUME NEW r \in Session
        PROVE  /\ Len(file[r]) <= Len(file'[r])
               /\ \A i \in 1..Len(file[r]) : file'[r][i] = file[r][i]
    <3>1. CASE r = s
      <4>1. file'[r] = Append(file[s], e)
        BY <1>1, <1>4, <3>1
      <4> QED
        BY <1>1, <2>1, <3>1, <4>1
    <3>2. CASE r # s
      <4>1. file'[r] = file[r]
        BY <1>1, <1>4, <3>2
      <4> QED
        BY <1>1, <4>1
    <3> QED
      BY <3>1, <3>2
  <2> QED
    BY <2>2, <2>3
<1>5. ASSUME NEW s \in Session, NEW c \in ToolCall,
             UNCHANGED index, Recordable(s, c),
             file' = [file EXCEPT ![s] = Append(@, Seen(<<s, c>>))],
             order' = Append(order, <<s, c>>)
      PROVE  /\ index' \in Seq(Session) /\ order' \in Seq(Row)
             /\ Seen(<<s, c>>) \in Event
             /\ Len(order) <= Len(order') /\ \A i \in 1..Len(order) : order'[i] = order[i]
  <2>1. <<s, c>> \in Row /\ Seen(<<s, c>>) \in Event
    BY EventTypes DEF Row, Seen
  <2>2. Append(order, <<s, c>>) \in Seq(Row) /\ Len(Append(order, <<s, c>>)) = Len(order) + 1
        /\ \A i \in 1..Len(order) : Append(order, <<s, c>>)[i] = order[i]
    BY <1>1, <2>1
  <2> QED
    BY <1>1, <1>5, <2>1, <2>2
<1>6. CASE \E s \in Session, c \in ToolCall :
             /\ UNCHANGED index
             /\ Recordable(s, c) /\ Registered(s)
             /\ file' = [file EXCEPT ![s] = Append(@, Seen(<<s, c>>))]
             /\ order' = Append(order, <<s, c>>)
  BY <1>4, <1>5, <1>6
<1>7. CASE \E c \in Flagged, b \in {"dashboard", "other"} :
             /\ UNCHANGED <<index, order>>
             /\ Registered("agent") /\ "agent" \notin half
             /\ file' = [file EXCEPT !["agent"] = Append(@, [kind |-> "risk", call |-> c, by |-> b])]
  <2>1. "agent" \in Session
    BY DEF Session
  <2>2. PICK e \in Event : file' = [file EXCEPT !["agent"] = Append(@, e)]
    BY <1>7, EventTypes
  <2> QED
    BY <1>1, <1>4, <1>7, <2>1, <2>2
<1> QED
  BY <1>2, <1>3, <1>6, <1>7 DEF LogGrows

(* What any step does to the store. *)
StoreMoves ==
    \/ UNCHANGED store
    \/ \E s \in Session : \E i \in 1..Len(file[s]) : store' = Apply(store, file[s][i])
    \/ \E e \in Event : e.kind = "risk" /\ store' = Apply(store, e)
    \/ \E s \in Session : store' = ApplyAll(store, file[s])
    \/ store' = Correlate(store)

LEMMA StoreSteps ==
    ASSUME DashboardType, TailInv, DashboardNext
    PROVE  StoreMoves
<1>1. ASSUME NEW s \in Session, Register(s) PROVE StoreMoves
  BY <1>1 DEF Register, StoreMoves
<1>2. ASSUME NEW s \in Session, Tear(s) PROVE StoreMoves
  BY <1>2 DEF Tear, StoreMoves
<1>3. ASSUME NEW s \in Session, NEW c \in ToolCall, Record(s, c) PROVE StoreMoves
  BY <1>3 DEF Record, StoreMoves
<1>4. ASSUME NEW c \in Flagged, RecordRisk(c) PROVE StoreMoves
  BY <1>4 DEF RecordRisk, StoreMoves
<1>5. ASSUME NEW s \in Session, AppendRisk(s) PROVE StoreMoves
  <2>1. TailGood(s)
    BY DEF TailInv
  <2>2. OwnFinding(s) \in Event /\ store' = Apply(store, OwnFinding(s)) /\ OwnFinding(s).kind = "risk"
    BY <1>5, <2>1, AppendRiskIs DEF OwnFinding
  <2> QED
    BY <2>2 DEF StoreMoves
<1>6. CASE Replay
  <2>1. CASE todo = <<>>
    BY <1>6, <2>1 DEF Replay, StoreMoves
  <2>2. CASE todo # <<>>
    <3>1. Head(todo) \in Session
      BY <2>2 DEF DashboardType
    <3> QED
      BY <1>6, <2>2, <3>1 DEF Replay, StoreMoves
  <2> QED
    BY <2>1, <2>2
<1>7. CASE Rebuild \/ Prepare \/ FirstPoll \/ Wake \/ NextPoll \/ Settled \/ Abort
  BY <1>7 DEF StoreMoves, Rebuild, Prepare, FirstPoll, Wake, NextPoll, Settled, Abort
<1>8. CASE TimerFires
  BY <1>8 DEF StoreMoves, TimerFires
<1>9. ASSUME NEW s \in Session, Seed(s) PROVE StoreMoves
  BY <1>9 DEF StoreMoves, Seed
<1>10. ASSUME NEW s \in Session, ReadOn(s) PROVE StoreMoves
  BY <1>10 DEF StoreMoves, ReadOn
<1>11. ASSUME NEW s \in Session, Work(s) PROVE StoreMoves
  <2>1. TailGood(s) /\ tail[s].at = "work"
    BY <1>11 DEF TailInv, Work
  <2>2. Head(tail[s].work) \in 1..Len(file[s])
    BY <2>1, HeadIs
  <2>3. store' = store \/ store' = Apply(store, file[s][Head(tail[s].work)])
    BY <1>11, <2>1, WorkIs
  <2> QED
    BY <2>2, <2>3 DEF StoreMoves
<1> QED
  BY <1>1, <1>2, <1>3, <1>4, <1>5, <1>6, <1>7, <1>8, <1>9, <1>10, <1>11, StepsAre

LEMMA StoreKeeps ==
    ASSUME DashboardType, Injective(order), Counted(store), StoreMoves
    PROVE  /\ store' \in StoreType /\ Counted(store)' /\ Grows(store, store')
           /\ \A r \in store'.rows : r \in store.rows \/
                \E s \in Session : \E i \in 1..Len(file[s]) :
                  file[s][i].kind = "invoked" /\ r = <<file[s][i].by, file[s][i].call>>
<1>1. store \in StoreType /\ \A s \in Session : file[s] \in Seq(Event)
  BY DEF DashboardType
<1>2. CASE UNCHANGED store
  BY <1>1, <1>2 DEF Grows, Counted
<1>3. ASSUME NEW s \in Session, NEW i \in 1..Len(file[s]), store' = Apply(store, file[s][i])
      PROVE  /\ store' \in StoreType /\ Counted(store') /\ Grows(store, store')
             /\ \A r \in store'.rows : r \in store.rows \/
                  (file[s][i].kind = "invoked" /\ r = <<file[s][i].by, file[s][i].call>>)
  <2>1. file[s][i] \in Event
    BY <1>1
  <2> QED
    BY <1>1, <1>3, <2>1, ApplyKeeps
<1>4. ASSUME NEW e \in Event, e.kind = "risk", store' = Apply(store, e)
      PROVE  /\ store' \in StoreType /\ Counted(store') /\ Grows(store, store')
             /\ \A r \in store'.rows : r \in store.rows
  BY <1>1, <1>4, ApplyKeeps
<1>5. ASSUME NEW s \in Session, store' = ApplyAll(store, file[s])
      PROVE  /\ store' \in StoreType /\ Counted(store') /\ Grows(store, store')
             /\ \A r \in store'.rows : r \in store.rows \/
                  \E i \in 1..Len(file[s]) : file[s][i].kind = "invoked" /\ r = <<file[s][i].by, file[s][i].call>>
  BY <1>1, <1>5, ApplyAllKeeps
<1>6. CASE store' = Correlate(store)
  BY <1>1, <1>6, CorrelateIs DEF Grows, Counted
<1>7. Counted(store)' <=> Counted(store')
  BY DEF Counted
<1> QED
  BY <1>2, <1>3, <1>4, <1>5, <1>6, <1>7 DEF StoreMoves

LEMMA RegisteredStays ==
    ASSUME DashboardType, NEW s \in Session, index' = Append(index, s), NEW r \in Session, Registered(r)
    PROVE  Registered(r)'
<1>1. index \in Seq(Session)
  BY DEF DashboardType
<1>2. PICK i \in 1..Len(index) : index[i] = r
  BY <1>1 DEF Registered
<1>3. i \in 1..Len(index') /\ index'[i] = r /\ index' \in Seq(Session)
  BY <1>1, <1>2
<1> QED
  BY <1>3 DEF Registered

LEMMA LogRecord ==
    ASSUME DashboardType, LogInv, NEW s \in Session, NEW c \in ToolCall,
           UNCHANGED index, Recordable(s, c), Registered(s),
           file' = [file EXCEPT ![s] = Append(@, Seen(<<s, c>>))],
           order' = Append(order, <<s, c>>)
    PROVE  LogInv'
<1> DEFINE row == <<s, c>>
           m == Len(order)
           n == Len(file[s])
<1>1. /\ m \in Nat /\ row \in Row /\ row[1] = s /\ row[2] = c /\ Len(order') = m + 1 /\ order'[m + 1] = row
      /\ \A i \in 1..m : order'[i] = order[i] /\ order[i] \in Row /\ order[i] # row
  <2>1. order \in Seq(Row)
    BY DEF DashboardType
  <2>2. row \in Row /\ \A i \in 1..m : order[i] # row
    BY RecordableIs
  <2> HIDE DEF row
  <2>3. m \in Nat /\ Len(order') = m + 1 /\ order'[m + 1] = row /\ \A i \in 1..m : order'[i] = order[i] /\ order[i] \in Row
    BY <2>1, <2>2 DEF row
  <2> QED
    BY <2>2, <2>3 DEF row
<1>2. /\ n \in Nat /\ Len(file'[s]) = n + 1 /\ file'[s][n + 1] = Seen(row)
      /\ \A i \in 1..n : file'[s][i] = file[s][i]
      /\ \A r \in Session \ {s} : file'[r] = file[r]
  <2>1. file \in [Session -> Seq(Event)] /\ file[s] \in Seq(Event)
    BY DEF DashboardType
  <2>2. file'[s] = Append(file[s], Seen(row)) /\ \A r \in Session \ {s} : file'[r] = file[r]
    BY <2>1
  <2> HIDE DEF row
  <2> QED
    BY <2>1, <2>2
<1>3. Injective(order) /\ HooksFirst(order)
  BY DEF LogInv
<1>4. /\ \A r \in Row : r[1] \in Session /\ Seen(r).kind = "invoked" /\ Seen(r).call = r[2] /\ Seen(r).by = r[1]
                        /\ r = <<r[1], r[2]>>
      /\ \A q, r \in Row : Seen(q) = Seen(r) => q = r
  BY DEF Row, Seen
<1>21. Ordered(file, order) /\ Logged(file, order) /\ SameOrder(file, order)
  BY DEF LogInv
<1>5. s = "proxy" => \E p \in 1..m : order[p] = <<"agent", c>>
  BY RecordableIs
<1>6. \A i \in 1..n : file[s][i] # Seen(row)
  <2>1. ASSUME NEW i \in 1..n, file[s][i] = Seen(row) PROVE FALSE
    <3>3. file[s][i].kind = "invoked"
      BY <1>1, <1>4, <2>1
    <3>1. PICK p \in 1..m : order[p] = <<s, file[s][i].call>>
      BY <1>21, <3>3 DEF Ordered
    <3>2. file[s][i].call = c
      BY <1>1, <1>4, <2>1
    <3> QED
      BY <1>1, <3>1, <3>2
  <2> QED
    BY <2>1
<1>7. \A i \in 1..m + 1 : i \in 1..m \/ i = m + 1
  BY <1>1
<1>8. \A i \in 1..n + 1 : i \in 1..n \/ i = n + 1
  BY <1>2
<1>9. \A i \in 1..m : i \in 1..m + 1
  BY <1>1
<1>10. \A i \in 1..n : i \in 1..n + 1
  BY <1>2
<1>11. \A r \in Session : \A i \in 1..Len(file[r]) : i \in 1..Len(file'[r]) /\ file'[r][i] = file[r][i]
  <2> HIDE DEF row
  <2>1. ASSUME NEW r \in Session, NEW i \in 1..Len(file[r])
        PROVE  i \in 1..Len(file'[r]) /\ file'[r][i] = file[r][i]
    BY <1>2, <1>10
  <2> QED
    BY <2>1
<1> HIDE DEF row, m, n
<1>12. Injective(order')
  BY <1>1, <1>3, <1>7 DEF Injective, m
<1>13. HooksFirst(order')
  <2>1. ASSUME NEW i \in 1..m + 1, order'[i][1] = "proxy"
        PROVE  \E p \in 1..i - 1 : order'[p] = <<"agent", order'[i][2]>>
    <3>1. CASE i \in 1..m
      <4>1. PICK p \in 1..i - 1 : order[p] = <<"agent", order[i][2]>>
        BY <1>1, <1>3, <2>1, <3>1 DEF HooksFirst, m
      <4>2. p \in 1..m
        BY <1>1, <3>1
      <4> QED
        BY <1>1, <3>1, <4>1, <4>2
    <3>2. CASE i = m + 1
      <4>1. s = "proxy" /\ order'[i][2] = c
        BY <1>1, <2>1, <3>2
      <4>2. PICK p \in 1..m : order[p] = <<"agent", c>>
        BY <1>5, <4>1
      <4>3. i - 1 = m
        BY <1>1, <3>2
      <4> QED
        BY <1>1, <4>1, <4>2, <4>3
    <3> QED
      BY <1>7, <3>1, <3>2
  <2> QED
    BY <1>1, <2>1 DEF HooksFirst
<1>14. ASSUME NEW r \in Session, NEW i \in 1..Len(file'[r]), file'[r][i].kind = "invoked"
       PROVE  file'[r][i].by = r /\ \E p \in 1..Len(order') : order'[p] = <<r, file'[r][i].call>>
  <2>1. CASE i \in 1..Len(file[r])
    <3>1. file'[r][i] = file[r][i]
      BY <1>11, <2>1
    <3>2. file[r][i].by = r /\ \E p \in 1..m : order[p] = <<r, file[r][i].call>>
      <4>1. file[r][i].kind = "invoked"
        BY <1>14, <3>1
      <4> QED
        BY <1>21, <2>1, <4>1 DEF Ordered, m
    <3>3. PICK p \in 1..m : order[p] = <<r, file[r][i].call>>
      BY <3>2
    <3>4. p \in 1..Len(order') /\ order'[p] = order[p]
      BY <1>1
    <3> QED
      BY <3>1, <3>2, <3>3, <3>4
  <2>2. CASE i \notin 1..Len(file[r])
    <3>1. r = s /\ i = n + 1
      BY <1>2, <1>8, <2>2 DEF n
    <3>2. file'[r][i] = Seen(row)
      BY <1>2, <3>1
    <3>3. m + 1 \in 1..Len(order') /\ order'[m + 1] = row /\ row = <<s, c>>
      BY <1>1 DEF row
    <3>4. file'[r][i].by = r /\ file'[r][i].call = c
      BY <1>1, <1>4, <3>1, <3>2
    <3> QED
      BY <3>1, <3>3, <3>4
  <2> QED
    BY <2>1, <2>2
<1>15. ASSUME NEW p \in 1..m PROVE \E i \in 1..Len(file'[order[p][1]]) : file'[order[p][1]][i] = Seen(order[p])
  <2>1. order[p][1] \in Session
    BY <1>1, <1>4
  <2>2. \E i \in 1..Len(file[order[p][1]]) : file[order[p][1]][i] = Seen(order[p])
    BY <1>21 DEF Logged, m
  <2> QED
    BY <1>11, <2>1, <2>2
<1>23. 1..Len(order') = 1..m + 1
  BY <1>1
<1>16. ASSUME NEW p \in 1..Len(order')
       PROVE  \E i \in 1..Len(file'[order'[p][1]]) : file'[order'[p][1]][i] = Seen(order'[p])
  <2>1. CASE p \in 1..m
    BY <1>1, <1>15, <2>1
  <2>2. CASE p = m + 1
    <3>1. n + 1 \in 1..n + 1
      BY <1>2
    <3> QED
      BY <1>1, <1>2, <2>2, <3>1
  <2> QED
    BY <1>7, <1>23, <2>1, <2>2
<1>17. ASSUME NEW x \in 1..Len(order'), NEW p \in 1..x - 1, order'[p][1] = order'[x][1],
              NEW j \in 1..Len(file'[order'[x][1]]), file'[order'[x][1]][j] = Seen(order'[x])
       PROVE  \E i \in 1..j - 1 : file'[order'[x][1]][i] = Seen(order'[p])
  <2>1. p \in 1..m /\ order'[p] = order[p]
    BY <1>1
  <2>2. CASE x \in 1..m
    <3>1. order'[x] = order[x] /\ order[x] \in Row
      BY <1>1, <2>2
    <3> DEFINE r == order[x][1]
    <3>2. r \in Session
      BY <1>4, <3>1
    <3>3. j \in 1..Len(file[r])
      <4>1. ASSUME j \notin 1..Len(file[r]) PROVE FALSE
        <5>1. r = s /\ j = n + 1
          BY <1>2, <1>8, <1>17, <3>1, <3>2, <4>1 DEF n
        <5>2. Seen(row) = Seen(order[x])
          BY <1>2, <1>17, <3>1, <5>1
        <5>3. row = order[x]
          BY <1>1, <1>4, <3>1, <5>2
        <5> QED
          BY <1>1, <2>2, <5>3
      <4> QED
        BY <4>1
    <3>4. file[r][j] = Seen(order[x])
      BY <1>11, <1>17, <3>1, <3>2, <3>3
    <3>5. PICK i \in 1..j - 1 : file[r][i] = Seen(order[p])
      BY <1>17, <1>21, <2>1, <2>2, <3>1, <3>3, <3>4 DEF SameOrder, m
    <3>6. i \in 1..Len(file[r])
      <4>1. Len(file[r]) \in Nat
        BY <3>2, TailFields
      <4> QED
        BY <3>3, <4>1
    <3> QED
      BY <1>11, <2>1, <3>1, <3>2, <3>5, <3>6
  <2>3. CASE x = m + 1
    <3>1. order'[x] = row
      BY <1>1, <2>3
    <3>2. j = n + 1
      <4>1. j \in 1..n + 1 /\ file'[s][j] = Seen(row)
        BY <1>1, <1>2, <1>17, <3>1
      <4> QED
        BY <1>2, <1>6, <1>8, <4>1
    <3>3. order[p][1] = s
      BY <1>1, <1>17, <2>1, <3>1
    <3>4. PICK i \in 1..n : file[s][i] = Seen(order[p])
      BY <1>21, <2>1, <3>3 DEF Logged, m, n
    <3>5. i \in 1..j - 1
      BY <1>2, <3>2
    <3> QED
      BY <1>1, <1>2, <2>1, <3>1, <3>4, <3>5
  <2> QED
    BY <1>7, <1>23, <2>2, <2>3
<1>18. ASSUME NEW r \in Session, file'[r] # <<>> PROVE Registered(r)'
  <2>1. Registered(r)
    BY <1>2, <1>18 DEF LogInv
  <2> QED
    BY <2>1 DEF Registered
<1>19. Ordered(file', order')
  BY <1>14 DEF Ordered
<1>20. Logged(file', order')
  BY <1>16 DEF Logged
<1>22. SameOrder(file', order')
  BY <1>17 DEF SameOrder
<1> QED
  BY <1>12, <1>13, <1>18, <1>19, <1>20, <1>22 DEF LogInv

LEMMA LogRisk ==
    ASSUME DashboardType, LogInv, NEW s \in Session, NEW e \in Event, e.kind = "risk",
           UNCHANGED <<index, order>>, Registered(s),
           file' = [file EXCEPT ![s] = Append(@, e)]
    PROVE  LogInv'
<1> DEFINE n == Len(file[s])
<1>1. /\ n \in Nat /\ Len(file'[s]) = n + 1 /\ file'[s][n + 1] = e
      /\ \A i \in 1..n : file'[s][i] = file[s][i]
      /\ \A r \in Session \ {s} : file'[r] = file[r]
  <2>1. file \in [Session -> Seq(Event)] /\ file[s] \in Seq(Event)
    BY DEF DashboardType
  <2>2. file'[s] = Append(file[s], e) /\ \A r \in Session \ {s} : file'[r] = file[r]
    BY <2>1
  <2> QED
    BY <2>1, <2>2
<1>2. \A r \in Session : Len(file[r]) \in Nat
  BY TailFields
<1>3. \A r : Seen(r).kind = "invoked"
  BY DEF Seen
<1>4. \A r \in Session : \A i \in 1..Len(file'[r]) :
        file'[r][i].kind = "invoked" => i \in 1..Len(file[r]) /\ file'[r][i] = file[r][i]
  <2>1. ASSUME NEW r \in Session, NEW i \in 1..Len(file'[r]), file'[r][i].kind = "invoked"
        PROVE  i \in 1..Len(file[r]) /\ file'[r][i] = file[r][i]
    <3>1. CASE r = s
      <4>1. i # n + 1
        BY <1>1, <2>1, <3>1
      <4>2. i \in 1..n
        BY <1>1, <2>1, <3>1, <4>1
      <4> QED
        BY <1>1, <3>1, <4>2
    <3>2. CASE r # s
      BY <1>1, <2>1, <3>2
    <3> QED
      BY <3>1, <3>2
  <2> QED
    BY <2>1
<1>5. \A r \in Session : \A i \in 1..Len(file[r]) : i \in 1..Len(file'[r]) /\ file'[r][i] = file[r][i]
  <2>1. ASSUME NEW r \in Session, NEW i \in 1..Len(file[r])
        PROVE  i \in 1..Len(file'[r]) /\ file'[r][i] = file[r][i]
    <3>1. CASE r = s
      BY <1>1, <3>1
    <3>2. CASE r # s
      BY <1>1, <3>2
    <3> QED
      BY <3>1, <3>2
  <2> QED
    BY <2>1
<1>6. \A p \in 1..Len(order) : order[p][1] \in Session
  BY DEF DashboardType, Row
<1>7. ASSUME NEW r \in Session, file'[r] # <<>> PROVE Registered(r)'
  <2>1. Registered(r)
    BY <1>1, <1>7 DEF LogInv
  <2> QED
    BY <2>1 DEF Registered
<1> HIDE DEF n
<1>12. Ordered(file, order) /\ Logged(file, order) /\ SameOrder(file, order)
  BY DEF LogInv
<1>8. Logged(file', order')
  <2>1. ASSUME NEW p \in 1..Len(order)
        PROVE  \E i \in 1..Len(file'[order[p][1]]) : file'[order[p][1]][i] = Seen(order[p])
    <3>1. \E i \in 1..Len(file[order[p][1]]) : file[order[p][1]][i] = Seen(order[p])
      BY <1>12 DEF Logged
    <3> QED
      BY <1>5, <1>6, <3>1
  <2> QED
    BY <2>1 DEF Logged
<1>9. ASSUME NEW x \in 1..Len(order), NEW p \in 1..x - 1, order[p][1] = order[x][1],
              NEW j \in 1..Len(file'[order[x][1]]), file'[order[x][1]][j] = Seen(order[x])
       PROVE  \E i \in 1..j - 1 : file'[order[x][1]][i] = Seen(order[p])
  <2> DEFINE r == order[x][1]
  <2>1. r \in Session
    BY <1>6
  <2>2. j \in 1..Len(file[r]) /\ file[r][j] = Seen(order[x])
    BY <1>3, <1>4, <1>9, <2>1
  <2>3. PICK i \in 1..j - 1 : file[r][i] = Seen(order[p])
    BY <1>9, <1>12, <2>2 DEF SameOrder
  <2>4. i \in 1..Len(file[r])
    BY <1>2, <2>1, <2>2
  <2> QED
    BY <1>5, <2>1, <2>3, <2>4
<1>10. Injective(order') /\ HooksFirst(order')
  BY DEF LogInv
<1>11. Ordered(file', order')
  <2>1. ASSUME NEW r \in Session, NEW i \in 1..Len(file'[r]), file'[r][i].kind = "invoked"
        PROVE  file'[r][i].by = r /\ \E p \in 1..Len(order') : order'[p] = <<r, file'[r][i].call>>
    <3>1. i \in 1..Len(file[r]) /\ file'[r][i] = file[r][i]
      BY <1>4, <2>1
    <3>2. file[r][i].kind = "invoked"
      BY <2>1, <3>1
    <3>3. file[r][i].by = r /\ \E p \in 1..Len(order) : order[p] = <<r, file[r][i].call>>
      BY <1>12, <3>1, <3>2 DEF Ordered
    <3>4. order' = order
      OBVIOUS
    <3> QED
      BY <3>1, <3>3, <3>4
  <2> QED
    BY <2>1 DEF Ordered
<1>13. SameOrder(file', order')
  BY <1>9 DEF SameOrder
<1> QED
  BY <1>7, <1>8, <1>10, <1>11, <1>13 DEF LogInv

LEMMA LogStep ==
    ASSUME DashboardType, LogInv, LogGrows
    PROVE  LogInv'
<1>1. CASE UNCHANGED <<file, order>> /\ \E s \in Session : index' = Append(index, s)
  <2>1. \A s \in Session : file'[s] # <<>> => Registered(s)'
    BY <1>1, RegisteredStays DEF LogInv
  <2> QED
    BY <1>1, <2>1 DEF LogInv
<1>2. CASE UNCHANGED <<index, file, order>>
  BY <1>2 DEF LogInv, Registered
<1>3. CASE \E s \in Session, c \in ToolCall :
             /\ UNCHANGED index
             /\ Recordable(s, c) /\ Registered(s)
             /\ file' = [file EXCEPT ![s] = Append(@, Seen(<<s, c>>))]
             /\ order' = Append(order, <<s, c>>)
  BY <1>3, LogRecord
<1>4. CASE \E c \in Flagged, b \in {"dashboard", "other"} :
             /\ UNCHANGED <<index, order>>
             /\ Registered("agent") /\ "agent" \notin half
             /\ file' = [file EXCEPT !["agent"] = Append(@, [kind |-> "risk", call |-> c, by |-> b])]
  <2>1. PICK c \in Flagged, b \in {"dashboard", "other"} :
             file' = [file EXCEPT !["agent"] = Append(@, [kind |-> "risk", call |-> c, by |-> b])]
    BY <1>4
  <2> DEFINE e == [kind |-> "risk", call |-> c, by |-> b]
  <2>2. e \in Event /\ e.kind = "risk" /\ "agent" \in Session
    BY EventTypes DEF Session
  <2> HIDE DEF e
  <2> QED
    BY <1>4, <2>1, <2>2, LogRisk DEF e
<1> QED
  BY <1>1, <1>2, <1>3, <1>4 DEF LogGrows

-----------------------------------------------------------------------------
(* The invariant, step by step. *)
DashboardInv == DashboardType /\ LogInv /\ TailInv /\ StopInv /\ StoreInv /\ PassedInv /\ PairInv

LEMMA PairsNone == ASSUME NEW ord \in Seq(Row), Injective(ord) PROVE Pairs(ord, {}) = {}
  BY PairsRows

LEMMA InitTail ==
    ASSUME DashboardInit
    PROVE  \A s \in Session : /\ tail[s] \in TailType /\ tail[s].at = "none" /\ tail[s].offset = 0
                              /\ tail[s].seen = {} /\ Len(tail[s].work) = 0
                              /\ file[s] = <<>> /\ Len(file[s]) = 0 /\ Size(s) = 0
<1>1. Len(<<>>) = 0
  OBVIOUS
<1>2. \A s \in Session : tail[s] = NoTail /\ file[s] = <<>> /\ Size(s) = 0
  BY DEF DashboardInit, Size
<1> QED
  BY <1>1, <1>2, NoTailType

LEMMA InitStore ==
    /\ EmptyStore \in StoreType /\ Counted(EmptyStore)
    /\ EmptyStore.rows = {} /\ EmptyStore.risks = {} /\ EmptyStore.servers = {}
    /\ \A r \in Row : EmptyStore.cid[r] = 0
<1>1. EmptyStore \in StoreType
  BY DEF EmptyStore, StoreType
<1>2. Cardinality({}) = 0
  BY FS_EmptySet
<1>3. \A s \in Session : {r \in {} : r[1] = s} = {}
  OBVIOUS
<1> QED
  BY <1>1, <1>2, <1>3 DEF EmptyStore, Counted

LEMMA InitInv == DashboardInit => DashboardInv
<1> SUFFICES ASSUME DashboardInit PROVE DashboardInv
  OBVIOUS
<1>1. <<>> \in Seq(Row) /\ <<>> \in Seq(Session) /\ <<>> \in Seq(Event) /\ Len(<<>>) = 0
      /\ <<"agent", "agent">> \in Seq(Session)
  BY DEF Session
<1>2. index \in Seq(Session) /\ file \in [Session -> Seq(Event)]
  BY <1>1 DEF DashboardInit
<1>3. tail \in [Session -> TailType]
  BY NoTailType DEF DashboardInit
<1>4. DashboardType
  <2>1. store \in StoreType /\ torn \in 0..MaxTorn
    BY InitStore, DashboardAssumption DEF DashboardInit
  <2>2. order \in Seq(Row) /\ todo \in Seq(Session)
    BY <1>1 DEF DashboardInit
  <2> QED
    BY <1>2, <1>3, <2>1, <2>2 DEF DashboardInit, DashboardType
<1>5. LogInv
  BY <1>1 DEF DashboardInit, LogInv, Injective, HooksFirst, Ordered, Logged, SameOrder
<1>6. TailInv
  <2>1. ASSUME NEW s \in Session PROVE TailGood(s)
    <3>1. 0 \div 2 = 0
      OBVIOUS
    <3> QED
      BY <3>1, InitTail DEF TailGood
  <2> QED
    BY <2>1 DEF TailInv
<1>7. StopInv
  BY DEF DashboardInit, StopInv
<1>8. StoreInv
  BY InitStore DEF DashboardInit, StoreInv
<1>9. PassedInv
  BY InitTail DEF PassedInv, PassedGood, Passed
<1>10. PairInv
  <2>1. Pairs(order, store.rows) = {}
    BY <1>1, <1>5, InitStore, PairsNone DEF DashboardInit, LogInv
  <2>2. store = EmptyStore /\ order = <<>> /\ phase = "start"
    BY DEF DashboardInit
  <2>3. Closed(order, store.rows) /\ CidFrom(order, store) /\ ServersFrom(order, store)
    BY <1>1, <2>1, <2>2, InitStore DEF Closed, CidFrom, ServersFrom
  <2> QED
    BY <2>2, <2>3 DEF PairInv, PassDone
<1> QED
  BY <1>4, <1>5, <1>6, <1>7, <1>8, <1>9, <1>10 DEF DashboardInv

LEMMA RestType ==
    ASSUME DashboardType, TailInv, DashboardNext
    PROVE  /\ todo' \in Seq(Session) /\ half' \subseteq Session /\ torn' \in 0..MaxTorn
           /\ phase' \in {"start", "replay", "prepare", "live"}
           /\ tail' \in [Session -> TailType] /\ known' \subseteq Flagged
           /\ poller' \in {"off", "first", "sleep", "list", "done"} /\ timer' \in BOOLEAN
           /\ stopping' \in {"no", "aborted", "stopped"} /\ waitFor' \subseteq Session \cup {"poller"}
           /\ missed' \subseteq Event /\ unpaired' \in BOOLEAN
<1> DEFINE Goal == /\ todo' \in Seq(Session) /\ half' \subseteq Session /\ torn' \in 0..MaxTorn
                   /\ phase' \in {"start", "replay", "prepare", "live"}
                   /\ tail' \in [Session -> TailType] /\ known' \subseteq Flagged
                   /\ poller' \in {"off", "first", "sleep", "list", "done"} /\ timer' \in BOOLEAN
                   /\ stopping' \in {"no", "aborted", "stopped"} /\ waitFor' \subseteq Session \cup {"poller"}
                   /\ missed' \subseteq Event /\ unpaired' \in BOOLEAN
<1>0. /\ index \in Seq(Session) /\ todo \in Seq(Session) /\ half \subseteq Session /\ torn \in 0..MaxTorn
      /\ phase \in {"start", "replay", "prepare", "live"}
      /\ tail \in [Session -> TailType] /\ known \subseteq Flagged
      /\ poller \in {"off", "first", "sleep", "list", "done"} /\ timer \in BOOLEAN
      /\ stopping \in {"no", "aborted", "stopped"} /\ waitFor \subseteq Session \cup {"poller"}
      /\ missed \subseteq Event /\ unpaired \in BOOLEAN
  BY DEF DashboardType
<1>1. ASSUME NEW s \in Session, Register(s) PROVE Goal
  BY <1>0, <1>1 DEF Register, liveVars
<1>2. ASSUME NEW s \in Session, Tear(s) PROVE Goal
  <2>1. torn' \in 0..MaxTorn
    BY <1>0, <1>2, DashboardAssumption DEF Tear
  <2> QED
    BY <1>0, <1>2, <2>1 DEF Tear, liveVars
<1>3. ASSUME NEW s \in Session, NEW c \in ToolCall, Record(s, c) PROVE Goal
  BY <1>0, <1>3 DEF Record, liveVars
<1>4. ASSUME NEW c \in Flagged, RecordRisk(c) PROVE Goal
  BY <1>0, <1>4 DEF RecordRisk, liveVars
<1>5. ASSUME NEW s \in Session, AppendRisk(s) PROVE Goal
  <2>1. tail' \in [Session -> TailType]
    BY <1>5, AppendRiskIs DEF TailInv
  <2> QED
    BY <1>0, <1>5, <2>1 DEF AppendRisk
<1>6. CASE Rebuild
  BY <1>0, <1>6 DEF Rebuild, logVars, liveVars
<1>7. CASE Replay
  <2>1. todo # <<>> => Tail(todo) \in Seq(Session)
    BY <1>0
  <2> QED
    BY <1>0, <1>7, <2>1 DEF Replay, logVars, liveVars
<1>8. CASE Prepare
  BY <1>0, <1>8 DEF Prepare, logVars
<1>9. CASE FirstPoll \/ NextPoll
  <2>1. tail' \in [Session -> TailType]
    BY <1>9, LaunchedIs DEF FirstPoll, NextPoll
  <2> QED
    BY <1>0, <1>9, <2>1 DEF FirstPoll, NextPoll, logVars
<1>10. CASE Wake
  BY <1>0, <1>10 DEF Wake, logVars
<1>11. ASSUME NEW s \in Session, Seed(s) PROVE Goal
  <2>1. tail' \in [Session -> TailType]
    BY <1>11, SeedIs
  <2>2. Lines(s) \subseteq Event
    BY TailFields DEF Lines
  <2>3. RiskCalls(Lines(s)) \subseteq Flagged
    BY <2>2, EventTypes DEF RiskCalls
  <2>4. known' \subseteq Flagged /\ missed' \subseteq Event
    BY <1>0, <1>11, <2>2, <2>3 DEF Seed
  <2>5. unpaired' \in BOOLEAN
    BY <1>11 DEF Seed
  <2> QED
    BY <1>0, <1>11, <2>1, <2>4, <2>5 DEF Seed, logVars
<1>12. ASSUME NEW s \in Session, ReadOn(s) PROVE Goal
  <2>1. tail' \in [Session -> TailType]
    BY <1>12, ReadOnIs DEF TailInv
  <2> QED
    BY <1>0, <1>12, <2>1 DEF ReadOn, logVars
<1>13. ASSUME NEW s \in Session, Work(s) PROVE Goal
  <2>1. tail' \in [Session -> TailType] /\ file[s][Head(tail[s].work)] \in Event
    BY <1>13, WorkIs DEF TailInv
  <2>2. known' \subseteq Flagged
    BY <1>0, <1>13, <2>1, EventTypes DEF Work
  <2>3. timer' \in BOOLEAN
    BY <1>13 DEF Work
  <2> QED
    BY <1>0, <1>13, <2>1, <2>2, <2>3 DEF Work, logVars
<1>14. CASE TimerFires
  BY <1>0, <1>14 DEF TimerFires, logVars
<1>15. Running \subseteq Session \cup {"poller"}
  BY DEF Running
<1>16. CASE Settled
  BY <1>0, <1>15, <1>16 DEF Settled, logVars
<1>17. CASE Abort
  BY <1>0, <1>15, <1>17 DEF Abort, logVars
<1> QED
  BY <1>1, <1>2, <1>3, <1>4, <1>5, <1>6, <1>7, <1>8, <1>9, <1>10, <1>11, <1>12, <1>13,
     <1>14, <1>16, <1>17, StepsAre

LEMMA LogTypeStep ==
    ASSUME DashboardType, LogInv, TailInv, StoreInv, DashboardNext
    PROVE  DashboardType' /\ LogInv' /\ LogGrows /\ StoreMoves
<1>1. LogGrows /\ StoreMoves
  BY LogSteps, StoreSteps
<1>2. index' \in Seq(Session) /\ order' \in Seq(Row) /\ file' \in [Session -> Seq(Event)]
  BY <1>1, LogType
<1>3. store' \in StoreType
  BY <1>1, StoreKeeps DEF LogInv, StoreInv
<1>4. LogInv'
  BY <1>1, LogStep
<1> QED
  BY <1>1, <1>2, <1>3, <1>4, RestType DEF DashboardType

LEMMA StoreStep ==
    ASSUME DashboardType, LogInv, StoreInv, LogGrows, StoreMoves
    PROVE  StoreInv'
<1>1. /\ Counted(store)'
      /\ \A r \in store'.rows : r \in store.rows \/
           \E s \in Session : \E i \in 1..Len(file[s]) :
             file[s][i].kind = "invoked" /\ r = <<file[s][i].by, file[s][i].call>>
  BY StoreKeeps DEF LogInv, StoreInv
<1>2. ASSUME NEW r \in store'.rows PROVE \E p \in 1..Len(order) : order[p] = r
  <2>1. CASE r \in store.rows
    BY <2>1 DEF StoreInv
  <2>2. CASE r \notin store.rows
    <3>1. PICK s \in Session : \E i \in 1..Len(file[s]) :
             file[s][i].kind = "invoked" /\ r = <<file[s][i].by, file[s][i].call>>
      BY <1>1, <2>2
    <3>2. PICK i \in 1..Len(file[s]) :
             file[s][i].kind = "invoked" /\ r = <<file[s][i].by, file[s][i].call>>
      BY <3>1
    <3>3. file[s][i].by = s /\ \E p \in 1..Len(order) : order[p] = <<s, file[s][i].call>>
      BY <3>2 DEF LogInv, Ordered
    <3> QED
      BY <3>2, <3>3
  <2> QED
    BY <2>1, <2>2
<1>3. /\ Len(order) <= Len(order') /\ Len(order) \in Nat /\ Len(order') \in Nat
      /\ \A i \in 1..Len(order) : order'[i] = order[i]
  BY LogType DEF DashboardType
<1>4. \A r \in store'.rows : \E p \in 1..Len(order') : order'[p] = r
  BY <1>2, <1>3
<1> QED
  BY <1>1, <1>4 DEF StoreInv

LEMMA StopStep ==
    ASSUME DashboardType, TailInv, StopInv, DashboardNext
    PROVE  StopInv'
<1> USE DEF StopInv
<1>0. tail \in [Session -> TailType] /\ stopping \in {"no", "aborted", "stopped"} /\ timer \in BOOLEAN
      /\ poller \in {"off", "first", "sleep", "list", "done"}
      /\ phase \in {"start", "replay", "prepare", "live"}
  BY DEF DashboardType
<1>1. ASSUME UNCHANGED <<tail, poller, stopping, timer>>,
             phase' = phase \/ (phase \in {"start", "replay"} /\ phase' \in {"replay", "prepare"})
      PROVE  StopInv'
  BY <1>1 DEF Running
<1>2. ASSUME NEW s \in Session, Register(s) \/ Tear(s) \/ \E c \in ToolCall : Record(s, c) PROVE StopInv'
  BY <1>1, <1>2 DEF Register, Tear, Record, liveVars
<1>3. ASSUME NEW c \in Flagged, RecordRisk(c) PROVE StopInv'
  BY <1>1, <1>3 DEF RecordRisk, liveVars
<1>4. CASE Rebuild \/ Replay
  BY <1>1, <1>4 DEF Rebuild, Replay, liveVars
<1>5. CASE Prepare
  BY <1>0, <1>5 DEF Prepare, Running
<1>6. CASE FirstPoll \/ NextPoll
  <2>1. poller \in {"first", "list"} /\ poller' \in {"sleep", "done"} /\ UNCHANGED <<phase, timer, stopping>>
    BY <1>6 DEF FirstPoll, NextPoll
  <2>2. "poller" \in Running
    BY <2>1 DEF Running
  <2> QED
    BY <2>1, <2>2
<1>7. CASE Wake
  <2>1. poller = "sleep" /\ poller' \in {"list", "done"} /\ UNCHANGED <<phase, timer, stopping>>
    BY <1>7 DEF Wake
  <2>2. "poller" \in Running
    BY <2>1 DEF Running
  <2> QED
    BY <2>1, <2>2
<1>8. ASSUME NEW s \in Session, Seed(s) \/ ReadOn(s) \/ Work(s) \/ AppendRisk(s) PROVE StopInv'
  <2>1. /\ tail[s].at \notin {"none", "done"} /\ UNCHANGED <<phase, stopping, poller>>
        /\ timer' => (timer \/ stopping = "no")
    <3>1. CASE Seed(s) \/ ReadOn(s)
      BY <3>1 DEF Seed, ReadOn
    <3>2. CASE Work(s)
      BY <1>0, <3>2 DEF Work
    <3>3. CASE AppendRisk(s)
      BY <1>0, <3>3 DEF AppendRisk
    <3> QED
      BY <1>8, <3>1, <3>2, <3>3
  <2>2. stopping # "stopped"
    BY <2>1 DEF Running
  <2> QED
    BY <2>1, <2>2
<1>9. CASE TimerFires
  BY <1>9 DEF TimerFires, Running
<1>10. CASE Settled
  BY <1>0, <1>10 DEF Settled, Running
<1>11. CASE Abort
  BY <1>0, <1>11 DEF Abort, Running
<1> QED
  BY <1>2, <1>3, <1>4, <1>5, <1>6, <1>7, <1>8, <1>9, <1>10, <1>11, StepsAre

LEMMA SizeNext ==
    ASSUME DashboardType', NEW s \in Session
    PROVE  Size(s)' \in Nat /\ Size(s)' \in {2 * Len(file'[s]), 2 * Len(file'[s]) + 1}
<1>1. Len(file'[s]) \in Nat
  BY DEF DashboardType
<1>2. Size(s)' = 2 * Len(file'[s]) + IF s \in half' THEN 1 ELSE 0
  BY DEF Size
<1>3. s \in half' => Size(s)' = 2 * Len(file'[s]) + 1
  BY <1>2
<1>4. s \notin half' => Size(s)' = 2 * Len(file'[s]) + 0
  BY <1>2
<1> QED
  BY <1>1, <1>3, <1>4

(* Files, the store and what was missed only grow. *)
Onward(s) ==
    /\ Size(s) <= Size(s)'
    /\ Len(file[s]) <= Len(file'[s]) /\ \A i \in 1..Len(file[s]) : file'[s][i] = file[s][i]
    /\ Grows(store, store')
    /\ missed \subseteq missed'

LEMMA OnwardSteps ==
    ASSUME DashboardType, DashboardType', LogInv, TailInv, StoreInv, DashboardNext, LogGrows, StoreMoves
    PROVE  \A s \in Session : Onward(s)
<1>1. \A s \in Session : /\ Len(file[s]) \in Nat /\ Len(file'[s]) \in Nat /\ Len(file[s]) <= Len(file'[s])
                         /\ \A i \in 1..Len(file[s]) : file'[s][i] = file[s][i]
  <2>1. \A s \in Session : file[s] \in Seq(Event) /\ file'[s] \in Seq(Event)
    BY DEF DashboardType
  <2> QED
    BY <2>1, LogType
<1>2. Grows(store, store')
  BY StoreKeeps DEF LogInv, StoreInv
<1>3. missed \subseteq missed'
  BY StepsAre DEF Register, Tear, Record, RecordRisk, Rebuild, Replay, Prepare, FirstPoll, Wake, NextPoll,
                  Seed, ReadOn, Work, AppendRisk, TimerFires, Settled, Abort
<1>4. half \subseteq half' \/ \E s \in Session, c \in ToolCall : Record(s, c)
  BY StepsAre DEF Register, Tear, RecordRisk, Rebuild, Replay, Prepare, FirstPoll, Wake, NextPoll,
                  Seed, ReadOn, Work, AppendRisk, TimerFires, Settled, Abort, logVars
<1>7. \A s \in Session : /\ Size(s) = 2 * Len(file[s]) + IF s \in half THEN 1 ELSE 0
                         /\ Size(s)' = 2 * Len(file'[s]) + IF s \in half' THEN 1 ELSE 0
  BY DEF Size
<1>8. \A s \in Session : /\ s \in half => Size(s) = 2 * Len(file[s]) + 1
                         /\ s \in half' => Size(s)' = 2 * Len(file'[s]) + 1
  BY <1>7
<1>9. \A s \in Session : /\ s \notin half => Size(s) = 2 * Len(file[s])
                         /\ s \notin half' => Size(s)' = 2 * Len(file'[s])
  <2>1. ASSUME NEW s \in Session, s \notin half PROVE Size(s) = 2 * Len(file[s])
    <3>1. Size(s) = 2 * Len(file[s]) + 0 /\ Len(file[s]) \in Nat
      BY <1>1, <1>7, <2>1
    <3> QED
      BY <3>1
  <2>2. ASSUME NEW s \in Session, s \notin half' PROVE Size(s)' = 2 * Len(file'[s])
    <3>1. Size(s)' = 2 * Len(file'[s]) + 0 /\ Len(file'[s]) \in Nat
      BY <1>1, <1>7, <2>2
    <3> QED
      BY <3>1
  <2> QED
    BY <2>1, <2>2
<1>5. \A s \in Session : /\ Size(s) \in {2 * Len(file[s]), 2 * Len(file[s]) + 1}
                         /\ Size(s)' \in {2 * Len(file'[s]), 2 * Len(file'[s]) + 1}
                         /\ s \in half' => Size(s)' = 2 * Len(file'[s]) + 1
                         /\ s \notin half => Size(s) = 2 * Len(file[s])
  BY <1>8, <1>9
<1>6. ASSUME NEW s \in Session PROVE Size(s) <= Size(s)'
  <2>1. CASE s \notin half \/ s \in half'
    BY <1>1, <1>5, <2>1
  <2>2. CASE s \in half /\ s \notin half'
    <3>1. PICK r \in Session, c \in ToolCall : Record(r, c)
      BY <1>4, <2>2
    <3>2. r = s /\ file' = [file EXCEPT ![s] = Append(@, [kind |-> "invoked", call |-> c, by |-> s])]
      BY <2>2, <3>1 DEF Record, AppendLine
    <3>3. Len(file'[s]) = Len(file[s]) + 1
      BY <3>2 DEF DashboardType
    <3> QED
      BY <1>1, <1>5, <3>3
  <2> QED
    BY <2>1, <2>2
<1> QED
  BY <1>1, <1>2, <1>3, <1>6 DEF Onward

LEMMA InStoreStays ==
    ASSUME NEW st, NEW later, Grows(st, later), NEW e, InStore(st, e)
    PROVE  InStore(later, e)
  BY DEF Grows, InStore

(* The lines a tail has passed are the first ones. *)
LEMMA BehindIs ==
    ASSUME NEW t \in TailType, NEW f \in Seq(Event), t.offset <= 2 * Len(f) + 1,
           Len(t.work) <= t.offset \div 2,
           \A k \in 1..Len(t.work) : t.work[k] = t.offset \div 2 - Len(t.work) + k
    PROVE  /\ {j \in DOMAIN f : 2 * j <= t.offset} \ Range(t.work) = 1..t.offset \div 2 - Len(t.work)
           /\ t.offset \div 2 - Len(t.work) \in 0..Len(f)
<1> DEFINE o == t.offset
           w == t.work
           n == Len(t.work)
           b == o \div 2 - n
<1>1. o \in Nat /\ w \in Seq(Nat) /\ n \in Nat /\ Len(f) \in Nat /\ DOMAIN f = 1..Len(f)
  BY DEF TailType
<1>2. Range(w) = {w[k] : k \in 1..n}
  BY <1>1, RangeEquality
<1>3. o <= 2 * Len(f) + 1 /\ n <= o \div 2 /\ \A k \in 1..n : w[k] = b + k
  OBVIOUS
<1> HIDE DEF o, w, n
<1>4. b \in 0..Len(f)
  BY <1>1, <1>3
<1>5. ASSUME NEW j \in 1..Len(f), 2 * j <= o, j \notin Range(w) PROVE j \in 1..b
  <2>1. j <= o \div 2
    BY <1>1, <1>5
  <2>2. CASE j > b
    <3>1. j - b \in 1..n
      BY <1>1, <1>4, <2>1, <2>2
    <3>2. w[j - b] = b + (j - b)
      BY <1>3, <3>1
    <3>3. w[j - b] = j
      BY <1>4, <3>2
    <3> QED
      BY <1>2, <1>5, <3>1, <3>3
  <2>3. CASE ~(j > b)
    BY <1>4, <2>3
  <2> QED
    BY <2>2, <2>3
<1>6. ASSUME NEW j \in 1..b PROVE j \in 1..Len(f) /\ 2 * j <= o /\ j \notin Range(w)
  <2>1. \A k \in 1..n : w[k] # j
    BY <1>1, <1>3, <1>4
  <2> QED
    BY <1>1, <1>2, <1>4, <2>1
<1>7. {j \in DOMAIN f : 2 * j <= o} \ Range(w) = 1..b
  BY <1>1, <1>5, <1>6
<1> QED
  BY <1>4, <1>7 DEF o, w, n

LEMMA PassedAre ==
    ASSUME DashboardType, NEW s \in Session, TailGood(s)
    PROVE  /\ Passed(s) = IF tail[s].at \in {"poll", "work", "append"}
                          THEN {file[s][i] : i \in 1..tail[s].offset \div 2 - Len(tail[s].work)} ELSE {}
           /\ tail[s].offset \div 2 - Len(tail[s].work) \in 0..Len(file[s])
<1>1. /\ tail[s] \in TailType /\ file[s] \in Seq(Event) /\ tail[s].offset \in Nat
      /\ Size(s) \in Nat /\ Size(s) <= 2 * Len(file[s]) + 1 /\ Len(file[s]) \in Nat
  BY TailFields
<1>2. /\ tail[s].offset <= Size(s) /\ Len(tail[s].work) <= tail[s].offset \div 2
      /\ \A k \in 1..Len(tail[s].work) : tail[s].work[k] = tail[s].offset \div 2 - Len(tail[s].work) + k
  BY DEF TailGood
<1>3. tail[s].offset <= 2 * Len(file[s]) + 1
  BY <1>1, <1>2
<1> QED
  BY <1>1, <1>2, <1>3, BehindIs DEF Passed

(* So it is enough that the first lines are in the store after a step. *)
LEMMA PassedNext ==
    ASSUME DashboardType', NEW s \in Session, TailGood(s)',
           \A j \in 1..tail'[s].offset \div 2 - Len(tail'[s].work) :
             InStore(store', file'[s][j]) \/ file'[s][j] \in missed'
    PROVE  PassedGood(s)'
<1>1. /\ tail'[s] \in TailType /\ file'[s] \in Seq(Event)
  BY DEF DashboardType
<1>2. /\ tail'[s].offset <= Size(s)' /\ Len(tail'[s].work) <= tail'[s].offset \div 2
      /\ \A k \in 1..Len(tail'[s].work) : tail'[s].work[k] = tail'[s].offset \div 2 - Len(tail'[s].work) + k
  BY DEF TailGood
<1>3. tail'[s].offset \in Nat /\ Len(file'[s]) \in Nat
  BY <1>1 DEF TailType
<1>4. tail'[s].offset <= 2 * Len(file'[s]) + 1
  <2>1. Size(s)' = 2 * Len(file'[s]) \/ Size(s)' = 2 * Len(file'[s]) + 1
    BY SizeNext
  <2> QED
    BY <1>2, <1>3, <2>1
<1>5. {j \in DOMAIN file'[s] : 2 * j <= tail'[s].offset} \ Range(tail'[s].work)
        = 1..tail'[s].offset \div 2 - Len(tail'[s].work)
  BY <1>1, <1>2, <1>4, BehindIs
<1>6. Passed(s)' \subseteq {file'[s][i] : i \in 1..tail'[s].offset \div 2 - Len(tail'[s].work)}
  BY <1>5 DEF Passed
<1> QED
  BY <1>6 DEF PassedGood

LEMMA PassedBefore ==
    ASSUME DashboardType, NEW s \in Session, TailGood(s), PassedGood(s), Onward(s),
           tail[s].at \in {"poll", "work", "append"}
    PROVE  \A j \in 1..tail[s].offset \div 2 - Len(tail[s].work) :
             InStore(store', file'[s][j]) \/ file'[s][j] \in missed'
<1>1. tail[s].offset \div 2 - Len(tail[s].work) \in 0..Len(file[s]) /\ Len(file[s]) \in Nat
  BY PassedAre, TailFields
<1>2. ASSUME NEW j \in 1..tail[s].offset \div 2 - Len(tail[s].work)
      PROVE  InStore(store', file'[s][j]) \/ file'[s][j] \in missed'
  <2>1. file[s][j] \in Passed(s)
    BY PassedAre
  <2>2. InStore(store, file[s][j]) \/ file[s][j] \in missed
    BY <2>1 DEF PassedGood
  <2>3. j \in 1..Len(file[s])
    BY <1>1
  <2>4. file'[s][j] = file[s][j]
    BY <2>3 DEF Onward
  <2> QED
    BY <2>2, <2>4, InStoreStays DEF Onward
<1> QED
  BY <1>2

(* A tail that did not move, and one that began or ended. *)
LEMMA TailFrame ==
    ASSUME DashboardType, DashboardType', NEW s \in Session, TailGood(s), PassedGood(s), Onward(s),
           tail'[s] = tail[s]
    PROVE  TailGood(s)' /\ PassedGood(s)'
<1> DEFINE t == tail[s]
           n == Len(t.work)
<1>1. /\ t.offset <= Size(s) /\ n <= t.offset \div 2
      /\ \A k \in 1..n : t.work[k] = t.offset \div 2 - n + k
      /\ t.at \in {"work", "append"} <=> n # 0
  BY DEF TailGood
<1>2. t.offset <= Size(s)'
  <2>1. Size(s)' \in Nat
    BY SizeNext
  <2> QED
    BY <1>1, <2>1, TailFields DEF Onward
<1>3. ASSUME t.at = "append"
      PROVE  /\ s = "agent" /\ file'[s][Head(t.work)] = file[s][Head(t.work)]
             /\ file[s][Head(t.work)].kind = "invoked" /\ file[s][Head(t.work)].call \in Flagged
             /\ InStore(store', file[s][Head(t.work)])
             /\ OwnFinding(s)' = OwnFinding(s)
  <2>1. Head(t.work) \in 1..Len(file[s])
    BY <1>3, HeadIs
  <2>2. file'[s][Head(t.work)] = file[s][Head(t.work)]
    BY <2>1 DEF Onward
  <2>3. /\ s = "agent" /\ file[s][Head(t.work)].kind = "invoked" /\ file[s][Head(t.work)].call \in Flagged
        /\ InStore(store, file[s][Head(t.work)])
    BY <1>3 DEF TailGood
  <2>4. OwnFinding(s)' = OwnFinding(s)
    BY <2>2 DEF OwnFinding
  <2> QED
    BY <2>2, <2>3, <2>4, InStoreStays DEF Onward
<1>4. ASSUME NEW e \in t.seen
      PROVE  InStore(store', e) \/ e \in missed' \/ (t.at = "append" /\ e = OwnFinding(s)')
  <2>1. InStore(store, e) \/ e \in missed \/ (t.at = "append" /\ e = OwnFinding(s))
    BY DEF TailGood
  <2> QED
    BY <1>3, <2>1, InStoreStays DEF Onward
<1>5. TailGood(s)'
  <2> HIDE DEF t
  <2>1. tail'[s] = t
    BY DEF t
  <2> QED
    BY <1>1, <1>2, <1>3, <1>4, <2>1 DEF TailGood
<1>6. PassedGood(s)'
  <2>1. CASE t.at \in {"poll", "work", "append"}
    BY <1>5, <2>1, PassedBefore, PassedNext
  <2>2. CASE t.at \notin {"poll", "work", "append"}
    BY <2>2 DEF PassedGood, Passed
  <2> QED
    BY <2>1, <2>2
<1> QED
  BY <1>5, <1>6

LEMMA TailFresh ==
    ASSUME DashboardType', NEW s \in Session,
           tail'[s].offset = 0, tail'[s].work = <<>>, tail'[s].at \notin {"work", "append"},
           \A e \in tail'[s].seen : InStore(store', e) \/ e \in missed'
    PROVE  TailGood(s)' /\ PassedGood(s)'
<1>1. Len(<<>>) = 0 /\ 0 \div 2 = 0 /\ 1..0 = {}
  OBVIOUS
<1>2. 0 <= Size(s)'
  BY SizeNext
<1>3. TailGood(s)'
  BY <1>1, <1>2 DEF TailGood
<1>4. PassedGood(s)'
  BY <1>1, <1>3, PassedNext
<1> QED
  BY <1>3, <1>4

LEMMA EndedFresh ==
    ASSUME DashboardType', NEW s \in Session, tail'[s] = Ended
    PROVE  TailGood(s)' /\ PassedGood(s)'
  BY NoTailType, TailFresh

(* A tail that read on, and one that is done with a line. *)
LEMMA TailReads ==
    ASSUME DashboardType, DashboardType', NEW s \in Session, TailGood(s), PassedGood(s), Onward(s), ReadOn(s)
    PROVE  TailGood(s)' /\ PassedGood(s)'
<1>1. UNCHANGED <<store, file, half, missed>>
  BY DEF ReadOn, logVars
<1>2. Size(s)' = Size(s) /\ Size(s) \in Nat /\ tail[s].offset \in Nat
  BY <1>1, TailFields DEF Size
<1>3. CASE tail'[s] = Ended
  BY <1>3, EndedFresh
<1>4. CASE tail'[s] # Ended
  <2> DEFINE t == tail'[s]
             n == Len(t.work)
             was == tail[s].offset
             now == Size(s)
  <2>1. /\ tail[s].at = "poll" /\ Len(tail[s].work) = 0 /\ was < now
        /\ t.offset = now /\ t.seen = tail[s].seen /\ n = now \div 2 - was \div 2
        /\ \A k \in 1..n : t.work[k] = was \div 2 + k
        /\ t.at = IF n = 0 THEN "poll" ELSE "work"
    BY <1>4, ReadOnIs
  <2>2. was \in Nat /\ now \in Nat
    BY <1>2
  <2>3. \A e \in t.seen : InStore(store', e) \/ e \in missed'
    BY <1>1, <2>1 DEF TailGood
  <2> HIDE DEF t, was, now, n
  <2>4. n <= now \div 2 /\ now \div 2 - n = was \div 2 /\ n \in Nat
    <3>1. was < now /\ n = now \div 2 - was \div 2
      BY <2>1
    <3>2. was \div 2 \in Nat /\ now \div 2 \in Nat /\ was \div 2 <= now \div 2
      BY <2>2, <3>1
    <3> QED
      BY <3>1, <3>2
  <2>5. \A k \in 1..n : t.work[k] = now \div 2 - n + k
    BY <2>1, <2>4
  <2>6. t.at \in {"work", "append"} <=> n # 0
    BY <2>1
  <2>7. t.at # "append"
    BY <2>1
  <2>8. TailGood(s)'
    BY <1>2, <2>1, <2>2, <2>3, <2>4, <2>5, <2>6, <2>7 DEF TailGood, t, n, now
  <2>9. PassedGood(s)'
    <3>1. \A j \in 1..was \div 2 - 0 : InStore(store', file'[s][j]) \/ file'[s][j] \in missed'
      BY <2>1, PassedBefore DEF was
    <3>2. was \div 2 - 0 = was \div 2
      BY <2>2
    <3>3. tail'[s].offset \div 2 - Len(tail'[s].work) = was \div 2
      BY <2>1, <2>4 DEF t, n
    <3> QED
      BY <2>8, <3>1, <3>2, <3>3, PassedNext
  <2> QED
    BY <2>8, <2>9
<1> QED
  BY <1>3, <1>4

LEMMA TailMoves ==
    ASSUME DashboardType, DashboardType', NEW s \in Session, TailGood(s), PassedGood(s), Onward(s),
           tail[s].at \in {"work", "append"},
           tail'[s].offset = tail[s].offset, tail'[s].work = Tail(tail[s].work),
           tail'[s].at = IF Len(tail[s].work) = 1 THEN "poll" ELSE "work",
           \A e \in tail'[s].seen : InStore(store', e) \/ e \in missed',
           LET e == file[s][Head(tail[s].work)] IN InStore(store', e) \/ e \in missed'
    PROVE  TailGood(s)' /\ PassedGood(s)'
<1> DEFINE t == tail[s]
           n == Len(t.work)
           o == t.offset
           rest == Tail(t.work)
           h == Head(t.work)
<1>1. /\ h = o \div 2 - n + 1 /\ h \in 1..Len(file[s]) /\ n \in Nat \ {0}
      /\ Len(rest) = n - 1 /\ \A k \in 1..n - 1 : rest[k] = t.work[k + 1]
  BY HeadIs
<1>2. o \in Nat /\ Size(s) \in Nat /\ Len(file[s]) \in Nat
  BY TailFields
<1>3. /\ o <= Size(s) /\ n <= o \div 2 /\ \A k \in 1..n : t.work[k] = o \div 2 - n + k
  BY DEF TailGood
<1>4. Size(s) <= Size(s)' /\ file'[s][h] = file[s][h]
  BY <1>1 DEF Onward
<1>5. Size(s)' \in Nat
  BY SizeNext
<1>6. /\ \A j \in 1..o \div 2 - n : InStore(store', file'[s][j]) \/ file'[s][j] \in missed'
  BY PassedBefore
<1>7. tail'[s].offset = o /\ tail'[s].work = rest /\ tail'[s].at = IF n = 1 THEN "poll" ELSE "work"
  OBVIOUS
<1>8. InStore(store', file[s][h]) \/ file[s][h] \in missed'
  OBVIOUS
<1> HIDE DEF t, n, o, rest, h
<1>9. \A k \in 1..Len(rest) : rest[k] = o \div 2 - Len(rest) + k
  <2>1. ASSUME NEW k \in 1..Len(rest) PROVE rest[k] = o \div 2 - Len(rest) + k
    <3>1. rest[k] = t.work[k + 1] /\ k + 1 \in 1..n
      BY <1>1
    <3>2. t.work[k + 1] = o \div 2 - n + (k + 1)
      BY <1>3, <3>1
    <3> QED
      BY <1>1, <1>2, <3>1, <3>2
  <2> QED
    BY <2>1
<1>10. o <= Size(s)' /\ Len(rest) <= o \div 2
  BY <1>1, <1>2, <1>3, <1>4, <1>5
<1>11. tail'[s].at \in {"work", "append"} <=> Len(rest) # 0
  BY <1>1, <1>7
<1>12. tail'[s].at # "append"
  BY <1>7
<1>13. TailGood(s)'
  BY <1>7, <1>9, <1>10, <1>11, <1>12 DEF TailGood
<1>14. o \div 2 - Len(rest) = h
  BY <1>1, <1>2
<1>15. ASSUME NEW j \in 1..h PROVE InStore(store', file'[s][j]) \/ file'[s][j] \in missed'
  <2>1. CASE j = h
    BY <1>4, <1>8, <2>1
  <2>2. CASE j # h
    <3>1. j \in 1..o \div 2 - n
      BY <1>1, <1>2, <2>2
    <3> QED
      BY <1>6, <3>1
  <2> QED
    BY <2>1, <2>2
<1>16. tail'[s].offset \div 2 - Len(tail'[s].work) = h
  BY <1>7, <1>14
<1>17. PassedGood(s)'
  BY <1>13, <1>15, <1>16, PassedNext
<1> QED
  BY <1>13, <1>17

LEMMA TailWorks ==
    ASSUME DashboardType, DashboardType', NEW s \in Session, TailGood(s), PassedGood(s), Onward(s),
           Counted(store), Work(s)
    PROVE  TailGood(s)' /\ PassedGood(s)'
<1> DEFINE h == Head(tail[s].work)
           e == file[s][h]
           risk == [kind |-> "risk", call |-> e.call, by |-> "dashboard"]
<1>1. /\ tail[s].at = "work" /\ e \in Event
      /\ store' = IF e \in tail[s].seen THEN store ELSE Apply(store, e)
      /\ \/ /\ e \notin tail[s].seen /\ e.kind = "invoked" /\ s = "agent" /\ e.call \in Flagged
            /\ tail'[s].at = "append" /\ tail'[s].seen = tail[s].seen \cup {e, risk}
            /\ tail'[s].offset = tail[s].offset /\ tail'[s].work = tail[s].work
         \/ tail'[s] = Ended
         \/ /\ tail'[s].offset = tail[s].offset /\ tail'[s].work = Tail(tail[s].work)
            /\ tail'[s].seen = tail[s].seen \cup {e}
            /\ tail'[s].at = IF Len(tail[s].work) = 1 THEN "poll" ELSE "work"
  BY WorkIs
<1>2. UNCHANGED <<file, half>>
  BY DEF Work, logVars
<1>3. \A x \in tail[s].seen : InStore(store', x) \/ x \in missed'
  <2>1. \A x \in tail[s].seen : InStore(store, x) \/ x \in missed
    BY <1>1 DEF TailGood
  <2> QED
    BY <2>1, InStoreStays DEF Onward
<1>4. e \notin tail[s].seen => InStore(store', e)
  <2>1. store \in StoreType
    BY DEF DashboardType
  <2> QED
    BY <1>1, <2>1, ApplyKeeps
<1>5. InStore(store', e) \/ e \in missed'
  BY <1>3, <1>4
<1>6. /\ h \in 1..Len(file[s]) /\ Len(tail[s].work) \in Nat \ {0}
  BY <1>1, HeadIs
<1> HIDE DEF e, h, risk
<1>7. CASE /\ e \notin tail[s].seen /\ e.kind = "invoked" /\ s = "agent" /\ e.call \in Flagged
           /\ tail'[s].at = "append" /\ tail'[s].seen = tail[s].seen \cup {e, risk}
           /\ tail'[s].offset = tail[s].offset /\ tail'[s].work = tail[s].work
  <2>1. /\ tail[s].offset <= Size(s) /\ Len(tail[s].work) <= tail[s].offset \div 2
        /\ \A k \in 1..Len(tail[s].work) : tail[s].work[k] = tail[s].offset \div 2 - Len(tail[s].work) + k
    BY DEF TailGood
  <2>2. Size(s)' = Size(s)
    BY <1>2 DEF Size
  <2>3. Head(tail'[s].work) = h /\ file'[s][h] = e
    BY <1>2, <1>7 DEF h, e
  <2>4. OwnFinding(s)' = risk
    BY <2>3 DEF OwnFinding, risk
  <2>5. \A x \in tail'[s].seen : InStore(store', x) \/ x \in missed' \/ x = OwnFinding(s)'
    BY <1>3, <1>5, <1>7, <2>4
  <2>6. TailGood(s)'
    BY <1>4, <1>6, <1>7, <2>1, <2>2, <2>3, <2>5 DEF TailGood
  <2>7. \A j \in 1..tail'[s].offset \div 2 - Len(tail'[s].work) :
          InStore(store', file'[s][j]) \/ file'[s][j] \in missed'
    BY <1>1, <1>7, PassedBefore
  <2> QED
    BY <2>6, <2>7, PassedNext
<1>8. CASE tail'[s] = Ended
  BY <1>8, EndedFresh
<1>9. CASE /\ tail'[s].offset = tail[s].offset /\ tail'[s].work = Tail(tail[s].work)
           /\ tail'[s].seen = tail[s].seen \cup {e}
           /\ tail'[s].at = IF Len(tail[s].work) = 1 THEN "poll" ELSE "work"
  <2>1. \A x \in tail'[s].seen : InStore(store', x) \/ x \in missed'
    BY <1>3, <1>5, <1>9
  <2>2. tail[s].at \in {"work", "append"}
    BY <1>1
  <2> QED
    BY <1>5, <1>9, <2>1, <2>2, TailMoves DEF e, h
<1> QED
  BY <1>1, <1>7, <1>8, <1>9

LEMMA TailAppends ==
    ASSUME DashboardType, DashboardType', NEW s \in Session, TailGood(s), PassedGood(s), Onward(s),
           Counted(store), AppendRisk(s)
    PROVE  TailGood(s)' /\ PassedGood(s)'
<1>1. /\ OwnFinding(s) \in Event /\ tail[s].at = "append" /\ store' = Apply(store, OwnFinding(s))
      /\ \/ tail'[s] = Ended
         \/ /\ tail'[s].offset = tail[s].offset /\ tail'[s].work = Tail(tail[s].work)
            /\ tail'[s].seen = tail[s].seen
            /\ tail'[s].at = IF Len(tail[s].work) = 1 THEN "poll" ELSE "work"
  BY AppendRiskIs
<1>2. InStore(store', OwnFinding(s))
  <2>1. store \in StoreType
    BY DEF DashboardType
  <2> QED
    BY <1>1, <2>1, ApplyKeeps
<1>3. \A x \in tail[s].seen : InStore(store', x) \/ x \in missed'
  <2>1. \A x \in tail[s].seen : InStore(store, x) \/ x \in missed \/ x = OwnFinding(s)
    BY DEF TailGood
  <2> QED
    BY <1>2, <2>1, InStoreStays DEF Onward
<1>4. InStore(store', file[s][Head(tail[s].work)])
  <2>1. InStore(store, file[s][Head(tail[s].work)])
    BY <1>1 DEF TailGood
  <2> QED
    BY <2>1, InStoreStays DEF Onward
<1>5. CASE tail'[s] = Ended
  BY <1>5, EndedFresh
<1>6. CASE /\ tail'[s].offset = tail[s].offset /\ tail'[s].work = Tail(tail[s].work)
           /\ tail'[s].seen = tail[s].seen
           /\ tail'[s].at = IF Len(tail[s].work) = 1 THEN "poll" ELSE "work"
  <2>1. \A x \in tail'[s].seen : InStore(store', x) \/ x \in missed'
    BY <1>3, <1>6
  <2>2. tail[s].at \in {"work", "append"}
    BY <1>1
  <2> QED
    BY <1>4, <1>6, <2>1, <2>2, TailMoves
<1> QED
  BY <1>1, <1>5, <1>6

LEMMA TailSeeds ==
    ASSUME DashboardType, DashboardType', NEW s \in Session, Counted(store), Seed(s)
    PROVE  TailGood(s)' /\ PassedGood(s)'
<1>1. /\ \/ tail'[s] = Ended
         \/ /\ tail'[s].at = "poll" /\ tail'[s].offset = 0
            /\ tail'[s].seen = Lines(s) /\ tail'[s].work = <<>>
  BY SeedIs
<1>2. store \in StoreType /\ file[s] \in Seq(Event) /\ DOMAIN file[s] = 1..Len(file[s])
  BY DEF DashboardType
<1>3. \A e \in Lines(s) : InStore(store', e) \/ e \in missed'
  <2>1. CASE tail[s].replay
    <3>1. store' = ApplyAll(store, file[s])
      BY <2>1 DEF Seed
    <3>2. \A i \in 1..Len(file[s]) : InStore(store', file[s][i])
      BY <1>2, <3>1, ApplyAllKeeps
    <3> QED
      BY <1>2, <3>2 DEF Lines
  <2>2. CASE ~tail[s].replay
    BY <2>2 DEF Seed
  <2> QED
    BY <2>1, <2>2
<1>4. CASE tail'[s] = Ended
  BY <1>4, EndedFresh
<1>5. CASE /\ tail'[s].at = "poll" /\ tail'[s].offset = 0
           /\ tail'[s].seen = Lines(s) /\ tail'[s].work = <<>>
  BY <1>3, <1>5, TailFresh
<1> QED
  BY <1>1, <1>4, <1>5

LEMMA TailStep ==
    ASSUME DashboardType, DashboardType', LogInv, TailInv, StoreInv, PassedInv, DashboardNext, LogGrows, StoreMoves
    PROVE  TailInv' /\ PassedInv'
<1>1. \A s \in Session : Onward(s) /\ TailGood(s) /\ PassedGood(s)
  BY OnwardSteps DEF TailInv, PassedInv
<1>2. Counted(store)
  BY DEF StoreInv
<1>3. ASSUME NEW s \in Session, tail'[s] = tail[s] PROVE TailGood(s)' /\ PassedGood(s)'
  BY <1>1, <1>3, TailFrame
<1>4. CASE \/ \E s \in Session : Register(s) \/ Tear(s) \/ \E c \in ToolCall : Record(s, c)
           \/ \E c \in Flagged : RecordRisk(c)
           \/ Rebuild \/ Replay \/ Prepare \/ Wake \/ TimerFires \/ Settled \/ Abort
  <2>1. tail' = tail
    BY <1>4 DEF Register, Tear, Record, RecordRisk, Rebuild, Replay, Prepare, Wake, TimerFires, Settled, Abort, liveVars
  <2> QED
    BY <1>3, <2>1 DEF TailInv, PassedInv
<1>5. CASE FirstPoll \/ NextPoll
  <2>1. PICK b \in BOOLEAN : tail' = Launched(b)
    BY <1>5 DEF FirstPoll, NextPoll
  <2>2. ASSUME NEW s \in Session, tail'[s] # tail[s] PROVE TailGood(s)' /\ PassedGood(s)'
    <3>1. tail'[s].at = "seed" /\ tail'[s].offset = 0 /\ tail'[s].seen = {} /\ tail'[s].work = <<>>
      BY <2>1, <2>2, LaunchedIs
    <3> QED
      BY <3>1, TailFresh
  <2> QED
    BY <1>3, <2>2 DEF TailInv, PassedInv
<1>6. ASSUME NEW s \in Session, Seed(s) PROVE TailInv' /\ PassedInv'
  <2>1. TailGood(s)' /\ PassedGood(s)'
    BY <1>2, <1>6, TailSeeds
  <2>2. \A r \in Session \ {s} : tail'[r] = tail[r]
    BY <1>6, SeedIs
  <2> QED
    BY <1>3, <2>1, <2>2 DEF TailInv, PassedInv
<1>7. ASSUME NEW s \in Session, ReadOn(s) PROVE TailInv' /\ PassedInv'
  <2>1. TailGood(s)' /\ PassedGood(s)'
    BY <1>1, <1>7, TailReads
  <2>2. \A r \in Session \ {s} : tail'[r] = tail[r]
    BY <1>1, <1>7, ReadOnIs
  <2> QED
    BY <1>3, <2>1, <2>2 DEF TailInv, PassedInv
<1>8. ASSUME NEW s \in Session, Work(s) PROVE TailInv' /\ PassedInv'
  <2>1. TailGood(s)' /\ PassedGood(s)'
    BY <1>1, <1>2, <1>8, TailWorks
  <2>2. \A r \in Session \ {s} : tail'[r] = tail[r]
    BY <1>1, <1>8, WorkIs
  <2> QED
    BY <1>3, <2>1, <2>2 DEF TailInv, PassedInv
<1>9. ASSUME NEW s \in Session, AppendRisk(s) PROVE TailInv' /\ PassedInv'
  <2>1. TailGood(s)' /\ PassedGood(s)'
    BY <1>1, <1>2, <1>9, TailAppends
  <2>2. \A r \in Session \ {s} : tail'[r] = tail[r]
    BY <1>1, <1>9, AppendRiskIs
  <2> QED
    BY <1>3, <2>1, <2>2 DEF TailInv, PassedInv
<1> QED
  BY <1>4, <1>5, <1>6, <1>7, <1>8, <1>9, StepsAre

(* What is applied adds to a store and keeps its pairs. *)
Adds(st, later) ==
    /\ Grows(st, later)
    /\ later.cid = st.cid /\ later.marked = st.marked
    /\ st.servers \subseteq later.servers /\ later.servers \subseteq st.servers \cup {"omnodex"}
    /\ "omnodex" \in later.servers \ st.servers => \E r \in later.rows : r[1] = "agent"
    /\ \A r \in later.rows \ st.rows : r[1] = "agent" => "omnodex" \in later.servers

LEMMA ApplyAdds ==
    ASSUME NEW st \in StoreType, NEW e \in Event
    PROVE  Adds(st, Apply(st, e))
<1>1. CASE e.kind = "invoked" /\ <<e.by, e.call>> \notin st.rows
  <2>1. Apply(st, e) = [st EXCEPT !.rows = @ \cup {<<e.by, e.call>>}, !.count[e.by] = @ + 1,
                                  !.servers = IF e.by = "agent" THEN @ \cup {"omnodex"} ELSE @]
    BY <1>1 DEF Apply
  <2>2. /\ Apply(st, e).rows = st.rows \cup {<<e.by, e.call>>} /\ Apply(st, e).risks = st.risks
        /\ Apply(st, e).cid = st.cid /\ Apply(st, e).marked = st.marked
        /\ Apply(st, e).servers = IF e.by = "agent" THEN st.servers \cup {"omnodex"} ELSE st.servers
    BY <2>1 DEF StoreType
  <2>3. <<e.by, e.call>> \in Apply(st, e).rows /\ <<e.by, e.call>>[1] = e.by
    BY <2>2
  <2>4. \A r \in Apply(st, e).rows \ st.rows : r[1] = e.by
    BY <2>2, <2>3
  <2>5. Grows(st, Apply(st, e))
    BY <2>2 DEF Grows
  <2>6. CASE e.by = "agent"
    <3>1. Apply(st, e).servers = st.servers \cup {"omnodex"}
      BY <2>2, <2>6
    <3>2. \E r \in Apply(st, e).rows : r[1] = "agent"
      BY <2>3, <2>6
    <3> QED
      BY <2>2, <2>5, <3>1, <3>2 DEF Adds
  <2>7. CASE e.by # "agent"
    <3>1. Apply(st, e).servers = st.servers
      BY <2>2, <2>7
    <3> QED
      BY <2>2, <2>4, <2>5, <2>7, <3>1 DEF Adds
  <2> QED
    BY <2>6, <2>7
<1>2. CASE e.kind # "invoked" /\ e.call \notin st.risks
  <2>1. Apply(st, e) = [st EXCEPT !.risks = @ \cup {e.call}, !.score = @ + 1]
    BY <1>2 DEF Apply
  <2>2. /\ Apply(st, e).rows = st.rows /\ Apply(st, e).risks = st.risks \cup {e.call}
        /\ Apply(st, e).cid = st.cid /\ Apply(st, e).marked = st.marked
        /\ Apply(st, e).servers = st.servers
    BY <2>1 DEF StoreType
  <2> QED
    BY <2>2 DEF Adds, Grows
<1>3. CASE Apply(st, e) = st
  BY <1>3 DEF Adds, Grows
<1> QED
  BY <1>1, <1>2, <1>3 DEF Apply

LEMMA AddsMore ==
    ASSUME NEW a, NEW b, NEW c, Adds(a, b), Adds(b, c)
    PROVE  Adds(a, c)
  BY DEF Adds, Grows

LEMMA ApplyAllAdds ==
    ASSUME NEW st \in StoreType, Counted(st), NEW events \in Seq(Event)
    PROVE  Adds(st, ApplyAll(st, events)) /\ (Len(events) = 0 => ApplyAll(st, events) = st)
<1> DEFINE n == Len(events)
<1>1. n \in Nat
  OBVIOUS
<1>2. PICK f : /\ f[0] = st
               /\ \A i \in 1..n : f[i] = Apply(f[i - 1], events[i])
               /\ ApplyAll(st, events) = f[n]
  BY ApplyAllIs
<1> DEFINE Good(i) == f[i] \in StoreType /\ Counted(f[i]) /\ Adds(st, f[i])
           S == {i \in 0..n : Good(i)}
<1>3. 0 \in S
  <2>1. Adds(st, st)
    BY DEF Adds, Grows
  <2> QED
    BY <1>1, <1>2, <2>1
<1>4. ASSUME NEW i \in 1..n, i - 1 \in S PROVE i \in S
  <2>1. events[i] \in Event /\ f[i] = Apply(f[i - 1], events[i])
    BY <1>2
  <2>2. f[i] \in StoreType /\ Counted(f[i]) /\ Adds(f[i - 1], f[i])
    BY <1>4, <2>1, ApplyKeeps, ApplyAdds
  <2>3. Adds(st, f[i])
    BY <1>4, <2>2, AddsMore
  <2> QED
    BY <2>2, <2>3
<1>5. \A i \in 0..n : i \in S
  <2> HIDE DEF S, n, Good
  <2> QED
    BY <1>1, <1>3, <1>4, CountUp
<1>6. n \in S
  BY <1>1, <1>5
<1> QED
  BY <1>2, <1>6

LEMMA AddsKeeps ==
    ASSUME NEW ord \in Seq(Row), NEW st \in StoreType, NEW later \in StoreType, Adds(st, later),
           Closed(ord, st.rows), CidFrom(ord, st), ServersFrom(ord, st)
    PROVE  CidFrom(ord, later) /\ ServersFrom(ord, later)
<1>1. st.rows \subseteq later.rows
  BY DEF Adds, Grows
<1>2. Pairs(ord, st.rows) \subseteq Pairs(ord, later.rows)
  BY <1>1, PairsGrow
<1>3. CidFrom(ord, later)
  BY <1>2 DEF CidFrom, Adds
<1>4. "upstream" \in later.servers => Pairs(ord, later.rows) # {}
  BY <1>2 DEF ServersFrom, Adds
<1>5. "omnodex" \in later.servers => \E r \in later.rows : r[1] = "agent"
  BY <1>1 DEF ServersFrom, Adds
<1>6. ASSUME NEW r \in later.rows, r[1] = "agent", later.cid[r] = 0 PROVE "omnodex" \in later.servers
  BY <1>6 DEF ServersFrom, Adds
<1> QED
  BY <1>3, <1>4, <1>5, <1>6 DEF ServersFrom

(* A pass pairs all there is to pair. *)
LEMMA CorrelatePairs ==
    ASSUME DashboardType, Injective(order), CidFrom(order, store), ServersFrom(order, store)
    PROVE  /\ CidFrom(order, Correlate(store)) /\ ServersFrom(order, Correlate(store))
           /\ Paired(order, Correlate(store))
<1> DEFINE pairs == Pairs(order, store.rows)
           new == Correlate(store)
<1>1. store \in StoreType /\ order \in Seq(Row) /\ store.rows \subseteq Row
      /\ store.servers \subseteq {"omnodex", "upstream"} /\ store.risks \subseteq ToolCall
  BY DashboardAssumption DEF DashboardType, StoreType
<1>2. /\ new.rows = store.rows /\ new.risks = store.risks
      /\ \A q \in pairs : new.cid[q[1]] = q[1][2] /\ new.cid[q[2]] = q[1][2]
      /\ \A r \in Row : (\A q \in pairs : r \notin {q[1], q[2]}) => new.cid[r] = store.cid[r]
      /\ new.marked = store.marked \cup {c \in store.risks : \E q \in pairs : q[1][2] = c}
      /\ pairs = {} => new.servers = store.servers
      /\ pairs # {} => new.servers = {"upstream"} \cup
                         IF \E r \in store.rows : r[1] = "agent" /\ new.cid[r] = 0
                         THEN store.servers ELSE store.servers \ {"omnodex"}
  BY <1>1, CorrelateIs
<1>3. \A q \in pairs : /\ q[1] \in store.rows /\ q[1] \in Row /\ q[1][1] = "agent" /\ q[1] = <<"agent", q[1][2]>>
                       /\ q[1][2] # 0 /\ q[2] \in Row /\ q[2][1] = "proxy"
  BY <1>1, PairsRows
<1>4. \A r \in Row : store.cid[r] # 0 => \E q \in pairs : r \in {q[1], q[2]} /\ store.cid[r] = q[1][2]
  BY DEF CidFrom
<1>5. /\ "upstream" \in store.servers => pairs # {}
      /\ "omnodex" \in store.servers => \E r \in store.rows : r[1] = "agent"
      /\ \A r \in store.rows : r[1] = "agent" /\ store.cid[r] = 0 => "omnodex" \in store.servers
  BY DEF ServersFrom
<1>6. Pairs(order, new.rows) = pairs
  BY <1>2
<1> HIDE DEF pairs, new
<1>7. \A r \in Row : new.cid[r] # 0 => \E q \in pairs : r \in {q[1], q[2]} /\ new.cid[r] = q[1][2]
  BY <1>2, <1>4
<1>8. \A r \in Row : new.cid[r] = 0 => store.cid[r] = 0
  BY <1>2, <1>3
<1>9. CidFrom(order, new)
  BY <1>6, <1>7 DEF CidFrom
<1>10. "upstream" \in new.servers <=> pairs # {}
  BY <1>2, <1>5
<1>11. "omnodex" \in new.servers <=> \E r \in store.rows : r[1] = "agent" /\ new.cid[r] = 0
  <2>1. ASSUME NEW r \in store.rows, r[1] = "agent", new.cid[r] = 0 PROVE "omnodex" \in new.servers
    <3>1. "omnodex" \in store.servers
      BY <1>1, <1>5, <1>8, <2>1
    <3> QED
      BY <1>2, <2>1, <3>1
  <2>2. ASSUME "omnodex" \in new.servers PROVE \E r \in store.rows : r[1] = "agent" /\ new.cid[r] = 0
    <3>1. CASE pairs = {}
      <4>1. PICK r \in store.rows : r[1] = "agent"
        BY <1>2, <1>5, <2>2, <3>1
      <4>2. new.cid[r] = 0
        BY <1>1, <1>7, <3>1, <4>1
      <4> QED
        BY <4>1, <4>2
    <3>2. CASE pairs # {}
      BY <1>2, <2>2, <3>2
    <3> QED
      BY <3>1, <3>2
  <2> QED
    BY <2>1, <2>2
<1>12. ServersFrom(order, new)
  BY <1>2, <1>6, <1>10, <1>11 DEF ServersFrom
<1>13. \A c \in new.risks : new.cid[<<"agent", c>>] # 0 => c \in new.marked
  <2>1. ASSUME NEW c \in store.risks, new.cid[<<"agent", c>>] # 0 PROVE c \in new.marked
    <3>1. <<"agent", c>> \in Row
      BY <1>1 DEF Row, Session
    <3>2. PICK q \in pairs : <<"agent", c>> \in {q[1], q[2]}
      BY <1>7, <2>1, <3>1
    <3>3. q[1] = <<"agent", c>>
      BY <1>3, <3>2
    <3>4. q[1][2] = c
      BY <3>3
    <3> QED
      BY <1>2, <3>4
  <2> QED
    BY <1>2, <2>1
<1>14. new.servers = {IF new.cid[r] = 0 THEN "omnodex" ELSE "upstream" : r \in {x \in new.rows : x[1] = "agent"}}
  <2> DEFINE names == {IF new.cid[r] = 0 THEN "omnodex" ELSE "upstream" : r \in {x \in store.rows : x[1] = "agent"}}
  <2>1. new.servers \subseteq {"omnodex", "upstream"}
    BY <1>1, <1>2
  <2>2. names \subseteq {"omnodex", "upstream"}
    OBVIOUS
  <2>3. "omnodex" \in names <=> \E r \in store.rows : r[1] = "agent" /\ new.cid[r] = 0
    OBVIOUS
  <2>4. "upstream" \in names <=> \E r \in store.rows : r[1] = "agent" /\ new.cid[r] # 0
    OBVIOUS
  <2>5. (\E r \in store.rows : r[1] = "agent" /\ new.cid[r] # 0) <=> pairs # {}
    BY <1>1, <1>2, <1>3, <1>7
  <2> HIDE DEF names
  <2>7. "omnodex" \in new.servers <=> "omnodex" \in names
    BY <1>11, <2>3
  <2>8. "upstream" \in new.servers <=> "upstream" \in names
    BY <1>10, <2>4, <2>5
  <2>6. new.servers = names
    <3>1. \A x \in new.servers : x \in names
      BY <2>1, <2>7, <2>8
    <3>2. \A x \in names : x \in new.servers
      BY <2>2, <2>7, <2>8
    <3> QED
      BY <3>1, <3>2
  <2> QED
    BY <1>2, <2>6 DEF names
<1>15. Paired(order, new)
  BY <1>2, <1>6, <1>13, <1>14 DEF Paired
<1> QED
  BY <1>9, <1>12, <1>15 DEF new

LEMMA PairFrame ==
    ASSUME PairInv, UNCHANGED <<order, store>>, missed \subseteq missed', PassDone' => PassDone
    PROVE  PairInv'
<1>1. missed' = {} => missed = {}
  OBVIOUS
<1>2. /\ Closed(order, store.rows) => Closed(order', store'.rows)
      /\ CidFrom(order, store) => CidFrom(order', store')
      /\ ServersFrom(order, store) => ServersFrom(order', store')
      /\ Paired(order, store) => Paired(order', store')
  OBVIOUS
<1> QED
  BY <1>1, <1>2 DEF PairInv

LEMMA PairRecord ==
    ASSUME DashboardType, StoreInv, PairInv, NEW s \in Session, NEW c \in ToolCall, Record(s, c)
    PROVE  PairInv'
<1> DEFINE row == <<s, c>>
           rows == store.rows
           m == Len(order)
<1>1. order \in Seq(Row) /\ m \in Nat /\ row \in Row /\ \A i \in 1..m : order[i] # row
  BY RecordableIs DEF Record, DashboardType
<1>2. row \notin rows
  BY <1>1 DEF StoreInv
<1>3. order' = Append(order, row) /\ UNCHANGED <<store, missed, phase, stopping, timer, unpaired>>
  BY DEF Record, liveVars
<1> HIDE DEF row
<1>4. Pairs(order', rows) = Pairs(order, rows)
  BY <1>1, <1>2, <1>3, PairsAppend
<1>5. Len(order') = m + 1 /\ order'[m + 1] = row /\ \A i \in 1..m : order'[i] = order[i]
  BY <1>1, <1>3
<1>6. ASSUME Closed(order, rows) PROVE Closed(order', rows)
  <2>1. ASSUME NEW n \in 1..m + 1, NEW p \in 1..n - 1, order'[p][1] = order'[n][1], order'[n] \in rows
        PROVE  order'[p] \in rows
    <3>1. n \in 1..m
      BY <1>1, <1>2, <1>5, <2>1
    <3>2. p \in 1..m
      BY <1>1, <3>1
    <3> QED
      BY <1>5, <1>6, <2>1, <3>1, <3>2 DEF Closed
  <2> QED
    BY <1>5, <2>1 DEF Closed
<1>7. /\ CidFrom(order, store) => CidFrom(order', store)
      /\ ServersFrom(order, store) => ServersFrom(order', store)
      /\ Paired(order, store) => Paired(order', store)
  BY <1>4 DEF CidFrom, ServersFrom, Paired
<1>8. PassDone' <=> PassDone
  BY <1>3 DEF PassDone
<1> QED
  BY <1>3, <1>6, <1>7, <1>8 DEF PairInv

(* A line whose session was read up to it keeps the rows closed, and so does a
   whole session. *)
LEMMA ClosedLine ==
    ASSUME DashboardType, LogInv, NEW s \in Session, NEW h \in 1..Len(file[s]),
           file[s][h].kind = "invoked", NEW rows, Closed(order, rows),
           \A j \in 1..h - 1 : file[s][j].kind = "invoked" => <<file[s][j].by, file[s][j].call>> \in rows
    PROVE  Closed(order, rows \cup {<<file[s][h].by, file[s][h].call>>})
<1> DEFINE row == <<file[s][h].by, file[s][h].call>>
<1>1. file[s][h] \in Event /\ order \in Seq(Row) /\ Len(file[s]) \in Nat
  BY DEF DashboardType
<1>2. file[s][h].by = s
  BY DEF LogInv, Ordered
<1>3. row[1] = s /\ row[2] = file[s][h].call /\ file[s][h] = Seen(row)
  BY <1>1, <1>2 DEF Event, Seen
<1> HIDE DEF row
<1>4. ASSUME NEW n \in 1..Len(order), NEW p \in 1..n - 1, order[p][1] = order[n][1],
             order[n] \in rows \cup {row}
      PROVE  order[p] \in rows \cup {row}
  <2>1. CASE order[n] \in rows
    BY <1>4, <2>1 DEF Closed
  <2>2. CASE order[n] = row
    <3>1. order[n][1] = s /\ file[order[n][1]][h] = Seen(order[n]) /\ h \in 1..Len(file[order[n][1]])
      BY <1>3, <2>2
    <3>2. PICK i \in 1..h - 1 : file[s][i] = Seen(order[p])
      BY <1>4, <3>1 DEF LogInv, SameOrder
    <3>3. order[p] \in Row
      <4>1. p \in 1..Len(order)
        BY <1>1
      <4> QED
        BY <1>1, <4>1
    <3>4. /\ file[s][i].kind = "invoked" /\ file[s][i].by = order[p][1] /\ file[s][i].call = order[p][2]
          /\ order[p] = <<order[p][1], order[p][2]>>
      BY <3>2, <3>3 DEF Seen, Row
    <3>5. <<file[s][i].by, file[s][i].call>> \in rows
      BY <3>4
    <3> QED
      BY <3>4, <3>5
  <2> QED
    BY <1>4, <2>1, <2>2
<1> QED
  BY <1>4 DEF Closed, row

LEMMA ClosedFile ==
    ASSUME DashboardType, LogInv, NEW s \in Session, NEW rows, Closed(order, rows),
           NEW more, rows \subseteq more,
           \A r \in more : r \in rows \/
             \E i \in 1..Len(file[s]) : file[s][i].kind = "invoked" /\ r = <<file[s][i].by, file[s][i].call>>,
           \A i \in 1..Len(file[s]) : file[s][i].kind = "invoked" => <<file[s][i].by, file[s][i].call>> \in more
    PROVE  Closed(order, more)
<1>1. order \in Seq(Row)
  BY DEF DashboardType
<1>2. ASSUME NEW n \in 1..Len(order), NEW p \in 1..n - 1, order[p][1] = order[n][1], order[n] \in more
      PROVE  order[p] \in more
  <2>1. CASE order[n] \in rows
    BY <1>2, <2>1 DEF Closed
  <2>2. CASE order[n] \notin rows
    <3>1. PICK j \in 1..Len(file[s]) : file[s][j].kind = "invoked" /\ order[n] = <<file[s][j].by, file[s][j].call>>
      BY <1>2, <2>2
    <3>2. file[s][j].by = s
      BY <3>1 DEF LogInv, Ordered
    <3>3. order[p][1] = s /\ p \in 1..Len(order)
      BY <1>1, <1>2, <3>1, <3>2
    <3>4. PICK i \in 1..Len(file[s]) : file[s][i] = Seen(order[p])
      BY <3>3 DEF LogInv, Logged
    <3>5. order[p] \in Row
      BY <1>1, <3>3
    <3>6. /\ file[s][i].kind = "invoked" /\ file[s][i].by = order[p][1] /\ file[s][i].call = order[p][2]
          /\ order[p] = <<order[p][1], order[p][2]>>
      BY <3>4, <3>5 DEF Seen, Row
    <3> QED
      BY <3>6
  <2> QED
    BY <2>1, <2>2
<1> QED
  BY <1>2 DEF Closed

(* Steps that add to the store are not the last before all is quiet. *)
LEMMA PairAdds ==
    ASSUME DashboardType, DashboardType', PairInv, UNCHANGED order, missed \subseteq missed', Adds(store, store'),
           missed = {} /\ Closed(order, store.rows) => Closed(order, store'.rows), ~PassDone'
    PROVE  PairInv'
<1>1. store \in StoreType /\ store' \in StoreType /\ order \in Seq(Row)
  BY DEF DashboardType
<1> SUFFICES ASSUME missed' = {}
             PROVE  Closed(order', store'.rows) /\ CidFrom(order', store') /\ ServersFrom(order', store')
  BY DEF PairInv
<1>2. Closed(order, store.rows) /\ CidFrom(order, store) /\ ServersFrom(order, store)
  BY DEF PairInv
<1>3. Closed(order, store'.rows)
  BY <1>2
<1>4. CidFrom(order, store') /\ ServersFrom(order, store')
  BY <1>1, <1>2, AddsKeeps
<1>5. order' = order
  OBVIOUS
<1> QED
  BY <1>3, <1>4, <1>5

LEMMA PairCorrelates ==
    ASSUME DashboardType, LogInv, PairInv, UNCHANGED <<order, missed>>, store' = Correlate(store)
    PROVE  PairInv'
<1> SUFFICES ASSUME missed' = {}
             PROVE  /\ Closed(order', store'.rows) /\ CidFrom(order', store') /\ ServersFrom(order', store')
                    /\ Paired(order', store')
  BY DEF PairInv
<1>1. Closed(order, store.rows) /\ CidFrom(order, store) /\ ServersFrom(order, store)
  BY DEF PairInv
<1>2. Injective(order) /\ store \in StoreType
  BY DEF LogInv, DashboardType
<1>3. store'.rows = store.rows
  BY <1>2, CorrelateIs
<1>4. CidFrom(order, store') /\ ServersFrom(order, store') /\ Paired(order, store')
  BY <1>1, <1>2, CorrelatePairs
<1>5. order' = order /\ Closed(order, store'.rows)
  BY <1>1, <1>3
<1> QED
  BY <1>4, <1>5

LEMMA PairWorks ==
    ASSUME DashboardType, DashboardType', LogInv, TailInv, PassedInv, PairInv, NEW s \in Session, Work(s)
    PROVE  PairInv'
<1> DEFINE h == Head(tail[s].work)
           e == file[s][h]
<1>1. TailGood(s) /\ PassedGood(s) /\ tail[s].at = "work"
  BY DEF TailInv, PassedInv, Work
<1>2. e \in Event /\ store' = IF e \in tail[s].seen THEN store ELSE Apply(store, e)
  BY <1>1, WorkIs
<1>3. UNCHANGED <<order, missed, phase, stopping, unpaired>> /\ timer' = ((e \notin tail[s].seen /\ stopping = "no") \/ timer)
  BY DEF Work, logVars
<1>4. h \in 1..Len(file[s]) /\ h = tail[s].offset \div 2 - Len(tail[s].work) + 1
  BY <1>1, HeadIs
<1>5. store \in StoreType /\ Len(tail[s].work) \in Nat /\ tail[s].offset \in Nat
  BY TailFields DEF DashboardType
<1> HIDE DEF h, e
<1>6. CASE e \in tail[s].seen
  <2>1. store' = store /\ (PassDone' => PassDone)
    BY <1>2, <1>3, <1>6 DEF PassDone
  <2> QED
    BY <1>3, <2>1, PairFrame
<1>7. CASE e \notin tail[s].seen
  <2>1. Adds(store, store') /\ store' = Apply(store, e)
    BY <1>2, <1>5, <1>7, ApplyAdds
  <2>2. ~PassDone'
    BY <1>3, <1>7 DEF PassDone
  <2>3. ASSUME missed = {}, Closed(order, store.rows) PROVE Closed(order, store'.rows)
    <3>1. CASE e.kind = "invoked" /\ <<e.by, e.call>> \notin store.rows
      <4>1. ASSUME NEW j \in 1..h - 1, file[s][j].kind = "invoked"
            PROVE  <<file[s][j].by, file[s][j].call>> \in store.rows
        <5>1. j \in 1..tail[s].offset \div 2 - Len(tail[s].work)
          BY <1>4, <1>5
        <5>2. file[s][j] \in Passed(s)
          BY <1>1, <5>1, PassedAre
        <5> QED
          BY <1>1, <2>3, <4>1, <5>2 DEF PassedGood, InStore
      <4>2. Closed(order, store.rows \cup {<<e.by, e.call>>})
        BY <1>4, <2>3, <3>1, <4>1, ClosedLine DEF e
      <4>3. store'.rows = store.rows \cup {<<e.by, e.call>>}
        BY <1>5, <2>1, <3>1 DEF Apply, StoreType
      <4> QED
        BY <4>2, <4>3
    <3>2. CASE ~(e.kind = "invoked" /\ <<e.by, e.call>> \notin store.rows)
      <4>1. store'.rows = store.rows
        BY <1>5, <2>1, <3>2 DEF Apply, StoreType
      <4> QED
        BY <2>3, <4>1
    <3> QED
      BY <3>1, <3>2
  <2> QED
    BY <1>3, <2>1, <2>2, <2>3, PairAdds
<1> QED
  BY <1>6, <1>7

LEMMA PairAppends ==
    ASSUME DashboardType, DashboardType', TailInv, PairInv, NEW s \in Session, AppendRisk(s)
    PROVE  PairInv'
<1>1. TailGood(s)
  BY DEF TailInv
<1>2. OwnFinding(s) \in Event /\ OwnFinding(s).kind = "risk" /\ store' = Apply(store, OwnFinding(s))
  BY <1>1, AppendRiskIs DEF OwnFinding
<1>3. store \in StoreType
  BY DEF DashboardType
<1>4. Adds(store, store')
  BY <1>2, <1>3, ApplyAdds
<1>5. store'.rows = store.rows
  BY <1>2, <1>3 DEF Apply, StoreType
<1>6. UNCHANGED <<order, missed, stopping>> /\ timer' = (stopping = "no" \/ timer)
  BY DEF AppendRisk
<1>7. ~PassDone'
  BY <1>6 DEF PassDone
<1> QED
  BY <1>4, <1>5, <1>6, <1>7, PairAdds

LEMMA PairReads ==
    ASSUME DashboardType, DashboardType', LogInv, StoreInv, PairInv, NEW s \in Session,
           store' = ApplyAll(store, file[s]), UNCHANGED order, missed \subseteq missed', ~PassDone'
    PROVE  PairInv'
<1>1. store \in StoreType /\ Counted(store) /\ file[s] \in Seq(Event)
  BY DEF DashboardType, StoreInv
<1>2. Adds(store, store')
  BY <1>1, ApplyAllAdds
<1>3. /\ \A i \in 1..Len(file[s]) : InStore(store', file[s][i])
      /\ \A r \in store'.rows : r \in store.rows \/
           \E i \in 1..Len(file[s]) : file[s][i].kind = "invoked" /\ r = <<file[s][i].by, file[s][i].call>>
  BY <1>1, ApplyAllKeeps
<1>4. \A i \in 1..Len(file[s]) : file[s][i].kind = "invoked" => <<file[s][i].by, file[s][i].call>> \in store'.rows
  BY <1>3 DEF InStore
<1>5. ASSUME Closed(order, store.rows) PROVE Closed(order, store'.rows)
  <2> DEFINE rows == store.rows
             more == store'.rows
  <2>1. rows \subseteq more /\ Closed(order, rows)
    BY <1>2, <1>5 DEF Adds, Grows
  <2>2. /\ \A r \in more : r \in rows \/
             \E i \in 1..Len(file[s]) : file[s][i].kind = "invoked" /\ r = <<file[s][i].by, file[s][i].call>>
        /\ \A i \in 1..Len(file[s]) : file[s][i].kind = "invoked" => <<file[s][i].by, file[s][i].call>> \in more
    BY <1>3, <1>4
  <2> HIDE DEF rows, more
  <2>3. Closed(order, more)
    BY <2>1, <2>2, ClosedFile
  <2> QED
    BY <2>3 DEF more
<1> QED
  BY <1>2, <1>5, PairAdds

LEMMA PairSeeds ==
    ASSUME DashboardType, DashboardType', LogInv, StoreInv, PairInv, NEW s \in Session, Seed(s)
    PROVE  PairInv'
<1>1. /\ UNCHANGED <<order, phase, timer, stopping>> /\ missed \subseteq missed'
      /\ store' = IF tail[s].replay THEN ApplyAll(store, file[s]) ELSE store
      /\ unpaired' = (unpaired \/ (tail[s].replay /\ file[s] # <<>>))
  BY DEF Seed, logVars
<1>2. CASE tail[s].replay /\ file[s] # <<>>
  BY <1>1, <1>2, PairReads DEF PassDone
<1>3. CASE ~(tail[s].replay /\ file[s] # <<>>)
  <2>1. store' = store
    <3>1. store \in StoreType /\ Counted(store) /\ file[s] \in Seq(Event) /\ Len(<<>>) = 0
      BY DEF DashboardType, StoreInv
    <3> QED
      BY <1>1, <1>3, <3>1, ApplyAllAdds
  <2>2. PassDone' => PassDone
    BY <1>1, <1>3 DEF PassDone
  <2> QED
    BY <1>1, <2>1, <2>2, PairFrame
<1> QED
  BY <1>2, <1>3

LEMMA PairStep ==
    ASSUME DashboardType, DashboardType', LogInv, TailInv, StoreInv, PassedInv, PairInv, DashboardNext
    PROVE  PairInv'
<1>1. ASSUME NEW s \in Session, NEW c \in ToolCall, Record(s, c) PROVE PairInv'
  BY <1>1, PairRecord
<1>2. CASE \/ \E s \in Session : Register(s) \/ Tear(s)
           \/ \E c \in Flagged : RecordRisk(c)
           \/ Rebuild \/ Prepare \/ FirstPoll \/ Wake \/ NextPoll \/ Settled \/ Abort
           \/ \E s \in Session : ReadOn(s)
  <2>1. UNCHANGED <<order, store, missed>>
    BY <1>2 DEF Register, Tear, RecordRisk, Rebuild, Prepare, FirstPoll, Wake, NextPoll, Settled, Abort, ReadOn, logVars
  <2>2. PassDone' => PassDone
    BY <1>2 DEF PassDone, Register, Tear, RecordRisk, Rebuild, Prepare, FirstPoll, Wake, NextPoll, Settled, Abort,
                ReadOn, logVars, liveVars
  <2> QED
    BY <2>1, <2>2, PairFrame
<1>3. CASE Replay
  <2>1. UNCHANGED <<order, missed>>
    BY <1>3 DEF Replay, logVars
  <2>2. CASE todo = <<>>
    <3>1. store' = Correlate(store)
      BY <1>3, <2>2 DEF Replay
    <3> QED
      BY <2>1, <3>1, PairCorrelates
  <2>3. CASE todo # <<>>
    <3>1. store' = ApplyAll(store, file[Head(todo)]) /\ phase' = "replay"
      BY <1>3, <2>3 DEF Replay
    <3>2. Head(todo) \in Session
      BY <2>3 DEF DashboardType
    <3>3. ~PassDone'
      BY <3>1 DEF PassDone
    <3> QED
      BY <2>1, <3>1, <3>2, <3>3, PairReads
  <2> QED
    BY <2>2, <2>3
<1>4. CASE TimerFires
  <2>1. UNCHANGED <<order, missed>> /\ store' = Correlate(store)
    BY <1>4 DEF TimerFires, logVars
  <2> QED
    BY <2>1, PairCorrelates
<1>5. ASSUME NEW s \in Session, Seed(s) PROVE PairInv'
  BY <1>5, PairSeeds
<1>6. ASSUME NEW s \in Session, Work(s) PROVE PairInv'
  BY <1>6, PairWorks
<1>7. ASSUME NEW s \in Session, AppendRisk(s) PROVE PairInv'
  BY <1>7, PairAppends
<1> QED
  BY <1>1, <1>2, <1>3, <1>4, <1>5, <1>6, <1>7, StepsAre

LEMMA InvStep == DashboardInv /\ [DashboardNext]_dashboardVars => DashboardInv'
<1> SUFFICES ASSUME DashboardInv, [DashboardNext]_dashboardVars PROVE DashboardInv'
  OBVIOUS
<1>1. DashboardType /\ LogInv /\ TailInv /\ StopInv /\ StoreInv /\ PassedInv /\ PairInv
  BY DEF DashboardInv
<1>2. CASE DashboardNext
  <2>1. DashboardType' /\ LogInv' /\ LogGrows /\ StoreMoves
    BY <1>1, <1>2, LogTypeStep
  <2>2. TailInv' /\ PassedInv'
    BY <1>1, <1>2, <2>1, TailStep
  <2>3. StoreInv'
    BY <1>1, <2>1, StoreStep
  <2>4. StopInv'
    BY <1>1, <1>2, StopStep
  <2>5. PairInv'
    BY <1>1, <1>2, <2>1, PairStep
  <2> QED
    BY <2>1, <2>2, <2>3, <2>4, <2>5 DEF DashboardInv
<1>3. CASE UNCHANGED dashboardVars
  <2>1. UNCHANGED <<index, file, half, order, torn, phase, todo, store, tail, known, poller, timer,
                    stopping, waitFor, missed, unpaired>>
    BY <1>3 DEF dashboardVars, logVars, liveVars
  <2>2. DashboardType'
    BY <1>1, <2>1 DEF DashboardType
  <2>3. LogInv'
    BY <1>1, <2>1 DEF LogInv, Registered
  <2>4. \A s \in Session : Onward(s)
    <3>1. \A s \in Session : Size(s)' = Size(s) /\ Size(s) \in Nat /\ Len(file[s]) \in Nat
      BY <1>1, <2>1, TailFields DEF Size
    <3> QED
      BY <2>1, <3>1 DEF Onward, Grows
  <2>5. TailInv' /\ PassedInv'
    BY <1>1, <2>1, <2>2, <2>4, TailFrame DEF TailInv, PassedInv
  <2>6. StopInv' /\ StoreInv'
    BY <1>1, <2>1 DEF StopInv, Running, StoreInv, Counted
  <2>7. PairInv'
    BY <1>1, <2>1, PairFrame DEF PassDone
  <2> QED
    BY <2>2, <2>3, <2>5, <2>6, <2>7 DEF DashboardInv
<1> QED
  BY <1>2, <1>3

(* Every reachable state of the dashboard satisfies its inductive invariant,
   which says which lines a tail still has to do and that what it has seen is
   stored, missed or about to be appended. *)
THEOREM DashboardInvAlways == DashboardSpec => []DashboardInv
<1> QED
  BY InitInv, InvStep, PTL DEF DashboardSpec

LEMMA OrderRange ==
    ASSUME DashboardType
    PROVE  Range(order) = {order[i] : i \in 1..Len(order)}
<1>1. order \in Seq(Row)
  BY DEF DashboardType
<1> QED
  BY <1>1, RangeEquality

(* What the dashboard's projection holds is true to the log: see ReadModelTrue.
   However the tails' reads, the poller's and the recorders' lines interleave,
   no session, event or row is in it that the log does not give. *)
THEOREM ReadModelTrueAlways == DashboardSpec => []ReadModelTrue
<1>1. DashboardInv => ReadModelTrue
  <2> SUFFICES ASSUME DashboardInv PROVE ReadModelTrue
    OBVIOUS
  <2>1. DashboardType /\ StoreInv /\ PassedInv
    BY DEF DashboardInv
  <2>2. \A s \in Session : \A e \in Passed(s) : InStore(store, e) \/ e \in missed
    BY <2>1 DEF PassedInv, PassedGood
  <2>3. store.rows \subseteq Range(order)
    BY <2>1, OrderRange DEF StoreInv
  <2> QED
    BY <2>1, <2>2, <2>3 DEF ReadModelTrue, StoreInv, Counted
<1> QED
  BY <1>1, DashboardInvAlways, PTL

(* When all is read the read model has every call of the log. *)
LEMMA AllRead ==
    ASSUME DashboardInv, Quiet, missed = {}
    PROVE  store.rows = {order[i] : i \in 1..Len(order)}
<1>1. DashboardType /\ LogInv /\ TailInv /\ StoreInv /\ PassedInv
  BY DEF DashboardInv
<1>2. ASSUME NEW p \in 1..Len(order) PROVE order[p] \in store.rows
  <2> DEFINE s == order[p][1]
  <2>1. order[p] \in Row
    BY <1>1 DEF DashboardType
  <2>2. s \in Session /\ order[p] = <<order[p][1], order[p][2]>>
    BY <2>1 DEF Row
  <2>3. PICK i \in 1..Len(file[s]) : file[s][i] = Seen(order[p])
    BY <1>1 DEF LogInv, Logged
  <2>4. /\ Len(file[s]) \in Nat /\ Size(s) \in {2 * Len(file[s]), 2 * Len(file[s]) + 1}
        /\ Len(tail[s].work) \in Nat /\ file[s] \in Seq(Event)
    BY <1>1, <2>2, TailFields
  <2>5. Registered(s)
    <3>1. file[s] # <<>>
      BY <2>3, <2>4
    <3> QED
      BY <1>1, <2>2, <3>1 DEF LogInv
  <2>6. tail[s].at = "poll" /\ tail[s].offset = Size(s)
    BY <2>2, <2>5 DEF Quiet
  <2>7. TailGood(s) /\ PassedGood(s)
    BY <1>1, <2>2 DEF TailInv, PassedInv
  <2>8. Len(tail[s].work) = 0
    BY <2>4, <2>6, <2>7 DEF TailGood
  <2> HIDE DEF s
  <2>9. tail[s].offset \div 2 - Len(tail[s].work) = Len(file[s])
    BY <2>4, <2>6, <2>8
  <2>10. file[s][i] \in Passed(s)
    BY <1>1, <2>2, <2>3, <2>6, <2>7, <2>9, PassedAre
  <2>11. InStore(store, Seen(order[p]))
    BY <2>3, <2>7, <2>10 DEF PassedGood
  <2> QED
    BY <2>2, <2>11 DEF InStore, Seen
<1>3. \A r \in store.rows : \E p \in 1..Len(order) : order[p] = r
  BY <1>1 DEF StoreInv
<1> QED
  BY <1>2, <1>3

(* Live, the projector pairs calls after every event, with the rows that have
   come so far; once all rows are in, the pairs are those a replay of the whole
   log would make: see PairedAsReplayed. *)
THEOREM PairedAsReplayedAlways == DashboardSpec => []PairedAsReplayed
<1>1. DashboardInv => PairedAsReplayed
  <2> SUFFICES ASSUME DashboardInv, Quiet, ~unpaired, missed = {}
      PROVE  /\ \A q \in Pairs(order, Range(order)) : store.cid[q[1]] = q[1][2] /\ store.cid[q[2]] = q[1][2]
             /\ Cardinality(Shown) = Cardinality({r[2] : r \in store.rows})
             /\ \A c \in store.risks : store.cid[<<"agent", c>>] # 0 => c \in store.marked
             /\ store.servers = {IF store.cid[r] = 0 THEN "omnodex" ELSE "upstream" :
                                   r \in {x \in store.rows : x[1] = "agent"}}
    BY DEF PairedAsReplayed
  <2>1. DashboardType /\ LogInv /\ PairInv
    BY DEF DashboardInv
  <2>2. store.rows = {order[i] : i \in 1..Len(order)} /\ Range(order) = store.rows
    BY <2>1, AllRead, OrderRange
  <2>3. PassDone
    BY DEF Quiet, PassDone
  <2>4. Paired(order, store) /\ CidFrom(order, store)
    BY <2>1, <2>3 DEF PairInv
  <2>5. \A q \in Pairs(order, store.rows) : store.cid[q[1]] = q[1][2] /\ store.cid[q[2]] = q[1][2]
    BY <2>4 DEF Paired
  <2>6. Cardinality(Shown) = Cardinality({r[2] : r \in store.rows})
    <3> DEFINE rows == store.rows
               cid == store.cid
    <3>1. /\ order \in Seq(Row) /\ Injective(order) /\ HooksFirst(order)
          /\ rows = {order[i] : i \in 1..Len(order)}
          /\ cid \in [Row -> ToolCall \cup {0}]
      BY <2>1, <2>2 DEF DashboardType, StoreType, LogInv
    <3>2. Named(order, rows, cid)
      BY <2>4, <2>5 DEF CidFrom, Named
    <3>3. Shown = ShownAs(rows, cid) /\ {r[2] : r \in store.rows} = CallsOf(rows)
      BY DEF Shown, ShownAs, CallsOf
    <3> HIDE DEF rows, cid
    <3>4. Cardinality(ShownAs(rows, cid)) = Cardinality(CallsOf(rows))
      BY <3>1, <3>2, ShownOnce
    <3> QED
      BY <3>3, <3>4
  <2>7. \A q \in Pairs(order, Range(order)) : store.cid[q[1]] = q[1][2] /\ store.cid[q[2]] = q[1][2]
    BY <2>2, <2>5
  <2> QED
    BY <2>4, <2>6, <2>7 DEF Paired
<1> QED
  BY <1>1, DashboardInvAlways, PTL

(* Once stop() has been answered nothing is stored or appended any more: the
   tails it waited for have ended and none begins. *)
THEOREM QuietAfterStopAlways == DashboardSpec => QuietAfterStop
<1>1. DashboardInv /\ [DashboardNext]_dashboardVars => [stopping = "stopped" => UNCHANGED <<store, tail>>]_dashboardVars
  <2> SUFFICES ASSUME DashboardInv, DashboardNext, stopping = "stopped" PROVE UNCHANGED <<store, tail>>
    OBVIOUS
  <2>1. /\ phase = "live" /\ Running = {} /\ ~timer
        /\ poller \in {"off", "first", "sleep", "list", "done"}
    BY DEF DashboardInv, StopInv, DashboardType
  <2>2. \A s \in Session : tail[s].at \in {"none", "done"}
    BY <2>1 DEF Running
  <2>3. poller \in {"off", "done"}
    BY <2>1 DEF Running
  <2>4. ~(Rebuild \/ Replay \/ Prepare \/ TimerFires)
    BY <2>1 DEF Rebuild, Replay, Prepare, TimerFires
  <2>5. ~(FirstPoll \/ Wake \/ NextPoll)
    BY <2>3 DEF FirstPoll, Wake, NextPoll
  <2>6. \A s \in Session : ~(Seed(s) \/ ReadOn(s) \/ Work(s) \/ AppendRisk(s))
    BY <2>2 DEF Seed, ReadOn, Work, AppendRisk
  <2>7. ~Settled /\ ~Abort
    BY DEF Settled, Abort
  <2> QED
    BY <2>4, <2>5, <2>6, <2>7, StepsAre DEF Register, Tear, Record, RecordRisk, liveVars
<1> QED
  BY <1>1, DashboardInvAlways, PTL DEF DashboardSpec, QuietAfterStop
=============================================================================
