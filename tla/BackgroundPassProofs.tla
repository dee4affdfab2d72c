------------------------ MODULE BackgroundPassProofs ------------------------
(***************************************************************************)
(* Proofs about BackgroundPass, for any processes, intervals and bounds.   *)
(*                                                                         *)
(* The state file is read, truncated and written by processes that do not  *)
(* exclude one another.  What is proved is what survives that: a pass that *)
(* was asked for has a carrier, in the file or in a process, and a gap     *)
(* that was written stays in every state that is about to be written.      *)
(***************************************************************************)
EXTENDS BackgroundPass, FiniteSetTheorems, TLAPS

Places == HookPlaces \cup PassPlaces

(* What a process is about to write keeps the gap of the state it read, unless
   it brings a gap of its own; a hook that does not start a pass asks for one,
   and no other update undoes what is asked. *)
ProcessOK(p) ==
    /\ answer[p] # None => pc[p] = "record"
    /\ pc[p] \in {"decide", "write"} => base[p] \in AutoSyncState
    /\ pc[p] \in {"decide", "write", "fill"} => draft[p] \in AutoSyncState
    /\ pc[p] \in {"decide", "write"} /\ then[p] # "release" =>
         draft[p].notBefore = base[p].notBefore

HookOK(h) ==
    /\ pc[h] \in HookPlaces
    /\ then[h] \in {"idle", "spawn"}
    /\ pc[h] \in {"write", "fill"} /\ then[h] = "idle" => draft[h].pending

PassOK(p) ==
    /\ pc[p] \in PassPlaces
    /\ pc[p] \in {"write", "fill"} => then[p] \in {"detect", "gate", "release"}
    /\ pc[p] = "write" => draft[p].pending = base[p].pending

Functions ==
    /\ pc \in [Proc -> Places] /\ then \in [Proc -> Places]
    /\ base \in [Proc -> AutoSyncState \cup {None}]
    /\ draft \in [Proc -> AutoSyncState \cup {None}]
    /\ answer \in [Proc -> 0 .. MaxGap \cup {None}]

LocalInv ==
    /\ Functions
    /\ file \in AutoSyncState \cup {Torn}
    /\ activity \in {"none", "some", "asked"}
    /\ promised \in 0 .. MaxGap
    /\ \A p \in Proc : ProcessOK(p)
    /\ \A h \in Hook : HookOK(h)
    /\ \A p \in Pass : PassOK(p)

-----------------------------------------------------------------------------
LEMMA ProcTypes ==
    /\ Hook \subseteq Proc /\ Pass \subseteq Proc /\ Child \subseteq Pass /\ Manual \subseteq Pass
    /\ Hook \cap Pass = {} /\ Child \cap Manual = {} /\ IsFiniteSet(Pass)
<1>1. IsFiniteSet(Pass)
  BY ProcessesAssumption, FS_Union DEF Pass
<1> QED
  BY <1>1, ProcessesAssumption DEF Proc, Pass

LEMMA ReadType == ASSUME LocalInv
                  PROVE  Read \in AutoSyncState /\ (file # Torn => Read = file)
  BY TimesAssumption DEF LocalInv, Read, NoState, AutoSyncState

(* What an update of a state leaves alone. *)
LEMMA Updates ==
    ASSUME NEW s \in AutoSyncState
    PROVE  /\ Started(s) \in AutoSyncState /\ Started(s).notBefore = s.notBefore
           /\ [s EXCEPT !.pending = TRUE] \in AutoSyncState
           /\ [s EXCEPT !.pending = TRUE].notBefore = s.notBefore
           /\ [s EXCEPT !.pending = TRUE].pending
           /\ \A a \in 0 .. MaxGap \cup {None} :
                /\ Merge(s, a) \in AutoSyncState /\ Merge(s, a).pending = s.pending
                /\ a = None => Merge(s, a) = s
           /\ s.notBefore \in 0 .. MaxGap /\ s.pending \in BOOLEAN
           /\ Older(s) \in AutoSyncState /\ Older(s).pending = s.pending
           /\ Older(s).notBefore = DownFrom(s.notBefore)
<1>1. Started(s) \in AutoSyncState /\ Started(s).notBefore = s.notBefore
  <2>1. 0 \in 0 .. Period
    BY TimesAssumption
  <2> QED
    BY <2>1 DEF Started, AutoSyncState
<1>2. \A a \in 0 .. MaxGap \cup {None} :
        /\ Merge(s, a) \in AutoSyncState /\ Merge(s, a).pending = s.pending
        /\ a = None => Merge(s, a) = s
  BY DEF Merge, AutoSyncState
<1>3. s \notin {None, Torn}
  BY StatesAssumption
<1>4. /\ Older(s) \in AutoSyncState /\ Older(s).pending = s.pending
      /\ Older(s).notBefore = DownFrom(s.notBefore)
  <2>1. Older(s) = [s EXCEPT !.attempt = UpTo(@, Period), !.notBefore = DownFrom(@)]
    BY <1>3 DEF Older
  <2> QED
    <3>1. /\ s.attempt \in 0 .. Period /\ s.pending \in BOOLEAN /\ s.notBefore \in 0 .. MaxGap
          /\ s = [attempt |-> s.attempt, pending |-> s.pending, notBefore |-> s.notBefore]
      BY DEF AutoSyncState
    <3>2. UpTo(s.attempt, Period) \in 0 .. Period /\ DownFrom(s.notBefore) \in 0 .. MaxGap
      BY <3>1, TimesAssumption DEF UpTo, DownFrom
    <3>3. Older(s) = [attempt |-> UpTo(s.attempt, Period), pending |-> s.pending,
                      notBefore |-> DownFrom(s.notBefore)]
      BY <2>1, <3>1
    <3> QED
      BY <3>1, <3>2, <3>3 DEF AutoSyncState
<1> QED
  BY <1>1, <1>2, <1>4 DEF AutoSyncState

LEMMA MergeKeeps ==
    ASSUME NEW s \in AutoSyncState, NEW a \in 0 .. MaxGap \cup {None}
    PROVE  /\ Merge(s, a) \in AutoSyncState /\ Merge(s, a).pending = s.pending
           /\ a = None => Merge(s, a) = s
  BY Updates

LEMMA OlderKeeps ==
    ASSUME NEW s \in AutoSyncState
    PROVE  /\ Older(s) \in AutoSyncState /\ Older(s).pending = s.pending
           /\ Older(s).notBefore = DownFrom(s.notBefore)
  BY Updates

(* An action of one process. *)
LEMMA OneMoves ==
    ASSUME LocalInv, NEW p \in Proc, Functions',
           \A q \in Proc \ {p} : /\ pc'[q] = pc[q] /\ base'[q] = base[q] /\ draft'[q] = draft[q]
                                 /\ then'[q] = then[q] /\ answer'[q] = answer[q],
           ProcessOK(p)', p \in Hook => HookOK(p)', p \in Pass => PassOK(p)',
           file' \in AutoSyncState \cup {Torn}, activity' \in {"none", "some", "asked"},
           promised' \in 0 .. MaxGap
    PROVE  LocalInv'
<1>1. ASSUME NEW q \in Proc PROVE ProcessOK(q)'
  BY <1>1 DEF LocalInv, ProcessOK
<1>2. ASSUME NEW q \in Hook PROVE HookOK(q)'
  BY <1>2, ProcTypes DEF LocalInv, HookOK
<1>3. ASSUME NEW q \in Pass PROVE PassOK(q)'
  BY <1>3, ProcTypes DEF LocalInv, PassOK
<1> QED
  BY <1>1, <1>2, <1>3 DEF LocalInv

(* It only goes to another place. *)
Elsewhere == {"idle", "due", "start", "spawn", "acquire", "check", "unlink", "poll", "license",
              "detect", "detecting", "gate", "sync", "release"}

LEMMA OneGoes ==
    ASSUME LocalInv, NEW p \in Proc, NEW place \in Elsewhere, pc' = [pc EXCEPT ![p] = place],
           p \in Hook => place \in HookPlaces, p \in Pass => place \in PassPlaces,
           UNCHANGED <<base, draft, then, answer>>, pc[p] # "record",
           file' \in AutoSyncState \cup {Torn}, activity' \in {"none", "some", "asked"},
           promised' \in 0 .. MaxGap
    PROVE  LocalInv'
<1>1. Functions'
  BY DEF LocalInv, Functions, Places, Elsewhere, HookPlaces, PassPlaces
<1>2. pc'[p] = place /\ \A q \in Proc \ {p} : pc'[q] = pc[q]
  BY DEF LocalInv, Functions
<1>3. answer[p] = None
  BY DEF LocalInv, ProcessOK
<1>4. ProcessOK(p)'
  BY <1>2, <1>3 DEF ProcessOK, Elsewhere
<1>5. p \in Hook => HookOK(p)'
  BY <1>2 DEF LocalInv, HookOK, Elsewhere
<1>6. p \in Pass => PassOK(p)'
  BY <1>2 DEF LocalInv, PassOK, Elsewhere
<1> QED
  BY <1>1, <1>2, <1>4, <1>5, <1>6, OneMoves

LEMMA DisturbedType ==
    ASSUME LocalInv, NEW yes, Disturbed(yes)
    PROVE  /\ activity' \in {"none", "some", "asked"} /\ promised' \in 0 .. MaxGap
           /\ activity' = "asked" => activity = "asked" /\ ~yes
           /\ promised' # 0 => ~yes
           /\ promised' \in {promised, 0}
<1>1. activity \in {"none", "some", "asked"} /\ promised \in 0 .. MaxGap /\ 0 \in 0 .. MaxGap
  BY TimesAssumption DEF LocalInv
<1>2. CASE yes
  BY <1>1, <1>2 DEF Disturbed
<1>3. CASE ~yes
  BY <1>1, <1>3 DEF Disturbed
<1> QED
  BY <1>2, <1>3

LEMMA LocalInit == Init => LocalInv
<1> SUFFICES ASSUME Init PROVE LocalInv
  OBVIOUS
<1>1. NoState \in AutoSyncState
  BY TimesAssumption DEF NoState, AutoSyncState
<1>2. \A p \in Proc : /\ pc[p] = "idle" /\ base[p] = None /\ draft[p] = None /\ then[p] = "idle"
                      /\ answer[p] = None
  BY DEF Init
<1>3. Functions
  BY DEF Init, Functions, Places, HookPlaces, PassPlaces
<1>4. \A p \in Proc : ProcessOK(p)
  BY <1>2 DEF ProcessOK
<1>5. (\A h \in Hook : HookOK(h)) /\ (\A p \in Pass : PassOK(p))
  BY <1>2, ProcTypes DEF HookOK, PassOK, HookPlaces, PassPlaces
<1> QED
  BY <1>1, <1>3, <1>4, <1>5, TimesAssumption DEF Init, LocalInv

(* updateAutoSyncState of a pass. *)
LEMMA UpdatesState ==
    ASSUME LocalInv, NEW p \in Pass, NEW next \in {"detect", "gate", "release"},
           UpdateState(p, next), answer' = answer \/ answer' = [answer EXCEPT ![p] = None],
           answer'[p] = None, next # "release" => answer[p] = None,
           UNCHANGED file, activity' \in {"none", "some", "asked"}, promised' = promised
    PROVE  LocalInv'
<1>1. /\ Read \in AutoSyncState /\ answer[p] \in 0 .. MaxGap \cup {None} /\ p \in Proc
      /\ p \notin Hook
  BY ReadType, ProcTypes DEF LocalInv, Functions
<1> DEFINE new == Merge(Read, answer[p])
<1>2. /\ new \in AutoSyncState /\ new.pending = Read.pending
      /\ next # "release" => new.notBefore = Read.notBefore
  BY <1>1, MergeKeeps
<1>3. /\ base' = [base EXCEPT ![p] = Read] /\ draft' = [draft EXCEPT ![p] = new]
      /\ then' = [then EXCEPT ![p] = next] /\ pc' = [pc EXCEPT ![p] = "write"]
  BY DEF UpdateState
<1> HIDE DEF new
<1>4. Functions'
  BY <1>1, <1>2, <1>3 DEF LocalInv, Functions, Places, PassPlaces
<1>5. /\ pc'[p] = "write" /\ base'[p] = Read /\ draft'[p] = new /\ then'[p] = next
      /\ \A q \in Proc \ {p} : /\ pc'[q] = pc[q] /\ base'[q] = base[q] /\ draft'[q] = draft[q]
                               /\ then'[q] = then[q] /\ answer'[q] = answer[q]
  BY <1>1, <1>3 DEF LocalInv, Functions
<1>6. ProcessOK(p)' /\ PassOK(p)'
  BY <1>1, <1>2, <1>5 DEF ProcessOK, PassOK, PassPlaces
<1> QED
  BY <1>1, <1>4, <1>5, <1>6, OneMoves DEF LocalInv

LEMMA LocalStep == LocalInv /\ [Next]_vars => LocalInv'
<1> SUFFICES ASSUME LocalInv, [Next]_vars PROVE LocalInv'
  OBVIOUS
<1> USE ProcTypes
<1>1. /\ file \in AutoSyncState \cup {Torn} /\ activity \in {"none", "some", "asked"}
      /\ promised \in 0 .. MaxGap /\ Functions
      /\ \A p \in Proc : ProcessOK(p)
      /\ \A h \in Hook : HookOK(h)
      /\ \A p \in Pass : PassOK(p)
  BY DEF LocalInv
<1>2. ASSUME NEW p \in Proc, Truncate(p) PROVE LocalInv'
  <2>1. /\ pc[p] = "write" /\ file' = Torn /\ pc' = [pc EXCEPT ![p] = "fill"]
        /\ base' = [base EXCEPT ![p] = None] /\ UNCHANGED <<draft, then, answer>>
    BY <1>2 DEF Truncate
  <2>2. activity' \in {"none", "some", "asked"} /\ promised' \in 0 .. MaxGap
    BY <1>2, DisturbedType DEF Truncate
  <2>3. Functions'
    BY <1>1, <2>1 DEF Functions, Places, HookPlaces
  <2>4. /\ pc'[p] = "fill"
        /\ \A q \in Proc \ {p} : pc'[q] = pc[q] /\ base'[q] = base[q]
    BY <1>1, <2>1 DEF Functions
  <2>5. ProcessOK(p)'
    BY <1>1, <2>1, <2>4 DEF ProcessOK
  <2>6. p \in Hook => HookOK(p)'
    BY <1>1, <2>1, <2>4 DEF HookOK, HookPlaces
  <2>7. p \in Pass => PassOK(p)'
    BY <1>1, <2>1, <2>4 DEF PassOK, PassPlaces
  <2> QED
    BY <2>1, <2>2, <2>3, <2>4, <2>5, <2>6, <2>7, OneMoves
<1>3. ASSUME NEW p \in Proc, Fill(p) PROVE LocalInv'
  <2>1. /\ pc[p] = "fill" /\ file' = draft[p] /\ pc' = [pc EXCEPT ![p] = then[p]]
        /\ draft' = [draft EXCEPT ![p] = None] /\ then' = [then EXCEPT ![p] = "idle"]
        /\ UNCHANGED <<base, answer>>
    BY <1>3 DEF Fill
  <2>2. draft[p] \in AutoSyncState /\ answer[p] = None
    BY <1>1, <2>1 DEF ProcessOK
  <2>3. activity' \in {"none", "some", "asked"} /\ promised' \in 0 .. MaxGap
    <3>1. CASE Disturbed(TRUE)
      BY <3>1, DisturbedType
    <3>2. CASE /\ promised' \in {draft[p].notBefore, promised} /\ UNCHANGED activity
      BY <1>1, <2>2, <3>2 DEF AutoSyncState
    <3> QED
      BY <1>3, <3>1, <3>2 DEF Fill
  <2>4. Functions'
    BY <1>1, <2>1 DEF Functions, Places, HookPlaces
  <2>5. /\ pc'[p] = then[p] /\ then'[p] = "idle"
        /\ \A q \in Proc \ {p} : pc'[q] = pc[q] /\ draft'[q] = draft[q] /\ then'[q] = then[q]
    BY <1>1, <2>1 DEF Functions
  <2>6. p \in Hook => then[p] \in {"idle", "spawn"}
    BY <1>1 DEF HookOK
  <2>7. p \in Pass => then[p] \in {"detect", "gate", "release"}
    BY <1>1, <2>1 DEF PassOK
  <2>8. ProcessOK(p)'
    BY <2>1, <2>2, <2>5, <2>6, <2>7 DEF ProcessOK, Proc
  <2>9. p \in Hook => HookOK(p)'
    BY <2>5, <2>6 DEF HookOK, HookPlaces
  <2>10. p \in Pass => PassOK(p)'
    BY <2>5, <2>7 DEF PassOK, PassPlaces
  <2> QED
    BY <1>1, <2>1, <2>2, <2>3, <2>4, <2>5, <2>8, <2>9, <2>10, OneMoves
<1>4. ASSUME NEW h \in Hook, HookEvent(h) \/ CheckDue(h) PROVE LocalInv'
  <2>1. PICK place \in {"start", "due", "idle"} : pc' = [pc EXCEPT ![h] = place]
    BY <1>4 DEF HookEvent, CheckDue
  <2>2. /\ UNCHANGED <<file, base, draft, then, answer, promised>>
        /\ activity' \in {"none", "some", "asked"} /\ pc[h] \in {"idle", "due"}
    BY <1>1, <1>4 DEF HookEvent, CheckDue, files, locals, history
  <2>3. Functions'
    BY <1>1, <2>1, <2>2 DEF Functions, Places, HookPlaces
  <2>4. pc'[h] = place /\ \A q \in Proc \ {h} : pc'[q] = pc[q]
    BY <1>1, <2>1 DEF Functions
  <2>5. ProcessOK(h)' /\ HookOK(h)'
    BY <1>1, <2>1, <2>2, <2>4 DEF ProcessOK, HookOK, HookPlaces
  <2> QED
    BY <1>1, <2>2, <2>3, <2>4, <2>5, OneMoves
<1>5. ASSUME NEW h \in Hook, Start(h) PROVE LocalInv'
  <2> DEFINE new == Started(Read)
             next == IF TooSoon(Read) THEN "idle" ELSE "spawn"
  <2>1. /\ pc[h] = "start" /\ base' = [base EXCEPT ![h] = Read]
        /\ draft' = [draft EXCEPT ![h] = new] /\ then' = [then EXCEPT ![h] = next]
        /\ pc' = [pc EXCEPT ![h] = "decide"]
        /\ UNCHANGED <<file, answer, activity, promised>>
    BY <1>5 DEF Start, files, history
  <2>2. /\ Read \in AutoSyncState /\ new \in AutoSyncState /\ new.notBefore = Read.notBefore
        /\ next \in {"idle", "spawn"}
    BY ReadType, Updates
  <2> HIDE DEF new, next
  <2>3. Functions'
    BY <1>1, <2>1, <2>2 DEF Functions, Places, HookPlaces
  <2>4. /\ pc'[h] = "decide" /\ base'[h] = Read /\ draft'[h] = new /\ then'[h] = next
        /\ \A q \in Proc \ {h} : /\ pc'[q] = pc[q] /\ base'[q] = base[q] /\ draft'[q] = draft[q]
                                 /\ then'[q] = then[q]
    BY <1>1, <2>1 DEF Functions
  <2>5. ProcessOK(h)' /\ HookOK(h)'
    BY <1>1, <2>1, <2>2, <2>4 DEF ProcessOK, HookOK, HookPlaces
  <2> QED
    BY <1>1, <2>1, <2>3, <2>4, <2>5, OneMoves
<1>6. ASSUME NEW h \in Hook, Decide(h) PROVE LocalInv'
  <2>1. /\ pc[h] = "decide" /\ UNCHANGED <<file, answer, activity, promised>>
    BY <1>6 DEF Decide, files, history
  <2>2. /\ base[h] \in AutoSyncState /\ draft[h] \in AutoSyncState /\ answer[h] = None
        /\ draft[h].notBefore = base[h].notBefore /\ then[h] \in {"idle", "spawn"}
    BY <1>1, <2>1 DEF ProcessOK, HookOK
  <2>3. CASE Return(h) /\ then' = [then EXCEPT ![h] = "idle"]
    <3>1. /\ pc' = [pc EXCEPT ![h] = "idle"] /\ base' = [base EXCEPT ![h] = None]
          /\ draft' = [draft EXCEPT ![h] = None] /\ then' = [then EXCEPT ![h] = "idle"]
      BY <2>3 DEF Return
    <3>2. Functions'
      BY <1>1, <2>1, <3>1 DEF Functions, Places, HookPlaces
    <3>3. /\ pc'[h] = "idle" /\ then'[h] = "idle"
          /\ \A q \in Proc \ {h} : /\ pc'[q] = pc[q] /\ base'[q] = base[q] /\ draft'[q] = draft[q]
                                   /\ then'[q] = then[q]
      BY <1>1, <3>1 DEF Functions
    <3>4. ProcessOK(h)' /\ HookOK(h)'
      BY <2>1, <2>2, <3>3 DEF ProcessOK, HookOK, HookPlaces
    <3> QED
      BY <1>1, <2>1, <3>2, <3>3, <3>4, OneMoves
  <2>4. CASE /\ pc' = [pc EXCEPT ![h] = "write"] /\ UNCHANGED base
             /\ draft' = [draft EXCEPT ![h] = [base[h] EXCEPT !.pending = TRUE]]
             /\ then' = [then EXCEPT ![h] = "idle"]
    <3> DEFINE new == [base[h] EXCEPT !.pending = TRUE]
    <3>1. new \in AutoSyncState /\ new.notBefore = base[h].notBefore /\ new.pending
      BY <2>2, Updates
    <3>2. draft' = [draft EXCEPT ![h] = new]
      BY <2>4
    <3> HIDE DEF new
    <3>3. Functions'
      BY <1>1, <2>1, <2>4, <3>1, <3>2 DEF Functions, Places, HookPlaces
    <3>4. /\ pc'[h] = "write" /\ then'[h] = "idle" /\ draft'[h] = new
          /\ \A q \in Proc \ {h} : pc'[q] = pc[q] /\ draft'[q] = draft[q] /\ then'[q] = then[q]
      BY <1>1, <2>4, <3>2 DEF Functions
    <3>5. ProcessOK(h)' /\ HookOK(h)'
      BY <2>1, <2>2, <2>4, <3>1, <3>4 DEF ProcessOK, HookOK, HookPlaces
    <3> QED
      BY <1>1, <2>1, <2>4, <3>3, <3>4, <3>5, OneMoves
  <2>5. CASE then[h] # "idle" /\ pc' = [pc EXCEPT ![h] = "write"] /\ UNCHANGED <<base, draft, then>>
    <3>1. Functions'
      BY <1>1, <2>1, <2>5 DEF Functions, Places, HookPlaces
    <3>2. pc'[h] = "write" /\ \A q \in Proc \ {h} : pc'[q] = pc[q]
      BY <1>1, <2>5 DEF Functions
    <3>3. ProcessOK(h)' /\ HookOK(h)'
      BY <2>1, <2>2, <2>5, <3>2 DEF ProcessOK, HookOK, HookPlaces
    <3> QED
      BY <1>1, <2>1, <2>5, <3>1, <3>2, <3>3, OneMoves
  <2> QED
    BY <1>6, <2>3, <2>4, <2>5 DEF Decide, MarkPending
<1>7. ASSUME NEW h \in Hook, Spawn(h) PROVE LocalInv'
  <2>1. PICK c \in Child : pc[c] = "idle" /\ pc' = [pc EXCEPT ![h] = "idle", ![c] = "acquire"]
    BY <1>7 DEF Spawn
  <2>2. pc[h] = "spawn" /\ c # h
        /\ UNCHANGED <<file, base, draft, then, answer, activity, promised>>
    BY <1>7 DEF Spawn, files, locals, history
  <2>3. Functions'
    BY <1>1, <2>1, <2>2 DEF Functions, Places, HookPlaces, PassPlaces
  <2>4. /\ pc'[h] = "idle" /\ pc'[c] = "acquire"
        /\ \A q \in Proc \ {h, c} : pc'[q] = pc[q]
    BY <1>1, <2>1, <2>2 DEF Functions
  <2>5. ASSUME NEW q \in Proc PROVE ProcessOK(q)'
    BY <1>1, <2>1, <2>2, <2>4 DEF ProcessOK
  <2>6. ASSUME NEW q \in Hook PROVE HookOK(q)'
    BY <1>1, <2>1, <2>2, <2>4 DEF HookOK, HookPlaces
  <2>7. ASSUME NEW q \in Pass PROVE PassOK(q)'
    BY <1>1, <2>1, <2>2, <2>4 DEF PassOK, PassPlaces
  <2> QED
    BY <1>1, <2>2, <2>3, <2>5, <2>6, <2>7 DEF LocalInv
<1>8. ASSUME NEW p \in Pass,
             CreateLock(p) \/ CheckLock(p) \/ RemoveStaleLock(p) \/ ReleaseLock(p) \/ Gate(p)
             \/ Poll(p) \/ DetectBegin(p)
      PROVE  LocalInv'
  <2>1. PICK place \in {"license", "gate", "check", "idle", "poll", "unlink", "acquire", "release",
                        "sync", "detecting"} :
          pc' = [pc EXCEPT ![p] = place]
    BY <1>8 DEF CreateLock, CheckLock, RemoveStaleLock, ReleaseLock, Gate, Poll, DetectBegin, GiveUp
  <2>2. UNCHANGED <<file, base, draft, then, answer>> /\ pc[p] # "record"
    BY <1>8 DEF CreateLock, CheckLock, RemoveStaleLock, ReleaseLock, Gate, Poll, DetectBegin, GiveUp,
                files, locals
  <2>3. activity' \in {"none", "some", "asked"} /\ promised' \in 0 .. MaxGap
    <3>1. CASE Gate(p)
      BY <3>1, DisturbedType DEF Gate
    <3>2. CASE ~Gate(p)
      BY <1>1, <1>8, <3>2 DEF CreateLock, CheckLock, RemoveStaleLock, ReleaseLock, Poll, DetectBegin,
                              GiveUp, history
    <3> QED
      BY <3>1, <3>2
  <2>4. place \in Elsewhere /\ place \in PassPlaces /\ p \notin Hook
    BY DEF Elsewhere, PassPlaces
  <2> QED
    BY <1>1, <2>1, <2>2, <2>3, <2>4, OneGoes
<1>9. ASSUME NEW m \in Manual, SyncByHand(m) PROVE LocalInv'
  <2>1. /\ pc' = [pc EXCEPT ![m] = "acquire"] /\ pc[m] = "idle"
        /\ UNCHANGED <<file, base, draft, then, answer, activity, promised>>
    BY <1>9 DEF SyncByHand, files, locals, history
  <2>2. "acquire" \in Elsewhere /\ "acquire" \in PassPlaces /\ m \notin Hook
    BY DEF Elsewhere, PassPlaces
  <2> QED
    BY <1>1, <2>1, <2>2, OneGoes
<1>10. ASSUME NEW c \in Child, RefreshLicense(c) PROVE LocalInv'
  <2>1. answer[c] = None /\ pc[c] = "license"
        /\ UNCHANGED <<file, answer, activity, promised>>
    BY <1>1, <1>10 DEF RefreshLicense, ProcessOK, files, history
  <2>2. CASE UpdateState(c, "detect")
    BY <1>1, <2>1, <2>2, UpdatesState
  <2>3. CASE pc' = [pc EXCEPT ![c] = "detect"] /\ UNCHANGED <<base, draft, then>>
    <3>1. "detect" \in Elsewhere /\ "detect" \in PassPlaces /\ c \notin Hook
      BY DEF Elsewhere, PassPlaces
    <3> QED
      BY <1>1, <2>1, <2>3, <3>1, OneGoes
  <2> QED
    BY <1>10, <2>2, <2>3 DEF RefreshLicense
<1>11. ASSUME NEW c \in Child, DetectEnd(c) PROVE LocalInv'
  <2>1. answer[c] = None /\ UpdateState(c, "gate") /\ UNCHANGED <<file, answer, promised>>
    BY <1>1, <1>11 DEF DetectEnd, ProcessOK, files
  <2>2. activity' \in {"none", "some", "asked"}
    BY <1>1, <1>11 DEF DetectEnd, Unread
  <2> QED
    BY <2>1, <2>2, UpdatesState
<1>12. ASSUME NEW p \in Pass, Sync(p) PROVE LocalInv'
  <2>1. /\ pc[p] = "sync" /\ pc' = [pc EXCEPT ![p] = "record"]
        /\ UNCHANGED <<file, base, draft, then, activity, promised>>
    BY <1>12 DEF Sync, files, history
  <2>2. PICK a \in {None, 0, MaxGap} : answer' = [answer EXCEPT ![p] = a]
    BY <1>12 DEF Sync
  <2>3. a \in 0 .. MaxGap \cup {None}
    BY TimesAssumption
  <2>4. Functions'
    BY <1>1, <2>1, <2>2, <2>3 DEF Functions, Places, PassPlaces
  <2>5. /\ pc'[p] = "record"
        /\ \A q \in Proc \ {p} : pc'[q] = pc[q] /\ answer'[q] = answer[q]
    BY <1>1, <2>1, <2>2 DEF Functions
  <2>6. ProcessOK(p)' /\ PassOK(p)' /\ p \notin Hook
    BY <2>5 DEF ProcessOK, PassOK, PassPlaces
  <2> QED
    BY <1>1, <2>1, <2>4, <2>5, <2>6, OneMoves
<1>13. ASSUME NEW p \in Pass, RecordOutcome(p) PROVE LocalInv'
  <2>1. /\ UpdateState(p, "release") /\ answer' = [answer EXCEPT ![p] = None]
        /\ UNCHANGED <<file, activity, promised>>
    BY <1>13 DEF RecordOutcome, files, history
  <2>2. answer'[p] = None
    BY <1>1, <2>1 DEF Functions
  <2> QED
    BY <1>1, <2>1, <2>2, UpdatesState
<1>14. ASSUME NEW p \in Proc, Crash(p) PROVE LocalInv'
  <2>1. /\ pc' = [pc EXCEPT ![p] = "idle"] /\ base' = [base EXCEPT ![p] = None]
        /\ draft' = [draft EXCEPT ![p] = None] /\ then' = [then EXCEPT ![p] = "idle"]
        /\ answer' = [answer EXCEPT ![p] = None] /\ UNCHANGED <<file, promised>>
    BY <1>14 DEF Crash, files
  <2>2. activity' \in {"none", "some", "asked"}
    BY <1>1, <1>14 DEF Crash
  <2>3. Functions'
    BY <1>1, <2>1 DEF Functions, Places, HookPlaces
  <2>4. /\ pc'[p] = "idle" /\ then'[p] = "idle" /\ answer'[p] = None
        /\ \A q \in Proc \ {p} : /\ pc'[q] = pc[q] /\ base'[q] = base[q] /\ draft'[q] = draft[q]
                                 /\ then'[q] = then[q] /\ answer'[q] = answer[q]
    BY <1>1, <2>1 DEF Functions
  <2>5. ProcessOK(p)' /\ HookOK(p)' /\ PassOK(p)'
    BY <2>4 DEF ProcessOK, HookOK, HookPlaces, PassOK, PassPlaces
  <2> QED
    BY <1>1, <2>1, <2>2, <2>3, <2>4, <2>5, OneMoves
<1>15. CASE Tick
  <2>1. /\ file' = Older(file) /\ base' = [p \in Proc |-> Older(base[p])]
        /\ draft' = [p \in Proc |-> Older(draft[p])] /\ promised' = DownFrom(promised)
        /\ UNCHANGED <<pc, then, answer, activity>>
    BY <1>15 DEF Tick
  <2>2. /\ Older(None) = None /\ Older(Torn) = Torn
    BY DEF Older
  <2>3. Functions'
    <3>1. ASSUME NEW p \in Proc
          PROVE  /\ base[p] \in AutoSyncState \cup {None} => Older(base[p]) \in AutoSyncState \cup {None}
                 /\ draft[p] \in AutoSyncState \cup {None} => Older(draft[p]) \in AutoSyncState \cup {None}
      BY <2>2, OlderKeeps
    <3> QED
      BY <1>1, <2>1, <3>1 DEF Functions
  <2>4. file' \in AutoSyncState \cup {Torn} /\ promised' \in 0 .. MaxGap
    <3>1. file' \in AutoSyncState \cup {Torn}
      BY <1>1, <2>1, <2>2, OlderKeeps
    <3>2. promised' \in 0 .. MaxGap
      BY <1>1, <2>1, TimesAssumption DEF DownFrom
    <3> QED
      BY <3>1, <3>2
  <2>5. ASSUME NEW p \in Proc PROVE ProcessOK(p)'
    <3>1. base'[p] = Older(base[p]) /\ draft'[p] = Older(draft[p])
      BY <2>1
    <3> QED
      BY <1>1, <2>1, <3>1, OlderKeeps DEF ProcessOK
  <2>6. ASSUME NEW h \in Hook PROVE HookOK(h)'
    <3>1. draft'[h] = Older(draft[h])
      BY <2>1
    <3>2. pc[h] \in {"write", "fill"} => draft'[h].pending = draft[h].pending
      BY <1>1, <3>1, OlderKeeps DEF ProcessOK
    <3> QED
      BY <1>1, <2>1, <3>2 DEF HookOK
  <2>7. ASSUME NEW p \in Pass PROVE PassOK(p)'
    <3>1. base'[p] = Older(base[p]) /\ draft'[p] = Older(draft[p])
      BY <2>1
    <3>2. pc[p] = "write" => draft'[p].pending = draft[p].pending /\ base'[p].pending = base[p].pending
      BY <1>1, <3>1, OlderKeeps DEF ProcessOK
    <3> QED
      BY <1>1, <2>1, <3>2 DEF PassOK
  <2> QED
    BY <1>1, <2>1, <2>3, <2>4, <2>5, <2>6, <2>7 DEF LocalInv
<1>16. CASE UNCHANGED vars
  BY <1>1, <1>16 DEF vars, files, locals, history, LocalInv, Functions, ProcessOK, HookOK, PassOK
<1> QED
  BY <1>2, <1>3, <1>4, <1>5, <1>6, <1>7, <1>8, <1>9, <1>10, <1>11, <1>12, <1>13, <1>14, <1>15,
     <1>16 DEF Next, HookStep, PassStep

LEMMA LocalAlways == Spec => []LocalInv
  BY LocalInit, LocalStep, PTL DEF Spec

-----------------------------------------------------------------------------
(* The gap. *)

(* A pass that has looked the gap up and not yet written what it learnt. *)
Syncing(p) ==
    \/ pc[p] \in {"sync", "record"}
    \/ pc[p] \in {"write", "fill"} /\ then[p] = "release"

GapInv ==
    /\ file # Torn => promised <= file.notBefore
    /\ \A p \in Proc : pc[p] = "fill" => promised <= draft[p].notBefore
    /\ \A p \in Pass : Syncing(p) => promised = 0

LEMMA OneInside ==
    ASSUME OneSync, NEW p \in Pass, NEW q \in Pass, Inside(p), Inside(q)
    PROVE  p = q
<1> DEFINE S == {r \in Pass : Inside(r)}
<1>1. IsFiniteSet(S) /\ {p, q} \subseteq S
  BY ProcTypes, FS_Subset
<1>2. Cardinality({p, q}) <= Cardinality(S) /\ Cardinality(S) \in Nat
  BY <1>1, FS_Subset, FS_CardinalityType
<1>3. Cardinality(S) <= 1
  BY DEF OneSync
<1> HIDE DEF S
<1>4. SUFFICES ASSUME p # q PROVE FALSE
  OBVIOUS
<1>5. {p, q} = {p} \cup {q} /\ q \notin {p} /\ IsFiniteSet({p}) /\ Cardinality({p}) = 1
  BY <1>4, FS_Singleton
<1>6. Cardinality({p, q}) = 2
  BY <1>5, FS_AddElement
<1> QED
  BY <1>2, <1>3, <1>6

LEMMA GapFrame ==
    ASSUME LocalInv, GapInv, promised' \in {promised, 0}, file' = file,
           \A p \in Proc : pc'[p] = "fill" => pc[p] = "fill" /\ draft'[p] = draft[p],
           \A p \in Pass : Syncing(p)' => Syncing(p)
    PROVE  GapInv'
<1>1. /\ promised \in Nat
      /\ file # Torn => file.notBefore \in Nat
      /\ \A p \in Proc : pc[p] = "fill" => draft[p].notBefore \in Nat
  BY DEF LocalInv, ProcessOK, AutoSyncState
<1> QED
  BY <1>1 DEF GapInv

LEMMA GapStep == LocalInv /\ GapInv /\ [Next]_vars => GapInv'
<1> SUFFICES ASSUME LocalInv, GapInv, [Next]_vars PROVE GapInv'
  OBVIOUS
<1> USE ProcTypes
<1>1. /\ file \in AutoSyncState \cup {Torn} /\ promised \in Nat /\ Functions
      /\ \A p \in Proc : ProcessOK(p)
      /\ \A h \in Hook : HookOK(h)
      /\ \A p \in Pass : PassOK(p)
  BY DEF LocalInv
<1>2. \A p \in Proc : pc[p] = "fill" => draft[p].notBefore \in Nat
  BY <1>1 DEF ProcessOK, AutoSyncState
<1>3. ASSUME NEW p \in Proc, Truncate(p) PROVE GapInv'
  <2>1. /\ pc[p] = "write" /\ file' = Torn /\ pc' = [pc EXCEPT ![p] = "fill"]
        /\ UNCHANGED <<draft, then>> /\ Disturbed(file # base[p])
    BY <1>3 DEF Truncate
  <2>2. promised' \in {promised, 0} /\ (promised' # 0 => file = base[p])
    BY <2>1, DisturbedType
  <2>3. /\ pc'[p] = "fill" /\ \A q \in Proc \ {p} : pc'[q] = pc[q]
        /\ base[p] \in AutoSyncState /\ draft[p] \in AutoSyncState
        /\ draft[p].notBefore \in Nat /\ base[p] # Torn
    BY <1>1, <2>1, StatesAssumption DEF Functions, ProcessOK, AutoSyncState
  <2>4. promised' <= draft[p].notBefore
    <3>1. CASE promised' = 0
      BY <2>3, <3>1
    <3>2. CASE promised' # 0
      <4>1. promised <= base[p].notBefore /\ promised' = promised
        BY <2>2, <2>3, <3>2 DEF GapInv
      <4>2. then[p] # "release"
        <5>1. p \in Pass => ~Syncing(p)
          BY <3>2, <4>1 DEF GapInv
        <5> QED
          BY <1>1, <2>1, <5>1 DEF Syncing, HookOK, Proc
      <4>3. draft[p].notBefore = base[p].notBefore
        BY <1>1, <2>1, <4>2 DEF ProcessOK
      <4> QED
        BY <4>1, <4>3
    <3> QED
      BY <3>1, <3>2
  <2>5. \A q \in Pass : Syncing(q)' => promised' = 0
    BY <2>1, <2>2, <2>3 DEF GapInv, Syncing
  <2>6. \A q \in Proc : pc'[q] = "fill" => promised' <= draft'[q].notBefore
    BY <1>1, <1>2, <2>1, <2>2, <2>3, <2>4 DEF GapInv
  <2> QED
    BY <2>1, <2>5, <2>6 DEF GapInv
<1>4. ASSUME NEW p \in Proc, Fill(p) PROVE GapInv'
  <2>1. /\ pc[p] = "fill" /\ file' = draft[p] /\ pc' = [pc EXCEPT ![p] = then[p]]
        /\ draft' = [draft EXCEPT ![p] = None] /\ then' = [then EXCEPT ![p] = "idle"]
    BY <1>4 DEF Fill
  <2>2. /\ p \in Hook => then[p] \in {"idle", "spawn"}
        /\ p \in Pass => then[p] \in {"detect", "gate", "release"}
    BY <1>1, <2>1 DEF HookOK, PassOK
  <2>3. /\ pc'[p] = then[p] /\ pc'[p] \notin {"fill", "write", "sync", "record"}
        /\ \A q \in Proc \ {p} : pc'[q] = pc[q] /\ draft'[q] = draft[q] /\ then'[q] = then[q]
    BY <1>1, <2>1, <2>2 DEF Functions, Proc
  <2>4. \A q \in Pass : Syncing(q)' => q # p /\ Syncing(q)
    BY <2>1, <2>3 DEF Syncing
  <2>5. CASE promised' \in {promised, 0}
    <3>1. \A q \in Proc : pc'[q] = "fill" => promised' <= draft'[q].notBefore
      BY <1>1, <1>2, <2>3, <2>5 DEF GapInv
    <3>2. promised' <= draft[p].notBefore
      BY <1>1, <1>2, <2>1, <2>5 DEF GapInv
    <3> QED
      BY <2>1, <2>4, <2>5, <3>1, <3>2 DEF GapInv
  <2>6. CASE promised' \notin {promised, 0}
    <3>1. /\ promised' = draft[p].notBefore /\ then[p] = "release" /\ OneSync
          /\ \A q \in Proc \ {p} : pc[q] # "fill"
      <4>1. ~Disturbed(TRUE)
        BY <2>6, DisturbedType
      <4> QED
        BY <1>4, <2>6, <4>1 DEF Fill
    <3>2. p \in Pass /\ Inside(p)
      BY <2>1, <2>2, <3>1 DEF Proc, Inside
    <3>3. ASSUME NEW q \in Pass, Syncing(q)' PROVE FALSE
      <4>1. q # p /\ Inside(q)
        BY <2>4, <3>3 DEF Syncing, Inside
      <4> QED
        BY <3>1, <3>2, <4>1, OneInside
    <3>4. promised' <= draft[p].notBefore
      BY <1>2, <2>1, <3>1
    <3> QED
      BY <2>1, <2>3, <3>1, <3>3, <3>4 DEF GapInv
  <2> QED
    BY <2>5, <2>6
<1>5. ASSUME NEW h \in Hook, HookEvent(h) \/ CheckDue(h) \/ Start(h) \/ Decide(h) PROVE GapInv'
  <2>1. UNCHANGED <<file, promised>> /\ pc'[h] # "fill"
        /\ \A q \in Proc \ {h} : pc'[q] = pc[q] /\ draft'[q] = draft[q] /\ then'[q] = then[q]
    BY <1>1, <1>5 DEF HookEvent, CheckDue, Start, Decide, MarkPending, Return, files, locals,
                      history, Functions
  <2> QED
    BY <2>1, GapFrame DEF Syncing
<1>6. ASSUME NEW h \in Hook, Spawn(h) PROVE GapInv'
  <2>1. PICK c \in Child : pc[c] = "idle" /\ pc' = [pc EXCEPT ![h] = "idle", ![c] = "acquire"]
    BY <1>6 DEF Spawn
  <2>2. UNCHANGED <<file, promised, draft, then>>
        /\ \A q \in Proc : pc'[q] = pc[q] \/ pc'[q] \in {"idle", "acquire"}
    BY <1>1, <1>6, <2>1 DEF Spawn, files, locals, history, Functions
  <2> QED
    BY <2>2, GapFrame DEF Syncing
<1>7. ASSUME NEW p \in Pass,
             CreateLock(p) \/ CheckLock(p) \/ RemoveStaleLock(p) \/ ReleaseLock(p) \/ Poll(p)
             \/ DetectBegin(p) \/ SyncByHand(p)
      PROVE  GapInv'
  <2>1. /\ UNCHANGED <<file, promised, draft, then>>
        /\ pc'[p] \notin {"fill", "write", "sync", "record"}
        /\ \A q \in Proc \ {p} : pc'[q] = pc[q]
    BY <1>1, <1>7 DEF CreateLock, CheckLock, RemoveStaleLock, ReleaseLock, Poll, DetectBegin,
                      SyncByHand, GiveUp, files, locals, history, Functions
  <2> QED
    BY <2>1, GapFrame DEF Syncing
<1>8. ASSUME NEW c \in Child, RefreshLicense(c) \/ DetectEnd(c) PROVE GapInv'
  <2>1. ASSUME NEW next \in {"detect", "gate"}, UpdateState(c, next),
               UNCHANGED <<file, promised>>
        PROVE  GapInv'
    <3>1. /\ pc'[c] = "write" /\ then'[c] = next
          /\ \A q \in Proc \ {c} : pc'[q] = pc[q] /\ draft'[q] = draft[q] /\ then'[q] = then[q]
      BY <1>1, <2>1 DEF UpdateState, Functions
    <3> QED
      BY <2>1, <3>1, GapFrame DEF Syncing
  <2>2. CASE pc' = [pc EXCEPT ![c] = "detect"] /\ UNCHANGED <<file, promised, draft, then>>
    <3>1. pc'[c] = "detect" /\ \A q \in Proc \ {c} : pc'[q] = pc[q]
      BY <1>1, <2>2 DEF Functions
    <3> QED
      BY <2>2, <3>1, GapFrame DEF Syncing
  <2>3. UNCHANGED <<file, promised>>
    BY <1>8 DEF RefreshLicense, DetectEnd, files, history
  <2> QED
    BY <1>8, <2>1, <2>2, <2>3 DEF RefreshLicense, DetectEnd
<1>9. ASSUME NEW p \in Pass, Gate(p) PROVE GapInv'
  <2>1. /\ pc' = [pc EXCEPT ![p] = IF SyncDeferred(Read) THEN "release" ELSE "sync"]
        /\ Disturbed(file = Torn) /\ UNCHANGED <<file, draft, then>>
    BY <1>9 DEF Gate, files, locals
  <2>2. promised' \in {promised, 0} /\ (promised' # 0 => file # Torn)
    BY <2>1, DisturbedType
  <2>3. /\ pc'[p] = (IF SyncDeferred(Read) THEN "release" ELSE "sync")
        /\ \A q \in Proc \ {p} : pc'[q] = pc[q]
    BY <1>1, <2>1 DEF Functions
  <2>4. ASSUME pc'[p] = "sync" PROVE promised' = 0
    <3>1. Read \in AutoSyncState /\ ~(Read.notBefore > 0)
      BY <2>3, <2>4, ReadType DEF SyncDeferred
    <3>2. Read.notBefore = 0
      BY <3>1 DEF AutoSyncState
    <3> QED
      BY <1>1, <2>2, <3>2, ReadType DEF GapInv
  <2>5. \A q \in Pass : Syncing(q)' => promised' = 0
    BY <2>1, <2>2, <2>3, <2>4 DEF GapInv, Syncing
  <2>6. \A q \in Proc : pc'[q] = "fill" => promised' <= draft'[q].notBefore
    BY <1>1, <1>2, <2>1, <2>2, <2>3 DEF GapInv
  <2>7. file' # Torn => promised' <= file'.notBefore
    BY <1>1, <2>1, <2>2 DEF GapInv, AutoSyncState
  <2> QED
    BY <2>5, <2>6, <2>7 DEF GapInv
<1>10. ASSUME NEW p \in Pass, Sync(p) \/ RecordOutcome(p) PROVE GapInv'
  <2>1. UNCHANGED <<file, promised>> /\ pc'[p] # "fill" /\ Syncing(p)
        /\ \A q \in Proc \ {p} : pc'[q] = pc[q] /\ draft'[q] = draft[q] /\ then'[q] = then[q]
    BY <1>1, <1>10 DEF Sync, RecordOutcome, UpdateState, files, history, Functions, Syncing
  <2> QED
    BY <2>1, GapFrame DEF Syncing
<1>11. ASSUME NEW p \in Proc, Crash(p) PROVE GapInv'
  <2>1. UNCHANGED <<file, promised>> /\ pc'[p] = "idle"
        /\ \A q \in Proc \ {p} : pc'[q] = pc[q] /\ draft'[q] = draft[q] /\ then'[q] = then[q]
    BY <1>1, <1>11 DEF Crash, files, Functions
  <2> QED
    BY <2>1, GapFrame DEF Syncing
<1>12. CASE Tick
  <2>1. /\ file' = Older(file) /\ draft' = [p \in Proc |-> Older(draft[p])]
        /\ promised' = DownFrom(promised) /\ UNCHANGED <<pc, then>>
    BY <1>12 DEF Tick
  <2>2. \A n \in Nat : promised <= n => promised' <= DownFrom(n)
    BY <1>1, <2>1 DEF DownFrom
  <2>3. file' # Torn => promised' <= file'.notBefore
    <3>1. ASSUME file' # Torn PROVE file # Torn
      BY <2>1, <3>1 DEF Older
    <3>2. ASSUME file # Torn
          PROVE  file.notBefore \in Nat /\ file'.notBefore = DownFrom(file.notBefore)
      <4>1. file \in AutoSyncState
        BY <1>1, <3>2
      <4> QED
        BY <2>1, <4>1, OlderKeeps DEF AutoSyncState
    <3> QED
      BY <2>2, <3>1, <3>2 DEF GapInv
  <2>4. ASSUME NEW p \in Proc, pc'[p] = "fill" PROVE promised' <= draft'[p].notBefore
    <3>1. draft[p] \in AutoSyncState /\ draft'[p] = Older(draft[p]) /\ pc[p] = "fill"
      BY <1>1, <2>1, <2>4 DEF ProcessOK
    <3>2. draft'[p].notBefore = DownFrom(draft[p].notBefore)
      BY <3>1, OlderKeeps
    <3> QED
      BY <1>2, <2>2, <3>1, <3>2 DEF GapInv
  <2>5. \A p \in Pass : Syncing(p)' => promised' = 0
    BY <2>1 DEF GapInv, Syncing, DownFrom
  <2> QED
    BY <2>3, <2>4, <2>5 DEF GapInv
<1>13. CASE UNCHANGED vars
  BY <1>13, GapFrame DEF vars, files, locals, history, Syncing
<1> QED
  BY <1>3, <1>4, <1>5, <1>6, <1>7, <1>8, <1>9, <1>10, <1>11, <1>12, <1>13 DEF Next, HookStep, PassStep

(* No sync is sent inside the gap the cloud asked for once that gap is in the
   state file, unless a later write lost it or two syncs ran at once. *)
THEOREM GapKeptAlways == Spec => GapKept
<1>1. Init => GapInv
  BY TimesAssumption DEF Init, GapInv, NoState, Syncing, Pass, Proc
<1>2. GapInv => [\A p \in Pass : (pc[p] = "sync" /\ pc'[p] = "record") => promised = 0]_vars
  BY DEF GapInv, Syncing
<1> QED
  BY <1>1, <1>2, LocalAlways, GapStep, PTL DEF Spec, GapKept

-----------------------------------------------------------------------------
(* What was asked for. *)

(* A hook that has read that a pass is pending relies on the file; one that has
   not, or is about to write or to spawn, carries the request itself. *)
Carries(h) ==
    \/ pc[h] \in {"start", "write", "fill", "spawn"}
    \/ pc[h] = "decide" /\ ~base[h].pending

Carried == Pending \/ (\E h \in Hook : Carries(h)) \/ (\E c \in Child : OnItsWay(c))

PendingInv == activity = "asked" => Carried

(* An action of one process that leaves the file alone. *)
LEMMA CarriedFrame ==
    ASSUME LocalInv, Carried, NEW p \in Proc, file' = file, pc[p] # "fill",
           \A q \in Proc \ {p} : /\ pc'[q] = pc[q] /\ base'[q] = base[q] /\ draft'[q] = draft[q]
                                 /\ then'[q] = then[q],
           p \in Hook /\ Carries(p) => Carried', p \in Child /\ OnItsWay(p) => OnItsWay(p)'
    PROVE  Carried'
<1> USE ProcTypes
<1>1. CASE Pending
  <2>1. CASE file = Torn
    <3>1. PICK q \in Proc : pc[q] = "fill" /\ draft[q].pending
      BY <1>1, <2>1 DEF Pending
    <3> QED
      BY <2>1, <3>1 DEF Carried, Pending
  <2>2. CASE file # Torn
    BY <1>1, <2>2 DEF Carried, Pending
  <2> QED
    BY <2>1, <2>2
<1>2. ASSUME NEW h \in Hook, Carries(h) PROVE Carried'
  <2>1. CASE h = p
    BY <1>2, <2>1
  <2>2. CASE h # p
    <3>1. Carries(h)'
      BY <1>2, <2>2 DEF Carries
    <3> QED
      BY <3>1 DEF Carried
  <2> QED
    BY <2>1, <2>2
<1>3. ASSUME NEW c \in Child, OnItsWay(c) PROVE Carried'
  <2>1. CASE c = p
    BY <1>3, <2>1 DEF Carried
  <2>2. CASE c # p
    <3>1. OnItsWay(c)'
      BY <1>3, <2>2 DEF OnItsWay
    <3> QED
      BY <3>1 DEF Carried
  <2> QED
    BY <2>1, <2>2
<1> QED
  BY <1>1, <1>2, <1>3 DEF Carried

LEMMA PendingStep == LocalInv /\ PendingInv /\ [Next]_vars => PendingInv'
<1> SUFFICES ASSUME LocalInv, PendingInv, [Next]_vars, activity' = "asked" PROVE Carried'
  BY DEF PendingInv
<1> USE ProcTypes
<1>1. /\ file \in AutoSyncState \cup {Torn} /\ Functions
      /\ \A p \in Proc : ProcessOK(p)
      /\ \A h \in Hook : HookOK(h)
      /\ \A p \in Pass : PassOK(p)
      /\ activity = "asked" => Carried
  BY DEF LocalInv, PendingInv
<1>2. ASSUME NEW p \in Proc, Truncate(p) PROVE Carried'
  <2>1. /\ pc[p] = "write" /\ file' = Torn /\ pc' = [pc EXCEPT ![p] = "fill"]
        /\ base' = [base EXCEPT ![p] = None]
        /\ UNCHANGED <<draft, then>> /\ Disturbed(file # base[p])
    BY <1>2 DEF Truncate
  <2>2. Carried /\ file = base[p]
    BY <1>1, <2>1, DisturbedType
  <2>3. /\ pc'[p] = "fill" /\ \A q \in Proc \ {p} : pc'[q] = pc[q] /\ base'[q] = base[q]
        /\ base[p] \in AutoSyncState /\ base[p] # Torn
    BY <1>1, <2>1, StatesAssumption DEF Functions, ProcessOK
  <2>4. CASE p \in Hook
    BY <2>3, <2>4 DEF Carried, Carries
  <2>5. CASE p \in Pass
    <3>1. CASE Pending
      <4>1. draft[p].pending
        BY <1>1, <2>1, <2>2, <2>3, <2>5, <3>1 DEF Pending, PassOK
      <4> QED
        BY <2>1, <2>3, <4>1 DEF Carried, Pending
    <3>2. ASSUME NEW h \in Hook, Carries(h) PROVE Carried'
      <4>1. Carries(h)'
        BY <2>3, <2>5, <3>2 DEF Carries
      <4> QED
        BY <4>1 DEF Carried
    <3>3. ASSUME NEW c \in Child, OnItsWay(c) PROVE Carried'
      <4>1. OnItsWay(c)'
        BY <2>1, <2>3, <3>3 DEF OnItsWay
      <4> QED
        BY <4>1 DEF Carried
    <3> QED
      BY <2>2, <3>1, <3>2, <3>3 DEF Carried
  <2> QED
    BY <2>4, <2>5 DEF Proc
<1>3. ASSUME NEW p \in Proc, Fill(p) PROVE Carried'
  <2>1. /\ pc[p] = "fill" /\ file' = draft[p] /\ pc' = [pc EXCEPT ![p] = then[p]]
        /\ draft' = [draft EXCEPT ![p] = None] /\ then' = [then EXCEPT ![p] = "idle"]
        /\ base' = base
    BY <1>3 DEF Fill
  <2>2. /\ file = Torn /\ activity = "asked" /\ \A q \in Proc \ {p} : pc[q] # "fill"
    <3>1. ~Disturbed(TRUE)
      BY DisturbedType
    <3> QED
      BY <1>3, <3>1 DEF Fill
  <2>3. /\ pc'[p] = then[p] /\ draft[p] \in AutoSyncState /\ draft[p] # Torn
        /\ \A q \in Proc \ {p} : pc'[q] = pc[q] /\ draft'[q] = draft[q] /\ then'[q] = then[q]
    BY <1>1, <2>1, StatesAssumption DEF Functions, ProcessOK
  <2>4. Pending' = draft[p].pending
    BY <2>1, <2>3 DEF Pending
  <2>5. CASE p \in Hook
    <3>1. then[p] = "spawn" \/ draft[p].pending
      BY <1>1, <2>1, <2>5 DEF HookOK
    <3> QED
      BY <2>3, <2>4, <2>5, <3>1 DEF Carried, Carries
  <2>6. CASE p \in Pass
    <3>1. CASE Pending
      BY <2>2, <2>4, <3>1 DEF Pending, Carried
    <3>2. ASSUME NEW h \in Hook, Carries(h) PROVE Carried'
      <4>1. Carries(h)'
        BY <2>1, <2>3, <2>6, <3>2 DEF Carries
      <4> QED
        BY <4>1 DEF Carried
    <3>3. ASSUME NEW c \in Child, OnItsWay(c) PROVE Carried'
      <4>1. OnItsWay(c)'
        BY <2>1, <2>3, <3>3 DEF OnItsWay
      <4> QED
        BY <4>1 DEF Carried
    <3> QED
      BY <1>1, <2>2, <3>1, <3>2, <3>3 DEF Carried
  <2> QED
    BY <2>5, <2>6 DEF Proc
<1>4. ASSUME NEW h \in Hook, HookEvent(h) PROVE Carried'
  <2>1. /\ UNCHANGED <<file, base, draft, then>> /\ pc[h] = "idle"
        /\ \A q \in Proc \ {h} : pc'[q] = pc[q]
        /\ pc'[h] = "start" \/ activity = "asked"
    BY <1>1, <1>4 DEF HookEvent, files, locals, Functions
  <2>2. CASE pc'[h] = "start"
    BY <2>2 DEF Carried, Carries
  <2>3. CASE activity = "asked"
    BY <1>1, <2>1, <2>3, CarriedFrame DEF Carries
  <2> QED
    BY <2>1, <2>2, <2>3
<1>5. ASSUME NEW h \in Hook, CheckDue(h) PROVE Carried'
  <2>1. /\ UNCHANGED <<file, base, draft, then, activity>> /\ pc[h] = "due"
        /\ \A q \in Proc \ {h} : pc'[q] = pc[q]
    BY <1>1, <1>5 DEF CheckDue, files, locals, history, Functions
  <2> QED
    BY <1>1, <2>1, CarriedFrame DEF Carries
<1>6. ASSUME NEW h \in Hook, Start(h) PROVE Carried'
  <2>1. /\ pc[h] = "start" /\ base'[h] = Read /\ pc'[h] = "decide" /\ UNCHANGED file
    BY <1>1, <1>6 DEF Start, files, Functions
  <2>2. CASE Read.pending
    <3>1. file # Torn
      BY <2>2 DEF Read, NoState
    <3> QED
      BY <2>1, <2>2, <3>1, ReadType DEF Carried, Pending
  <2>3. CASE ~Read.pending
    BY <2>1, <2>3 DEF Carried, Carries
  <2> QED
    BY <2>2, <2>3
<1>7. ASSUME NEW h \in Hook, Decide(h) PROVE Carried'
  <2>1. /\ UNCHANGED <<file, activity>> /\ pc[h] = "decide"
        /\ pc'[h] = "write" \/ base[h].pending
        /\ \A q \in Proc \ {h} : /\ pc'[q] = pc[q] /\ base'[q] = base[q] /\ draft'[q] = draft[q]
                                 /\ then'[q] = then[q]
    BY <1>1, <1>7 DEF Decide, MarkPending, Return, files, history, Functions
  <2>2. Carries(h) => Carried'
    BY <2>1 DEF Carries, Carried
  <2> QED
    BY <1>1, <2>1, <2>2, CarriedFrame
<1>8. ASSUME NEW h \in Hook, Spawn(h) PROVE Carried'
  <2>1. PICK c \in Child : pc[c] = "idle" /\ pc' = [pc EXCEPT ![h] = "idle", ![c] = "acquire"]
    BY <1>8 DEF Spawn
  <2>2. pc'[c] = "acquire"
    BY <1>1, <2>1 DEF Functions
  <2> QED
    BY <2>2 DEF Carried, OnItsWay
<1>9. ASSUME NEW p \in Pass,
             CreateLock(p) \/ CheckLock(p) \/ RemoveStaleLock(p) \/ ReleaseLock(p) \/ Gate(p)
             \/ Sync(p) \/ Poll(p) \/ SyncByHand(p)
      PROVE  Carried'
  <2>1. UNCHANGED <<file, base, draft, then>> /\ pc[p] # "fill"
    BY <1>9 DEF CreateLock, CheckLock, RemoveStaleLock, ReleaseLock, Gate, Sync, Poll, SyncByHand,
                files, locals
  <2>2. activity = "asked"
    <3>1. CASE Gate(p)
      BY <3>1, DisturbedType DEF Gate
    <3>2. CASE ~Gate(p)
      BY <1>9, <3>2 DEF CreateLock, CheckLock, RemoveStaleLock, ReleaseLock, Sync, Poll, SyncByHand,
                        GiveUp, history
    <3> QED
      BY <3>1, <3>2
  <2>3. \A q \in Proc \ {p} : pc'[q] = pc[q]
    BY <1>1, <1>9 DEF CreateLock, CheckLock, RemoveStaleLock, ReleaseLock, Gate, Sync, Poll,
                      SyncByHand, GiveUp, Functions
  <2>4. ASSUME p \in Child, OnItsWay(p) PROVE OnItsWay(p)'
    <3>1. pc[p] \in {"acquire", "check", "unlink", "license", "detect", "write", "fill"}
      BY <2>4 DEF OnItsWay
    <3>2. CASE CreateLock(p)
      <4>1. pc'[p] \in {"license", "check"}
        BY <1>1, <2>4, <3>2 DEF CreateLock, Functions
      <4> QED
        BY <4>1 DEF OnItsWay
    <3>3. CASE CheckLock(p)
      <4>1. pc'[p] = "unlink"
        BY <1>1, <2>2, <2>4, <3>3 DEF CheckLock, GiveUp, Functions
      <4> QED
        BY <4>1 DEF OnItsWay
    <3>4. CASE RemoveStaleLock(p)
      <4>1. pc'[p] = "acquire"
        BY <1>1, <2>2, <2>4, <3>4 DEF RemoveStaleLock, GiveUp, Functions
      <4> QED
        BY <4>1 DEF OnItsWay
    <3> QED
      BY <1>9, <3>1, <3>2, <3>3, <3>4 DEF ReleaseLock, Gate, Sync, Poll, SyncByHand
  <2> QED
    BY <1>1, <2>1, <2>2, <2>3, <2>4, CarriedFrame
<1>10. ASSUME NEW c \in Child, RefreshLicense(c) PROVE Carried'
  <2>1. /\ UNCHANGED <<file, activity>> /\ pc[c] = "license"
        /\ \A q \in Proc \ {c} : /\ pc'[q] = pc[q] /\ base'[q] = base[q] /\ draft'[q] = draft[q]
                                 /\ then'[q] = then[q]
    BY <1>1, <1>10 DEF RefreshLicense, UpdateState, files, history, Functions
  <2>2. pc'[c] = "detect" \/ (pc'[c] = "write" /\ then'[c] = "detect")
    BY <1>1, <1>10 DEF RefreshLicense, UpdateState, Functions
  <2> QED
    BY <1>1, <2>1, <2>2, CarriedFrame DEF OnItsWay
<1>11. ASSUME NEW c \in Child, DetectBegin(c) PROVE FALSE
  BY <1>11 DEF DetectBegin
<1>12. ASSUME NEW p \in Pass, (p \in Child /\ DetectEnd(p)) \/ RecordOutcome(p) PROVE Carried'
  <2>1. /\ UNCHANGED file /\ pc[p] \in {"detecting", "record"} /\ activity = "asked"
        /\ \A q \in Proc \ {p} : /\ pc'[q] = pc[q] /\ base'[q] = base[q] /\ draft'[q] = draft[q]
                                 /\ then'[q] = then[q]
    BY <1>1, <1>12 DEF DetectEnd, RecordOutcome, UpdateState, Unread, files, history, Functions
  <2> QED
    BY <1>1, <2>1, CarriedFrame DEF OnItsWay
<1>13. ASSUME NEW p \in Proc, Crash(p) PROVE FALSE
  BY <1>13 DEF Crash
<1>14. CASE Tick
  <2>1. /\ file' = Older(file) /\ base' = [p \in Proc |-> Older(base[p])]
        /\ draft' = [p \in Proc |-> Older(draft[p])] /\ UNCHANGED <<pc, then, activity>>
    BY <1>14 DEF Tick
  <2>2. ASSUME NEW h \in Hook, Carries(h) PROVE Carries(h)'
    <3>1. CASE pc[h] \in {"start", "write", "fill", "spawn"}
      BY <2>1, <3>1 DEF Carries
    <3>2. CASE pc[h] = "decide" /\ ~base[h].pending
      <4>1. base[h] \in AutoSyncState /\ base'[h] = Older(base[h])
        BY <1>1, <2>1, <3>2 DEF ProcessOK
      <4> QED
        BY <2>1, <3>2, <4>1, OlderKeeps DEF Carries
    <3> QED
      BY <2>2, <3>1, <3>2 DEF Carries
  <2>3. ASSUME NEW c \in Child, OnItsWay(c) PROVE OnItsWay(c)'
    BY <2>1, <2>3 DEF OnItsWay
  <2>4. ASSUME Pending PROVE Pending'
    <3>1. CASE file = Torn
      <4>1. PICK q \in Proc : pc[q] = "fill" /\ draft[q].pending
        BY <2>4, <3>1 DEF Pending
      <4>2. draft'[q].pending
        <5>1. draft[q] \in AutoSyncState /\ draft'[q] = Older(draft[q])
          BY <1>1, <2>1, <4>1 DEF ProcessOK
        <5> QED
          BY <4>1, <5>1, OlderKeeps
      <4>3. file' = Torn
        BY <2>1, <3>1 DEF Older
      <4> QED
        BY <2>1, <4>1, <4>2, <4>3 DEF Pending
    <3>2. CASE file # Torn
      <4>1. file \in AutoSyncState
        BY <1>1, <3>2
      <4>2. file' \in AutoSyncState /\ file'.pending = file.pending
        BY <2>1, <4>1, OlderKeeps
      <4> QED
        BY <2>4, <3>2, <4>2, StatesAssumption DEF Pending
    <3> QED
      BY <3>1, <3>2
  <2> QED
    BY <1>1, <2>1, <2>2, <2>3, <2>4 DEF Carried
<1>15. CASE UNCHANGED vars
  BY <1>1, <1>15 DEF vars, files, locals, history, Carried, Carries, OnItsWay, Pending
<1> QED
  BY <1>2, <1>3, <1>4, <1>5, <1>6, <1>7, <1>8, <1>9, <1>10, <1>11, <1>12, <1>13, <1>14, <1>15
     DEF Next, HookStep, PassStep

(* A pass that was asked for is not forgotten: until a detection begins it is
   pending in the state file, or a hook is asking, or a child is on its way. *)
THEOREM PendingKeptAlways == Spec => []PendingKept
<1>1. Init => PendingInv
  BY DEF Init, PendingInv
<1>2. PendingInv => PendingKept
  <2> SUFFICES ASSUME PendingInv, activity = "asked"
               PROVE  Pending \/ (\E h \in Hook : Asking(h)) \/ (\E c \in Child : OnItsWay(c))
    BY DEF PendingKept
  <2>1. \A h \in Hook : Carries(h) => Asking(h)
    BY DEF Carries, Asking
  <2> QED
    BY <2>1 DEF PendingInv, Carried
<1> QED
  BY <1>1, <1>2, LocalAlways, PendingStep, PTL DEF Spec
=============================================================================
