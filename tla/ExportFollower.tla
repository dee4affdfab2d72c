--------------------------- MODULE ExportFollower ---------------------------
(***************************************************************************)
(* `omnodex export --follow --out <file>`: cli/src/export-command.ts.      *)
(*                                                                         *)
(* The follower polls the session files of the event log, appends what is  *)
(* new to its output, which it rotates by size, and then writes the        *)
(* offsets it has reached to its watermark.  It can be killed between any  *)
(* two system calls and in the middle of a write, and is started again.    *)
(* Hooks append, and sessions are removed, beside it.  The abstractions:   *)
(*   - Events are numbered in the order they happen, which is the order of *)
(*     their times; Texts orders what one poll found by that number.       *)
(*   - A line is two halves long, in a session file and in the output; a   *)
(*     reader may see the first half alone.                                *)
(*   - --since, when it is given, covers every event.                      *)
(*   - One step lists a directory, looks at a file, or reads one.          *)
(***************************************************************************)
EXTENDS Integers, Sequences, FiniteSets, SequencesExt

CONSTANTS
    File,        \* session files
    Since,       \* values modelled of: --since is given
    MaxSize,     \* --max-size, in halves of lines
    Keep,        \* --keep
    None,        \* no file, no usable watermark
    MaxEvents,   \* bound: events that happen
    MaxKills,    \* bound: followers that are killed
    MaxRemovals  \* bound: sessions that are removed

ASSUME FollowerAssumption ==
    /\ Since \subseteq BOOLEAN
    /\ MaxSize \in Nat \ {0} /\ Keep \in Nat
    /\ None \notin File \cup Seq(Nat) \cup [File -> [at : Nat, of : Nat]]
    /\ MaxEvents \in Nat /\ MaxKills \in Nat /\ MaxRemovals \in Nat

VARIABLES
    happened,   \* the number of events so far
    log,        \* log[f]: the lines of a session file
    there,      \* session files that exist
    half,       \* session files whose last line is half written
    removed,    \* removed[f]: how often f was removed
    since,      \* --since is given
    follower,   \* the locals of runExport
    watermark,  \* <file>.watermark.json
    out,        \* <file>: its lines; 0 is one that cannot be read
    cut,        \* the last line of out is not ended
    rotated,    \* rotated[n]: <file>.n
    kills,      \* counter for the bound
    all,        \* history: every line that was written to the output
    saved,      \* history: events that had happened when a watermark was first saved
    settled,    \* history: events that were written and then their watermark
    retold,     \* history: those that a start with --since, which found no usable
                \*   watermark, took for new and that are not settled again
    skipped,    \* history: events behind the offsets begin() took
    overtaken,  \* history: events below the offset of a file that took another's name
    glued,      \* history: events written behind half a line
    afresh,     \* history: a start found no usable watermark though one had been saved
    short       \* history: a follower was killed while it rotated

logVars     == <<happened, log, there, half, removed>>
outVars     == <<out, cut, rotated, all>>
historyVars == <<saved, settled, retold, skipped, overtaken, glued, afresh, short>>
vars == <<logVars, since, follower, watermark, outVars, kills, historyVars>>

Event == 1..MaxEvents

-----------------------------------------------------------------------------
(* Files and offsets. *)

Size(f) == 2 * Len(log[f]) - (IF f \in half THEN 1 ELSE 0)

(* Lines that begin before an offset, and lines that end by it. *)
Below(f, offset)  == {log[f][i] : i \in {j \in DOMAIN log[f] : 2 * (j - 1) < offset}}
Passed(f, offset) == {log[f][i] : i \in {j \in DOMAIN log[f] : 2 * j <= offset}}

Smaller(a, b) == IF a < b THEN a ELSE b

(* An offset and the file it was taken of: the name, and how often a file of
   that name had been removed. *)
NoOffsets == [f \in File |-> [at |-> 0, of |-> 0]]

Down == [at |-> "down", todo |-> {}, file |-> None, size |-> 0, offsets |-> NoOffsets,
         events |-> {}, slot |-> 0]

(* The events of a poll, oldest first. *)
Texts(events) ==
    {text \in [1..Cardinality(events) -> events] :
        /\ ToSet(text) = events
        /\ \A i, j \in DOMAIN text : i < j => text[i] < text[j]}

(* Text behind half a line makes one line with it that cannot be read. *)
Appended(lines, unended, text) ==
    IF unended /\ text # <<>> THEN lines \o Tail(text) ELSE lines \o text

OutSize == 2 * Len(out) - (IF cut THEN 1 ELSE 0)

Overfull(events) == out # <<>> /\ OutSize + 2 * Cardinality(events) > MaxSize

-----------------------------------------------------------------------------
(* Capture: hooks append their lines, and sessions are removed. *)

AppendLine(f) ==
    /\ happened < MaxEvents
    /\ f \notin half
    /\ happened' = happened + 1
    /\ log' = [log EXCEPT ![f] = Append(@, happened + 1)]
    /\ there' = there \cup {f}
    /\ half' \in {half, half \cup {f}}
    /\ UNCHANGED <<removed, since, follower, watermark, outVars, kills, historyVars>>

EndLine(f) ==
    /\ f \in half
    /\ half' = half \ {f}
    /\ UNCHANGED <<happened, log, there, removed, since, follower, watermark, outVars, kills,
                   historyVars>>

(* `omnodex clear <session>`. *)
RemoveSession(f) ==
    /\ f \in there \ half
    /\ SumFunction(removed) < MaxRemovals
    /\ log' = [log EXCEPT ![f] = <<>>]
    /\ there' = there \ {f}
    /\ removed' = [removed EXCEPT ![f] = @ + 1]
    /\ UNCHANGED <<happened, half, since, follower, watermark, outVars, kills, historyVars>>

-----------------------------------------------------------------------------
(* runExport: the start. *)

(* The watermark is read.  Without one, begin() goes to the end of every file
   there is, or with --since to the start. *)
StartAtZero ==
    /\ follower.at = "down"
    /\ follower' = [Down EXCEPT !.at = "begin",
                                !.todo = IF watermark = None /\ ~since THEN there ELSE {}]
    /\ afresh' = (afresh \/ (watermark = None /\ saved # None))
    /\ retold' = IF watermark = None /\ since THEN settled ELSE retold
    /\ UNCHANGED <<logVars, since, watermark, outVars, kills, saved, settled, skipped, overtaken,
                   glued, short>>
Start ==
    /\ follower.at = "down"
    /\ follower' = IF watermark = None
                   THEN [Down EXCEPT !.at = "begin", !.todo = IF since THEN {} ELSE there]
                   ELSE [Down EXCEPT !.at = "begin", !.offsets = watermark]
    /\ afresh' = (afresh \/ (watermark = None /\ saved # None))
    /\ retold' = IF watermark = None /\ since THEN settled ELSE retold
    /\ UNCHANGED <<logVars, since, watermark, outVars, kills, saved, settled, skipped, overtaken,
                   glued, short>>

(* begin(): the size of one of them. *)
BeginAtEnd(f) ==
    /\ follower.at = "begin"
    /\ f \in follower.todo
    /\ IF f \in there
       THEN /\ follower' = [follower EXCEPT !.todo = @ \ {f},
                                            !.offsets[f] = [at |-> Size(f), of |-> removed[f]]]
            /\ skipped' = skipped \cup ToSet(log[f])
       ELSE /\ follower' = [follower EXCEPT !.todo = @ \ {f}]
            /\ UNCHANGED skipped
    /\ UNCHANGED <<logVars, since, watermark, outVars, kills, saved, settled, retold, overtaken,
                   glued, afresh, short>>

-----------------------------------------------------------------------------
(* runExport: a poll. *)

ListFiles ==
    /\ \/ follower.at = "begin" /\ follower.todo = {}
       \/ follower.at = "sleep"
    /\ follower' = [follower EXCEPT !.at = "poll", !.todo = there, !.events = {}]
    /\ UNCHANGED <<logVars, since, watermark, outVars, kills, historyVars>>

(* A file that is shorter than its offset is read again from the top; one that
   has nothing new is passed by. *)
StatFrom(f, offset) ==
    LET other == follower.offsets[f].of # removed[f]
    IN  /\ follower.at = "poll"
        /\ f \in follower.todo
        /\ IF f \notin there
           THEN /\ follower' = [follower EXCEPT !.todo = @ \ {f}]
                /\ UNCHANGED overtaken
           ELSE /\ follower' = [follower EXCEPT
                       !.todo = @ \ {f},
                       !.offsets[f] = [at |-> offset, of |-> removed[f]],
                       !.at = IF Size(f) > offset THEN "read" ELSE "poll",
                       !.file = IF Size(f) > offset THEN f ELSE None,
                       !.size = IF Size(f) > offset THEN Size(f) ELSE 0]
                /\ overtaken' = IF other /\ Size(f) >= follower.offsets[f].at
                                THEN overtaken \cup Below(f, offset) ELSE overtaken
        /\ UNCHANGED <<logVars, since, watermark, outVars, kills, saved, settled, retold, skipped,
                       glued, afresh, short>>
StatOnly(f) == StatFrom(f, follower.offsets[f].at)
Stat(f)     == StatFrom(f, IF Size(f) < follower.offsets[f].at THEN 0 ELSE follower.offsets[f].at)

(* How far a read gets: to the end of the last whole line. *)
AllBytes(from, end)   == IF end > from THEN end ELSE from
WholeLines(from, end) == IF 2 * (end \div 2) > from THEN 2 * (end \div 2) ELSE from

(* The lines between the offset and the size that end there.  The file may
   have been removed since, and another one may have its name. *)
Read ==
    LET f    == follower.file
        from == follower.offsets[f].at
        end  == Smaller(follower.size, Size(f))
        next == WholeLines(from, end)
    IN  /\ follower.at = "read"
        /\ f \in there
        /\ follower' = [follower EXCEPT
               !.at = "poll", !.file = None, !.size = 0,
               !.events = @ \cup (Passed(f, end) \ Below(f, from)),
               !.offsets[f] = [at |-> next, of |-> IF from <= Size(f) THEN removed[f] ELSE @.of]]
        /\ overtaken' = IF follower.offsets[f].of # removed[f] /\ from <= Size(f)
                        THEN overtaken \cup Below(f, from) ELSE overtaken
        /\ UNCHANGED <<logVars, since, watermark, outVars, kills, saved, settled, retold, skipped,
                       glued, afresh, short>>

(* open throws, and the command ends. *)
FailRead ==
    /\ follower.at = "read"
    /\ follower.file \notin there
    /\ follower' = Down
    /\ UNCHANGED <<logVars, since, watermark, outVars, kills, historyVars>>

(* The poll is over: its events are appended, after a rotation if they would
   not fit. *)
EndPoll ==
    /\ follower.at = "poll"
    /\ follower.todo = {}
    /\ follower' = [follower EXCEPT !.at = IF follower.events = {} THEN "save"
                                           ELSE IF Overfull(follower.events) THEN "rotate" ELSE "write"]
    /\ UNCHANGED <<logVars, since, watermark, outVars, kills, historyVars>>

-----------------------------------------------------------------------------
(* RotatingFile: rotate. *)

(* Nothing is kept, or the oldest is removed. *)
RemoveOldest ==
    /\ follower.at = "rotate"
    /\ IF Keep = 0
       THEN /\ out' = <<>> /\ cut' = FALSE
            /\ follower' = [follower EXCEPT !.at = "write"]
            /\ UNCHANGED rotated
       ELSE /\ rotated' = [rotated EXCEPT ![Keep] = None]
            /\ follower' = [follower EXCEPT !.at = "shift", !.slot = Keep - 1]
            /\ UNCHANGED <<out, cut>>
    /\ UNCHANGED <<logVars, since, watermark, all, kills, historyVars>>

(* <file>.n becomes <file>.n+1, if it is there. *)
Shift ==
    LET n == follower.slot
    IN  /\ follower.at = "shift"
        /\ n > 0
        /\ rotated' = IF rotated[n] = None THEN rotated
                      ELSE [rotated EXCEPT ![n + 1] = rotated[n], ![n] = None]
        /\ follower' = [follower EXCEPT !.slot = n - 1]
        /\ UNCHANGED <<logVars, since, watermark, out, cut, all, kills, historyVars>>

RotateUnshifted ==
    /\ follower.at = "shift"
    /\ rotated' = [rotated EXCEPT ![1] = out]
    /\ out' = <<>> /\ cut' = FALSE
    /\ follower' = [follower EXCEPT !.at = "write", !.slot = 0]
    /\ UNCHANGED <<logVars, since, watermark, all, kills, historyVars>>
Rotate ==
    /\ follower.at = "shift"
    /\ follower.slot = 0
    /\ rotated' = [rotated EXCEPT ![1] = out]
    /\ out' = <<>> /\ cut' = FALSE
    /\ follower' = [follower EXCEPT !.at = "write"]
    /\ UNCHANGED <<logVars, since, watermark, all, kills, historyVars>>

-----------------------------------------------------------------------------
(* The output and the watermark. *)

Write ==
    /\ follower.at = "write"
    /\ \E text \in Texts(follower.events) :
         /\ out' = Appended(out, cut, text)
         /\ all' = Appended(all, cut, text)
         /\ glued' = IF cut THEN glued \cup {text[1]} ELSE glued
    /\ cut' = FALSE
    /\ follower' = [follower EXCEPT !.at = "save"]
    /\ UNCHANGED <<logVars, since, watermark, rotated, kills, saved, settled, retold, skipped,
                   overtaken, afresh, short>>

(* writeFile truncates the watermark and then writes it. *)
Truncate ==
    /\ follower.at = "save"
    /\ watermark' = None
    /\ follower' = [follower EXCEPT !.at = "fill"]
    /\ UNCHANGED <<logVars, since, outVars, kills, historyVars>>

Fill ==
    /\ follower.at = "fill"
    /\ watermark' = follower.offsets
    /\ follower' = [follower EXCEPT !.at = "sleep", !.events = {}]
    /\ saved' = IF saved = None THEN happened ELSE saved
    /\ settled' = settled \cup follower.events
    /\ retold' = retold \ follower.events
    /\ UNCHANGED <<logVars, since, outVars, kills, skipped, overtaken, glued, afresh, short>>

(* Ctrl+C is looked at between two polls. *)
Stop ==
    /\ follower.at = "sleep"
    /\ follower' = Down
    /\ UNCHANGED <<logVars, since, watermark, outVars, kills, historyVars>>

-----------------------------------------------------------------------------
(* The follower is killed, in the middle of a write perhaps. *)
Kill ==
    /\ follower.at # "down"
    /\ kills < MaxKills
    /\ kills' = kills + 1
    /\ follower' = Down
    /\ short' = (short \/ follower.at = "shift")
    /\ UNCHANGED <<logVars, since, watermark, outVars, saved, settled, retold, skipped, overtaken,
                   glued, afresh>>

(* Some lines were written, or some and half of the next one. *)
KillWriting ==
    /\ follower.at = "write"
    /\ kills < MaxKills
    /\ kills' = kills + 1
    /\ \E text \in Texts(follower.events), n \in 0..Cardinality(follower.events) - 1, broken \in BOOLEAN :
         LET part == SubSeq(text, 1, n) \o (IF broken THEN <<0>> ELSE <<>>)
         IN  /\ part # <<>>
             /\ out' = Appended(out, cut, part)
             /\ all' = Appended(all, cut, part)
             /\ glued' = IF cut /\ n > 0 THEN glued \cup {text[1]} ELSE glued
             /\ cut' = broken
    /\ follower' = Down
    /\ UNCHANGED <<logVars, since, watermark, rotated, saved, settled, retold, skipped, overtaken,
                   afresh, short>>

-----------------------------------------------------------------------------
Init ==
    /\ happened = 0
    /\ log = [f \in File |-> <<>>]
    /\ there = {} /\ half = {}
    /\ removed = [f \in File |-> 0]
    /\ since \in Since
    /\ follower = Down
    /\ watermark = None
    /\ out = <<>> /\ cut = FALSE
    /\ rotated = [n \in 1..Keep |-> None]
    /\ kills = 0
    /\ all = <<>>
    /\ saved = None
    /\ settled = {} /\ retold = {}
    /\ skipped = {} /\ overtaken = {} /\ glued = {}
    /\ afresh = FALSE /\ short = FALSE

FollowerStep ==
    \/ (\E f \in File : BeginAtEnd(f)) \/ ListFiles
    \/ (\E f \in File : Stat(f)) \/ Read \/ FailRead \/ EndPoll
    \/ RemoveOldest \/ Shift \/ Rotate
    \/ Write \/ Truncate \/ Fill

Next ==
    \/ \E f \in File : AppendLine(f) \/ EndLine(f) \/ RemoveSession(f)
    \/ Start \/ FollowerStep \/ Stop
    \/ Kill \/ KillWriting

Spec == Init /\ [][Next]_vars

(* A follower takes its next step, and one that ended is started again. *)
FairSpec == Spec /\ WF_vars(FollowerStep) /\ WF_vars(Start)

-----------------------------------------------------------------------------
(* Properties. *)

(* Every variable has its type. *)
TypeOK ==
    /\ happened \in 0..MaxEvents
    /\ \A f \in File : Range(log[f]) \subseteq Event
    /\ there \subseteq File /\ half \subseteq there
    /\ Range(out) \subseteq Event \cup {0} /\ Range(all) \subseteq Event \cup {0}
    /\ follower.events \subseteq Event /\ follower.todo \subseteq File
    /\ settled \subseteq Event /\ retold \subseteq settled

(* docs/export.md:63, "delivery is at least once": an event behind the saved
   watermark has been written whole; unless begin() skipped it, a new file with
   an old name grew past its offset unseen, or it was written behind half a
   line.  begin() skips only what happened before a watermark was saved, until a
   start finds it truncated. *)
Excepted == skipped \cup overtaken \cup glued

AtLeastOnce ==
    /\ watermark # None =>
         \A f \in File : watermark[f].of = removed[f] =>
             Passed(f, watermark[f].at) \subseteq ToSet(all) \cup Excepted
    /\ ~afresh /\ saved # None => \A e \in skipped : e <= saved

(* docs/export.md:60-64: "events are neither skipped nor repeated", but "the last
   batch can appear twice" when the follower stops "between writing events and
   saving the watermark", and "--since applies only to the first run".  An event
   whose watermark was saved is not written again; another is written once, and
   once more for every follower that was killed.  The code does not keep to the
   last sentence: a follower with --since that was killed while it wrote its
   watermark starts as a first run (export-command.ts:345, 351) and writes all it
   had written again; retold names these events. *)
Lines(e) == {i \in DOMAIN all : all[i] = e}

NotRepeated ==
    [][\A e \in Event : Lines(e)' # Lines(e) =>
          /\ Cardinality(Lines(e)') <= 1 + kills
          /\ e \in settled => e \in retold]_vars

(* Where the files were cut out of what was written: the output begins behind
   line from[0], <file>.n behind line from[n], and each ends where the next newer
   one begins. *)
CutAt(from) ==
    /\ out = SubSeq(all, from[0] + 1, Len(all))
    /\ \A n \in 1..Keep :
         IF rotated[n] = None THEN from[n] = from[n - 1]
         ELSE from[n] <= from[n - 1] /\ rotated[n] = SubSeq(all, from[n] + 1, from[n - 1])

(* docs/export.md:65-67: what is retained is the newest of what was written, in
   its order and without a gap, and nothing is deleted while fewer than Keep
   rotated files are there; unless a rotation was killed. *)
KeptFiles ==
    \E from \in [0..Keep -> 0..Len(all)] :
        /\ CutAt(from)
        /\ from[Keep] > 0 /\ ~short /\ follower.at # "shift" => \A n \in 1..Keep : rotated[n] # None

(* Every whole line of the log comes to be written, through kills, removals and
   restarts, but for the exceptions above. *)
EventuallyExported ==
    <>[](\A f \in File : Passed(f, Size(f)) \subseteq ToSet(all) \cup Excepted)

(* docs/export.md:60-61: "After a restart it resumes from there, so events are
   neither skipped nor repeated." *)
NeverSkipped == saved # None => \A e \in skipped : e <= saved

=============================================================================
