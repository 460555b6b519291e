------------------------- MODULE ControlledEpisode --------------------------
(***************************************************************************)
(* The tools that record one controlled battle as evidence, and the        *)
(* analysis that accepts or refuses what they left on disk.                *)
(*                                                                         *)
(* An acquisition starts a recorder, lets ALAS choose a target on the map  *)
(* that was read (MapPreview) and makes the one grid input.  While it      *)
(* waits for the recorder, an operator closes the pages of the battle, one *)
(* run of the commit script for each, and takes a checkpoint of the map    *)
(* after it.  The tools share nothing but the game and the files; each may *)
(* raise or be killed at any step, and the operator may run them again, in *)
(* any order, and hand the analysis any of the files.                      *)
(*                                                                         *)
(* The game is modelled by what the tools see of it.  What is written      *)
(* "battle" in a reading is history: the number of battles so far.         *)
(***************************************************************************)
EXTENDS MapPreview, FiniteSets, Sequences, SequencesExt

CONSTANTS
    Unseen,           \* pages that the game does not show
    ControlFrames,    \* consecutive samples that prove a result page, 3 or more
    Ammo,
    MaxProcesses, MaxAcquisitions, MaxCommits, MaxCheckpoints, MaxGeneration, MaxPending

ASSUME EpisodeAssumption ==
    /\ ControlFrames \in Nat \ {0} /\ Ammo \in Nat /\ MaxGeneration \in Nat
    /\ MaxProcesses \in Nat \ {0} /\ MaxAcquisitions \in Nat /\ MaxCommits \in Nat
    /\ MaxCheckpoints \in Nat /\ MaxPending \in Nat
    /\ None \notin {"S", "A"}

VARIABLES
    game,          \* process, its package, surface, map, grade of the battle
    shown,         \* the last publication of the observer
    pending,       \* taps that the game has not handled
    battles,       \* history: the battles that were fought
    recorder,      \* the recorder process
    acquisition,   \* the acquisition process
    script,        \* the run of the commit script
    disk,          \* the files: traces, acquisitions, commits, checkpoints
    runs           \* how many acquisitions were started

gameVars == <<game, shown, pending, battles>>
toolVars == <<recorder, acquisition, script, disk, runs>>
vars == <<previewVars, gameVars, toolVars>>

(***************************************************************************)
(* The game                                                                *)
(***************************************************************************)

Controls   == {"BATTLE_STATUS_S", "EXP_INFO_S"}
Alternates == {"BATTLE_STATUS_A", "EXP_INFO_A"}
Graded     == Controls \cup Alternates
Preparing  == {"AUTOMATION_CONFIRM", "AUTOMATION_OFF", "BATTLE_PREPARATION"}
Skippable  == {"AUTOMATION_CONFIRM", "AUTOMATION_OFF", "GET_ITEMS_1", "GET_MISSION"}
Pages      == Preparing \cup Skippable \cup Controls   \* those with a reviewed mapping

StatusPage(grade) == IF grade = "S" THEN "BATTLE_STATUS_S" ELSE "BATTLE_STATUS_A"
ExpPage(grade)    == IF grade = "S" THEN "EXP_INFO_S" ELSE "EXP_INFO_A"

\* The order of the surfaces of a battle that was graded so.
Course == [grade \in {"S", "A"} |->
    <<"map", "AUTOMATION_CONFIRM", "AUTOMATION_OFF", "BATTLE_PREPARATION", "battle",
      StatusPage(grade), "GET_ITEMS_1", ExpPage(grade), "GET_MISSION", "map">>]
Place  == [grade \in {"S", "A"} |-> [s \in Range(Course[grade]) |->
    CHOOSE j \in 1 .. Len(Course[grade]) - 1 : Course[grade][j] = s]]

\* What may follow a surface: pages that are not always shown may be missing.
After == [grade \in {"S", "A"} |-> [s \in Range(Course[grade]) |->
    LET c == Course[grade] IN
    {c[j] : j \in {k \in Place[grade][s] + 1 .. Len(c) :
        \A l \in Place[grade][s] + 1 .. k - 1 : c[l] \in Skippable}} \ Unseen]]

Init ==
    /\ PreviewInit
    /\ \E ok \in BOOLEAN :
         game = [pid |-> 1, genuine |-> ok, surface |-> "map", alive |-> Targets, at |-> None,
                 ammo |-> Ammo, grade |-> "S"]
    /\ shown = [pid |-> 1, gen |-> 0, surface |-> "none", map |-> None, battle |-> 0]
    /\ pending = <<>> /\ battles = <<>>
    /\ recorder = [at |-> "off", pid |-> None] /\ script = None
    /\ acquisition = [at |-> "off", pid |-> None, commit |-> None]
    /\ disk = [traces   |-> [n \in 0 .. MaxAcquisitions |-> None],
               acquired |-> {}, commits |-> {}, checkpoints |-> {}]
    /\ runs = 0

ToolsUnchanged == UNCHANGED <<previewVars, toolVars>>

\* The fleet sails to the enemy it is sent to, and its cell keeps the fight
\* until the battle is won.
Send(aim) ==
    /\ game.surface = "map" /\ aim \in game.alive /\ game.ammo > 0
    /\ \E s \in After[game.grade]["map"] : game' = [game EXCEPT !.surface = s, !.at = aim]
    /\ UNCHANGED battles

Battle(grade) == [pid |-> game.pid, genuine |-> game.genuine, target |-> game.at,
                  grade |-> grade]

Close(page) ==
    /\ game.surface = page
    /\ \E s \in After[game.grade][page] :
         /\ game' = [game EXCEPT !.surface = s]
         /\ battles' = IF s = "battle"
                       THEN Append(battles, Battle(None))
                       ELSE battles

\* A tap acts if its control is on top.
Answers(aim) == IF aim \in Targets THEN Send(aim) ELSE Close(aim)

Lands ==
    /\ pending # <<>> /\ Answers(Head(pending))
    /\ pending' = Tail(pending)
    /\ UNCHANGED <<shown>> /\ ToolsUnchanged

\* It came too late, missed, or was swallowed.
Lost ==
    /\ pending # <<>>
    /\ pending' = Tail(pending)
    /\ UNCHANGED <<game, shown, battles>> /\ ToolsUnchanged

\* The battle is won: the enemy is gone and one unit of ammunition was used.
BattleEnds(grade) ==
    /\ game.surface = "battle"
    /\ game' = [game EXCEPT !.surface = StatusPage(grade), !.grade = grade,
                            !.alive = @ \ {game.at}, !.ammo = @ - 1]
    /\ battles' = [battles EXCEPT ![Len(battles)].grade = grade]
    /\ UNCHANGED <<shown, pending>> /\ ToolsUnchanged

\* The operator sends the fleet himself, backs out of a battle that has not
\* begun or fights it, or leaves the pages of its result.
ByHand ==
    /\ \/ \E aim \in Targets : Send(aim)
       \/ /\ game.surface \in Graded \cup Preparing \cup Skippable
          /\ game' = [game EXCEPT !.surface = "map"] /\ UNCHANGED battles
       \/ /\ game.surface \in Preparing
          /\ game' = [game EXCEPT !.surface = "map", !.alive = @ \ {game.at}, !.ammo = @ - 1]
          /\ battles' = Append(battles, Battle("S"))
    /\ UNCHANGED <<shown, pending>> /\ ToolsUnchanged

\* The game is killed and started again, perhaps with another package; a
\* battle that was not over is left, with the fleet on the cell of its enemy.
Restart ==
    /\ game.pid < MaxProcesses
    /\ \E ok \in BOOLEAN :
         game' = [game EXCEPT !.pid = @ + 1, !.genuine = ok, !.surface = "map", !.grade = "S"]
    /\ shown' = [shown EXCEPT !.pid = @ + 1, !.gen = 0, !.surface = "none", !.map = None]
    /\ UNCHANGED <<pending, battles>> /\ ToolsUnchanged

\* The observer publishes a frame, with the next generation of the process.
Publish ==
    /\ shown.gen < MaxGeneration
    /\ shown' = [pid |-> game.pid, gen |-> shown.gen + 1, surface |-> game.surface,
                 map |-> IF game.surface = "map"
                         THEN [alive |-> game.alive, at |-> game.at, ammo |-> game.ammo]
                         ELSE None,
                 battle |-> Len(battles)]
    /\ UNCHANGED <<game, pending, battles>> /\ ToolsUnchanged

\* A frame that a session of process pid accepts: its endpoints are of one
\* process and of almost one generation (it counts as the later one).
Readable(pid) == shown.pid = pid /\ shown.gen > 0

\* The page is on top, nothing covers it, and its reviewed control would act.
Offers(pid, page) == Readable(pid) /\ shown.surface = page

(***************************************************************************)
(* The recorder                                                            *)
(***************************************************************************)

Trace == disk.traces[runs]

\* A trace that is not too old vouches for the process it recorded.
Vouched(pid) == \E n \in DOMAIN disk.traces :
                    disk.traces[n] # None /\ disk.traces[n].pid = pid

\* The package gate of a session: without a trace, the installed package is
\* fingerprinted.
Gate == game.genuine \/ Vouched(game.pid)

RecorderOpens ==
    /\ recorder.at = "started" /\ Gate
    /\ recorder' = [at |-> "open", pid |-> game.pid]
    /\ UNCHANGED <<previewVars, gameVars, acquisition, script, disk, runs>>

\* How many samples in a row, with this one, show its page, and whether they
\* prove it; from then on its samples need not be counted.
Streak(t) == IF t # None /\ t.row[1] = shown.surface THEN t.row[2] + 1 ELSE 1
Proof(t)  == Streak(t) >= ControlFrames

\* Every new sample replaces the file by a longer trace.
Extended(t) ==
    [pid    |-> recorder.pid,
     first  |-> IF t = None THEN shown.gen ELSE t.first,
     last   |-> shown.gen,
     row    |-> IF Proof(t) THEN <<"proven", 0>> ELSE <<shown.surface, Streak(t)>>,
     proven |-> (IF t = None THEN {} ELSE t.proven)
                  \cup (IF Proof(t) THEN {shown.surface} \cap Graded ELSE {})]

Samples ==
    /\ recorder.at = "open" /\ Readable(recorder.pid)
    /\ Trace # None => shown.gen > Trace.last
    /\ disk' = [disk EXCEPT !.traces[runs] = Extended(Trace)]
    /\ UNCHANGED <<previewVars, gameVars, recorder, acquisition, script, runs>>

\* The time is over or there are enough samples; without one the run failed.
RecorderEnds ==
    /\ recorder.at \in {"started", "open"}
    /\ recorder' = [recorder EXCEPT !.at = IF Trace = None THEN "failed" ELSE "done"]
    /\ UNCHANGED <<previewVars, gameVars, acquisition, script, disk, runs>>

(***************************************************************************)
(* The acquisition                                                         *)
(***************************************************************************)

OtherToolsUnchanged == UNCHANGED <<gameVars, script>>

\* The outputs must not exist; the recorder is started.
AcquisitionBegins ==
    /\ acquisition.at = "off" /\ runs < MaxAcquisitions
    /\ runs' = runs + 1
    /\ recorder' = [at |-> "started", pid |-> None]
    /\ acquisition' = [at |-> "recording", pid |-> None, commit |-> None]
    /\ UNCHANGED <<previewVars, disk>> /\ OtherToolsUnchanged

\* The first trace on disk becomes a lease of the package gate: the session
\* opens if the game still is the recorded process.
SessionOpens ==
    /\ acquisition.at = "recording" /\ Trace # None
    /\ game.pid = Trace.pid
    /\ acquisition' = [acquisition EXCEPT !.at = "open", !.pid = Trace.pid]
    /\ UNCHANGED <<previewVars, recorder, disk, runs>> /\ OtherToolsUnchanged

Reading == [gen |-> shown.gen, map |-> shown.map, alive |-> shown.map.alive,
            battle |-> shown.battle]

\* ALAS comes to the map and reads it.
MapIsRead ==
    /\ acquisition.at = "open" /\ work.at = "idle"
    /\ Readable(acquisition.pid) /\ shown.map # None
    /\ Project(Reading)
    /\ UNCHANGED toolVars /\ OtherToolsUnchanged

Prepares ==
    /\ acquisition.at = "open"
    /\ \/ Projected \/ Choose \/ Goto
       \/ \E t \in Targets : Chosen(t)
       \/ /\ work.at = "chosen" /\ work.reading.map.ammo > 0
          /\ Readable(acquisition.pid) /\ shown.map = work.reading.map
          /\ Admit(shown.gen)
    /\ UNCHANGED toolVars /\ OtherToolsUnchanged

\* The click of the prefix: the adapter looks at the cell once more and spends
\* its one combat lease.  The tap goes to whatever game is on top.
GridTap ==
    /\ acquisition.at = "open" /\ work.at = "clicking"
    /\ Readable(acquisition.pid) /\ shown.map = work.reading.map
    /\ Len(pending) < MaxPending
    /\ pending' = Append(pending, work.admission.target)
    /\ acquisition' = [acquisition EXCEPT !.at = "tapped",
         !.commit = [target |-> work.admission.target, before |-> work.reading,
                     input |-> work.admission.input, receipt |-> shown.gen]]
    /\ UNCHANGED <<previewVars, game, shown, battles, recorder, script, disk, runs>>

\* As a plausible slip would have it: also when no input was made.
InputReturnsUncommitted ==
    /\ acquisition.at \in {"open", "tapped"} /\ Clicked
    /\ acquisition' = [acquisition EXCEPT !.at = "waiting"]
    /\ UNCHANGED <<recorder, disk, runs>> /\ OtherToolsUnchanged

\* The exception of the device ends the prefix and the campaign; the session
\* is closed, and the acquisition waits for its recorder.
InputReturns ==
    /\ acquisition.at = "tapped" /\ Clicked
    /\ acquisition' = [acquisition EXCEPT !.at = "waiting"]
    /\ UNCHANGED <<recorder, disk, runs>> /\ OtherToolsUnchanged

InputRaises ==
    /\ acquisition.at \in {"open", "tapped"} /\ Raises
    /\ UNCHANGED toolVars /\ OtherToolsUnchanged

Straddles == Trace.first <= acquisition.commit.input /\ Trace.last > acquisition.commit.receipt

Gone == /\ acquisition' = [at |-> "off", pid |-> None, commit |-> None]
        /\ recorder' = [at |-> "off", pid |-> None]
        /\ campaign' = Own /\ native' = "own" /\ sleep' = "own" /\ work' = Idle

AcquisitionWrites ==
    /\ acquisition.at = "waiting" /\ recorder.at = "done" /\ Straddles
    /\ disk' = [disk EXCEPT !.acquired = @ \cup
         {[pid |-> Trace.pid, run |-> runs, target |-> acquisition.commit.target,
           before |-> acquisition.commit.before, input |-> acquisition.commit.input,
           receipt |-> acquisition.commit.receipt]}]
    /\ Gone
    /\ UNCHANGED runs /\ OtherToolsUnchanged

\* It was refused or ran out of time and terminates its recorder; or it was
\* killed, and nothing of what its recorder goes on writing is ever used.
AcquisitionEnds ==
    /\ acquisition.at # "off"
    /\ Gone
    /\ UNCHANGED <<disk, runs>> /\ OtherToolsUnchanged

(***************************************************************************)
(* The commit script and the checkpoint                                    *)
(***************************************************************************)

\* The session opens for the process that the operator names, to close the
\* page that he names.  The generation floor is his choice too.
ScriptBegins(page) ==
    /\ script = None /\ Cardinality(disk.commits) < MaxCommits
    /\ Gate /\ Offers(game.pid, page)
    /\ script' = [page |-> page, pid |-> game.pid, first |-> shown.gen, second |-> None,
                  battle |-> None, tapped |-> FALSE]
    /\ UNCHANGED <<previewVars, gameVars, recorder, acquisition, disk, runs>>

\* A page before the battle is of the battle to come.
BattleOf(page) == shown.battle + (IF page \in Preparing THEN 1 ELSE 0)

SecondRead ==
    /\ script # None /\ script.second = None
    /\ Offers(script.pid, script.page) /\ shown.gen > script.first
    /\ script' = [script EXCEPT !.second = shown.gen, !.battle = BattleOf(script.page)]
    /\ UNCHANGED <<previewVars, gameVars, recorder, acquisition, disk, runs>>

\* Only the foreground is read again; the process identity is a cached one.
PageTap ==
    /\ script # None /\ script.second # None /\ ~script.tapped
    /\ Len(pending) < MaxPending
    /\ pending' = Append(pending, script.page)
    /\ script' = [script EXCEPT !.tapped = TRUE]
    /\ UNCHANGED <<previewVars, game, shown, battles, recorder, acquisition, disk, runs>>

ScriptWrites ==
    /\ script # None /\ script.tapped
    /\ disk' = [disk EXCEPT !.commits = @ \cup
         {[page |-> script.page, pid |-> script.pid, first |-> script.first,
           commit |-> script.second, battle |-> script.battle]}]
    /\ script' = None
    /\ UNCHANGED <<previewVars, gameVars, recorder, acquisition, runs>>

\* Refused, killed, or stopped by its session that could not be closed: also
\* after the tap, which then has no receipt.
ScriptEnds ==
    /\ script # None
    /\ script' = None
    /\ UNCHANGED <<previewVars, gameVars, recorder, acquisition, disk, runs>>

\* The map after the battle, of the process of an acquisition on disk.
MapCheckpoint == [pid |-> game.pid, gen |-> shown.gen, map |-> shown.map,
                  battle |-> shown.battle]

Checkpoint ==
    /\ Cardinality(disk.checkpoints) < MaxCheckpoints
    /\ \E a \in disk.acquired : game.pid = a.pid
    /\ Gate /\ Readable(game.pid) /\ shown.map # None
    /\ disk' = [disk EXCEPT !.checkpoints = @ \cup {MapCheckpoint}]
    /\ UNCHANGED <<previewVars, gameVars, recorder, acquisition, script, runs>>

(***************************************************************************)
(* The analysis                                                            *)
(***************************************************************************)

\* _validate_action_commits: the receipts in the order they are handed over.
Increasing(S, floor) ==
    /\ \A c \in S : floor < c.first /\ c.first < c.commit
    /\ \A c, d \in S : c # d => c.commit < d.first \/ d.commit < c.first


\* One of the sixteen sequences: the pages of an S battle in their order, some
\* of them optional, each at most once.
Sequenced(S) ==
    LET pages == {c.page : c \in S}
    IN  /\ Pages \ Skippable \subseteq pages /\ pages \subseteq Pages
        /\ \A c, d \in S : c.commit < d.commit => Place["S"][c.page] < Place["S"][d.page]

\* As a plausible slip would have it: receipts from before the grid input.
ActionsHoldAnywhere(S, pid, floor) ==
    /\ \A c \in S : c.pid = pid
    /\ Increasing(S, 0) /\ Sequenced(S)

ActionsHold(S, pid, floor) ==
    /\ \A c \in S : c.pid = pid
    /\ Increasing(S, floor) /\ Sequenced(S)

\* _combat_input_value
InputHolds(a) == a.before.gen <= a.input /\ a.input <= a.receipt

\* _validate_map_transition: the fleet moved from its cell to that of the
\* enemy, who is gone, for one unit of ammunition.
MapChanged(a, cp, S) ==
    /\ cp.pid = a.pid
    /\ a.target \in a.before.map.alive
    /\ cp.map.at = a.target /\ a.target \notin cp.map.alive
    /\ cp.map.ammo = a.before.map.ammo - 1
    /\ \A c \in S : cp.gen > c.commit

Ambiguous(t)      == Cardinality(t.proven \cap Alternates) > 1
ControlsProven(t) == Controls \subseteq t.proven

\* analyze_alas_combat_controlled_episode, of files the tools wrote.
Accepts(a, S, cp) ==
    LET t == disk.traces[a.run]
    IN  /\ a.pid = t.pid /\ InputHolds(a) /\ t.first < a.receipt /\ a.receipt < t.last
        /\ ~Ambiguous(t) /\ ControlsProven(t)
        /\ ActionsHold(S, t.pid, a.receipt)
        /\ \A c \in S : t.last > c.commit
        /\ MapChanged(a, cp, S)

\* What the acquisition swaps is seen by no other process, and between two
\* looks at the game its steps touch nothing else.
Inside == work.at \in {"projecting", "projected", "choosing", "admitted"}

Next ==
    \/ Prepares \/ GridTap \/ InputReturns \/ InputRaises \/ AcquisitionEnds
    \/ /\ ~Inside
       /\ \/ Lands \/ Lost \/ ByHand \/ Restart \/ Publish
          \/ \E grade \in {"S", "A"} : BattleEnds(grade)
          \/ RecorderOpens \/ Samples \/ RecorderEnds
          \/ AcquisitionBegins \/ SessionOpens \/ MapIsRead \/ AcquisitionWrites
          \/ \E page \in Pages : ScriptBegins(page)
          \/ SecondRead \/ PageTap \/ ScriptWrites \/ ScriptEnds
          \/ Checkpoint

Spec == Init /\ [][Next]_vars

(***************************************************************************)
(* Properties                                                              *)
(***************************************************************************)

Games    == [pid : 1 .. MaxProcesses, genuine : BOOLEAN,
             surface : Pages \cup Alternates \cup {"map", "battle"},
             alive : SUBSET Targets, at : Targets \cup {None}, ammo : Nat, grade : {"S", "A"}]
Maps     == [alive : SUBSET Targets, at : Targets \cup {None}, ammo : Nat]
Readings == [gen : Nat, map : Maps, alive : SUBSET Targets, battle : Nat]
Receipts == [target : Targets, before : Readings, input : Nat, receipt : Nat]

\* Every variable has its type, and an acquisition that goes past the click
\* has made the one input, with its receipt.
TypeOK ==
    /\ game \in Games
    /\ shown.gen \in 0 .. MaxGeneration /\ shown.map \in Maps \cup {None}
    /\ pending \in Seq(Targets \cup Pages) /\ Len(pending) <= MaxPending
    /\ recorder.at \in {"off", "started", "open", "done", "failed"}
    /\ acquisition.at \in {"off", "recording", "open", "tapped", "waiting"}
    /\ IF acquisition.at \in {"tapped", "waiting"}
       THEN acquisition.commit \in Receipts
       ELSE acquisition.commit = None
    /\ work.at \in {"idle", "projecting", "projected", "choosing", "chosen", "admitted",
                    "clicking", "clicked", "raised"}
    /\ Cardinality(disk.commits) <= MaxCommits /\ runs \in 0 .. MaxAcquisitions

\* Every acquisition, receipts and checkpoint that the analysis accepts are
\* of one battle: it was fought on the target, in the recorded process, which
\* runs the pinned package, it is the first after the map was read, it was
\* graded S, every receipt is of one of its pages, and the checkpoint was
\* taken before another began.
EpisodeIsWitnessed ==
    \A cp \in disk.checkpoints : \A a \in disk.acquired :
        \A S \in SUBSET disk.commits :
            Accepts(a, S, cp) =>
                LET n == a.before.battle + 1
                IN  /\ cp.battle = n
                    /\ battles[n] = [pid |-> a.pid, genuine |-> TRUE, target |-> a.target,
                                     grade |-> "S"]
                    /\ \A c \in S : c.battle = n
=============================================================================
