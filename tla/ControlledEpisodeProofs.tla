---------------------- MODULE ControlledEpisodeProofs -----------------------
(***************************************************************************)
(* Theorems about ControlledEpisode and the steps of MapPreview in it: for *)
(* any maps, whatever raises and whenever a tool is killed, what a preview *)
(* swaps is put back; and what the analysis accepts is one battle.         *)
(*                                                                         *)
(* The second rests on what frames tell of the history.  Whatever a tool   *)
(* or a file knows of the game is a frame that was published: of a map,    *)
(* which tells how many battles were won by then and on what, or of a page *)
(* of a battle.  The frames of a process are in the order of its history.  *)
(***************************************************************************)
EXTENDS ControlledEpisode, FiniteSetTheorems, TLAPS

(***************************************************************************)
(* The preview                                                             *)
(***************************************************************************)

Steps == {"idle", "projecting", "projected", "choosing", "chosen", "admitted",
          "clicking", "clicked", "raised"}

\* Campaign and call are records of their fields.
Shaped ==
    /\ campaign = [map |-> campaign.map, projection |-> campaign.projection,
                   config |-> campaign.config]
    /\ work = [at |-> work.at, reading |-> work.reading, previous |-> work.previous,
               decision |-> work.decision, admission |-> work.admission]
    /\ work.at \in Steps

\* While the map is projected, the call holds the campaign as it was, which had
\* nothing swapped and a projection made from its map.
ProjectionKept ==
    work.at = "projecting" =>
        /\ native = "own" /\ sleep = "own"
        /\ campaign.map = work.reading
        /\ work.previous = [map |-> work.previous.map, projection |-> work.previous.map,
                            config |-> "own"]

\* ALAS runs with one swap or two, and on a campaign that is settled.
BranchKept ==
    /\ work.at \in {"choosing", "clicking"} =>
           campaign.config = "own" /\ campaign.map = campaign.projection
    /\ work.at = "clicking" => sleep = "own"

Preserved == Shaped /\ ProjectionKept /\ BranchKept /\ SwapsUndone

LEMMA ProjectPreserves ==
    ASSUME Preserved, work.at = "idle", NEW r, Project(r)
    PROVE  Preserved'
<1>1. /\ campaign = [map |-> campaign.map, projection |-> campaign.map, config |-> "own"]
      /\ native = "own" /\ sleep = "own"
    BY DEF Preserved, SwapsUndone, Working, Shaped
<1>2. PICK m : campaign = [map |-> m, projection |-> m, config |-> "own"]
    BY <1>1
<1>3. campaign' = [map |-> r, projection |-> m, config |-> "map"]
    BY <1>2 DEF Project
<1>4. work' = [at |-> "projecting", reading |-> r, previous |-> campaign,
               decision |-> None, admission |-> None]
    BY DEF Project, Idle
<1>5. native' = "own" /\ sleep' = "own"  BY <1>1 DEF Project
<1>6. Shaped'  BY <1>3, <1>4 DEF Shaped, Steps
<1>7. ProjectionKept'  BY <1>2, <1>3, <1>4, <1>5 DEF ProjectionKept
<1> QED  BY <1>4, <1>6, <1>7 DEF Preserved, BranchKept, SwapsUndone, Working

\* Every other step of a call changes where it is, what it has decided, and
\* what is swapped.
LEMMA StepPreserves ==
    ASSUME Preserved,
           Projected \/ Choose \/ Goto \/ Clicked \/ Raises
             \/ (\E t \in Targets : Chosen(t)) \/ (\E input : Admit(input))
    PROVE  Preserved'
<1>1. Shaped /\ ProjectionKept /\ BranchKept /\ SwapsUndone  BY DEF Preserved
<1>2. CASE Projected
    <2>1. campaign' = [map |-> work.reading, projection |-> work.reading, config |-> "own"]
          /\ native' = "own" /\ sleep' = "own"
        BY <1>1, <1>2 DEF Projected, Shaped, ProjectionKept
    <2>2. work' = [at |-> "projected", reading |-> work.reading, previous |-> work.previous,
                   decision |-> work.decision, admission |-> work.admission]
        BY <1>1, <1>2 DEF Projected, Shaped
    <2> QED  BY <2>1, <2>2 DEF Preserved, Shaped, Steps, ProjectionKept, BranchKept,
                               SwapsUndone, Working
<1>3. CASE ProjectRaises
    <2>1. campaign' = [map |-> work.previous.map, projection |-> work.previous.map,
                       config |-> "own"]
          /\ native' = "own" /\ sleep' = "own"
        BY <1>1, <1>3 DEF ProjectRaises, ProjectionKept
    <2>2. work' = [at |-> "raised", reading |-> work.reading, previous |-> work.previous,
                   decision |-> work.decision, admission |-> work.admission]
        BY <1>1, <1>3 DEF ProjectRaises, Shaped
    <2> QED  BY <2>1, <2>2 DEF Preserved, Shaped, Steps, ProjectionKept, BranchKept,
                               SwapsUndone, Working
<1>4. ASSUME NEW at \in Steps \ {"projecting"}, UNCHANGED campaign,
             \E decision, admission :
                 work' = [at |-> at, reading |-> work.reading, previous |-> work.previous,
                       decision |-> decision, admission |-> admission],
             campaign.config = "own", campaign.map = campaign.projection,
             at = "choosing" \/ (sleep' = "own" /\ (at = "clicking" \/ native' = "own"))
      PROVE  Preserved'
    <2>1. Shaped'  BY <1>1, <1>4 DEF Shaped
    <2>2. work'.at = at  BY <1>4
    <2> QED  BY <1>4, <2>1, <2>2 DEF Preserved, ProjectionKept, BranchKept, SwapsUndone, Working
<1>5. work.at \in Steps \ {"projecting"} =>
          campaign.config = "own" /\ campaign.map = campaign.projection
    BY <1>1 DEF BranchKept, SwapsUndone, Working, Steps
<1>6. CASE Choose
    <2>1. work' = [at |-> "choosing", reading |-> work.reading, previous |-> work.previous,
                   decision |-> work.decision, admission |-> work.admission]
        BY <1>1, <1>6 DEF Choose, Shaped
    <2> QED  BY <1>4, <1>5, <1>6, <2>1 DEF Choose, Steps
<1>7. CASE Goto
    <2>1. work' = [at |-> "clicking", reading |-> work.reading, previous |-> work.previous,
                   decision |-> work.decision, admission |-> work.admission]
        BY <1>1, <1>7 DEF Goto, Shaped
    <2>2. sleep = "own"  BY <1>1, <1>7 DEF Goto, SwapsUndone, Working
    <2> QED  BY <1>4, <1>5, <1>7, <2>1, <2>2 DEF Goto, Steps
<1>8. CASE Clicked \/ GotoRaises
    <2>1. PICK at \in {"clicked", "raised"} :
              work' = [at |-> at, reading |-> work.reading, previous |-> work.previous,
                       decision |-> work.decision, admission |-> work.admission]
        BY <1>1, <1>8 DEF Clicked, GotoRaises, Shaped
    <2>2. native' = "own" /\ sleep' = "own" /\ UNCHANGED campaign /\ work.at = "clicking"
        BY <1>1, <1>8 DEF Clicked, GotoRaises, BranchKept
    <2> QED  BY <1>4, <1>5, <2>1, <2>2 DEF Steps
<1>9. CASE ChoiceRaises \/ \E t \in Targets : Chosen(t)
    <2>1. PICK at \in {"chosen", "raised"} : \E decision :
              work' = [at |-> at, reading |-> work.reading, previous |-> work.previous,
                       decision |-> decision, admission |-> work.admission]
        BY <1>1, <1>9 DEF Chosen, ChoiceRaises, Shaped
    <2>2. native' = "own" /\ sleep' = "own" /\ UNCHANGED campaign /\ work.at = "choosing"
        BY <1>9 DEF Chosen, ChoiceRaises
    <2> QED  BY <1>4, <1>5, <2>1, <2>2 DEF Steps
<1>10. CASE Refuses \/ \E input : Admit(input)
    <2>1. PICK at \in {"admitted", "raised"} : \E admission :
              work' = [at |-> at, reading |-> work.reading, previous |-> work.previous,
                       decision |-> work.decision, admission |-> admission]
        BY <1>1, <1>10 DEF Admit, Refuses, Shaped
    <2>2. /\ UNCHANGED <<campaign, native, sleep>>
          /\ work.at \in {"projected", "chosen", "admitted"}
        BY <1>10 DEF Admit, Refuses
    <2>3. native = "own" /\ sleep = "own"  BY <1>1, <2>2 DEF SwapsUndone, Working
    <2> QED  BY <1>4, <1>5, <2>1, <2>2, <2>3 DEF Steps
<1> QED  BY <1>2, <1>3, <1>6, <1>7, <1>8, <1>9, <1>10 DEF Raises

LEMMA GonePreserves == ASSUME Gone PROVE Preserved'
BY DEF Gone, Own, Idle, Preserved, Shaped, Steps, ProjectionKept, BranchKept, SwapsUndone, Working

LEMMA UnchangedPreserves == ASSUME Preserved, UNCHANGED previewVars PROVE Preserved'
BY DEF previewVars, Preserved, Shaped, ProjectionKept, BranchKept, SwapsUndone, Working

LEMMA InitPreserved == Init => Preserved
BY DEF Init, PreviewInit, Own, Idle, Preserved, Shaped, Steps, ProjectionKept, BranchKept,
       SwapsUndone, Working

LEMMA NextPreserves ==
    ASSUME Preserved, [Next]_vars
    PROVE  Preserved'
<1>1. CASE Prepares  BY <1>1, StepPreserves DEF Prepares
<1>2. CASE InputReturns \/ InputRaises
    BY <1>2, StepPreserves DEF InputReturns, InputRaises
<1>3. CASE MapIsRead  BY <1>3, ProjectPreserves DEF MapIsRead
<1>4. CASE AcquisitionEnds \/ AcquisitionWrites
    BY <1>4, GonePreserves DEF AcquisitionEnds, AcquisitionWrites
<1>5. CASE UNCHANGED previewVars  BY <1>5, UnchangedPreserves
<1>6. GridTap => UNCHANGED previewVars  BY DEF GridTap
<1>7. \/ Lands \/ Lost \/ ByHand \/ Restart \/ Publish
      \/ \E grade \in {"S", "A"} : BattleEnds(grade)
      => UNCHANGED previewVars
    BY DEF Lands, Lost, ByHand, Restart, Publish, BattleEnds, ToolsUnchanged
<1>8. RecorderOpens \/ Samples \/ RecorderEnds \/ AcquisitionBegins \/ SessionOpens
      => UNCHANGED previewVars
    BY DEF RecorderOpens, Samples, RecorderEnds, AcquisitionBegins, SessionOpens
<1>9. (\E page \in Pages : ScriptBegins(page)) \/ SecondRead \/ PageTap \/ ScriptWrites
        \/ ScriptEnds \/ Checkpoint
      => UNCHANGED previewVars
    BY DEF ScriptBegins, SecondRead, PageTap, ScriptWrites, ScriptEnds, Checkpoint
<1>10. UNCHANGED vars => UNCHANGED previewVars  BY DEF vars
<1> QED  BY <1>1, <1>2, <1>3, <1>4, <1>5, <1>6, <1>7, <1>8, <1>9, <1>10 DEF Next

\* Outside the three moments in which ALAS code runs on a swapped map, the class
\* level MAP, the sleep of the emotion module and the config are its own, and
\* the projection of the campaign is of the map it holds: at every step that may
\* raise and wherever the process is killed.
THEOREM SwapsAreUndone == Spec => []SwapsUndone
<1>1. Preserved => SwapsUndone  BY DEF Preserved
<1> QED  BY <1>1, InitPreserved, NextPreserves, PTL DEF Spec

(***************************************************************************)
(* The course of a battle                                                  *)
(***************************************************************************)

Results == Graded \cup {"GET_ITEMS_1", "GET_MISSION"}

\* The course of a battle: where each surface is.
LEMMA CourseIs ==
    ASSUME NEW grade \in {"S", "A"}
    PROVE  /\ Len(Course[grade]) = 10 /\ DOMAIN Course[grade] = 1 .. 10
           /\ Course[grade][1] = "map"
           /\ Course[grade][2] = "AUTOMATION_CONFIRM"
           /\ Course[grade][3] = "AUTOMATION_OFF"
           /\ Course[grade][4] = "BATTLE_PREPARATION"
           /\ Course[grade][5] = "battle"
           /\ Course[grade][6] = StatusPage(grade)
           /\ Course[grade][7] = "GET_ITEMS_1"
           /\ Course[grade][8] = ExpPage(grade)
           /\ Course[grade][9] = "GET_MISSION"
           /\ Course[grade][10] = "map"
BY DEF Course

LEMMA PlaceIs ==
    ASSUME NEW grade \in {"S", "A"}
    PROVE  \A j \in 1 .. 9 : Place[grade][Course[grade][j]] = j
<1> DEFINE c == Course[grade]
<1>1. ASSUME NEW j \in 1 .. 9, \A i \in 1 .. 9 : c[i] = c[j] => i = j
      PROVE  Place[grade][c[j]] = j
    <2>1. c[j] \in Range(c)  BY CourseIs DEF Range
    <2>2. Place[grade][c[j]] = CHOOSE i \in 1 .. Len(c) - 1 : c[i] = c[j]
        BY <2>1 DEF Place
    <2>3. Len(c) - 1 = 9  BY CourseIs
    <2> QED  BY <1>1, <2>2, <2>3
<1>2. \A i, j \in 1 .. 9 : c[i] = c[j] => i = j
    <2>1. /\ StatusPage(grade) \in {"BATTLE_STATUS_S", "BATTLE_STATUS_A"}
          /\ ExpPage(grade) \in {"EXP_INFO_S", "EXP_INFO_A"}
        BY DEF StatusPage, ExpPage
    <2> QED  BY <2>1, CourseIs
<1> QED  BY <1>1, <1>2

\* What may follow a surface: before the battle only what is before it, or it,
\* after the battle only what is after it.
LEMMA AfterIs ==
    ASSUME NEW grade \in {"S", "A"}, NEW s \in Range(Course[grade]),
           NEW t \in After[grade][s]
    PROVE  /\ t \in Range(Course[grade])
           /\ s = "map" => t \in Preparing
           /\ s \in Preparing => t \in Preparing \cup {"battle"}
           /\ s \in Results => t \in Results \cup {"map"}
<1> DEFINE c == Course[grade]
           p == Place[grade][s]
<1>0. /\ Len(c) = 10 /\ DOMAIN c = 1 .. 10
      /\ c[1] = "map" /\ c[2] = "AUTOMATION_CONFIRM" /\ c[3] = "AUTOMATION_OFF"
      /\ c[4] = "BATTLE_PREPARATION" /\ c[5] = "battle" /\ c[6] = StatusPage(grade)
      /\ c[7] = "GET_ITEMS_1" /\ c[8] = ExpPage(grade) /\ c[9] = "GET_MISSION"
      /\ c[10] = "map"
    BY CourseIs
<1>13. /\ StatusPage(grade) \in {"BATTLE_STATUS_S", "BATTLE_STATUS_A"}
      /\ ExpPage(grade) \in {"EXP_INFO_S", "EXP_INFO_A"}
    BY DEF StatusPage, ExpPage
<1> HIDE DEF c
<1>1. After[grade][s] = {c[j] : j \in {k \in p + 1 .. Len(c) :
                              \A l \in p + 1 .. k - 1 : c[l] \in Skippable}} \ Unseen
    BY DEF After, c
<1>2. PICK j \in p + 1 .. Len(c) : t = c[j] /\ \A l \in p + 1 .. j - 1 : c[l] \in Skippable
    BY <1>1
<1>3. PICK i \in 1 .. 9 : s = c[i] /\ p = i
    BY PlaceIs, <1>0 DEF Range, c
<1>4. j \in 1 .. 10 /\ j > i  BY <1>2, <1>3, <1>0
<1>5. t \in Range(c)  BY <1>2, <1>4, <1>0 DEF Range
<1>6. i < 4 => j <= 4
    <2> SUFFICES ASSUME i < 4, j > 4 PROVE FALSE  BY <1>4
    <2>1. 4 \in p + 1 .. j - 1  BY <1>3, <1>4
    <2>2. c[4] \in Skippable  BY <1>2, <2>1
    <2> QED  BY <2>2, <1>0 DEF Skippable
<1>7. i = 4 => j = 5
    <2> SUFFICES ASSUME i = 4, j > 5 PROVE FALSE  BY <1>4
    <2>1. 5 \in p + 1 .. j - 1  BY <1>3, <1>4
    <2>2. c[5] \in Skippable  BY <1>2, <2>1
    <2> QED  BY <2>2, <1>0 DEF Skippable
<1>8. s = "map" => i = 1
    <2>1. \A k \in 2 .. 9 : c[k] # "map"  BY <1>0, <1>13
    <2>2. i = 1 \/ i \in 2 .. 9  BY <1>3
    <2> QED  BY <1>3, <2>1, <2>2
<1>9. s \in Preparing => i \in 2 .. 4
    BY <1>3, <1>0, <1>13 DEF Preparing
<1>10. s \in Results => i \in 6 .. 9
    BY <1>3, <1>0, <1>13 DEF Results, Graded, Controls, Alternates
<1>11. \A k \in 2 .. 4 : c[k] \in Preparing
    BY <1>0 DEF Preparing
<1>12. \A k \in 7 .. 10 : c[k] \in Results \cup {"map"}
    BY <1>0, <1>13 DEF Results, Graded, Controls, Alternates
<1> QED  BY <1>2, <1>4, <1>5, <1>6, <1>7, <1>8, <1>9, <1>10, <1>11, <1>12, <1>0 DEF c

(***************************************************************************)
(* The game and its history                                                *)
(***************************************************************************)

Surfaces == Pages \cup Alternates \cup {"map", "battle"}
Fought   == [pid : 1 .. MaxProcesses, genuine : BOOLEAN, target : Targets \cup {None},
             grade : {"S", "A", None}]
Frames   == [pid : 1 .. MaxProcesses, gen : 0 .. MaxGeneration, surface : Surfaces \cup {"none"},
             map : Maps \cup {None}, battle : Nat]

GameFormed ==
    /\ game \in Games /\ shown \in Frames /\ shown.pid = game.pid
    /\ battles \in Seq(Fought)
    /\ game.surface \in Range(Course[game.grade])
    /\ game.surface \in Preparing \cup {"battle"} => game.ammo > 0

\* The battles that were won, of the first n.
Won(n) == {k \in 1 .. n : battles[k].grade # None}

\* What is left of the enemies and the ammunition tells which battles were won
\* and how many.  A battle that is being fought is the last one; one that was
\* left belongs to an earlier process.
GameTold ==
    /\ game.alive = Targets \ {battles[k].target : k \in Won(Len(battles))}
    /\ game.ammo + Cardinality(Won(Len(battles))) = Ammo
    /\ \A k \in 1 .. Len(battles) :
          /\ battles[k].pid <= game.pid
          /\ battles[k].pid = game.pid => battles[k].genuine = game.genuine
          /\ battles[k].pid = game.pid /\ battles[k].grade = None =>
                 game.surface = "battle" /\ k = Len(battles)
    /\ game.surface = "battle" =>
          /\ Len(battles) > 0
          /\ battles[Len(battles)].grade = None
          /\ battles[Len(battles)].target = game.at
          /\ battles[Len(battles)].pid = game.pid
    /\ game.surface \in Results =>
          /\ Len(battles) > 0
          /\ battles[Len(battles)].grade = game.grade
          /\ battles[Len(battles)].pid = game.pid

GameTrue == GameFormed /\ GameTold

LEMMA WonFinite ==
    ASSUME NEW n \in Nat
    PROVE  IsFiniteSet(Won(n)) /\ Cardinality(Won(n)) \in Nat /\ Won(n) \subseteq 1 .. n
<1>1. IsFiniteSet(1 .. n)  BY FS_Interval
<1>2. Won(n) \in SUBSET (1 .. n)  BY DEF Won
<1>3. IsFiniteSet(Won(n))  BY <1>1, <1>2, FS_Subset
<1> QED  BY <1>2, <1>3, FS_CardinalityType

\* Four moves: the surface of the game changes outside battle, a battle begins,
\* one ends, and one is begun and won by hand.
SurfaceMoves ==
    /\ UNCHANGED battles
    /\ game' = [game EXCEPT !.surface = game'.surface, !.at = game'.at]
    /\ game.surface # "battle"
    /\ game'.surface \in Range(Course[game.grade])
    /\ game'.surface # "battle"
    /\ game'.surface \in Preparing => game.ammo > 0
    /\ game'.surface \in Results => game.surface \in Results
    /\ game'.at \in Targets \cup {None}

BattleBegins ==
    /\ game.surface \in Preparing
    /\ game' = [game EXCEPT !.surface = "battle"]
    /\ battles' = Append(battles, Battle(None))

BattleIsWon ==
    /\ game.surface \in Preparing
    /\ game' = [game EXCEPT !.surface = "map", !.alive = @ \ {game.at}, !.ammo = @ - 1]
    /\ battles' = Append(battles, Battle("S"))

LEMMA SurfacesAre ==
    /\ Preparing \cap Results = {} /\ "battle" \notin Preparing /\ "battle" \notin Results
    /\ "map" \notin Preparing /\ "map" \notin Results
    /\ "none" \notin Surfaces
    /\ Surfaces = Preparing \cup Results \cup {"map", "battle"}
    /\ Pages \subseteq Preparing \cup Results
    /\ Graded \cup Preparing \cup Skippable = Preparing \cup Results
BY DEF Preparing, Results, Graded, Controls, Alternates, Pages, Skippable, Surfaces

LEMMA CourseSurfaces ==
    ASSUME NEW grade \in {"S", "A"}
    PROVE  /\ Range(Course[grade]) \subseteq Surfaces /\ "map" \in Range(Course[grade])
           /\ StatusPage(grade) \in Range(Course[grade]) /\ StatusPage(grade) \in Results
           /\ "battle" \in Range(Course[grade])
           /\ grade = "A" => "BATTLE_STATUS_S" \notin Range(Course[grade])
<1>1. /\ StatusPage(grade) \in {"BATTLE_STATUS_S", "BATTLE_STATUS_A"}
      /\ ExpPage(grade) \in {"EXP_INFO_S", "EXP_INFO_A"}
      /\ grade = "A" => StatusPage(grade) = "BATTLE_STATUS_A"
    BY DEF StatusPage, ExpPage
<1>2. Range(Course[grade]) =
          {"map", "AUTOMATION_CONFIRM", "AUTOMATION_OFF", "BATTLE_PREPARATION", "battle",
           StatusPage(grade), "GET_ITEMS_1", ExpPage(grade), "GET_MISSION"}
    <2>1. \A x : x \in Range(Course[grade]) <=> \E j \in 1 .. 10 : x = Course[grade][j]
        BY CourseIs DEF Range
    <2>2. ASSUME NEW x \in Range(Course[grade])
          PROVE  x \in {"map", "AUTOMATION_CONFIRM", "AUTOMATION_OFF", "BATTLE_PREPARATION",
                   "battle", StatusPage(grade), "GET_ITEMS_1", ExpPage(grade), "GET_MISSION"}
        <3>1. PICK j \in 1 .. 10 : x = Course[grade][j]  BY <2>1, <2>2
        <3> QED  BY <3>1, CourseIs
    <2>3. {"map", "AUTOMATION_CONFIRM", "AUTOMATION_OFF", "BATTLE_PREPARATION", "battle",
           StatusPage(grade), "GET_ITEMS_1", ExpPage(grade), "GET_MISSION"}
              \subseteq Range(Course[grade])
        BY <2>1, CourseIs
    <2> QED  BY <2>2, <2>3
<1> QED  BY <1>1, <1>2 DEF Surfaces, Results, Graded, Controls, Alternates, Pages, Preparing,
                           Skippable

LEMMA MovesAre ==
    ASSUME GameFormed, pending \in Seq(Targets \cup Pages), Lands \/ Lost \/ ByHand
    PROVE  \/ UNCHANGED <<game, battles>>
           \/ SurfaceMoves \/ BattleBegins \/ BattleIsWon
<1> USE SurfacesAre
<1>0. game \in Games /\ game.grade \in {"S", "A"} /\ game.surface \in Range(Course[game.grade])
      /\ game.at \in Targets \cup {None}
    BY DEF GameFormed, Games
<1>1. ASSUME NEW aim \in Targets, Send(aim) PROVE SurfaceMoves
    <2>1. PICK s \in After[game.grade]["map"] :
              game' = [game EXCEPT !.surface = s, !.at = aim]
        BY <1>1 DEF Send
    <2>2. s \in Range(Course[game.grade]) /\ s \in Preparing
        BY <1>0, AfterIs, CourseSurfaces
    <2>3. game'.surface = s /\ game'.at = aim  BY <1>0, <2>1 DEF Games
    <2> QED  BY <1>0, <1>1, <2>1, <2>2, <2>3 DEF Send, SurfaceMoves
<1>2. ASSUME NEW page \in Pages, Close(page) PROVE SurfaceMoves \/ BattleBegins
    <2>1. PICK s \in After[game.grade][page] :
              /\ game' = [game EXCEPT !.surface = s]
              /\ battles' = IF s = "battle" THEN Append(battles, Battle(None)) ELSE battles
        BY <1>2 DEF Close
    <2>2. game.surface = page /\ page \in Preparing \cup Results  BY <1>2 DEF Close
    <2>3. /\ s \in Range(Course[game.grade])
          /\ page \in Preparing => s \in Preparing \cup {"battle"}
          /\ page \in Results => s \in Results \cup {"map"}
        BY <1>0, <2>2, AfterIs
    <2>4. CASE s = "battle"
        BY <2>1, <2>2, <2>3, <2>4 DEF BattleBegins
    <2>5. CASE s # "battle"
        <3>1. game'.surface = s /\ game'.at = game.at  BY <1>0, <2>1 DEF Games
        <3>2. game' = [game EXCEPT !.surface = game'.surface, !.at = game'.at]
            BY <1>0, <2>1, <3>1 DEF Games
        <3>3. s \in Preparing => game.ammo > 0
            BY <2>2, <2>3 DEF GameFormed
        <3> QED  BY <1>0, <2>1, <2>2, <2>3, <2>5, <3>1, <3>2, <3>3 DEF SurfaceMoves
    <2> QED  BY <2>4, <2>5
<1>3. CASE Lands
    <2>1. Head(pending) \in Targets \cup Pages /\ Answers(Head(pending))
        BY <1>3 DEF Lands
    <2>2. CASE Head(pending) \in Targets  BY <1>1, <2>1, <2>2 DEF Answers
    <2>3. CASE Head(pending) \notin Targets  BY <1>2, <2>1, <2>3 DEF Answers
    <2> QED  BY <2>2, <2>3
<1>4. CASE Lost  BY <1>4 DEF Lost
<1>5. CASE ByHand
    <2>1. CASE \E aim \in Targets : Send(aim)  BY <1>1, <2>1
    <2>2. CASE /\ game.surface \in Graded \cup Preparing \cup Skippable
               /\ game' = [game EXCEPT !.surface = "map"] /\ UNCHANGED battles
        <3>1. game'.surface = "map" /\ game'.at = game.at  BY <1>0, <2>2 DEF Games
        <3>2. game' = [game EXCEPT !.surface = game'.surface, !.at = game'.at]
            BY <1>0, <2>2, <3>1 DEF Games
        <3> QED  BY <1>0, <2>2, <3>1, <3>2, CourseSurfaces DEF SurfaceMoves
    <2>3. CASE /\ game.surface \in Preparing
               /\ game' = [game EXCEPT !.surface = "map", !.alive = @ \ {game.at}, !.ammo = @ - 1]
               /\ battles' = Append(battles, Battle("S"))
        BY <2>3 DEF BattleIsWon
    <2> QED  BY <1>5, <2>1, <2>2, <2>3 DEF ByHand
<1> QED  BY <1>3, <1>4, <1>5

\* Time, told by the battles: each is fought, then its result is shown, then
\* the map is, with the pages before the next battle.
Clock(surface, n) ==
    3 * n + (IF surface = "battle" THEN 0 ELSE IF surface \in Results THEN 1 ELSE 2)
Now == Clock(game.surface, Len(battles))

\* What a step of the game may do to the history.
Passes ==
    /\ game'.pid >= game.pid
    /\ game'.pid = game.pid => game'.genuine = game.genuine
    /\ Now' >= Now
    /\ battles' \in Seq(Fought) /\ Len(battles') \in {Len(battles), Len(battles) + 1}
    /\ \A k \in 1 .. Len(battles) :
          \/ battles'[k] = battles[k]
          \/ /\ k = Len(battles) /\ game.surface = "battle"
             /\ battles'[k].pid = battles[k].pid /\ battles'[k].genuine = battles[k].genuine
    /\ \A k \in 1 .. Len(battles') : k > Len(battles) =>
          battles'[k].pid = game.pid /\ battles'[k].genuine = game.genuine

LEMMA Appended ==
    ASSUME GameFormed, NEW grade \in {"S", "A", None}, battles' = Append(battles, Battle(grade))
    PROVE  /\ Battle(grade) \in Fought
           /\ Len(battles) \in Nat /\ battles' \in Seq(Fought)
           /\ Len(battles') = Len(battles) + 1
           /\ \A k \in 1 .. Len(battles) : battles'[k] = battles[k]
           /\ battles'[Len(battles) + 1] = Battle(grade)
<1>1. Battle(grade) \in Fought
    BY DEF Battle, Fought, GameFormed, Games
<1> QED  BY <1>1 DEF GameFormed

LEMMA WonSame ==
    ASSUME NEW n \in Nat, \A k \in 1 .. n : battles'[k].grade = battles[k].grade
    PROVE  Won(n)' = Won(n)
BY DEF Won

LEMMA SurfaceMovesTrue ==
    ASSUME GameTrue, SurfaceMoves
    PROVE  GameTold' /\ Passes
           /\ game' \in Games /\ game'.surface \in Range(Course[game'.grade])
           /\ (game'.surface \in Preparing \cup {"battle"} => game'.ammo > 0)
           /\ game'.pid = game.pid
<1> USE SurfacesAre
<1>1. /\ game \in Games /\ battles \in Seq(Fought) /\ Len(battles) \in Nat
      /\ battles' = battles
    BY DEF GameTrue, GameFormed, SurfaceMoves
<1>2. game'.surface \in Surfaces
    BY <1>1, CourseSurfaces DEF SurfaceMoves, Games
<1>3. PICK s, at : /\ game' = [game EXCEPT !.surface = s, !.at = at]
                   /\ s = game'.surface /\ at = game'.at
    BY DEF SurfaceMoves
<1>4. /\ game'.pid = game.pid /\ game'.genuine = game.genuine /\ game'.alive = game.alive
      /\ game'.ammo = game.ammo /\ game'.grade = game.grade
    BY <1>1, <1>3 DEF Games
<1>5. game' \in Games
    BY <1>1, <1>2, <1>3 DEF Games, Surfaces, SurfaceMoves
<1>6. Won(Len(battles))' = Won(Len(battles))
    BY <1>1 DEF Won
<1>7. GameTold'
    <2>1. /\ game'.alive = Targets \ {battles'[k].target : k \in Won(Len(battles))'}
          /\ game'.ammo + Cardinality(Won(Len(battles))') = Ammo
        BY <1>1, <1>4, <1>6 DEF GameTrue, GameTold
    <2>2. \A k \in 1 .. Len(battles) :
              /\ battles[k].pid <= game.pid
              /\ battles[k].pid = game.pid => battles[k].genuine = game.genuine
              /\ ~(battles[k].pid = game.pid /\ battles[k].grade = None)
        BY DEF GameTrue, GameTold, SurfaceMoves
    <2>3. game'.surface \in Results =>
              /\ Len(battles) > 0
              /\ battles[Len(battles)].grade = game.grade
              /\ battles[Len(battles)].pid = game.pid
        BY DEF GameTrue, GameTold, SurfaceMoves
    <2>4. game'.surface # "battle"  BY DEF SurfaceMoves
    <2> QED  BY <1>1, <1>4, <2>1, <2>2, <2>3, <2>4 DEF GameTold
<1>8. Passes
    <2>1. Now' >= Now
        BY <1>1, <1>2 DEF Now, Clock, SurfaceMoves
    <2> QED  BY <1>1, <1>4, <2>1 DEF Passes, Games
<1>9. game'.surface \in Range(Course[game'.grade])
    BY <1>4 DEF SurfaceMoves
<1>10. game'.surface \in Preparing \cup {"battle"} => game'.ammo > 0
    BY <1>4 DEF SurfaceMoves
<1> QED  BY <1>4, <1>5, <1>7, <1>8, <1>9, <1>10

LEMMA BattleBeginsTrue ==
    ASSUME GameTrue, BattleBegins
    PROVE  GameTold' /\ Passes
           /\ game' \in Games /\ game'.surface \in Range(Course[game'.grade])
           /\ (game'.surface \in Preparing \cup {"battle"} => game'.ammo > 0)
           /\ game'.pid = game.pid
<1> USE SurfacesAre
<1>1. game \in Games /\ GameFormed  BY DEF GameTrue, GameFormed
<1>2. /\ game' = [game EXCEPT !.surface = "battle"]
      /\ battles' = Append(battles, Battle(None)) /\ game.surface \in Preparing
    BY DEF BattleBegins
<1>3. /\ game'.pid = game.pid /\ game'.genuine = game.genuine /\ game'.alive = game.alive
      /\ game'.ammo = game.ammo /\ game'.grade = game.grade /\ game'.at = game.at
      /\ game'.surface = "battle" /\ game' \in Games
    BY <1>1, <1>2 DEF Games
<1>4. /\ Battle(None) \in Fought
      /\ Len(battles) \in Nat /\ battles' \in Seq(Fought)
      /\ Len(battles') = Len(battles) + 1
      /\ \A k \in 1 .. Len(battles) : battles'[k] = battles[k]
      /\ battles'[Len(battles) + 1] = Battle(None)
    BY <1>1, <1>2, Appended
<1>5. /\ Battle(None).pid = game.pid /\ Battle(None).genuine = game.genuine
      /\ Battle(None).target = game.at /\ Battle(None).grade = None
    BY DEF Battle
<1>6. Won(Len(battles))' = Won(Len(battles))
    BY <1>4, <1>5 DEF Won
<1>7. Won(Len(battles)) \subseteq 1 .. Len(battles)  BY DEF Won
<1>8. {battles'[k].target : k \in Won(Len(battles))} = {battles[k].target : k \in Won(Len(battles))}
    BY <1>4, <1>7
<1>9. GameTold'
    <2>1. /\ game'.alive = Targets \ {battles'[k].target : k \in Won(Len(battles))'}
          /\ game'.ammo + Cardinality(Won(Len(battles))') = Ammo
        BY <1>3, <1>6, <1>8 DEF GameTrue, GameTold
    <2>2. ASSUME NEW k \in 1 .. Len(battles')
          PROVE  /\ battles'[k].pid <= game.pid
                 /\ battles'[k].pid = game.pid => battles'[k].genuine = game.genuine
                 /\ battles'[k].pid = game.pid /\ battles'[k].grade = None => k = Len(battles')
        <3>1. CASE k \in 1 .. Len(battles)
            BY <1>2, <1>4, <3>1 DEF GameTrue, GameTold
        <3>2. CASE k = Len(battles) + 1
            BY <1>1, <1>4, <1>5, <3>2 DEF Games
        <3> QED  BY <1>4, <3>1, <3>2
    <2> QED  BY <1>3, <1>4, <1>5, <2>1, <2>2 DEF GameTold
<1>10. Passes
    <2>1. Now' >= Now
        BY <1>2, <1>3, <1>4 DEF Now, Clock
    <2> QED  BY <1>1, <1>3, <1>4, <1>5, <2>1 DEF Passes, Games
<1> QED  BY <1>1, <1>2, <1>3, <1>9, <1>10, CourseSurfaces DEF GameFormed, Games

LEMMA BattleIsWonTrue ==
    ASSUME GameTrue, BattleIsWon
    PROVE  GameTold' /\ Passes
           /\ game' \in Games /\ game'.surface \in Range(Course[game'.grade])
           /\ (game'.surface \in Preparing \cup {"battle"} => game'.ammo > 0)
           /\ game'.pid = game.pid
<1> USE SurfacesAre
<1>1. game \in Games /\ GameFormed  BY DEF GameTrue, GameFormed
<1>2. /\ game' = [game EXCEPT !.surface = "map", !.alive = @ \ {game.at}, !.ammo = @ - 1]
      /\ battles' = Append(battles, Battle("S")) /\ game.surface \in Preparing
      /\ game.ammo > 0
    BY <1>1 DEF BattleIsWon, GameFormed
<1>3. /\ game'.pid = game.pid /\ game'.genuine = game.genuine
      /\ game'.alive = game.alive \ {game.at}
      /\ game'.ammo = game.ammo - 1 /\ game'.grade = game.grade /\ game'.at = game.at
      /\ game'.surface = "map" /\ game' \in Games
    <2>1. game.alive \ {game.at} \in SUBSET Targets /\ game.ammo - 1 \in Nat
        BY <1>1, <1>2 DEF Games
    <2>2. PICK alive, ammo : /\ alive = game.alive \ {game.at} /\ ammo = game.ammo - 1
                             /\ game' = [game EXCEPT !.surface = "map", !.alive = alive,
                                                     !.ammo = ammo]
        BY <1>2
    <2> QED  BY <1>1, <2>1, <2>2 DEF Games
<1>4. /\ Battle("S") \in Fought
      /\ Len(battles) \in Nat /\ battles' \in Seq(Fought)
      /\ Len(battles') = Len(battles) + 1
      /\ \A k \in 1 .. Len(battles) : battles'[k] = battles[k]
      /\ battles'[Len(battles) + 1] = Battle("S")
    BY <1>1, <1>2, Appended
<1>5. /\ Battle("S").pid = game.pid /\ Battle("S").genuine = game.genuine
      /\ Battle("S").target = game.at /\ Battle("S").grade = "S" /\ None # "S"
    BY EpisodeAssumption DEF Battle
<1>6. Won(Len(battles))' = Won(Len(battles)) \cup {Len(battles) + 1}
    BY <1>4, <1>5 DEF Won
<1>7. Won(Len(battles)) \subseteq 1 .. Len(battles) /\ IsFiniteSet(Won(Len(battles)))
      /\ Cardinality(Won(Len(battles))) \in Nat
    BY <1>4, WonFinite
<1>8. Cardinality(Won(Len(battles))') = Cardinality(Won(Len(battles))) + 1
    <2>1. Len(battles) + 1 \notin Won(Len(battles))  BY <1>4, <1>7
    <2> QED  BY <1>6, <1>7, <2>1, FS_AddElement
<1>9. {battles'[k].target : k \in Won(Len(battles))'} =
          {battles[k].target : k \in Won(Len(battles))} \cup {game.at}
    BY <1>4, <1>5, <1>6, <1>7
<1>10. GameTold'
    <2>1. game'.alive = Targets \ {battles'[k].target : k \in Won(Len(battles))'}
        BY <1>3, <1>9 DEF GameTrue, GameTold
    <2>2. game'.ammo + Cardinality(Won(Len(battles))') = Ammo
        BY <1>1, <1>3, <1>7, <1>8, EpisodeAssumption DEF GameTrue, GameTold, Games
    <2>3. ASSUME NEW k \in 1 .. Len(battles')
          PROVE  /\ battles'[k].pid <= game.pid
                 /\ battles'[k].pid = game.pid => battles'[k].genuine = game.genuine
                 /\ ~(battles'[k].pid = game.pid /\ battles'[k].grade = None)
        <3>1. CASE k \in 1 .. Len(battles)
            BY <1>2, <1>4, <3>1 DEF GameTrue, GameTold
        <3>2. CASE k = Len(battles) + 1
            BY <1>1, <1>4, <1>5, <3>2 DEF Games
        <3> QED  BY <1>4, <3>1, <3>2
    <2> QED  BY <1>3, <2>1, <2>2, <2>3 DEF GameTold
<1>11. Passes
    <2>1. Now' >= Now
        BY <1>2, <1>3, <1>4 DEF Now, Clock
    <2> QED  BY <1>1, <1>3, <1>4, <1>5, <2>1 DEF Passes, Games
<1> QED  BY <1>1, <1>3, <1>10, <1>11, CourseSurfaces DEF GameFormed, Games

LEMMA BattleEndsTrue ==
    ASSUME GameTrue, NEW grade \in {"S", "A"}, BattleEnds(grade)
    PROVE  GameTold' /\ Passes
           /\ game' \in Games /\ game'.surface \in Range(Course[game'.grade])
           /\ (game'.surface \in Preparing \cup {"battle"} => game'.ammo > 0)
           /\ game'.pid = game.pid
<1> USE SurfacesAre
<1>1. game \in Games /\ GameFormed  BY DEF GameTrue, GameFormed
<1>17. PICK n \in Nat : n = Len(battles)  BY <1>1 DEF GameFormed
<1>2. /\ game' = [game EXCEPT !.surface = StatusPage(grade), !.grade = grade,
                              !.alive = @ \ {game.at}, !.ammo = @ - 1]
      /\ battles' = [battles EXCEPT ![n].grade = grade] /\ game.surface = "battle"
      /\ game.ammo > 0
    BY <1>1, <1>17 DEF BattleEnds, GameFormed
<1>3. StatusPage(grade) \in Surfaces \ {"map", "battle"} /\ StatusPage(grade) \in Results
    BY CourseSurfaces
<1>4. /\ game'.pid = game.pid /\ game'.genuine = game.genuine
      /\ game'.alive = game.alive \ {game.at}
      /\ game'.ammo = game.ammo - 1 /\ game'.grade = grade /\ game'.at = game.at
      /\ game'.surface = StatusPage(grade) /\ game' \in Games
    <2>1. game.alive \ {game.at} \in SUBSET Targets /\ game.ammo - 1 \in Nat
        BY <1>1, <1>2 DEF Games
    <2>2. PICK page, alive, ammo :
              /\ page = StatusPage(grade) /\ alive = game.alive \ {game.at} /\ ammo = game.ammo - 1
              /\ game' = [game EXCEPT !.surface = page, !.grade = grade, !.alive = alive,
                                      !.ammo = ammo]
        BY <1>2
    <2>3. page \in Pages \cup Alternates \cup {"map", "battle"}
        BY <1>3, <2>2 DEF Surfaces
    <2> QED  BY <1>1, <2>1, <2>2, <2>3 DEF Games
<1>5. game' \in Games  BY <1>4
<1>6. /\ n \in Nat /\ n > 0 /\ battles \in Seq(Fought) /\ battles[n].grade = None
      /\ battles[n].target = game.at /\ battles[n].pid = game.pid /\ n \in 1 .. n
      /\ battles[n] \in Fought
    BY <1>1, <1>2, <1>17 DEF GameTrue, GameTold, GameFormed
<1>7. /\ battles' \in Seq(Fought) /\ Len(battles') = n
      /\ \A k \in 1 .. n : k # n => battles'[k] = battles[k]
      /\ battles'[n] = [battles[n] EXCEPT !.grade = grade]
    <2>1. [battles[n] EXCEPT !.grade = grade] \in Fought  BY <1>6 DEF Fought
    <2>2. PICK b \in Fought : /\ b = [battles[n] EXCEPT !.grade = grade]
                              /\ battles' = [battles EXCEPT ![n] = b]
        BY <1>2, <2>1
    <2> QED  BY <1>6, <1>17, <2>2
<1>8. /\ battles'[n].pid = battles[n].pid /\ battles'[n].genuine = battles[n].genuine
      /\ battles'[n].target = game.at /\ battles'[n].grade = grade /\ grade # None
    BY <1>6, <1>7, EpisodeAssumption DEF Fought
<1>9. Won(n)' = Won(n) \cup {n} /\ n \notin Won(n)
    BY <1>6, <1>7, <1>8 DEF Won
<1>10. Won(n) \subseteq 1 .. n /\ IsFiniteSet(Won(n)) /\ Cardinality(Won(n)) \in Nat
    BY <1>6, WonFinite
<1>11. Cardinality(Won(n)') = Cardinality(Won(n)) + 1
    BY <1>9, <1>10, FS_AddElement
<1>12. {battles'[k].target : k \in Won(n)'} = {battles[k].target : k \in Won(n)} \cup {game.at}
    <2>1. \A k \in Won(n) : k # n /\ k \in 1 .. n  BY <1>9, <1>10
    <2>2. \A k \in Won(n) : battles'[k].target = battles[k].target  BY <1>7, <2>1
    <2> QED  BY <1>8, <1>9, <2>2
<1>13. Won(Len(battles))' = Won(n) \cup {n}
    BY <1>7, <1>9
<1>14. GameTold'
    <2>1. game'.alive = Targets \ {battles'[k].target : k \in Won(Len(battles))'}
        BY <1>4, <1>9, <1>12, <1>13, <1>17 DEF GameTrue, GameTold
    <2>2. game'.ammo + Cardinality(Won(Len(battles))') = Ammo
        BY <1>1, <1>4, <1>9, <1>10, <1>11, <1>13, <1>17, EpisodeAssumption
        DEF GameTrue, GameTold, Games
    <2>3. ASSUME NEW k \in 1 .. Len(battles')
          PROVE  /\ battles'[k].pid <= game.pid
                 /\ battles'[k].pid = game.pid => battles'[k].genuine = game.genuine
                 /\ ~(battles'[k].pid = game.pid /\ battles'[k].grade = None)
        BY <1>2, <1>6, <1>7, <1>8, <1>17 DEF GameTrue, GameTold
    <2> QED  BY <1>3, <1>4, <1>6, <1>7, <1>8, <1>17, <2>1, <2>2, <2>3 DEF GameTold
<1>15. Passes
    <2>1. Now' >= Now
        BY <1>2, <1>3, <1>4, <1>6, <1>7, <1>17 DEF Now, Clock
    <2> QED  BY <1>1, <1>2, <1>4, <1>6, <1>7, <1>8, <1>17, <2>1 DEF Passes, Games
<1>16. game'.surface \in Range(Course[game'.grade])
    BY <1>4, CourseSurfaces
<1> QED  BY <1>3, <1>4, <1>5, <1>14, <1>15, <1>16

LEMMA RestartTrue ==
    ASSUME GameTrue, Restart
    PROVE  GameTrue' /\ Passes
<1> USE SurfacesAre
<1>1. game \in Games /\ GameFormed /\ shown \in Frames /\ shown.pid = game.pid
      /\ battles \in Seq(Fought) /\ Len(battles) \in Nat
    BY DEF GameTrue, GameFormed
<1>2. PICK ok \in BOOLEAN :
          game' = [game EXCEPT !.pid = @ + 1, !.genuine = ok, !.surface = "map", !.grade = "S"]
    BY DEF Restart
<1>8. /\ game.pid + 1 \in 1 .. MaxProcesses /\ game.pid \in Nat
      /\ 0 \in 0 .. MaxGeneration /\ "map" \in Pages \cup Alternates \cup {"map", "battle"}
    BY <1>1, EpisodeAssumption DEF Games, Restart
<1>3. /\ game'.pid = game.pid + 1 /\ game'.alive = game.alive /\ game'.ammo = game.ammo
      /\ game'.grade = "S" /\ game'.surface = "map" /\ game' \in Games
    <2>1. PICK pid : /\ pid = game.pid + 1
                     /\ game' = [game EXCEPT !.pid = pid, !.genuine = ok, !.surface = "map",
                                             !.grade = "S"]
        BY <1>2
    <2> QED  BY <1>1, <1>8, <2>1 DEF Games
<1>4. battles' = battles /\ shown' \in Frames /\ shown'.pid = game'.pid
    <2>1. PICK pid : /\ pid = game.pid + 1
                     /\ shown' = [shown EXCEPT !.pid = pid, !.gen = 0, !.surface = "none",
                                               !.map = None]
        BY <1>1 DEF Restart
    <2> QED  BY <1>1, <1>3, <1>8, <2>1 DEF Restart, Frames
<1>5. GameFormed'
    BY <1>1, <1>3, <1>4, CourseSurfaces DEF GameFormed
<1>6. GameTold'
    <2>1. Won(Len(battles))' = Won(Len(battles))  BY <1>4 DEF Won
    <2>2. ASSUME NEW k \in 1 .. Len(battles)
          PROVE  battles[k].pid <= game'.pid /\ battles[k].pid # game'.pid
        <3>1. battles[k] \in Fought  BY <1>1
        <3>2. battles[k].pid \in Nat /\ battles[k].pid <= game.pid
            BY <3>1, <1>1 DEF Fought, GameTrue, GameTold
        <3> QED  BY <1>3, <1>8, <3>2
    <2> QED  BY <1>1, <1>3, <1>4, <2>1, <2>2 DEF GameTrue, GameTold
<1>7. Passes
    <2>1. Now' >= Now  BY <1>1, <1>3, <1>4 DEF Now, Clock
    <2> QED  BY <1>1, <1>3, <1>4, <2>1 DEF Passes, Games
<1> QED  BY <1>5, <1>6, <1>7 DEF GameTrue

LEMMA PublishTrue ==
    ASSUME GameTrue, Publish
    PROVE  GameTrue' /\ Passes
<1>1. game \in Games /\ shown \in Frames /\ battles \in Seq(Fought) /\ Len(battles) \in Nat
      /\ UNCHANGED <<game, battles>>
    BY DEF GameTrue, GameFormed, Publish
<1>2. game.surface = "map" => [alive |-> game.alive, at |-> game.at, ammo |-> game.ammo] \in Maps
    BY <1>1 DEF Games, Maps
<1>3. shown.gen + 1 \in 0 .. MaxGeneration
    BY <1>1, EpisodeAssumption DEF Publish, Frames
<1>4. shown' \in Frames /\ shown'.pid = game'.pid
    BY <1>1, <1>2, <1>3 DEF Publish, Frames, Games, Surfaces
<1>5. GameFormed'  BY <1>1, <1>4 DEF GameTrue, GameFormed
<1>6. GameTold' /\ Now' = Now
    BY <1>1 DEF GameTrue, GameTold, Won, Now
<1>7. Now \in Int
    BY <1>1 DEF Now, Clock
<1>8. Passes
    BY <1>1, <1>6, <1>7 DEF Passes, Games
<1> QED  BY <1>5, <1>6, <1>8 DEF GameTrue

LEMMA GamePasses ==
    ASSUME GameTrue, pending \in Seq(Targets \cup Pages),
           \/ Lands \/ Lost \/ ByHand \/ Restart \/ Publish
           \/ \E grade \in {"S", "A"} : BattleEnds(grade)
    PROVE  GameTrue' /\ Passes
<1>1. GameFormed  BY DEF GameTrue
<1>2. CASE Restart  BY <1>2, RestartTrue
<1>3. CASE Publish  BY <1>3, PublishTrue
<1>4. CASE Lands \/ Lost \/ ByHand \/ \E grade \in {"S", "A"} : BattleEnds(grade)
    <2>1. shown' = shown  BY <1>4 DEF Lands, Lost, ByHand, BattleEnds
    <2>2. CASE UNCHANGED <<game, battles>>
        <3>1. GameTrue'
            BY <2>1, <2>2 DEF GameTrue, GameFormed, GameTold, Won
        <3>2. Now' = Now /\ Now \in Int
            BY <1>1, <2>2 DEF Now, Clock, GameFormed
        <3> QED  BY <1>1, <2>2, <3>1, <3>2 DEF Passes, GameFormed, Games
    <2>3. CASE \/ SurfaceMoves \/ BattleBegins \/ BattleIsWon
               \/ \E grade \in {"S", "A"} : BattleEnds(grade)
        <3>1. GameTold' /\ Passes
              /\ game' \in Games /\ game'.surface \in Range(Course[game'.grade])
              /\ (game'.surface \in Preparing \cup {"battle"} => game'.ammo > 0)
              /\ game'.pid = game.pid
            BY <2>3, SurfaceMovesTrue, BattleBeginsTrue, BattleIsWonTrue, BattleEndsTrue
        <3>2. GameFormed'
            BY <1>1, <2>1, <3>1 DEF GameFormed, Passes
        <3> QED  BY <3>1, <3>2 DEF GameTrue
    <2> QED  BY <1>1, <1>4, <2>2, <2>3, MovesAre
<1> QED  BY <1>2, <1>3, <1>4

(***************************************************************************)
(* The tools and what they keep                                            *)
(***************************************************************************)

Acquired == [pid : 1 .. MaxProcesses, run : 0 .. MaxAcquisitions, target : Targets,
             before : Readings, input : Nat, receipt : Nat]
Commits  == [page : Pages, pid : 1 .. MaxProcesses, first : Nat, commit : Nat, battle : Nat]
Points   == [pid : 1 .. MaxProcesses, gen : Nat, map : Maps, battle : Nat]
Scripts  == [page : Pages, pid : 1 .. MaxProcesses, first : Nat, second : Nat \cup {None},
             battle : Nat \cup {None}, tapped : BOOLEAN]

AtWork == {"open", "tapped", "waiting"}

WorkFormed ==
    /\ work.at # "idle" => work.reading \in Readings /\ acquisition.at \in AtWork
    /\ work.at \in {"chosen", "admitted", "clicking", "clicked"} =>
           work.decision.target \in Targets
    /\ work.at \in {"admitted", "clicking", "clicked"} =>
           work.admission.target \in Targets /\ work.admission.input \in Nat

DiskFormed ==
    /\ disk = [traces |-> disk.traces, acquired |-> disk.acquired, commits |-> disk.commits,
               checkpoints |-> disk.checkpoints]
    /\ disk.traces = [n \in 0 .. MaxAcquisitions |-> disk.traces[n]]
    /\ disk.acquired \subseteq Acquired /\ disk.commits \subseteq Commits
    /\ disk.checkpoints \subseteq Points
    /\ IsFiniteSet(disk.commits) /\ Cardinality(disk.commits) <= MaxCommits

ScriptFormed ==
    script # None =>
        /\ script \in Scripts
        /\ Cardinality(disk.commits) < MaxCommits
        /\ script.second # None => script.second \in Nat /\ script.battle \in Nat
        /\ script.tapped => script.second # None

ToolsFormed ==
    /\ pending \in Seq(Targets \cup Pages) /\ Len(pending) <= MaxPending
    /\ recorder = [at |-> recorder.at, pid |-> recorder.pid]
    /\ recorder.at \in {"off", "started", "open", "done", "failed"}
    /\ acquisition = [at |-> acquisition.at, pid |-> acquisition.pid,
                      commit |-> acquisition.commit]
    /\ acquisition.at \in {"off", "recording", "open", "tapped", "waiting"}
    /\ IF acquisition.at \in {"tapped", "waiting"}
       THEN acquisition.commit \in Receipts
       ELSE acquisition.commit = None
    /\ runs \in 0 .. MaxAcquisitions
    /\ WorkFormed /\ DiskFormed /\ ScriptFormed

\* A process of the game that runs the pinned package.
Sound(pid) ==
    /\ pid \in 1 .. MaxProcesses /\ pid <= game.pid
    /\ pid = game.pid => game.genuine = TRUE
    /\ \A k \in 1 .. Len(battles) : battles[k].pid = pid => battles[k].genuine = TRUE

\* What is recorded, acquired and on disk is of a sound process, and an
\* acquisition is of the process of its trace.
Linked ==
    /\ recorder.at = "started" => Trace = None /\ acquisition.at \in {"off", "recording"}
    /\ \A n \in 0 .. MaxAcquisitions :
          /\ n > runs => disk.traces[n] = None
          /\ disk.traces[n] # None => Sound(disk.traces[n].pid)
    /\ recorder.at = "open" =>
          /\ Sound(recorder.pid)
          /\ Trace # None => Trace.pid = recorder.pid
    /\ acquisition.at # "off" => recorder.at # "off"
    /\ acquisition.at \in AtWork =>
          /\ Trace.pid = acquisition.pid /\ Sound(acquisition.pid)
          /\ recorder.at = "open" => recorder.pid = acquisition.pid
    /\ \A a \in disk.acquired : Sound(a.pid)

(***************************************************************************)
(* The frames of the observer that a tool or a file still knows of.        *)
(***************************************************************************)

MapFrame(pid, r) == [pid |-> pid, gen |-> r.gen, surface |-> "map", map |-> r.map,
                     battle |-> r.battle]
PageFrame(pid, gen, page, battle) ==
    [pid |-> pid, gen |-> gen, surface |-> page, map |-> None,
     battle |-> IF page \in Preparing THEN battle - 1 ELSE battle]

Kept ==
    (IF shown.gen > 0 THEN {shown} ELSE {})
    \cup (IF work.at # "idle" THEN {MapFrame(acquisition.pid, work.reading)} ELSE {})
    \cup (IF acquisition.at \in {"tapped", "waiting"}
          THEN {MapFrame(acquisition.pid, acquisition.commit.before)} ELSE {})
    \cup (IF script # None /\ script.second # None
          THEN {PageFrame(script.pid, script.second, script.page, script.battle)} ELSE {})
    \cup {MapFrame(a.pid, a.before) : a \in disk.acquired}
    \cup {PageFrame(c.pid, c.commit, c.page, c.battle) : c \in disk.commits}
    \cup {MapFrame(cp.pid, cp) : cp \in disk.checkpoints}

Time(f) == Clock(f.surface, f.battle)

\* A map shows which battles were won by then.  All that were fought before
\* it in its process are among them, and what came after is of this process or
\* a later one.
MapTells(f) ==
    /\ f.map.alive = Targets \ {battles[k].target : k \in Won(f.battle)}
    /\ f.map.ammo + Cardinality(Won(f.battle)) = Ammo
    /\ \A k \in 1 .. f.battle :
          battles[k].pid <= f.pid /\ (battles[k].pid = f.pid => battles[k].grade # None)
    /\ \A k \in f.battle + 1 .. Len(battles) : battles[k].pid >= f.pid

FrameTrue(f) ==
    /\ f \in Frames /\ f.surface \in Surfaces
    /\ f.battle <= Len(battles) /\ Time(f) <= Now
    /\ f.pid <= game.pid
    /\ f.pid = game.pid => f.gen <= shown.gen
    /\ f.surface = "map" => f.map \in Maps /\ MapTells(f)
    /\ f.surface # "map" => f.map = None
    /\ f.surface = "BATTLE_STATUS_S" => f.battle > 0 /\ battles[f.battle].grade = "S"

InOrder(f, g) == (f.pid = g.pid /\ f.gen < g.gen) => Time(f) <= Time(g)

KeptTrue == /\ \A f \in Kept : FrameTrue(f)
            /\ \A f, g \in Kept : InOrder(f, g)

Witnessing == Preserved /\ GameTrue /\ ToolsFormed /\ Linked /\ KeptTrue

\* Nothing that a tool does makes a frame.
LEMMA KeptStays ==
    ASSUME KeptTrue, UNCHANGED <<game, shown, battles>>, Kept' \subseteq Kept
    PROVE  KeptTrue'
<1>1. \A f : FrameTrue(f)' <=> FrameTrue(f)
    BY DEF FrameTrue, MapTells, Won, Now
<1>2. \A f, g : InOrder(f, g)' <=> InOrder(f, g)
    BY DEF InOrder
<1> QED  BY <1>1, <1>2 DEF KeptTrue

LEMMA SoundStays ==
    ASSUME NEW pid, Sound(pid), UNCHANGED <<game, battles>>
    PROVE  Sound(pid)'
BY DEF Sound

LEMMA SoundPasses ==
    ASSUME GameTrue, GameTrue', Passes, NEW pid, Sound(pid)
    PROVE  Sound(pid)'
<1>1. game.pid \in Nat /\ game'.pid \in Nat /\ Len(battles) \in Nat /\ pid \in Nat
    BY DEF GameTrue, GameFormed, Games, Sound
<1>2. \A k \in 1 .. Len(battles') : k \in 1 .. Len(battles) \/ k > Len(battles)
    BY <1>1 DEF Passes
<1>3. pid <= game'.pid /\ (pid = game'.pid => game'.genuine = TRUE)
    BY <1>1 DEF Sound, Passes
<1>4. ASSUME NEW k \in 1 .. Len(battles'), battles'[k].pid = pid
      PROVE  battles'[k].genuine = TRUE
    BY <1>1, <1>2, <1>4 DEF Sound, Passes
<1> QED  BY <1>3, <1>4 DEF Sound

\* What a frame tells stays true.
LEMMA FramePasses ==
    ASSUME GameTrue, GameTrue', Passes, NEW f, FrameTrue(f),
           f.pid = game'.pid => f.gen <= shown'.gen
    PROVE  FrameTrue(f)'
<1> USE SurfacesAre
<1>1. /\ f \in Frames /\ f.battle \in Nat /\ f.pid \in Nat /\ Time(f) \in Int
      /\ game.pid \in Nat /\ game'.pid \in Nat
      /\ Len(battles) \in Nat /\ Len(battles') \in Nat /\ Now \in Int /\ Now' \in Int
    BY DEF FrameTrue, Frames, GameTrue, GameFormed, Games, Now, Time, Clock
<1>2. /\ Len(battles) <= Len(battles') /\ Now <= Now' /\ game.pid <= game'.pid
      /\ Time(f) <= Now /\ f.battle <= Len(battles) /\ f.pid <= game.pid
    BY <1>1 DEF FrameTrue, Passes
<1>3. ASSUME f.surface # "battle", NEW k \in 1 .. f.battle
      PROVE  battles'[k] = battles[k]
    <2>1. CASE game.surface = "battle"
        <3>1. 3 * f.battle < Time(f)  BY <1>1, <1>3 DEF Time, Clock
        <3>2. Now = 3 * Len(battles)  BY <2>1, <1>1 DEF Now, Clock
        <3>3. f.battle < Len(battles)  BY <1>1, <1>2, <3>1, <3>2
        <3> QED  BY <1>1, <1>2, <1>3, <3>3 DEF Passes
    <2>2. CASE game.surface # "battle"
        BY <1>1, <1>2, <1>3, <2>2 DEF Passes
    <2> QED  BY <2>1, <2>2
<1>4. ASSUME f.surface = "map"
      PROVE  MapTells(f)'
    <2>1. MapTells(f) /\ f.surface # "battle"  BY <1>4 DEF FrameTrue
    <2>2. Won(f.battle)' = Won(f.battle)
        BY <1>3, <2>1 DEF Won
    <2>3. Won(f.battle) \subseteq 1 .. f.battle  BY DEF Won
    <2>4. {battles'[k].target : k \in Won(f.battle)} = {battles[k].target : k \in Won(f.battle)}
        BY <1>3, <2>1, <2>3
    <2>5. \A k \in 1 .. f.battle :
              battles'[k].pid <= f.pid /\ (battles'[k].pid = f.pid => battles'[k].grade # None)
        BY <1>3, <2>1 DEF MapTells
    <2>6. ASSUME NEW k \in f.battle + 1 .. Len(battles')
          PROVE  battles'[k].pid >= f.pid
        <3>1. CASE k > Len(battles)
            <4>1. k \in 1 .. Len(battles')  BY <1>1
            <4>2. battles'[k].pid = game.pid  BY <3>1, <4>1 DEF Passes
            <4> QED  BY <1>1, <1>2, <4>2
        <3>2. CASE k <= Len(battles)
            <4>1. k \in 1 .. Len(battles) /\ k \in f.battle + 1 .. Len(battles)
                BY <1>1, <3>2
            <4>2. battles'[k].pid = battles[k].pid  BY <4>1 DEF Passes
            <4> QED  BY <2>1, <4>1, <4>2 DEF MapTells
        <3> QED  BY <1>1, <3>1, <3>2
    <2> QED  BY <2>1, <2>2, <2>4, <2>5, <2>6 DEF MapTells
<1>5. ASSUME f.surface = "BATTLE_STATUS_S"
      PROVE  f.battle > 0 /\ battles'[f.battle].grade = "S"
    <2>1. f.battle \in 1 .. f.battle
        BY <1>1, <1>5 DEF FrameTrue
    <2> QED  BY <1>3, <1>5, <2>1 DEF FrameTrue
<1> QED  BY <1>1, <1>2, <1>4, <1>5 DEF FrameTrue

\* A frame that is published shows the game as it is.
LEMMA PublishedTrue ==
    ASSUME GameTrue, GameTrue', Publish
    PROVE  FrameTrue(shown)'
<1> USE SurfacesAre
<1>1. /\ UNCHANGED <<game, battles>> /\ shown' \in Frames /\ game \in Games
      /\ Len(battles) \in Nat /\ game.surface \in Surfaces
    BY CourseSurfaces DEF GameTrue, GameFormed, Publish, Games
<1>2. /\ shown'.pid = game.pid /\ shown'.surface = game.surface /\ shown'.battle = Len(battles)
      /\ game.surface = "map" =>
             shown'.map = [alive |-> game.alive, at |-> game.at, ammo |-> game.ammo]
      /\ game.surface # "map" => shown'.map = None
    BY DEF Publish
<1>3. Time(shown)' = Now /\ Now \in Int /\ Now' = Now
    BY <1>1, <1>2 DEF Time, Now, Clock
<1>4. ASSUME game.surface = "map"
      PROVE  MapTells(shown)' /\ shown'.map \in Maps
    <2>1. shown'.map.alive = game.alive /\ shown'.map.ammo = game.ammo /\ shown'.map \in Maps
        BY <1>1, <1>2, <1>4 DEF Games, Maps
    <2>2. Won(Len(battles))' = Won(Len(battles))  BY <1>1 DEF Won
    <2>3. \A k \in 1 .. Len(battles) :
              battles[k].pid <= game.pid /\ (battles[k].pid = game.pid => battles[k].grade # None)
        BY <1>4 DEF GameTrue, GameTold
    <2>4. Won(shown.battle)' = Won(Len(battles))'
        BY <1>1, <1>2 DEF Won
    <2>5. \A k \in shown'.battle + 1 .. Len(battles') : battles'[k].pid >= shown'.pid
        BY <1>1, <1>2
    <2>6. shown'.map.alive = Targets \ {battles'[k].target : k \in Won(shown.battle)'}
        BY <1>1, <2>1, <2>2, <2>4 DEF GameTrue, GameTold
    <2>7. shown'.map.ammo + Cardinality(Won(shown.battle)') = Ammo
        BY <2>1, <2>2, <2>4 DEF GameTrue, GameTold
    <2> QED  BY <1>1, <1>2, <2>1, <2>3, <2>5, <2>6, <2>7 DEF MapTells
<1>5. ASSUME game.surface = "BATTLE_STATUS_S"
      PROVE  Len(battles) > 0 /\ battles[Len(battles)].grade = "S"
    <2>1. game.surface \in Results
        BY <1>5 DEF Results, Graded, Controls
    <2>2. game.grade = "S"
        BY <1>1, <1>5, CourseSurfaces DEF GameTrue, GameFormed, Games
    <2> QED  BY <2>1, <2>2 DEF GameTrue, GameTold
<1>6. Time(shown)' <= Now' /\ shown'.battle <= Len(battles') /\ shown'.pid <= game'.pid
      /\ shown'.gen <= shown'.gen
    BY <1>1, <1>2, <1>3 DEF Frames, Games
<1> QED  BY <1>1, <1>2, <1>4, <1>5, <1>6 DEF FrameTrue

LEMMA GameKeeps ==
    ASSUME GameTrue, GameTrue', Passes, KeptTrue, UNCHANGED <<previewVars, toolVars>>,
           \/ shown' = shown /\ game'.pid = game.pid
           \/ Publish
           \/ game'.pid > game.pid /\ shown'.gen = 0
    PROVE  KeptTrue'
<1>1. /\ shown \in Frames /\ shown' \in Frames /\ shown.pid = game.pid /\ shown'.pid = game'.pid
      /\ game.pid \in Nat /\ game'.pid \in Nat /\ shown.gen \in Nat /\ shown'.gen \in Nat
    BY DEF GameTrue, GameFormed, Frames, Games
<1>2. Kept' \subseteq Kept \cup {shown'}
      /\ (shown'.gen = 0 => Kept' \subseteq Kept)
    BY <1>1 DEF Kept, previewVars, toolVars
<1>3. ASSUME NEW f \in Kept
      PROVE  FrameTrue(f)'
    <2>1. FrameTrue(f)  BY <1>3 DEF KeptTrue
    <2>2. f.pid \in Nat /\ f.gen \in Nat /\ f.pid <= game.pid
        BY <2>1 DEF FrameTrue, Frames
    <2>3. f.pid = game'.pid => f.gen <= shown'.gen
        BY <1>1, <2>1, <2>2 DEF FrameTrue, Publish
    <2> QED  BY <2>1, <2>3, FramePasses
<1>4. CASE shown'.gen = 0
    BY <1>2, <1>3, <1>4 DEF KeptTrue, InOrder
<1>5. CASE shown' = shown /\ shown'.gen # 0
    <2>1. shown \in Kept  BY <1>1, <1>5 DEF Kept
    <2>2. Kept' \subseteq Kept  BY <1>2, <1>5, <2>1
    <2> QED  BY <1>3, <2>2 DEF KeptTrue, InOrder
<1>6. CASE Publish
    <2>1. FrameTrue(shown)'  BY <1>6, PublishedTrue
    <2>2. /\ shown'.gen = shown.gen + 1 /\ game' = game /\ battles' = battles
          /\ shown'.pid = game.pid
          /\ Time(shown)' = Now
        BY <1>6 DEF Publish, Time, Now
    <2>3. ASSUME NEW f \in Kept
          PROVE  InOrder(f, shown') /\ InOrder(shown', f)
        <3>1. FrameTrue(f)  BY <2>3 DEF KeptTrue
        <3>2. f.gen \in Nat  BY <3>1 DEF FrameTrue, Frames
        <3>3. f.pid = game.pid => f.gen < shown'.gen
            BY <1>1, <2>2, <3>1, <3>2 DEF FrameTrue
        <3>4. Time(f) <= Time(shown')
            BY <2>2, <3>1 DEF FrameTrue, Time
        <3> QED  BY <1>1, <2>2, <3>2, <3>3, <3>4 DEF InOrder
    <2>4. InOrder(shown', shown')  BY <1>1 DEF InOrder
    <2>5. \A f \in Kept' : FrameTrue(f)'  BY <1>2, <1>3, <2>1
    <2>6. \A f, g \in Kept' : InOrder(f, g)
        BY <1>2, <2>3, <2>4 DEF KeptTrue
    <2> QED  BY <2>5, <2>6 DEF KeptTrue, InOrder
<1> QED  BY <1>1, <1>4, <1>5, <1>6

(***************************************************************************)
(* Every step keeps the frames                                             *)
(***************************************************************************)

LEMMA GameWitnesses ==
    ASSUME Witnessing, Preserved',
           \/ Lands \/ Lost \/ ByHand \/ Restart \/ Publish
           \/ \E grade \in {"S", "A"} : BattleEnds(grade)
    PROVE  Witnessing'
<1>1. GameTrue /\ ToolsFormed /\ Linked /\ KeptTrue /\ pending \in Seq(Targets \cup Pages)
    BY DEF Witnessing, ToolsFormed
<1>2. GameTrue' /\ Passes  BY <1>1, GamePasses
<1>3. UNCHANGED <<previewVars, toolVars>>
    BY DEF Lands, Lost, ByHand, Restart, Publish, BattleEnds, ToolsUnchanged
<1>4. \/ shown' = shown /\ game'.pid = game.pid
      \/ Publish
      \/ game'.pid > game.pid /\ shown'.gen = 0
    <2>1. game \in Games /\ shown \in Frames /\ game' \in Games
          /\ shown.pid = game.pid /\ shown'.pid = game'.pid
        BY <1>1, <1>2 DEF GameTrue, GameFormed
    <2>2. CASE Restart
        <3>1. PICK pid : /\ pid = shown.pid + 1
                         /\ shown' = [shown EXCEPT !.pid = pid, !.gen = 0, !.surface = "none",
                                                   !.map = None]
            BY <2>2 DEF Restart
        <3>2. shown'.pid = shown.pid + 1 /\ shown'.gen = 0  BY <2>1, <3>1 DEF Frames
        <3> QED  BY <2>1, <3>2 DEF Games
    <2>3. CASE Lands \/ Lost \/ ByHand \/ \E grade \in {"S", "A"} : BattleEnds(grade)
        <3>1. shown' = shown  BY <2>3 DEF Lands, Lost, ByHand, BattleEnds
        <3> QED  BY <2>1, <3>1
    <2> QED  BY <2>2, <2>3
<1>5. KeptTrue'  BY <1>1, <1>2, <1>3, <1>4, GameKeeps
<1>6. pending' \in Seq(Targets \cup Pages) /\ Len(pending') <= MaxPending
    <2>1. pending' = pending \/ (pending # <<>> /\ pending' = Tail(pending))
        BY DEF Lands, Lost, ByHand, Restart, Publish, BattleEnds
    <2>2. CASE pending' = pending  BY <1>1, <2>2 DEF ToolsFormed
    <2>3. CASE pending # <<>> /\ pending' = Tail(pending)
        <3>1. PICK S : S = Targets \cup Pages  OBVIOUS
        <3>2. pending \in Seq(S)  BY <1>1, <3>1
        <3>3. pending' \in Seq(S) /\ Len(pending') = Len(pending) - 1 /\ Len(pending) \in Nat
            BY <2>3, <3>2
        <3> QED  BY <1>1, <3>1, <3>3, EpisodeAssumption DEF ToolsFormed
    <2> QED  BY <2>1, <2>2, <2>3
<1>7. ToolsFormed'
    BY <1>1, <1>3, <1>6 DEF ToolsFormed, WorkFormed, DiskFormed, ScriptFormed, toolVars, previewVars
<1>8. \A pid : Sound(pid) => Sound(pid)'
    BY <1>1, <1>2, SoundPasses
<1>9. Linked'
    BY <1>1, <1>3, <1>8 DEF Linked, Trace, toolVars
<1> QED  BY <1>2, <1>5, <1>7, <1>9 DEF Witnessing

\* The steps of a tool leave the game alone.
LEMMA ToolWitnesses ==
    ASSUME Witnessing, Preserved', UNCHANGED <<game, shown, battles>>,
           ToolsFormed', Linked', Kept' \subseteq Kept
    PROVE  Witnessing'
<1>1. GameTrue'
    BY DEF Witnessing, GameTrue, GameFormed, GameTold, Won
<1>2. KeptTrue'  BY KeptStays DEF Witnessing
<1> QED  BY <1>1, <1>2 DEF Witnessing

LEMMA WorkWitnesses ==
    ASSUME Witnessing, Preserved', Prepares \/ InputReturns \/ InputRaises
    PROVE  Witnessing'
<1>1. /\ Shaped /\ ToolsFormed /\ Linked
    BY DEF Witnessing, Preserved
<1>2. /\ UNCHANGED <<gameVars, recorder, script, disk, runs>>
      /\ acquisition.at \in AtWork
      /\ \/ acquisition' = acquisition
         \/ /\ acquisition.at = "tapped"
            /\ acquisition' = [acquisition EXCEPT !.at = "waiting"]
    BY DEF Prepares, InputReturns, InputRaises, toolVars, OtherToolsUnchanged, AtWork
<1>3. /\ acquisition'.at \in AtWork /\ acquisition'.pid = acquisition.pid
      /\ acquisition'.commit = acquisition.commit
      /\ acquisition' = [at |-> acquisition'.at, pid |-> acquisition'.pid,
                         commit |-> acquisition'.commit]
      /\ acquisition'.at \in {"tapped", "waiting"} <=> acquisition.at \in {"tapped", "waiting"}
    BY <1>1, <1>2 DEF ToolsFormed, AtWork
<1>4. /\ work.at # "idle" /\ work'.at # "idle" /\ work'.reading = work.reading
      /\ WorkFormed'
    <2>1. \/ Projected \/ Choose \/ Goto \/ Clicked \/ Raises
          \/ (\E t \in Targets : Chosen(t)) \/ (Admit(shown.gen) /\ shown.gen \in Nat)
        BY DEF Prepares, InputReturns, InputRaises, Witnessing, GameTrue, GameFormed, Frames
    <2>2. /\ work = [at |-> work.at, reading |-> work.reading, previous |-> work.previous,
                     decision |-> work.decision, admission |-> work.admission]
          /\ WorkFormed
        BY <1>1 DEF Shaped, ToolsFormed
    <2>3. CASE Projected \/ Choose \/ Goto \/ Clicked
        BY <1>3, <2>2, <2>3 DEF Projected, Choose, Goto, Clicked, WorkFormed
    <2>4. CASE Raises
        BY <1>3, <2>2, <2>4 DEF Raises, ProjectRaises, ChoiceRaises, GotoRaises, Refuses, WorkFormed
    <2>5. CASE \E t \in Targets : Chosen(t)
        <3>1. PICK t \in Targets : Chosen(t)  BY <2>5
        <3>2. PICK d : /\ d = [target |-> t, reading |-> campaign.projection]
                       /\ work' = [work EXCEPT !.at = "chosen", !.decision = d]
            BY <3>1 DEF Chosen
        <3> QED  BY <1>3, <2>2, <3>1, <3>2 DEF Chosen, WorkFormed
    <2>6. CASE Admit(shown.gen) /\ shown.gen \in Nat
        <3>1. PICK a : /\ a = [target |-> work.decision.target, reading |-> work.reading,
                               input |-> shown.gen]
                       /\ work' = [work EXCEPT !.at = "admitted", !.admission = a]
            BY <2>6 DEF Admit
        <3> QED  BY <1>3, <2>2, <2>6, <3>1 DEF Admit, WorkFormed
    <2> QED  BY <2>1, <2>3, <2>4, <2>5, <2>6
<1>5. ToolsFormed'
    BY <1>1, <1>2, <1>3, <1>4 DEF ToolsFormed, DiskFormed, ScriptFormed, gameVars, AtWork
<1>6. \A pid : Sound(pid) => Sound(pid)'
    BY <1>2, SoundStays DEF gameVars
<1>7. Linked'
    BY <1>1, <1>2, <1>3, <1>6 DEF Linked, Trace, AtWork
<1>8. Kept' \subseteq Kept
    BY <1>2, <1>3, <1>4 DEF Kept, gameVars
<1> QED  BY <1>2, <1>5, <1>7, <1>8, ToolWitnesses DEF gameVars

LEMMA RecorderWitnesses ==
    ASSUME Witnessing, Preserved', RecorderOpens \/ Samples \/ RecorderEnds
    PROVE  Witnessing'
<1>1. /\ ToolsFormed /\ Linked /\ GameTrue /\ game \in Games /\ shown.pid = game.pid
    BY DEF Witnessing, GameTrue, GameFormed
<1>2. UNCHANGED <<previewVars, gameVars, acquisition, script, runs>>
    BY DEF RecorderOpens, Samples, RecorderEnds
<1>3. \A pid : Sound(pid) => Sound(pid)'
    BY <1>2, SoundStays DEF gameVars
<1>4. CASE RecorderOpens
    <2>1. recorder' = [at |-> "open", pid |-> game.pid] /\ disk' = disk /\ Gate
          /\ recorder.at = "started"
        BY <1>4 DEF RecorderOpens
    <2>2. Sound(game.pid)
        <3>1. CASE game.genuine = TRUE
            <4>1. game.pid \in 1 .. MaxProcesses /\ game.pid <= game.pid
                BY <1>1, EpisodeAssumption DEF Games
            <4>2. \A k \in 1 .. Len(battles) :
                      battles[k].pid = game.pid => battles[k].genuine = game.genuine
                BY <1>1 DEF GameTrue, GameTold
            <4> QED  BY <3>1, <4>1, <4>2 DEF Sound
        <3>2. CASE Vouched(game.pid)
            <4>1. PICK n \in 0 .. MaxAcquisitions :
                      disk.traces[n] # None /\ disk.traces[n].pid = game.pid
                BY <1>1, <3>2 DEF Vouched, ToolsFormed, DiskFormed
            <4> QED  BY <1>1, <4>1 DEF Linked
        <3>3. game.genuine = TRUE \/ Vouched(game.pid)
            BY <1>1, <2>1 DEF Gate, Games
        <3> QED  BY <3>1, <3>2, <3>3
    <2>3. ToolsFormed'
        BY <1>1, <1>2, <2>1 DEF ToolsFormed, WorkFormed, DiskFormed, ScriptFormed, gameVars,
                                previewVars
    <2>4. Linked'
        BY <1>1, <1>2, <1>3, <2>1, <2>2 DEF Linked, Trace, AtWork
    <2>5. Kept' \subseteq Kept
        BY <1>2, <2>1 DEF Kept, gameVars, previewVars
    <2> QED  BY <1>2, <2>3, <2>4, <2>5, ToolWitnesses DEF gameVars
<1>5. CASE Samples
    <2>1. PICK t : /\ t = Extended(Trace)
                   /\ disk' = [disk EXCEPT !.traces = [disk.traces EXCEPT ![runs] = t]]
        BY <1>5 DEF Samples
    <2>2. /\ recorder' = recorder /\ recorder.at = "open" /\ recorder.pid = game.pid
          /\ t.pid = recorder.pid
        BY <1>1, <1>5, <2>1 DEF Samples, Readable, Extended
    <2>3. /\ disk'.acquired = disk.acquired /\ disk'.commits = disk.commits
          /\ disk'.checkpoints = disk.checkpoints
          /\ disk'.traces = [disk.traces EXCEPT ![runs] = t]
        BY <1>1, <2>1 DEF ToolsFormed, DiskFormed
    <2>4. /\ disk'.traces = [n \in 0 .. MaxAcquisitions |-> disk'.traces[n]]
          /\ \A n \in 0 .. MaxAcquisitions :
                disk'.traces[n] = IF n = runs THEN t ELSE disk.traces[n]
          /\ runs \in 0 .. MaxAcquisitions /\ Trace' = t
        BY <1>1, <1>2, <2>3 DEF ToolsFormed, DiskFormed, Trace
    <2>5. disk' = [traces |-> disk'.traces, acquired |-> disk'.acquired,
                   commits |-> disk'.commits, checkpoints |-> disk'.checkpoints]
        BY <1>1, <2>1 DEF ToolsFormed, DiskFormed
    <2>6. ToolsFormed'
        BY <1>1, <1>2, <2>2, <2>3, <2>4, <2>5 DEF ToolsFormed, WorkFormed, DiskFormed,
            ScriptFormed, gameVars, previewVars
    <2>7. Linked'
        <3>1. \A n \in 0 .. MaxAcquisitions :
                  /\ n > runs => disk'.traces[n] = None
                  /\ disk'.traces[n] # None => Sound(disk'.traces[n].pid)
            BY <1>1, <2>2, <2>4 DEF Linked
        <3> QED  BY <1>1, <1>2, <1>3, <2>2, <2>3, <2>4, <3>1 DEF Linked, AtWork
    <2>8. Kept' \subseteq Kept
        BY <1>2, <2>3 DEF Kept, gameVars, previewVars
    <2> QED  BY <1>2, <2>6, <2>7, <2>8, ToolWitnesses DEF gameVars
<1>6. CASE RecorderEnds
    <2>1. PICK at \in {"done", "failed"} : recorder' = [recorder EXCEPT !.at = at]
        BY <1>6 DEF RecorderEnds
    <2>2. disk' = disk /\ recorder.at \in {"started", "open"} /\ recorder'.at = at
          /\ recorder' = [at |-> recorder'.at, pid |-> recorder'.pid]
        BY <1>1, <1>6, <2>1 DEF RecorderEnds, ToolsFormed
    <2>3. ToolsFormed'
        BY <1>1, <1>2, <2>2 DEF ToolsFormed, WorkFormed, DiskFormed, ScriptFormed, gameVars,
                                previewVars
    <2>4. Linked'
        BY <1>1, <1>2, <1>3, <2>2 DEF Linked, Trace, AtWork
    <2>5. Kept' \subseteq Kept
        BY <1>2, <2>2 DEF Kept, gameVars, previewVars
    <2> QED  BY <1>2, <2>3, <2>4, <2>5, ToolWitnesses DEF gameVars
<1> QED  BY <1>4, <1>5, <1>6

\* A frame of the map, and a page, are the last publication.
LEMMA ShownIs ==
    ASSUME GameTrue, KeptTrue, shown.gen > 0
    PROVE  /\ shown = [pid |-> shown.pid, gen |-> shown.gen, surface |-> shown.surface,
                       map |-> shown.map, battle |-> shown.battle]
           /\ shown \in Kept /\ shown.gen \in Nat /\ shown.battle \in Nat
           /\ shown.pid = game.pid /\ shown.pid \in 1 .. MaxProcesses
           /\ shown.map # None => shown.surface = "map" /\ shown.map \in Maps
           /\ shown.surface # "map" => shown.map = None
<1>1. shown \in Frames /\ shown.pid = game.pid  BY DEF GameTrue, GameFormed
<1>2. shown \in Kept  BY DEF Kept
<1>3. FrameTrue(shown)  BY <1>2 DEF KeptTrue
<1> QED  BY <1>1, <1>2, <1>3 DEF Frames, FrameTrue

LEMMA AcquisitionBeginsWitnesses ==
    ASSUME Witnessing, Preserved', AcquisitionBegins \/ SessionOpens \/ AcquisitionEnds
    PROVE  Witnessing'
<1>1. ToolsFormed /\ Linked  BY DEF Witnessing
<1>2. UNCHANGED <<gameVars, script, disk>>
    BY DEF AcquisitionBegins, SessionOpens, AcquisitionEnds, OtherToolsUnchanged
<1>3. \A pid : Sound(pid) => Sound(pid)'
    BY <1>2, SoundStays DEF gameVars
<1>4. CASE AcquisitionBegins
    <2>1. /\ runs' = runs + 1 /\ runs' \in 0 .. MaxAcquisitions /\ runs \in Nat
          /\ recorder' = [at |-> "started", pid |-> None]
          /\ acquisition' = [at |-> "recording", pid |-> None, commit |-> None]
          /\ work' = work /\ work.at = "idle"
        BY <1>1, <1>4, EpisodeAssumption DEF AcquisitionBegins, ToolsFormed, WorkFormed, AtWork,
            previewVars
    <2>2. ToolsFormed'
        BY <1>1, <1>2, <2>1 DEF ToolsFormed, WorkFormed, DiskFormed, ScriptFormed, gameVars
    <2>3. /\ Trace' = None
          /\ \A n \in 0 .. MaxAcquisitions : n > runs' => disk.traces[n] = None
        BY <1>1, <1>2, <2>1 DEF Linked, Trace
    <2>4. Linked'
        BY <1>1, <1>2, <1>3, <2>1, <2>3 DEF Linked, AtWork
    <2>5. Kept' \subseteq Kept
        BY <1>2, <2>1 DEF Kept, gameVars
    <2> QED  BY <1>2, <2>2, <2>4, <2>5, ToolWitnesses DEF gameVars
<1>5. CASE SessionOpens
    <2>1. PICK pid : /\ pid = Trace.pid
                     /\ acquisition' = [acquisition EXCEPT !.at = "open", !.pid = pid]
        BY <1>5 DEF SessionOpens
    <2>2. /\ acquisition' = [at |-> "open", pid |-> pid, commit |-> None]
          /\ work' = work /\ work.at = "idle" /\ recorder' = recorder /\ runs' = runs
          /\ Trace # None /\ Trace' = Trace
        BY <1>1, <1>2, <1>5, <2>1 DEF SessionOpens, ToolsFormed, WorkFormed, AtWork, previewVars,
            Trace
    <2>3. Sound(pid) /\ recorder.at # "off" /\ recorder.at # "started"
          /\ (recorder.at = "open" => recorder.pid = pid)
        BY <1>1, <1>5, <2>1, <2>2 DEF Linked, Trace, ToolsFormed, SessionOpens
    <2>4. ToolsFormed'
        BY <1>1, <1>2, <2>2 DEF ToolsFormed, WorkFormed, DiskFormed, ScriptFormed, gameVars
    <2>5. Linked'
        BY <1>1, <1>2, <1>3, <2>1, <2>2, <2>3 DEF Linked, AtWork
    <2>6. Kept' \subseteq Kept
        BY <1>2, <2>2 DEF Kept, gameVars
    <2> QED  BY <1>2, <2>4, <2>5, <2>6, ToolWitnesses DEF gameVars
<1>6. CASE AcquisitionEnds
    <2>1. /\ acquisition' = [at |-> "off", pid |-> None, commit |-> None]
          /\ recorder' = [at |-> "off", pid |-> None]
          /\ work'.at = "idle" /\ runs' = runs
        BY <1>6 DEF AcquisitionEnds, Gone, Idle
    <2>2. ToolsFormed'
        BY <1>1, <1>2, <2>1 DEF ToolsFormed, WorkFormed, DiskFormed, ScriptFormed, gameVars
    <2>3. Linked'
        BY <1>1, <1>2, <1>3, <2>1 DEF Linked, AtWork
    <2>4. Kept' \subseteq Kept
        BY <1>2, <2>1 DEF Kept, gameVars
    <2> QED  BY <1>2, <2>2, <2>3, <2>4, ToolWitnesses DEF gameVars
<1> QED  BY <1>4, <1>5, <1>6

LEMMA ReadingWitnesses ==
    ASSUME Witnessing, Preserved', MapIsRead \/ GridTap
    PROVE  Witnessing'
<1>1. ToolsFormed /\ Linked /\ GameTrue /\ KeptTrue  BY DEF Witnessing
<1>2. UNCHANGED <<game, shown, battles, recorder, script, disk, runs>> /\ shown.gen > 0
      /\ shown.pid = acquisition.pid
    BY DEF MapIsRead, GridTap, OtherToolsUnchanged, toolVars, gameVars, Readable
<1>3. \A pid : Sound(pid) => Sound(pid)'
    BY <1>2, SoundStays
<1>4. CASE MapIsRead
    <2>1. /\ work' = [at |-> "projecting", reading |-> Reading, previous |-> campaign,
                      decision |-> None, admission |-> None]
          /\ acquisition' = acquisition /\ pending' = pending /\ shown.map # None
          /\ acquisition.at = "open"
        BY <1>4 DEF MapIsRead, Project, Idle, OtherToolsUnchanged, toolVars, gameVars
    <2>2. Reading \in Readings
        BY <1>1, <1>2, <2>1, ShownIs DEF Reading, Readings, Maps
    <2>3. ToolsFormed'
        BY <1>1, <1>2, <2>1, <2>2 DEF ToolsFormed, WorkFormed, DiskFormed, ScriptFormed, AtWork
    <2>4. Linked'
        BY <1>1, <1>2, <1>3, <2>1 DEF Linked, Trace
    <2>5. MapFrame(acquisition.pid, Reading) = shown
        BY <1>1, <1>2, <2>1, ShownIs DEF MapFrame, Reading
    <2>6. Kept' \subseteq Kept
        BY <1>1, <1>2, <2>1, <2>5, ShownIs DEF Kept
    <2> QED  BY <1>2, <2>3, <2>4, <2>6, ToolWitnesses
<1>5. CASE GridTap
    <2>1. PICK c : /\ c = [target |-> work.admission.target, before |-> work.reading,
                           input |-> work.admission.input, receipt |-> shown.gen]
                   /\ acquisition' = [acquisition EXCEPT !.at = "tapped", !.commit = c]
        BY <1>5 DEF GridTap
    <2>2. /\ acquisition' = [at |-> "tapped", pid |-> acquisition.pid, commit |-> c]
          /\ acquisition.at = "open" /\ work' = work /\ work.at = "clicking"
        BY <1>1, <1>5, <2>1 DEF GridTap, ToolsFormed, previewVars
    <2>3. /\ c \in Receipts /\ c.before = work.reading
          /\ work.admission.target \in Targets
        BY <1>1, <1>2, <2>1, <2>2, ShownIs DEF ToolsFormed, WorkFormed, Receipts
    <2>4. pending' \in Seq(Targets \cup Pages) /\ Len(pending') <= MaxPending
        <3>1. PICK S, x : S = Targets \cup Pages /\ x = work.admission.target  OBVIOUS
        <3>2. pending \in Seq(S) /\ x \in S /\ pending' = Append(pending, x)
              /\ Len(pending) < MaxPending
            BY <1>1, <1>5, <2>3, <3>1 DEF ToolsFormed, GridTap
        <3>3. pending' \in Seq(S) /\ Len(pending') = Len(pending) + 1 /\ Len(pending) \in Nat
            BY <3>2
        <3> QED  BY <3>1, <3>2, <3>3, EpisodeAssumption
    <2>5. ToolsFormed'
        BY <1>1, <1>2, <2>2, <2>3, <2>4 DEF ToolsFormed, WorkFormed, DiskFormed, ScriptFormed,
            AtWork
    <2>6. Linked'
        BY <1>1, <1>2, <1>3, <2>2 DEF Linked, Trace, AtWork
    <2>7. Kept' \subseteq Kept
        BY <1>1, <1>2, <2>2, <2>3 DEF Kept
    <2> QED  BY <1>2, <2>5, <2>6, <2>7, ToolWitnesses
<1> QED  BY <1>4, <1>5

LEMMA FileWitnesses ==
    ASSUME Witnessing, Preserved', AcquisitionWrites \/ Checkpoint
    PROVE  Witnessing'
<1>1. ToolsFormed /\ Linked /\ GameTrue /\ KeptTrue  BY DEF Witnessing
<1>2. UNCHANGED <<gameVars, script, runs>>
    BY DEF AcquisitionWrites, Checkpoint, OtherToolsUnchanged
<1>3. \A pid : Sound(pid) => Sound(pid)'
    BY <1>2, SoundStays DEF gameVars
<1>4. CASE AcquisitionWrites
    <2> DEFINE k == acquisition.commit
    <2>1. PICK a : /\ a = [pid |-> Trace.pid, run |-> runs, target |-> k.target,
                           before |-> k.before, input |-> k.input, receipt |-> k.receipt]
                   /\ disk' = [disk EXCEPT !.acquired = disk.acquired \cup {a}]
        BY <1>4 DEF AcquisitionWrites
    <2>2. /\ acquisition' = [at |-> "off", pid |-> None, commit |-> None]
          /\ recorder' = [at |-> "off", pid |-> None]
          /\ work'.at = "idle" /\ acquisition.at = "waiting"
        BY <1>4 DEF AcquisitionWrites, Gone, Idle
    <2>3. Trace.pid = acquisition.pid /\ Sound(acquisition.pid) /\ k \in Receipts
        BY <1>1, <2>2 DEF Linked, AtWork, ToolsFormed
    <2>4. a \in Acquired /\ a.pid = acquisition.pid /\ a.before = k.before
        BY <1>1, <2>1, <2>3 DEF Acquired, Receipts, Sound, ToolsFormed
    <2>5. /\ disk' = [traces |-> disk.traces, acquired |-> disk.acquired \cup {a},
                      commits |-> disk.commits, checkpoints |-> disk.checkpoints]
        BY <1>1, <2>1 DEF ToolsFormed, DiskFormed
    <2>6. ToolsFormed'
        BY <1>1, <1>2, <2>2, <2>4, <2>5 DEF ToolsFormed, WorkFormed, DiskFormed, ScriptFormed,
            gameVars
    <2>7. Linked'
        BY <1>1, <1>2, <1>3, <2>2, <2>3, <2>4, <2>5 DEF Linked, AtWork
    <2>8. MapFrame(a.pid, a.before) = MapFrame(acquisition.pid, k.before)
          /\ MapFrame(acquisition.pid, k.before) \in Kept
        BY <2>2, <2>4 DEF Kept
    <2>9. Kept' \subseteq Kept
        <3>1. Kept' = (IF shown.gen > 0 THEN {shown} ELSE {})
                \cup (IF script # None /\ script.second # None
                      THEN {PageFrame(script.pid, script.second, script.page, script.battle)}
                      ELSE {})
                \cup {MapFrame(b.pid, b.before) : b \in disk.acquired \cup {a}}
                \cup {PageFrame(c.pid, c.commit, c.page, c.battle) : c \in disk.commits}
                \cup {MapFrame(cp.pid, cp) : cp \in disk.checkpoints}
            BY <1>2, <2>2, <2>5 DEF Kept, gameVars
        <3> QED  BY <2>8, <3>1 DEF Kept
    <2> QED  BY <1>2, <2>6, <2>7, <2>9, ToolWitnesses DEF gameVars
<1>5. CASE Checkpoint
    <2>1. PICK cp : /\ cp = MapCheckpoint
                    /\ disk' = [disk EXCEPT !.checkpoints = disk.checkpoints \cup {cp}]
        BY <1>5 DEF Checkpoint
    <2>2. /\ acquisition' = acquisition /\ recorder' = recorder /\ work' = work
          /\ shown.gen > 0 /\ shown.map # None /\ UNCHANGED <<game, shown, battles, pending>>
        BY <1>2, <1>5 DEF Checkpoint, previewVars, Readable, gameVars
    <2>3. cp \in Points /\ MapFrame(cp.pid, cp) = shown /\ shown \in Kept
        BY <1>1, <2>1, <2>2, ShownIs DEF MapCheckpoint, Points, MapFrame
    <2>4. disk' = [traces |-> disk.traces, acquired |-> disk.acquired,
                   commits |-> disk.commits, checkpoints |-> disk.checkpoints \cup {cp}]
        BY <1>1, <2>1 DEF ToolsFormed, DiskFormed
    <2>5. ToolsFormed'
        BY <1>1, <1>2, <2>2, <2>3, <2>4 DEF ToolsFormed, WorkFormed, DiskFormed, ScriptFormed
    <2>6. Linked'
        BY <1>1, <1>2, <1>3, <2>2, <2>4 DEF Linked, Trace, AtWork
    <2>7. Kept' \subseteq Kept
        BY <1>2, <2>2, <2>3, <2>4 DEF Kept
    <2> QED  BY <2>2, <2>5, <2>6, <2>7, ToolWitnesses
<1> QED  BY <1>4, <1>5

LEMMA ScriptWitnesses ==
    ASSUME Witnessing, Preserved',
           \/ \E page \in Pages : ScriptBegins(page)
           \/ SecondRead \/ PageTap \/ ScriptWrites \/ ScriptEnds
    PROVE  Witnessing'
<1>1. ToolsFormed /\ Linked /\ GameTrue /\ KeptTrue  BY DEF Witnessing
<1>2. UNCHANGED <<previewVars, game, shown, battles, recorder, acquisition, runs>>
    BY DEF ScriptBegins, SecondRead, PageTap, ScriptWrites, ScriptEnds, gameVars
<1>3. \A pid : Sound(pid) => Sound(pid)'
    BY <1>2, SoundStays
<1>4. ASSUME disk'.traces = disk.traces, disk'.acquired = disk.acquired
      PROVE  Linked'
    BY <1>1, <1>2, <1>3, <1>4 DEF Linked, Trace, AtWork
<1>5. ASSUME disk' = disk, ScriptFormed',
             pending' \in Seq(Targets \cup Pages), Len(pending') <= MaxPending
      PROVE  ToolsFormed'
    BY <1>1, <1>2, <1>5 DEF ToolsFormed, WorkFormed, DiskFormed, previewVars
<1>6. ASSUME NEW page \in Pages, ScriptBegins(page)
      PROVE  Witnessing'
    <2>1. /\ script' = [page |-> page, pid |-> game.pid, first |-> shown.gen, second |-> None,
                        battle |-> None, tapped |-> FALSE]
          /\ disk' = disk /\ pending' = pending /\ shown.gen > 0
          /\ Cardinality(disk.commits) < MaxCommits
        BY <1>6 DEF ScriptBegins, gameVars, Offers, Readable
    <2>2. ScriptFormed'
        BY <1>1, <2>1, ShownIs DEF ScriptFormed, Scripts
    <2>3. Kept' \subseteq Kept
        BY <1>2, <2>1 DEF Kept, previewVars
    <2> QED  BY <1>1, <1>2, <1>4, <1>5, <2>1, <2>2, <2>3, ToolWitnesses DEF ToolsFormed
<1>7. CASE SecondRead
    <2>1. PICK gen, b : /\ gen = shown.gen /\ b = BattleOf(script.page)
                        /\ script' = [script EXCEPT !.second = gen, !.battle = b]
        BY <1>7 DEF SecondRead
    <2>2. /\ disk' = disk /\ pending' = pending /\ shown.gen > 0
          /\ script # None /\ script.second = None
          /\ shown.pid = script.pid /\ shown.surface = script.page
        BY <1>7 DEF SecondRead, gameVars, Offers, Readable
    <2>3. script \in Scripts /\ Cardinality(disk.commits) < MaxCommits /\ script.tapped = FALSE
        BY <1>1, <2>2 DEF ToolsFormed, ScriptFormed, Scripts
    <2>4. gen \in Nat /\ b \in Nat
          /\ shown.battle = IF script.page \in Preparing THEN b - 1 ELSE b
        BY <1>1, <2>1, <2>2, ShownIs DEF BattleOf
    <2>5. /\ script' \in Scripts /\ script'.second = gen /\ script'.battle = b
          /\ script'.page = script.page /\ script'.pid = script.pid /\ script'.tapped = FALSE
        BY <2>1, <2>3, <2>4 DEF Scripts
    <2>6. ScriptFormed'
        BY <2>2, <2>3, <2>4, <2>5 DEF ScriptFormed
    <2>7. script.page # "map"
        BY <2>3, SurfacesAre DEF Scripts
    <2>8. PageFrame(script'.pid, script'.second, script'.page, script'.battle) = shown
          /\ shown \in Kept
        BY <1>1, <2>1, <2>2, <2>4, <2>5, <2>7, ShownIs DEF PageFrame
    <2>9. Kept' \subseteq Kept
        BY <1>2, <2>2, <2>8 DEF Kept, previewVars
    <2> QED  BY <1>1, <1>2, <1>4, <1>5, <2>2, <2>6, <2>9, ToolWitnesses DEF ToolsFormed
<1>8. CASE PageTap
    <2>1. /\ script' = [script EXCEPT !.tapped = TRUE]
          /\ disk' = disk /\ script # None /\ script.second # None
          /\ pending' = Append(pending, script.page) /\ Len(pending) < MaxPending
        BY <1>8 DEF PageTap
    <2>2. script \in Scripts /\ ScriptFormed  BY <1>1, <2>1 DEF ToolsFormed, ScriptFormed
    <2>3. /\ script' \in Scripts /\ script'.second = script.second
          /\ script'.battle = script.battle /\ script'.page = script.page
          /\ script'.pid = script.pid /\ script.page \in Pages
        BY <2>1, <2>2 DEF Scripts
    <2>4. ScriptFormed'
        BY <2>1, <2>2, <2>3 DEF ScriptFormed
    <2>5. pending' \in Seq(Targets \cup Pages) /\ Len(pending') <= MaxPending
        <3>1. PICK S, x : S = Targets \cup Pages /\ x = script.page  OBVIOUS
        <3>2. pending \in Seq(S) /\ x \in S /\ pending' = Append(pending, x)
            BY <1>1, <2>1, <2>3, <3>1 DEF ToolsFormed
        <3>3. pending' \in Seq(S) /\ Len(pending') = Len(pending) + 1 /\ Len(pending) \in Nat
            BY <3>2
        <3> QED  BY <2>1, <3>1, <3>3, EpisodeAssumption
    <2>6. Kept' \subseteq Kept
        BY <1>2, <2>1, <2>3 DEF Kept, previewVars
    <2> QED  BY <1>2, <1>4, <1>5, <2>1, <2>4, <2>5, <2>6, ToolWitnesses
<1>9. CASE ScriptWrites
    <2>1. PICK c : /\ c = [page |-> script.page, pid |-> script.pid, first |-> script.first,
                           commit |-> script.second, battle |-> script.battle]
                   /\ disk' = [disk EXCEPT !.commits = disk.commits \cup {c}]
        BY <1>9 DEF ScriptWrites
    <2>2. script # None /\ script.tapped /\ script' = None /\ pending' = pending
        BY <1>9 DEF ScriptWrites, gameVars
    <2>3. /\ script \in Scripts /\ Cardinality(disk.commits) < MaxCommits
          /\ script.second \in Nat /\ script.battle \in Nat /\ script.second # None
        BY <1>1, <2>2 DEF ToolsFormed, ScriptFormed
    <2>4. c \in Commits  BY <2>1, <2>3 DEF Scripts, Commits
    <2>5. disk' = [traces |-> disk.traces, acquired |-> disk.acquired,
                   commits |-> disk.commits \cup {c}, checkpoints |-> disk.checkpoints]
        BY <1>1, <2>1 DEF ToolsFormed, DiskFormed
    <2>6. IsFiniteSet(disk.commits \cup {c})
          /\ Cardinality(disk.commits \cup {c}) <= MaxCommits
        <3>1. IsFiniteSet(disk.commits) /\ Cardinality(disk.commits) \in Nat
            BY <1>1, FS_CardinalityType DEF ToolsFormed, DiskFormed
        <3>2. /\ IsFiniteSet(disk.commits \cup {c})
              /\ \/ Cardinality(disk.commits \cup {c}) = Cardinality(disk.commits)
                 \/ Cardinality(disk.commits \cup {c}) = Cardinality(disk.commits) + 1
            BY <3>1, FS_AddElement
        <3> QED  BY <2>3, <3>1, <3>2, EpisodeAssumption
    <2>7. ToolsFormed'
        BY <1>1, <1>2, <2>2, <2>4, <2>5, <2>6 DEF ToolsFormed, WorkFormed, DiskFormed,
            ScriptFormed, previewVars
    <2>8. /\ PageFrame(c.pid, c.commit, c.page, c.battle) =
                 PageFrame(script.pid, script.second, script.page, script.battle)
          /\ PageFrame(script.pid, script.second, script.page, script.battle) \in Kept
        BY <2>1, <2>2, <2>3 DEF Kept
    <2>9. Kept' \subseteq Kept
        BY <1>2, <2>2, <2>5, <2>8 DEF Kept, previewVars
    <2> QED  BY <1>2, <1>4, <2>5, <2>7, <2>9, ToolWitnesses
<1>10. CASE ScriptEnds
    <2>1. script' = None /\ disk' = disk /\ pending' = pending
        BY <1>10 DEF ScriptEnds, gameVars
    <2>2. Kept' \subseteq Kept
        BY <1>2, <2>1 DEF Kept, previewVars
    <2> QED  BY <1>1, <1>2, <1>4, <1>5, <2>1, <2>2, ToolWitnesses DEF ToolsFormed, ScriptFormed
<1> QED  BY <1>6, <1>7, <1>8, <1>9, <1>10

LEMMA InitWitnessing == Init => Witnessing
<1> SUFFICES ASSUME Init PROVE Witnessing  OBVIOUS
<1> USE SurfacesAre
<1>1. PICK ok \in BOOLEAN :
          game = [pid |-> 1, genuine |-> ok, surface |-> "map", alive |-> Targets, at |-> None,
                  ammo |-> Ammo, grade |-> "S"]
    BY DEF Init
<1>2. /\ shown = [pid |-> 1, gen |-> 0, surface |-> "none", map |-> None, battle |-> 0]
      /\ battles = <<>> /\ Len(battles) = 0 /\ battles \in Seq(Fought)
      /\ 1 \in 1 .. MaxProcesses /\ 0 \in 0 .. MaxGeneration /\ 0 \in 0 .. MaxAcquisitions
    BY EpisodeAssumption DEF Init
<1>3. GameFormed
    <2>1. game \in Games  BY <1>1, <1>2, EpisodeAssumption DEF Games
    <2>2. shown \in Frames  BY <1>2 DEF Frames
    <2> QED  BY <1>1, <1>2, <2>1, <2>2, CourseSurfaces DEF GameFormed
<1>4. GameTold
    <2>1. Won(Len(battles)) = {}  BY <1>2 DEF Won
    <2>2. Cardinality(Won(Len(battles))) = 0  BY <2>1, FS_EmptySet
    <2>3. {battles[k].target : k \in Won(Len(battles))} = {}  BY <2>1
    <2>4. game.alive = Targets \ {battles[k].target : k \in Won(Len(battles))}
        BY <1>1, <2>3
    <2>5. game.ammo + Cardinality(Won(Len(battles))) = Ammo
        BY <1>1, <2>2, EpisodeAssumption
    <2>6. \A k : k \notin 1 .. Len(battles)  BY <1>2
    <2>7. game.surface = "map"  BY <1>1
    <2> QED  BY <2>4, <2>5, <2>6, <2>7 DEF GameTold
<1>5. /\ pending = <<>> /\ recorder = [at |-> "off", pid |-> None] /\ script = None
      /\ acquisition = [at |-> "off", pid |-> None, commit |-> None] /\ work.at = "idle"
      /\ disk = [traces   |-> [n \in 0 .. MaxAcquisitions |-> None],
                 acquired |-> {}, commits |-> {}, checkpoints |-> {}]
      /\ runs = 0
    BY DEF Init, PreviewInit, Idle
<1>6. ToolsFormed
    <2>1. pending \in Seq(Targets \cup Pages) /\ Len(pending) <= MaxPending
        BY <1>5, EpisodeAssumption
    <2>2. IsFiniteSet({}) /\ Cardinality({}) <= MaxCommits
        BY FS_EmptySet, EpisodeAssumption
    <2>3. DiskFormed  BY <1>5, <2>2 DEF DiskFormed
    <2> QED  BY <1>2, <1>5, <2>1, <2>3 DEF ToolsFormed, WorkFormed, ScriptFormed
<1>7. Linked
    BY <1>5 DEF Linked, AtWork
<1>8. Kept = {}
    BY <1>2, <1>5 DEF Kept
<1> QED  BY <1>3, <1>4, <1>6, <1>7, <1>8, InitPreserved DEF Witnessing, GameTrue, KeptTrue

LEMMA NextWitnesses ==
    ASSUME Witnessing, [Next]_vars
    PROVE  Witnessing'
<1>1. Preserved'  BY NextPreserves DEF Witnessing
<1>2. CASE UNCHANGED vars
    <2>1. UNCHANGED <<game, shown, battles, pending, recorder, acquisition, script, disk, runs>>
          /\ UNCHANGED previewVars
        BY <1>2 DEF vars, gameVars, toolVars
    <2>2. ToolsFormed'
        BY <2>1 DEF Witnessing, ToolsFormed, WorkFormed, DiskFormed, ScriptFormed, previewVars
    <2>3. Linked'
        BY <2>1 DEF Witnessing, Linked, Trace, Sound
    <2>4. Kept' \subseteq Kept  BY <2>1 DEF Kept, previewVars
    <2> QED  BY <1>1, <2>1, <2>2, <2>3, <2>4, ToolWitnesses
<1>3. CASE Next
    BY <1>1, <1>3, GameWitnesses, WorkWitnesses, RecorderWitnesses, AcquisitionBeginsWitnesses,
       ReadingWitnesses, FileWitnesses, ScriptWitnesses DEF Next
<1> QED  BY <1>2, <1>3

(***************************************************************************)
(* What the analysis accepts                                               *)
(***************************************************************************)

\* Two maps of a process, the later one short of one enemy and of one unit of
\* ammunition: one battle was fought between them, and it was won.
LEMMA OneBattle ==
    ASSUME GameTrue, NEW f, NEW g, FrameTrue(f), FrameTrue(g),
           f.surface = "map", g.surface = "map", f.pid = g.pid, Time(f) <= Time(g),
           NEW t \in f.map.alive, t \notin g.map.alive, g.map.ammo = f.map.ammo - 1
    PROVE  /\ f.battle \in Nat /\ g.battle = f.battle + 1
           /\ g.battle \in 1 .. Len(battles)
           /\ battles[g.battle].pid = f.pid /\ battles[g.battle].target = t
<1> USE SurfacesAre
<1>1. PICK m, n \in Nat : m = f.battle /\ n = g.battle
    BY DEF FrameTrue, Frames
<1>2. m <= n /\ n <= Len(battles) /\ Len(battles) \in Nat
    BY <1>1 DEF FrameTrue, Time, Clock, GameTrue, GameFormed
<1>3. ASSUME NEW k \in m + 1 .. n
      PROVE  battles[k].pid = f.pid /\ k \in Won(n) /\ k \notin Won(m)
    <2>1. k \in 1 .. Len(battles) /\ k \in m + 1 .. Len(battles) /\ k \in 1 .. n
          /\ k \notin 1 .. m
        BY <1>2
    <2>2. battles[k].pid >= f.pid
        BY <1>1, <2>1 DEF FrameTrue, MapTells
    <2>3. battles[k].pid <= g.pid /\ (battles[k].pid = g.pid => battles[k].grade # None)
        BY <1>1, <2>1 DEF FrameTrue, MapTells
    <2>4. battles[k].pid \in Nat /\ f.pid \in Nat
        <3>1. battles[k] \in Fought  BY <2>1 DEF GameTrue, GameFormed
        <3>2. f \in Frames  BY DEF FrameTrue
        <3> QED  BY <3>1, <3>2 DEF Fought, Frames
    <2> QED  BY <2>1, <2>2, <2>3, <2>4 DEF Won
<1>4. Won(m) \subseteq Won(n) /\ Won(n) \subseteq Won(m) \cup (m + 1 .. n)
    BY <1>2 DEF Won
<1>5. /\ IsFiniteSet(Won(m)) /\ IsFiniteSet(Won(n))
      /\ Cardinality(Won(m)) \in Nat /\ Cardinality(Won(n)) \in Nat
    BY WonFinite
<1>6. Cardinality(Won(n)) = Cardinality(Won(m)) + 1
    <2>1. /\ f.map.ammo + Cardinality(Won(m)) = Ammo /\ g.map.ammo + Cardinality(Won(n)) = Ammo
          /\ f.map.ammo \in Nat /\ g.map.ammo \in Nat
        BY <1>1 DEF FrameTrue, MapTells, Maps
    <2> QED  BY <1>5, <2>1, EpisodeAssumption
<1>7. n # m  BY <1>5, <1>6
<1>8. ~ n > m + 1
    <2> SUFFICES ASSUME n > m + 1 PROVE FALSE  OBVIOUS
    <2>1. m + 1 \in m + 1 .. n /\ m + 2 \in m + 1 .. n /\ m + 1 # m + 2  OBVIOUS
    <2>2. PICK A : A = Won(m) \cup {m + 1}  OBVIOUS
    <2>3. IsFiniteSet(A) /\ Cardinality(A) = Cardinality(Won(m)) + 1
        BY <1>3, <1>5, <2>1, <2>2, FS_AddElement
    <2>4. m + 2 \notin A  BY <1>3, <2>1, <2>2
    <2>5. PICK B : B = A \cup {m + 2}  OBVIOUS
    <2>6. IsFiniteSet(B) /\ Cardinality(B) = Cardinality(A) + 1
        BY <2>3, <2>4, <2>5, FS_AddElement
    <2>7. B \in SUBSET Won(n)  BY <1>3, <1>4, <2>1, <2>2, <2>5
    <2>8. Cardinality(B) <= Cardinality(Won(n))  BY <1>5, <2>7, FS_Subset
    <2> QED  BY <1>5, <1>6, <2>3, <2>6, <2>8
<1>9. n = m + 1 /\ n \in m + 1 .. n  BY <1>2, <1>7, <1>8
<1>10. battles[n].target = t
    <2>1. /\ t \in Targets /\ t \notin {battles[k].target : k \in Won(m)}
          /\ t \in {battles[k].target : k \in Won(n)}
        BY <1>1 DEF FrameTrue, MapTells
    <2>2. PICK k \in Won(n) : t = battles[k].target  BY <2>1
    <2>3. k \notin Won(m)  BY <2>1, <2>2
    <2>4. k = n  BY <1>4, <1>9, <2>2, <2>3
    <2> QED  BY <2>2, <2>4
<1> QED  BY <1>1, <1>2, <1>3, <1>9, <1>10

\* The input and every receipt lie between the two maps; the result page that
\* every accepted sequence has is of that battle, and so are the others.
LEMMA AcceptedIsWitnessed ==
    ASSUME Witnessing, NEW cp \in disk.checkpoints, NEW a \in disk.acquired,
           NEW S \in SUBSET disk.commits, Accepts(a, S, cp)
    PROVE  /\ cp.battle = a.before.battle + 1
           /\ battles[a.before.battle + 1] =
                  [pid |-> a.pid, genuine |-> TRUE, target |-> a.target, grade |-> "S"]
           /\ \A c \in S : c.battle = a.before.battle + 1
<1> USE SurfacesAre
<1> DEFINE P == a.pid
           Page(c) == PageFrame(P, c.commit, c.page, c.battle)
<1>1. ToolsFormed /\ Linked /\ GameTrue /\ KeptTrue  BY DEF Witnessing
<1>2. /\ a \in Acquired /\ cp \in Points /\ S \subseteq Commits
    BY <1>1 DEF ToolsFormed, DiskFormed
<1>3. /\ InputHolds(a) /\ ActionsHold(S, P, a.receipt) /\ MapChanged(a, cp, S)
    BY DEF Accepts
<1>4. PICK f : f = MapFrame(P, a.before)  OBVIOUS
<1>5. PICK g : g = MapFrame(cp.pid, cp)  OBVIOUS
<1>6. f \in Kept /\ g \in Kept /\ FrameTrue(f) /\ FrameTrue(g)
    <2>1. f \in Kept /\ g \in Kept  BY <1>4, <1>5 DEF Kept
    <2> QED  BY <1>1, <2>1 DEF KeptTrue
<1>7. /\ f.pid = P /\ f.gen = a.before.gen /\ f.surface = "map" /\ f.map = a.before.map
      /\ f.battle = a.before.battle
      /\ g.pid = P /\ g.gen = cp.gen /\ g.surface = "map" /\ g.map = cp.map
      /\ g.battle = cp.battle
    BY <1>3, <1>4, <1>5 DEF MapFrame, MapChanged
<1>8. ASSUME NEW c \in S
      PROVE  /\ Page(c) \in Kept /\ FrameTrue(Page(c))
             /\ Page(c).pid = P /\ Page(c).gen = c.commit /\ Page(c).surface = c.page
             /\ f.gen < c.commit /\ c.commit < g.gen
             /\ Time(f) <= Time(Page(c)) /\ Time(Page(c)) <= Time(g)
    <2>1. c \in disk.commits /\ c.pid = P  BY <1>3 DEF ActionsHold
    <2>2. Page(c) \in Kept /\ FrameTrue(Page(c))  BY <1>1, <2>1 DEF Kept, KeptTrue
    <2>3. Page(c).pid = P /\ Page(c).gen = c.commit /\ Page(c).surface = c.page
        BY DEF PageFrame
    <2>4. a.before.gen <= a.input /\ a.input <= a.receipt /\ a.receipt < c.first
          /\ c.first < c.commit /\ c.commit < cp.gen
        BY <1>3 DEF InputHolds, ActionsHold, Increasing, MapChanged
    <2>5. c \in Commits /\ c.first \in Nat /\ c.commit \in Nat /\ a.before.gen \in Nat
          /\ a.input \in Nat /\ a.receipt \in Nat /\ cp.gen \in Nat
        BY <1>2 DEF Commits, Acquired, Readings, Points
    <2>6. f.gen < c.commit /\ c.commit < g.gen  BY <1>7, <2>4, <2>5
    <2>7. InOrder(f, Page(c)) /\ InOrder(Page(c), g)
        BY <1>1, <1>6, <2>2 DEF KeptTrue
    <2> QED  BY <1>7, <2>2, <2>3, <2>6, <2>7 DEF InOrder
<1>9. PICK s \in S : s.page = "BATTLE_STATUS_S"
    <2>1. "BATTLE_STATUS_S" \in Pages \ Skippable  BY DEF Pages, Controls, Skippable
    <2> QED  BY <1>3, <2>1 DEF ActionsHold, Sequenced
<1>10. Time(f) <= Time(g) /\ Time(f) \in Int /\ Time(g) \in Int
    <2>1. \A x : FrameTrue(x) => Time(x) \in Int
        BY DEF FrameTrue, Frames, Time, Clock
    <2>2. FrameTrue(f) /\ FrameTrue(g) /\ FrameTrue(Page(s))  BY <1>6, <1>8
    <2>3. Time(f) \in Int /\ Time(g) \in Int /\ Time(Page(s)) \in Int  BY <2>1, <2>2
    <2>4. Time(f) <= Time(Page(s)) /\ Time(Page(s)) <= Time(g)  BY <1>8
    <2> QED  BY <2>3, <2>4
<1>11. PICK m \in Nat :
           /\ m = f.battle /\ g.battle = m + 1 /\ m + 1 \in 1 .. Len(battles)
           /\ battles[m + 1].pid = P /\ battles[m + 1].target = a.target
    <2>1. a.target \in f.map.alive /\ a.target \notin g.map.alive /\ g.map.ammo = f.map.ammo - 1
        BY <1>3, <1>7 DEF MapChanged
    <2> QED  BY <1>1, <1>6, <1>7, <1>10, <2>1, OneBattle
<1>12. Time(f) = 3 * m + 2 /\ Time(g) = 3 * m + 5
    BY <1>7, <1>11 DEF Time, Clock
<1>13. ASSUME NEW c \in S, c.page \notin Preparing
       PROVE  /\ c.battle = m + 1 /\ Page(c).battle = m + 1
              /\ Time(Page(c)) = 3 * (m + 1) + 1
    <2>1. c \in Commits /\ c.page \in Results /\ c.battle \in Nat
        BY <1>2, <1>13 DEF Commits
    <2>2. Page(c).battle = c.battle  BY <1>13 DEF PageFrame
    <2>3. Time(Page(c)) = 3 * c.battle + 1
        BY <1>8, <2>1, <2>2 DEF Time, Clock
    <2>4. 3 * m + 2 <= 3 * c.battle + 1 /\ 3 * c.battle + 1 <= 3 * m + 5
        BY <1>8, <1>12, <2>3
    <2> QED  BY <2>1, <2>2, <2>3, <2>4
<1>14. s.page \notin Preparing  BY <1>9 DEF Preparing
<1>15. ASSUME NEW c \in S, c.page \in Preparing
       PROVE  c.battle = m + 1
    <2>1. c # s  BY <1>14, <1>15
    <2>2. c \in Commits /\ s \in Commits /\ c.first \in Nat /\ c.commit \in Nat
          /\ s.first \in Nat /\ s.commit \in Nat /\ c.battle \in Nat
        BY <1>2 DEF Commits
    <2>3. c.commit < s.first \/ s.commit < c.first
        BY <1>3, <2>1 DEF ActionsHold, Increasing
    <2>4. c.first < c.commit /\ s.first < s.commit
        BY <1>3 DEF ActionsHold, Increasing
    <2>5. ~ s.commit < c.commit
        <3>1. Place["S"]["BATTLE_STATUS_S"] = 6
            BY PlaceIs, CourseIs DEF StatusPage
        <3>2. \A j \in 2 .. 4 : Place["S"][Course["S"][j]] = j
            BY PlaceIs
        <3>3. \E j \in 2 .. 4 : c.page = Course["S"][j]
            <4>1. Course["S"][2] = "AUTOMATION_CONFIRM" /\ Course["S"][3] = "AUTOMATION_OFF"
                  /\ Course["S"][4] = "BATTLE_PREPARATION"
                BY CourseIs
            <4> QED  BY <1>15, <4>1 DEF Preparing
        <3>4. Place["S"][c.page] < 6  BY <3>2, <3>3
        <3>5. s.commit < c.commit => Place["S"][s.page] < Place["S"][c.page]
            BY <1>3 DEF ActionsHold, Sequenced
        <3> QED  BY <1>9, <3>1, <3>2, <3>3, <3>5
    <2>6. c.commit < s.commit  BY <2>2, <2>3, <2>4, <2>5
    <2>7. Time(Page(c)) <= Time(Page(s))
        <3>1. InOrder(Page(c), Page(s))  BY <1>1, <1>8 DEF KeptTrue
        <3> QED  BY <1>8, <2>6, <3>1 DEF InOrder
    <2>8. Page(c).battle = c.battle - 1  BY <1>15 DEF PageFrame
    <2>9. Time(Page(c)) = 3 * (c.battle - 1) + 2
        BY <1>8, <1>15, <2>8 DEF Time, Clock
    <2>10. 3 * m + 2 <= 3 * (c.battle - 1) + 2 /\ 3 * (c.battle - 1) + 2 <= 3 * (m + 1) + 1
        BY <1>8, <1>12, <1>13, <1>14, <2>7, <2>9
    <2> QED  BY <2>2, <2>10
<1>16. battles[m + 1] \in Fought /\ battles[m + 1].grade = "S" /\ battles[m + 1].genuine = TRUE
    <2>1. battles[m + 1].grade = "S"
        BY <1>8, <1>9, <1>13, <1>14 DEF FrameTrue
    <2>2. battles[m + 1].genuine = TRUE  BY <1>1, <1>11 DEF Linked, Sound
    <2>3. battles[m + 1] \in Fought
        BY <1>1, <1>11 DEF GameTrue, GameFormed
    <2> QED  BY <2>1, <2>2, <2>3
<1>17. battles[m + 1] = [pid |-> P, genuine |-> TRUE, target |-> a.target, grade |-> "S"]
    BY <1>11, <1>16 DEF Fought
<1> QED  BY <1>7, <1>11, <1>13, <1>15, <1>17

\* Every variable has its type, and an acquisition past its click has made the
\* one input, with its receipt: whatever fails and wherever it is killed.
THEOREM TypeCorrect == Spec => []TypeOK
<1>1. Witnessing => TypeOK
    <2> SUFFICES ASSUME Witnessing PROVE TypeOK  OBVIOUS
    <2>1. game \in Games /\ shown \in Frames /\ ToolsFormed /\ work.at \in Steps
        BY DEF Witnessing, GameTrue, GameFormed, Preserved, Shaped
    <2>2. shown.gen \in 0 .. MaxGeneration /\ shown.map \in Maps \cup {None}
        BY <2>1 DEF Frames
    <2> QED  BY <2>1, <2>2 DEF TypeOK, ToolsFormed, DiskFormed, Steps
<1> QED  BY <1>1, InitWitnessing, NextWitnesses, PTL DEF Spec

\* Whatever files the tools wrote, in however many runs, and in whatever choice
\* they are handed to analyze_alas_combat_controlled_episode: what it accepts is
\* one battle, fought on the target in the recorded process of the pinned
\* package, the first after the map was read, graded S, with its own pages, and
\* the checkpoint is of the map before another began.
THEOREM EpisodesAreWitnessed == Spec => []EpisodeIsWitnessed
<1>1. Witnessing => EpisodeIsWitnessed
    BY AcceptedIsWitnessed DEF EpisodeIsWitnessed
<1> QED  BY <1>1, InitWitnessing, NextWitnesses, PTL DEF Spec
=============================================================================
