------------------------ MODULE MCControlledEpisode -------------------------
(* Instances of ControlledEpisode for TLC. *)
EXTENDS ControlledEpisode, TLC

MCUnseen == {"AUTOMATION_CONFIRM", "AUTOMATION_OFF", "GET_ITEMS_1", "GET_MISSION"}

(***************************************************************************)
(* The search leaves out the states from which nothing can be accepted any *)
(* more within MaxGeneration publications: an accepted episode has three   *)
(* receipts here, each of two generations of its own, after the receipt of *)
(* the grid input and before the checkpoint; one battle is fought from the *)
(* input on, and it is the target's; and all files are of one process, so  *)
(* that the search ends where the last one starts: a battle that was left  *)
(* looks like one that was backed out of.  It also ends where the          *)
(* acquisition raises or its recorder fails.  One receipt from before the  *)
(* input is let through to the analysis, for it to refuse.                 *)
(***************************************************************************)

Missing == 3 - Cardinality(disk.commits)
Begun   == IF script # None /\ shown.gen > script.first THEN 1 ELSE 0
Before(c, d) == c.commit < d.first /\ Place["S"][c.page] < Place["S"][d.page]

Tapped == IF acquisition.commit # None THEN {acquisition.commit} ELSE disk.acquired

\* No generation is both the first of the trace and that of the input.
EarliestInput ==
    IF Trace # None /\ Trace.first < shown.gen THEN shown.gen
    ELSE IF shown.gen = 0 THEN 2 ELSE shown.gen + 1

HopefulReceipts ==
    /\ \A c, d \in disk.commits : c # d => Before(c, d) \/ Before(d, c)
    /\ script # None => \A c \in disk.commits : Before(c, script)
    /\ IF Tapped = {}
       THEN Missing > 1 /\ EarliestInput + 2 * (Missing - Begun) + 1 <= MaxGeneration
       ELSE Missing > 0 => shown.gen + 2 * Missing - Begun <= MaxGeneration

HopefulTrace ==
    /\ recorder.at = "done" =>
         /\ ControlsProven(Trace) /\ Tapped # {}
         /\ Missing = 0 \/ (Missing = 1 /\ script # None /\ script.second # None)
         /\ acquisition.commit # None => Straddles
    /\ acquisition.commit # None => Trace.first < acquisition.commit.receipt
    /\ Missing = 0 => Controls \subseteq Trace.proven \cup {shown.surface}

HopefulMap ==
    /\ Tapped = {} => game.ammo > 0
    /\ \A a \in Tapped :
         \/ game.ammo = a.before.map.ammo
         \/ game.ammo = a.before.map.ammo - 1 /\ game.at = a.target /\ a.target \notin game.alive

Hopeful ==
    /\ game.pid < MaxProcesses
    /\ work.at # "raised" /\ recorder.at # "failed"
    /\ Cardinality(disk.checkpoints) < MaxCheckpoints
    /\ runs = MaxAcquisitions /\ acquisition.at = "off" => disk.acquired # {}
    /\ HopefulReceipts /\ HopefulTrace /\ HopefulMap

CellSymmetry == Permutations(Targets)
=============================================================================
