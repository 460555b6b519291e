----------------------------- MODULE MapPreview -----------------------------
(***************************************************************************)
(* Projecting a campaign map that was read from the game into an ALAS      *)
(* campaign, letting the battle branch of ALAS choose a target on it, and  *)
(* running the prefix of its _goto() up to the click on the grid.          *)
(*                                                                         *)
(* The code swaps state that other code of the process uses: fields of the *)
(* campaign and of its config, the attributes of the class-level MAP and   *)
(* the sleep of the emotion module.  Each step of a caller is an action;   *)
(* any of them may raise instead.  A reading is what campaign_map_state()  *)
(* returned; routes, roadblocks and geometry are left to ALAS.             *)
(***************************************************************************)
EXTENDS Naturals

CONSTANTS
    None,
    Targets         \* cells with an enemy

VARIABLES
    campaign,       \* the campaign object: its map, projection and config
    native,         \* what the class-level MAP holds: "own" or a reading
    sleep,          \* the sleep function of the emotion module
    work            \* the call in progress, with its local variables

previewVars == <<campaign, native, sleep, work>>

Own  == [map |-> None, projection |-> None, config |-> "own"]
Idle == [at |-> "idle", reading |-> None, previous |-> Own,
         decision |-> None, admission |-> None]

PreviewInit ==
    campaign = Own /\ native = "own" /\ sleep = "own" /\ work = Idle

Working == work.at \in {"projecting", "choosing", "clicking"}

(***************************************************************************)
(* synchronize_alas_campaign_map                                           *)
(***************************************************************************)

\* map_data_init() has replaced the map of the campaign and written the
\* fields of its config; the projection is still the one before.
Project(r) ==
    /\ work' = [Idle EXCEPT !.at = "projecting", !.reading = r, !.previous = campaign]
    /\ campaign' = [campaign EXCEPT !.map = r, !.config = "map"]
    /\ UNCHANGED <<native, sleep>>

Projected ==
    /\ work.at = "projecting"
    /\ campaign' = [campaign EXCEPT !.projection = work.reading, !.config = "own"]
    /\ work' = [work EXCEPT !.at = "projected"]
    /\ UNCHANGED <<native, sleep>>

\* As a plausible slip would have it: the config alone.
ProjectRaisesHalfway ==
    /\ work.at = "projecting"
    /\ campaign' = [campaign EXCEPT !.config = "own"]
    /\ work' = [work EXCEPT !.at = "raised"]
    /\ UNCHANGED <<native, sleep>>

\* The except clause restores the campaign, the finally clause the config.
ProjectRaises ==
    /\ work.at = "projecting"
    /\ campaign' = [work.previous EXCEPT !.config = "own"]
    /\ work' = [work EXCEPT !.at = "raised"]
    /\ UNCHANGED <<native, sleep>>

(***************************************************************************)
(* preview_alas_campaign_decision                                          *)
(***************************************************************************)

\* The native map is overlaid with a copy of the campaign's map and the sleep
\* of the emotion module is blocked.
Choose ==
    /\ work.at = "projected"
    /\ campaign.projection = work.reading
    /\ native' = campaign.map /\ sleep' = "blocked"
    /\ work' = [work EXCEPT !.at = "choosing"]
    /\ UNCHANGED campaign

\* The first goto() of the branch is captured: its target is an enemy of the
\* projection, with the projected route, and the overlays are taken back.
Chosen(t) ==
    /\ work.at = "choosing"
    /\ t \in native.alive /\ t \in campaign.projection.alive
    /\ native' = "own" /\ sleep' = "own"
    /\ work' = [work EXCEPT !.at = "chosen",
                            !.decision = [target |-> t, reading |-> campaign.projection]]
    /\ UNCHANGED campaign

\* The branch slept, touched the device, came back without goto(), or chose
\* another route.
ChoiceRaises ==
    /\ work.at = "choosing"
    /\ native' = "own" /\ sleep' = "own"
    /\ work' = [work EXCEPT !.at = "raised"]
    /\ UNCHANGED campaign

(***************************************************************************)
(* _run_alas_campaign_goto_input                                           *)
(***************************************************************************)

\* What was admitted by the adapter: the decision, on the state it was given,
\* with the generation of a second look at the cell.
Admit(input) ==
    /\ work.at = "chosen"
    /\ work' = [work EXCEPT !.at = "admitted",
                            !.admission = [target  |-> work.decision.target,
                                           reading |-> work.reading,
                                           input   |-> input]]
    /\ UNCHANGED <<campaign, native, sleep>>

\* _validate_inputs: projection, state, decision and admission are of one
\* reading, and the projected grid is still the target.
Valid ==
    /\ campaign.projection = work.admission.reading
    /\ work.reading = work.admission.reading
    /\ work.decision = [target |-> work.admission.target, reading |-> work.admission.reading]
    /\ work.admission.target \in campaign.map.alive

Goto ==
    /\ work.at = "admitted" /\ Valid
    /\ native' = campaign.map
    /\ work' = [work EXCEPT !.at = "clicking"]
    /\ UNCHANGED <<campaign, sleep>>

\* device.click(grid) was reached and answered by an exception of the preview
\* device, which ends the sandbox before ALAS looks at the result.
Clicked ==
    /\ work.at = "clicking"
    /\ native' = "own"
    /\ work' = [work EXCEPT !.at = "clicked"]
    /\ UNCHANGED <<campaign, sleep>>

GotoRaises ==
    /\ work.at = "clicking"
    /\ native' = "own"
    /\ work' = [work EXCEPT !.at = "raised"]
    /\ UNCHANGED <<campaign, sleep>>

\* A check before the swaps, or the adapter, refuses.
Refuses ==
    /\ work.at \in {"projected", "chosen", "admitted"}
    /\ work' = [work EXCEPT !.at = "raised"]
    /\ UNCHANGED <<campaign, native, sleep>>

Raises == ProjectRaises \/ ChoiceRaises \/ GotoRaises \/ Refuses

\* No code but the call in progress sees a swapped map, config or sleep, and
\* the projection of the campaign is the one its map was made from.
SwapsUndone ==
    ~Working => /\ native = "own" /\ sleep = "own" /\ campaign.config = "own"
                /\ campaign.map = campaign.projection
=============================================================================
