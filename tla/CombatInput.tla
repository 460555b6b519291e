---------------------------- MODULE CombatInput ----------------------------
(***************************************************************************)
(* The inputs of a campaign flow on the campaign map: a camera swipe       *)
(* towards an empty cell (positioning), a camera swipe towards an admitted *)
(* enemy (viewport), and one tap on the enemy's cell (combat).  Each has a *)
(* budget that begin_campaign_pre_sortie() grants anew.  Swipes are booked *)
(* before they are made, the tap after it was made.                        *)
(*                                                                         *)
(* The caller is ALAS, which may make any call in any order, or the script *)
(* qualify_alas_campaign_viewport.py, which positions the camera, admits   *)
(* an enemy, and lets the original _goto() run up to its grid click, which *)
(* it captures.  The game handles inputs late, and its camera may go on    *)
(* moving after a swipe was first seen to have moved it.                   *)
(*                                                                         *)
(* Two views of the camera differ in the point of every cell.  Generations *)
(* are left out: where the code asks for a greater one, a call waits for a *)
(* publication that came after its first read.                             *)
(***************************************************************************)
EXTENDS Naturals, FiniteSets, Sequences

CONSTANTS
    Enemies, Seas,   \* cells with an enemy at first, and cells without
    Views,           \* places of the camera
    Exposed,         \* the views in which a cell is not covered by anything
    Ammo,            \* ammunition of the fleet at first
    Grants,          \* the budgets a session may be opened with
    None,
    MaxInvocations,  \* bound: invocations of a campaign run
    MaxPending       \* bound: inputs the game has not handled

Nodes == Enemies \cup Seas

ASSUME CellsAssumption ==
    /\ Enemies \cap Seas = {} /\ Seas # {} /\ Views # {}
    /\ Exposed \in [Nodes -> SUBSET Views]
    /\ Ammo \in Nat /\ MaxInvocations \in Nat /\ MaxPending \in Nat

Kinds == {"combat", "viewport", "positioning"}

ASSUME GrantsAssumption ==
    /\ Grants \subseteq [Kinds -> 0 .. 2]
    /\ \A g \in Grants : g["combat"] \in 0 .. 1 /\ g["viewport"] \in 0 .. 1

VARIABLES
    game,        \* the campaign map of the game
    pending,     \* inputs the game has not handled
    shown,       \* the last publication
    grant,       \* the budgets of the session
    ctx,         \* _CampaignFlowContext, as far as these inputs go
    call,        \* the call under way
    caller,      \* "running", or "leaving" after an exception
    script,      \* the qualification script
    used,        \* history: inputs that reached the game in this invocation
    past         \* history: battles, and what was done in spite of an exception

vars == <<game, pending, shown, grant, ctx, call, caller, script, used, past>>

-----------------------------------------------------------------------------
(* State.                                                                  *)

Maps   == [enemies : SUBSET Enemies, fleet : Nodes, ammo : 0 .. Ammo]
Games  == [view : Views, map : Maps, battle : BOOLEAN]
Inputs == [kind : {"swipe"}, more : BOOLEAN]
              \cup [kind : {"tap"}, node : Nodes, view : Views]

\* CampaignMapState: the logical map, and the points of the cells.
States == [map : Maps, view : Views]
StateOf(g) == [map |-> g.map, view |-> g.view]

\* AlasCampaignCombatAdmission and CampaignCameraPositioningAdmission.
Admissions == [target : Nodes, map : Maps, view : Views]

Contexts ==
    [combat : 0 .. 1, viewport : 0 .. 1, positioning : 0 .. 2,
     map : States \cup {None},
     admission : Admissions \cup {None},
     required : BOOLEAN, armed : BOOLEAN, moved : BOOLEAN, rechecked : BOOLEAN,
     placing : Admissions \cup {None}, placed : 0 .. 2, completed : BOOLEAN,
     receipt : BOOLEAN, proof : Nodes \cup {None}]

\* begin_campaign_pre_sortie().
Fresh(g) ==
    [combat |-> g["combat"], viewport |-> g["viewport"],
     positioning |-> g["positioning"],
     map |-> None, admission |-> None,
     required |-> FALSE, armed |-> FALSE, moved |-> FALSE, rechecked |-> FALSE,
     placing |-> None, placed |-> 0, completed |-> FALSE,
     receipt |-> FALSE, proof |-> None]

\* A call between its steps: which, and what its first read of the map saw.
Calls == [op : {"map", "camera", "confirm", "swipe", "swiping", "swiped", "tap"},
          first : Maps, later : BOOLEAN]

\* Nothing selected, admitted or under way is not one of these.
ASSUME NoneAssumption ==
    None \notin Nodes /\ None \notin States /\ None \notin Admissions
    /\ None \notin Contexts /\ None \notin Calls

Stages == {"off", "alas", "position", "decide", "goto", "done", "failed"}
Zero   == [k \in Kinds |-> 0]

Init ==
    /\ \E v \in Views, n \in Seas :
          game = [view |-> v, battle |-> FALSE,
                  map |-> [enemies |-> Enemies, fleet |-> n, ammo |-> Ammo]]
    /\ pending = <<>>
    /\ shown = game
    /\ grant \in Grants
    /\ ctx = None /\ call = None /\ caller = "running"
    /\ script \in [stage : {"off", "alas"}, log : {<<>>}, target : {None},
                   made : {Zero}]
    /\ used = Zero
    /\ past = [invocations |-> 0, won |-> <<>>, seen |-> 0, ignored |-> FALSE]

-----------------------------------------------------------------------------
(* The game, and the observer.                                             *)

\* What a tap may hit: its cell, or anything once the camera has moved on.
Under(tap) == IF tap.view = game.view THEN {tap.node} ELSE Nodes

HandleSwipe ==
    /\ pending # <<>> /\ Head(pending).kind = "swipe"
    /\ \/ /\ game.battle
          /\ pending' = Tail(pending) /\ UNCHANGED game
       \/ /\ ~game.battle
          /\ \E v \in Views \ {game.view} : game' = [game EXCEPT !.view = v]
          /\ \/ pending' = Tail(pending)
             \/ /\ Head(pending).more
                /\ pending' = [pending EXCEPT ![1].more = FALSE]
    /\ UNCHANGED <<shown, grant, ctx, call, caller, script, used, past>>

HandleTap ==
    /\ pending # <<>> /\ Head(pending).kind = "tap"
    /\ pending' = Tail(pending)
    /\ \/ game.battle /\ UNCHANGED game
       \/ /\ ~game.battle
          /\ \E n \in Under(Head(pending)) :
                game' = [game EXCEPT !.map.fleet = n,
                                     !.battle = n \in game.map.enemies]
    /\ UNCHANGED <<shown, grant, ctx, call, caller, script, used, past>>

\* A battle is won, or left with the enemy still there.
BattleEnds ==
    /\ game.battle
    /\ \/ /\ game' = [game EXCEPT !.battle = FALSE,
                                  !.map.enemies = @ \ {game.map.fleet},
                                  !.map.ammo = IF @ > 0 THEN @ - 1 ELSE 0]
          /\ past' = [past EXCEPT !.won = Append(@, game.map.fleet)]
       \/ /\ game' = [game EXCEPT !.battle = FALSE]
          /\ UNCHANGED past
    /\ UNCHANGED <<pending, shown, grant, ctx, call, caller, script, used>>

\* ALAS counts a battle when it sees that one it saw is over and its enemy
\* gone, after the click it has a receipt for.
Counted ==
    /\ ctx # None /\ ctx.receipt
    /\ shown.battle /\ ~game.battle
    /\ shown.map.fleet \notin game.map.enemies

Publish ==
    /\ shown # game \/ (call # None /\ ~call.later)
    /\ shown' = game
    /\ call' = IF call = None THEN None ELSE [call EXCEPT !.later = TRUE]
    /\ past' = IF Counted THEN [past EXCEPT !.seen = @ + 1] ELSE past
    /\ UNCHANGED <<game, pending, grant, ctx, caller, script, used>>

-----------------------------------------------------------------------------
(* Invocations.                                                            *)

\* Mutant: the proxy of the continuation passes the grid click on.
StepsWithTap ==
    [alas     |-> {"map", "admit"},
     position |-> {"map", "place", "arm", "drop", "swipe", "camera", "complete"},
     decide   |-> {"map", "admit"},
     goto     |-> {"arm", "drop", "swipe", "camera", "recheck", "tap"}]

\* What the script, or ALAS under it, calls at each of its stages.
Steps ==
    [alas     |-> {"map", "admit"},
     position |-> {"map", "place", "arm", "drop", "swipe", "camera", "complete"},
     decide   |-> {"map", "admit"},
     goto     |-> {"arm", "drop", "swipe", "camera", "recheck"}]

May(op) ==
    /\ caller = "running" /\ ctx # None /\ call = None
    /\ ctx.armed => op \in {"drop", "swipe"}
    /\ \/ script.stage = "off"
       \/ script.stage \in DOMAIN Steps /\ op \in Steps[script.stage]

Logged(op) ==
    IF script.stage \in {"position", "goto"}
    THEN [script EXCEPT !.log = Append(@, op)] ELSE script

Occurrences(e) == Len(SelectSeq(script.log, LAMBDA x : x = e))

Begin ==
    /\ ctx = None /\ caller = "running"
    /\ script.stage \in {"off", "alas"}
    /\ past.invocations < MaxInvocations
    /\ ctx' = Fresh(grant)
    /\ used' = Zero
    /\ past' = [past EXCEPT !.invocations = @ + 1, !.ignored = FALSE]
    /\ UNCHANGED <<game, pending, shown, grant, call, caller, script>>

\* The finally clause of CampaignRun.run().
End ==
    /\ ctx # None /\ call = None
    /\ caller = "leaving" \/ script.stage \in {"off", "done"}
    /\ ctx' = None
    /\ caller' = "running"
    /\ UNCHANGED <<game, pending, shown, grant, call, script, used, past>>

\* An exception reaches the caller.  ALAS may also go on as if nothing had
\* happened; the script lets every exception through.
Raised(from) ==
    \/ /\ caller' = "leaving"
       /\ script' = IF from.stage = "off" THEN from
                    ELSE [from EXCEPT !.stage = "failed"]
       /\ UNCHANGED past
    \/ /\ script.stage = "off"
       /\ past' = [past EXCEPT !.ignored = TRUE]
       /\ UNCHANGED <<caller, script>>

CallRaises ==
    /\ call # None
    /\ call' = None
    /\ ctx' = [ctx EXCEPT !.armed = FALSE]
    /\ Raised(script)
    /\ UNCHANGED <<game, pending, shown, grant, used>>

\* A call that refuses at once: nothing changed but the caller.
Refuses ==
    /\ caller = "running" /\ ctx # None /\ call = None
    /\ script.stage \notin {"off", "done"}
    /\ ctx' = [ctx EXCEPT !.armed = FALSE]
    /\ Raised(script)
    /\ UNCHANGED <<game, pending, shown, grant, call, used>>

-----------------------------------------------------------------------------
(* Looking at the map: two reads with the same logical map, the second     *)
(* later than the first.                                                   *)

Begins(op) == call' = [op |-> op, first |-> shown.map, later |-> FALSE]

ReadAgain ==
    /\ call # None /\ call.op \in {"map", "camera", "confirm", "swiped"}
    /\ call.later /\ shown.map # call.first
    /\ ~shown.battle
    /\ call' = [call EXCEPT !.first = shown.map, !.later = FALSE]
    /\ UNCHANGED <<game, pending, shown, grant, ctx, caller, script, used, past>>

Stable(op) ==
    /\ call # None /\ call.op = op
    /\ call.later /\ shown.map = call.first
    /\ ~shown.battle

BeginMap ==
    /\ May("map") /\ ~shown.battle
    /\ Begins("map")
    /\ UNCHANGED <<game, pending, shown, grant, ctx, caller, script, used, past>>

\* campaign_map_state().
EndMap ==
    /\ Stable("map")
    /\ ctx' = [ctx EXCEPT !.map = StateOf(shown)]
    /\ call' = None
    /\ UNCHANGED <<game, pending, shown, grant, caller, script, used, past>>

BeginCamera ==
    /\ May("camera") /\ ctx.map # None /\ ~shown.battle
    /\ script.stage # "off" => Occurrences("update") < Occurrences("swipe")
    /\ Begins("camera")
    /\ UNCHANGED <<game, pending, shown, grant, ctx, caller, script, used, past>>

\* campaign_camera_state(), called by ALAS's own Camera.update().
EndCamera ==
    /\ Stable("camera")
    /\ \A known \in {ctx.map, ctx.admission, ctx.placing} \ {None} :
          known.map = shown.map
    /\ ctx' = [ctx EXCEPT !.map = StateOf(shown)]
    /\ script' = Logged("update")
    /\ call' = None
    /\ UNCHANGED <<game, pending, shown, grant, caller, used, past>>

\* _campaign_map_cell_target(): a fresh look finds the cell where the map
\* state has it, and, for an input, with nothing above it.
Found == ~shown.battle /\ shown.view = ctx.map.view
OnTop(n) == Found /\ shown.view \in Exposed[n]

-----------------------------------------------------------------------------
(* Admissions.                                                             *)

Admits(n) == [target |-> n, map |-> ctx.map.map, view |-> ctx.map.view]

\* authorize_campaign_camera_positioning().
AuthorizePositioning(n) ==
    /\ May("place")
    /\ ctx.positioning \in 1 .. 2
    /\ ctx.map # None /\ ctx.placing = None /\ ctx.placed = 0 /\ ~ctx.completed
    /\ ~ctx.armed /\ ctx.admission = None /\ ~ctx.receipt
    /\ n \notin ctx.map.map.enemies \cup {ctx.map.map.fleet}
    /\ Found
    /\ ctx' = [ctx EXCEPT !.placing = Admits(n)]
    /\ UNCHANGED <<game, pending, shown, grant, call, caller, script, used, past>>

\* prepare_alas_campaign_combat_admission().  A route is taken to exist; the
\* enemy that is being fought is the one on the cell of the fleet.
Prepared(n) == n \in ctx.map.map.enemies /\ ctx.map.map.ammo > 0

\* authorize_campaign_combat(), for the decision of ALAS.
AuthorizeCombat(n) ==
    /\ May("admit")
    /\ ctx.combat = 1
    /\ ctx.admission = None /\ ~ctx.receipt /\ ctx.proof = None
    /\ ctx.map # None
    /\ Found
    /\ OnTop(n) \/ ctx.viewport = 1
    /\ Prepared(n)
    /\ script.stage = "decide" => n = script.target
    /\ ctx' = [ctx EXCEPT !.admission = Admits(n), !.required = ctx.viewport = 1]
    /\ past' = [past EXCEPT !.won = <<>>, !.seen = 0]
    /\ script' = IF script.stage = "decide"
                 THEN [script EXCEPT !.stage = "goto", !.log = <<>>] ELSE script
    /\ UNCHANGED <<game, pending, shown, grant, call, caller, used>>

-----------------------------------------------------------------------------
(* Swipes.                                                                 *)

CombatReady ==
    /\ ctx.required /\ ctx.viewport = 1
    /\ ctx.admission # None /\ ctx.placing = None
    /\ ~ctx.moved /\ ~ctx.receipt

PositioningReady ==
    /\ ctx.positioning \in 1 .. 2
    /\ ctx.placing # None /\ ctx.admission = None
    /\ ~ctx.completed /\ ~ctx.receipt

\* swipe_vector(): the intent of one map swipe.  The proxies of the script
\* count it.
Arm ==
    /\ May("arm")
    /\ CombatReady # PositioningReady
    /\ ctx.map # None /\ ~ctx.armed
    /\ Occurrences("swipe") < 2
    /\ ctx' = [ctx EXCEPT !.armed = TRUE]
    /\ script' = Logged("swipe")
    /\ UNCHANGED <<game, pending, shown, grant, call, caller, used, past>>

\* ALAS drops a swipe that is too short, and the intent ends with it.
Drop ==
    /\ May("drop") /\ ctx.armed
    /\ ctx' = [ctx EXCEPT !.armed = FALSE]
    /\ UNCHANGED <<game, pending, shown, grant, call, caller, script, used, past>>

\* swipe(): the unit is spent before the oracle looks for its target.
AskSwipe ==
    /\ May("swipe") /\ ctx.armed
    /\ ctx.map # None
    /\ (ctx.placing = None) # (ctx.admission = None)
    /\ \/ /\ ctx.placing # None /\ ctx.positioning \in 1 .. 2
          /\ ctx' = [ctx EXCEPT !.positioning = @ - 1]
       \/ /\ ctx.placing = None /\ ctx.viewport = 1
          /\ ctx' = [ctx EXCEPT !.viewport = @ - 1]
    /\ Begins("swipe")
    /\ UNCHANGED <<game, pending, shown, grant, caller, script, used, past>>

\* campaign_map_viewport_swipe(): the last look before the gesture.
AimSwipe ==
    /\ call # None /\ call.op = "swipe"
    /\ Found
    /\ Begins("swiping")
    /\ UNCHANGED <<game, pending, shown, grant, ctx, caller, script, used, past>>

SwipeKind == IF ctx.placing # None THEN "positioning" ELSE "viewport"

Make(kind, input) ==
    /\ Len(pending) < MaxPending
    /\ pending' = Append(pending, input)
    /\ used' = [used EXCEPT ![kind] = @ + 1]

Made(kind) ==
    IF script.stage = "off" THEN script ELSE [script EXCEPT !.made[kind] = @ + 1]

Gesture == [kind |-> "swipe", more |-> TRUE]

\* "adb shell input swipe" returns; the map is read again.
InjectSwipe ==
    /\ call # None /\ call.op = "swiping"
    /\ Make(SwipeKind, Gesture)
    /\ Begins("swiped")
    /\ script' = Made(SwipeKind)
    /\ UNCHANGED <<game, shown, grant, ctx, caller, past>>

\* Mutant: a swipe that raises gives its unit back.
SwipeRaisesRefunded ==
    /\ call # None /\ call.op = "swiping"
    /\ Make(SwipeKind, Gesture)
    /\ call' = None
    /\ ctx' = [ctx EXCEPT !.armed = FALSE,
                          !.viewport = IF SwipeKind = "viewport" THEN 1 ELSE @]
    /\ Raised(Made(SwipeKind))
    /\ UNCHANGED <<game, shown, grant>>

SwipeRaisesLate ==
    /\ call # None /\ call.op = "swiping"
    /\ Make(SwipeKind, Gesture)
    /\ call' = None
    /\ ctx' = [ctx EXCEPT !.armed = FALSE]
    /\ Raised(Made(SwipeKind))
    /\ UNCHANGED <<game, shown, grant>>

\* The proof of the swipe: the same logical map, every cell moved, and the
\* target with nothing above it.
EndSwipe ==
    /\ Stable("swiped")
    /\ shown.map = ctx.map.map
    /\ shown.view # ctx.map.view
    /\ LET leased == IF ctx.placing # None THEN ctx.placing ELSE ctx.admission
       IN  shown.view \in Exposed[leased.target]
    /\ ctx' = IF ctx.placing # None
              THEN [ctx EXCEPT !.map = StateOf(shown), !.armed = FALSE,
                               !.placed = @ + 1]
              ELSE [ctx EXCEPT !.map = StateOf(shown), !.armed = FALSE,
                               !.moved = TRUE, !.required = FALSE,
                               !.admission.view = shown.view]
    /\ call' = None
    /\ UNCHANGED <<game, pending, shown, grant, caller, script, used, past>>

\* complete_campaign_camera_positioning(), after as many updates as swipes.
CompletePositioning ==
    /\ May("complete")
    /\ ctx.placing # None /\ ~ctx.completed /\ ctx.placed \in 1 .. 2
    /\ ctx.map.map = ctx.placing.map
    /\ OnTop(ctx.placing.target)
    /\ ctx' = [ctx EXCEPT !.positioning = 0, !.completed = TRUE]
    /\ UNCHANGED <<game, pending, shown, grant, call, caller, script, used, past>>

\* recheck_campaign_combat_target_after_camera_view(); a second call returns
\* the proof of the first.
Recheck ==
    /\ May("recheck")
    /\ ctx.admission # None /\ ctx.moved /\ ~ctx.rechecked
    /\ ~ctx.required /\ ~ctx.receipt
    /\ ctx.map.map = ctx.admission.map
    /\ OnTop(ctx.admission.target)
    /\ ctx' = [ctx EXCEPT !.admission.view = ctx.map.view, !.rechecked = TRUE]
    /\ script' = Logged("recheck")
    /\ UNCHANGED <<game, pending, shown, grant, call, caller, used, past>>

-----------------------------------------------------------------------------
(* The tap, and the proof of the battle.                                   *)

\* Mutant: the admission alone is taken for the lease.
AskTapAgain ==
    /\ May("tap")
    /\ ctx.admission # None /\ ctx.map # None
    /\ ~ctx.required
    /\ ctx.moved => ctx.rechecked
    /\ OnTop(ctx.admission.target)
    /\ used["combat"] < 2
    /\ Begins("tap")
    /\ UNCHANGED <<game, pending, shown, grant, ctx, caller, script, used, past>>

\* click_campaign_combat_grid() up to the oracle's last look.
AskTap ==
    /\ May("tap")
    /\ ctx.admission # None /\ ctx.map # None
    /\ ~ctx.required
    /\ ctx.moved => ctx.rechecked
    /\ ctx.combat = 1 /\ ~ctx.receipt
    /\ OnTop(ctx.admission.target)
    /\ used["combat"] < 2     \* bound, met only after an ignored exception
    /\ Begins("tap")
    /\ UNCHANGED <<game, pending, shown, grant, ctx, caller, script, used, past>>

TheTap == [kind |-> "tap", node |-> ctx.admission.target, view |-> ctx.map.view]

\* The tap is booked; then its point is compared with the admitted one.
TapReturns ==
    /\ call # None /\ call.op = "tap"
    /\ Make("combat", TheTap)
    /\ ctx' = [ctx EXCEPT !.combat = @ - 1, !.receipt = TRUE]
    /\ call' = None
    /\ IF ctx.admission.view = ctx.map.view
       THEN script' = Made("combat") /\ UNCHANGED <<caller, past>>
       ELSE Raised(Made("combat"))
    /\ UNCHANGED <<game, shown, grant>>

TapRaisesLate ==
    /\ call # None /\ call.op = "tap"
    /\ Make("combat", TheTap)
    /\ call' = None
    /\ Raised(Made("combat"))
    /\ UNCHANGED <<game, shown, grant, ctx>>

BeginConfirm ==
    /\ May("confirm")
    /\ ctx.proof = None /\ ctx.admission # None /\ ctx.receipt
    /\ ~shown.battle
    /\ Begins("confirm")
    /\ UNCHANGED <<game, pending, shown, grant, ctx, caller, script, used, past>>

\* Mutant: the enemy is not looked for.
ProvenByFleet ==
    /\ past.seen = 1
    /\ shown.map.fleet = ctx.admission.target
    /\ shown.map.ammo = ctx.admission.map.ammo - 1

\* prove_alas_campaign_combat_transition(), with the count of ALAS.
Proven ==
    /\ past.seen = 1
    /\ ctx.admission.target \notin shown.map.enemies
    /\ shown.map.fleet = ctx.admission.target
    /\ shown.map.ammo = ctx.admission.map.ammo - 1

EndConfirm ==
    /\ Stable("confirm")
    /\ Proven
    /\ ctx' = [ctx EXCEPT !.map = StateOf(shown), !.proof = ctx.admission.target]
    /\ call' = None
    /\ UNCHANGED <<game, pending, shown, grant, caller, script, used, past>>

-----------------------------------------------------------------------------
(* qualify_viewport(): in the place of the goto preview of a first flow,   *)
(* a flow that positions the camera, and a flow that decides again and     *)
(* runs the original _goto() up to its grid click.                         *)

Flow(stage) ==
    /\ caller = "running" /\ ctx # None /\ call = None /\ ~ctx.armed
    /\ ctx' = Fresh(grant)
    /\ used' = Zero
    /\ past' = [past EXCEPT !.ignored = FALSE]
    /\ script' = [script EXCEPT !.stage = stage, !.log = <<>>,
                                !.target = IF stage = "position"
                                           THEN ctx.admission.target ELSE @]
    /\ UNCHANGED <<game, pending, shown, grant, call, caller>>

EnterPositioning ==
    /\ script.stage = "alas" /\ ctx # None /\ ctx.admission # None
    /\ Flow("position")

\* position_alas_campaign_camera_for_qualification() returns.
EnterDecision ==
    /\ script.stage = "position" /\ ctx.completed
    /\ Occurrences("swipe") = ctx.placed /\ Occurrences("update") = ctx.placed
    /\ Flow("decide")

\* What the continuation asks before it returns: one swipe, one update of the
\* camera, one recheck, in this order, and no grid tap.
Continued ==
    /\ script.log = <<"swipe", "update", "recheck">>
    /\ ctx.moved /\ ~ctx.receipt

\* The proxy's click() keeps the grid to itself, and the continuation returns.
Capture ==
    /\ script.stage = "goto"
    /\ caller = "running" /\ call = None /\ ~ctx.armed
    /\ ctx.admission.view = ctx.map.view
    /\ Continued
    /\ script' = [script EXCEPT !.stage = "done"]
    /\ UNCHANGED <<game, pending, shown, grant, ctx, call, caller, used, past>>

-----------------------------------------------------------------------------
Observing == BeginMap \/ EndMap \/ BeginCamera \/ EndCamera \/ ReadAgain

Admitting ==
    \E n \in Nodes : AuthorizePositioning(n) \/ AuthorizeCombat(n)

Swiping ==
    \/ Arm \/ Drop \/ AskSwipe \/ AimSwipe \/ InjectSwipe \/ SwipeRaisesLate
    \/ EndSwipe \/ CompletePositioning

Tapping ==
    \/ Recheck \/ AskTap \/ TapReturns \/ TapRaisesLate
    \/ BeginConfirm \/ EndConfirm

Scripted == EnterPositioning \/ EnterDecision \/ Capture

Environment == HandleSwipe \/ HandleTap \/ BattleEnds \/ Publish

Next ==
    \/ Environment \/ Begin \/ End \/ CallRaises \/ Refuses
    \/ Observing \/ Admitting \/ Swiping \/ Tapping \/ Scripted

Spec == Init /\ [][Next]_vars

-----------------------------------------------------------------------------
(* Properties.                                                             *)

\* Every variable has its type.
TypeOK ==
    /\ game \in Games /\ shown \in Games
    /\ pending \in Seq(Inputs) /\ Len(pending) <= MaxPending
    /\ grant \in Grants
    /\ ctx \in Contexts \cup {None}
    /\ call \in Calls \cup {None}
    /\ call # None => ctx # None
    /\ caller \in {"running", "leaving"}
    /\ script.stage \in Stages /\ script.target \in Nodes \cup {None}
    /\ script.made \in [Kinds -> Nat]
    /\ script.log \in Seq({"swipe", "update", "recheck"})
    /\ used \in [Kinds -> Nat]
    /\ past.invocations \in 0 .. MaxInvocations /\ past.ignored \in BOOLEAN
    /\ past.won \in Seq(Enemies) /\ past.seen \in Nat

\* However calls are ordered, refused or fail, the game gets no more swipes in
\* an invocation than its budget granted, even from a caller that ignores
\* exceptions, and never one to an empty cell as well as one for a battle.  The
\* grid tap is booked after it was made: one more than granted needs a caller
\* that ignores that it was reported as failed.
LeasesKept ==
    /\ used["viewport"] <= grant["viewport"]
    /\ used["positioning"] <= grant["positioning"]
    /\ used["viewport"] = 0 \/ used["positioning"] = 0
    /\ used["combat"] <= grant["combat"] \/ past.ignored

\* A combat proof stands for a battle that was won since the admission, and,
\* where the fleet had more ammunition than that battle took, for one on the
\* admitted cell: whatever was still on its way from an earlier flow, wherever
\* a moving camera took the tap, and although the enemy may have been left and
\* met again.  Ammunition that has run out does not tell one battle from two.
ProofIsOfBattle ==
    ctx # None /\ ctx.proof # None =>
        /\ past.won # <<>>
        /\ ctx.admission.map.ammo > 1 => Head(past.won) = ctx.proof

\* The qualification script makes no grid tap, at most one camera swipe for the
\* enemy and at most two to position the camera, in all its flows together and
\* wherever it fails; and when it returns its continuation, the enemy was
\* rechecked after the one swipe.
PreviewOnly ==
    /\ script.made["combat"] = 0
    /\ script.made["viewport"] <= 1
    /\ script.made["positioning"] <= 2
    /\ script.stage = "done" =>
          /\ script.made["viewport"] = 1 /\ script.made["positioning"] >= 1
          /\ ctx # None => ctx.rechecked /\ ctx.admission.target = script.target
=============================================================================
