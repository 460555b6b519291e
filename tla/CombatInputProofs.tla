------------------------- MODULE CombatInputProofs --------------------------
(***************************************************************************)
(* Theorems about CombatInput: every variable has its type, the three      *)
(* leases of a campaign invocation are kept, the qualification script only *)
(* previews a battle, and a combat proof stands for one, for any map, any  *)
(* views, any budgets and any number of invocations.                       *)
(***************************************************************************)
EXTENDS CombatInput, TLAPS

-----------------------------------------------------------------------------
(* The invariant.                                                          *)

Scripts == [stage : Stages, log : Seq({"swipe", "update", "recheck"}),
            target : Nodes \cup {None}, made : [Kinds -> Nat]]
Pasts   == [invocations : 0 .. MaxInvocations, won : Seq(Enemies), seen : Nat,
            ignored : BOOLEAN]

\* A fleet in a battle is on the cell of the enemy.
Fought(g) == g.battle => g.map.fleet \in g.map.enemies

\* A call is made in a flow whose caller has seen no exception that it heeds,
\* and what it acts on is there until it returns.
CallFits ==
    call # None =>
        /\ ctx # None /\ caller = "running"
        /\ call.op = "tap" => ctx.combat = 1 /\ ctx.admission # None
        /\ call.op = "confirm" => ctx.admission # None
        /\ call.op \in {"swipe", "swiping", "swiped"} =>
               (ctx.placing = None) # (ctx.admission = None)

\* Nothing is admitted on a map that has not been read.
AdmittedOnMap ==
    ctx # None /\ (ctx.admission # None \/ ctx.placing # None) => ctx.map # None

Shape ==
    /\ game \in Games /\ shown \in Games /\ Fought(game)
    /\ pending \in Seq(Inputs) /\ Len(pending) <= MaxPending
    /\ grant \in Grants
    /\ ctx \in Contexts \cup {None} /\ call \in Calls \cup {None}
    /\ caller \in {"running", "leaving"}
    /\ script \in Scripts /\ used \in [Kinds -> Nat] /\ past \in Pasts
    /\ CallFits /\ AdmittedOnMap

\* A swipe that has been paid for and has not reached the game; and one that
\* has not been proven.
Flying(kind) ==
    IF call # None /\ call.op \in {"swipe", "swiping"} /\ SwipeKind = kind THEN 1 ELSE 0
Unproven ==
    IF call # None /\ call.op \in {"swipe", "swiping", "swiped"} /\ ctx.placing # None
    THEN 1 ELSE 0

SwipesFunded ==
    \A kind \in {"viewport", "positioning"} :
        used[kind] + ctx[kind] + Flying(kind) <= grant[kind]

\* A swipe for a battle needs an admission and no positioning, and no
\* positioning begins after an admission.
SwipesApart ==
    /\ used["viewport"] > 0 => ctx.placing = None /\ ctx.admission # None
    /\ used["positioning"] > 0 => ctx.placing # None

PlacedWithin == ctx.placed + ctx.positioning + Unproven <= 2

\* The tap is booked after it was made, so its unit is there until then; if it
\* raised, the caller leaves or has ignored it.
TapFunded ==
    \/ past.ignored
    \/ IF caller = "running" THEN used["combat"] + ctx.combat <= grant["combat"]
                             ELSE used["combat"] <= grant["combat"]

Ledger == ctx # None => SwipesFunded /\ SwipesApart /\ PlacedWithin /\ TapFunded

Kept == Shape /\ Ledger /\ LeasesKept

-----------------------------------------------------------------------------
(* The invariant holds at first.                                           *)

LEMMA InitKept == Init => Kept
<1>1. SUFFICES ASSUME Init PROVE Kept
    OBVIOUS
<1>2. PICK v \in Views, n \in Seas :
          game = [view |-> v, battle |-> FALSE,
                  map |-> [enemies |-> Enemies, fleet |-> n, ammo |-> Ammo]]
    BY <1>1 DEF Init
<1>3. game \in Games /\ Fought(game)
    BY <1>2, CellsAssumption DEF Games, Maps, Nodes, Fought
<1>4. Zero \in [Kinds -> Nat] /\ \A k \in Kinds : Zero[k] = 0
    BY DEF Zero
<1>5. script \in Scripts
  <2>1. script \in [stage : {"off", "alas"}, log : {<<>>}, target : {None},
                    made : {Zero}]
      BY <1>1 DEF Init
  <2>2. <<>> \in Seq({"swipe", "update", "recheck"})
      OBVIOUS
  <2>3. {"off", "alas"} \subseteq Stages
      BY DEF Stages
  <2> HIDE DEF Zero, Stages
  <2> QED
      BY <1>4, <2>1, <2>2, <2>3 DEF Scripts
<1>6. past \in Pasts
    BY <1>1, CellsAssumption DEF Init, Pasts
<1>7. pending \in Seq(Inputs) /\ Len(pending) <= MaxPending
    BY <1>1, CellsAssumption DEF Init
<1>8. Shape
    BY <1>1, <1>3, <1>4, <1>5, <1>6, <1>7 DEF Init, Shape, CallFits, AdmittedOnMap
<1>9. Ledger
    BY <1>1 DEF Init, Ledger
<1>10. LeasesKept
    BY <1>1, <1>4, GrantsAssumption DEF Init, LeasesKept, Kinds
<1> QED
    BY <1>8, <1>9, <1>10 DEF Kept

-----------------------------------------------------------------------------
(* The shape: the game and the observer.                                   *)

LEMMA HeadAndTail ==
    ASSUME NEW S, NEW s \in Seq(S), s # <<>>
    PROVE  /\ Head(s) \in S /\ Head(s) = s[1] /\ 1 \in DOMAIN s
           /\ Tail(s) \in Seq(S) /\ Len(Tail(s)) <= Len(s)
OBVIOUS

LEMMA HandleSwipeShape == ASSUME Shape, HandleSwipe PROVE Shape'
<1>1. game' \in Games /\ Fought(game')
  <2>1. CASE UNCHANGED game
      BY <2>1 DEF Shape, Fought
  <2>2. ASSUME NEW v \in Views, game' = [game EXCEPT !.view = v]
        PROVE  game' \in Games /\ Fought(game')
      BY <2>2 DEF Shape, Games, Fought
  <2> QED
      BY <2>1, <2>2 DEF HandleSwipe
<1>2. pending' \in Seq(Inputs) /\ Len(pending') <= MaxPending
  <2>1. CASE pending' = Tail(pending)
    <3>1. Len(pending) \in Nat /\ Len(Tail(pending)) \in Nat
        BY HeadAndTail DEF HandleSwipe, Shape
    <3> QED
        BY <2>1, <3>1, HeadAndTail, CellsAssumption DEF HandleSwipe, Shape
  <2>2. CASE pending' = [pending EXCEPT ![1].more = FALSE]
    <3>1. pending[1] \in Inputs /\ pending[1].kind = "swipe" /\ 1 \in DOMAIN pending
        BY HeadAndTail DEF HandleSwipe, Shape
    <3>2. pending[1] \in [kind : {"swipe"}, more : BOOLEAN]
        BY <3>1 DEF Inputs
    <3>3. [pending[1] EXCEPT !.more = FALSE] \in Inputs
        BY <3>2 DEF Inputs
    <3>4. pending' = [pending EXCEPT ![1] = [pending[1] EXCEPT !.more = FALSE]]
        BY <2>2
    <3> QED
        BY <3>1, <3>3, <3>4, CellsAssumption DEF Shape
  <2> QED
      BY <2>1, <2>2 DEF HandleSwipe
<1> QED
    BY <1>1, <1>2 DEF HandleSwipe, Shape, CallFits, AdmittedOnMap

LEMMA HandleTapShape == ASSUME Shape, HandleTap PROVE Shape'
<1>1. pending' \in Seq(Inputs) /\ Len(pending') <= MaxPending
  <2>1. pending \in Seq(Inputs) /\ Len(pending) <= MaxPending
      BY DEF Shape
  <2>2. pending # <<>> /\ pending' = Tail(pending)
      BY DEF HandleTap
  <2>3. Len(pending) \in Nat /\ Len(Tail(pending)) \in Nat
      BY <2>1, <2>2, HeadAndTail
  <2> QED
      BY <2>1, <2>2, <2>3, HeadAndTail, CellsAssumption
<1>2. Head(pending) \in [kind : {"tap"}, node : Nodes, view : Views]
  <2>1. Head(pending) \in Inputs /\ Head(pending).kind = "tap"
      BY HeadAndTail DEF HandleTap, Shape
  <2> QED
      BY <2>1 DEF Inputs
<1>3. game' \in Games /\ Fought(game')
  <2>1. CASE UNCHANGED game
      BY <2>1 DEF Shape, Fought
  <2>2. ASSUME NEW n \in Under(Head(pending)),
               game' = [game EXCEPT !.map.fleet = n,
                                    !.battle = n \in game.map.enemies]
        PROVE  game' \in Games /\ Fought(game')
    <3>1. n \in Nodes
        BY <1>2, <2>2 DEF Under
    <3> DEFINE hit == n \in game.map.enemies
    <3>2. hit \in BOOLEAN
        OBVIOUS
    <3>3. game' = [game EXCEPT !.map.fleet = n, !.battle = hit]
        BY <2>2
    <3>4. game'.map.fleet = n /\ game'.map.enemies = game.map.enemies
          /\ game'.battle = hit
        BY <3>3 DEF Shape, Games, Maps
    <3>5. Fought(game')
        BY <3>4 DEF Fought
    <3>6. game' \in Games
      <4> HIDE DEF hit
      <4> QED
          BY <3>1, <3>2, <3>3 DEF Shape, Games, Maps
    <3> QED
        BY <3>5, <3>6
  <2> QED
      BY <2>1, <2>2 DEF HandleTap
<1> QED
    BY <1>1, <1>3 DEF HandleTap, Shape, CallFits, AdmittedOnMap

LEMMA BattleEndsShape == ASSUME Shape, BattleEnds PROVE Shape'
<1>1. game.map.fleet \in Enemies /\ game.map.ammo \in Nat
    BY CellsAssumption DEF BattleEnds, Shape, Fought, Games, Maps
<1>2. game' \in Games /\ Fought(game')
  <2>1. CASE game' = [game EXCEPT !.battle = FALSE]
      BY <2>1 DEF Shape, Games, Fought
  <2>2. CASE game' = [game EXCEPT !.battle = FALSE,
                                  !.map.enemies = @ \ {game.map.fleet},
                                  !.map.ammo = IF @ > 0 THEN @ - 1 ELSE 0]
    <3>1. game' = [view |-> game.view, battle |-> FALSE,
                   map |-> [enemies |-> game.map.enemies \ {game.map.fleet},
                            fleet |-> game.map.fleet,
                            ammo |-> IF game.map.ammo > 0 THEN game.map.ammo - 1
                                                          ELSE 0]]
        BY <2>2 DEF Shape, Games, Maps
    <3>2. (IF game.map.ammo > 0 THEN game.map.ammo - 1 ELSE 0) \in 0 .. Ammo
        BY <1>1, CellsAssumption DEF Shape, Games, Maps
    <3> QED
        BY <3>1, <3>2 DEF Shape, Games, Maps, Fought
  <2> QED
      BY <2>1, <2>2 DEF BattleEnds
<1>3. past' \in Pasts
  <2>1. CASE UNCHANGED past
      BY <2>1 DEF Shape
  <2>2. CASE past' = [past EXCEPT !.won = Append(@, game.map.fleet)]
    <3>1. Append(past.won, game.map.fleet) \in Seq(Enemies)
        BY <1>1 DEF Shape, Pasts
    <3> QED
        BY <2>2, <3>1 DEF Shape, Pasts
  <2> QED
      BY <2>1, <2>2 DEF BattleEnds
<1> QED
    BY <1>2, <1>3 DEF BattleEnds, Shape, CallFits, AdmittedOnMap

LEMMA PublishShape == ASSUME Shape, Publish PROVE Shape'
<1>1. call' \in Calls \cup {None}
    BY DEF Publish, Shape, Calls
<1>2. call # None => call'.op = call.op
    BY DEF Publish, Shape, Calls
<1>3. call = None => call' = None
    BY DEF Publish
<1>4. CallFits'
    BY <1>2, <1>3 DEF Publish, Shape, CallFits
<1>5. past' \in Pasts
  <2>1. past \in Pasts /\ past.seen + 1 \in Nat
      BY DEF Shape, Pasts
  <2>2. past' = past \/ past' = [past EXCEPT !.seen = past.seen + 1]
      BY DEF Publish
  <2> QED
      BY <2>1, <2>2 DEF Pasts
<1> QED
    BY <1>1, <1>4, <1>5 DEF Publish, Shape, Fought, AdmittedOnMap

-----------------------------------------------------------------------------
(* The shape: invocations, and exceptions.                                 *)

LEMMA FreshFits == ASSUME NEW g \in Grants PROVE Fresh(g) \in Contexts
<1>1. g["combat"] \in 0 .. 1 /\ g["viewport"] \in 0 .. 1 /\ g["positioning"] \in 0 .. 2
    BY GrantsAssumption DEF Kinds
<1> QED
    BY <1>1 DEF Fresh, Contexts

LEMMA ZeroFits == Zero \in [Kinds -> Nat] /\ \A k \in Kinds : Zero[k] = 0
BY DEF Zero

LEMMA BeginShape == ASSUME Shape, Begin PROVE Shape'
<1>1. ctx' = Fresh(grant) /\ ctx' \in Contexts /\ ctx' # None
    BY FreshFits, NoneAssumption DEF Begin, Shape
<1>2. ctx'.admission = None /\ ctx'.placing = None
    BY <1>1 DEF Fresh
<1>3. past' \in Pasts
  <2>1. past.invocations + 1 \in 0 .. MaxInvocations
      BY CellsAssumption DEF Begin, Shape, Pasts
  <2> QED
      BY <2>1 DEF Begin, Shape, Pasts
<1>4. call = None
  <2>1. ctx = None
      BY DEF Begin
  <2> QED
      BY <2>1 DEF Shape, CallFits
<1>5. CallFits' /\ AdmittedOnMap'
    BY <1>1, <1>2, <1>4 DEF Begin, CallFits, AdmittedOnMap
<1> QED
    BY <1>1, <1>3, <1>5, ZeroFits DEF Begin, Shape

LEMMA EndShape == ASSUME Shape, End PROVE Shape'
BY DEF End, Shape, CallFits, AdmittedOnMap

\* What an exception leaves of the caller, the script and the history.
LEMMA RaisedShape ==
    ASSUME NEW from \in Scripts, past \in Pasts, caller = "running",
           script \in Scripts, Raised(from)
    PROVE  /\ caller' \in {"running", "leaving"}
           /\ script' \in Scripts /\ past' \in Pasts
           /\ caller' = "leaving" \/ past'.ignored
           /\ past.ignored => past'.ignored
<1>1. CASE /\ caller' = "leaving"
           /\ script' = IF from.stage = "off" THEN from
                        ELSE [from EXCEPT !.stage = "failed"]
           /\ UNCHANGED past
    BY <1>1 DEF Scripts, Stages
<1>2. CASE /\ script.stage = "off"
           /\ past' = [past EXCEPT !.ignored = TRUE]
           /\ UNCHANGED <<caller, script>>
    BY <1>2 DEF Pasts
<1> QED
    BY <1>1, <1>2 DEF Raised

\* The swipe intent ends with the call.
LEMMA DisarmFits ==
    ASSUME NEW c \in Contexts
    PROVE  /\ [c EXCEPT !.armed = FALSE] \in Contexts
           /\ [c EXCEPT !.armed = FALSE].admission = c.admission
           /\ [c EXCEPT !.armed = FALSE].placing = c.placing
           /\ [c EXCEPT !.armed = FALSE].map = c.map
BY DEF Contexts

LEMMA CallRaisesShape == ASSUME Shape, CallRaises PROVE Shape'
<1>1. ctx \in Contexts /\ caller = "running"
    BY DEF CallRaises, Shape, CallFits
<1>2. ctx' = [ctx EXCEPT !.armed = FALSE]
    BY DEF CallRaises
<1>3. ctx' \in Contexts /\ AdmittedOnMap'
    BY <1>1, <1>2, DisarmFits, NoneAssumption DEF Shape, AdmittedOnMap
<1>4. caller' \in {"running", "leaving"} /\ script' \in Scripts /\ past' \in Pasts
    BY <1>1, RaisedShape DEF CallRaises, Shape
<1> QED
    BY <1>3, <1>4 DEF CallRaises, Shape, CallFits

LEMMA RefusesShape == ASSUME Shape, Refuses PROVE Shape'
<1>1. ctx \in Contexts /\ caller = "running"
    BY DEF Refuses, Shape
<1>2. ctx' = [ctx EXCEPT !.armed = FALSE]
    BY DEF Refuses
<1>3. ctx' \in Contexts /\ AdmittedOnMap'
    BY <1>1, <1>2, DisarmFits, NoneAssumption DEF Shape, AdmittedOnMap
<1>4. caller' \in {"running", "leaving"} /\ script' \in Scripts /\ past' \in Pasts
    BY <1>1, RaisedShape DEF Refuses, Shape
<1> QED
    BY <1>3, <1>4 DEF Refuses, Shape, CallFits

-----------------------------------------------------------------------------
(* The shape: looking at the map, and admissions.                          *)

\* A call begins with what was shown.
LEMMA BeginsFits ==
    ASSUME Shape,
           NEW op \in {"map", "camera", "confirm", "swipe", "swiping", "swiped",
                       "tap"},
           Begins(op)
    PROVE  call' \in Calls /\ call' # None /\ call'.op = op
<1>1. shown.map \in Maps
    BY DEF Shape, Games
<1>2. call' \in Calls /\ call'.op = op
    BY <1>1 DEF Begins, Calls
<1> QED
    BY <1>2, NoneAssumption

LEMMA ShownFits == ASSUME Shape PROVE StateOf(shown) \in States
BY DEF Shape, Games, StateOf, States

\* The map of the context is replaced by what is shown.
LEMMA MapFits ==
    ASSUME NEW c \in Contexts, NEW s \in States
    PROVE  /\ [c EXCEPT !.map = s] \in Contexts
           /\ [c EXCEPT !.map = s].map = s
BY DEF Contexts

\* The script writes down what it calls.
LEMMA LoggedFits ==
    ASSUME script \in Scripts, NEW op \in {"swipe", "update", "recheck"}
    PROVE  Logged(op) \in Scripts
<1>1. Append(script.log, op) \in Seq({"swipe", "update", "recheck"})
    BY DEF Scripts
<1> QED
    BY <1>1 DEF Scripts, Logged

LEMMA ReadAgainShape == ASSUME Shape, ReadAgain PROVE Shape'
<1>1. call' \in Calls /\ call'.op = call.op /\ call # None
    BY DEF ReadAgain, Shape, Calls, Games
<1>2. CallFits'
    BY <1>1 DEF ReadAgain, Shape, CallFits
<1> QED
    BY <1>1, <1>2 DEF ReadAgain, Shape, AdmittedOnMap

LEMMA BeginMapShape == ASSUME Shape, BeginMap PROVE Shape'
<1>1. call' \in Calls /\ call' # None /\ call'.op = "map"
    BY BeginsFits DEF BeginMap
<1>2. CallFits'
    BY <1>1 DEF BeginMap, May, CallFits
<1> QED
    BY <1>1, <1>2 DEF BeginMap, Shape, AdmittedOnMap

LEMMA BeginCameraShape == ASSUME Shape, BeginCamera PROVE Shape'
<1>1. call' \in Calls /\ call' # None /\ call'.op = "camera"
    BY BeginsFits DEF BeginCamera
<1>2. CallFits'
    BY <1>1 DEF BeginCamera, May, CallFits
<1> QED
    BY <1>1, <1>2 DEF BeginCamera, Shape, AdmittedOnMap

LEMMA EndMapShape == ASSUME Shape, EndMap PROVE Shape'
<1>1. ctx \in Contexts
    BY DEF EndMap, Stable, Shape, CallFits
<1>2. ctx' \in Contexts /\ ctx'.map # None
    BY <1>1, MapFits, ShownFits, NoneAssumption DEF EndMap
<1> QED
    BY <1>2 DEF EndMap, Shape, CallFits, AdmittedOnMap

LEMMA EndCameraShape == ASSUME Shape, EndCamera PROVE Shape'
<1>1. ctx \in Contexts
    BY DEF EndCamera, Stable, Shape, CallFits
<1>2. ctx' \in Contexts /\ ctx'.map # None
    BY <1>1, MapFits, ShownFits, NoneAssumption DEF EndCamera
<1>3. script' \in Scripts
    BY LoggedFits DEF EndCamera, Shape
<1> QED
    BY <1>2, <1>3 DEF EndCamera, Shape, CallFits, AdmittedOnMap

LEMMA AdmitsFits ==
    ASSUME ctx \in Contexts, ctx.map # None, NEW n \in Nodes
    PROVE  Admits(n) \in Admissions /\ Admits(n) # None /\ Admits(n).target = n
<1>1. ctx.map \in States
    BY DEF Contexts
<1>2. Admits(n) \in Admissions /\ Admits(n).target = n
    BY <1>1 DEF Admits, Admissions, States
<1> QED
    BY <1>2, NoneAssumption

LEMMA AuthorizePositioningShape ==
    ASSUME Shape, NEW n \in Nodes, AuthorizePositioning(n) PROVE Shape'
<1>1. ctx \in Contexts /\ ctx.map # None /\ call = None
    BY DEF AuthorizePositioning, May, Shape
<1>2. ctx' \in Contexts /\ ctx'.map = ctx.map
    BY <1>1, AdmitsFits DEF AuthorizePositioning, Contexts
<1> QED
    BY <1>1, <1>2 DEF AuthorizePositioning, Shape, CallFits, AdmittedOnMap

LEMMA AuthorizeCombatShape ==
    ASSUME Shape, NEW n \in Nodes, AuthorizeCombat(n) PROVE Shape'
<1>1. ctx \in Contexts /\ ctx.map # None /\ call = None
    BY DEF AuthorizeCombat, May, Shape
<1>2. ctx' \in Contexts /\ ctx'.map = ctx.map
  <2>1. (ctx.viewport = 1) \in BOOLEAN
      OBVIOUS
  <2>2. ctx' = [ctx EXCEPT !.admission = Admits(n), !.required = ctx.viewport = 1]
      BY DEF AuthorizeCombat
  <2> QED
      BY <1>1, <2>1, <2>2, AdmitsFits DEF Contexts
<1>3. past' \in Pasts
  <2>1. past' = [past EXCEPT !.won = <<>>, !.seen = 0]
      BY DEF AuthorizeCombat
  <2>2. past \in Pasts /\ <<>> \in Seq(Enemies)
      BY DEF Shape
  <2> QED
      BY <2>1, <2>2 DEF Pasts
<1>4. script' \in Scripts
  <2>1. script' = IF script.stage = "decide"
                  THEN [script EXCEPT !.stage = "goto", !.log = <<>>] ELSE script
      BY DEF AuthorizeCombat
  <2>2. <<>> \in Seq({"swipe", "update", "recheck"}) /\ "goto" \in Stages
      BY DEF Stages
  <2> HIDE DEF Stages
  <2> QED
      BY <2>1, <2>2 DEF Shape, Scripts
<1> QED
    BY <1>1, <1>2, <1>3, <1>4 DEF AuthorizeCombat, Shape, CallFits, AdmittedOnMap

-----------------------------------------------------------------------------
(* The shape: swipes.                                                      *)

LEMMA ArmShape == ASSUME Shape, Arm PROVE Shape'
<1>1. ctx \in Contexts /\ call = None /\ ctx' = [ctx EXCEPT !.armed = TRUE]
    BY DEF Arm, May, Shape
<1>2. ctx' \in Contexts /\ ctx'.admission = ctx.admission
      /\ ctx'.placing = ctx.placing /\ ctx'.map = ctx.map
    BY <1>1 DEF Contexts
<1>3. script' \in Scripts
    BY LoggedFits DEF Arm, Shape
<1>4. AdmittedOnMap'
    BY <1>1, <1>2, NoneAssumption DEF Shape, AdmittedOnMap
<1> QED
    BY <1>1, <1>2, <1>3, <1>4 DEF Arm, Shape, CallFits

LEMMA DropShape == ASSUME Shape, Drop PROVE Shape'
<1>1. ctx \in Contexts /\ call = None /\ ctx' = [ctx EXCEPT !.armed = FALSE]
    BY DEF Drop, May, Shape
<1>2. ctx' \in Contexts /\ AdmittedOnMap'
    BY <1>1, DisarmFits, NoneAssumption DEF Shape, AdmittedOnMap
<1> QED
    BY <1>1, <1>2 DEF Drop, Shape, CallFits

LEMMA AskSwipeShape == ASSUME Shape, AskSwipe PROVE Shape'
<1>1. ctx \in Contexts /\ (ctx.placing = None) # (ctx.admission = None)
      /\ ctx.map # None /\ caller = "running"
    BY DEF AskSwipe, May, Shape
<1>2. ctx' \in Contexts /\ ctx'.admission = ctx.admission
      /\ ctx'.placing = ctx.placing /\ ctx'.map = ctx.map
  <2>1. CASE /\ ctx.positioning \in 1 .. 2
             /\ ctx' = [ctx EXCEPT !.positioning = @ - 1]
    <3>1. ctx.positioning - 1 \in 0 .. 2
        BY <2>1
    <3> QED
        BY <1>1, <2>1, <3>1 DEF Contexts
  <2>2. CASE ctx.viewport = 1 /\ ctx' = [ctx EXCEPT !.viewport = @ - 1]
    <3>1. ctx.viewport - 1 \in 0 .. 1
        BY <2>2
    <3> QED
        BY <1>1, <2>2, <3>1 DEF Contexts
  <2> QED
      BY <2>1, <2>2 DEF AskSwipe
<1>3. call' \in Calls /\ call'.op = "swipe"
    BY BeginsFits DEF AskSwipe
<1>4. CallFits' /\ AdmittedOnMap'
    BY <1>1, <1>2, <1>3, NoneAssumption DEF AskSwipe, CallFits, AdmittedOnMap
<1> QED
    BY <1>2, <1>3, <1>4 DEF AskSwipe, Shape

LEMMA AimSwipeShape == ASSUME Shape, AimSwipe PROVE Shape'
<1>1. call' \in Calls /\ call'.op = "swiping"
    BY BeginsFits DEF AimSwipe
<1>2. CallFits'
    BY <1>1 DEF AimSwipe, Shape, CallFits
<1> QED
    BY <1>1, <1>2 DEF AimSwipe, Shape, AdmittedOnMap

\* An input that reached the game is on its way there and is counted.
LEMMA MakeFits ==
    ASSUME Shape, NEW kind \in Kinds, NEW input \in Inputs, Make(kind, input)
    PROVE  /\ pending' \in Seq(Inputs) /\ Len(pending') <= MaxPending
           /\ used' \in [Kinds -> Nat]
           /\ used'[kind] = used[kind] + 1
           /\ \A k \in Kinds \ {kind} : used'[k] = used[k]
<1>1. pending \in Seq(Inputs) /\ used \in [Kinds -> Nat]
    BY DEF Shape
<1>2. /\ Len(pending) < MaxPending
      /\ pending' = Append(pending, input)
      /\ used' = [used EXCEPT ![kind] = @ + 1]
    BY DEF Make
<1>3. pending' \in Seq(Inputs) /\ Len(pending') = Len(pending) + 1
      /\ Len(pending) \in Nat
    BY <1>1, <1>2
<1>4. Len(pending') <= MaxPending
    BY <1>2, <1>3, CellsAssumption
<1> QED
    BY <1>1, <1>2, <1>3, <1>4

LEMMA MadeFits ==
    ASSUME Shape, NEW kind \in Kinds PROVE Made(kind) \in Scripts
<1>1. script \in Scripts /\ script.made[kind] + 1 \in Nat
    BY DEF Shape, Scripts
<1> QED
    BY <1>1 DEF Made, Scripts

LEMMA SwipeFits == SwipeKind \in Kinds /\ Gesture \in Inputs
BY DEF SwipeKind, Kinds, Gesture, Inputs

LEMMA InjectSwipeShape == ASSUME Shape, InjectSwipe PROVE Shape'
<1>1. pending' \in Seq(Inputs) /\ Len(pending') <= MaxPending
      /\ used' \in [Kinds -> Nat] /\ script' \in Scripts
    BY SwipeFits, MakeFits, MadeFits DEF InjectSwipe
<1>2. call' \in Calls /\ call'.op = "swiped"
    BY BeginsFits DEF InjectSwipe
<1>3. CallFits'
    BY <1>2 DEF InjectSwipe, Shape, CallFits
<1> QED
    BY <1>1, <1>2, <1>3 DEF InjectSwipe, Shape, AdmittedOnMap

LEMMA SwipeRaisesLateShape == ASSUME Shape, SwipeRaisesLate PROVE Shape'
<1>1. ctx \in Contexts /\ caller = "running"
    BY DEF SwipeRaisesLate, Shape, CallFits
<1>2. pending' \in Seq(Inputs) /\ Len(pending') <= MaxPending
      /\ used' \in [Kinds -> Nat] /\ Made(SwipeKind) \in Scripts
    BY SwipeFits, MakeFits, MadeFits DEF SwipeRaisesLate
<1>3. ctx' = [ctx EXCEPT !.armed = FALSE]
    BY DEF SwipeRaisesLate
<1>4. ctx' \in Contexts /\ AdmittedOnMap'
    BY <1>1, <1>3, DisarmFits, NoneAssumption DEF Shape, AdmittedOnMap
<1>5. caller' \in {"running", "leaving"} /\ script' \in Scripts /\ past' \in Pasts
    BY <1>1, <1>2, RaisedShape DEF SwipeRaisesLate, Shape
<1> QED
    BY <1>2, <1>4, <1>5 DEF SwipeRaisesLate, Shape, CallFits

\* What the proof of a swipe changes in the context.
LEMMA ProvenSwipeFits ==
    ASSUME Shape, PlacedWithin, EndSwipe
    PROVE  /\ ctx \in Contexts /\ ctx' \in Contexts /\ ctx'.map # None
           /\ ctx'.combat = ctx.combat /\ ctx'.viewport = ctx.viewport
           /\ ctx'.positioning = ctx.positioning
           /\ ctx'.placing = ctx.placing
           /\ ctx.admission # None => ctx'.admission # None
           /\ ctx'.placed = IF ctx.placing # None THEN ctx.placed + 1 ELSE ctx.placed
<1>1. ctx \in Contexts /\ call # None /\ call.op = "swiped"
      /\ (ctx.placing = None) # (ctx.admission = None)
    BY DEF EndSwipe, Stable, Shape, CallFits
<1>2. StateOf(shown) \in States /\ StateOf(shown) # None /\ shown.view \in Views
    BY ShownFits, NoneAssumption DEF Shape, Games
<1>3. CASE ctx.placing # None
  <2>1. ctx.placed + 1 \in 0 .. 2
      BY <1>1, <1>3 DEF PlacedWithin, Unproven, Contexts
  <2>2. ctx' = [ctx EXCEPT !.map = StateOf(shown), !.armed = FALSE,
                           !.placed = @ + 1]
      BY <1>3 DEF EndSwipe
  <2> QED
      BY <1>1, <1>2, <1>3, <2>1, <2>2 DEF Contexts
<1>4. CASE ctx.placing = None
  <2>1. ctx' = [ctx EXCEPT !.map = StateOf(shown), !.armed = FALSE,
                           !.moved = TRUE, !.required = FALSE,
                           !.admission.view = shown.view]
      BY <1>4 DEF EndSwipe
  <2>2. ctx.admission \in Admissions
      BY <1>1, <1>4 DEF Contexts
  <2> DEFINE seen == [ctx.admission EXCEPT !.view = shown.view]
  <2>3. seen \in Admissions /\ seen # None
      BY <1>2, <2>2, NoneAssumption DEF Admissions
  <2>4. ctx' = [ctx EXCEPT !.map = StateOf(shown), !.armed = FALSE,
                           !.moved = TRUE, !.required = FALSE, !.admission = seen]
      BY <1>1, <2>1 DEF Contexts
  <2> HIDE DEF seen
  <2> QED
      BY <1>1, <1>2, <1>4, <2>3, <2>4 DEF Contexts
<1> QED
    BY <1>3, <1>4

LEMMA EndSwipeShape == ASSUME Shape, PlacedWithin, EndSwipe PROVE Shape'
<1>1. ctx' \in Contexts /\ ctx'.map # None
    BY ProvenSwipeFits
<1>2. call' = None
    BY DEF EndSwipe
<1> QED
    BY <1>1, <1>2 DEF EndSwipe, Shape, CallFits, AdmittedOnMap

LEMMA CompletePositioningShape == ASSUME Shape, CompletePositioning PROVE Shape'
<1>1. ctx \in Contexts /\ call = None
      /\ ctx' = [ctx EXCEPT !.positioning = 0, !.completed = TRUE]
    BY DEF CompletePositioning, May, Shape
<1>2. ctx' \in Contexts /\ ctx'.admission = ctx.admission
      /\ ctx'.placing = ctx.placing /\ ctx'.map = ctx.map
  <2>1. 0 \in 0 .. 2
      OBVIOUS
  <2> QED
      BY <1>1, <2>1 DEF Contexts
<1>3. AdmittedOnMap'
    BY <1>1, <1>2, NoneAssumption DEF Shape, AdmittedOnMap
<1> QED
    BY <1>1, <1>2, <1>3 DEF CompletePositioning, Shape, CallFits

-----------------------------------------------------------------------------
(* The shape: the tap, the proof of the battle, and the script.            *)

LEMMA RecheckShape == ASSUME Shape, Recheck PROVE Shape'
<1>1. ctx \in Contexts /\ call = None /\ ctx.admission # None /\ ctx.map # None
    BY NoneAssumption DEF Recheck, May, Shape, AdmittedOnMap
<1>2. ctx.admission \in Admissions /\ ctx.map \in States
    BY <1>1 DEF Contexts
<1> DEFINE seen == [ctx.admission EXCEPT !.view = ctx.map.view]
<1>3. seen \in Admissions
    BY <1>2 DEF Admissions, States
<1>4. ctx' = [ctx EXCEPT !.admission = seen, !.rechecked = TRUE]
  <2>1. ctx' = [ctx EXCEPT !.admission.view = ctx.map.view, !.rechecked = TRUE]
      BY DEF Recheck
  <2> QED
      BY <1>1, <2>1 DEF Contexts
<1>5. ctx' \in Contexts /\ ctx'.map = ctx.map
  <2> HIDE DEF seen
  <2> QED
      BY <1>1, <1>3, <1>4 DEF Contexts
<1>6. script' \in Scripts
    BY LoggedFits DEF Recheck, Shape
<1> QED
    BY <1>1, <1>5, <1>6 DEF Recheck, Shape, CallFits, AdmittedOnMap

LEMMA AskTapShape == ASSUME Shape, AskTap PROVE Shape'
<1>1. call' \in Calls /\ call'.op = "tap"
    BY BeginsFits DEF AskTap
<1>2. CallFits'
    BY <1>1 DEF AskTap, May, CallFits
<1> QED
    BY <1>1, <1>2 DEF AskTap, Shape, AdmittedOnMap

\* A tap is made in a flow that has a unit and an admission.
LEMMA TapFits ==
    ASSUME Shape, call # None, call.op = "tap"
    PROVE  /\ ctx \in Contexts /\ caller = "running" /\ TheTap \in Inputs
           /\ ctx.combat = 1 /\ ctx.admission # None
<1>1. ctx \in Contexts /\ caller = "running" /\ ctx.combat = 1
      /\ ctx.admission # None /\ ctx.map # None
    BY NoneAssumption DEF Shape, CallFits, AdmittedOnMap
<1>2. ctx.admission \in Admissions /\ ctx.map \in States
    BY <1>1 DEF Contexts
<1> QED
    BY <1>1, <1>2 DEF TheTap, Inputs, Admissions, States

\* The tap is booked.
LEMMA BookedFits ==
    ASSUME ctx \in Contexts, ctx.combat = 1,
           ctx' = [ctx EXCEPT !.combat = @ - 1, !.receipt = TRUE]
    PROVE  /\ ctx' \in Contexts /\ ctx'.admission = ctx.admission
           /\ ctx'.placing = ctx.placing /\ ctx'.map = ctx.map
           /\ ctx'.combat = 0 /\ ctx'.viewport = ctx.viewport
           /\ ctx'.positioning = ctx.positioning /\ ctx'.placed = ctx.placed
<1>1. ctx.combat - 1 = 0 /\ 0 \in 0 .. 1
    OBVIOUS
<1>2. ctx' = [ctx EXCEPT !.combat = 0, !.receipt = TRUE]
    BY <1>1
<1> QED
    BY <1>1, <1>2 DEF Contexts

LEMMA TapReturnsShape == ASSUME Shape, TapReturns PROVE Shape'
<1>1. ctx \in Contexts /\ caller = "running" /\ TheTap \in Inputs /\ ctx.combat = 1
    BY TapFits DEF TapReturns
<1>2. pending' \in Seq(Inputs) /\ Len(pending') <= MaxPending
      /\ used' \in [Kinds -> Nat] /\ Made("combat") \in Scripts
    BY <1>1, MakeFits, MadeFits DEF TapReturns, Kinds
<1>3. ctx' \in Contexts /\ AdmittedOnMap'
    BY <1>1, BookedFits, NoneAssumption DEF TapReturns, Shape, AdmittedOnMap
<1>4. caller' \in {"running", "leaving"} /\ script' \in Scripts /\ past' \in Pasts
  <2>1. CASE ctx.admission.view = ctx.map.view
      BY <1>2, <2>1 DEF TapReturns, Shape
  <2>2. CASE ctx.admission.view # ctx.map.view
      BY <1>1, <1>2, <2>2, RaisedShape DEF TapReturns, Shape
  <2> QED
      BY <2>1, <2>2
<1> QED
    BY <1>2, <1>3, <1>4 DEF TapReturns, Shape, CallFits

LEMMA TapRaisesLateShape == ASSUME Shape, TapRaisesLate PROVE Shape'
<1>1. caller = "running" /\ TheTap \in Inputs
    BY TapFits DEF TapRaisesLate
<1>2. pending' \in Seq(Inputs) /\ Len(pending') <= MaxPending
      /\ used' \in [Kinds -> Nat] /\ Made("combat") \in Scripts
    BY <1>1, MakeFits, MadeFits DEF TapRaisesLate, Kinds
<1>3. caller' \in {"running", "leaving"} /\ script' \in Scripts /\ past' \in Pasts
    BY <1>1, <1>2, RaisedShape DEF TapRaisesLate, Shape
<1> QED
    BY <1>2, <1>3 DEF TapRaisesLate, Shape, CallFits, AdmittedOnMap

LEMMA BeginConfirmShape == ASSUME Shape, BeginConfirm PROVE Shape'
<1>1. call' \in Calls /\ call'.op = "confirm"
    BY BeginsFits DEF BeginConfirm
<1>2. CallFits'
    BY <1>1 DEF BeginConfirm, May, CallFits
<1> QED
    BY <1>1, <1>2 DEF BeginConfirm, Shape, AdmittedOnMap

LEMMA EndConfirmShape == ASSUME Shape, EndConfirm PROVE Shape'
<1>1. ctx \in Contexts /\ ctx.admission # None /\ call' = None
    BY DEF EndConfirm, Stable, Shape, CallFits
<1>2. ctx.admission \in Admissions
    BY <1>1 DEF Contexts
<1>3. ctx.admission.target \in Nodes
    BY <1>2 DEF Admissions
<1>4. ctx' = [ctx EXCEPT !.map = StateOf(shown), !.proof = ctx.admission.target]
    BY DEF EndConfirm
<1>5. StateOf(shown) \in States /\ StateOf(shown) # None
    BY ShownFits, NoneAssumption
<1>6. ctx' \in Contexts /\ ctx'.map # None
    BY <1>1, <1>3, <1>4, <1>5 DEF Contexts
<1> QED
    BY <1>1, <1>6 DEF EndConfirm, Shape, CallFits, AdmittedOnMap

LEMMA FlowShape ==
    ASSUME Shape, NEW stage \in {"position", "decide"}, Flow(stage),
           stage = "position" => ctx.admission # None
    PROVE  Shape'
<1>1. ctx \in Contexts /\ ctx' = Fresh(grant) /\ ctx' \in Contexts /\ ctx' # None
    BY FreshFits, NoneAssumption DEF Flow, Shape
<1>2. ctx'.admission = None /\ ctx'.placing = None
    BY <1>1 DEF Fresh
<1>3. past' \in Pasts
    BY DEF Flow, Shape, Pasts
<1>4. (IF stage = "position" THEN ctx.admission.target ELSE script.target)
          \in Nodes \cup {None}
  <2>1. CASE stage = "position"
    <3>1. ctx.admission \in Admissions
        BY <1>1, <2>1 DEF Contexts
    <3> QED
        BY <2>1, <3>1 DEF Admissions
  <2>2. CASE stage # "position"
      BY <2>2 DEF Shape, Scripts
  <2> QED
      BY <2>1, <2>2
<1>5. script' \in Scripts
  <2>1. script' = [script EXCEPT !.stage = stage, !.log = <<>>,
                                 !.target = IF stage = "position"
                                            THEN ctx.admission.target ELSE @]
      BY DEF Flow
  <2>2. <<>> \in Seq({"swipe", "update", "recheck"}) /\ stage \in Stages
      BY DEF Stages
  <2>3. script \in Scripts
      BY DEF Shape
  <2> HIDE DEF Stages
  <2> QED
      BY <1>4, <2>1, <2>2, <2>3 DEF Scripts
<1>6. call = None /\ call' = None
    BY DEF Flow
<1>7. CallFits' /\ AdmittedOnMap'
    BY <1>1, <1>2, <1>6 DEF CallFits, AdmittedOnMap
<1> QED
    BY <1>1, <1>3, <1>5, <1>7, ZeroFits DEF Flow, Shape

LEMMA CaptureShape == ASSUME Shape, Capture PROVE Shape'
<1>1. script' \in Scripts
    BY DEF Capture, Shape, Scripts, Stages
<1> QED
    BY <1>1 DEF Capture, Shape, CallFits, AdmittedOnMap

-----------------------------------------------------------------------------
(* The ledger: most steps touch none of it.                                *)

LEMMA Amounts ==
    ASSUME Shape
    PROVE  /\ \A k \in Kinds : used[k] \in Nat /\ grant[k] \in Nat
           /\ ctx # None => /\ ctx["combat"] \in Nat /\ ctx["viewport"] \in Nat
                            /\ ctx["positioning"] \in Nat /\ ctx.placed \in Nat
<1>1. ctx # None => ctx \in Contexts
    BY DEF Shape
<1>2. \A k \in Kinds : used[k] \in Nat /\ grant[k] \in Nat
    BY GrantsAssumption DEF Shape
<1>3. ctx # None => /\ ctx.combat \in 0 .. 1 /\ ctx.viewport \in 0 .. 1
                    /\ ctx.positioning \in 0 .. 2 /\ ctx.placed \in 0 .. 2
    BY <1>1 DEF Contexts
<1> QED
    BY <1>2, <1>3

\* With a flow open, the ledger is what keeps the leases.
LEMMA LedgerKeepsLeases == ctx # None /\ Shape /\ Ledger => LeasesKept
<1>1. SUFFICES ASSUME ctx # None, Shape, Ledger PROVE LeasesKept
    OBVIOUS
<1>2. SwipesFunded /\ SwipesApart /\ TapFunded
    BY <1>1 DEF Ledger
<1>3. \A k \in Kinds : used[k] \in Nat /\ grant[k] \in Nat
    BY <1>1, Amounts
<1>4. ctx["combat"] \in Nat /\ ctx["viewport"] \in Nat /\ ctx["positioning"] \in Nat
    BY <1>1, Amounts
<1>5. used["viewport"] <= grant["viewport"]
      /\ used["positioning"] <= grant["positioning"]
  <2>1. Flying("viewport") \in Nat /\ Flying("positioning") \in Nat
      BY DEF Flying
  <2> QED
      BY <1>2, <1>3, <1>4, <2>1 DEF SwipesFunded, Kinds
<1>6. used["viewport"] = 0 \/ used["positioning"] = 0
    BY <1>2, <1>3 DEF SwipesApart, Kinds
<1>7. used["combat"] <= grant["combat"] \/ past.ignored
    BY <1>2, <1>3, <1>4 DEF TapFunded, Kinds
<1> QED
    BY <1>5, <1>6, <1>7 DEF LeasesKept

LEMMA LedgerKeepsLeasesNext ==
    ASSUME ctx' # None, Shape', Ledger' PROVE LeasesKept'
<1>1. (ctx # None /\ Shape /\ Ledger => LeasesKept)'
    BY LedgerKeepsLeases, PTL
<1> QED
    BY <1>1

SameUnits ==
    ctx' # None =>
        /\ ctx # None
        /\ ctx'.combat = ctx.combat /\ ctx'.viewport = ctx.viewport
        /\ ctx'.positioning = ctx.positioning
        /\ ctx'.placing = ctx.placing /\ ctx'.placed = ctx.placed
        /\ ctx.admission # None => ctx'.admission # None

NoNewSwipe ==
    call' # None =>
        /\ call'.op \in {"swipe", "swiping"} =>
               call # None /\ call.op \in {"swipe", "swiping"}
        /\ call'.op \in {"swipe", "swiping", "swiped"} =>
               call # None /\ call.op \in {"swipe", "swiping", "swiped"}

Heeds == /\ caller' = caller \/ caller' = "leaving" \/ ctx' = None
         /\ past.ignored => past'.ignored

LEMMA QuietStep ==
    ASSUME Shape, Ledger, LeasesKept, UNCHANGED <<grant, used>>,
           SameUnits, NoNewSwipe, Heeds
    PROVE  Ledger' /\ LeasesKept'
<1>1. \A k \in Kinds : used[k] \in Nat /\ grant[k] \in Nat
    BY Amounts
<1>2. LeasesKept'
    BY DEF LeasesKept, Heeds
<1>3. ASSUME ctx' # None
      PROVE  SwipesFunded' /\ SwipesApart' /\ PlacedWithin' /\ TapFunded'
  <2>1. ctx # None /\ SwipesFunded /\ SwipesApart /\ PlacedWithin /\ TapFunded
      BY <1>3 DEF SameUnits, Ledger
  <2>2. ctx["combat"] \in Nat /\ ctx["viewport"] \in Nat
        /\ ctx["positioning"] \in Nat /\ ctx.placed \in Nat
      BY <2>1, Amounts
  <2>3. ctx'["combat"] = ctx["combat"] /\ ctx'["viewport"] = ctx["viewport"]
        /\ ctx'["positioning"] = ctx["positioning"] /\ ctx'.placed = ctx.placed
        /\ ctx'.placing = ctx.placing
        /\ (ctx.admission # None => ctx'.admission # None)
      BY <1>3 DEF SameUnits
  <2>4. ASSUME NEW kind \in {"viewport", "positioning"}
        PROVE  used'[kind] + ctx'[kind] + Flying(kind)' <= grant'[kind]
    <3>1. Flying(kind)' <= Flying(kind) /\ Flying(kind) \in Nat /\ Flying(kind)' \in Nat
        BY <2>3 DEF Flying, SwipeKind, NoNewSwipe
    <3>2. used[kind] + ctx[kind] + Flying(kind) <= grant[kind]
        BY <2>1 DEF SwipesFunded
    <3>3. used[kind] \in Nat /\ grant[kind] \in Nat /\ ctx[kind] \in Nat
          /\ ctx'[kind] = ctx[kind] /\ used'[kind] = used[kind]
          /\ grant'[kind] = grant[kind]
        BY <1>1, <2>2, <2>3 DEF Kinds
    <3> QED
        BY <3>1, <3>2, <3>3
  <2>5. SwipesFunded'
      BY <2>4 DEF SwipesFunded
  <2>6. SwipesApart'
      BY <2>1, <2>3 DEF SwipesApart
  <2>7. PlacedWithin'
    <3>1. Unproven' <= Unproven /\ Unproven \in Nat /\ Unproven' \in Nat
        BY <2>3 DEF Unproven, NoNewSwipe
    <3>2. ctx'.placed + ctx'.positioning + Unproven'
              <= ctx.placed + ctx.positioning + Unproven
        BY <2>2, <2>3, <3>1
    <3>3. ctx.placed + ctx.positioning + Unproven <= 2
        BY <2>1 DEF PlacedWithin
    <3>4. ctx'.placed + ctx'.positioning + Unproven' <= 2
        BY <2>2, <2>3, <3>1, <3>2, <3>3
    <3> QED
        BY <3>4 DEF PlacedWithin
  <2>8. TapFunded'
    <3>1. CASE past.ignored
        BY <3>1 DEF TapFunded, Heeds
    <3>2. CASE ~past.ignored /\ caller = "running"
      <4>1. used["combat"] + ctx["combat"] <= grant["combat"]
          BY <2>1, <3>2 DEF TapFunded
      <4>2. used["combat"] <= grant["combat"]
          BY <1>1, <2>2, <4>1 DEF Kinds
      <4> QED
          BY <2>3, <4>1, <4>2 DEF TapFunded
    <3>3. CASE ~past.ignored /\ caller # "running"
        BY <1>3, <2>1, <3>3 DEF TapFunded, Heeds
    <3> QED
        BY <3>1, <3>2, <3>3
  <2> QED
      BY <2>5, <2>6, <2>7, <2>8
<1>4. Ledger'
    BY <1>3 DEF Ledger
<1> QED
    BY <1>2, <1>4

-----------------------------------------------------------------------------
(* The ledger: the steps that touch it.                                    *)

\* What is fresh has not been used.
LEMMA FreshLedger ==
    ASSUME Shape', ctx' = Fresh(grant), grant' = grant, used' = Zero,
           call' = None, past'.ignored = FALSE, grant \in Grants
    PROVE  Ledger'
<1>1. \A k \in Kinds : grant[k] \in Nat /\ grant["positioning"] <= 2
    BY GrantsAssumption DEF Kinds
<1>2. ctx'["combat"] = grant["combat"] /\ ctx'["viewport"] = grant["viewport"]
      /\ ctx'["positioning"] = grant["positioning"] /\ ctx'.placed = 0
    BY DEF Fresh
<1>3. Flying("viewport")' = 0 /\ Flying("positioning")' = 0 /\ Unproven' = 0
    BY DEF Flying, Unproven
<1>4. SwipesFunded'
    BY <1>1, <1>2, <1>3, ZeroFits DEF SwipesFunded, Kinds
<1>5. SwipesApart'
    BY ZeroFits DEF SwipesApart, Kinds
<1>6. PlacedWithin'
    BY <1>1, <1>2, <1>3 DEF PlacedWithin, Kinds
<1>7. TapFunded'
    BY <1>1, <1>2, ZeroFits DEF TapFunded, Kinds
<1> QED
    BY <1>4, <1>5, <1>6, <1>7 DEF Ledger

LEMMA BeginLedger == ASSUME Shape, Begin PROVE Ledger' /\ ctx' # None
<1>1. Shape'
    BY BeginShape
<1>2. call' = None
    BY DEF Begin, Shape, CallFits
<1>3. past'.ignored = FALSE
    BY DEF Begin, Shape, Pasts
<1>4. ctx' = Fresh(grant) /\ grant' = grant /\ used' = Zero /\ grant \in Grants
    BY DEF Begin, Shape
<1> QED
    BY <1>1, <1>2, <1>3, <1>4, FreshLedger, FreshFits, NoneAssumption

LEMMA FlowLedger ==
    ASSUME Shape, NEW stage \in {"position", "decide"}, Flow(stage),
           stage = "position" => ctx.admission # None
    PROVE  Ledger' /\ ctx' # None
<1>1. Shape'
    BY FlowShape
<1>2. call' = None
    BY DEF Flow
<1>3. past'.ignored = FALSE
    BY DEF Flow, Shape, Pasts
<1>4. ctx' = Fresh(grant) /\ grant' = grant /\ used' = Zero /\ grant \in Grants
    BY DEF Flow, Shape
<1> QED
    BY <1>1, <1>2, <1>3, <1>4, FreshLedger, FreshFits, NoneAssumption

\* No positioning begins after a swipe for a battle, and none for a battle
\* after one to position the camera.
LEMMA AuthorizePositioningLedger ==
    ASSUME Shape, Ledger, NEW n \in Nodes, AuthorizePositioning(n) PROVE Ledger'
<1>1. ctx \in Contexts /\ ctx # None /\ call = None /\ ctx.map # None
      /\ ctx.placing = None /\ ctx.placed = 0 /\ ctx.admission = None
    BY DEF AuthorizePositioning, May, Shape
<1>2. SwipesFunded /\ SwipesApart /\ PlacedWithin /\ TapFunded
    BY <1>1 DEF Ledger
<1>3. ctx'["combat"] = ctx["combat"] /\ ctx'["viewport"] = ctx["viewport"]
      /\ ctx'["positioning"] = ctx["positioning"] /\ ctx'.placed = ctx.placed
      /\ ctx'.placing # None /\ ctx'.admission = ctx.admission
    BY <1>1, AdmitsFits DEF AuthorizePositioning, Contexts
<1>4. UNCHANGED <<grant, used, call, caller, past>>
    BY DEF AuthorizePositioning
<1>5. Flying("viewport") = 0 /\ Flying("positioning") = 0 /\ Unproven = 0
      /\ Flying("viewport")' = 0 /\ Flying("positioning")' = 0 /\ Unproven' = 0
    BY <1>1, <1>4 DEF Flying, Unproven
<1>6. SwipesFunded'
    BY <1>2, <1>3, <1>4, <1>5 DEF SwipesFunded
<1>7. SwipesApart'
  <2>1. used["viewport"] = 0
      BY <1>1, <1>2, Amounts DEF SwipesApart, Kinds
  <2> QED
      BY <1>3, <1>4, <2>1 DEF SwipesApart
<1>8. PlacedWithin'
    BY <1>2, <1>3, <1>5 DEF PlacedWithin
<1>9. TapFunded'
    BY <1>2, <1>3, <1>4 DEF TapFunded
<1> QED
    BY <1>6, <1>7, <1>8, <1>9 DEF Ledger

\* A unit is spent when the swipe is asked for.
LEMMA AskSwipeLedger == ASSUME Shape, Ledger, AskSwipe PROVE Ledger'
<1>1. ctx \in Contexts /\ ctx # None /\ call = None /\ caller = "running"
    BY DEF AskSwipe, May, Shape
<1>2. SwipesFunded /\ SwipesApart /\ PlacedWithin /\ TapFunded
    BY <1>1 DEF Ledger
<1>3. UNCHANGED <<grant, used, caller, past>> /\ call'.op = "swipe"
    BY BeginsFits DEF AskSwipe
<1>4. \A k \in Kinds : used[k] \in Nat /\ grant[k] \in Nat
    BY Amounts
<1>5. ctx["viewport"] \in Nat /\ ctx["positioning"] \in Nat /\ ctx.placed \in Nat
    BY <1>1, Amounts
<1>6. Flying("viewport") = 0 /\ Flying("positioning") = 0 /\ Unproven = 0
    BY <1>1 DEF Flying, Unproven
<1>7. CASE /\ ctx.placing # None
           /\ ctx' = [ctx EXCEPT !.positioning = @ - 1]
           /\ ctx.positioning \in 1 .. 2
  <2>1. ctx'["combat"] = ctx["combat"] /\ ctx'["viewport"] = ctx["viewport"]
        /\ ctx'["positioning"] = ctx["positioning"] - 1 /\ ctx'.placed = ctx.placed
        /\ ctx'.placing = ctx.placing /\ ctx'.admission = ctx.admission
      BY <1>1, <1>7 DEF Contexts
  <2>2. Flying("viewport")' = 0 /\ Flying("positioning")' <= 1 /\ Unproven' <= 1
        /\ Flying("positioning")' \in Nat /\ Unproven' \in Nat
      BY <1>7, <2>1 DEF Flying, Unproven, SwipeKind
  <2>3. SwipesFunded'
      BY <1>2, <1>3, <1>4, <1>5, <1>6, <2>1, <2>2 DEF SwipesFunded, Kinds
  <2>4. PlacedWithin'
      BY <1>2, <1>5, <1>6, <2>1, <2>2 DEF PlacedWithin
  <2>5. SwipesApart' /\ TapFunded'
      BY <1>2, <1>3, <2>1 DEF SwipesApart, TapFunded
  <2> QED
      BY <2>3, <2>4, <2>5 DEF Ledger
<1>8. CASE /\ ctx.placing = None /\ ctx.viewport = 1
           /\ ctx' = [ctx EXCEPT !.viewport = @ - 1]
  <2>1. ctx'["combat"] = ctx["combat"] /\ ctx'["viewport"] = ctx["viewport"] - 1
        /\ ctx'["positioning"] = ctx["positioning"] /\ ctx'.placed = ctx.placed
        /\ ctx'.placing = ctx.placing /\ ctx'.admission = ctx.admission
      BY <1>1, <1>8 DEF Contexts
  <2>2. Flying("viewport")' <= 1 /\ Flying("positioning")' = 0 /\ Unproven' = 0
        /\ Flying("viewport")' \in Nat
      BY <1>8, <2>1 DEF Flying, Unproven, SwipeKind
  <2>3. SwipesFunded'
      BY <1>2, <1>3, <1>4, <1>5, <1>6, <2>1, <2>2 DEF SwipesFunded, Kinds
  <2>4. PlacedWithin'
      BY <1>2, <1>5, <1>6, <2>1, <2>2 DEF PlacedWithin
  <2>5. SwipesApart' /\ TapFunded'
      BY <1>2, <1>3, <2>1 DEF SwipesApart, TapFunded
  <2> QED
      BY <2>3, <2>4, <2>5 DEF Ledger
<1> QED
    BY <1>7, <1>8 DEF AskSwipe

\* The swipe that was paid for reaches the game.
LEMMA SwipeMadeLedger ==
    ASSUME Shape, Ledger, call # None, call.op = "swiping",
           Make(SwipeKind, Gesture), grant' = grant,
           call' # None => call'.op = "swiped",
           ctx' \in Contexts, ctx' # None,
           ctx'.combat = ctx.combat, ctx'.viewport = ctx.viewport,
           ctx'.positioning = ctx.positioning, ctx'.placing = ctx.placing,
           ctx'.placed = ctx.placed, ctx'.admission = ctx.admission,
           caller' = caller \/ caller' = "leaving",
           past.ignored => past'.ignored
    PROVE  Ledger'
<1>1. ctx \in Contexts /\ ctx # None /\ caller = "running"
      /\ (ctx.placing = None) # (ctx.admission = None)
    BY DEF Shape, CallFits
<1>2. SwipesFunded /\ SwipesApart /\ PlacedWithin /\ TapFunded
    BY <1>1 DEF Ledger
<1>3. \A k \in Kinds : used[k] \in Nat /\ grant[k] \in Nat
    BY Amounts
<1>4. ctx["viewport"] \in Nat /\ ctx["positioning"] \in Nat /\ ctx.placed \in Nat
      /\ ctx["combat"] \in Nat
    BY <1>1, Amounts
<1>5. /\ used' \in [Kinds -> Nat]
      /\ used'[SwipeKind] = used[SwipeKind] + 1
      /\ \A k \in Kinds \ {SwipeKind} : used'[k] = used[k]
    BY SwipeFits, MakeFits
<1>6. Flying("viewport")' = 0 /\ Flying("positioning")' = 0
    BY DEF Flying
<1>7. Unproven' <= Unproven /\ Unproven \in Nat /\ Unproven' \in Nat
    BY DEF Unproven
<1>8. used'["combat"] = used["combat"]
    BY <1>5 DEF SwipeKind, Kinds
<1>9. SwipesFunded' /\ SwipesApart'
  <2>1. CASE ctx.placing # None
    <3>1. SwipeKind = "positioning"
        BY <2>1 DEF SwipeKind
    <3>2. Flying("positioning") = 1 /\ Flying("viewport") = 0
        BY <3>1 DEF Flying
    <3>3. used'["positioning"] = used["positioning"] + 1
          /\ used'["viewport"] = used["viewport"]
        BY <1>5, <3>1 DEF Kinds
    <3>4. SwipesFunded'
        BY <1>2, <1>3, <1>4, <1>6, <3>2, <3>3 DEF SwipesFunded, Kinds
    <3>5. SwipesApart'
        BY <1>2, <2>1, <3>3 DEF SwipesApart
    <3> QED
        BY <3>4, <3>5
  <2>2. CASE ctx.placing = None
    <3>1. SwipeKind = "viewport" /\ ctx.admission # None
        BY <1>1, <2>2 DEF SwipeKind
    <3>2. Flying("positioning") = 0 /\ Flying("viewport") = 1
        BY <3>1 DEF Flying
    <3>3. used'["viewport"] = used["viewport"] + 1
          /\ used'["positioning"] = used["positioning"]
        BY <1>5, <3>1 DEF Kinds
    <3>4. SwipesFunded'
        BY <1>2, <1>3, <1>4, <1>6, <3>2, <3>3 DEF SwipesFunded, Kinds
    <3>5. SwipesApart'
        BY <1>2, <2>2, <3>1, <3>3 DEF SwipesApart
    <3> QED
        BY <3>4, <3>5
  <2> QED
      BY <2>1, <2>2
<1>10. PlacedWithin'
    BY <1>2, <1>4, <1>7 DEF PlacedWithin
<1>11. TapFunded'
    BY <1>1, <1>2, <1>3, <1>4, <1>8 DEF TapFunded, Kinds
<1> QED
    BY <1>9, <1>10, <1>11 DEF Ledger

LEMMA InjectSwipeLedger == ASSUME Shape, Ledger, InjectSwipe PROVE Ledger'
<1>1. ctx \in Contexts /\ ctx # None
    BY DEF InjectSwipe, Shape, CallFits
<1>2. call'.op = "swiped"
    BY BeginsFits DEF InjectSwipe
<1> QED
    BY <1>1, <1>2, SwipeMadeLedger DEF InjectSwipe

LEMMA SwipeRaisesLateLedger == ASSUME Shape, Ledger, SwipeRaisesLate PROVE Ledger'
<1>1. ctx \in Contexts /\ caller = "running"
    BY DEF SwipeRaisesLate, Shape, CallFits
<1>2. ctx' = [ctx EXCEPT !.armed = FALSE]
    BY DEF SwipeRaisesLate
<1>3. ctx' \in Contexts /\ ctx' # None /\ ctx'.combat = ctx.combat
      /\ ctx'.viewport = ctx.viewport /\ ctx'.positioning = ctx.positioning
      /\ ctx'.placing = ctx.placing /\ ctx'.placed = ctx.placed
      /\ ctx'.admission = ctx.admission
    BY <1>1, <1>2, NoneAssumption DEF Contexts
<1>4. past.ignored => past'.ignored
    BY <1>1, SwipeFits, MadeFits, RaisedShape DEF SwipeRaisesLate, Shape
<1>5. caller' = caller \/ caller' = "leaving"
    BY DEF SwipeRaisesLate, Raised
<1> QED
    BY <1>3, <1>4, <1>5, SwipeMadeLedger DEF SwipeRaisesLate

\* The positioning that was seen to move the camera is placed.
LEMMA EndSwipeLedger == ASSUME Shape, Ledger, EndSwipe PROVE Ledger'
<1>1. ctx # None /\ call # None /\ call.op = "swiped" /\ caller = "running"
      /\ (ctx.placing = None) # (ctx.admission = None)
    BY DEF EndSwipe, Stable, Shape, CallFits
<1>2. SwipesFunded /\ SwipesApart /\ PlacedWithin /\ TapFunded
    BY <1>1 DEF Ledger
<1>3. /\ ctx'["combat"] = ctx["combat"] /\ ctx'["viewport"] = ctx["viewport"]
      /\ ctx'["positioning"] = ctx["positioning"]
      /\ ctx'.placing = ctx.placing
      /\ (ctx.admission # None => ctx'.admission # None)
      /\ ctx'.placed = IF ctx.placing # None THEN ctx.placed + 1 ELSE ctx.placed
    BY <1>2, ProvenSwipeFits
<1>4. UNCHANGED <<grant, used, caller, past>> /\ call' = None
    BY DEF EndSwipe
<1>5. Flying("viewport") = 0 /\ Flying("positioning") = 0
      /\ Flying("viewport")' = 0 /\ Flying("positioning")' = 0
      /\ Unproven' = 0 /\ Unproven = IF ctx.placing # None THEN 1 ELSE 0
    BY <1>1, <1>4 DEF Flying, Unproven
<1>6. SwipesFunded'
    BY <1>2, <1>3, <1>4, <1>5 DEF SwipesFunded
<1>7. SwipesApart' /\ TapFunded'
    BY <1>2, <1>3, <1>4 DEF SwipesApart, TapFunded
<1>8. PlacedWithin'
    BY <1>1, <1>2, <1>3, <1>5, Amounts DEF PlacedWithin
<1> QED
    BY <1>6, <1>7, <1>8 DEF Ledger

LEMMA CompletePositioningLedger ==
    ASSUME Shape, Ledger, CompletePositioning PROVE Ledger'
<1>1. ctx \in Contexts /\ ctx # None /\ call = None
      /\ ctx' = [ctx EXCEPT !.positioning = 0, !.completed = TRUE]
    BY DEF CompletePositioning, May, Shape
<1>2. SwipesFunded /\ SwipesApart /\ PlacedWithin /\ TapFunded
    BY <1>1 DEF Ledger
<1>3. /\ ctx'["combat"] = ctx["combat"] /\ ctx'["viewport"] = ctx["viewport"]
      /\ ctx'["positioning"] = 0 /\ ctx'.placed = ctx.placed
      /\ ctx'.placing = ctx.placing /\ ctx'.admission = ctx.admission
    BY <1>1 DEF Contexts
<1>4. UNCHANGED <<grant, used, call, caller, past>>
    BY DEF CompletePositioning
<1>5. Flying("viewport") = 0 /\ Flying("positioning") = 0 /\ Unproven = 0
      /\ Flying("viewport")' = 0 /\ Flying("positioning")' = 0 /\ Unproven' = 0
    BY <1>1, <1>4 DEF Flying, Unproven
<1>6. \A k \in Kinds : used[k] \in Nat /\ grant[k] \in Nat
    BY Amounts
<1>7. ctx["viewport"] \in Nat /\ ctx["positioning"] \in Nat /\ ctx.placed \in Nat
    BY <1>1, Amounts
<1>8. SwipesFunded'
    BY <1>2, <1>3, <1>4, <1>5, <1>6, <1>7 DEF SwipesFunded, Kinds
<1>9. SwipesApart' /\ TapFunded'
    BY <1>2, <1>3, <1>4 DEF SwipesApart, TapFunded
<1>10. PlacedWithin'
    BY <1>2, <1>3, <1>5, <1>7 DEF PlacedWithin
<1> QED
    BY <1>8, <1>9, <1>10 DEF Ledger

\* The tap reaches the game: it is booked, or its exception reaches the caller.
LEMMA TapMadeLedger ==
    ASSUME Shape, Ledger, call # None, call.op = "tap",
           Make("combat", TheTap), grant' = grant, call' = None,
           ctx' \in Contexts, ctx' # None,
           ctx'.viewport = ctx.viewport, ctx'.positioning = ctx.positioning,
           ctx'.placing = ctx.placing, ctx'.placed = ctx.placed,
           ctx'.admission = ctx.admission,
           ctx'.combat = 0 \/ caller' # "running" \/ past'.ignored,
           past.ignored => past'.ignored
    PROVE  Ledger'
<1>1. ctx \in Contexts /\ ctx # None /\ caller = "running" /\ TheTap \in Inputs
      /\ ctx["combat"] = 1
    BY TapFits, NoneAssumption
<1>2. SwipesFunded /\ SwipesApart /\ PlacedWithin /\ TapFunded
    BY <1>1 DEF Ledger
<1>3. /\ used' \in [Kinds -> Nat]
      /\ used'["combat"] = used["combat"] + 1
      /\ used'["viewport"] = used["viewport"]
      /\ used'["positioning"] = used["positioning"]
    BY <1>1, MakeFits DEF Kinds
<1>4. Flying("viewport") = 0 /\ Flying("positioning") = 0 /\ Unproven = 0
      /\ Flying("viewport")' = 0 /\ Flying("positioning")' = 0 /\ Unproven' = 0
    BY DEF Flying, Unproven
<1>5. SwipesFunded'
    BY <1>2, <1>3, <1>4 DEF SwipesFunded
<1>6. SwipesApart'
    BY <1>2, <1>3 DEF SwipesApart
<1>7. PlacedWithin'
    BY <1>2, <1>4 DEF PlacedWithin
<1>8. TapFunded'
  <2>1. CASE past'.ignored
      BY <2>1 DEF TapFunded
  <2>2. CASE ~past'.ignored
    <3>1. used["combat"] + 1 <= grant["combat"]
        BY <1>1, <1>2, <2>2 DEF TapFunded
    <3>2. used'["combat"] <= grant'["combat"]
        BY <1>3, <3>1
    <3>3. ctx'["combat"] = 0 \/ caller' # "running"
        BY <2>2
    <3>4. caller' = "running" => used'["combat"] + ctx'["combat"] <= grant'["combat"]
      <4>1. used'["combat"] \in Nat
          BY <1>3 DEF Kinds
      <4> QED
          BY <3>2, <3>3, <4>1
    <3> QED
        BY <3>2, <3>4 DEF TapFunded
  <2> QED
      BY <2>1, <2>2
<1> QED
    BY <1>5, <1>6, <1>7, <1>8 DEF Ledger

LEMMA TapReturnsLedger == ASSUME Shape, Ledger, TapReturns PROVE Ledger' /\ ctx' # None
<1>1. ctx \in Contexts /\ caller = "running" /\ ctx.combat = 1 /\ Made("combat") \in Scripts
    BY TapFits, MadeFits DEF TapReturns, Kinds
<1>2. /\ ctx' \in Contexts /\ ctx'.admission = ctx.admission
      /\ ctx'.placing = ctx.placing
      /\ ctx'.combat = 0 /\ ctx'.viewport = ctx.viewport
      /\ ctx'.positioning = ctx.positioning /\ ctx'.placed = ctx.placed
    BY <1>1, BookedFits DEF TapReturns
<1>3. past.ignored => past'.ignored
  <2>1. CASE ctx.admission.view = ctx.map.view
      BY <2>1 DEF TapReturns
  <2>2. CASE ctx.admission.view # ctx.map.view
      BY <1>1, <2>2, RaisedShape DEF TapReturns, Shape
  <2> QED
      BY <2>1, <2>2
<1>4. /\ call # None /\ call.op = "tap" /\ Make("combat", TheTap)
      /\ grant' = grant /\ call' = None
    BY DEF TapReturns
<1> QED
    BY <1>2, <1>3, <1>4, TapMadeLedger, NoneAssumption

LEMMA TapRaisesLateLedger ==
    ASSUME Shape, Ledger, TapRaisesLate PROVE Ledger' /\ ctx' # None
<1>1. ctx \in Contexts /\ caller = "running" /\ ctx' = ctx /\ Made("combat") \in Scripts
    BY TapFits, MadeFits DEF TapRaisesLate, Kinds
<1>2. /\ caller' = "leaving" \/ past'.ignored
      /\ past.ignored => past'.ignored
    BY <1>1, RaisedShape DEF TapRaisesLate, Shape
<1>3. /\ call # None /\ call.op = "tap" /\ Make("combat", TheTap)
      /\ grant' = grant /\ call' = None
    BY DEF TapRaisesLate
<1> QED
    BY <1>1, <1>2, <1>3, TapMadeLedger, NoneAssumption

-----------------------------------------------------------------------------
(* Every step keeps the invariant.                                         *)

\* What makes a step quiet: the ledger is as before, or the flow has ended.
LEMMA QuietKept ==
    ASSUME Kept, Shape', UNCHANGED <<grant, used>>, SameUnits, NoNewSwipe, Heeds
    PROVE  Kept'
BY QuietStep DEF Kept

LEMMA LoudKept == ASSUME Shape', Ledger', ctx' # None PROVE Kept'
BY LedgerKeepsLeasesNext DEF Kept

LEMMA EnvironmentKept == ASSUME Kept, Environment PROVE Kept'
<1>1. Shape
    BY DEF Kept
<1>2. CASE HandleSwipe
  <2>1. Shape'
      BY <1>1, <1>2, HandleSwipeShape
  <2>2. UNCHANGED <<grant, used>> /\ SameUnits /\ NoNewSwipe /\ Heeds
      BY <1>2 DEF HandleSwipe, SameUnits, NoNewSwipe, Heeds
  <2> QED
      BY <2>1, <2>2, QuietKept
<1>3. CASE HandleTap
  <2>1. Shape'
      BY <1>1, <1>3, HandleTapShape
  <2>2. UNCHANGED <<grant, used, ctx, call, caller, past>>
      BY <1>3 DEF HandleTap
  <2>3. SameUnits /\ NoNewSwipe /\ Heeds
      BY <2>2 DEF SameUnits, NoNewSwipe, Heeds
  <2> QED
      BY <2>1, <2>2, <2>3, QuietKept
<1>4. CASE BattleEnds
  <2>1. Shape'
      BY <1>1, <1>4, BattleEndsShape
  <2>2. UNCHANGED <<grant, used, ctx, call, caller>>
      BY <1>4 DEF BattleEnds
  <2>3. past'.ignored = past.ignored
      BY <1>1, <1>4 DEF BattleEnds, Shape, Pasts
  <2>4. SameUnits /\ NoNewSwipe /\ Heeds
      BY <2>2, <2>3 DEF SameUnits, NoNewSwipe, Heeds
  <2> QED
      BY <2>1, <2>2, <2>4, QuietKept
<1>5. CASE Publish
  <2>1. Shape'
      BY <1>1, <1>5, PublishShape
  <2>2. UNCHANGED <<grant, used, ctx, caller>> /\ past'.ignored = past.ignored
      BY <1>1, <1>5 DEF Publish, Shape, Pasts
  <2>3. call = None => call' = None
      BY <1>5 DEF Publish
  <2>4. call # None => call'.op = call.op
      BY <1>1, <1>5 DEF Publish, Shape, Calls
  <2>5. SameUnits /\ NoNewSwipe /\ Heeds
      BY <2>2, <2>3, <2>4 DEF SameUnits, NoNewSwipe, Heeds
  <2> QED
      BY <2>1, <2>2, <2>5, QuietKept
<1> QED
    BY <1>2, <1>3, <1>4, <1>5 DEF Environment

LEMMA InvocationKept ==
    ASSUME Kept, Begin \/ End \/ CallRaises \/ Refuses PROVE Kept'
<1>1. Shape /\ Ledger
    BY DEF Kept
<1>2. CASE Begin
    BY <1>1, <1>2, BeginShape, BeginLedger, LoudKept
<1>3. CASE End
  <2>1. Shape'
      BY <1>1, <1>3, EndShape
  <2>2. UNCHANGED <<grant, used>> /\ SameUnits /\ NoNewSwipe /\ Heeds
      BY <1>3 DEF End, SameUnits, NoNewSwipe, Heeds
  <2> QED
      BY <2>1, <2>2, QuietKept
<1>4. ASSUME CallRaises \/ Refuses PROVE Kept'
  <2>1. Shape'
      BY <1>1, <1>4, CallRaisesShape, RefusesShape
  <2>2. ctx \in Contexts /\ caller = "running" /\ call' = None
        /\ ctx' = [ctx EXCEPT !.armed = FALSE] /\ Raised(script)
      BY <1>1, <1>4 DEF CallRaises, Refuses, Shape, CallFits
  <2>3. SameUnits
      BY <2>2, NoneAssumption DEF SameUnits, Contexts
  <2>4. Heeds
    <3>1. past.ignored => past'.ignored
        BY <1>1, <2>2, RaisedShape DEF Shape
    <3> QED
        BY <2>2, <3>1 DEF Raised, Heeds
  <2>5. UNCHANGED <<grant, used>> /\ NoNewSwipe
      BY <1>4, <2>2 DEF CallRaises, Refuses, NoNewSwipe
  <2> QED
      BY <2>1, <2>3, <2>4, <2>5, QuietKept
<1> QED
    BY <1>2, <1>3, <1>4

LEMMA ObservingKept == ASSUME Kept, Observing PROVE Kept'
<1>1. Shape
    BY DEF Kept
<1>2. ASSUME BeginMap \/ BeginCamera PROVE Kept'
  <2>1. Shape'
      BY <1>1, <1>2, BeginMapShape, BeginCameraShape
  <2>2. call'.op \in {"map", "camera"}
      BY <1>1, <1>2, BeginsFits DEF BeginMap, BeginCamera
  <2>3. UNCHANGED <<grant, used, ctx, caller, past>>
      BY <1>2 DEF BeginMap, BeginCamera
  <2>4. SameUnits /\ NoNewSwipe /\ Heeds
      BY <2>2, <2>3 DEF SameUnits, NoNewSwipe, Heeds
  <2> QED
      BY <2>1, <2>3, <2>4, QuietKept
<1>3. ASSUME EndMap \/ EndCamera PROVE Kept'
  <2>1. Shape'
      BY <1>1, <1>3, EndMapShape, EndCameraShape
  <2>2. ctx \in Contexts
      BY <1>1, <1>3 DEF EndMap, EndCamera, Stable, Shape, CallFits
  <2>3. ctx' = [ctx EXCEPT !.map = StateOf(shown)]
      BY <1>3 DEF EndMap, EndCamera
  <2>4. UNCHANGED <<grant, used, caller, past>> /\ call' = None
      BY <1>3 DEF EndMap, EndCamera
  <2>5. SameUnits
      BY <2>2, <2>3, NoneAssumption DEF SameUnits, Contexts
  <2>6. NoNewSwipe /\ Heeds
      BY <2>4 DEF NoNewSwipe, Heeds
  <2> QED
      BY <2>1, <2>4, <2>5, <2>6, QuietKept
<1>4. CASE ReadAgain
  <2>1. Shape'
      BY <1>1, <1>4, ReadAgainShape
  <2>2. UNCHANGED <<grant, used, ctx, caller, past>>
      BY <1>4 DEF ReadAgain
  <2>3. call # None /\ call'.op = call.op
      BY <1>1, <1>4 DEF ReadAgain, Shape, Calls
  <2>4. SameUnits /\ NoNewSwipe /\ Heeds
      BY <2>2, <2>3 DEF SameUnits, NoNewSwipe, Heeds
  <2> QED
      BY <2>1, <2>2, <2>4, QuietKept
<1> QED
    BY <1>2, <1>3, <1>4 DEF Observing

LEMMA AdmittingKept == ASSUME Kept, Admitting PROVE Kept'
<1>1. Shape /\ Ledger
    BY DEF Kept
<1>2. ASSUME NEW n \in Nodes, AuthorizePositioning(n) PROVE Kept'
  <2>1. ctx \in Contexts
      BY <1>1, <1>2 DEF AuthorizePositioning, May, Shape
  <2>2. ctx' # None
    <3>1. ctx' = [ctx EXCEPT !.placing = Admits(n)] /\ ctx.map # None
        BY <1>2 DEF AuthorizePositioning
    <3>2. ctx' \in Contexts
        BY <2>1, <3>1, AdmitsFits DEF Contexts
    <3> QED
        BY <3>2, NoneAssumption
  <2> QED
      BY <1>1, <1>2, <2>2, AuthorizePositioningShape, AuthorizePositioningLedger,
         LoudKept
<1>3. ASSUME NEW n \in Nodes, AuthorizeCombat(n) PROVE Kept'
  <2>1. Shape'
      BY <1>1, <1>3, AuthorizeCombatShape
  <2>2. ctx \in Contexts /\ ctx.map # None /\ call = None
      BY <1>1, <1>3 DEF AuthorizeCombat, May, Shape
  <2>3. ctx' = [ctx EXCEPT !.admission = Admits(n), !.required = ctx.viewport = 1]
      BY <1>3 DEF AuthorizeCombat
  <2>4. SameUnits
      BY <2>2, <2>3, AdmitsFits, NoneAssumption DEF SameUnits, Contexts
  <2>5. past'.ignored = past.ignored
    <3>1. past \in Pasts /\ past' = [past EXCEPT !.won = <<>>, !.seen = 0]
        BY <1>1, <1>3 DEF AuthorizeCombat, Shape
    <3> QED
        BY <3>1 DEF Pasts
  <2>6. UNCHANGED <<grant, used, caller, call>>
      BY <1>3 DEF AuthorizeCombat
  <2>7. NoNewSwipe /\ Heeds
      BY <2>2, <2>5, <2>6 DEF NoNewSwipe, Heeds
  <2> QED
      BY <2>1, <2>4, <2>6, <2>7, QuietKept
<1> QED
    BY <1>2, <1>3 DEF Admitting

LEMMA SwipingKept == ASSUME Kept, Swiping PROVE Kept'
<1>1. Shape /\ Ledger
    BY DEF Kept
<1>2. ASSUME Arm \/ Drop PROVE Kept'
  <2>1. Shape'
      BY <1>1, <1>2, ArmShape, DropShape
  <2>2. ctx \in Contexts /\ call = None
      BY <1>1, <1>2 DEF Arm, Drop, May, Shape
  <2>3. ctx' = [ctx EXCEPT !.armed = TRUE] \/ ctx' = [ctx EXCEPT !.armed = FALSE]
      BY <1>2 DEF Arm, Drop
  <2>4. SameUnits
      BY <2>2, <2>3, NoneAssumption DEF SameUnits, Contexts
  <2>5. UNCHANGED <<grant, used, call, caller, past>>
      BY <1>2 DEF Arm, Drop
  <2>6. NoNewSwipe /\ Heeds
      BY <2>2, <2>5 DEF NoNewSwipe, Heeds
  <2> QED
      BY <2>1, <2>4, <2>5, <2>6, QuietKept
<1>3. CASE AskSwipe
  <2>1. ctx \in Contexts
      BY <1>1, <1>3 DEF AskSwipe, May, Shape
  <2>2. ctx' # None
      BY <1>3, <2>1, NoneAssumption DEF AskSwipe, Contexts
  <2> QED
      BY <1>1, <1>3, <2>2, AskSwipeShape, AskSwipeLedger, LoudKept
<1>4. CASE AimSwipe
  <2>1. Shape'
      BY <1>1, <1>4, AimSwipeShape
  <2>2. call # None /\ call.op = "swipe" /\ UNCHANGED <<grant, used, ctx, caller, past>>
      BY <1>4 DEF AimSwipe
  <2>3. SameUnits /\ NoNewSwipe /\ Heeds
      BY <2>2 DEF SameUnits, NoNewSwipe, Heeds
  <2> QED
      BY <2>1, <2>2, <2>3, QuietKept
<1>5. ctx # None => PlacedWithin
    BY <1>1 DEF Ledger
<1>6. CASE InjectSwipe
  <2>1. ctx' # None
      BY <1>1, <1>6 DEF InjectSwipe, Shape, CallFits
  <2> QED
      BY <1>1, <1>6, <2>1, InjectSwipeShape, InjectSwipeLedger, LoudKept
<1>7. CASE SwipeRaisesLate
  <2>1. ctx \in Contexts /\ ctx' = [ctx EXCEPT !.armed = FALSE]
      BY <1>1, <1>7 DEF SwipeRaisesLate, Shape, CallFits
  <2>2. ctx' # None
      BY <2>1, DisarmFits, NoneAssumption
  <2> QED
      BY <1>1, <1>7, <2>2, SwipeRaisesLateShape, SwipeRaisesLateLedger, LoudKept
<1>8. CASE EndSwipe
  <2>1. PlacedWithin
      BY <1>1, <1>5, <1>8 DEF EndSwipe, Stable, Shape, CallFits
  <2>2. ctx' # None
      BY <1>1, <1>8, <2>1, ProvenSwipeFits, NoneAssumption
  <2> QED
      BY <1>1, <1>8, <2>1, <2>2, EndSwipeShape, EndSwipeLedger, LoudKept
<1>9. CASE CompletePositioning
  <2>1. ctx \in Contexts
      BY <1>1, <1>9 DEF CompletePositioning, May, Shape
  <2>2. ctx' # None
    <3>1. ctx' = [ctx EXCEPT !.positioning = 0, !.completed = TRUE] /\ 0 \in 0 .. 2
        BY <1>9 DEF CompletePositioning
    <3>2. ctx' \in Contexts
        BY <2>1, <3>1 DEF Contexts
    <3> QED
        BY <3>2, NoneAssumption
  <2> QED
      BY <1>1, <1>9, <2>2, CompletePositioningShape, CompletePositioningLedger,
         LoudKept
<1> QED
    BY <1>2, <1>3, <1>4, <1>6, <1>7, <1>8, <1>9 DEF Swiping

LEMMA TappingKept == ASSUME Kept, Tapping PROVE Kept'
<1>1. Shape /\ Ledger
    BY DEF Kept
<1>2. CASE Recheck
  <2>1. Shape'
      BY <1>1, <1>2, RecheckShape
  <2>2. ctx \in Contexts /\ call = None /\ ctx.admission # None /\ ctx.map # None
      BY <1>1, <1>2, NoneAssumption DEF Recheck, May, Shape, AdmittedOnMap
  <2>3. ctx.admission \in Admissions /\ ctx.map \in States
      BY <2>2 DEF Contexts
  <2> DEFINE seen == [ctx.admission EXCEPT !.view = ctx.map.view]
  <2>4. seen # None
      BY <2>3, NoneAssumption DEF Admissions, States
  <2>5. ctx' = [ctx EXCEPT !.admission = seen, !.rechecked = TRUE]
    <3>1. ctx' = [ctx EXCEPT !.admission.view = ctx.map.view, !.rechecked = TRUE]
        BY <1>2 DEF Recheck
    <3> QED
        BY <2>2, <3>1 DEF Contexts
  <2>6. SameUnits
    <3> HIDE DEF seen
    <3> QED
        BY <2>2, <2>4, <2>5, NoneAssumption DEF SameUnits, Contexts
  <2>7. UNCHANGED <<grant, used, call, caller, past>>
      BY <1>2 DEF Recheck
  <2>8. NoNewSwipe /\ Heeds
      BY <2>2, <2>7 DEF NoNewSwipe, Heeds
  <2> QED
      BY <2>1, <2>6, <2>7, <2>8, QuietKept
<1>3. ASSUME AskTap \/ BeginConfirm PROVE Kept'
  <2>1. Shape'
      BY <1>1, <1>3, AskTapShape, BeginConfirmShape
  <2>2. call'.op \in {"tap", "confirm"}
      BY <1>1, <1>3, BeginsFits DEF AskTap, BeginConfirm
  <2>3. UNCHANGED <<grant, used, ctx, caller, past>>
      BY <1>3 DEF AskTap, BeginConfirm
  <2>4. SameUnits /\ NoNewSwipe /\ Heeds
      BY <2>2, <2>3 DEF SameUnits, NoNewSwipe, Heeds
  <2> QED
      BY <2>1, <2>3, <2>4, QuietKept
<1>4. CASE TapReturns
    BY <1>1, <1>4, TapReturnsShape, TapReturnsLedger, LoudKept
<1>5. CASE TapRaisesLate
    BY <1>1, <1>5, TapRaisesLateShape, TapRaisesLateLedger, LoudKept
<1>6. CASE EndConfirm
  <2>1. Shape'
      BY <1>1, <1>6, EndConfirmShape
  <2>2. ctx \in Contexts
      BY <1>1, <1>6 DEF EndConfirm, Stable, Shape, CallFits
  <2>3. ctx' = [ctx EXCEPT !.map = StateOf(shown), !.proof = ctx.admission.target]
      BY <1>6 DEF EndConfirm
  <2>4. UNCHANGED <<grant, used, caller, past>> /\ call' = None
      BY <1>6 DEF EndConfirm
  <2>5. SameUnits
      BY <2>2, <2>3, NoneAssumption DEF SameUnits, Contexts
  <2>6. NoNewSwipe /\ Heeds
      BY <2>4 DEF NoNewSwipe, Heeds
  <2> QED
      BY <2>1, <2>4, <2>5, <2>6, QuietKept
<1> QED
    BY <1>2, <1>3, <1>4, <1>5, <1>6 DEF Tapping

LEMMA ScriptedKept == ASSUME Kept, Scripted PROVE Kept'
<1>1. Shape
    BY DEF Kept
<1>2. CASE EnterPositioning
  <2>1. Flow("position") /\ ctx.admission # None
      BY <1>2 DEF EnterPositioning
  <2> QED
      BY <1>1, <2>1, FlowShape, FlowLedger, LoudKept
<1>3. CASE EnterDecision
  <2>1. Flow("decide")
      BY <1>3 DEF EnterDecision
  <2> QED
      BY <1>1, <2>1, FlowShape, FlowLedger, LoudKept
<1>4. CASE Capture
  <2>1. Shape'
      BY <1>1, <1>4, CaptureShape
  <2>2. UNCHANGED <<grant, used, ctx, call, caller, past>>
      BY <1>4 DEF Capture
  <2>3. SameUnits /\ NoNewSwipe /\ Heeds
      BY <2>2 DEF SameUnits, NoNewSwipe, Heeds
  <2> QED
      BY <2>1, <2>2, <2>3, QuietKept
<1> QED
    BY <1>2, <1>3, <1>4 DEF Scripted

LEMMA StutterKept == ASSUME Kept, UNCHANGED vars PROVE Kept'
<1>1. Shape' /\ Ledger' /\ LeasesKept'
    BY DEF Kept, vars, Shape, Fought, CallFits, AdmittedOnMap, Ledger, SwipesFunded,
           SwipesApart, PlacedWithin, TapFunded, Flying, Unproven, SwipeKind, LeasesKept
<1> QED
    BY <1>1 DEF Kept

LEMMA StepKept == ASSUME Kept, [Next]_vars PROVE Kept'
BY EnvironmentKept, InvocationKept, ObservingKept, AdmittingKept, SwipingKept,
   TappingKept, ScriptedKept, StutterKept DEF Next

-----------------------------------------------------------------------------
(* The flows of the script.                                                *)

\* What a stage of the script may have under way: none of them taps.
Fitting(op) ==
    \/ script.stage = "off"
    \/ script.stage \in {"alas", "decide"} /\ op = "map"
    \/ script.stage \in {"position", "goto"} /\ op # "tap"

\* An exception ends the script.
ScriptCalls ==
    /\ call # None => Fitting(call.op)
    /\ caller = "leaving" => script.stage \in {"off", "failed"}

\* A swipe that was made and is being proven.
Proving == IF call # None /\ call.op = "swiped" THEN 1 ELSE 0

NothingMade ==
    script.stage \in {"off", "alas"} => \A k \in Kinds : script.made[k] = 0

\* The swipes of the first flow are those of its invocation, and its camera is
\* in place after one that was made.
WhilePositioning ==
    script.stage = "position" =>
        /\ ctx # None /\ ctx.admission = None
        /\ script.made["viewport"] = 0
        /\ script.made["positioning"] = used["positioning"]
        /\ ctx.placed + Proving <= used["positioning"]
        /\ ctx.completed => ctx.placed >= 1

WhileDeciding ==
    script.stage = "decide" =>
        /\ ctx # None /\ ctx.placing = None /\ ~ctx.moved /\ ~ctx.rechecked
        /\ used["viewport"] = 0 /\ script.made["viewport"] = 0
        /\ script.made["positioning"] \in 1 .. 2

\* In the last flow the enemy of the first one is admitted, and what the
\* context says was moved and rechecked was.
WhileGoing ==
    script.stage = "goto" =>
        /\ ctx # None /\ ctx.placing = None
        /\ ctx.admission # None /\ ctx.admission.target = script.target
        /\ script.made["viewport"] = used["viewport"]
        /\ script.made["positioning"] \in 1 .. 2
        /\ ctx.moved \/ Proving = 1 => used["viewport"] >= 1
        /\ (\E i \in DOMAIN script.log : script.log[i] = "recheck") => ctx.rechecked

WhenOver ==
    /\ script.stage = "done" =>
          /\ script.made["viewport"] = 1 /\ script.made["positioning"] \in 1 .. 2
          /\ ctx # None => ctx.rechecked /\ ctx.admission.target = script.target
    /\ script.stage = "failed" =>
          script.made["viewport"] <= 1 /\ script.made["positioning"] <= 2

NoGridTap == script.made["combat"] = 0

Previewing ==
    /\ ScriptCalls /\ NothingMade /\ WhilePositioning /\ WhileDeciding
    /\ WhileGoing /\ WhenOver /\ NoGridTap

LEMMA PreviewFits == Kept /\ Previewing => PreviewOnly
<1>1. SUFFICES ASSUME Kept, Previewing PROVE PreviewOnly
    OBVIOUS
<1>2. script.stage \in Stages /\ script.made \in [Kinds -> Nat]
      /\ used \in [Kinds -> Nat]
    BY <1>1 DEF Kept, Shape, Scripts
<1>3. used["viewport"] <= 1 /\ used["positioning"] <= 2
  <2>1. grant \in Grants /\ LeasesKept
      BY <1>1 DEF Kept, Shape
  <2>2. grant["viewport"] \in 0 .. 1 /\ grant["positioning"] \in 0 .. 2
      BY <2>1, GrantsAssumption DEF Kinds
  <2> QED
      BY <1>2, <2>1, <2>2 DEF LeasesKept, Kinds
<1>4. script.made["viewport"] <= 1 /\ script.made["positioning"] <= 2
    BY <1>1, <1>2, <1>3 DEF Previewing, Stages, NothingMade, WhilePositioning, WhileDeciding,
       WhileGoing, WhenOver, Kinds
<1> QED
    BY <1>1, <1>2, <1>4 DEF PreviewOnly, Previewing, NoGridTap, WhenOver

\* A call of ALAS alone is none of the script's.
LEMMA OffPreview ==
    ASSUME Previewing, script.stage = "off", script' = script PROVE Previewing'
BY DEF Previewing, ScriptCalls, Fitting, NothingMade, WhilePositioning, WhileDeciding,
       WhileGoing, WhenOver, NoGridTap

LEMMA FailedPreview ==
    ASSUME script'.stage = "failed", call' = None, script'.made["combat"] = 0,
           script'.made["viewport"] <= 1, script'.made["positioning"] <= 2
    PROVE  Previewing'
BY DEF Previewing, ScriptCalls, NothingMade, WhilePositioning, WhileDeciding,
       WhileGoing, WhenOver, NoGridTap

\* What a step leaves as it is: the stage, what was made, and what the stage
\* relies on in the context.
SameStage ==
    /\ script'.stage = script.stage /\ script'.target = script.target
    /\ script'.made = script.made /\ used' = used /\ caller' = caller
    /\ (\E i \in DOMAIN script'.log : script'.log[i] = "recheck") =>
       (\E i \in DOMAIN script.log : script.log[i] = "recheck")

SameFlow ==
    /\ ctx' = None <=> ctx = None
    /\ ctx # None =>
          /\ ctx'.placing = ctx.placing /\ ctx'.admission = ctx.admission
          /\ ctx'.moved = ctx.moved /\ ctx'.rechecked = ctx.rechecked
          /\ ctx'.placed = ctx.placed /\ ctx'.completed = ctx.completed

\* A call goes on, or begins where the stage makes one.
NextCall ==
    call' # None =>
        \/ call # None /\ call'.op = call.op
        \/ Fitting(call'.op) /\ call'.op # "swiped"

LEMMA SteadyPreview ==
    ASSUME Kept, Previewing, SameStage, SameFlow, NextCall PROVE Previewing'
<1>1. ScriptCalls'
    BY DEF SameStage, NextCall, Previewing, ScriptCalls, Fitting
<1>2. Proving' = 1 => Proving = 1
    BY DEF NextCall, Proving
<1>3. Proving' \in 0 .. 1 /\ Proving \in 0 .. 1
    BY DEF Proving
<1>4. NothingMade' /\ NoGridTap'
    BY DEF SameStage, Previewing, NothingMade, NoGridTap
<1>5. WhileDeciding' /\ WhenOver'
    BY DEF SameStage, SameFlow, Previewing, WhileDeciding, WhenOver
<1>6. WhileGoing'
    BY <1>2 DEF SameStage, SameFlow, Previewing, WhileGoing
<1>7. WhilePositioning'
  <2>1. SUFFICES ASSUME script.stage = "position" PROVE WhilePositioning'
      BY DEF SameStage, WhilePositioning
  <2>2. ctx # None /\ ctx \in Contexts /\ WhilePositioning /\ used \in [Kinds -> Nat]
      BY <2>1 DEF Previewing, WhilePositioning, Kept, Shape
  <2>3. ctx.placed \in Nat /\ used["positioning"] \in Nat
      BY <2>2 DEF Contexts, Kinds
  <2>4. ctx'.placed + Proving' <= used'["positioning"]
    <3>1. ctx.placed + Proving <= used["positioning"]
        BY <2>1, <2>2 DEF WhilePositioning
    <3>2. ctx'.placed = ctx.placed /\ used' = used
        BY <2>2 DEF SameFlow, SameStage
    <3> QED
        BY <1>2, <1>3, <2>3, <3>1, <3>2
  <2> QED
      BY <2>1, <2>2, <2>4 DEF SameStage, SameFlow, WhilePositioning
<1> QED
    BY <1>1, <1>4, <1>5, <1>6, <1>7 DEF Previewing

-----------------------------------------------------------------------------
(* The steps that leave the flow of the script as it is.                   *)

LEMMA EnvironmentPreview ==
    ASSUME Kept, Previewing, Environment \/ ReadAgain PROVE Previewing'
<1>1. UNCHANGED <<ctx, caller, script, used>>
    BY DEF Environment, HandleSwipe, HandleTap, BattleEnds, Publish, ReadAgain
<1>2. SameStage /\ SameFlow
    BY <1>1 DEF SameStage, SameFlow
<1>3. NextCall
  <2>1. CASE Publish \/ ReadAgain
    <3>1. call \in Calls \cup {None}
        BY DEF Kept, Shape
    <3> QED
        BY <2>1, <3>1 DEF Publish, ReadAgain, Calls, NextCall
  <2>2. CASE HandleSwipe \/ HandleTap \/ BattleEnds
      BY <2>2 DEF HandleSwipe, HandleTap, BattleEnds, NextCall
  <2> QED
      BY <2>1, <2>2 DEF Environment
<1> QED
    BY <1>2, <1>3, SteadyPreview

\* A step that begins a call and changes nothing else that counts.
LEMMA BeginsPreview ==
    ASSUME Kept, Previewing, BeginMap \/ BeginCamera \/ AimSwipe \/ AskTap \/ BeginConfirm
    PROVE  Previewing'
<1>1. UNCHANGED <<ctx, caller, script, used>>
    BY DEF BeginMap, BeginCamera, AimSwipe, AskTap, BeginConfirm
<1>2. SameStage /\ SameFlow
    BY <1>1 DEF SameStage, SameFlow
<1>3. Shape
    BY DEF Kept
<1>4. NextCall
  <2>1. CASE BeginMap
    <3>1. call'.op = "map"
        BY <1>3, <2>1, BeginsFits DEF BeginMap
    <3>2. Fitting("map")
        BY <2>1 DEF BeginMap, May, Steps, Fitting
    <3> QED
        BY <3>1, <3>2 DEF NextCall
  <2>2. CASE BeginCamera
    <3>1. call'.op = "camera"
        BY <1>3, <2>2, BeginsFits DEF BeginCamera
    <3>2. Fitting("camera")
        BY <2>2 DEF BeginCamera, May, Steps, Fitting
    <3> QED
        BY <3>1, <3>2 DEF NextCall
  <2>3. CASE AimSwipe
    <3>1. call'.op = "swiping"
        BY <1>3, <2>3, BeginsFits DEF AimSwipe
    <3>2. Fitting("swiping")
      <4>1. Fitting("swipe")
          BY <2>3 DEF AimSwipe, Previewing, ScriptCalls
      <4> QED
          BY <4>1 DEF Fitting
    <3> QED
        BY <3>1, <3>2 DEF NextCall
  <2>4. CASE AskTap
    <3>1. call'.op = "tap"
        BY <1>3, <2>4, BeginsFits DEF AskTap
    <3>2. Fitting("tap")
        BY <2>4 DEF AskTap, May, Steps, Fitting
    <3> QED
        BY <3>1, <3>2 DEF NextCall
  <2>5. CASE BeginConfirm
    <3>1. call'.op = "confirm"
        BY <1>3, <2>5, BeginsFits DEF BeginConfirm
    <3>2. Fitting("confirm")
        BY <2>5 DEF BeginConfirm, May, Steps, Fitting
    <3> QED
        BY <3>1, <3>2 DEF NextCall
  <2> QED
      BY <2>1, <2>2, <2>3, <2>4, <2>5
<1> QED
    BY <1>2, <1>4, SteadyPreview

\* What the script logs, apart from a recheck, leaves what it has rechecked.
LEMMA LoggedOther ==
    ASSUME script \in Scripts, NEW op \in {"swipe", "update"}, script' = Logged(op)
    PROVE  /\ script'.stage = script.stage /\ script'.target = script.target
           /\ script'.made = script.made
           /\ (\E i \in DOMAIN script'.log : script'.log[i] = "recheck") =>
              (\E i \in DOMAIN script.log : script.log[i] = "recheck")
<1>1. CASE script' = script
    BY <1>1
<1>2. CASE script' = [script EXCEPT !.log = Append(@, op)]
  <2>1. script'.log = Append(script.log, op) /\ script.log \in Seq({"swipe", "update", "recheck"})
      BY <1>2 DEF Scripts
  <2>2. SUFFICES ASSUME NEW i \in DOMAIN script'.log, script'.log[i] = "recheck"
                 PROVE  i \in DOMAIN script.log /\ script.log[i] = "recheck"
      BY <1>2 DEF Scripts
  <2>3. op # "recheck"
      OBVIOUS
  <2> QED
      BY <2>1, <2>2, <2>3
<1> QED
    BY <1>1, <1>2 DEF Logged

LEMMA EndMapPreview == ASSUME Kept, Previewing, EndMap PROVE Previewing'
<1>1. ctx \in Contexts /\ ctx # None /\ ctx' = [ctx EXCEPT !.map = StateOf(shown)]
    BY DEF EndMap, Stable, Kept, Shape, CallFits
<1>2. ctx' \in Contexts
    BY <1>1, ShownFits DEF Kept, Contexts
<1>3. SameFlow
    BY <1>1, <1>2, NoneAssumption DEF SameFlow, Contexts
<1>4. SameStage /\ NextCall
    BY DEF EndMap, SameStage, NextCall
<1> QED
    BY <1>3, <1>4, SteadyPreview

LEMMA EndCameraPreview == ASSUME Kept, Previewing, EndCamera PROVE Previewing'
<1>1. ctx \in Contexts /\ ctx # None /\ ctx' = [ctx EXCEPT !.map = StateOf(shown)]
    BY DEF EndCamera, Stable, Kept, Shape, CallFits
<1>2. ctx' \in Contexts
    BY <1>1, ShownFits DEF Kept, Contexts
<1>3. SameFlow
    BY <1>1, <1>2, NoneAssumption DEF SameFlow, Contexts
<1>4. SameStage
    BY LoggedOther DEF EndCamera, SameStage, Kept, Shape
<1>5. NextCall
    BY DEF EndCamera, NextCall
<1> QED
    BY <1>3, <1>4, <1>5, SteadyPreview

LEMMA EndConfirmPreview == ASSUME Kept, Previewing, EndConfirm PROVE Previewing'
<1>1. ctx \in Contexts /\ ctx # None
      /\ ctx' = [ctx EXCEPT !.map = StateOf(shown), !.proof = ctx.admission.target]
    BY DEF EndConfirm, Stable, Kept, Shape, CallFits
<1>2. StateOf(shown) \in States /\ ctx.admission.target \in Nodes
  <2>1. ctx.admission \in Admissions
      BY <1>1 DEF EndConfirm, Stable, Kept, Shape, CallFits, Contexts
  <2> QED
      BY <2>1, ShownFits DEF Kept, Admissions
<1>3. ctx' \in Contexts
    BY <1>1, <1>2 DEF Contexts
<1>4. SameFlow
    BY <1>1, <1>3, NoneAssumption DEF SameFlow, Contexts
<1>5. SameStage /\ NextCall
    BY DEF EndConfirm, SameStage, NextCall
<1> QED
    BY <1>4, <1>5, SteadyPreview

LEMMA IntentPreview == ASSUME Kept, Previewing, Arm \/ Drop PROVE Previewing'
<1>1. ctx \in Contexts /\ ctx # None /\ call = None
    BY DEF Arm, Drop, May, Kept, Shape
<1>2. \E b \in BOOLEAN : ctx' = [ctx EXCEPT !.armed = b]
    BY DEF Arm, Drop
<1>3. SameFlow
    BY <1>1, <1>2, NoneAssumption DEF SameFlow, Contexts
<1>4. SameStage
  <2>1. CASE Arm
      BY <2>1, LoggedOther DEF Arm, SameStage, Kept, Shape
  <2>2. CASE Drop
      BY <2>2 DEF Drop, SameStage
  <2> QED
      BY <2>1, <2>2
<1>5. NextCall
    BY <1>1 DEF Arm, Drop, NextCall
<1> QED
    BY <1>3, <1>4, <1>5, SteadyPreview

LEMMA AskSwipePreview == ASSUME Kept, Previewing, AskSwipe PROVE Previewing'
<1>1. Shape
    BY DEF Kept
<1>2. ctx \in Contexts /\ ctx # None
    BY <1>1 DEF AskSwipe, May, Shape
<1>3. ctx' # None
    BY <1>2, NoneAssumption DEF AskSwipe, Contexts
<1>4. SameFlow
    BY <1>2, <1>3 DEF AskSwipe, SameFlow, Contexts
<1>5. SameStage
    BY DEF AskSwipe, SameStage
<1>6. NextCall
  <2>1. call'.op = "swipe"
      BY <1>1, BeginsFits DEF AskSwipe
  <2>2. Fitting("swipe")
      BY DEF AskSwipe, May, Steps, Fitting
  <2> QED
      BY <2>1, <2>2 DEF NextCall
<1> QED
    BY <1>4, <1>5, <1>6, SteadyPreview

-----------------------------------------------------------------------------
(* Invocations, and exceptions.                                            *)

\* An invocation of ALAS begins before the flows of the script, and one ends
\* where no flow is under way.
LEMMA InvocationPreview == ASSUME Kept, Previewing, Begin \/ End PROVE Previewing'
<1>1. call = None
  <2>1. CASE Begin
      BY <2>1 DEF Begin, Kept, Shape, CallFits
  <2>2. CASE End
      BY <2>2 DEF End
  <2> QED
      BY <2>1, <2>2
<1>2. script' = script /\ call' = None
    BY <1>1 DEF Begin, End
<1>3. CASE script.stage \in {"off", "alas"}
  <2>1. caller' = "leaving" => script.stage = "off"
      BY <1>3 DEF Begin, End, Previewing, ScriptCalls
  <2> QED
      BY <1>2, <1>3, <2>1 DEF Previewing, ScriptCalls, NothingMade, WhilePositioning,
         WhileDeciding, WhileGoing, WhenOver, NoGridTap
<1>4. CASE script.stage \notin {"off", "alas"}
  <2>1. End
      BY <1>4 DEF Begin
  <2>2. script.stage \in {"done", "failed"} /\ ctx' = None /\ caller' = "running"
      BY <1>4, <2>1 DEF End, Previewing, ScriptCalls
  <2> QED
      BY <1>2, <2>2 DEF Previewing, ScriptCalls, NothingMade, WhilePositioning,
         WhileDeciding, WhileGoing, WhenOver, NoGridTap
<1> QED
    BY <1>3, <1>4

\* An exception ends a flow of the script, which keeps what was made.
LEMMA RaisedPreview ==
    ASSUME script \in Scripts, script.stage # "off", call' = None, Raised(script),
           script.made["combat"] = 0, script.made["viewport"] <= 1,
           script.made["positioning"] <= 2
    PROVE  Previewing'
<1>1. script' = [script EXCEPT !.stage = "failed"]
    BY DEF Raised
<1>2. script'.stage = "failed" /\ script'.made = script.made
    BY <1>1 DEF Scripts
<1> QED
    BY <1>2, FailedPreview

LEMMA ExceptionPreview ==
    ASSUME Kept, Previewing, CallRaises \/ Refuses PROVE Previewing'
<1>1. script \in Scripts /\ call' = None /\ Raised(script)
    BY DEF CallRaises, Refuses, Kept, Shape
<1>2. PreviewOnly
    BY PreviewFits
<1>3. CASE script.stage # "off"
    BY <1>1, <1>2, <1>3, RaisedPreview DEF PreviewOnly
<1>4. CASE script.stage = "off"
  <2>1. script' = script
      BY <1>1, <1>4 DEF Raised, Scripts
  <2> QED
      BY <1>4, <2>1, OffPreview
<1> QED
    BY <1>3, <1>4

-----------------------------------------------------------------------------
(* Swipes and taps.                                                        *)

\* A swipe that was made is counted for the flow that made it.
LEMMA SwipeCounted ==
    ASSUME Kept, Previewing, script.stage # "off", call # None, call.op = "swiping",
           Make(SwipeKind, Gesture)
    PROVE  /\ script.stage \in {"position", "goto"} /\ ctx \in Contexts
           /\ SwipeKind = IF script.stage = "position" THEN "positioning" ELSE "viewport"
           /\ Made(SwipeKind).stage = script.stage
           /\ Made(SwipeKind).target = script.target
           /\ Made(SwipeKind).log = script.log
           /\ Made(SwipeKind).made = [script.made EXCEPT ![SwipeKind] = @ + 1]
           /\ used' = [used EXCEPT ![SwipeKind] = @ + 1]
<1>1. script.stage \in {"position", "goto"} /\ ctx # None /\ ctx \in Contexts
      /\ (ctx.placing = None) # (ctx.admission = None)
    BY DEF Previewing, ScriptCalls, Fitting, Kept, Shape, CallFits
<1>2. SwipeKind = IF script.stage = "position" THEN "positioning" ELSE "viewport"
    BY <1>1 DEF Previewing, WhilePositioning, WhileGoing, SwipeKind
<1>3. script \in Scripts /\ Made(SwipeKind) = [script EXCEPT !.made[SwipeKind] = @ + 1]
    BY DEF Made, Kept, Shape
<1> QED
    BY <1>1, <1>2, <1>3 DEF Scripts, Make

LEMMA InjectSwipePreview == ASSUME Kept, Previewing, InjectSwipe, Kept' PROVE Previewing'
<1>1. CASE script.stage = "off"
  <2>1. script' = script
      BY <1>1 DEF InjectSwipe, Made
  <2> QED
      BY <1>1, <2>1, OffPreview
<1>2. ASSUME script.stage # "off" PROVE Previewing'
  <2>1. /\ script.stage \in {"position", "goto"} /\ ctx \in Contexts
        /\ SwipeKind = IF script.stage = "position" THEN "positioning" ELSE "viewport"
        /\ script'.stage = script.stage /\ script'.target = script.target
        /\ script'.log = script.log
        /\ script'.made = [script.made EXCEPT ![SwipeKind] = @ + 1]
        /\ used' = [used EXCEPT ![SwipeKind] = @ + 1]
      BY <1>2, SwipeCounted DEF InjectSwipe
  <2>2. call'.op = "swiped" /\ caller' = caller /\ ctx' = ctx
      BY BeginsFits DEF InjectSwipe, Kept
  <2>3. script.made \in [Kinds -> Nat] /\ used \in [Kinds -> Nat]
      BY DEF Kept, Shape, Scripts
  <2>4. ScriptCalls'
      BY <2>1, <2>2 DEF Previewing, ScriptCalls, Fitting
  <2>5. CASE script.stage = "position"
    <3>1. script'.made["positioning"] = script.made["positioning"] + 1
          /\ used'["positioning"] = used["positioning"] + 1
          /\ script'.made["viewport"] = script.made["viewport"]
          /\ script'.made["combat"] = script.made["combat"]
        BY <2>1, <2>3, <2>5 DEF Kinds
    <3>2. WhilePositioning /\ NoGridTap /\ Proving = 0 /\ Proving' \in 0 .. 1
        BY DEF Previewing, Proving, InjectSwipe
    <3>3. ctx.placed + Proving' <= used'["positioning"]
      <4>1. ctx.placed + Proving <= used["positioning"]
          BY <2>5, <3>2 DEF WhilePositioning
      <4>2. ctx.placed \in Nat /\ used["positioning"] \in Nat
          BY <2>1, <2>3 DEF Contexts, Kinds
      <4> QED
          BY <3>1, <3>2, <4>1, <4>2
    <3>4. WhilePositioning'
        BY <2>2, <2>5, <3>1, <3>2, <3>3 DEF WhilePositioning
    <3> QED
        BY <2>1, <2>4, <2>5, <3>1, <3>2, <3>4 DEF Previewing, NothingMade, WhileDeciding,
           WhileGoing, WhenOver, NoGridTap
  <2>6. CASE script.stage = "goto"
    <3>1. script'.made["viewport"] = script.made["viewport"] + 1
          /\ used'["viewport"] = used["viewport"] + 1
          /\ script'.made["positioning"] = script.made["positioning"]
          /\ script'.made["combat"] = script.made["combat"]
        BY <2>1, <2>3, <2>6 DEF Kinds
    <3>2. WhileGoing /\ NoGridTap
        BY DEF Previewing
    <3>3. used'["viewport"] >= 1
        BY <2>3, <3>1 DEF Kinds
    <3>4. WhileGoing'
        BY <2>1, <2>2, <2>6, <3>1, <3>2, <3>3 DEF WhileGoing
    <3> QED
        BY <2>1, <2>4, <2>6, <3>1, <3>2, <3>4 DEF Previewing, NothingMade, WhileDeciding,
           WhilePositioning, WhenOver, NoGridTap
  <2> QED
      BY <2>1, <2>5, <2>6
<1> QED
    BY <1>1, <1>2

LEMMA SwipeRaisesLatePreview ==
    ASSUME Kept, Previewing, SwipeRaisesLate, Kept' PROVE Previewing'
<1>1. CASE script.stage = "off"
  <2>1. script' = script
      BY <1>1 DEF SwipeRaisesLate, Made, Raised, Kept, Shape, Scripts
  <2> QED
      BY <1>1, <2>1, OffPreview
<1>2. ASSUME script.stage # "off" PROVE Previewing'
  <2>1. /\ script.stage \in {"position", "goto"}
        /\ SwipeKind = IF script.stage = "position" THEN "positioning" ELSE "viewport"
        /\ Made(SwipeKind).stage = script.stage
        /\ Made(SwipeKind).made = [script.made EXCEPT ![SwipeKind] = @ + 1]
        /\ used' = [used EXCEPT ![SwipeKind] = @ + 1]
      BY <1>2, SwipeCounted DEF SwipeRaisesLate
  <2>2. Made(SwipeKind) \in Scripts /\ SwipeKind \in Kinds
      BY SwipeFits, MadeFits DEF Kept
  <2>3. script' = [Made(SwipeKind) EXCEPT !.stage = "failed"] /\ call' = None
      BY <1>2, <2>1 DEF SwipeRaisesLate, Raised
  <2>4. script'.stage = "failed"
        /\ script'.made = [script.made EXCEPT ![SwipeKind] = @ + 1]
      BY <2>1, <2>2, <2>3 DEF Scripts
  <2>5. script.made \in [Kinds -> Nat] /\ used \in [Kinds -> Nat]
      BY DEF Kept, Shape, Scripts
  <2>6. used'["viewport"] <= 1 /\ used'["positioning"] <= 2
    <3>1. grant' \in Grants /\ LeasesKept' /\ used' \in [Kinds -> Nat]
        BY DEF Kept, Shape
    <3>2. grant'["viewport"] \in 0 .. 1 /\ grant'["positioning"] \in 0 .. 2
        BY <3>1, GrantsAssumption DEF Kinds
    <3>3. used'["viewport"] \in Nat /\ used'["positioning"] \in Nat
        BY <3>1 DEF Kinds
    <3> QED
        BY <3>1, <3>2, <3>3 DEF LeasesKept
  <2>7. CASE script.stage = "position"
      BY <2>1, <2>3, <2>4, <2>5, <2>6, <2>7, FailedPreview DEF Previewing,
         WhilePositioning, NoGridTap, Kinds
  <2>8. CASE script.stage = "goto"
      BY <2>1, <2>3, <2>4, <2>5, <2>6, <2>8, FailedPreview DEF Previewing,
         WhileGoing, NoGridTap, Kinds
  <2> QED
      BY <2>1, <2>7, <2>8
<1> QED
    BY <1>1, <1>2

LEMMA EndSwipePreview == ASSUME Kept, Previewing, EndSwipe PROVE Previewing'
<1>1. CASE script.stage = "off"
    BY <1>1, OffPreview DEF EndSwipe
<1>2. ASSUME script.stage # "off" PROVE Previewing'
  <2>1. /\ ctx # None /\ call # None /\ call.op = "swiped" /\ call' = None
        /\ UNCHANGED <<script, used, caller>>
      BY DEF EndSwipe, Stable, Kept, Shape, CallFits
  <2>2. script.stage \in {"position", "goto"} /\ Proving = 1 /\ Proving' = 0
      BY <1>2, <2>1 DEF Previewing, ScriptCalls, Fitting, Proving
  <2>3. PlacedWithin
      BY <2>1 DEF Kept, Ledger
  <2>4. /\ ctx \in Contexts /\ ctx' \in Contexts /\ ctx'.placing = ctx.placing
        /\ ctx'.placed = IF ctx.placing # None THEN ctx.placed + 1 ELSE ctx.placed
      BY <2>3, ProvenSwipeFits DEF Kept
  <2>5. ctx' # None
      BY <2>4, NoneAssumption
  <2>6. ScriptCalls'
      BY <2>1 DEF Previewing, ScriptCalls
  <2>7. CASE script.stage = "position"
    <3>1. WhilePositioning
        BY DEF Previewing
    <3>2. ctx.admission = None /\ ctx.placing # None
        BY <2>1, <2>7, <3>1 DEF WhilePositioning, Kept, Shape, CallFits
    <3>3. ctx'.admission = None /\ ctx'.completed = ctx.completed
        BY <2>4, <3>2 DEF EndSwipe, Contexts
    <3>4. ctx.placed \in Nat /\ used["positioning"] \in Nat
        BY <2>4 DEF Kept, Shape, Contexts, Kinds
    <3>5. ctx'.placed + Proving' <= used'["positioning"] /\ ctx'.placed >= 1
        BY <2>1, <2>2, <2>4, <2>7, <3>1, <3>2, <3>4 DEF WhilePositioning
    <3>6. WhilePositioning'
        BY <2>1, <2>5, <2>7, <3>1, <3>3, <3>5 DEF WhilePositioning
    <3> QED
        BY <2>1, <2>6, <2>7, <3>6 DEF Previewing, NothingMade, WhileDeciding,
           WhileGoing, WhenOver, NoGridTap
  <2>8. CASE script.stage = "goto"
    <3>1. WhileGoing
        BY DEF Previewing
    <3>2. ctx.placing = None /\ ctx.admission # None
        BY <2>8, <3>1 DEF WhileGoing
    <3>3. ctx' = [ctx EXCEPT !.map = StateOf(shown), !.armed = FALSE, !.moved = TRUE,
                             !.required = FALSE, !.admission.view = shown.view]
        BY <3>2 DEF EndSwipe
    <3>4. ctx.admission \in Admissions
        BY <2>4, <3>2 DEF Contexts
    <3>5. /\ ctx'.admission = [ctx.admission EXCEPT !.view = shown.view]
          /\ ctx'.rechecked = ctx.rechecked
        BY <2>4, <3>3 DEF Contexts
    <3>6. ctx'.admission.target = ctx.admission.target
        BY <3>4, <3>5 DEF Admissions
    <3>7. ctx'.admission # None
        BY <2>3, <3>2, ProvenSwipeFits DEF Kept
    <3>8. used["viewport"] >= 1
        BY <2>2, <2>8, <3>1 DEF WhileGoing
    <3>9. WhileGoing'
        BY <2>1, <2>4, <2>5, <2>8, <3>1, <3>2, <3>5, <3>6, <3>7, <3>8 DEF WhileGoing
    <3> QED
        BY <2>1, <2>6, <2>8, <3>9 DEF Previewing, NothingMade, WhileDeciding,
           WhilePositioning, WhenOver, NoGridTap
  <2> QED
      BY <2>2, <2>7, <2>8
<1> QED
    BY <1>1, <1>2

LEMMA TapPreview ==
    ASSUME Kept, Previewing, TapReturns \/ TapRaisesLate PROVE Previewing'
<1>1. script.stage = "off"
    BY DEF TapReturns, TapRaisesLate, Previewing, ScriptCalls, Fitting
<1>2. Made("combat") = script
    BY <1>1 DEF Made
<1>3. script' = script
    BY <1>1, <1>2 DEF TapReturns, TapRaisesLate, Raised
<1> QED
    BY <1>1, <1>3, OffPreview

LEMMA RecheckPreview == ASSUME Kept, Previewing, Recheck PROVE Previewing'
<1>1. CASE script.stage = "off"
    BY <1>1, OffPreview DEF Recheck, Logged
<1>2. ASSUME script.stage # "off" PROVE Previewing'
  <2>1. script.stage = "goto"
      BY <1>2 DEF Recheck, May, Steps
  <2>2. /\ ctx # None /\ ctx \in Contexts /\ ctx.admission \in Admissions
        /\ ctx.map \in States /\ script \in Scripts
        /\ call = None /\ UNCHANGED <<call, caller, used>>
    <3>1. ctx # None /\ ctx \in Contexts /\ ctx.admission # None
          /\ call = None /\ UNCHANGED <<call, caller, used>>
        BY DEF Recheck, May, Kept, Shape
    <3>2. ctx.map # None /\ script \in Scripts
        BY <3>1 DEF Kept, Shape, AdmittedOnMap
    <3> QED
        BY <3>1, <3>2 DEF Contexts
  <2>3. ctx' = [ctx EXCEPT !.admission.view = ctx.map.view, !.rechecked = TRUE]
      BY DEF Recheck
  <2>4. PICK seen : seen = [ctx.admission EXCEPT !.view = ctx.map.view]
      OBVIOUS
  <2>5. seen \in Admissions /\ seen.target = ctx.admission.target /\ seen # None
      BY <2>2, <2>4, NoneAssumption DEF Admissions, States
  <2>6. ctx' = [ctx EXCEPT !.admission = seen, !.rechecked = TRUE]
      BY <2>2, <2>3, <2>4 DEF Contexts
  <2>7. /\ ctx' \in Contexts /\ ctx'.admission = seen /\ ctx'.rechecked
        /\ ctx'.placing = ctx.placing /\ ctx'.moved = ctx.moved
      BY <2>2, <2>5, <2>6 DEF Contexts
  <2>8. ctx' # None
      BY <2>7, NoneAssumption
  <2>9. /\ script'.stage = script.stage /\ script'.target = script.target
        /\ script'.made = script.made
      BY <2>2 DEF Recheck, Logged, Scripts
  <2>10. WhileGoing'
    <3>1. WhileGoing /\ Proving' = Proving
        BY <2>2 DEF Previewing, Proving
    <3> QED
        BY <2>1, <2>2, <2>5, <2>7, <2>8, <2>9, <3>1 DEF WhileGoing
  <2> QED
      BY <2>1, <2>2, <2>9, <2>10 DEF Previewing, ScriptCalls, NothingMade,
         WhilePositioning, WhileDeciding, WhenOver, NoGridTap
<1> QED
    BY <1>1, <1>2

-----------------------------------------------------------------------------
(* Admissions, and the flows of the script.                                *)

LEMMA AuthorizePositioningPreview ==
    ASSUME Kept, Previewing, NEW n \in Nodes, AuthorizePositioning(n) PROVE Previewing'
<1>1. script' = script
    BY DEF AuthorizePositioning
<1>2. CASE script.stage = "off"
    BY <1>1, <1>2, OffPreview
<1>3. ASSUME script.stage # "off" PROVE Previewing'
  <2>1. script.stage = "position"
      BY <1>3 DEF AuthorizePositioning, May, Steps
  <2>2. /\ ctx \in Contexts /\ ctx # None /\ call = None /\ ctx.map # None
        /\ ctx' = [ctx EXCEPT !.placing = Admits(n)]
        /\ UNCHANGED <<call, caller, used>>
      BY DEF AuthorizePositioning, May, Kept, Shape
  <2>3. ctx' \in Contexts
      BY <2>2, AdmitsFits DEF Contexts
  <2>4. /\ ctx' # None /\ ctx'.admission = ctx.admission /\ ctx'.placed = ctx.placed
        /\ ctx'.completed = ctx.completed
      BY <2>2, <2>3, NoneAssumption DEF Contexts
  <2>5. Proving' = Proving
      BY <2>2 DEF Proving
  <2> QED
      BY <1>1, <2>1, <2>2, <2>4, <2>5 DEF Previewing, ScriptCalls, NothingMade,
         WhilePositioning, WhileDeciding, WhileGoing, WhenOver, NoGridTap
<1> QED
    BY <1>2, <1>3

\* ALAS admits an enemy in a flow of its own, and the script the same enemy
\* in the last flow, whose log begins with the admission.
LEMMA AuthorizeCombatPreview ==
    ASSUME Kept, Previewing, NEW n \in Nodes, AuthorizeCombat(n) PROVE Previewing'
<1>1. /\ ctx \in Contexts /\ ctx # None /\ call = None /\ ctx.map # None
      /\ ctx' = [ctx EXCEPT !.admission = Admits(n), !.required = ctx.viewport = 1]
      /\ UNCHANGED <<call, caller, used>> /\ script \in Scripts /\ caller = "running"
    BY DEF AuthorizeCombat, May, Kept, Shape
<1>2. script.stage \in {"off", "alas", "decide"}
    BY DEF AuthorizeCombat, May, Steps
<1>3. CASE script.stage \in {"off", "alas"}
  <2>1. script' = script
      BY <1>3 DEF AuthorizeCombat
  <2> QED
      BY <1>1, <1>3, <2>1 DEF Previewing, ScriptCalls, NothingMade, WhilePositioning,
         WhileDeciding, WhileGoing, WhenOver, NoGridTap
<1>4. CASE script.stage = "decide"
  <2>1. n = script.target /\ script' = [script EXCEPT !.stage = "goto", !.log = <<>>]
      BY <1>4 DEF AuthorizeCombat
  <2>2. /\ script'.stage = "goto" /\ script'.target = n /\ script'.made = script.made
        /\ script'.log = <<>>
      BY <1>1, <2>1 DEF Scripts
  <2>3. WhileDeciding /\ NoGridTap
      BY DEF Previewing
  <2>4. Admits(n) \in Admissions /\ Admits(n) # None /\ Admits(n).target = n
      BY <1>1, AdmitsFits
  <2>5. PICK a : a = Admits(n)
      OBVIOUS
  <2>6. PICK r \in BOOLEAN : r = (ctx.viewport = 1)
      OBVIOUS
  <2>7. ctx' = [ctx EXCEPT !.admission = a, !.required = r]
      BY <1>1, <2>5, <2>6
  <2>8. /\ ctx' \in Contexts /\ ctx'.admission = a /\ ctx'.placing = ctx.placing
        /\ ctx'.moved = ctx.moved
      BY <1>1, <2>4, <2>5, <2>7 DEF Contexts
  <2>9. ctx' # None /\ Proving' = 0
      BY <1>1, <2>8, NoneAssumption DEF Proving
  <2>10. WhileGoing'
      BY <1>1, <1>4, <2>2, <2>3, <2>4, <2>5, <2>8, <2>9 DEF WhileDeciding, WhileGoing
  <2> QED
      BY <1>1, <2>2, <2>3, <2>10 DEF Previewing, ScriptCalls, NothingMade,
         WhilePositioning, WhileDeciding, WhenOver, NoGridTap
<1> QED
    BY <1>2, <1>3, <1>4

LEMMA CompletePositioningPreview ==
    ASSUME Kept, Previewing, CompletePositioning PROVE Previewing'
<1>1. script' = script
    BY DEF CompletePositioning
<1>2. CASE script.stage = "off"
    BY <1>1, <1>2, OffPreview
<1>3. ASSUME script.stage # "off" PROVE Previewing'
  <2>1. script.stage = "position"
      BY <1>3 DEF CompletePositioning, May, Steps
  <2>2. /\ ctx \in Contexts /\ call = None /\ ctx.placed \in 1 .. 2
        /\ ctx' = [ctx EXCEPT !.positioning = 0, !.completed = TRUE] /\ 0 \in 0 .. 2
        /\ UNCHANGED <<call, caller, used>>
      BY DEF CompletePositioning, May, Kept, Shape
  <2>3. ctx' \in Contexts
      BY <2>2 DEF Contexts
  <2>4. /\ ctx' # None /\ ctx'.admission = ctx.admission /\ ctx'.placed = ctx.placed
      BY <2>2, <2>3, NoneAssumption DEF Contexts
  <2>5. Proving' = Proving /\ ctx'.placed >= 1
      BY <2>2, <2>4 DEF Proving
  <2> QED
      BY <1>1, <2>1, <2>2, <2>4, <2>5 DEF Previewing, ScriptCalls, NothingMade,
         WhilePositioning, WhileDeciding, WhileGoing, WhenOver, NoGridTap
<1> QED
    BY <1>2, <1>3

\* What a flow of the script begins with.
LEMMA FlowFits ==
    ASSUME Kept, NEW stage \in {"position", "decide"}, Flow(stage)
    PROVE  /\ ctx' \in Contexts /\ ctx' # None /\ ctx'.admission = None
           /\ ctx'.placing = None /\ ~ctx'.moved /\ ~ctx'.rechecked
           /\ ctx'.placed = 0 /\ ~ctx'.completed
           /\ \A k \in Kinds : used'[k] = 0
           /\ call' = None /\ caller' = "running"
           /\ script'.stage = stage /\ script'.made = script.made
<1>1. ctx' = Fresh(grant) /\ grant \in Grants /\ used' = Zero /\ script \in Scripts
      /\ call' = None /\ caller' = "running"
    BY DEF Flow, Kept, Shape
<1>2. ctx' \in Contexts /\ ctx' # None
    BY <1>1, FreshFits, NoneAssumption
<1>3. script'.stage = stage /\ script'.made = script.made
    BY <1>1 DEF Flow, Scripts
<1> QED
    BY <1>1, <1>2, <1>3, ZeroFits DEF Fresh

LEMMA ScriptedPreview == ASSUME Kept, Previewing, Scripted PROVE Previewing'
<1>1. script \in Scripts /\ script.made \in [Kinds -> Nat] /\ used \in [Kinds -> Nat]
    BY DEF Kept, Shape, Scripts
<1>2. CASE EnterPositioning
  <2>1. Flow("position") /\ \A k \in Kinds : script.made[k] = 0
      BY <1>2 DEF EnterPositioning, Previewing, NothingMade
  <2>2. /\ ctx' \in Contexts /\ ctx' # None /\ ctx'.admission = None
        /\ ctx'.placed = 0 /\ ~ctx'.completed /\ used'["positioning"] = 0
        /\ call' = None /\ caller' = "running"
        /\ script'.stage = "position" /\ script'.made = script.made
      BY <2>1, FlowFits DEF Kinds
  <2>3. WhilePositioning'
      BY <2>1, <2>2 DEF WhilePositioning, Proving, Kinds
  <2>4. NoGridTap'
      BY <2>2 DEF Previewing, NoGridTap
  <2> QED
      BY <2>2, <2>3, <2>4 DEF Previewing, ScriptCalls, NothingMade, WhileDeciding,
         WhileGoing, WhenOver
<1>3. CASE EnterDecision
  <2>1. Flow("decide") /\ script.stage = "position" /\ ctx.completed
      BY <1>3 DEF EnterDecision
  <2>2. /\ ctx' # None /\ ctx'.placing = None /\ ~ctx'.moved /\ ~ctx'.rechecked
        /\ used'["viewport"] = 0 /\ call' = None /\ caller' = "running"
        /\ script'.stage = "decide" /\ script'.made = script.made
      BY <2>1, FlowFits DEF Kinds
  <2>3. script.made["viewport"] = 0 /\ script.made["positioning"] \in 1 .. 2
    <3>1. WhilePositioning /\ ctx \in Contexts
        BY <2>1 DEF Previewing, WhilePositioning, Kept, Shape
    <3>2. ctx.placed \in Nat /\ Proving \in 0 .. 1 /\ used["positioning"] \in Nat
        BY <1>1, <3>1 DEF Contexts, Proving, Kinds
    <3>3. used["positioning"] >= 1
        BY <2>1, <3>1, <3>2 DEF WhilePositioning
    <3>4. script.made["positioning"] <= 2
        BY PreviewFits DEF PreviewOnly
    <3> QED
        BY <2>1, <3>1, <3>2, <3>3, <3>4 DEF WhilePositioning
  <2>4. WhileDeciding'
      BY <2>2, <2>3 DEF WhileDeciding
  <2>5. NoGridTap'
      BY <2>2 DEF Previewing, NoGridTap
  <2> QED
      BY <2>2, <2>4, <2>5 DEF Previewing, ScriptCalls, NothingMade, WhilePositioning,
         WhileGoing, WhenOver
<1>4. CASE Capture
  <2>1. /\ script.stage = "goto" /\ call = None /\ ctx.moved
        /\ UNCHANGED <<ctx, call, caller, used>> /\ caller = "running"
        /\ script' = [script EXCEPT !.stage = "done"]
        /\ script.log = <<"swipe", "update", "recheck">>
      BY <1>4 DEF Capture, Continued
  <2>2. script'.stage = "done" /\ script'.target = script.target
        /\ script'.made = script.made
      BY <1>1, <2>1 DEF Scripts
  <2>3. WhileGoing /\ NoGridTap
      BY DEF Previewing
  <2>4. ctx.rechecked
    <3>1. 3 \in DOMAIN script.log /\ script.log[3] = "recheck"
        BY <2>1
    <3> QED
        BY <2>1, <2>3, <3>1 DEF WhileGoing
  <2>5. script.made["viewport"] = 1
    <3>1. script.made["viewport"] >= 1
        BY <2>1, <2>3 DEF WhileGoing
    <3>2. script.made["viewport"] <= 1
        BY PreviewFits DEF PreviewOnly
    <3>3. script.made["viewport"] \in Nat
        BY <1>1 DEF Kinds
    <3> QED
        BY <3>1, <3>2, <3>3
  <2>6. WhenOver'
      BY <2>1, <2>2, <2>3, <2>4, <2>5 DEF WhenOver, WhileGoing
  <2> QED
      BY <2>1, <2>2, <2>3, <2>6 DEF Previewing, ScriptCalls, NothingMade,
         WhilePositioning, WhileDeciding, WhileGoing, NoGridTap
<1> QED
    BY <1>2, <1>3, <1>4 DEF Scripted

-----------------------------------------------------------------------------
(* Every step keeps what the flows of the script are about.                *)

LEMMA InitPreview == Init => Previewing
<1>1. SUFFICES ASSUME Init PROVE Previewing
    OBVIOUS
<1>2. /\ call = None /\ caller = "running"
      /\ script.stage \in {"off", "alas"} /\ script.made = Zero
    BY <1>1 DEF Init
<1> QED
    BY <1>2, ZeroFits DEF Previewing, ScriptCalls, NothingMade, WhilePositioning,
       WhileDeciding, WhileGoing, WhenOver, NoGridTap, Kinds

LEMMA StepPreview == ASSUME Kept, Previewing, [Next]_vars, Kept' PROVE Previewing'
<1>1. CASE Environment
    BY <1>1, EnvironmentPreview
<1>2. CASE Begin \/ End
    BY <1>2, InvocationPreview
<1>3. CASE CallRaises \/ Refuses
    BY <1>3, ExceptionPreview
<1>4. CASE Observing
    BY <1>4, BeginsPreview, EndMapPreview, EndCameraPreview, EnvironmentPreview
       DEF Observing
<1>5. CASE Admitting
    BY <1>5, AuthorizePositioningPreview, AuthorizeCombatPreview DEF Admitting
<1>6. CASE Swiping
    BY <1>6, IntentPreview, AskSwipePreview, BeginsPreview, InjectSwipePreview,
       SwipeRaisesLatePreview, EndSwipePreview, CompletePositioningPreview DEF Swiping
<1>7. CASE Tapping
    BY <1>7, RecheckPreview, BeginsPreview, TapPreview, EndConfirmPreview DEF Tapping
<1>8. CASE Scripted
    BY <1>8, ScriptedPreview
<1>9. CASE UNCHANGED vars
  <2>1. SameStage /\ SameFlow /\ NextCall
      BY <1>9 DEF vars, SameStage, SameFlow, NextCall
  <2> QED
      BY <2>1, SteadyPreview
<1> QED
    BY <1>1, <1>2, <1>3, <1>4, <1>5, <1>6, <1>7, <1>8, <1>9 DEF Next

-----------------------------------------------------------------------------
(* The battles of a flow.                                                  *)

\* The map n is the map m with some battles won since: an enemy that is gone
\* took ammunition, and of two each took its own, until none was left.
Follows(m, n) ==
    /\ n.enemies \subseteq m.enemies
    /\ n.ammo <= m.ammo
    /\ n.enemies # m.enemies => n.ammo = 0 \/ n.ammo + 1 <= m.ammo
    /\ \A x, y \in m.enemies \ n.enemies : x # y => n.ammo = 0 \/ n.ammo + 2 <= m.ammo

\* What was read, admitted or shown is an earlier map of the game.
MapsFollow ==
    /\ Follows(shown.map, game.map)
    /\ ctx # None /\ ctx.map # None =>
          Follows(ctx.map.map, shown.map) /\ Follows(ctx.map.map, game.map)
    /\ ctx # None /\ ctx.admission # None =>
          Follows(ctx.admission.map, shown.map) /\ Follows(ctx.admission.map, game.map)

\* The first battle that was won since the admission was for an enemy of the
\* admitted map, and a battle that ALAS counted is one that is shown.
BattlesCount ==
    ctx # None /\ ctx.admission # None =>
        /\ ctx.admission.target \in ctx.admission.map.enemies
        /\ past.won # <<>> => /\ Head(past.won) \in ctx.admission.map.enemies
                              /\ Head(past.won) \notin game.map.enemies
        /\ shown.battle /\ shown.map.fleet \notin game.map.enemies => past.won # <<>>
        /\ past.seen >= 1 => past.won # <<>> /\ Head(past.won) \notin shown.map.enemies

ProofStands ==
    ctx # None /\ ctx.proof # None => ctx.admission # None /\ ctx.admission.target = ctx.proof

Witnessed == Fought(shown) /\ MapsFollow /\ BattlesCount /\ ProofStands /\ ProofIsOfBattle

LEMMA FollowsItself == ASSUME NEW m \in Maps PROVE Follows(m, m)
BY CellsAssumption DEF Follows, Maps

LEMMA FollowsWin ==
    ASSUME NEW m \in Maps, NEW n \in Maps, Follows(m, n), NEW z \in n.enemies,
           NEW k \in Maps, k.enemies = n.enemies \ {z},
           k.ammo = IF n.ammo > 0 THEN n.ammo - 1 ELSE 0
    PROVE  Follows(m, k)
<1>1. m.ammo \in Nat /\ n.ammo \in Nat /\ n.ammo <= m.ammo
    BY CellsAssumption DEF Maps, Follows
<1>2. /\ k.enemies \subseteq m.enemies /\ k.ammo <= m.ammo
      /\ k.ammo = 0 \/ k.ammo + 1 <= m.ammo
    BY <1>1 DEF Follows
<1>3. ASSUME NEW x \in m.enemies \ k.enemies, NEW y \in m.enemies \ k.enemies, x # y
      PROVE  k.ammo = 0 \/ k.ammo + 2 <= m.ammo
  <2>1. CASE x \notin n.enemies /\ y \notin n.enemies
    <3>1. n.ammo = 0 \/ n.ammo + 2 <= m.ammo
        BY <1>3, <2>1 DEF Follows
    <3> QED
        BY <1>1, <3>1
  <2>2. CASE x \in n.enemies \/ y \in n.enemies
    <3>1. \E w \in m.enemies : w \notin n.enemies
        BY <1>3, <2>2
    <3>2. n.ammo = 0 \/ n.ammo + 1 <= m.ammo
        BY <1>1, <3>1 DEF Follows
    <3> QED
        BY <1>1, <3>2
  <2> QED
      BY <2>1, <2>2
<1> QED
    BY <1>2, <1>3 DEF Follows

\* What the game does with an input leaves its enemies and its ammunition.
LEMMA InputKeepsMap ==
    ASSUME game \in Games, HandleSwipe \/ HandleTap
    PROVE  game'.map.enemies = game.map.enemies /\ game'.map.ammo = game.map.ammo
<1>1. CASE UNCHANGED game
    BY <1>1
<1>2. ASSUME NEW v \in Views, game' = [game EXCEPT !.view = v]
      PROVE  game'.map = game.map
    BY <1>2 DEF Games
<1>3. ASSUME NEW n, NEW hit,
             game' = [game EXCEPT !.map.fleet = n, !.battle = hit]
      PROVE  game'.map.enemies = game.map.enemies /\ game'.map.ammo = game.map.ammo
    BY <1>3 DEF Games, Maps
<1>4. CASE HandleSwipe
    BY <1>1, <1>2, <1>4 DEF HandleSwipe
<1>5. CASE HandleTap
  <2>1. CASE ~game.battle
    <3>1. PICK n \in Under(Head(pending)) :
              game' = [game EXCEPT !.map.fleet = n, !.battle = n \in game.map.enemies]
        BY <1>5, <2>1 DEF HandleTap
    <3>2. PICK hit : hit = (n \in game.map.enemies)
        OBVIOUS
    <3>3. game' = [game EXCEPT !.map.fleet = n, !.battle = hit]
        BY <3>1, <3>2
    <3> QED
        BY <1>3, <3>3
  <2>2. CASE game.battle
      BY <1>1, <1>5, <2>2 DEF HandleTap
  <2> QED
      BY <2>1, <2>2 DEF HandleTap, Games
<1> QED
    BY <1>4, <1>5

\* A step of the game keeps the order of the maps.
LEMMA GameFollows ==
    ASSUME Shape, HandleSwipe \/ HandleTap \/ BattleEnds, NEW m \in Maps,
           Follows(m, game.map)
    PROVE  Follows(m, game'.map)
<1>1. game \in Games /\ game.map \in Maps
    BY DEF Shape, Games
<1>2. ASSUME HandleSwipe \/ HandleTap \/ game'.map = game.map
      PROVE  Follows(m, game'.map)
  <2>1. game'.map.enemies = game.map.enemies /\ game'.map.ammo = game.map.ammo
      BY <1>1, <1>2, InputKeepsMap
  <2> QED
      BY <2>1 DEF Follows
<1>3. ASSUME BattleEnds, game'.map # game.map PROVE Follows(m, game'.map)
  <2>1. /\ game' = [game EXCEPT !.battle = FALSE,
                                !.map.enemies = @ \ {game.map.fleet},
                                !.map.ammo = IF @ > 0 THEN @ - 1 ELSE 0]
      BY <1>1, <1>3 DEF BattleEnds, Games
  <2>2. /\ game'.map.enemies = game.map.enemies \ {game.map.fleet}
        /\ game'.map.ammo = IF game.map.ammo > 0 THEN game.map.ammo - 1 ELSE 0
      BY <1>1, <2>1 DEF Games, Maps
  <2>3. game.map.fleet \in game.map.enemies
      BY <1>3 DEF BattleEnds, Shape, Fought
  <2>4. game'.map \in Maps
      BY <1>3, BattleEndsShape DEF Shape, Games
  <2> QED
      BY <1>1, <2>2, <2>3, <2>4, FollowsWin
<1> QED
    BY <1>2, <1>3

-----------------------------------------------------------------------------
(* The steps that are not about a battle.                                  *)

\* A new flow has read and admitted nothing; in one that goes on the map that
\* was read may be replaced by what is shown, and an admission keeps its map.
QuietBattle ==
    /\ UNCHANGED <<game, shown>> /\ past'.won = past.won /\ past'.seen = past.seen
    /\ ctx' # None =>
          \/ ctx'.map = None /\ ctx'.admission = None /\ ctx'.proof = None
          \/ /\ ctx # None /\ ctx'.proof = ctx.proof
             /\ ctx'.map = ctx.map \/ ctx'.map.map = shown.map
             /\ ctx'.admission # None =>
                   /\ ctx.admission # None
                   /\ ctx'.admission.map = ctx.admission.map
                   /\ ctx'.admission.target = ctx.admission.target
             /\ ctx.admission # None => ctx'.admission # None

LEMMA QuietWitnessed == ASSUME Kept, Witnessed, QuietBattle PROVE Witnessed'
<1>1. shown.map \in Maps /\ game.map \in Maps
    BY DEF Kept, Shape, Games
<1>2. Follows(shown.map, shown.map)
    BY <1>1, FollowsItself
<1>3. MapsFollow'
    BY <1>2 DEF Witnessed, MapsFollow, QuietBattle
<1>4. BattlesCount'
    BY DEF Witnessed, BattlesCount, QuietBattle
<1>5. ProofStands'
    BY DEF Witnessed, ProofStands, QuietBattle
<1>6. ProofIsOfBattle'
    BY DEF Witnessed, ProofStands, ProofIsOfBattle, QuietBattle
<1> QED
    BY <1>3, <1>4, <1>5, <1>6 DEF Witnessed, QuietBattle, Fought

\* An exception leaves the count of the battles.
LEMMA RaisedBattles ==
    ASSUME past \in Pasts, NEW from, Raised(from)
    PROVE  past'.won = past.won /\ past'.seen = past.seen
BY DEF Raised, Pasts

LEMMA SameContextQuiet ==
    ASSUME Kept,
           \/ BeginMap \/ BeginCamera \/ ReadAgain \/ AimSwipe \/ InjectSwipe
           \/ AskTap \/ TapRaisesLate \/ BeginConfirm \/ Capture
    PROVE  QuietBattle
<1>1. UNCHANGED <<game, shown, ctx>>
    BY DEF BeginMap, BeginCamera, ReadAgain, AimSwipe, InjectSwipe, AskTap,
       TapRaisesLate, BeginConfirm, Capture
<1>2. past'.won = past.won /\ past'.seen = past.seen
    BY RaisedBattles DEF BeginMap, BeginCamera, ReadAgain, AimSwipe, InjectSwipe, AskTap,
       TapRaisesLate, BeginConfirm, Capture, Kept, Shape
<1> QED
    BY <1>1, <1>2 DEF QuietBattle

LEMMA NewContextQuiet ==
    ASSUME Kept, Begin \/ End \/ EnterPositioning \/ EnterDecision
    PROVE  QuietBattle
<1>1. UNCHANGED <<game, shown>> /\ past \in Pasts
    BY DEF Begin, End, EnterPositioning, EnterDecision, Flow, Kept, Shape
<1>2. past'.won = past.won /\ past'.seen = past.seen
    BY <1>1 DEF Begin, End, EnterPositioning, EnterDecision, Flow, Pasts
<1>3. ctx' = None \/ ctx' = Fresh(grant)
    BY DEF Begin, End, EnterPositioning, EnterDecision, Flow
<1> QED
    BY <1>1, <1>2, <1>3 DEF QuietBattle, Fresh

\* What a step changes of a context when it is no matter of a battle.
LEMMA SameRecordsQuiet ==
    ASSUME Kept, ctx # None, UNCHANGED <<game, shown>>,
           past'.won = past.won, past'.seen = past.seen,
           ctx'.admission = ctx.admission, ctx'.proof = ctx.proof,
           ctx'.map = ctx.map \/ ctx'.map.map = shown.map
    PROVE  QuietBattle
BY DEF QuietBattle

LEMMA RunningQuiet ==
    ASSUME Kept, CallRaises \/ Refuses \/ Arm \/ Drop \/ AskSwipe \/ SwipeRaisesLate
                 \/ CompletePositioning \/ TapReturns
    PROVE  QuietBattle
<1>1. ctx \in Contexts /\ ctx # None
    BY DEF CallRaises, Refuses, Arm, Drop, AskSwipe, SwipeRaisesLate,
       CompletePositioning, TapReturns, May, Kept, Shape, CallFits
<1>2. ctx'.admission = ctx.admission /\ ctx'.proof = ctx.proof /\ ctx'.map = ctx.map
  <2>1. CASE CallRaises \/ Refuses \/ Arm \/ Drop \/ SwipeRaisesLate
      BY <1>1, <2>1 DEF CallRaises, Refuses, Arm, Drop, SwipeRaisesLate, Contexts
  <2>2. CASE AskSwipe \/ CompletePositioning \/ TapReturns
      BY <1>1, <2>2 DEF AskSwipe, CompletePositioning, TapReturns, Contexts
  <2> QED
      BY <2>1, <2>2
<1>3. past'.won = past.won /\ past'.seen = past.seen
    BY RaisedBattles DEF CallRaises, Refuses, Arm, Drop, AskSwipe, SwipeRaisesLate,
       CompletePositioning, TapReturns, Kept, Shape
<1>4. UNCHANGED <<game, shown>>
    BY DEF CallRaises, Refuses, Arm, Drop, AskSwipe, SwipeRaisesLate,
       CompletePositioning, TapReturns
<1> QED
    BY <1>1, <1>2, <1>3, <1>4, SameRecordsQuiet

LEMMA LookingQuiet ==
    ASSUME Kept, EndMap \/ EndCamera PROVE QuietBattle
<1>1. ctx \in Contexts /\ ctx # None /\ ctx' = [ctx EXCEPT !.map = StateOf(shown)]
      /\ UNCHANGED <<game, shown, past>>
    BY DEF EndMap, EndCamera, Stable, Kept, Shape, CallFits
<1>2. ctx'.admission = ctx.admission /\ ctx'.proof = ctx.proof
      /\ ctx'.map = StateOf(shown)
    BY <1>1 DEF Contexts
<1> QED
    BY <1>1, <1>2, SameRecordsQuiet DEF StateOf

LEMMA PlacingQuiet ==
    ASSUME Kept, NEW n \in Nodes, AuthorizePositioning(n) PROVE QuietBattle
<1>1. ctx \in Contexts /\ ctx # None /\ ctx' = [ctx EXCEPT !.placing = Admits(n)]
      /\ UNCHANGED <<game, shown, past>>
    BY DEF AuthorizePositioning, May, Kept, Shape
<1>2. ctx'.admission = ctx.admission /\ ctx'.proof = ctx.proof /\ ctx'.map = ctx.map
    BY <1>1 DEF Contexts
<1> QED
    BY <1>1, <1>2, SameRecordsQuiet

\* The view of an admission changes, and its map and target do not.
LEMMA ViewsChange ==
    ASSUME NEW a \in Admissions, NEW v
    PROVE  /\ [a EXCEPT !.view = v].map = a.map
           /\ [a EXCEPT !.view = v].target = a.target
           /\ v \in Views => [a EXCEPT !.view = v] \in Admissions
BY DEF Admissions

LEMMA EndSwipeQuiet == ASSUME Kept, EndSwipe PROVE QuietBattle
<1>1. ctx \in Contexts /\ ctx # None /\ UNCHANGED <<game, shown, past>>
    BY DEF EndSwipe, Stable, Kept, Shape, CallFits
<1>2. CASE ctx.placing # None
  <2>1. ctx' = [ctx EXCEPT !.map = StateOf(shown), !.armed = FALSE, !.placed = @ + 1]
      BY <1>2 DEF EndSwipe
  <2>2. ctx'.admission = ctx.admission /\ ctx'.proof = ctx.proof
        /\ ctx'.map = StateOf(shown)
      BY <1>1, <2>1 DEF Contexts
  <2> QED
      BY <1>1, <2>2, SameRecordsQuiet DEF StateOf
<1>3. CASE ctx.placing = None
  <2>1. ctx.admission # None /\ ctx.admission \in Admissions
      BY <1>1, <1>3 DEF EndSwipe, Stable, Kept, Shape, CallFits, Contexts
  <2>2. ctx' = [ctx EXCEPT !.map = StateOf(shown), !.armed = FALSE, !.moved = TRUE,
                           !.required = FALSE, !.admission.view = shown.view]
      BY <1>3 DEF EndSwipe
  <2>3. /\ ctx'.admission = [ctx.admission EXCEPT !.view = shown.view]
        /\ ctx'.map = StateOf(shown) /\ ctx'.proof = ctx.proof
      BY <1>1, <2>2 DEF Contexts
  <2>4. shown.view \in Views
      BY DEF Kept, Shape, Games
  <2>5. /\ ctx'.admission # None /\ ctx'.admission.map = ctx.admission.map
        /\ ctx'.admission.target = ctx.admission.target
      BY <2>1, <2>3, <2>4, ViewsChange, NoneAssumption
  <2> QED
      BY <1>1, <2>1, <2>3, <2>5 DEF QuietBattle, StateOf
<1> QED
    BY <1>2, <1>3

LEMMA RecheckQuiet == ASSUME Kept, Recheck PROVE QuietBattle
<1>1. /\ ctx \in Contexts /\ ctx # None /\ ctx.admission # None /\ ctx.map # None
      /\ UNCHANGED <<game, shown, past>>
    BY DEF Recheck, May, Kept, Shape, AdmittedOnMap
<1>2. ctx.admission \in Admissions /\ ctx.map.view \in Views
    BY <1>1 DEF Contexts, States
<1>3. ctx' = [ctx EXCEPT !.admission.view = ctx.map.view, !.rechecked = TRUE]
    BY DEF Recheck
<1>4. /\ ctx'.admission = [ctx.admission EXCEPT !.view = ctx.map.view]
      /\ ctx'.map = ctx.map /\ ctx'.proof = ctx.proof
    BY <1>1, <1>3 DEF Contexts
<1>5. /\ ctx'.admission # None /\ ctx'.admission.map = ctx.admission.map
      /\ ctx'.admission.target = ctx.admission.target
    BY <1>2, <1>4, ViewsChange, NoneAssumption
<1> QED
    BY <1>1, <1>4, <1>5 DEF QuietBattle

-----------------------------------------------------------------------------
(* The game, the observer, an admission, and a proof.                      *)

LEMMA HandledWitnessed ==
    ASSUME Kept, Witnessed, HandleSwipe \/ HandleTap PROVE Witnessed'
<1>1. UNCHANGED <<shown, ctx, past>> /\ Shape
    BY DEF HandleSwipe, HandleTap, Kept
<1>2. game'.map.enemies = game.map.enemies
    BY <1>1, InputKeepsMap DEF Shape
<1>3. MapsFollow'
  <2>1. shown.map \in Maps
      BY <1>1 DEF Shape, Games
  <2>2. ctx # None /\ ctx.map # None => ctx.map.map \in Maps
      BY <1>1 DEF Shape, Contexts, States
  <2>3. ctx # None /\ ctx.admission # None => ctx.admission.map \in Maps
      BY <1>1 DEF Shape, Contexts, Admissions
  <2> QED
      BY <1>1, <2>1, <2>2, <2>3, GameFollows DEF Witnessed, MapsFollow
<1>4. BattlesCount'
    BY <1>1, <1>2 DEF Witnessed, BattlesCount
<1> QED
    BY <1>1, <1>3, <1>4 DEF Witnessed, Fought, ProofStands, ProofIsOfBattle

\* A battle that is left changes no enemy; one that is won is the first since
\* the admission, or comes after the first.
LEMMA BattleEndsWitnessed == ASSUME Kept, Witnessed, BattleEnds PROVE Witnessed'
<1>1. UNCHANGED <<shown, ctx>> /\ Shape /\ past \in Pasts /\ past.won \in Seq(Enemies)
    BY DEF BattleEnds, Kept, Shape, Pasts
<1>2. MapsFollow'
  <2>1. shown.map \in Maps
      BY <1>1 DEF Shape, Games
  <2>2. ctx # None /\ ctx.map # None => ctx.map.map \in Maps
      BY <1>1 DEF Shape, Contexts, States
  <2>3. ctx # None /\ ctx.admission # None => ctx.admission.map \in Maps
      BY <1>1 DEF Shape, Contexts, Admissions
  <2> QED
      BY <1>1, <2>1, <2>2, <2>3, GameFollows DEF Witnessed, MapsFollow
<1>3. CASE game' = [game EXCEPT !.battle = FALSE] /\ UNCHANGED past
  <2>1. game'.map.enemies = game.map.enemies
      BY <1>1, <1>3 DEF Shape, Games, Maps
  <2> QED
      BY <1>1, <1>2, <1>3, <2>1 DEF Witnessed, BattlesCount, Fought, ProofStands,
         ProofIsOfBattle
<1>4. ASSUME game' = [game EXCEPT !.battle = FALSE,
                                  !.map.enemies = @ \ {game.map.fleet},
                                  !.map.ammo = IF @ > 0 THEN @ - 1 ELSE 0],
             past' = [past EXCEPT !.won = Append(@, game.map.fleet)]
      PROVE  Witnessed'
  <2>1. game'.map.enemies = game.map.enemies \ {game.map.fleet}
      BY <1>1, <1>4 DEF Shape, Games, Maps
  <2>2. game.map.fleet \in game.map.enemies /\ game.map.fleet \in Enemies
      BY <1>1 DEF BattleEnds, Shape, Fought, Games, Maps
  <2>3. past'.won = Append(past.won, game.map.fleet) /\ past'.seen = past.seen
      BY <1>1, <1>4 DEF Pasts
  <2>4. /\ past'.won # <<>>
        /\ Head(past'.won) = IF past.won = <<>> THEN game.map.fleet ELSE Head(past.won)
      BY <1>1, <2>2, <2>3
  <2>5. BattlesCount'
    <3>1. SUFFICES ASSUME ctx # None, ctx.admission # None PROVE BattlesCount'
        BY <1>1 DEF BattlesCount
    <3>2. /\ ctx.admission.target \in ctx.admission.map.enemies
          /\ past.won # <<>> => /\ Head(past.won) \in ctx.admission.map.enemies
                                /\ Head(past.won) \notin game.map.enemies
          /\ past.seen >= 1 => /\ past.won # <<>>
                               /\ Head(past.won) \notin shown.map.enemies
        BY <3>1 DEF Witnessed, BattlesCount
    <3>3. game.map.enemies \subseteq ctx.admission.map.enemies
        BY <3>1 DEF Witnessed, MapsFollow, Follows
    <3>4. /\ Head(past'.won) \in ctx.admission.map.enemies
          /\ Head(past'.won) \notin game'.map.enemies
        BY <2>1, <2>2, <2>4, <3>2, <3>3
    <3>5. past'.seen >= 1 => Head(past'.won) \notin shown.map.enemies
        BY <2>3, <2>4, <3>2
    <3> QED
        BY <1>1, <2>4, <3>2, <3>4, <3>5 DEF BattlesCount
  <2>6. ProofIsOfBattle'
      BY <1>1, <2>4 DEF Witnessed, ProofIsOfBattle
  <2> QED
      BY <1>1, <1>2, <2>5, <2>6 DEF Witnessed, Fought, ProofStands
<1> QED
    BY <1>3, <1>4 DEF BattleEnds

\* A publication shows the game; and when ALAS counts a battle, one was won
\* since the admission, for the fleet that was shown had its enemy before it.
LEMMA PublishWitnessed == ASSUME Kept, Witnessed, Publish PROVE Witnessed'
<1>1. UNCHANGED <<game, ctx>> /\ shown' = game /\ Shape /\ past \in Pasts
    BY DEF Publish, Kept, Shape
<1>2. past'.won = past.won /\ past'.seen = IF Counted THEN past.seen + 1 ELSE past.seen
    BY <1>1 DEF Publish, Pasts
<1>3. MapsFollow'
  <2>1. game.map \in Maps
      BY <1>1 DEF Shape, Games
  <2> QED
      BY <1>1, <2>1, FollowsItself DEF Witnessed, MapsFollow
<1>4. Fought(shown')
    BY <1>1 DEF Shape, Fought
<1>5. BattlesCount'
  <2>1. SUFFICES ASSUME ctx # None, ctx.admission # None PROVE BattlesCount'
      BY <1>1 DEF BattlesCount
  <2>2. past.seen \in Nat
      BY <1>1 DEF Pasts
  <2>3. ASSUME past'.seen >= 1 PROVE past.won # <<>>
    <3>1. CASE Counted
        BY <2>1, <3>1 DEF Counted, Witnessed, BattlesCount
    <3>2. CASE ~Counted
        BY <1>2, <2>1, <2>3, <3>2 DEF Witnessed, BattlesCount
    <3> QED
        BY <3>1, <3>2
  <2>4. shown'.battle => shown'.map.fleet \in game'.map.enemies
      BY <1>1, <1>4 DEF Fought
  <2> QED
      BY <1>1, <1>2, <2>1, <2>3, <2>4 DEF Witnessed, BattlesCount
<1> QED
    BY <1>1, <1>2, <1>3, <1>4, <1>5 DEF Witnessed, ProofStands, ProofIsOfBattle

LEMMA AuthorizeCombatWitnessed ==
    ASSUME Kept, Witnessed, NEW n \in Nodes, AuthorizeCombat(n) PROVE Witnessed'
<1>1. /\ ctx \in Contexts /\ ctx # None /\ ctx.map # None /\ past \in Pasts
      /\ UNCHANGED <<game, shown>> /\ ~shown.battle /\ ctx.proof = None
      /\ n \in ctx.map.map.enemies
    BY DEF AuthorizeCombat, May, Found, Prepared, Kept, Shape
<1>2. PICK a : a = Admits(n)
    OBVIOUS
<1>3. PICK r \in BOOLEAN : r = (ctx.viewport = 1)
    OBVIOUS
<1>4. ctx' = [ctx EXCEPT !.admission = a, !.required = r]
    BY <1>2, <1>3 DEF AuthorizeCombat
<1>5. ctx'.admission = a /\ ctx'.map = ctx.map /\ ctx'.proof = None
    BY <1>1, <1>4 DEF Contexts
<1>6. a.target = n /\ a.map = ctx.map.map
    BY <1>2 DEF Admits
<1>7. past'.won = <<>> /\ past'.seen = 0
    BY <1>1 DEF AuthorizeCombat, Pasts
<1>8. MapsFollow'
    BY <1>1, <1>5, <1>6 DEF Witnessed, MapsFollow
<1>9. BattlesCount'
    BY <1>1, <1>5, <1>6, <1>7 DEF BattlesCount
<1> QED
    BY <1>1, <1>5, <1>8, <1>9 DEF Witnessed, Fought, ProofStands, ProofIsOfBattle

\* Where one battle took one unit of ammunition and left some, the admitted
\* enemy and the first that was beaten are one.
LEMMA EndConfirmWitnessed == ASSUME Kept, Witnessed, EndConfirm PROVE Witnessed'
<1>1. /\ ctx \in Contexts /\ ctx # None /\ ctx.admission # None
      /\ UNCHANGED <<game, shown, past>>
      /\ ctx' = [ctx EXCEPT !.map = StateOf(shown), !.proof = ctx.admission.target]
    BY DEF EndConfirm, Stable, Kept, Shape, CallFits
<1>2. ctx.admission \in Admissions /\ shown.map \in Maps
    BY <1>1 DEF Contexts, Kept, Shape, Games
<1>3. /\ ctx'.map = StateOf(shown) /\ ctx'.admission = ctx.admission
      /\ ctx'.proof = ctx.admission.target
  <2>1. PICK t : t = ctx.admission.target
      OBVIOUS
  <2>2. ctx' = [ctx EXCEPT !.map = StateOf(shown), !.proof = t]
      BY <1>1, <2>1
  <2> QED
      BY <1>1, <2>1, <2>2 DEF Contexts
<1>4. MapsFollow'
  <2>1. Follows(shown.map, shown.map)
      BY <1>2, FollowsItself
  <2> QED
      BY <1>1, <1>3, <2>1 DEF Witnessed, MapsFollow, StateOf
<1>5. BattlesCount'
    BY <1>1, <1>3 DEF Witnessed, BattlesCount
<1>6. past.seen = 1 /\ shown.map.ammo = ctx.admission.map.ammo - 1
      /\ ctx.admission.target \notin shown.map.enemies
    BY DEF EndConfirm, Proven
<1>7. /\ ctx.admission.target \in ctx.admission.map.enemies
      /\ past.won # <<>> /\ Head(past.won) \in ctx.admission.map.enemies
      /\ Head(past.won) \notin shown.map.enemies
    BY <1>1, <1>6 DEF Witnessed, BattlesCount
<1>8. ctx.admission.map.ammo > 1 => Head(past.won) = ctx.admission.target
  <2>1. SUFFICES ASSUME ctx.admission.map.ammo > 1,
                        Head(past.won) # ctx.admission.target
                 PROVE  FALSE
      OBVIOUS
  <2>2. Follows(ctx.admission.map, shown.map)
      BY <1>1 DEF Witnessed, MapsFollow
  <2>3. shown.map.ammo = 0 \/ shown.map.ammo + 2 <= ctx.admission.map.ammo
      BY <1>6, <1>7, <2>1, <2>2 DEF Follows
  <2>4. ctx.admission.map.ammo \in Nat
      BY <1>2, CellsAssumption DEF Admissions, Maps
  <2> QED
      BY <1>6, <2>1, <2>3, <2>4
<1>9. ProofStands' /\ ProofIsOfBattle'
    BY <1>1, <1>3, <1>7, <1>8 DEF ProofStands, ProofIsOfBattle
<1> QED
    BY <1>1, <1>4, <1>5, <1>9 DEF Witnessed, Fought

-----------------------------------------------------------------------------
(* Every step keeps what the proofs of battles rest on.                    *)

LEMMA InitWitnessed == Init => Witnessed
<1>1. SUFFICES ASSUME Init PROVE Witnessed
    OBVIOUS
<1>2. Shape
    BY <1>1, InitKept DEF Kept
<1>3. game.map \in Maps /\ shown = game /\ ctx = None
    BY <1>1, <1>2 DEF Init, Shape, Games
<1> QED
    BY <1>2, <1>3, FollowsItself DEF Shape, Fought, Witnessed, MapsFollow, BattlesCount,
       ProofStands, ProofIsOfBattle

LEMMA StepWitnessed == ASSUME Kept, Witnessed, [Next]_vars PROVE Witnessed'
<1>1. CASE Environment
    BY <1>1, HandledWitnessed, BattleEndsWitnessed, PublishWitnessed DEF Environment
<1>2. CASE Begin \/ End \/ CallRaises \/ Refuses
    BY <1>2, NewContextQuiet, RunningQuiet, QuietWitnessed
<1>3. CASE Observing
    BY <1>3, SameContextQuiet, LookingQuiet, QuietWitnessed DEF Observing
<1>4. CASE Admitting
    BY <1>4, PlacingQuiet, QuietWitnessed, AuthorizeCombatWitnessed DEF Admitting
<1>5. CASE Swiping
    BY <1>5, RunningQuiet, SameContextQuiet, EndSwipeQuiet, QuietWitnessed DEF Swiping
<1>6. CASE Tapping
    BY <1>6, RecheckQuiet, SameContextQuiet, RunningQuiet, QuietWitnessed,
       EndConfirmWitnessed DEF Tapping
<1>7. CASE Scripted
    BY <1>7, NewContextQuiet, SameContextQuiet, QuietWitnessed DEF Scripted
<1>8. CASE UNCHANGED vars
  <2>1. QuietBattle
      BY <1>8 DEF vars, QuietBattle
  <2> QED
      BY <2>1, QuietWitnessed
<1> QED
    BY <1>1, <1>2, <1>3, <1>4, <1>5, <1>6, <1>7, <1>8 DEF Next

-----------------------------------------------------------------------------
(* The theorems.                                                           *)

\* The invariant holds in every reachable state.
THEOREM AlwaysKept == Spec => []Kept
<1>1. Init => Kept
    BY InitKept
<1>2. Kept /\ [Next]_vars => Kept'
    BY StepKept
<1> QED
    BY <1>1, <1>2, PTL DEF Spec

\* Every variable has its type: for any map, budgets and views, and for a
\* camera that moves when it likes, what the context, the call and the script
\* hold is what the code declares.
THEOREM TypeCorrect == Spec => []TypeOK
<1>1. Kept => TypeOK
    BY DEF Kept, Shape, CallFits, Scripts, Pasts, TypeOK
<1> QED
    BY <1>1, AlwaysKept, PTL

\* No invocation makes more swipes than its budgets, nor swipes of both kinds,
\* and more taps only for a caller that ignores an exception.
THEOREM LeasesAreKept == Spec => []LeasesKept
<1>1. Kept => LeasesKept
    BY DEF Kept
<1> QED
    BY <1>1, AlwaysKept, PTL

\* The qualification script makes no grid tap, one camera swipe for the enemy
\* at most and two to position the camera at most, in all its flows and
\* wherever one fails; and what it returns was rechecked after the one swipe.
THEOREM ScriptOnlyPreviews == Spec => []PreviewOnly
<1>1. Init => Kept /\ Previewing
    BY InitKept, InitPreview
<1>2. Kept /\ Previewing /\ [Next]_vars => (Kept /\ Previewing)'
    BY StepKept, StepPreview
<1>3. Kept /\ Previewing => PreviewOnly
    BY PreviewFits
<1> QED
    BY <1>1, <1>2, <1>3, PTL DEF Spec

\* A combat proof stands for a battle that was won since the admission, and for
\* one on the admitted cell where ammunition was left, however many inputs of
\* earlier flows were still on their way.
THEOREM ProofsAreOfBattles == Spec => []ProofIsOfBattle
<1>1. Init => Kept /\ Witnessed
    BY InitKept, InitWitnessed
<1>2. Kept /\ Witnessed /\ [Next]_vars => (Kept /\ Witnessed)'
    BY StepKept, StepWitnessed
<1>3. Witnessed => ProofIsOfBattle
    BY DEF Witnessed
<1> QED
    BY <1>1, <1>2, <1>3, PTL DEF Spec
=============================================================================
