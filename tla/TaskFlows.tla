----------------------------- MODULE TaskFlows ------------------------------
(***************************************************************************)
(* The flows of the adapter for research, dorm, construction, tactical     *)
(* class and missions.  ALAS runs one task at a time, so the game is the   *)
(* part of it that one task sees; the task begins its flow, makes its      *)
(* calls in any order until one raises, ends the flow in the finally       *)
(* clause of its hook, and may be scheduled again.                         *)
(***************************************************************************)
EXTENDS ResearchTask, DormTask, BuildTask, TacticalTask, MissionTask

Tasks == {"research", "dorm", "build", "tactical", "mission"}

ASSUME ContextAssumption ==
    None \notin ResearchContexts \union DormContexts \union BuildContexts
                  \union TacticalContexts \union MissionContexts

Init ==
    /\ ResearchInit \/ DormInit \/ BuildInit \/ TacticalInit \/ MissionInit
    /\ shown = game
    /\ pending = <<>> /\ ctx = None /\ call = NoCall /\ caller = "running"
    /\ invocations = 0 /\ clean = TRUE
    /\ delivered = [u \in Units |-> 0] /\ begun = {}

(***************************************************************************)
(* The game                                                                *)
(***************************************************************************)

Effect(g, t) ==
    CASE g.task = "research" -> ResearchEffect(g, t)
      [] g.task = "dorm"     -> DormEffect(g, t)
      [] g.task = "build"    -> BuildEffect(g, t)
      [] g.task = "tactical" -> TacticalEffect(g, t)
      [] g.task = "mission"  -> MissionEffect(g, t)

\* The projects a confirmed start has set running.
Started == IF game.task # "research" THEN {}
           ELSE {p \in Projects : game.status[p] = "idle" /\ game'.status[p] = "running"}

Handle ==
    /\ pending # <<>>
    /\ game' = Effect(game, Head(pending))
    /\ pending' = Tail(pending)
    /\ begun' = IF Head(pending).run = invocations THEN begun \union Started ELSE begun
    /\ UNCHANGED <<shown, ctx, call, caller, invocations, clean, delivered>>

Time ==
    /\ \/ game.task = "research" /\ ResearchTime
       \/ game.task = "dorm" /\ DormTime
       \/ game.task = "build" /\ BuildTime
       \/ game.task = "tactical" /\ TacticalTime
       \/ game.task = "mission" /\ MissionTime
    /\ UNCHANGED <<pending, shown, ctx, call, caller, invocations, clean, delivered, begun>>

(***************************************************************************)
(* The flow                                                                *)
(***************************************************************************)

BeginTask ==
    Begin(CASE game.task = "research" -> ResearchContext
            [] game.task = "dorm"     -> DormContext
            [] game.task = "build"    -> BuildContext
            [] game.task = "tactical" -> TacticalContext
            [] game.task = "mission"  -> MissionContext)

Asking ==
    \/ game.task = "research" /\ ResearchAsking
    \/ game.task = "dorm" /\ DormAsking
    \/ game.task = "build" /\ BuildAsking
    \/ game.task = "tactical" /\ TacticalAsking
    \/ game.task = "mission" /\ MissionAsking

Visible ==
    CASE game.task = "research" -> ResearchVisible
      [] game.task = "dorm"     -> DormVisible
      [] game.task = "build"    -> BuildVisible
      [] game.task = "tactical" -> TacticalVisible
      [] game.task = "mission"  -> MissionVisible

Booked ==
    CASE game.task = "research" -> ResearchBooked
      [] game.task = "build"    -> BuildBooked
      [] game.task = "tactical" -> TacticalBooked
      [] game.task = "mission"  -> MissionBooked
      [] OTHER -> Paid

\* Mutant: neither a fed portion nor a selected book is waited for.
WaitsOfHelpers == {"ship", "dockConfirm", "skill"}

\* The inputs whose effect the call itself waits for.
Waits == {"feed", "ship", "dockConfirm", "skill", "book"}

TapReturns ==
    /\ Inject
    /\ Visible
    /\ ctx' = Booked
    /\ call' = IF call.op \in Waits THEN [call EXCEPT !.pc = "wait"] ELSE NoCall
    /\ UNCHANGED caller

TapRaisesLate ==
    /\ Inject
    /\ Visible
    /\ RaisesLate

\* The effect is there; some helpers go on to a second input.
Waited ==
    /\ call.pc = "wait"
    /\ IF call.op = "feed" THEN Fed ELSE TacticalWaited
    /\ call' = IF call.op \in DOMAIN NextInput
               THEN [call EXCEPT !.pc = "aim", !.op = NextInput[call.op]] ELSE NoCall
    /\ UNCHANGED <<game, pending, shown, ctx, caller, invocations, clean, delivered, begun>>

Next == Handle \/ Time \/ Publish \/ BeginTask \/ End \/ Asking
        \/ TapReturns \/ TapRaisesLate \/ Waited \/ CallRaises

Spec == Init /\ [][Next]_vars

(***************************************************************************)
(* Properties                                                              *)
(***************************************************************************)

Typed(Games, Contexts, Ops, Targets) ==
    /\ game \in Games /\ shown \in Games
    /\ pending \in Seq(Taps(Ops, Targets))
    /\ ctx \in Maybe(Contexts)
    /\ call \in Calls(Ops, Targets)

TypeOK ==
    /\ CASE game.task = "research" -> Typed(ResearchGames, ResearchContexts, ResearchOps, ResearchTargets)
         [] game.task = "dorm"     -> Typed(DormGames, DormContexts, DormOps, DormTargets)
         [] game.task = "build"    -> Typed(BuildGames, BuildContexts, BuildOps, BuildTargets)
         [] game.task = "tactical" -> Typed(TacticalGames, TacticalContexts, TacticalOps, TacticalTargets)
         [] game.task = "mission"  -> Typed(MissionGames, MissionContexts, MissionOps, MissionTargets)
    /\ caller \in {"running", "leaving"}
    /\ invocations \in 0..MaxInvocations
    /\ clean \in BOOLEAN
    /\ delivered \in [Units -> Nat]
    /\ begun \subseteq Projects

\* Within an invocation the game gets no more inputs of a kind than units of it
\* were granted, whether or not a tap was booked, and whether its unit is taken
\* before the tap or after it.
InputsFunded == \A u \in Units : delivered[u] <= Grant[u]

\* What is about the tap that is being handled, when it belongs to this
\* invocation.
Own(t) == t.run = invocations

\* A project is started because it was selected, unless nothing was; and one
\* that was running before the flow moves to the queue for a unit only, though
\* a project the flow itself has started moves there without.
StartsAsSelected(t) ==
    game.task = "research" =>
        \A p \in Projects :
            /\ game.status[p] = "idle" /\ game'.status[p] = "running" =>
                   t.op = "confirmStart" /\ t.at \in {None, p}
            /\ Own(t) /\ game.status[p] = "running" /\ game'.status[p] = "queued" =>
                   t.unit = "start" \/ p \in begun

\* A portion fits into the gauge when it is eaten and not only when the panel
\* was read.
FoodFits(t) ==
    game.task = "dorm" =>
        \A f \in Foods : game'.stock[f] < game.stock[f] => game.gauge + Value[f] <= Capacity

\* A course is prepared with the book that was read as the selected one.
CourseAsRead(t) ==
    (game.task = "tactical" /\ t.op = "course" /\ game' # game) => game.book = t.at

\* An order is for the pool whose price was read, and is placed while the queue
\* holds no other.
OneOrder(t) ==
    (game.task = "build" /\ t.op = "order" /\ game' # game) => game.pool = t.at /\ game.orders = 0

\* What the game does with an input is what was decided on an earlier picture
\* of it, in an invocation that begins with no tap of another on its way.
ActsAsDecided ==
    [][(pending # <<>> /\ pending' = Tail(pending) /\ clean /\ Own(Head(pending))) =>
           /\ StartsAsSelected(Head(pending))
           /\ FoodFits(Head(pending))
           /\ CourseAsRead(Head(pending))
           /\ OneOrder(Head(pending))]_vars
=============================================================================
