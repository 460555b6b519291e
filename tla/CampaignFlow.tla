---------------------------- MODULE CampaignFlow ----------------------------
(***************************************************************************)
(* One bounded campaign invocation: stage entry, map preparation, fleet    *)
(* preparation, and either the cancel or the single sortie                 *)
(* (AlasSemanticAdapter in alas_adapter.py, its oracle calls in            *)
(* semantic_oracle.py, and the order in which the ALAS patch makes them).  *)
(*                                                                         *)
(* The caller is ALAS.  Its state machine is not part of the repository,   *)
(* so while no call has raised it may make the adapter's calls in any      *)
(* order, but for what the patch fixes: the stage is entered before the    *)
(* fleets are asked for, and an exception is followed by closing the       *)
(* dropdown, by the cancel, and by the end of the invocation.  Every input *)
(* call has three moments, and the game moves between them: the adapter's  *)
(* own checks, the oracle's fresh read of the target, and the tap, which   *)
(* may be lost, or may reach the game although "adb shell input tap" is    *)
(* reported as failed.                                                     *)
(*                                                                         *)
(* The adapter never sees the game, only what the observer last published: *)
(* a tap is queued in the game and handled later, and its effect is        *)
(* published later still.                                                  *)
(***************************************************************************)
EXTENDS Naturals, Sequences

CONSTANTS
    Indices,         \* fleet numbers, of 1..6
    Initials,        \* selections the panel may open with
    Requests,        \* selections ALAS may ask for
    Qualified,       \* the one request a sortie is qualified for
    AllowsSubmarine, \* whether the map admits a submarine fleet
    StageBudget, FleetBudget, SortieBudget,
    MaxGeneration,   \* bound of the model: publications
    MaxInvocations,  \* bound of the model: begin_campaign_pre_sortie() calls
    MaxPending,      \* bound of the model: taps the game has not handled
    None             \* no context, receipt, row, selection or proof

Rows == {"fleet1", "fleet2", "submarine"}
Selections == [Rows -> {0} \union Indices]

ASSUME CampaignAssumption ==
    /\ Indices \subseteq 1..6
    /\ Initials \subseteq Selections
    /\ Requests \subseteq {s \in Selections : s["fleet1"] # 0}
    /\ AllowsSubmarine \in BOOLEAN
    /\ {StageBudget, FleetBudget, SortieBudget, MaxGeneration,
        MaxInvocations, MaxPending} \subseteq Nat
    /\ MaxGeneration # 0

Maybe(S) == S \union {None}

VARIABLES
    game,         \* the layer shown, the open dropdown's row, the selection
    saved,        \* the selection the panel opens with
    pending,      \* taps injected and not handled yet
    shown,        \* the last publication
    ctx,          \* the _CampaignFlowContext, or None
    call,         \* the adapter call under way
    caller,       \* ALAS: running, or in the patch's finally clauses
    invocations,  \* invocations begun
    delivered     \* history: the budgeted inputs injected in this invocation

vars == <<game, saved, pending, shown, ctx, call, caller, invocations, delivered>>
gameVars == <<game, saved, shown>>

Layers == {"chapter", "map", "fleet", "battle"}
Inputs == {"stage", "proceed", "select", "close", "option", "clear", "sortie", "cancel"}

Games == [layer : Layers, dropdown : Maybe(Rows), fleets : Selections]
Panels == [gen : 1..MaxGeneration, fleets : Selections]
Receipts == 0..MaxGeneration          \* a receipt is its generation, 0 is None

\* The id an input's receipt carries: a cleared row is named, an option is
\* named by its number and not by the row it was chosen for.
Clear(r)  == [op |-> "clear", row |-> r, index |-> 0]
Option(i) == [op |-> "option", row |-> None, index |-> i]
Mutations == {Clear(r) : r \in Rows} \union {Option(i) : i \in Indices}

\* What the game got in this invocation: inputs that a budget is spent on.
NothingDelivered == [stage |-> 0, sortie |-> 0, mutations |-> <<>>]

Contexts ==
    [entryBudget : 0..StageBudget, fleetBudget : 0..FleetBudget,
     sortieBudget : 0..SortieBudget,
     entry : Receipts, proceed : Receipts, cancel : Receipts, sortie : Receipts,
     kind : Maybe({"map", "fleet"}),
     initial : Maybe(Panels), prepared : Maybe(Panels), requested : Maybe(Selections),
     plan : Seq(Mutations), receipts : Seq(Mutations),
     row : Maybe(Rows), previous : {0} \union Indices,
     oil : {None, "short", "enough"}, authorized : BOOLEAN,
     proof : BOOLEAN, fleetProof : BOOLEAN, sortieProof : BOOLEAN]

\* None is told from every context, panel, row, layer and reading of the oil.
ASSUME NoneAssumption ==
    None \notin Contexts \union Panels \union Rows \union Layers \union {"short", "enough"}

\* A cancel names the layer it closes where the others name a fleet row.
Places == Maybe(Rows \union {"map", "fleet"})
Calls  == [pc : {"idle", "aim", "tap"}, op : Maybe(Inputs), row : Places,
           index : {0} \union Indices, gen : Receipts]
Taps   == [op : Inputs, row : Places, index : {0} \union Indices,
           wants : Maybe(Selections)]

NoCall == [pc |-> "idle", op |-> None, row |-> None, index |-> 0, gen |-> 0]

TypeOK ==
    /\ game \in Games
    /\ saved \in Selections
    /\ pending \in Seq(Taps)
    /\ shown \in [gen : 1..MaxGeneration, game : Games]
    /\ ctx \in Maybe(Contexts)
    /\ call \in Calls
    /\ caller \in {"running", "closing", "cancelling", "leaving"}
    /\ invocations \in 0..MaxInvocations
    /\ delivered \in [stage : Nat, sortie : Nat, mutations : Seq(Mutations)]

Init ==
    /\ saved \in Initials
    /\ game = [layer |-> "chapter", dropdown |-> None, fleets |-> saved]
    /\ shown = [gen |-> 1, game |-> game]
    /\ pending = <<>> /\ ctx = None /\ call = NoCall /\ caller = "running"
    /\ invocations = 0 /\ delivered = NothingDelivered

(***************************************************************************)
(* The game                                                                *)
(***************************************************************************)

\* What a tap does in a given state of the game; on a layer or under an open
\* dropdown where its control is not the top one, it does nothing.  The panel
\* is transactional: it opens with the saved selection, and a cancel drops it.
OnPanel(g) == g.layer = "fleet" /\ g.dropdown = None

Effect(g, t) ==
    CASE t.op = "stage"   /\ g.layer = "chapter" -> [g EXCEPT !.layer = "map"]
      [] t.op = "proceed" /\ g.layer = "map"     -> [g EXCEPT !.layer = "fleet"]
      [] t.op = "select"  /\ OnPanel(g)          -> [g EXCEPT !.dropdown = t.row]
      [] t.op = "clear"   /\ OnPanel(g)          -> [g EXCEPT !.fleets[t.row] = 0]
      [] t.op \in {"option", "close"} /\ g.dropdown # None ->
             [g EXCEPT !.fleets[g.dropdown] = t.index, !.dropdown = None]
      [] t.op = "sortie"  /\ OnPanel(g)          -> [g EXCEPT !.layer = "battle"]
      [] t.op = "cancel"  /\ g.layer = t.row /\ g.dropdown = None ->
             [g EXCEPT !.layer = "chapter", !.fleets = saved]
      [] OTHER -> g

Handle ==
    /\ pending # <<>>
    /\ game' = Effect(game, Head(pending))
    /\ pending' = Tail(pending)
    /\ UNCHANGED <<saved, shown, ctx, call, caller, invocations, delivered>>

\* A publication that shows nothing new only raises the generation, which
\* matters to a context that remembers the current one.
Remembered ==
    /\ ctx # None
    /\ \/ shown.gen \in {ctx.cancel, ctx.sortie}
       \/ ctx.initial # None /\ shown.gen = ctx.initial.gen

Publish ==
    /\ shown.gen < MaxGeneration
    /\ game # shown.game \/ Remembered
    /\ shown' = [gen |-> shown.gen + 1, game |-> game]
    /\ UNCHANGED <<game, saved, pending, ctx, call, caller, invocations, delivered>>

(***************************************************************************)
(* begin and end                                                           *)
(***************************************************************************)

Begin ==
    /\ ctx = None /\ call = NoCall
    /\ invocations < MaxInvocations
    /\ invocations' = invocations + 1
    /\ ctx' = [entryBudget |-> StageBudget, fleetBudget |-> FleetBudget,
               sortieBudget |-> SortieBudget,
               entry |-> 0, proceed |-> 0, cancel |-> 0, sortie |-> 0, kind |-> None,
               initial |-> None, prepared |-> None, requested |-> None,
               plan |-> <<>>, receipts |-> <<>>, row |-> None, previous |-> 0,
               oil |-> None, authorized |-> FALSE,
               proof |-> FALSE, fleetProof |-> FALSE, sortieProof |-> FALSE]
    /\ caller' = "running"
    /\ delivered' = NothingDelivered
    /\ UNCHANGED <<gameVars, pending, call>>

\* The finally clause of CampaignRun.run.
End ==
    /\ ctx # None /\ call = NoCall
    /\ ctx' = None
    /\ UNCHANGED <<gameVars, pending, call, caller, invocations, delivered>>

(***************************************************************************)
(* Calls without input                                                     *)
(***************************************************************************)

Idle == ctx # None /\ call = NoCall
Calling == Idle /\ caller = "running"
Quiet == UNCHANGED <<gameVars, pending, call, invocations, delivered>>

\* Mutant: the exception is swallowed and ALAS goes on with its loop.
RaiseIsSwallowed == caller

\* An exception reaches ALAS: what it does next is in the patch.
AfterRaise == CASE caller = "running" -> "closing"
                [] caller = "closing" -> "cancelling"
                [] OTHER -> "leaving"

ShownPanel == [gen |-> shown.gen, fleets |-> shown.game.fleets]

\* The preflight simulation.
Cleared(p, r) ==
    IF p.values[r] = 0 THEN p
    ELSE [values |-> [p.values EXCEPT ![r] = 0],
          ops |-> Append(p.ops, Clear(r))]
Ensured(p, r, i) ==
    IF p.values[r] = i THEN p
    ELSE [values |-> [p.values EXCEPT ![r] = i],
          ops |-> Append(p.ops, Option(i))]

\* Mutant: the submarine row is left as it is when none is asked for.
PreflightKeepsSubmarine(initial, request) ==
    LET start == [values |-> initial, ops |-> <<>>]
        subs  == IF AllowsSubmarine /\ request["submarine"] # 0
                 THEN Ensured(Cleared(start, "fleet2"), "submarine", request["submarine"])
                 ELSE start
        one   == Ensured(Cleared(subs, "fleet2"), "fleet1", request["fleet1"])
    IN  IF request["fleet2"] = 0 THEN one
        ELSE Ensured(one, "fleet2", request["fleet2"])

\* The order of ALAS's fleet preparation: the submarine row first, the second
\* fleet off while the first is chosen, the submarine row once more.
Preflight(initial, request) ==
    LET sub   == request["submarine"]
        start == [values |-> initial, ops |-> <<>>]
        subs  == IF ~AllowsSubmarine THEN start
                 ELSE IF sub # 0
                      THEN Ensured(Cleared(start, "fleet2"), "submarine", sub)
                      ELSE Cleared(Cleared(start, "fleet2"), "submarine")
        one   == Ensured(Cleared(subs, "fleet2"), "fleet1", request["fleet1"])
        two   == IF request["fleet2"] = 0 THEN one
                 ELSE Ensured(one, "fleet2", request["fleet2"])
    IN  IF AllowsSubmarine /\ sub = 0 THEN Cleared(two, "submarine") ELSE two

\* authorize_campaign_fleet_preparation: the initial panel and the request are
\* kept even when the call then refuses, or returns False with budget zero.
AuthorizeFleets ==
    /\ Calling
    /\ ctx.initial = None
    /\ OnPanel(shown.game)
    /\ \E request \in Requests :
        LET plan == Preflight(shown.game.fleets, request)
            asked == [ctx EXCEPT !.initial = ShownPanel, !.requested = request]
        IN  IF ctx.fleetBudget = 0
            THEN ctx' = asked /\ UNCHANGED caller
            ELSE IF (request["submarine"] # 0 /\ ~AllowsSubmarine) \/ plan.values # request
            THEN ctx' = asked /\ caller' = AfterRaise
            ELSE /\ ctx' = [asked EXCEPT !.plan = plan.ops]
                 /\ caller' = IF ctx.fleetBudget < Len(plan.ops)
                              THEN AfterRaise ELSE caller
    /\ Quiet

\* Mutant: the prepared panel is not compared with the request.
ConfirmSelectionUncompared ==
    /\ Calling
    /\ ctx.initial # None /\ ctx.row = None
    /\ OnPanel(shown.game)
    /\ ctx.receipts = ctx.plan
    /\ Len(ctx.plan) > 0 => shown.gen > ctx.initial.gen
    /\ ctx' = [ctx EXCEPT !.prepared = ShownPanel]
    /\ UNCHANGED caller /\ Quiet

\* confirm_campaign_fleet_selection
ConfirmSelection ==
    /\ Calling
    /\ ctx.initial # None /\ ctx.row = None
    /\ OnPanel(shown.game)
    /\ shown.game.fleets = ctx.requested
    /\ ctx.receipts = ctx.plan
    /\ Len(ctx.plan) > 0 => shown.gen > ctx.initial.gen
    /\ ctx' = [ctx EXCEPT !.prepared = ShownPanel]
    /\ UNCHANGED caller /\ Quiet

\* Mutant: the oil is not asked for.
AuthorizeSortieNoOil ==
    /\ Calling
    /\ ctx.sortie = 0 /\ ~ctx.authorized
    /\ ctx.sortieBudget = 1
    /\ ctx.prepared # None /\ ctx.requested = Qualified
    /\ ctx' = [ctx EXCEPT !.authorized = TRUE]
    /\ UNCHANGED caller /\ Quiet

\* authorize_campaign_sortie, with the settings as reviewed.
AuthorizeSortie ==
    /\ Calling
    /\ ctx.sortie = 0 /\ ~ctx.authorized
    /\ ctx.sortieBudget = 1
    /\ ctx.prepared # None /\ ctx.requested = Qualified
    /\ ctx.oil = "enough"
    /\ ctx' = [ctx EXCEPT !.authorized = TRUE]
    /\ UNCHANGED caller /\ Quiet

\* Mutant: the map entry is taken for granted once the input was made.
ConfirmSortieUnseen ==
    /\ Calling
    /\ ~ctx.sortieProof
    /\ ctx.authorized /\ ctx.sortie # 0 /\ ctx.sortieBudget = 0
    /\ ctx' = [ctx EXCEPT !.sortieProof = TRUE]
    /\ UNCHANGED caller /\ Quiet

\* confirm_campaign_sortie
ConfirmSortie ==
    /\ Calling
    /\ ~ctx.sortieProof
    /\ ctx.authorized /\ ctx.sortie # 0 /\ ctx.sortieBudget = 0
    /\ ctx.initial # None /\ ctx.prepared # None /\ ctx.oil # None
    /\ shown.game.layer = "battle"
    /\ shown.gen > ctx.sortie
    /\ ctx' = [ctx EXCEPT !.sortieProof = TRUE]
    /\ UNCHANGED caller /\ Quiet

\* appear(MAP_PREPARATION) and appear(FLEET_PREPARATION) keep the layer read.
Look ==
    /\ Calling
    /\ shown.game.layer \in {"map", "fleet"} /\ ctx.kind # shown.game.layer
    /\ ctx' = [ctx EXCEPT !.kind = shown.game.layer]
    /\ UNCHANGED caller /\ Quiet

\* confirm_campaign_pre_sortie, alone or within confirm_campaign_fleet_preparation.
ConfirmPreSortie ==
    /\ Calling
    /\ ~ctx.proof
    /\ ctx.entry # 0 /\ ctx.proceed # 0 /\ ctx.kind = "fleet" /\ ctx.cancel # 0
    /\ shown.game.layer = "chapter"
    /\ shown.gen > ctx.cancel
    /\ \E fleets \in BOOLEAN :
        /\ fleets => ctx.prepared # None
        /\ ctx' = [ctx EXCEPT !.proof = TRUE, !.fleetProof = fleets]
    /\ UNCHANGED caller /\ Quiet

\* Any call may raise before its input: a guard, a read, an unreachable game.
CallRaises ==
    /\ ctx # None
    /\ call.pc \in {"idle", "aim", "tap"}
    /\ call = NoCall => caller # "leaving"
    /\ call' = NoCall
    /\ caller' = AfterRaise
    /\ UNCHANGED <<gameVars, pending, ctx, invocations, delivered>>

(***************************************************************************)
(* Calls with input, first moment: the adapter's own checks                *)
(***************************************************************************)

Ask(op, r, i) ==
    /\ call' = [pc |-> "aim", op |-> op, row |-> r, index |-> i, gen |-> 0]
    /\ UNCHANGED <<gameVars, pending, invocations, delivered>>

\* The patch enters the stage before it prepares the fleets: once it has asked
\* for those, an invocation goes on to its sortie, or to its cancel, and ends.
Entering == Calling /\ ctx.initial = None

\* Mutant: the entry is allowed for as long as the stage is on the screen.
AskStageAgain ==
    /\ Entering
    /\ shown.game.layer = "chapter"
    /\ \E oil \in {"short", "enough"} : ctx' = [ctx EXCEPT !.oil = oil]
    /\ Ask("stage", None, 0)
    /\ UNCHANGED caller

\* The oil counter is read, and kept, before the stage is touched.
AskStage ==
    /\ Entering
    /\ ctx.entryBudget > 0 /\ ctx.entry = 0
    /\ shown.game.layer = "chapter"
    /\ \E oil \in {"short", "enough"} : ctx' = [ctx EXCEPT !.oil = oil]
    /\ Ask("stage", None, 0)
    /\ UNCHANGED caller

AskProceed ==
    /\ Entering
    /\ ctx.entry # 0 /\ ctx.proceed = 0
    /\ shown.game.layer \notin {"fleet"}
    /\ ctx' = [ctx EXCEPT !.kind = IF shown.game.layer = "map" THEN "map" ELSE @]
    /\ Ask("proceed", None, 0)
    /\ UNCHANGED caller

Authorized == ctx.initial # None
Active(g) == {g.fleets[g.dropdown]} \ {0}

\* The index that closes an open dropdown without a change: the one selected
\* when it was opened, or the first active one.
CloseIndex == IF ctx.previous \in Active(shown.game) THEN ctx.previous
              ELSE shown.game.fleets[shown.game.dropdown]

AskSelect(r) ==
    /\ Calling /\ Authorized
    /\ \/ OnPanel(shown.game) /\ Ask("select", r, shown.game.fleets[r])
       \/ /\ shown.game.dropdown # None /\ ctx.row = r /\ CloseIndex # 0
          /\ Ask("close", r, CloseIndex)
    /\ UNCHANGED <<ctx, caller>>

HasMutation == ctx.fleetBudget > 0 /\ Len(ctx.receipts) < Len(ctx.plan)

\* Mutant: any budget that is left may be spent.
AskOptionBudgetOnly(r, i) ==
    /\ Calling
    /\ shown.game.dropdown # None /\ ctx.row = r /\ i \notin Active(shown.game)
    /\ ctx.fleetBudget > 0
    /\ Ask("option", r, i)
    /\ UNCHANGED <<ctx, caller>>

AskOption(r, i) ==
    /\ Calling
    /\ shown.game.dropdown # None /\ ctx.row = r /\ i \notin Active(shown.game)
    /\ HasMutation
    /\ Ask("option", r, i)
    /\ UNCHANGED <<ctx, caller>>

\* A clear of an empty row returns without input (and changes nothing).
AskClear(r) ==
    /\ Calling /\ Authorized
    /\ OnPanel(shown.game) /\ shown.game.fleets[r] # 0
    /\ HasMutation
    /\ Ask("clear", r, 0)
    /\ UNCHANGED <<ctx, caller>>

AskSortie ==
    /\ Calling
    /\ ctx.authorized /\ ctx.sortieBudget = 1 /\ ctx.sortie = 0 /\ ctx.prepared # None
    /\ Ask("sortie", None, 0)
    /\ UNCHANGED <<ctx, caller>>

AskCancel ==
    /\ Idle /\ caller \in {"running", "cancelling"}
    /\ ctx.entry # 0 /\ ctx.cancel = 0
    /\ shown.game.layer \in {"map", "fleet"}
    /\ shown.game.layer = "fleet" => ctx.proceed # 0
    /\ ctx' = [ctx EXCEPT !.kind = shown.game.layer]
    /\ Ask("cancel", shown.game.layer, 0)
    /\ UNCHANGED caller

\* close_campaign_fleet_dropdown_for_rollback
RollbackClose ==
    /\ Idle /\ caller \in {"running", "closing"}
    /\ IF shown.game.dropdown = None
       THEN /\ ctx' = [ctx EXCEPT !.row = None, !.previous = 0]
            /\ caller' = IF caller = "closing" THEN "cancelling" ELSE caller
            /\ Quiet
       ELSE /\ ctx.row # None /\ CloseIndex # 0
            /\ Ask("close", ctx.row, CloseIndex)
            /\ UNCHANGED <<ctx, caller>>

(***************************************************************************)
(* Second and third moment: the oracle's fresh read, and the tap           *)
(***************************************************************************)

Visible(op) ==
    LET g == shown.game
    IN  CASE op = "stage" -> g.layer = "chapter"
          [] op = "proceed" -> g.layer = "map"
          [] op = "cancel" -> g.layer = call.row /\ g.dropdown = None
          [] op \in {"option", "close"} -> g.dropdown # None
          [] OTHER -> OnPanel(g)

Aim ==
    /\ call.pc = "aim"
    /\ Visible(call.op)
    /\ call' = [call EXCEPT !.pc = "tap", !.gen = shown.gen]
    /\ UNCHANGED <<gameVars, pending, ctx, caller, invocations, delivered>>

Mutation == IF call.op = "clear" THEN Clear(call.row) ELSE Option(call.index)

\* The tap reaches the game.
Inject ==
    /\ Len(pending) < MaxPending
    /\ pending' = Append(pending, [op |-> call.op, row |-> call.row, index |-> call.index,
                                   wants |-> ctx.requested])
    /\ delivered' = CASE call.op = "stage"  -> [delivered EXCEPT !.stage = @ + 1]
                      [] call.op = "sortie" -> [delivered EXCEPT !.sortie = @ + 1]
                      [] call.op \in {"option", "clear"} ->
                             [delivered EXCEPT !.mutations = Append(@, Mutation)]
                      [] OTHER -> delivered

\* The adapter's bookkeeping once the oracle has returned a receipt.
Booked ==
    CASE call.op = "stage" ->
           [ctx EXCEPT !.entryBudget = @ - 1, !.entry = call.gen]
      [] call.op = "proceed" -> [ctx EXCEPT !.proceed = call.gen]
      [] call.op = "select" ->
           [ctx EXCEPT !.row = call.row, !.previous = call.index]
      [] call.op = "close" -> [ctx EXCEPT !.row = None, !.previous = 0]
      [] call.op = "option" ->
           [ctx EXCEPT !.fleetBudget = @ - 1, !.receipts = Append(@, Mutation),
                       !.row = None, !.previous = 0]
      [] call.op = "clear" ->
           [ctx EXCEPT !.fleetBudget = @ - 1, !.receipts = Append(@, Mutation)]
      [] call.op = "sortie" ->
           [ctx EXCEPT !.sortieBudget = @ - 1, !.sortie = call.gen]
      [] call.op = "cancel" -> [ctx EXCEPT !.cancel = call.gen]

\* The sortie's receipt must not predate the prepared panel; if it does the
\* call raises, after the tap.
Outdated == call.op = "sortie" /\ call.gen < ctx.prepared.gen

TapReturns ==
    /\ call.pc = "tap"
    /\ ~Outdated
    /\ Inject
    /\ ctx' = Booked
    /\ call' = NoCall
    /\ caller' = IF caller = "closing" THEN "cancelling" ELSE caller
    /\ UNCHANGED <<gameVars, invocations>>

\* "ADB command failed", or the check after a toggle's tap: the game got it.
TapRaisesLate ==
    /\ call.pc = "tap"
    /\ Inject
    /\ call' = NoCall
    /\ caller' = AfterRaise
    /\ UNCHANGED <<gameVars, ctx, invocations>>

Game == Handle \/ Publish
Asking == \/ AskStage \/ AskProceed \/ AskSortie \/ AskCancel \/ RollbackClose
          \/ \E r \in Rows : AskSelect(r) \/ AskClear(r)
                             \/ \E i \in Indices : AskOption(r, i)
Deciding == AuthorizeFleets \/ ConfirmSelection \/ AuthorizeSortie
            \/ ConfirmSortie \/ ConfirmPreSortie \/ Look
Next == Game \/ Begin \/ End \/ Deciding \/ CallRaises \/ Asking
        \/ Aim \/ TapReturns \/ TapRaisesLate

Spec == Init /\ [][Next]_vars

(***************************************************************************)
(* Properties                                                              *)
(***************************************************************************)

\* "A value of one admits exactly one exact stage input": within an invocation
\* the game never gets more budgeted inputs than were granted, although a tap
\* that raises is neither booked nor taken back.
Admitted ==
    /\ delivered.stage <= StageBudget
    /\ delivered.sortie <= SortieBudget
    /\ Len(delivered.mutations) <= FleetBudget

\* What makes it inductive.  While no call has raised, every delivered input is
\* paid for, and a call that is under way has what it will be paid with; an
\* input call is never under way once one has raised.
Spending == {"stage", "sortie", "option", "clear"}

Ledger ==
    (ctx # None /\ caller = "running") =>
        /\ delivered.stage + ctx.entryBudget = StageBudget
        /\ delivered.sortie + ctx.sortieBudget = SortieBudget
        /\ Len(delivered.mutations) + ctx.fleetBudget = FleetBudget

CallFits ==
    call.pc # "idle" =>
        /\ ctx \in Contexts
        /\ call.op \in Inputs
        /\ call.op \in {"select", "clear", "option"} => call.row \in Rows
        /\ call.op = "option" => call.index \in Indices
        /\ call.op \in Spending => caller = "running"
        /\ call.op = "stage" => ctx.entryBudget > 0
        /\ call.op = "sortie" => ctx.sortieBudget > 0 /\ ctx.prepared # None
        /\ call.op \in {"option", "clear"} => ctx.fleetBudget > 0

TapsFit == \A n \in 1..Len(pending) :
              pending[n].op \in {"select", "clear"} => pending[n].row \in Rows

\* A confirmed selection is the game's selection, not just a published one, in
\* an invocation that entered the stage itself: while the panel is open, or the
\* battle entered from it, the selection is the requested one, no tap that could
\* change it is under way, and the inputs the game got are the planned ones in
\* the planned order.  (On a panel that an earlier invocation left open, one of
\* its taps may still be under way; no sortie is made from there.)
SelectionIsReal ==
    (ctx # None /\ ctx.entry # 0 /\ ctx.prepared # None /\ caller = "running") =>
        /\ delivered.mutations = ctx.plan
        /\ game.layer \in {"fleet", "battle"} => game.fleets = ctx.requested
        /\ \A n \in 1..Len(pending) : pending[n].op \notin {"option", "clear"}

\* A sortie is made only in an invocation that entered the stage itself, also
\* when an earlier one failed and left the panel open: the oil counter, read
\* with the stage input and in no other place, is what ties the two.
SortieFollowsEntry == delivered.sortie <= delivered.stage

\* The preflight of every panel and every request ends at the request, unless
\* the map admits no submarine and the panel disagrees about it, and it asks
\* for one clear and one choice per row at most, four mutations in all.
PlanReaches ==
    (ctx # None /\ ctx.initial # None) =>
        LET initial == ctx.initial.fleets
            plan    == Preflight(initial, ctx.requested)
        IN  /\ AllowsSubmarine \/ initial["submarine"] = ctx.requested["submarine"]
                   => plan.values = ctx.requested
            /\ Len(plan.ops) <= 4

\* Whenever the game enters the battle, it does so with the selection that was
\* requested, confirmed and qualified when the sortie was tapped.
SortieAsProven ==
    [][(game.layer # "battle" /\ game'.layer = "battle")
         => game.fleets = Qualified /\ Head(pending).wants = Qualified]_vars

\* A proof tells what happened: cancelled, and the chapter shown again, or
\* sortied by the one input, and in the battle.
ProofsAreTrue ==
    ctx # None =>
        /\ ctx.proof => game.layer = "chapter" /\ ~ctx.sortieProof
        /\ ctx.sortieProof => game.layer = "battle" /\ delivered.sortie = 1
=============================================================================
