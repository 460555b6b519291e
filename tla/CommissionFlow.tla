--------------------------- MODULE CommissionFlow ---------------------------
(***************************************************************************)
(* One commission invocation: collect a finished commission from the       *)
(* reward summary, and start a new one from the list (the commission flow  *)
(* of AlasSemanticAdapter in alas_adapter.py, its oracle calls in          *)
(* semantic_oracle.py, and RewardCommission.run in the ALAS patch).        *)
(*                                                                         *)
(* As in CampaignFlow the caller is ALAS, free to make the calls in any    *)
(* order until one raises; then the patch ends the invocation, and ALAS    *)
(* may begin another one.  An input is decided on what the observer last   *)
(* published, while the game handles earlier taps and while commissions    *)
(* finish on their own.                                                    *)
(***************************************************************************)
EXTENDS Naturals, Sequences, FiniteSets

\* One face stands for two comparisons of the code: of name, level and duration
\* on the detail, and of name, level and type in the transition of a start.
CONSTANTS
    Rows,            \* commissions of the list, by their index
    Faces,           \* what a row shows beside its index: name, level, duration, type
    FaceOf,          \* the face of each row; two rows may look the same
    ZeroOil,         \* the rows that cost no oil
    RewardBudget, StartBudget,
    MaxInvocations,  \* bound of the model: begin_commission() calls
    MaxPending,      \* bound of the model: taps the game has not handled
    None             \* no context, row, count or proof

ASSUME CommissionAssumption ==
    /\ FaceOf \in [Rows -> Faces]
    /\ ZeroOil \subseteq Rows
    /\ IsFiniteSet(Rows)
    /\ None \notin Rows
    /\ {RewardBudget, StartBudget, MaxInvocations, MaxPending} \subseteq Nat

Maybe(S) == S \union {None}

VARIABLES
    game,         \* the page on top, the open detail, and the rows
    pending,      \* taps injected and not handled yet
    shown,        \* the last publication
    ctx,          \* the _CommissionFlowContext, or None
    call,         \* the adapter call under way
    caller,       \* ALAS: running, or in the patch's finally clause
    invocations,  \* invocations begun
    delivered,    \* history: budgeted inputs injected in this invocation
    gained,       \* history: commissions collected by a finish input of this invocation
    started       \* history: rows the flow's start inputs have started

vars == <<game, pending, shown, ctx, call, caller, invocations,
          delivered, gained, started>>
history == <<delivered, gained, started>>

Popups == {"exp", "award"}
Pages  == {"summary", "list", "detail"} \union Popups
Status == {"pending", "running", "finished", "gone"}
Inputs == {"finish", "close", "go", "back", "arrow", "row", "recommend", "start", "leave"}

Games == [page : Pages, open : Maybe(Rows), ships : BOOLEAN, rows : [Rows -> Status]]

\* A receipt of a closed popup is its popup.
Contexts ==
    [rewardBudget : Nat, detected : Maybe(Nat), claimed : BOOLEAN,
     closes : SUBSET Popups, rewardProof : BOOLEAN,
     startBudget : Nat, selected : Maybe(Rows), startInput : BOOLEAN,
     startProof : Maybe(Rows)]

ASSUME NoneAssumption == None \notin Contexts

\* "at" is the row or the popup an input is made for.
Calls == [pc : {"idle", "aim", "wait"}, op : Maybe(Inputs), at : Maybe(Rows \union Popups)]
Taps  == [op : Inputs, at : Maybe(Rows \union Popups), run : Nat]

NoCall == [pc |-> "idle", op |-> None, at |-> None]

Finished(g) == {r \in Rows : g.rows[r] = "finished"}
Count(g)    == Cardinality(Finished(g))

TypeOK ==
    /\ game \in Games /\ shown \in Games
    /\ pending \in Seq(Taps)
    /\ ctx \in Maybe(Contexts)
    /\ call \in Calls
    /\ caller \in {"running", "leaving"}
    /\ invocations \in 0..MaxInvocations
    /\ delivered \in [finish : Nat, start : Nat]
    /\ gained \in Nat
    /\ started \subseteq Rows

Init ==
    /\ \E rows \in [Rows -> {"pending", "running", "finished"}] :
          game = [page |-> "summary", open |-> None, ships |-> FALSE, rows |-> rows]
    /\ shown = game
    /\ pending = <<>> /\ ctx = None /\ call = NoCall /\ caller = "running"
    /\ invocations = 0 /\ delivered = [finish |-> 0, start |-> 0]
    /\ gained = 0 /\ started = {}

(***************************************************************************)
(* The game                                                                *)
(***************************************************************************)

Closed(g, page) == [g EXCEPT !.page = page, !.open = None, !.ships = FALSE]

\* What a tap does; where its control is not on top, nothing.  A finish input
\* collects everything that has finished, and shows it in two popups; a
\* started commission keeps its detail open.
Effect(g, t) ==
    CASE t.op = "finish" /\ g.page = "summary" /\ Finished(g) # {} ->
             [g EXCEPT !.page = "exp",
                       !.rows = [r \in Rows |-> IF r \in Finished(g) THEN "gone" ELSE @[r]]]
      [] t.op = "close" /\ g.page = "exp"   -> [g EXCEPT !.page = "award"]
      [] t.op = "close" /\ g.page = "award" -> [g EXCEPT !.page = "list"]
      [] t.op = "go"    /\ g.page = "summary" -> [g EXCEPT !.page = "list"]
      [] t.op \in {"back", "arrow"} /\ g.page = "list" -> [g EXCEPT !.page = "summary"]
      [] t.op = "row"   /\ g.page = "list" /\ g.rows[t.at] # "gone" ->
             [g EXCEPT !.page = "detail", !.open = t.at, !.ships = FALSE]
      [] t.op = "recommend" /\ g.page = "detail" /\ g.rows[g.open] = "pending" ->
             [g EXCEPT !.ships = TRUE]
      [] t.op = "start" /\ g.page = "detail" /\ g.rows[g.open] = "pending" /\ g.ships ->
             [g EXCEPT !.rows[g.open] = "running"]
      [] t.op = "leave" /\ g.page = "detail" -> Closed(g, "summary")
      [] OTHER -> g

Handle ==
    /\ pending # <<>>
    /\ game' = Effect(game, Head(pending))
    /\ pending' = Tail(pending)
    /\ gained' = IF Head(pending).op = "finish" /\ game' # game /\ Head(pending).run = invocations
                 THEN gained + Count(game) ELSE gained
    /\ started' = started \union {r \in Rows : game.rows[r] = "pending" /\ game'.rows[r] = "running"}
    /\ UNCHANGED <<shown, ctx, call, caller, invocations, delivered>>

\* Time passes: a running commission finishes.
Finish(r) ==
    /\ game.rows[r] = "running"
    /\ game' = [game EXCEPT !.rows[r] = "finished"]
    /\ UNCHANGED <<pending, shown, ctx, call, caller, invocations, history>>

Publish ==
    /\ shown # game
    /\ shown' = game
    /\ UNCHANGED <<game, pending, ctx, call, caller, invocations, history>>

(***************************************************************************)
(* begin and end                                                           *)
(***************************************************************************)

Begin ==
    /\ ctx = None /\ call = NoCall
    /\ invocations < MaxInvocations
    /\ invocations' = invocations + 1
    /\ ctx' = [rewardBudget |-> RewardBudget, detected |-> None, claimed |-> FALSE,
               closes |-> {}, rewardProof |-> FALSE,
               startBudget |-> StartBudget, selected |-> None, startInput |-> FALSE,
               startProof |-> None]
    /\ caller' = "running"
    /\ delivered' = [finish |-> 0, start |-> 0] /\ gained' = 0
    /\ UNCHANGED <<game, pending, shown, call, started>>

\* The finally clause of RewardCommission.run.
End ==
    /\ ctx # None /\ call = NoCall
    /\ ctx' = None
    /\ UNCHANGED <<game, pending, shown, call, caller, invocations, history>>

(***************************************************************************)
(* Calls without input                                                     *)
(***************************************************************************)

Calling == ctx # None /\ call = NoCall /\ caller = "running"
Quiet == UNCHANGED <<game, pending, shown, call, caller, invocations, history>>

\* What commission_reward_pending keeps of the summary it reads.
Detected == IF shown.page = "summary" /\ Count(shown) > 0 THEN Count(shown) ELSE None

RewardPending ==
    /\ Calling
    /\ ctx' = [ctx EXCEPT !.detected = Detected]
    /\ ctx' # ctx
    /\ Quiet

\* The detail of the selected row, as far as a detail can be told: the page
\* shows the face of its row and not the index.
ShowsSelected == /\ shown.page = "detail"
                 /\ ctx.selected # None
                 /\ FaceOf[shown.open] = FaceOf[ctx.selected]

\* The running row or the running detail that commission_start_transition takes
\* as the proof of a start.
ShowsRunning ==
    \/ ShowsSelected /\ shown.rows[shown.open] = "running"
    \/ shown.page = "list" /\ shown.rows[ctx.selected] = "running"

\* Mutant: the proof is taken from the input and not from the screen.
StartConfirmedUnseen ==
    /\ Calling
    /\ ctx.startInput /\ ctx.selected # None /\ ctx.startProof = None
    /\ ctx' = [ctx EXCEPT !.startProof = ctx.selected]
    /\ Quiet

\* commission_start_confirmed; without the proof it returns False or raises.
StartConfirmed ==
    /\ Calling
    /\ ctx.startInput /\ ctx.selected # None /\ ctx.startProof = None
    /\ ShowsRunning
    /\ ctx' = [ctx EXCEPT !.startProof = ctx.selected]
    /\ Quiet

\* Any call may raise, before its input or while it waits.
CallRaises ==
    /\ ctx # None /\ caller = "running"
    /\ call' = NoCall
    /\ caller' = "leaving"
    /\ UNCHANGED <<game, pending, shown, ctx, invocations, history>>

(***************************************************************************)
(* Calls with input, first moment: the adapter's own checks                *)
(***************************************************************************)

Ask(op, at) ==
    /\ call' = [pc |-> "aim", op |-> op, at |-> at]
    /\ UNCHANGED <<game, pending, shown, caller, invocations, history>>

\* Mutant: a second click of the cached button is a second input.
AskFinishAgain ==
    /\ Calling
    /\ Detected = 1
    /\ ctx' = [ctx EXCEPT !.detected = Detected]
    /\ Ask("finish", None)

\* The counter is read again, and must be one; a click after the first one
\* returns the first receipt.
AskFinish ==
    /\ Calling
    /\ ~ctx.claimed
    /\ ctx.rewardBudget > 0 /\ Detected = 1
    /\ ctx' = [ctx EXCEPT !.detected = Detected]
    /\ Ask("finish", None)

\* Mutant: the receipt of a closed popup is not looked for.
AskCloseAgain(p) ==
    /\ Calling
    /\ ctx.claimed
    /\ UNCHANGED ctx
    /\ Ask("close", p)

\* A popup that has been closed once returns its receipt.
AskClose(p) ==
    /\ Calling
    /\ ctx.claimed
    /\ p \notin ctx.closes
    /\ UNCHANGED ctx
    /\ Ask("close", p)

AskGo ==
    /\ Calling
    /\ UNCHANGED ctx
    /\ Ask("go", None)

\* BACK_ARROW, with the list's back button as the only enabled target.
AskArrow ==
    /\ Calling
    /\ UNCHANGED ctx
    /\ Ask("arrow", None)

AskRow(r) ==
    /\ Calling
    /\ UNCHANGED ctx
    /\ Ask("row", r)

AskRecommend ==
    /\ Calling
    /\ ctx.selected # None
    /\ UNCHANGED ctx
    /\ Ask("recommend", ctx.selected)

\* Mutant: the oil cost is not looked at.
StartVisibleAnyOil == ShowsSelected /\ shown.ships /\ shown.rows[shown.open] = "pending"

\* Both the adapter and click_commission_start ask for it: the detail is the
\* selected one, has its ships and costs no oil.
StartVisible ==
    /\ ShowsSelected
    /\ shown.ships /\ shown.open \in ZeroOil
    /\ shown.rows[shown.open] = "pending"

\* Mutant: the budget is not asked for.
AskStartUnfunded ==
    /\ Calling
    /\ ctx.selected # None /\ ~ctx.startInput
    /\ StartVisible
    /\ UNCHANGED ctx
    /\ Ask("start", ctx.selected)

AskStart ==
    /\ Calling
    /\ ctx.selected # None /\ ~ctx.startInput
    /\ ctx.startBudget > 0
    /\ StartVisible
    /\ UNCHANGED ctx
    /\ Ask("start", ctx.selected)

\* confirm_commission_reward leaves the list for the summary.
AskBack ==
    /\ Calling
    /\ ~ctx.rewardProof
    /\ ctx.claimed /\ ctx.detected = 1 /\ ctx.closes # {}
    /\ UNCHANGED ctx
    /\ Ask("back", None)

\* close_started_commission_detail
AskLeave ==
    /\ Calling
    /\ ctx.startProof # None
    /\ UNCHANGED ctx
    /\ Ask("leave", None)

(***************************************************************************)
(* Second moment: the oracle's fresh read of its target, and the tap       *)
(***************************************************************************)

Visible ==
    CASE call.op = "finish"    -> shown.page = "summary" /\ Count(shown) > 0
      [] call.op = "close"     -> shown.page = call.at
      [] call.op = "go"        -> shown.page = "summary"
      [] call.op \in {"back", "arrow"} -> shown.page = "list"
      [] call.op = "row"       -> shown.page = "list" /\ shown.rows[call.at] = "pending"
      [] call.op = "recommend" -> ShowsSelected /\ shown.rows[shown.open] = "pending"
      [] call.op = "start"     -> StartVisible
      [] call.op = "leave"     -> shown.page = "detail"

\* The tap reaches the game.
Inject ==
    /\ call.pc = "aim"
    /\ Visible
    /\ Len(pending) < MaxPending
    /\ pending' = Append(pending, [op |-> call.op, at |-> call.at, run |-> invocations])
    /\ delivered' = CASE call.op = "finish" -> [delivered EXCEPT !.finish = @ + 1]
                      [] call.op = "start"  -> [delivered EXCEPT !.start = @ + 1]
                      [] OTHER -> delivered
    /\ UNCHANGED <<game, shown, invocations, gained, started>>

\* The adapter's bookkeeping once the oracle has returned a receipt.
Booked ==
    CASE call.op = "finish" -> [ctx EXCEPT !.rewardBudget = @ - 1, !.claimed = TRUE]
      [] call.op = "close"  -> [ctx EXCEPT !.closes = @ \union {call.at}]
      [] call.op = "row"    -> [ctx EXCEPT !.selected = call.at, !.startInput = FALSE,
                                           !.startProof = None]
      [] call.op = "start"  -> [ctx EXCEPT !.startBudget = @ - 1, !.startInput = TRUE]
      [] OTHER -> ctx

\* Two calls go on to wait for the summary.
TapReturns ==
    /\ Inject
    /\ ctx' = Booked
    /\ call' = IF call.op \in {"back", "leave"} THEN [call EXCEPT !.pc = "wait"] ELSE NoCall
    /\ UNCHANGED caller

TapRaisesLate ==
    /\ Inject
    /\ call' = NoCall
    /\ caller' = "leaving"
    /\ UNCHANGED ctx

\* The summary came; after a reward its counter must have gone to zero.
Waited ==
    /\ call.pc = "wait"
    /\ shown.page = "summary"
    /\ call' = NoCall
    /\ IF call.op = "back" /\ Count(shown) # 0
       THEN caller' = "leaving" /\ UNCHANGED ctx
       ELSE /\ ctx' = IF call.op = "back" THEN [ctx EXCEPT !.rewardProof = TRUE] ELSE ctx
            /\ UNCHANGED caller
    /\ UNCHANGED <<game, pending, shown, invocations, history>>

Game == Handle \/ Publish \/ \E r \in Rows : Finish(r)
Asking == \/ AskFinish \/ AskGo \/ AskArrow \/ AskRecommend \/ AskStart \/ AskBack \/ AskLeave
          \/ \E p \in Popups : AskClose(p)
          \/ \E r \in Rows : AskRow(r)
Next == Game \/ Begin \/ End \/ RewardPending \/ StartConfirmed \/ CallRaises
        \/ Asking \/ TapReturns \/ TapRaisesLate \/ Waited

Spec == Init /\ [][Next]_vars

(***************************************************************************)
(* Properties                                                              *)
(***************************************************************************)

\* Within an invocation the game gets no more finish and start inputs than
\* were granted, whichever rows are selected in between, however often a
\* cached button is clicked, and whether or not a tap was booked.
InputsFunded ==
    /\ delivered.finish <= RewardBudget
    /\ delivered.start <= StartBudget

\* What makes it inductive: while no call has raised, every delivered input is
\* booked, and one under way has its unit.
Ledger ==
    (ctx # None /\ caller = "running") =>
        /\ delivered.finish + ctx.rewardBudget = RewardBudget
        /\ delivered.start + ctx.startBudget = StartBudget

CallFits ==
    call.pc # "idle" =>
        /\ ctx # None /\ caller = "running" /\ call.op \in Inputs
        /\ call.op = "finish" => ctx.rewardBudget > 0
        /\ call.op = "start" => ctx.startBudget > 0
        /\ call.op = "row" => call.at \in Rows
        /\ call.op = "close" => call.at \in Popups /\ ctx.claimed /\ call.at \notin ctx.closes

TapFits(t) == /\ t.op = "row" => t.at \in Rows
              /\ t.op = "close" => t.at \in Popups
TapsFit == \A n \in 1..Len(pending) : TapFits(pending[n])

\* "A second commission completing after the preflight cannot turn a one-item
\* budget into a multi-claim action" (alas_adapter.py, before the finish input).
\* It can: the counter is one on the screen that is read, and the tap is
\* handled after the next commission has finished.
ClaimsFunded == gained <= RewardBudget

\* A start proof is about a commission that this flow has started: there is a
\* row of the proven face that one of its start inputs set running.
StartProofTrue ==
    (ctx # None /\ ctx.startProof # None) =>
        \E r \in started : FaceOf[r] = FaceOf[ctx.startProof]

\* A start input starts the commission that was selected for it, or one that
\* looks the same, and never one that costs oil, although detail and list are
\* read before it is handled.
StartsAsSelected ==
    [][\A r \in Rows :
          (game.rows[r] = "pending" /\ game'.rows[r] = "running") =>
              /\ r \in ZeroOil
              /\ FaceOf[r] = FaceOf[Head(pending).at]]_vars

\* A close input is handled by the popup it was made for and never falls
\* through to what is below it: the receipt of the first close is returned
\* where a second look still shows the popup.
ClosesLand ==
    [][(pending # <<>> /\ pending' = Tail(pending) /\ Head(pending).op = "close") =>
           game.page = Head(pending).at]_vars

\* What makes them inductive.  A close under way belongs to a popup that both
\* the game and its last publication show, and there is one; a popup that is
\* shown and has not been closed is still there.
CloseUnderWay == \E n \in 1..Len(pending) : pending[n].op = "close"

PopupsAhead ==
    /\ \A n \in 1..Len(pending) : pending[n].op = "close" =>
           /\ game.page = pending[n].at /\ shown.page = pending[n].at
           /\ \A k \in 1..Len(pending) : pending[k].op = "close" => k = n
    /\ (/\ ctx # None /\ caller = "running" /\ ctx.claimed
        /\ shown.page \in Popups \ ctx.closes) =>
           game.page = shown.page /\ ~CloseUnderWay

\* A row that is pending, or was and has been started by the flow.
Startable == {r \in Rows : game.rows[r] = "pending" \/ r \in started}

RowsKnown ==
    /\ \A r \in Rows : shown.rows[r] = "pending" => r \in Startable
    /\ \A r \in Rows : shown.rows[r] = "running" => game.rows[r] # "pending"
    /\ game.page = "detail" => game.open \in Startable
    /\ shown.page = "detail" => shown.open \in Startable
    /\ \A n \in 1..Len(pending) : pending[n].op = "row" => pending[n].at \in Startable
    /\ (ctx # None /\ ctx.selected # None) => ctx.selected \in Startable
=============================================================================
