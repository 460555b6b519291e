------------------------------ MODULE TaskBase ------------------------------
(***************************************************************************)
(* What the flows of the adapter that serve one ALAS task each have in     *)
(* common: the game with the taps it has not handled, the observer's last  *)
(* publication of it, and one adapter call at a time, made within a flow   *)
(* context with its budgets.  ResearchTask, DormTask, BuildTask,           *)
(* TacticalTask and MissionTask say what a screen of their task is and     *)
(* which calls it has; TaskFlows puts them together.                       *)
(*                                                                         *)
(* A call with input has two moments.  First the adapter reads the screen, *)
(* checks its context and decides; then the oracle reads the screen again, *)
(* checks that its target is there, and taps.  The game handles the tap    *)
(* later, and may have changed once more by then.                          *)
(***************************************************************************)
EXTENDS Naturals, Sequences, FiniteSets

CONSTANTS
    Grant,           \* the units of each budget an invocation is given
    MaxInvocations,  \* bound of the model: begin_*() calls
    MaxPending,      \* bound of the model: taps the game has not handled
    None             \* no context, no unit, nothing selected

\* The budgets, each named for the input a unit of it pays for.
Units == {"claim", "reward", "start", "collect", "feed", "submit", "assign"}

ASSUME TaskAssumption ==
    /\ Grant \in [Units -> Nat]
    /\ {MaxInvocations, MaxPending} \subseteq Nat
    /\ None \notin Units

Maybe(S) == S \union {None}

VARIABLES
    game,         \* the task's part of the game: its page and what it shows
    pending,      \* taps injected and not handled yet
    shown,        \* the last publication
    ctx,          \* the flow context, or None
    call,         \* the adapter call under way
    caller,       \* ALAS: running, or in the patch's finally clause
    invocations,  \* invocations begun
    clean,        \* history: when this one began, no tap was on its way and all was published
    delivered,    \* history: inputs of this invocation, by the unit that pays for them
    begun         \* history: the work in the game that its taps have begun

vars == <<game, pending, shown, ctx, call, caller, invocations,
          clean, delivered, begun>>

\* "at" is what the call is made for, "unit" what it costs; it is "booked"
\* when the adapter has taken the unit before the tap.
Calls(Ops, Targets) ==
    [pc : {"idle", "aim", "wait"}, op : Maybe(Ops), at : Maybe(Targets),
     unit : Maybe(Units), booked : BOOLEAN]
Taps(Ops, Targets) ==
    [op : Ops, at : Maybe(Targets), unit : Maybe(Units), run : Nat]

NoCall == [pc |-> "idle", op |-> None, at |-> None, unit |-> None, booked |-> FALSE]

Calling == ctx # None /\ call = NoCall /\ caller = "running"

(***************************************************************************)
(* Calls                                                                   *)
(***************************************************************************)

\* Mutant: a budget of zero pays for one more.
FundedByZero(unit) == unit # None => ctx.budget[unit] >= 0

Funded(unit) == unit # None => ctx.budget[unit] > 0

\* The first moment of a call that has passed the adapter's checks.
AskWith(op, at, unit, booked) ==
    /\ call' = [pc |-> "aim", op |-> op, at |-> at, unit |-> unit, booked |-> booked]
    /\ UNCHANGED <<game, pending, shown, caller, invocations, clean, delivered, begun>>

Ask(op, at, unit) ==
    /\ Calling
    /\ Funded(unit)
    /\ UNCHANGED ctx
    /\ AskWith(op, at, unit, FALSE)

\* A call that makes no input and changes the context only.
Note(context) ==
    /\ Calling
    /\ ctx' = context
    /\ UNCHANGED <<game, pending, shown, call, caller, invocations, clean, delivered, begun>>

\* Any call may raise, before its input or while it waits for its effect.
CallRaises ==
    /\ ctx # None /\ caller = "running"
    /\ call' = NoCall
    /\ caller' = "leaving"
    /\ UNCHANGED <<game, pending, shown, ctx, invocations, clean, delivered, begun>>

\* The tap of the second moment reaches the game.
Inject ==
    /\ call.pc = "aim"
    /\ Len(pending) < MaxPending
    /\ pending' = Append(pending, [op |-> call.op, at |-> call.at,
                                   unit |-> call.unit, run |-> invocations])
    /\ delivered' = [u \in Units |-> IF u = call.unit THEN delivered[u] + 1 ELSE delivered[u]]
    /\ UNCHANGED <<game, shown, invocations, clean, begun>>

\* Mutant: a unit taken before the tap is taken again after it.
PaidAgain == IF call.unit = None THEN ctx ELSE [ctx EXCEPT !.budget[call.unit] = @ - 1]

\* The context once the input's unit is taken.
Paid == IF call.unit = None \/ call.booked THEN ctx
        ELSE [ctx EXCEPT !.budget[call.unit] = @ - 1]

\* An input is followed by more checks, which may fail: the tap is on its way
\* and the adapter has not booked it.
RaisesLate ==
    /\ call' = NoCall
    /\ caller' = "leaving"
    /\ UNCHANGED ctx

(***************************************************************************)
(* begin_*, end_*, and the observer                                        *)
(***************************************************************************)

Begin(context) ==
    /\ ctx = None
    /\ invocations < MaxInvocations
    /\ invocations' = invocations + 1
    /\ ctx' = context
    /\ caller' = "running"
    /\ clean' = (pending = <<>> /\ shown = game)
    /\ delivered' = [u \in Units |-> 0]
    /\ begun' = {}
    /\ UNCHANGED <<game, pending, shown, call>>

\* The finally clause of the hooks; it runs once the task is through or a call
\* has raised.
End ==
    /\ ctx # None /\ call = NoCall
    /\ ctx' = None
    /\ UNCHANGED <<game, pending, shown, call, caller, invocations, clean, delivered, begun>>

Publish ==
    /\ shown # game
    /\ shown' = game
    /\ UNCHANGED <<game, pending, ctx, call, caller, invocations, clean, delivered, begun>>
=============================================================================
