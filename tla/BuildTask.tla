----------------------------- MODULE BuildTask ------------------------------
(***************************************************************************)
(* The construction flow: choose a pool, and order one ship.  begin_build  *)
(* to end_build in alas_adapter.py, the reads and clicks of                *)
(* semantic_oracle.py, and RewardGacha of the ALAS patch, which looks at   *)
(* the queue of orders before anything else.                               *)
(***************************************************************************)
EXTENDS TaskBase

CONSTANTS
    Pools,
    PriceOf,  \* the coins an order of each pool costs
    Coins     \* the coins owned at the start

ASSUME BuildAssumption ==
    None \notin Pools /\ PriceOf \in [Pools -> Nat] /\ Coins \in Nat

\* The pool page, its warning, the order dialog, and the queue's page.
BuildPages == {"pools", "warning", "order", "queue"}
BuildGames == [task : {"build"}, page : BuildPages, pool : Pools, coins : Nat,
               orders : Nat, warns : BOOLEAN]
BuildContexts ==
    [kind : {"build"}, budget : [Units -> Nat], coins : Maybe(Nat), flushed : BOOLEAN,
     warned : BOOLEAN, ordered : BOOLEAN]
BuildOps == {"pool", "prepare", "confirmWarning", "order", "cancel", "toQueue", "toPools"}
BuildTargets == Pools

\* The queue may hold an order made by hand.
BuildInit ==
    \E pool \in Pools, warns \in BOOLEAN, orders \in {0, 1} :
        game = [task |-> "build", page |-> "pools", pool |-> pool, coins |-> Coins,
                orders |-> orders, warns |-> warns]

BuildContext ==
    [kind |-> "build", budget |-> Grant, coins |-> None, flushed |-> FALSE,
     warned |-> FALSE, ordered |-> FALSE]

(***************************************************************************)
(* The game                                                                *)
(***************************************************************************)

BuildGo(g, page) == [g EXCEPT !.page = page]

BuildEffect(g, t) ==
    CASE t.op = "pool" /\ g.page = "pools" -> [g EXCEPT !.pool = t.at]
      [] t.op = "prepare" /\ g.page = "pools" -> BuildGo(g, IF g.warns THEN "warning" ELSE "order")
      [] t.op = "confirmWarning" /\ g.page = "warning" -> BuildGo(g, "order")
      [] t.op = "order" /\ g.page = "order" /\ g.coins >= PriceOf[g.pool] ->
             [g EXCEPT !.page = "queue", !.coins = @ - PriceOf[g.pool], !.orders = @ + 1]
      [] t.op = "cancel" /\ g.page \in {"warning", "order"} -> BuildGo(g, "pools")
      [] t.op = "toQueue" /\ g.page = "pools" -> BuildGo(g, "queue")
      [] t.op = "toPools" /\ g.page = "queue" -> BuildGo(g, "pools")
      [] OTHER -> g

\* Time passes: a ship is built, and collected by hand.
BuildTime == game.orders > 0 /\ game' = [game EXCEPT !.orders = @ - 1]

(***************************************************************************)
(* Calls                                                                   *)
(***************************************************************************)

\* build_coins_owned reads the counter once, from the pool page.
ReadCoins ==
    /\ shown.page = "pools" /\ ctx.coins = None
    /\ Note([ctx EXCEPT !.coins = shown.coins])

\* Mutant: an order in the queue does not stop the flow.
ReadQueueUnchecked ==
    /\ shown.page = "queue" /\ ~ctx.flushed
    /\ Note([ctx EXCEPT !.flushed = TRUE])

\* BUILD_QUEUE_EMPTY raises where the queue is not empty and the flow has not
\* ordered yet.
ReadQueue ==
    /\ shown.page = "queue" /\ ~ctx.flushed
    /\ shown.orders = 0
    /\ Note([ctx EXCEPT !.flushed = TRUE])

AskPool(p) == Ask("pool", p, None)

\* gacha_run flushes the queue before it submits.
AskPrepare == ctx.flushed /\ Ask("prepare", None, None)

\* The warning is confirmed once, and this is noted before the tap.
AskConfirmWarning ==
    /\ ~ctx.warned
    /\ shown.page = "warning"
    /\ ctx' = [ctx EXCEPT !.warned = TRUE]
    /\ AskWith("confirmWarning", None, None, FALSE)

\* POPUP_CONFIRM_GACHA_ORDER, for the pool whose price the dialog shows.  It is
\* refused for a count other than one and for a lack of cubes as well, which the
\* model does not keep: CallRaises stands for those refusals.
AskOrder ==
    /\ shown.page = "order"
    /\ ctx.coins # None /\ ctx.coins >= PriceOf[shown.pool]
    /\ ~ctx.ordered
    /\ Ask("order", shown.pool, "submit")

BuildNavigation == \E op \in {"cancel", "toQueue", "toPools"} : Ask(op, None, None)

BuildAsking ==
    /\ Calling
    /\ \/ ReadCoins \/ ReadQueue \/ AskPrepare \/ AskConfirmWarning \/ AskOrder
       \/ \E p \in Pools : AskPool(p)
       \/ BuildNavigation

BuildVisible ==
    CASE call.op \in {"pool", "prepare", "toQueue"} -> shown.page = "pools"
      [] call.op = "confirmWarning" -> shown.page = "warning"
      [] call.op = "order"          -> shown.page = "order"
      [] call.op = "cancel"         -> shown.page \in {"warning", "order"}
      [] call.op = "toPools"        -> shown.page = "queue"

BuildBooked == IF call.op = "order" THEN [Paid EXCEPT !.ordered = TRUE] ELSE Paid
=============================================================================
