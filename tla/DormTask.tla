------------------------------ MODULE DormTask ------------------------------
(***************************************************************************)
(* The dorm flow: collect what the dorm has produced, and feed it.         *)
(* begin_dorm to end_dorm and dorm_feed_food in alas_adapter.py, the reads *)
(* and clicks of semantic_oracle.py, and RewardDorm of the ALAS patch.     *)
(***************************************************************************)
EXTENDS TaskBase

CONSTANTS
    Foods,
    Value,     \* how much the gauge rises by one portion
    Stock,     \* the portions of each food at the start
    Capacity,  \* the gauge is never fuller
    Appetite   \* max_consumption, at its largest: the time a call takes is not modelled

ASSUME DormAssumption ==
    /\ None \notin Foods
    /\ Value \in [Foods -> Nat] /\ Stock \in [Foods -> Nat] /\ {Capacity, Appetite} \subseteq Nat

\* The room, the feed panel, the dialog about an empty gauge, and the shop that
\* a food without portions opens.
DormPages == {"room", "panel", "empty", "shop"}
DormGames == [task : {"dorm"}, page : DormPages, gauge : 0..Capacity,
              stock : [Foods -> Nat], ripe : BOOLEAN]
DormContexts == [kind : {"dorm"}, budget : [Units -> Nat]]
DormOps == {"collect", "feed", "openPanel", "closePanel", "cancelEmpty", "cancelShop"}

\* A feed input remembers what the panel showed before it.
Portions == [food : Foods, count : Nat, gauge : 0..Capacity]
DormTargets == Portions

DormInit ==
    \E gauge \in 0..Capacity :
        game = [task |-> "dorm", page |-> "room", gauge |-> gauge, stock |-> Stock, ripe |-> TRUE]

DormContext == [kind |-> "dorm", budget |-> Grant]

(***************************************************************************)
(* The game                                                                *)
(***************************************************************************)

\* A portion that does not fit is used up all the same.
Filled(level) == IF level > Capacity THEN Capacity ELSE level

DormEffect(g, t) ==
    CASE t.op = "collect" /\ g.page = "room" -> [g EXCEPT !.ripe = FALSE]
      [] t.op = "openPanel" /\ g.page = "room" ->
             [g EXCEPT !.page = IF g.gauge = 0 THEN "empty" ELSE "panel"]
      [] t.op = "cancelEmpty" /\ g.page = "empty" -> [g EXCEPT !.page = "room"]
      [] t.op = "feed" /\ g.page = "panel" ->
             IF g.stock[t.at.food] = 0 THEN [g EXCEPT !.page = "shop"]
             ELSE [g EXCEPT !.stock[t.at.food] = @ - 1, !.gauge = Filled(@ + Value[t.at.food])]
      [] t.op = "cancelShop" /\ g.page = "shop" -> [g EXCEPT !.page = "panel"]
      [] t.op = "closePanel" /\ g.page = "panel" -> [g EXCEPT !.page = "room"]
      [] OTHER -> g

\* Time passes: the ships eat.
DormTime == game.gauge > 0 /\ game' = [game EXCEPT !.gauge = @ - 1]

(***************************************************************************)
(* Calls                                                                   *)
(***************************************************************************)

AskCollect == Ask("collect", None, "collect")

\* One portion of dorm_feed_food; its count, which must be within the budget,
\* is that many of these calls.
AskFeed(f) ==
    /\ shown.page = "panel"
    /\ shown.stock[f] > 0
    /\ shown.gauge + Value[f] <= Capacity
    /\ Ask("feed", [food |-> f, count |-> shown.stock[f], gauge |-> shown.gauge], "feed")

\* DORM_FEED_ENTER closes a panel that is open already.  A second input within
\* 45 seconds returns the first one's receipt; later it is made again.
DormNavigation ==
    \/ Ask(IF shown.page = "panel" THEN "closePanel" ELSE "openPanel", None, None)
    \/ Ask(IF shown.page = "empty" THEN "cancelEmpty" ELSE "closePanel", None, None)
    \/ Ask("cancelShop", None, None)

DormAsking ==
    /\ Calling
    /\ AskCollect \/ (\E f \in Foods : AskFeed(f)) \/ DormNavigation

\* A food card is looked for again with the whole panel; its count and the
\* gauge are not.
DormVisible ==
    CASE call.op \in {"collect", "openPanel"} -> shown.page = "room"
      [] call.op \in {"feed", "closePanel"}   -> shown.page = "panel"
      [] call.op = "cancelEmpty"              -> shown.page = "empty"
      [] call.op = "cancelShop"               -> shown.page = "shop"

\* The portion is gone and the gauge is no fuller than it made it, and emptier
\* only by what the ships may have eaten meanwhile.
Fed ==
    /\ shown.page = "panel"
    /\ shown.stock[call.at.food] = call.at.count - 1
    /\ shown.gauge <= call.at.gauge + Value[call.at.food]
    /\ call.at.gauge + Value[call.at.food] <= shown.gauge + Appetite
=============================================================================
