---------------------------- MODULE ResearchTask ----------------------------
(***************************************************************************)
(* The research flow: the five cards of the research page, the detail of a *)
(* card, the prompts for its start and for the queue, and the queue.       *)
(* begin_research to end_research in alas_adapter.py, the reads and clicks *)
(* of semantic_oracle.py, and RewardResearch.run of the ALAS patch.        *)
(***************************************************************************)
EXTENDS TaskBase

CONSTANTS
    Projects,  \* projects, each with a code of its own
    CostOf     \* the resource and amount a start costs; two projects may cost the same

ASSUME ResearchAssumption ==
    /\ None \notin Projects /\ None \notin {CostOf[p] : p \in Projects}
    /\ IsFiniteSet(Projects)

Slots == 1..Cardinality(Projects)

ResearchPages  == {"cards", "detail", "startPrompt", "queuePrompt", "queue", "award"}
ResearchStatus == {"idle", "running", "finished", "queued", "done"}

\* "cards" is the project in each slot, from left to right.
ResearchGames ==
    [task : {"research"}, page : ResearchPages, open : Maybe(Projects),
     cards : [Slots -> Projects], status : [Projects -> ResearchStatus]]

ResearchContexts ==
    [kind : {"research"}, budget : [Units -> Nat], selected : Maybe(Projects),
     status : Maybe(ResearchStatus), startInput : BOOLEAN, startConfirmed : BOOLEAN,
     cost : Maybe({CostOf[p] : p \in Projects}), rewarded : BOOLEAN,
     addInput : BOOLEAN, addPaid : BOOLEAN, addConfirmed : BOOLEAN]

ResearchOps == {"inspect", "collectCard", "start", "confirmStart", "add", "confirmAdd",
                "claimQueue", "quit", "enter", "leave", "closeAward"}

\* A card input knows its slot and what the adapter read there.
Cards == [slot : Slots, project : Projects, status : ResearchStatus]

\* A queue input knows the running project a unit is to pay for, if any.  A
\* start remembers the project whose detail it was made for; its confirmation,
\* for the properties, the one that was selected.
ResearchTargets == Cards \union Projects

ResearchInit ==
    \E status \in [Projects -> {"idle", "running"}], cards \in [Slots -> Projects] :
        /\ Cardinality({p \in Projects : status[p] = "running"}) <= 1
        /\ {cards[s] : s \in Slots} = Projects
        /\ game = [task |-> "research", page |-> "cards", open |-> None,
                   cards |-> cards, status |-> status]

\* The project of the card selected last, with its input's receipts: a new
\* selection forgets the old one's.
Selecting(c, p, status) ==
    [c EXCEPT !.selected = p, !.status = status, !.startInput = FALSE,
              !.startConfirmed = FALSE, !.cost = None,
              !.addInput = FALSE, !.addPaid = FALSE, !.addConfirmed = FALSE]

ResearchContext ==
    [kind |-> "research", budget |-> Grant, selected |-> None, status |-> None,
     startInput |-> FALSE, startConfirmed |-> FALSE, cost |-> None, rewarded |-> FALSE,
     addInput |-> FALSE, addPaid |-> FALSE, addConfirmed |-> FALSE]

(***************************************************************************)
(* The game                                                                *)
(***************************************************************************)

ResearchGo(g, page) == [g EXCEPT !.page = page]

\* A card opens the detail of the project in its slot, or collects it when it
\* is finished; another project takes its place, in the model one with the same
\* code.  A started project runs unless another one does; a running one may
\* move to the queue, and what has finished there is claimed together.
ResearchEffect(g, t) ==
    LET card == g.cards[t.at.slot] IN
    CASE t.op \in {"inspect", "collectCard"} /\ g.page = "cards" ->
             IF g.status[card] = "finished"
             THEN [g EXCEPT !.page = "award", !.status[card] = "idle"]
             ELSE [g EXCEPT !.page = "detail", !.open = card]
      [] t.op = "start" /\ g.page = "detail" /\ g.status[g.open] = "idle" -> ResearchGo(g, "startPrompt")
      [] t.op = "confirmStart" /\ g.page = "startPrompt" ->
             [g EXCEPT !.page = "detail",
                       !.status[g.open] = IF \E p \in Projects : g.status[p] = "running"
                                          THEN @ ELSE "running"]
      [] t.op = "add" /\ g.page = "detail" /\ g.status[g.open] = "running" -> ResearchGo(g, "queuePrompt")
      [] t.op = "confirmAdd" /\ g.page = "queuePrompt" ->
             [g EXCEPT !.page = "detail", !.status[g.open] = IF @ = "running" THEN "queued" ELSE @]
      [] t.op = "claimQueue" /\ g.page = "queue" /\ \E p \in Projects : g.status[p] = "done" ->
             [g EXCEPT !.page = "award",
                       !.status = [p \in Projects |-> IF @[p] = "done" THEN "idle" ELSE @[p]]]
      [] t.op = "quit" /\ g.page = "detail" -> [g EXCEPT !.page = "cards", !.open = None]
      [] t.op = "enter" /\ g.page = "cards" -> ResearchGo(g, "queue")
      [] t.op = "leave" /\ g.page = "queue" -> ResearchGo(g, "cards")
      [] t.op = "closeAward" /\ g.page = "award" -> ResearchGo(g, "cards")
      [] OTHER -> g

\* Time passes: the running project finishes, one of the queue is done; and
\* the cards may be shown in another order.
ResearchTime ==
    \/ \E p \in Projects :
          \/ /\ game.status[p] = "running" /\ game.page # "queuePrompt"
             /\ game' = [game EXCEPT !.status[p] = "finished"]
          \/ game.status[p] = "queued" /\ game' = [game EXCEPT !.status[p] = "done"]
    \/ /\ game.page = "cards"
       /\ \E s \in Slots \ {1} : game' = [game EXCEPT !.cards[1] = game.cards[s], !.cards[s] = game.cards[1]]

(***************************************************************************)
(* Calls                                                                   *)
(***************************************************************************)

\* research_projects, research_detail_state, research_start_prompt_cost and
\* research_queue_state: what each reads where its page is shown.
Card(s) == [slot |-> s, project |-> shown.cards[s], status |-> shown.status[shown.cards[s]]]
CardsShown   == shown.page = "cards"
DetailShown  == shown.page = "detail"
CanStart     == DetailShown /\ shown.status[shown.open] = "idle"
IsRunning    == DetailShown /\ shown.status[shown.open] = "running"
Prompt(cost) == shown.page = "startPrompt" /\ CostOf[shown.open] = cost
Claimable    == shown.page = "queue" /\ \E p \in Projects : shown.status[p] = "done"

\* A finished card is collected with its click, and costs a unit.
AskCard(s) ==
    /\ CardsShown
    /\ IF Card(s).status = "finished" THEN Ask("collectCard", Card(s), "reward")
       ELSE Ask("inspect", Card(s), None)

\* Mutant: the identity of the detail is not compared with the selection.
AskStartUnidentified ==
    /\ ctx.budget["start"] > 0 /\ ~ctx.startInput
    /\ CanStart
    /\ Ask("start", shown.open, None)

\* RESEARCH_START: whatever is open, when nothing is selected.
AskStart ==
    /\ ctx.budget["start"] > 0 /\ ~ctx.startInput
    /\ CanStart
    /\ ctx.selected \in {None, shown.open}
    /\ Ask("start", shown.open, None)

\* POPUP_CONFIRM is the queue's prompt once the queue has been asked for, and
\* otherwise the start's, with the cost that the start has noted.
AskConfirm ==
    IF ctx.addInput
    THEN ~ctx.addConfirmed /\ Ask("confirmAdd", None, IF ctx.addPaid THEN "start" ELSE None)
    ELSE /\ ctx.startInput /\ ~ctx.startConfirmed
         /\ Prompt(ctx.cost)
         /\ Ask("confirmStart", ctx.selected, "start")

ExistingRunning == ctx.status = "running" /\ ctx.budget["start"] > 0 /\ IsRunning

\* RESEARCH_QUEUE_ADD, after a start or for one running project; the receipt of
\* a first input is returned for some seconds, and then the input repeated.
AskAdd ==
    /\ ctx.startConfirmed \/ ExistingRunning
    /\ Ask("add", IF ExistingRunning THEN shown.open ELSE None, None)

AskClaimQueue == Claimable /\ Ask("claimQueue", None, "reward")

AskCloseAward == ctx.rewarded /\ shown.page = "award" /\ Ask("closeAward", None, None)

ResearchNavigation == \E op \in {"quit", "enter", "leave"} : Ask(op, None, None)

ResearchAsking ==
    /\ Calling
    /\ \/ \E s \in Slots : AskCard(s)
       \/ AskStart \/ AskConfirm \/ AskAdd \/ AskClaimQueue \/ AskCloseAward
       \/ ResearchNavigation

\* The oracle's own read before the tap.  A card is looked for by its place.
ResearchVisible ==
    CASE call.op \in {"inspect", "collectCard"} -> CardsShown
      [] call.op = "start"        -> CanStart
      [] call.op = "confirmStart" -> shown.page = "startPrompt"
      [] call.op = "add"          -> IsRunning
      [] call.op = "confirmAdd"   -> shown.page = "queuePrompt"
      [] call.op = "claimQueue"   -> Claimable
      [] call.op = "quit"         -> DetailShown
      [] call.op = "enter"        -> shown.page = "cards"
      [] call.op = "leave"        -> shown.page = "queue"
      [] call.op = "closeAward"   -> shown.page = "award"

ResearchBooked ==
    CASE call.op = "inspect"      -> Selecting(Paid, call.at.project, call.at.status)
      [] call.op = "collectCard"  -> [Selecting(Paid, None, None) EXCEPT !.rewarded = TRUE]
      [] call.op = "start"        -> [Paid EXCEPT !.startInput = TRUE, !.startConfirmed = FALSE,
                                                  !.cost = CostOf[call.at]]
      [] call.op = "confirmStart" -> [Paid EXCEPT !.startConfirmed = TRUE]
      [] call.op = "add"          -> [Paid EXCEPT !.addInput = TRUE, !.addConfirmed = FALSE,
                                                  !.addPaid = (call.at # None)]
      [] call.op = "confirmAdd"   -> [Paid EXCEPT !.addConfirmed = TRUE]
      [] call.op = "claimQueue"   -> [Paid EXCEPT !.rewarded = TRUE]
      [] OTHER -> Paid
=============================================================================
