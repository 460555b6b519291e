---------------------------- MODULE MissionTask -----------------------------
(***************************************************************************)
(* The mission flow: enter the task page, claim everything once, close the *)
(* popup and go back.  begin_mission_reward, _stable_mission_state and the *)
(* mission branch of click in alas_adapter.py, mission_page_state in       *)
(* semantic_oracle.py, and Reward.run of the ALAS patch.                   *)
(***************************************************************************)
EXTENDS TaskBase

\* The page is loading when it has been entered.
MissionPages == {"main", "loading", "tasks", "award"}
Dispositions == {"claimable", "unfinished"}
MissionGames == [task : {"mission"}, page : MissionPages, left : Dispositions]
MissionContexts ==
    [kind : {"mission"}, budget : [Units -> Nat], entered : BOOLEAN,
     seen : Maybe(Dispositions), stable : BOOLEAN]
MissionOps == {"task", "claim", "closeReward", "leaveTasks"}
MissionTargets == {}

MissionInit ==
    \E left \in Dispositions : game = [task |-> "mission", page |-> "main", left |-> left]

MissionContext ==
    [kind |-> "mission", budget |-> Grant, entered |-> FALSE, seen |-> None, stable |-> FALSE]

MissionGo(g, page) == [g EXCEPT !.page = page]

MissionEffect(g, t) ==
    CASE t.op = "task" /\ g.page = "main" -> MissionGo(g, "loading")
      [] t.op = "claim" /\ g.page = "tasks" /\ g.left = "claimable" ->
             [g EXCEPT !.page = "award", !.left = "unfinished"]
      [] t.op = "closeReward" /\ g.page = "award" -> MissionGo(g, "tasks")
      [] t.op = "leaveTasks" /\ g.page = "tasks" -> MissionGo(g, "main")
      [] OTHER -> g

\* Time passes: the page has loaded, or another mission is done.
MissionTime ==
    \/ game.page = "loading" /\ game' = MissionGo(game, "tasks")
    \/ game.page = "main" /\ game.left = "unfinished" /\ game' = [game EXCEPT !.left = "claimable"]

(***************************************************************************)
(* Calls                                                                   *)
(***************************************************************************)

\* mission_page_state: nothing can be told from a page that is loading.
Disposition == IF shown.page = "tasks" THEN shown.left ELSE None

\* _stable_mission_state counts the publications that agree, and two are
\* enough; a page of another kind starts again, and an unknown one forgets.  The
\* code has them differ in their generation.  The observer publishes a page that
\* has not changed again and again, which is no step of this model, so any two
\* reads may be of two publications here, even where they were of one.
Observed == [ctx EXCEPT !.seen = Disposition,
                        !.stable = Disposition # None /\ Disposition = ctx.seen]

ReadMissions ==
    /\ shown.page \in {"loading", "tasks"}
    /\ Observed # ctx
    /\ Note(Observed)

\* main/task; another click returns the first one's receipt.
AskTask == ~ctx.entered /\ Ask("task", None, None)

\* MISSION_MULTI takes the unit before its click.
AskClaim ==
    /\ Observed.stable /\ Observed.seen = "claimable"
    /\ Funded("claim")
    /\ ctx' = [Observed EXCEPT !.budget["claim"] = @ - 1]
    /\ AskWith("claim", None, "claim", TRUE)

AskCloseReward == shown.page = "award" /\ Ask("closeReward", None, None)

AskLeaveTasks == Ask("leaveTasks", None, None)

MissionAsking ==
    /\ Calling
    /\ ReadMissions \/ AskTask \/ AskClaim \/ AskCloseReward \/ AskLeaveTasks

MissionVisible ==
    CASE call.op = "task"        -> shown.page = "main"
      [] call.op = "claim"       -> Disposition = "claimable"
      [] call.op = "closeReward" -> shown.page = "award"
      [] call.op = "leaveTasks"  -> shown.page = "tasks"

MissionBooked == IF call.op = "task" THEN [Paid EXCEPT !.entered = TRUE] ELSE Paid
=============================================================================
