---------------------------- MODULE MCTaskFlows -----------------------------
(* Projects, foods, pools, ships and budgets for TaskFlows. *)
EXTENDS TaskFlows, TLC

CONSTANTS p1, p2, bread, curry, light, heavy, s1, s2, blue, red

TwoProjects == {p1, p2}
Costs       == [p \in TwoProjects |-> p]
TwoFoods    == {bread, curry}
Values      == [f \in TwoFoods |-> IF f = bread THEN 1 ELSE 2]
Larder      == [f \in TwoFoods |-> 2]
TwoPools    == {light, heavy}
Prices      == [p \in TwoPools |-> IF p = light THEN 1 ELSE 2]
TwoShips    == {s1, s2}
TwoBooks    == {blue, red}
Copies      == [b \in TwoBooks |-> 1]
Given       == [u \in Units |-> IF u \in {"feed", "start"} THEN 2 ELSE 1]

\* Research has the largest screens and the longest context: one invocation of
\* it, with one tap on its way.
Focus == game.task = "research" => invocations <= 1 /\ Len(pending) <= 1

AnyProject == Permutations(TwoProjects)
=============================================================================
