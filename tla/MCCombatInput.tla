--------------------------- MODULE MCCombatInput ---------------------------
(* Cells, views and budgets for CombatInput. *)
EXTENDS CombatInput, TLC

CONSTANTS e1, e2, s1, s2

\* Of two views one covers the first enemy, the other the second.
TwoViews == {1, 2}
Covering == [n \in {e1, e2, s1, s2} |->
                CASE n = e1 -> {2} [] n = e2 -> {1} [] OTHER -> TwoViews]

Budgets(combat, viewport, positioning) ==
    [k \in Kinds |-> CASE k = "combat" -> combat [] k = "viewport" -> viewport
                       [] OTHER -> positioning]

\* The two cells without an enemy are alike.
Alike == Permutations({s1, s2})

SomeGrants == {Budgets(1, 0, 0), Budgets(1, 1, 2), Budgets(0, 0, 1)}
=============================================================================
