--------------------------- MODULE MCCampaignFlow ---------------------------
(* Selections and bounds for CampaignFlow. *)
EXTENDS CampaignFlow

Select(one, two, sub) ==
    [r \in Rows |-> CASE r = "fleet1" -> one [] r = "fleet2" -> two [] OTHER -> sub]

OneTwo  == Select(1, 2, 0)
OneNone == Select(1, 0, 0)

\* Every panel, and requests with and without each optional row.
AnyPanel     == Selections
FourRequests == {Select(1, two, sub) : two \in {0, 2}, sub \in {0, 1}}

\* Every panel is explored until its plan is known.  Beyond that, one panel
\* whose plan is a clear and a choice, until something raises, and one whose
\* plan is a single choice and which may be opened a second time, with the
\* rollback.  For the first, the last publication is kept for the battle.
Focus ==
    /\ saved \notin {OneTwo, OneNone} =>
         /\ shown.gen <= 3 /\ invocations <= 1 /\ caller = "running"
         /\ ctx # None => ctx.initial = None
    /\ saved # OneNone => invocations <= 1
    /\ saved = OneTwo =>
         /\ caller = "running"
         /\ shown.gen = MaxGeneration => shown.game.layer = "battle"
    /\ ctx # None /\ ctx.requested # None => ctx.requested = OneTwo
=============================================================================
