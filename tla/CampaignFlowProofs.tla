------------------------- MODULE CampaignFlowProofs -------------------------
(***************************************************************************)
(* Theorems about CampaignFlow: the preflight reaches every request, the   *)
(* context is well-typed, the budgets admit what they grant, the proofs    *)
(* tell what happened, and a confirmed selection is the game's until the   *)
(* battle.                                                                 *)
(***************************************************************************)
EXTENDS CampaignFlow, TLAPS

Plans == [values : Selections, ops : Seq(Mutations)]

(***************************************************************************)
(* The preflight                                                           *)
(***************************************************************************)

LEMMA ClearedFacts ==
    ASSUME NEW p \in Plans, NEW r \in Rows
    PROVE  /\ Cleared(p, r) \in Plans
           /\ Cleared(p, r).values = [p.values EXCEPT ![r] = 0]
           /\ Len(p.ops) \in Nat /\ Len(Cleared(p, r).ops) \in Nat
           /\ Len(Cleared(p, r).ops) <= Len(p.ops) + 1
           /\ p.values[r] = 0 => Len(Cleared(p, r).ops) = Len(p.ops)
<1>1. CASE p.values[r] = 0
    <2>1. p.values = [p.values EXCEPT ![r] = 0]
        BY <1>1 DEF Plans, Selections
    <2> QED  BY <1>1, <2>1 DEF Cleared, Plans
<1>2. CASE p.values[r] # 0
    <2>1. Clear(r) \in Mutations  BY DEF Mutations
    <2>2. [p.values EXCEPT ![r] = 0] \in Selections  BY DEF Plans, Selections
    <2> QED  BY <1>2, <2>1, <2>2 DEF Cleared, Plans
<1> QED  BY <1>1, <1>2

LEMMA EnsuredFacts ==
    ASSUME NEW p \in Plans, NEW r \in Rows, NEW i \in Indices
    PROVE  /\ Ensured(p, r, i) \in Plans
           /\ Ensured(p, r, i).values = [p.values EXCEPT ![r] = i]
           /\ Len(p.ops) \in Nat /\ Len(Ensured(p, r, i).ops) \in Nat
           /\ Len(Ensured(p, r, i).ops) <= Len(p.ops) + 1
<1>1. CASE p.values[r] = i
    <2>1. p.values = [p.values EXCEPT ![r] = i]
        BY <1>1 DEF Plans, Selections
    <2> QED  BY <1>1, <2>1 DEF Ensured, Plans
<1>2. CASE p.values[r] # i
    <2>1. Option(i) \in Mutations  BY DEF Mutations
    <2>2. [p.values EXCEPT ![r] = i] \in Selections  BY DEF Plans, Selections
    <2> QED  BY <1>2, <2>1, <2>2 DEF Ensured, Plans
<1> QED  BY <1>1, <1>2

LEMMA PreflightType ==
    ASSUME NEW initial \in Selections, NEW request \in Selections, request["fleet1"] # 0
    PROVE  Preflight(initial, request) \in Plans
<1> DEFINE sub   == request["submarine"]
           start == [values |-> initial, ops |-> <<>>]
           off   == Cleared(start, "fleet2")
           subs  == IF ~AllowsSubmarine THEN start
                    ELSE IF sub # 0 THEN Ensured(off, "submarine", sub)
                         ELSE Cleared(off, "submarine")
           one   == Ensured(Cleared(subs, "fleet2"), "fleet1", request["fleet1"])
           two   == IF request["fleet2"] = 0 THEN one
                    ELSE Ensured(one, "fleet2", request["fleet2"])
<1>0. Preflight(initial, request) =
        IF AllowsSubmarine /\ sub = 0 THEN Cleared(two, "submarine") ELSE two
    BY DEF Preflight
<1>1. /\ "fleet1" \in Rows /\ "fleet2" \in Rows /\ "submarine" \in Rows
      /\ request["fleet1"] \in Indices
      /\ request["fleet2"] # 0 => request["fleet2"] \in Indices
      /\ sub # 0 => sub \in Indices
    BY DEF Rows, Selections
<1>2. start \in Plans
    BY DEF Plans
<1> HIDE DEF start
<1>3. off \in Plans
    BY <1>1, <1>2, ClearedFacts
<1> HIDE DEF off
<1>4. subs \in Plans
    <2>1. CASE ~AllowsSubmarine  BY <2>1, <1>2
    <2>2. CASE AllowsSubmarine /\ sub # 0
        <3>1. sub \in Indices /\ subs = Ensured(off, "submarine", sub)  BY <2>2, <1>1
        <3> HIDE DEF sub, subs
        <3> QED  BY <3>1, <1>1, <1>3, EnsuredFacts
    <2>3. CASE AllowsSubmarine /\ sub = 0
        <3>1. subs = Cleared(off, "submarine")  BY <2>3
        <3> HIDE DEF sub, subs
        <3> QED  BY <3>1, <1>1, <1>3, ClearedFacts
    <2> QED  BY <2>1, <2>2, <2>3
<1> HIDE DEF subs
<1>5. one \in Plans
    <2>1. Cleared(subs, "fleet2") \in Plans  BY <1>1, <1>4, ClearedFacts
    <2> QED  BY <2>1, <1>1, EnsuredFacts
<1> HIDE DEF one
<1>6. two \in Plans
    BY <1>1, <1>5, EnsuredFacts
<1> HIDE DEF two
<1>7. Cleared(two, "submarine") \in Plans
    BY <1>1, <1>6, ClearedFacts
<1> QED  BY <1>0, <1>6, <1>7

\* The simulated fleet preparation reaches every request from every panel, as
\* long as a map without submarines agrees with it about the submarine row.
\* So authorize_campaign_fleet_preparation never refuses for "did not reach".
THEOREM PreflightReaches ==
    ASSUME NEW initial \in Selections, NEW request \in Selections,
           request["fleet1"] # 0
    PROVE  /\ AllowsSubmarine \/ initial["submarine"] = request["submarine"]
                => Preflight(initial, request).values = request
           /\ Preflight(initial, request) \in Plans
           /\ Len(Preflight(initial, request).ops) <= 4
<1> DEFINE sub   == request["submarine"]
           agree == AllowsSubmarine \/ initial["submarine"] = sub
           start == [values |-> initial, ops |-> <<>>]
           off   == Cleared(start, "fleet2")
           subs  == IF ~AllowsSubmarine THEN start
                    ELSE IF sub # 0 THEN Ensured(off, "submarine", sub)
                         ELSE Cleared(off, "submarine")
           none  == Cleared(subs, "fleet2")
           one   == Ensured(none, "fleet1", request["fleet1"])
           two   == IF request["fleet2"] = 0 THEN one
                    ELSE Ensured(one, "fleet2", request["fleet2"])
           last  == IF AllowsSubmarine /\ sub = 0 THEN Cleared(two, "submarine") ELSE two
<1>0. Preflight(initial, request) = last
    BY DEF Preflight
<1>1. /\ "fleet1" \in Rows /\ "fleet2" \in Rows /\ "submarine" \in Rows
      /\ request["fleet1"] \in Indices
      /\ request["fleet2"] # 0 => request["fleet2"] \in Indices
      /\ sub # 0 => sub \in Indices
    BY DEF Rows, Selections
<1>2. start \in Plans /\ start.values = initial /\ Len(start.ops) = 0
    BY DEF Plans
<1>3. /\ off \in Plans
      /\ off.values = [initial EXCEPT !["fleet2"] = 0]
      /\ Len(off.ops) <= 1
    <2> HIDE DEF start
    <2>1. Len(off.ops) \in Nat /\ Len(off.ops) <= Len(start.ops) + 1
        BY <1>1, <1>2, ClearedFacts
    <2>2. off \in Plans /\ off.values = [start.values EXCEPT !["fleet2"] = 0]
        BY <1>1, <1>2, ClearedFacts
    <2> QED  BY <2>1, <2>2, <1>2
<1> HIDE DEF start, off
<1>4. /\ subs \in Plans
      /\ \A r \in {"fleet1"} : subs.values[r] = initial[r]
      /\ agree => subs.values["submarine"] = sub
      /\ \/ Len(subs.ops) = 0
         \/ Len(subs.ops) <= 2 /\ subs.values["fleet2"] = 0
    <2>1. CASE ~AllowsSubmarine
        BY <2>1, <1>2
    <2>2. CASE AllowsSubmarine /\ sub # 0
        <3>1. /\ subs \in Plans
              /\ subs.values = [off.values EXCEPT !["submarine"] = sub]
              /\ Len(subs.ops) <= Len(off.ops) + 1
            <4>1. subs = Ensured(off, "submarine", sub)  BY <2>2
            <4>2. sub \in Indices  BY <2>2, <1>1
            <4> HIDE DEF sub, subs
            <4>3. /\ Ensured(off, "submarine", sub) \in Plans
                  /\ Ensured(off, "submarine", sub).values = [off.values EXCEPT !["submarine"] = sub]
                  /\ Len(Ensured(off, "submarine", sub).ops) <= Len(off.ops) + 1
                <5>1. off \in Plans /\ "submarine" \in Rows  BY <1>1, <1>3
                <5> QED  BY <4>2, <5>1, EnsuredFacts
            <4> QED  BY <4>1, <4>3
        <3>2. Len(off.ops) \in Nat /\ Len(subs.ops) \in Nat  BY <1>3, <3>1 DEF Plans
        <3>3. off.values \in Selections /\ subs.values \in Selections
            BY <1>3, <3>1 DEF Plans
        <3> HIDE DEF subs, sub
        <3>4. subs.values["submarine"] = sub /\ subs.values["fleet1"] = off.values["fleet1"]
              /\ subs.values["fleet2"] = off.values["fleet2"]
            BY <3>1, <3>3 DEF Selections, Rows
        <3>5. off.values["fleet1"] = initial["fleet1"] /\ off.values["fleet2"] = 0
            BY <1>3 DEF Selections, Rows
        <3> QED  BY <3>1, <3>2, <3>4, <3>5, <1>3
    <2>3. CASE AllowsSubmarine /\ sub = 0
        <3>1. /\ subs \in Plans
              /\ subs.values = [off.values EXCEPT !["submarine"] = 0]
              /\ Len(subs.ops) <= Len(off.ops) + 1
            <4>1. subs = Cleared(off, "submarine")  BY <2>3
            <4> HIDE DEF sub, subs
            <4> QED  BY <4>1, <1>1, <1>3, ClearedFacts
        <3>2. Len(off.ops) \in Nat /\ Len(subs.ops) \in Nat  BY <1>3, <3>1 DEF Plans
        <3>3. sub = 0  BY <2>3
        <3> HIDE DEF subs, sub
        <3> QED  BY <3>1, <3>2, <3>3, <1>3 DEF Plans, Selections, Rows
    <2> QED  BY <2>1, <2>2, <2>3
<1> HIDE DEF subs
<1>5. /\ none \in Plans
      /\ none.values = [subs.values EXCEPT !["fleet2"] = 0]
      /\ Len(none.ops) <= 2
    <2>1. CASE subs.values["fleet2"] = 0
        <3>1. Len(none.ops) = Len(subs.ops)  BY <2>1, <1>1, <1>4, ClearedFacts
        <3>2. none \in Plans /\ none.values = [subs.values EXCEPT !["fleet2"] = 0]
            BY <1>1, <1>4, ClearedFacts
        <3>3. Len(subs.ops) <= 2  BY <1>4
        <3> HIDE DEF none
        <3> QED  BY <3>1, <3>2, <3>3
    <2>2. CASE Len(subs.ops) = 0
        <3>1. Len(none.ops) \in Nat /\ Len(none.ops) <= Len(subs.ops) + 1
            BY <1>1, <1>4, ClearedFacts
        <3>2. none \in Plans /\ none.values = [subs.values EXCEPT !["fleet2"] = 0]
            BY <1>1, <1>4, ClearedFacts
        <3> HIDE DEF none
        <3> QED  BY <2>2, <3>1, <3>2
    <2> QED  BY <2>1, <2>2, <1>4
<1> HIDE DEF none
<1>6. /\ one \in Plans
      /\ one.values = [none.values EXCEPT !["fleet1"] = request["fleet1"]]
      /\ Len(one.ops) <= 3
    <2>1. Len(one.ops) \in Nat /\ Len(none.ops) \in Nat /\ Len(one.ops) <= Len(none.ops) + 1
        BY <1>1, <1>5, EnsuredFacts
    <2>2. one \in Plans /\ one.values = [none.values EXCEPT !["fleet1"] = request["fleet1"]]
        BY <1>1, <1>5, EnsuredFacts
    <2> HIDE DEF one
    <2> QED  BY <1>5, <2>1, <2>2
<1> HIDE DEF one
<1>7. /\ one.values["fleet1"] = request["fleet1"]
      /\ one.values["fleet2"] = 0
      /\ agree => one.values["submarine"] = sub
    <2> HIDE DEF sub
    <2> QED  BY <1>4, <1>5, <1>6 DEF Plans, Selections, Rows
<1>8. /\ two \in Plans
      /\ two.values = [one.values EXCEPT !["fleet2"] = request["fleet2"]]
      /\ Len(two.ops) <= 4
    <2>1. Len(one.ops) \in Nat  BY <1>6 DEF Plans
    <2>2. CASE request["fleet2"] = 0
        <3>1. [one.values EXCEPT !["fleet2"] = 0] = one.values
            BY <1>6, <1>7 DEF Plans, Selections, Rows
        <3> QED  BY <2>1, <2>2, <3>1, <1>6
    <2>3. CASE request["fleet2"] # 0
        <3>1. two = Ensured(one, "fleet2", request["fleet2"])  BY <2>3
        <3>2. one \in Plans /\ "fleet2" \in Rows /\ request["fleet2"] \in Indices
            BY <2>3, <1>1, <1>6
        <3> HIDE DEF two, agree, sub
        <3>3. Len(two.ops) \in Nat /\ Len(two.ops) <= Len(one.ops) + 1
            BY <3>1, <3>2, EnsuredFacts
        <3>4. two \in Plans /\ two.values = [one.values EXCEPT !["fleet2"] = request["fleet2"]]
            BY <3>1, <3>2, EnsuredFacts
        <3> QED  BY <2>1, <3>3, <3>4, <1>6
    <2> QED  BY <2>2, <2>3
<1> HIDE DEF two
<1>9. agree => two.values = request
    <2> SUFFICES ASSUME agree PROVE two.values = request
        OBVIOUS
    <2>1. \A r \in Rows : two.values[r] = request[r]
        BY <1>6, <1>7, <1>8 DEF Plans, Selections, Rows
    <2> QED  BY <2>1, <1>8 DEF Plans, Selections
<1>10. last \in Plans /\ (agree => last.values = request) /\ Len(last.ops) <= 4
    <2>1. CASE AllowsSubmarine /\ sub = 0
        <3>1. two.values["submarine"] = 0  BY <1>9, <2>1
        <3>2. Cleared(two, "submarine") = two  BY <3>1 DEF Cleared
        <3> QED  BY <2>1, <3>2, <1>8, <1>9
    <2>2. CASE ~(AllowsSubmarine /\ sub = 0)
        BY <2>2, <1>8, <1>9
    <2> QED  BY <2>1, <2>2
<1> QED  BY <1>0, <1>10

(***************************************************************************)
(* Types                                                                   *)
(***************************************************************************)

Fitting == TypeOK /\ CallFits /\ TapsFit

LEMMA GameType ==
    ASSUME Fitting, Handle
    PROVE  Fitting'
<1> DEFINE t == Head(pending)
<1>0. /\ pending \in Seq(Taps) /\ pending # <<>>
      /\ Len(pending) \in Nat /\ 1 \in 1..Len(pending) /\ t = pending[1]
    BY DEF Handle, Fitting, TypeOK
<1>1. /\ t \in Taps
      /\ t.op \in {"select", "clear"} => t.row \in Rows
      /\ Tail(pending) \in Seq(Taps)
    <2>1. t \in Taps /\ Tail(pending) \in Seq(Taps)
        BY <1>0
    <2> HIDE DEF t
    <2> QED  BY <1>0, <2>1 DEF Fitting, TapsFit
<1>2. game \in Games /\ saved \in Selections
    BY DEF Fitting, TypeOK
<1> HIDE DEF t
<1>3. Effect(game, t) \in Games
    BY <1>1, <1>2 DEF Effect, Games, Selections, Layers, Maybe, OnPanel, Taps
<1>4. TypeOK'
    BY <1>1, <1>3 DEF Handle, Fitting, TypeOK, t
<1>5. CallFits'
    BY DEF Handle, Fitting, CallFits
<1>6. TapsFit'
    BY <1>0 DEF Handle, Fitting, TypeOK, TapsFit
<1> QED  BY <1>4, <1>5, <1>6 DEF Fitting

LEMMA BookedType ==
    ASSUME Fitting, call.pc = "tap"
    PROVE  Booked \in Contexts
<1>1. /\ ctx \in Contexts /\ call \in Calls /\ call.op \in Inputs
      /\ call.gen \in Receipts /\ call.index \in {0} \union Indices
      /\ call.op \in {"select", "clear", "option"} => call.row \in Rows
      /\ call.op = "option" => call.index \in Indices
      /\ call.op = "stage" => ctx.entryBudget > 0
      /\ call.op = "sortie" => ctx.sortieBudget > 0
      /\ call.op \in {"option", "clear"} => ctx.fleetBudget > 0
    BY DEF Fitting, TypeOK, CallFits, Maybe, Calls
<1>2. call.op \in {"option", "clear"} => Mutation \in Mutations
    BY <1>1 DEF Mutation, Mutations
<1>3. CASE call.op = "stage"
    <2>1. ctx.entryBudget - 1 \in 0..StageBudget
        BY <1>1, <1>3, CampaignAssumption DEF Contexts
    <2> QED  BY <1>1, <1>3, <2>1 DEF Booked, Contexts
<1>4. CASE call.op = "proceed"
    BY <1>1, <1>4 DEF Booked, Contexts
<1>5. CASE call.op \in {"select", "close"}
    BY <1>1, <1>5 DEF Booked, Contexts, Maybe
<1>6. CASE call.op \in {"option", "clear"}
    <2>1. ctx.fleetBudget - 1 \in 0..FleetBudget
        BY <1>1, <1>6, CampaignAssumption DEF Contexts
    <2>2. Append(ctx.receipts, Mutation) \in Seq(Mutations)
        BY <1>1, <1>2, <1>6 DEF Contexts
    <2> QED  BY <1>1, <1>6, <2>1, <2>2 DEF Booked, Contexts, Maybe
<1>7. CASE call.op = "sortie"
    <2>1. ctx.sortieBudget - 1 \in 0..SortieBudget
        BY <1>1, <1>7, CampaignAssumption DEF Contexts
    <2> QED  BY <1>1, <1>7, <2>1 DEF Booked, Contexts
<1>8. CASE call.op = "cancel"
    BY <1>1, <1>8 DEF Booked, Contexts
<1> QED  BY <1>1, <1>3, <1>4, <1>5, <1>6, <1>7, <1>8 DEF Inputs

LEMMA InitType == Init => Fitting
<1> SUFFICES ASSUME Init PROVE Fitting
    OBVIOUS
<1>1. saved \in Selections /\ game \in Games
    BY CampaignAssumption DEF Init, Games, Layers, Maybe
<1>2. TypeOK
    BY <1>1, CampaignAssumption
    DEF Init, TypeOK, Maybe, NoCall, Calls, Places, Receipts, NothingDelivered, Taps
<1>3. CallFits /\ TapsFit
    BY DEF Init, CallFits, TapsFit, NoCall
<1> QED  BY <1>2, <1>3 DEF Fitting

LEMMA BeginType ==
    ASSUME Fitting, Begin
    PROVE  Fitting'
<1>1. ctx' \in Contexts
    BY CampaignAssumption DEF Begin, Contexts, Maybe, Receipts
<1>2. invocations' \in 0..MaxInvocations
    BY CampaignAssumption DEF Begin, Fitting, TypeOK
<1>3. TypeOK'
    BY <1>1, <1>2 DEF Begin, Fitting, TypeOK, gameVars, Maybe, NothingDelivered
<1>4. CallFits' /\ TapsFit'
    BY DEF Begin, Fitting, CallFits, TapsFit, gameVars, NoCall
<1> QED  BY <1>3, <1>4 DEF Fitting

LEMMA QuietType ==
    ASSUME Fitting, call = NoCall, ctx' \in Maybe(Contexts), Quiet,
           caller' \in {"running", "closing", "cancelling", "leaving"}
    PROVE  Fitting'
<1>1. TypeOK'
    BY DEF Quiet, Fitting, TypeOK, gameVars
<1>2. CallFits' /\ TapsFit'
    BY DEF Quiet, Fitting, CallFits, TapsFit, gameVars, NoCall
<1> QED  BY <1>1, <1>2 DEF Fitting

LEMMA AuthorizeFleetsType ==
    ASSUME Fitting, AuthorizeFleets
    PROVE  Fitting'
<1>1. /\ ctx \in Contexts /\ call = NoCall /\ ShownPanel \in Panels
      /\ caller = "running"
    BY DEF AuthorizeFleets, Calling, Idle, Fitting, TypeOK, Maybe, ShownPanel, Panels, Games
<1>2. PICK request \in Requests :
        LET plan == Preflight(shown.game.fleets, request)
            asked == [ctx EXCEPT !.initial = ShownPanel, !.requested = request]
        IN  IF ctx.fleetBudget = 0
            THEN ctx' = asked /\ UNCHANGED caller
            ELSE IF (request["submarine"] # 0 /\ ~AllowsSubmarine) \/ plan.values # request
            THEN ctx' = asked /\ caller' = AfterRaise
            ELSE /\ ctx' = [asked EXCEPT !.plan = plan.ops]
                 /\ caller' = IF ctx.fleetBudget < Len(plan.ops)
                              THEN AfterRaise ELSE caller
    BY DEF AuthorizeFleets
<1>3. request \in Selections /\ request["fleet1"] # 0
    BY CampaignAssumption
<1>4. Preflight(shown.game.fleets, request).ops \in Seq(Mutations)
    <2>1. shown.game.fleets \in Selections  BY DEF Fitting, TypeOK, Games
    <2> QED  BY <2>1, <1>3, PreflightType DEF Plans
<1>5. [ctx EXCEPT !.initial = ShownPanel, !.requested = request] \in Contexts
    BY <1>1, <1>3 DEF Contexts, Maybe
<1>6. [[ctx EXCEPT !.initial = ShownPanel, !.requested = request]
         EXCEPT !.plan = Preflight(shown.game.fleets, request).ops] \in Contexts
    BY <1>4, <1>5 DEF Contexts
<1>7. ctx' \in Contexts
    BY <1>2, <1>5, <1>6
<1>8. caller' \in {"running", "closing", "cancelling", "leaving"}
    BY <1>1, <1>2 DEF AfterRaise
<1> QED  BY <1>1, <1>7, <1>8, QuietType DEF AuthorizeFleets, Maybe

LEMMA DecidingType ==
    ASSUME Fitting, Deciding
    PROVE  Fitting'
<1>1. CASE AuthorizeFleets
    BY <1>1, AuthorizeFleetsType
<1>2. CASE ~AuthorizeFleets
    <2>1. /\ ctx \in Contexts /\ call = NoCall /\ caller = "running" /\ caller' = caller
          /\ Quiet
        BY <1>2 DEF Deciding, ConfirmSelection, AuthorizeSortie, ConfirmSortie,
                    ConfirmPreSortie, Look, Calling, Idle, Fitting, TypeOK, Maybe
    <2>2. ShownPanel \in Panels
        BY DEF Fitting, TypeOK, ShownPanel, Panels, Games
    <2>3. ctx' \in Contexts
        <3>1. CASE ConfirmSelection
            BY <3>1, <2>1, <2>2 DEF ConfirmSelection, Contexts, Maybe
        <3>2. CASE AuthorizeSortie
            BY <3>2, <2>1 DEF AuthorizeSortie, Contexts
        <3>3. CASE ConfirmSortie
            BY <3>3, <2>1 DEF ConfirmSortie, Contexts
        <3>4. CASE ConfirmPreSortie
            BY <3>4, <2>1 DEF ConfirmPreSortie, Contexts
        <3>5. CASE Look
            BY <3>5, <2>1 DEF Look, Contexts, Maybe
        <3> QED  BY <1>2, <3>1, <3>2, <3>3, <3>4, <3>5 DEF Deciding
    <2> QED  BY <2>1, <2>3, QuietType DEF Maybe
<1> QED  BY <1>1, <1>2

\* What an input call asks for, and what keeps Fitting.
LEMMA AskType ==
    ASSUME Fitting, call = NoCall, ctx' \in Contexts,
           caller' \in {"running", "closing", "cancelling", "leaving"},
           NEW op \in Inputs, NEW r \in Places, NEW i \in {0} \union Indices,
           Ask(op, r, i),
           op \in {"select", "clear", "option"} => r \in Rows,
           op = "option" => i \in Indices,
           op \in Spending => caller' = "running",
           op = "stage" => ctx'.entryBudget > 0,
           op = "sortie" => ctx'.sortieBudget > 0 /\ ctx'.prepared # None,
           op \in {"option", "clear"} => ctx'.fleetBudget > 0
    PROVE  Fitting'
<1>1. call' = [pc |-> "aim", op |-> op, row |-> r, index |-> i, gen |-> 0]
    BY DEF Ask
<1>2. 0 \in Receipts /\ op \in Maybe(Inputs)
    BY CampaignAssumption DEF Receipts, Maybe
<1>3. call' \in Calls
    BY <1>1, <1>2 DEF Calls
<1>4. TypeOK'
    BY <1>3 DEF Ask, Fitting, TypeOK, gameVars, Maybe
<1>5. CallFits'
    BY <1>1 DEF CallFits
<1>6. TapsFit'
    BY DEF Ask, Fitting, TapsFit
<1> QED  BY <1>4, <1>5, <1>6 DEF Fitting

LEMMA AskingType ==
    ASSUME Fitting, Asking
    PROVE  Fitting'
<1>0. /\ ctx \in Contexts /\ ctx # None /\ call = NoCall
      /\ caller \in {"running", "closing", "cancelling", "leaving"}
      /\ shown.game \in Games
    BY DEF Asking, AskStage, AskProceed, AskSortie, AskCancel, RollbackClose,
           AskSelect, AskClear, AskOption, Entering, Calling, Idle, Fitting, TypeOK, Maybe
<1>a. /\ None \in Places /\ "map" \in Places /\ "fleet" \in Places
      /\ \A r \in Rows : r \in Places
    BY DEF Places, Maybe
<1>b. \A r \in Rows : shown.game.fleets[r] \in {0} \union Indices
    BY <1>0 DEF Games, Selections
<1>c. shown.game.dropdown # None => CloseIndex \in {0} \union Indices
    BY <1>0, <1>b DEF CloseIndex, Games, Maybe, Contexts
<1>e. ctx.previous \in {0} \union Indices
    BY <1>0 DEF Contexts
<1>d. shown.game.layer \in Layers
    BY <1>0 DEF Games
<1>1. CASE AskStage
    <2>1. ctx' \in Contexts /\ ctx'.entryBudget > 0 /\ caller' = "running"
        BY <1>1, <1>0 DEF AskStage, Entering, Calling, Contexts
    <2>2. Ask("stage", None, 0)
        BY <1>1 DEF AskStage
    <2> QED  BY <1>0, <1>a, <2>1, <2>2, AskType DEF Inputs
<1>2. CASE AskProceed
    <2>1. ctx' \in Contexts /\ caller' = "running"
        BY <1>2, <1>0 DEF AskProceed, Entering, Calling, Contexts, Maybe
    <2>2. Ask("proceed", None, 0)
        BY <1>2 DEF AskProceed
    <2> QED  BY <1>0, <1>a, <2>1, <2>2, AskType DEF Inputs, Spending
<1>3. CASE AskSortie
    <2>1. /\ ctx' \in Contexts /\ caller' = "running"
          /\ ctx'.sortieBudget > 0 /\ ctx'.prepared # None
        BY <1>3, <1>0 DEF AskSortie, Calling
    <2>2. Ask("sortie", None, 0)
        BY <1>3 DEF AskSortie
    <2> QED  BY <1>0, <1>a, <2>1, <2>2, AskType DEF Inputs
<1>4. CASE AskCancel
    <2>1. ctx' \in Contexts /\ caller' = caller
        BY <1>4, <1>0 DEF AskCancel, Contexts, Maybe
    <2>2. Ask("cancel", shown.game.layer, 0) /\ shown.game.layer \in Places
        BY <1>4, <1>a DEF AskCancel
    <2> QED  BY <1>0, <2>1, <2>2, AskType DEF Inputs, Spending
<1>5. CASE RollbackClose
    <2>1. CASE shown.game.dropdown = None
        <3>1. ctx' \in Contexts
            <4>1. ctx' = [ctx EXCEPT !.row = None, !.previous = 0]
                BY <1>5, <2>1 DEF RollbackClose
            <4> QED  BY <4>1, <1>0 DEF Contexts, Maybe
        <3>2. Quiet /\ caller' \in {"running", "closing", "cancelling", "leaving"}
            BY <1>5, <2>1, <1>0 DEF RollbackClose
        <3> QED  BY <1>0, <3>1, <3>2, QuietType DEF Maybe
    <2>2. CASE shown.game.dropdown # None
        <3>1. /\ ctx' \in Contexts /\ caller' = caller
              /\ Ask("close", ctx.row, CloseIndex)
            BY <1>5, <2>2, <1>0 DEF RollbackClose
        <3>2. ctx.row \in Places
            BY <1>0, <1>a DEF Contexts, Maybe
        <3> HIDE DEF CloseIndex
        <3> QED  BY <1>0, <1>c, <2>2, <3>1, <3>2, AskType DEF Inputs, Spending
    <2> QED  BY <2>1, <2>2
<1>6. ASSUME NEW r \in Rows, AskSelect(r)  PROVE Fitting'
    <2>1. ctx' \in Contexts /\ caller' = caller
        BY <1>6, <1>0 DEF AskSelect
    <2>2. CASE Ask("select", r, shown.game.fleets[r])
        BY <1>0, <1>a, <1>b, <2>1, <2>2, AskType DEF Inputs, Spending
    <2>3. CASE shown.game.dropdown # None /\ Ask("close", r, CloseIndex)
        BY <1>0, <1>a, <1>c, <2>1, <2>3, AskType DEF Inputs, Spending
    <2> QED  BY <1>6, <2>2, <2>3 DEF AskSelect
<1>7. ASSUME NEW r \in Rows, AskClear(r)  PROVE Fitting'
    <2>1. ctx' \in Contexts /\ caller' = "running" /\ ctx'.fleetBudget > 0
        BY <1>7, <1>0 DEF AskClear, Calling, HasMutation
    <2>2. Ask("clear", r, 0)
        BY <1>7 DEF AskClear
    <2> QED  BY <1>0, <1>a, <2>1, <2>2, AskType DEF Inputs
<1>8. ASSUME NEW r \in Rows, NEW i \in Indices, AskOption(r, i)  PROVE Fitting'
    <2>1. ctx' \in Contexts /\ caller' = "running" /\ ctx'.fleetBudget > 0
        BY <1>8, <1>0 DEF AskOption, Calling, HasMutation
    <2>2. Ask("option", r, i)
        BY <1>8 DEF AskOption
    <2> QED  BY <1>0, <1>a, <2>1, <2>2, AskType DEF Inputs
<1> QED  BY <1>1, <1>2, <1>3, <1>4, <1>5, <1>6, <1>7, <1>8 DEF Asking

LEMMA TapType ==
    ASSUME Fitting, call.pc = "tap", Inject, call' = NoCall,
           ctx' \in Contexts,
           caller' \in {"running", "closing", "cancelling", "leaving"},
           UNCHANGED <<gameVars, invocations>>
    PROVE  Fitting'
<1> DEFINE t == [op |-> call.op, row |-> call.row, index |-> call.index,
                 wants |-> ctx.requested]
<1>1. /\ ctx \in Contexts /\ call \in Calls /\ call.op \in Inputs
      /\ call.row \in Places /\ call.index \in {0} \union Indices
      /\ call.op \in {"select", "clear", "option"} => call.row \in Rows
      /\ call.op = "option" => call.index \in Indices
      /\ pending \in Seq(Taps)
    BY DEF Fitting, TypeOK, CallFits, Calls
<1>2. t \in Taps /\ t.op = call.op /\ t.row = call.row
    BY <1>1 DEF Taps, Contexts
<1>3. pending' = Append(pending, t)
    BY DEF Inject
<1> HIDE DEF t
<1>4. pending' \in Seq(Taps)
    BY <1>1, <1>2, <1>3
<1>5. call.op \in {"option", "clear"} => Mutation \in Mutations
    BY <1>1 DEF Mutation, Mutations
<1>6. delivered' \in [stage : Nat, sortie : Nat, mutations : Seq(Mutations)]
    <2>1. delivered \in [stage : Nat, sortie : Nat, mutations : Seq(Mutations)]
        BY DEF Fitting, TypeOK
    <2>2. CASE call.op \in {"option", "clear"}
        <3>1. Append(delivered.mutations, Mutation) \in Seq(Mutations)
            BY <1>5, <2>1, <2>2
        <3>2. delivered' = [delivered EXCEPT !.mutations = Append(@, Mutation)]
            BY <2>2 DEF Inject
        <3> HIDE DEF Mutation
        <3> QED  BY <2>1, <3>1, <3>2
    <2>3. CASE call.op \notin {"option", "clear"}
        BY <2>1, <2>3 DEF Inject
    <2> QED  BY <2>2, <2>3
<1>7. call' \in Calls
    BY CampaignAssumption DEF NoCall, Calls, Maybe, Places, Receipts
<1>8. TypeOK'
    BY <1>4, <1>6, <1>7 DEF Fitting, TypeOK, gameVars, Maybe
<1>9. CallFits'
    BY DEF CallFits, NoCall
<1>10. TapsFit'
    <2> SUFFICES ASSUME NEW n \in 1..Len(pending'),
                        pending'[n].op \in {"select", "clear"}
                 PROVE  pending'[n].row \in Rows
        BY DEF TapsFit
    <2>1. CASE n = Len(pending) + 1
        <3>1. pending'[n] = t  BY <1>1, <1>3, <2>1
        <3> QED  BY <1>1, <1>2, <3>1
    <2>2. CASE n # Len(pending) + 1
        <3>1. n \in 1..Len(pending) /\ pending'[n] = pending[n]
            BY <1>1, <1>2, <1>3, <2>2
        <3> QED  BY <3>1 DEF Fitting, TapsFit
    <2> QED  BY <2>1, <2>2
<1> QED  BY <1>8, <1>9, <1>10 DEF Fitting

LEMMA FittingNext == Fitting /\ [Next]_vars => Fitting'
<1> SUFFICES ASSUME Fitting, [Next]_vars PROVE Fitting'
    OBVIOUS
<1>a. caller \in {"running", "closing", "cancelling", "leaving"}
    BY DEF Fitting, TypeOK
<1>b. NoCall \in Calls
    BY CampaignAssumption DEF NoCall, Calls, Maybe, Places, Receipts
<1>1. CASE Handle
    BY <1>1, GameType
<1>2. CASE Publish
    <2>1. shown' \in [gen : 1..MaxGeneration, game : Games]
        BY <1>2, CampaignAssumption DEF Publish, Fitting, TypeOK
    <2>2. TypeOK'
        BY <1>2, <2>1 DEF Publish, Fitting, TypeOK
    <2>3. CallFits' /\ TapsFit'
        BY <1>2 DEF Publish, Fitting, CallFits, TapsFit
    <2> QED  BY <2>2, <2>3 DEF Fitting
<1>3. CASE Begin
    BY <1>3, BeginType
<1>4. CASE End
    <2>1. TypeOK'
        BY <1>4 DEF End, Fitting, TypeOK, gameVars, Maybe
    <2>2. CallFits' /\ TapsFit'
        BY <1>4 DEF End, Fitting, CallFits, TapsFit, NoCall
    <2> QED  BY <2>1, <2>2 DEF Fitting
<1>5. CASE Deciding
    BY <1>5, DecidingType
<1>6. CASE CallRaises
    <2>1. caller' \in {"running", "closing", "cancelling", "leaving"}
        BY <1>6 DEF CallRaises, AfterRaise
    <2>2. TypeOK'
        BY <1>6, <1>b, <2>1 DEF CallRaises, Fitting, TypeOK, gameVars
    <2>3. CallFits' /\ TapsFit'
        BY <1>6 DEF CallRaises, Fitting, CallFits, TapsFit, NoCall
    <2> QED  BY <2>2, <2>3 DEF Fitting
<1>7. CASE Asking
    BY <1>7, AskingType
<1>8. CASE Aim
    <2>1. shown.gen \in Receipts
        BY DEF Fitting, TypeOK, Receipts
    <2>2. call' \in Calls
        BY <1>8, <2>1 DEF Aim, Fitting, TypeOK, Calls
    <2>3. TypeOK'
        BY <1>8, <2>2 DEF Aim, Fitting, TypeOK, gameVars
    <2>4. /\ call.pc # "idle"
          /\ call'.op = call.op /\ call'.row = call.row /\ call'.index = call.index
        BY <1>8 DEF Aim, Fitting, TypeOK, Calls
    <2>5. CallFits' /\ TapsFit'
        BY <1>8, <2>4 DEF Aim, Fitting, CallFits, TapsFit
    <2> QED  BY <2>3, <2>5 DEF Fitting
<1>9. CASE TapReturns
    <2>1. ctx' \in Contexts
        BY <1>9, BookedType DEF TapReturns
    <2>2. caller' \in {"running", "closing", "cancelling", "leaving"}
        BY <1>9, <1>a DEF TapReturns
    <2> QED  BY <1>9, <2>1, <2>2, TapType DEF TapReturns
<1>10. CASE TapRaisesLate
    <2>1. ctx' \in Contexts
        BY <1>10 DEF TapRaisesLate, Fitting, CallFits
    <2>2. caller' \in {"running", "closing", "cancelling", "leaving"}
        BY <1>10 DEF TapRaisesLate, AfterRaise
    <2>3. UNCHANGED <<gameVars, invocations>>
        BY <1>10 DEF TapRaisesLate
    <2> QED  BY <1>10, <2>1, <2>2, <2>3, TapType DEF TapRaisesLate
<1>11. CASE UNCHANGED vars
    BY <1>11 DEF vars, gameVars, Fitting, TypeOK, CallFits, TapsFit
<1> QED  BY <1>1, <1>2, <1>3, <1>4, <1>5, <1>6, <1>7, <1>8, <1>9, <1>10, <1>11 DEF Next, Game

\* Every reachable state of the invocation is well-typed: in particular a
\* budget is never negative, and the counters stay within their grants.
THEOREM TypeCorrect == Spec => []TypeOK
<1>1. Init => Fitting
    BY InitType
<1>2. Fitting /\ [Next]_vars => Fitting'
    BY FittingNext
<1>3. Fitting => TypeOK
    BY DEF Fitting
<1> QED  BY <1>1, <1>2, <1>3, PTL DEF Spec

(***************************************************************************)
(* Budgets                                                                 *)
(***************************************************************************)

\* While no call has raised, the delivered inputs and what is left of the
\* budgets make up the grants; after that nothing budgeted is delivered.
Funded == Fitting /\ Ledger /\ Admitted

\* A step that delivers nothing, and leaves the budgets of a running
\* invocation alone, keeps the ledger.
LEMMA LedgerKept ==
    ASSUME Funded, Fitting', delivered' = delivered,
           (ctx' # None /\ caller' = "running") =>
               /\ ctx # None /\ caller = "running"
               /\ ctx'.entryBudget = ctx.entryBudget
               /\ ctx'.sortieBudget = ctx.sortieBudget
               /\ ctx'.fleetBudget = ctx.fleetBudget
    PROVE  Funded'
BY DEF Funded, Ledger, Admitted

\* What authorize_campaign_fleet_preparation may write.
LEMMA AuthorizeFleetsSets ==
    ASSUME AuthorizeFleets
    PROVE  \E request \in Requests :
             \E plan \in {Preflight(shown.game.fleets, request).ops} :
                \/ ctx' = [ctx EXCEPT !.initial = ShownPanel, !.requested = request]
                \/ ctx' = [[ctx EXCEPT !.initial = ShownPanel, !.requested = request]
                             EXCEPT !.plan = plan]
BY DEF AuthorizeFleets

LEMMA DecidingKeepsBudgets ==
    ASSUME Fitting, Deciding \/ Asking
    PROVE  /\ delivered' = delivered /\ ctx # None
           /\ caller' = "running" => caller = "running"
           /\ ctx'.entryBudget = ctx.entryBudget
           /\ ctx'.sortieBudget = ctx.sortieBudget
           /\ ctx'.fleetBudget = ctx.fleetBudget
<1>0. ctx # None => ctx \in Contexts
    BY DEF Fitting, TypeOK, Maybe
<1>1. CASE AuthorizeFleets
    <2>1. ctx # None /\ caller = "running" /\ delivered' = delivered
        BY <1>1 DEF AuthorizeFleets, Calling, Idle, Quiet
    <2> QED  BY <1>0, <1>1, <2>1, AuthorizeFleetsSets DEF Contexts
<1>2. CASE ConfirmSelection
    BY <1>0, <1>2 DEF ConfirmSelection, Calling, Idle, Quiet, Contexts
<1>3. CASE AuthorizeSortie
    BY <1>0, <1>3 DEF AuthorizeSortie, Calling, Idle, Quiet, Contexts
<1>4. CASE ConfirmSortie
    BY <1>0, <1>4 DEF ConfirmSortie, Calling, Idle, Quiet, Contexts
<1>5. CASE ConfirmPreSortie
    BY <1>0, <1>5 DEF ConfirmPreSortie, Calling, Idle, Quiet, Contexts
<1>6. CASE Look
    BY <1>0, <1>6 DEF Look, Calling, Idle, Quiet, Contexts
<1>7. CASE AskStage
    BY <1>0, <1>7 DEF AskStage, Entering, Calling, Idle, Ask, Contexts
<1>8. CASE AskProceed
    BY <1>0, <1>8 DEF AskProceed, Entering, Calling, Idle, Ask, Contexts
<1>9. CASE AskSortie
    BY <1>9 DEF AskSortie, Calling, Idle, Ask
<1>10. CASE AskCancel
    BY <1>0, <1>10 DEF AskCancel, Calling, Idle, Ask, Contexts
<1>11. CASE RollbackClose
    <2>1. /\ delivered' = delivered /\ ctx # None
          /\ caller' = "running" => caller = "running"
          /\ ctx' = ctx \/ ctx' = [ctx EXCEPT !.row = None, !.previous = 0]
        BY <1>11 DEF RollbackClose, Idle, Ask, Quiet
    <2> QED  BY <1>0, <2>1 DEF Contexts
<1>12. ASSUME NEW r \in Rows, AskSelect(r) \/ AskClear(r)
       PROVE  delivered' = delivered /\ ctx # None /\ ctx' = ctx /\ caller' = caller
    BY <1>12 DEF AskSelect, AskClear, Calling, Idle, Ask
<1>13. ASSUME NEW r \in Rows, NEW i \in Indices, AskOption(r, i)
       PROVE  delivered' = delivered /\ ctx # None /\ ctx' = ctx /\ caller' = caller
    BY <1>13 DEF AskOption, Calling, Idle, Ask
<1> QED  BY <1>1, <1>2, <1>3, <1>4, <1>5, <1>6, <1>7, <1>8, <1>9, <1>10, <1>11,
            <1>12, <1>13 DEF Deciding, Asking

\* A tap spends, in the game, what the call under way holds in the budgets.
LEMMA TapDelivers ==
    ASSUME Funded, call.pc = "tap", Inject
    PROVE  /\ Admitted'
           /\ (caller = "running" /\ ctx # None) =>
                /\ delivered'.stage + Booked.entryBudget = StageBudget
                /\ delivered'.sortie + Booked.sortieBudget = SortieBudget
                /\ Len(delivered'.mutations) + Booked.fleetBudget = FleetBudget
<1>1. /\ ctx \in Contexts /\ ctx # None /\ call.op \in Inputs
      /\ call.op \in Spending => caller = "running"
      /\ call.op = "stage" => ctx.entryBudget > 0
      /\ call.op = "sortie" => ctx.sortieBudget > 0
      /\ call.op \in {"option", "clear"} => ctx.fleetBudget > 0
    BY NoneAssumption DEF Funded, Fitting, CallFits
<1>2. /\ delivered \in [stage : Nat, sortie : Nat, mutations : Seq(Mutations)]
      /\ ctx.entryBudget \in Nat /\ ctx.sortieBudget \in Nat /\ ctx.fleetBudget \in Nat
      /\ StageBudget \in Nat /\ SortieBudget \in Nat /\ FleetBudget \in Nat
    BY <1>1, CampaignAssumption DEF Funded, Fitting, TypeOK, Contexts
<1>3. Len(delivered.mutations) \in Nat
    BY <1>2
<1>b. /\ delivered.stage \in Nat /\ delivered.sortie \in Nat
      /\ ctx.entryBudget \in Nat /\ ctx.sortieBudget \in Nat
    BY <1>2
<1>a. /\ caller = "running" =>
            /\ delivered.stage + ctx.entryBudget = StageBudget
            /\ delivered.sortie + ctx.sortieBudget = SortieBudget
            /\ Len(delivered.mutations) + ctx.fleetBudget = FleetBudget
      /\ delivered.stage <= StageBudget /\ delivered.sortie <= SortieBudget
      /\ Len(delivered.mutations) <= FleetBudget
    BY <1>1 DEF Funded, Ledger, Admitted
<1>4. CASE call.op = "stage"
    <2>1. /\ delivered'.stage = delivered.stage + 1
          /\ delivered'.sortie = delivered.sortie
          /\ delivered'.mutations = delivered.mutations
        BY <1>2, <1>4 DEF Inject
    <2>2. /\ Booked.entryBudget = ctx.entryBudget - 1
          /\ Booked.sortieBudget = ctx.sortieBudget
          /\ Booked.fleetBudget = ctx.fleetBudget
        BY <1>1, <1>4 DEF Booked, Contexts
    <2>3. Len(delivered'.mutations) = Len(delivered.mutations)
        BY <2>1
    <2>4. caller = "running"
        BY <1>1, <1>4 DEF Spending
    <2>5. Admitted'
        BY <1>1, <1>2, <1>3, <1>a, <1>4, <2>1, <2>3, <2>4 DEF Admitted
    <2>6. delivered'.stage + Booked.entryBudget = StageBudget
        <3>1. delivered.stage + ctx.entryBudget = StageBudget  BY <1>a, <2>4
        <3>2. delivered'.stage = delivered.stage + 1  BY <2>1
        <3>3. Booked.entryBudget = ctx.entryBudget - 1  BY <2>2
        <3> QED  BY <1>b, <3>1, <3>2, <3>3
    <2>7. /\ delivered'.sortie + Booked.sortieBudget = SortieBudget
          /\ Len(delivered'.mutations) + Booked.fleetBudget = FleetBudget
        BY <1>a, <2>1, <2>2, <2>3, <2>4
    <2> QED  BY <2>5, <2>6, <2>7
<1>5. CASE call.op = "sortie"
    <2>1. /\ delivered'.stage = delivered.stage
          /\ delivered'.sortie = delivered.sortie + 1
          /\ delivered'.mutations = delivered.mutations
        BY <1>2, <1>5 DEF Inject
    <2>2. /\ Booked.entryBudget = ctx.entryBudget
          /\ Booked.sortieBudget = ctx.sortieBudget - 1
          /\ Booked.fleetBudget = ctx.fleetBudget
        BY <1>1, <1>5 DEF Booked, Contexts
    <2>3. Len(delivered'.mutations) = Len(delivered.mutations)
        BY <2>1
    <2>4. caller = "running"
        BY <1>1, <1>5 DEF Spending
    <2>5. Admitted'
        BY <1>1, <1>2, <1>3, <1>a, <1>5, <2>1, <2>3, <2>4 DEF Admitted
    <2>6. delivered'.sortie + Booked.sortieBudget = SortieBudget
        <3>1. delivered.sortie + ctx.sortieBudget = SortieBudget  BY <1>a, <2>4
        <3>2. delivered'.sortie = delivered.sortie + 1  BY <2>1
        <3>3. Booked.sortieBudget = ctx.sortieBudget - 1  BY <2>2
        <3> QED  BY <1>b, <3>1, <3>2, <3>3
    <2>7. /\ delivered'.stage + Booked.entryBudget = StageBudget
          /\ Len(delivered'.mutations) + Booked.fleetBudget = FleetBudget
        BY <1>a, <2>1, <2>2, <2>3, <2>4
    <2> QED  BY <2>5, <2>6, <2>7
<1>6. CASE call.op \in {"option", "clear"}
    <2>1. /\ delivered'.stage = delivered.stage
          /\ delivered'.sortie = delivered.sortie
          /\ delivered'.mutations = Append(delivered.mutations, Mutation)
        BY <1>2, <1>6 DEF Inject
    <2>2. Len(delivered'.mutations) = Len(delivered.mutations) + 1
        BY <1>2, <2>1
    <2>3. /\ Booked.entryBudget = ctx.entryBudget
          /\ Booked.sortieBudget = ctx.sortieBudget
          /\ Booked.fleetBudget = ctx.fleetBudget - 1
        BY <1>1, <1>6 DEF Booked, Contexts
    <2> QED  BY <1>1, <1>2, <1>3, <1>6, <2>1, <2>2, <2>3 DEF Spending, Funded, Ledger, Admitted
<1>7. CASE call.op \in {"proceed", "select", "close", "cancel"}
    <2>1. delivered' = delivered
        BY <1>7 DEF Inject
    <2>2. /\ Booked.entryBudget = ctx.entryBudget
          /\ Booked.sortieBudget = ctx.sortieBudget
          /\ Booked.fleetBudget = ctx.fleetBudget
        BY <1>1, <1>7 DEF Booked, Contexts
    <2> QED  BY <1>1, <2>1, <2>2 DEF Funded, Ledger, Admitted
<1> QED  BY <1>1, <1>4, <1>5, <1>6, <1>7 DEF Inputs

LEMMA InitFunded == Init => Funded
<1> SUFFICES ASSUME Init PROVE Funded
    OBVIOUS
<1>1. Fitting
    BY InitType
<1>2. Ledger /\ Admitted
    BY CampaignAssumption DEF Init, Ledger, Admitted, NothingDelivered
<1> QED  BY <1>1, <1>2 DEF Funded

LEMMA FundedNext == Funded /\ [Next]_vars => Funded'
<1> SUFFICES ASSUME Funded, [Next]_vars PROVE Funded'
    OBVIOUS
<1>0. Fitting'
    BY FittingNext DEF Funded
<1>1. CASE Handle \/ Publish
    BY <1>0, <1>1, LedgerKept DEF Handle, Publish
<1>2. CASE Begin
    <2>1. /\ delivered' = NothingDelivered
          /\ ctx'.entryBudget = StageBudget
          /\ ctx'.sortieBudget = SortieBudget
          /\ ctx'.fleetBudget = FleetBudget
        BY <1>2 DEF Begin
    <2> QED  BY <1>0, <2>1, CampaignAssumption DEF Funded, Ledger, Admitted, NothingDelivered
<1>3. CASE End
    BY <1>0, <1>3, LedgerKept DEF End
<1>4. CASE Deciding \/ Asking
    BY <1>0, <1>4, DecidingKeepsBudgets, LedgerKept DEF Funded
<1>5. CASE CallRaises
    <2>1. caller' # "running" /\ delivered' = delivered
        BY <1>5 DEF CallRaises, AfterRaise
    <2> QED  BY <1>0, <2>1, LedgerKept
<1>6. CASE Aim
    BY <1>0, <1>6, LedgerKept DEF Aim
<1>7. CASE TapReturns
    <2>1. /\ call.pc = "tap" /\ Inject /\ ctx' = Booked
          /\ caller' = "running" => caller = "running"
        BY <1>7 DEF TapReturns
    <2>2. ctx # None
        BY <2>1, NoneAssumption DEF Funded, Fitting, CallFits
    <2> QED  BY <1>0, <2>1, <2>2, TapDelivers DEF Funded, Ledger
<1>8. CASE TapRaisesLate
    <2>1. call.pc = "tap" /\ Inject /\ caller' # "running"
        BY <1>8 DEF TapRaisesLate, AfterRaise
    <2> QED  BY <1>0, <2>1, TapDelivers DEF Funded, Ledger
<1>9. CASE UNCHANGED vars
    BY <1>0, <1>9, LedgerKept DEF vars
<1> QED  BY <1>1, <1>2, <1>3, <1>4, <1>5, <1>6, <1>7, <1>8, <1>9 DEF Next, Game

\* In every invocation the game gets at most the granted stage inputs, fleet
\* mutations and sorties, whatever taps are lost, handled late or reported as
\* failed: an unbooked tap is always the last budgeted one.
THEOREM BudgetsAdmit == Spec => []Admitted
<1>1. Init => Funded
    BY InitFunded
<1>2. Funded /\ [Next]_vars => Funded'
    BY FundedNext
<1>3. Funded => Admitted
    BY DEF Funded
<1> QED  BY <1>1, <1>2, <1>3, PTL DEF Spec

(***************************************************************************)
(* The plan of every invocation                                            *)
(***************************************************************************)

\* An initial panel is kept together with the request it was planned for.
Asked == Fitting /\ (ctx # None /\ ctx.initial # None => ctx.requested \in Requests)

\* Every step but the two that set them leaves the panel and the request.
LEMMA AskedKept ==
    ASSUME Asked, Fitting', ctx \in Contexts, ctx # None,
           ctx'.initial = ctx.initial, ctx'.requested = ctx.requested
    PROVE  Asked'
BY DEF Asked

LEMMA BookedKeepsRequest ==
    ASSUME ctx \in Contexts, call.op \in Inputs
    PROVE  Booked.initial = ctx.initial /\ Booked.requested = ctx.requested
BY DEF Booked, Inputs, Contexts

LEMMA AskedNext == Asked /\ [Next]_vars => Asked'
<1> SUFFICES ASSUME Asked, [Next]_vars PROVE Asked'
    OBVIOUS
<1>0. Fitting' /\ (ctx # None => ctx \in Contexts)
    BY FittingNext DEF Asked, Fitting, TypeOK, Maybe
<1>1. CASE ctx' = ctx
    BY <1>0, <1>1 DEF Asked
<1>2. CASE Begin
    <2>1. ctx'.initial = None
        BY <1>2 DEF Begin
    <2> QED  BY <1>0, <2>1 DEF Asked
<1>3. CASE End
    BY <1>0, <1>3 DEF Asked, End
<1>4. CASE AuthorizeFleets
    <2>1. PICK request \in Requests : ctx'.requested = request
        <3>1. ctx \in Contexts
            BY <1>0, <1>4 DEF AuthorizeFleets, Calling, Idle
        <3> QED  BY <1>4, <3>1, AuthorizeFleetsSets DEF Contexts
    <2> QED  BY <1>0, <2>1 DEF Asked
<1>5. CASE ConfirmSelection \/ AuthorizeSortie \/ ConfirmSortie \/ ConfirmPreSortie \/ Look
    <2>1. ctx # None
        BY <1>5 DEF ConfirmSelection, AuthorizeSortie, ConfirmSortie, ConfirmPreSortie,
                    Look, Calling, Idle
    <2>2. ctx'.initial = ctx.initial /\ ctx'.requested = ctx.requested
        BY <1>0, <1>5, <2>1 DEF ConfirmSelection, AuthorizeSortie, ConfirmSortie,
                                ConfirmPreSortie, Look, Contexts
    <2> QED  BY <1>0, <2>1, <2>2, AskedKept
<1>6. CASE AskStage \/ AskProceed \/ AskCancel
    <2>1. ctx # None
        BY <1>6 DEF AskStage, AskProceed, AskCancel, Entering, Calling, Idle
    <2>2. ctx'.initial = ctx.initial /\ ctx'.requested = ctx.requested
        BY <1>0, <1>6, <2>1 DEF AskStage, AskProceed, AskCancel, Contexts
    <2> QED  BY <1>0, <2>1, <2>2, AskedKept
<1>7. CASE RollbackClose
    <2>1. ctx # None /\ (ctx' = ctx \/ ctx' = [ctx EXCEPT !.row = None, !.previous = 0])
        BY <1>7 DEF RollbackClose, Idle
    <2>2. ctx'.initial = ctx.initial /\ ctx'.requested = ctx.requested
        BY <1>0, <2>1 DEF Contexts
    <2> QED  BY <1>0, <2>1, <2>2, AskedKept
<1>8. CASE TapReturns
    <2>1. ctx \in Contexts /\ ctx # None /\ call.op \in Inputs /\ ctx' = Booked
        BY <1>8, NoneAssumption DEF TapReturns, Asked, Fitting, CallFits
    <2> QED  BY <1>0, <2>1, BookedKeepsRequest, AskedKept
<1>9. Handle \/ Publish \/ CallRaises \/ AskSortie \/ Aim \/ TapRaisesLate
      \/ (\E r \in Rows : AskSelect(r) \/ AskClear(r) \/ \E i \in Indices : AskOption(r, i))
      \/ UNCHANGED vars => ctx' = ctx
    BY DEF Handle, Publish, CallRaises, AskSortie, Aim, TapRaisesLate,
           AskSelect, AskClear, AskOption, vars
<1> QED  BY <1>1, <1>2, <1>3, <1>4, <1>5, <1>6, <1>7, <1>8, <1>9
         DEF Next, Game, Deciding, Asking

\* From every panel the game can open with, and for every request ALAS can
\* make, the preflight of an invocation ends at the request.
THEOREM EveryPlanReaches == Spec => []PlanReaches
<1>1. Init => Asked
    BY InitType DEF Init, Asked
<1>2. Asked /\ [Next]_vars => Asked'
    BY AskedNext
<1>3. Asked => PlanReaches
    <2> SUFFICES ASSUME Asked, ctx # None, ctx.initial # None PROVE PlanReaches
        BY DEF PlanReaches
    <2>1. ctx.initial.fleets \in Selections
        BY DEF Asked, Fitting, TypeOK, Maybe, Contexts, Panels
    <2>2. ctx.requested \in Selections /\ ctx.requested["fleet1"] # 0
        BY CampaignAssumption DEF Asked
    <2> QED  BY <2>1, <2>2, PreflightReaches DEF PlanReaches
<1> QED  BY <1>1, <1>2, <1>3, PTL DEF Spec

(***************************************************************************)
(* Layers, and what is on its way between the caller and the game          *)
(***************************************************************************)

Layer == game.layer
ShownLayer == shown.game.layer
Queue == 1..Len(pending)
NoStage  == \A i \in Queue : pending[i].op # "stage"
AllStage == \A i \in Queue : pending[i].op = "stage"
Stands(g) == g.dropdown # None => g.layer = "fleet"

\* An open dropdown is the panel's; a cancel names what it closes.  A stage tap
\* is asked for on a published chapter, every other tap on a published layer
\* within it, and the game leaves the chapter by a stage tap and comes back by a
\* cancel: so the queue holds the stage taps in a block of their own.
QueueFits ==
    /\ Stands(game) /\ Stands(shown.game)
    /\ \A i \in Queue : pending[i].op = "cancel" => pending[i].row \in {"map", "fleet"}
    /\ ShownLayer = "chapter" /\ Layer = "chapter" =>
          \A i, j \in Queue : i < j /\ pending[i].op = "stage" => pending[j].op = "stage"
    /\ ShownLayer = "chapter" /\ Layer # "chapter" => Layer = "map" /\ AllStage
    /\ ShownLayer # "chapter" =>
          \A i, j \in Queue : i < j /\ pending[j].op = "stage" => pending[i].op = "stage"
    /\ ShownLayer # "chapter" /\ Layer = "chapter" => NoStage
    /\ ShownLayer = "battle" => Layer = "battle"

\* A call that has read its target: a later publication may have moved past it.
CallAimed ==
    call.pc = "tap" =>
        /\ call.gen # 0 /\ call.gen <= shown.gen
        /\ call.op = "stage" /\ ShownLayer # "chapter" =>
              ShownLayer = "map" /\ Layer = "map" /\ AllStage
        /\ call.op # "stage" /\ ShownLayer = "chapter" =>
              shown.gen > call.gen /\ Layer = "chapter" /\ NoStage

\* What a call under way was asked for under.
CallOwed ==
    call.pc # "idle" =>
        /\ call.op = "cancel" => call.row \in {"map", "fleet"} /\ ctx.entry # 0
        /\ call.op = "stage" => ctx.entry = 0 /\ ctx.initial = None
        /\ call.op = "sortie" =>
              /\ ctx.sortie = 0 /\ ctx.oil = "enough" /\ ctx.requested = Qualified
              /\ ctx.initial # None

\* After the cancel no stage tap follows: a chapter published since is final.
Back ==
    (ctx # None /\ ctx.cancel # 0) =>
        /\ ctx.entry # 0 /\ ctx.cancel <= shown.gen
        /\ ShownLayer = "chapter" => shown.gen > ctx.cancel /\ Layer = "chapter" /\ NoStage

Proven ==
    ctx # None =>
        /\ ctx.proof => ctx.cancel # 0 /\ ShownLayer = "chapter"
        /\ ctx.sortieProof => ctx.sortie # 0 /\ ShownLayer = "battle"

\* The receipts of a running invocation tell what was delivered in it.
Told ==
    ctx # None =>
        /\ ctx.sortie # 0 => delivered.sortie = 1
        /\ ctx.authorized => ctx.oil = "enough" /\ ctx.requested = Qualified
                             /\ ctx.initial # None
        /\ caller = "running" =>
             /\ ctx.sortie = 0 => delivered.sortie = 0
             /\ ctx.oil # None /\ ~(call.pc # "idle" /\ call.op = "stage") =>
                   delivered.stage > 0 /\ ctx.entry # 0
             /\ delivered.mutations = ctx.receipts

SortieOnce == delivered.sortie <= 1 /\ (delivered.sortie > 0 => delivered.stage > 0)

\* Before the fleets are authorized nothing was done on the panel.
Unplanned ==
    ctx # None =>
        /\ ctx.prepared # None => ctx.initial # None
        /\ ctx.initial = None => ctx.plan = <<>> /\ ctx.row = None /\ ctx.receipts = <<>>
        /\ ctx.initial = None /\ call.pc # "idle" =>
              call.op \in {"stage", "proceed", "cancel"}

Layered == /\ Fitting /\ QueueFits /\ CallAimed /\ CallOwed /\ Back /\ Proven
           /\ Told /\ SortieOnce /\ Unplanned

LEMMA EffectLayer ==
    ASSUME NEW g \in Games, NEW t \in Taps, Stands(g),
           t.op = "cancel" => t.row \in {"map", "fleet"}
    PROVE  /\ Stands(Effect(g, t))
           /\ g.layer = "chapter" /\ t.op = "stage" => Effect(g, t).layer = "map"
           /\ g.layer = "chapter" /\ t.op # "stage" => Effect(g, t).layer = "chapter"
           /\ g.layer # "chapter" /\ t.op = "stage" => Effect(g, t) = g
           /\ g.layer = "battle" => Effect(g, t) = g
           /\ g.layer # "chapter" /\ Effect(g, t).layer = "chapter" => t.op = "cancel"
BY NoneAssumption DEF Effect, Stands, OnPanel, Games, Layers, Taps, Inputs

\* Handling the first tap moves the others up by one.
LEMMA Shifted ==
    ASSUME NEW s \in Seq(Taps), s # <<>>
    PROVE  /\ Head(s) = s[1] /\ Head(s) \in Taps /\ 1 \in 1..Len(s)
           /\ Tail(s) \in Seq(Taps)
           /\ \A i \in 1..Len(Tail(s)) :
                i \in Nat /\ i + 1 \in 1..Len(s) /\ Tail(s)[i] = s[i + 1]
OBVIOUS

\* Injecting one leaves the others in their places.
LEMMA Appended ==
    ASSUME NEW s \in Seq(Taps), NEW t \in Taps
    PROVE  \A i \in 1..Len(Append(s, t)) :
             \/ i \in 1..Len(s) /\ Append(s, t)[i] = s[i]
             \/ i = Len(s) + 1 /\ i \notin 1..Len(s) /\ Append(s, t)[i] = t
OBVIOUS

LEMMA InitLayered == Init => Layered
<1> SUFFICES ASSUME Init PROVE Layered
    OBVIOUS
<1>1. Fitting
    BY InitType
<1> QED  BY <1>1 DEF Init, Layered, QueueFits, CallAimed, CallOwed, Back, Proven, Told,
              SortieOnce, Unplanned, Stands, Layer, ShownLayer, Queue, NoStage, AllStage,
              NoCall, NothingDelivered

LEMMA HandleLayered ==
    ASSUME Layered, Handle, Fitting'
    PROVE  Layered'
<1> DEFINE t == Head(pending)
<1>1. /\ game \in Games /\ pending \in Seq(Taps) /\ pending # <<>>
      /\ game' = Effect(game, t) /\ pending' = Tail(pending)
      /\ UNCHANGED <<saved, shown, ctx, call, caller, invocations, delivered>>
    BY DEF Handle, Layered, Fitting, TypeOK
<1>2. /\ t = pending[1] /\ t \in Taps /\ 1 \in Queue
      /\ \A i \in Queue' :
           i \in Nat /\ 1 < i + 1 /\ i + 1 \in Queue /\ pending'[i] = pending[i + 1]
    BY <1>1, Shifted DEF Queue
<1>3. /\ Stands(game)
      /\ t.op = "cancel" => t.row \in {"map", "fleet"}
    BY <1>2 DEF Layered, QueueFits
<1> HIDE DEF t
<1>4. /\ Stands(game')
      /\ Layer = "chapter" /\ t.op = "stage" => Layer' = "map"
      /\ Layer = "chapter" /\ t.op # "stage" => Layer' = "chapter"
      /\ Layer # "chapter" /\ t.op = "stage" => game' = game
      /\ Layer = "battle" => Layer' = "battle"
      /\ Layer # "chapter" /\ Layer' = "chapter" => t.op = "cancel"
    <2>1. /\ Stands(Effect(game, t))
          /\ game.layer = "chapter" /\ t.op = "stage" => Effect(game, t).layer = "map"
          /\ game.layer = "chapter" /\ t.op # "stage" => Effect(game, t).layer = "chapter"
          /\ game.layer # "chapter" /\ t.op = "stage" => Effect(game, t) = game
          /\ game.layer = "battle" => Effect(game, t) = game
          /\ game.layer # "chapter" /\ Effect(game, t).layer = "chapter" => t.op = "cancel"
        BY <1>1, <1>2, <1>3, EffectLayer
    <2>2. game' = Effect(game, t)
        BY <1>1 DEF t
    <2> QED  BY <2>1, <2>2 DEF Layer, Stands
<1>5. /\ NoStage => NoStage' /\ t.op # "stage"
      /\ AllStage => AllStage' /\ t.op = "stage"
    BY <1>2 DEF NoStage, AllStage
<1>a. /\ ShownLayer' = ShownLayer /\ shown' = shown /\ call' = call /\ ctx' = ctx
      /\ Layer' = game'.layer
    BY <1>1 DEF ShownLayer, Layer
<1>6. QueueFits'
    <2>1. Stands(game)' /\ Stands(shown.game)'
        BY <1>1, <1>4 DEF Layered, QueueFits, Stands
    <2>2. \A i \in Queue' : pending'[i].op = "cancel" => pending'[i].row \in {"map", "fleet"}
        BY <1>2 DEF Layered, QueueFits
    <2>3. ASSUME ShownLayer = "chapter", Layer' = "chapter", NEW i \in Queue', NEW j \in Queue',
                 i < j, pending'[i].op = "stage"
          PROVE  pending'[j].op = "stage"
        <3>1. Layer = "chapter"
            BY <2>3, <1>4, <1>5 DEF Layered, QueueFits, Layer
        <3>2. i + 1 < j + 1 /\ i + 1 \in Queue /\ j + 1 \in Queue
              /\ pending'[i] = pending[i + 1] /\ pending'[j] = pending[j + 1]
            BY <1>2, <2>3
        <3> HIDE DEF Queue
        <3> QED  BY <2>3, <3>1, <3>2 DEF Layered, QueueFits
    <2>4. ASSUME ShownLayer = "chapter", Layer' # "chapter" PROVE Layer' = "map" /\ AllStage'
        <3>1. CASE Layer = "chapter"
            <4>1. t.op = "stage"
                BY <2>4, <3>1, <1>4
            <4>2. AllStage'
                <5> SUFFICES ASSUME NEW i \in Queue' PROVE pending'[i].op = "stage"
                    BY DEF AllStage
                <5>1. i + 1 \in Queue /\ pending'[i] = pending[i + 1] /\ 1 < i + 1
                    BY <1>2
                <5> HIDE DEF Queue
                <5> QED  BY <5>1, <4>1, <1>2, <2>4, <3>1 DEF Layered, QueueFits
            <4> QED  BY <4>1, <4>2, <1>4, <3>1
        <3>2. CASE Layer # "chapter"
            BY <3>2, <2>4, <1>4, <1>5 DEF Layered, QueueFits, Layer
        <3> QED  BY <3>1, <3>2
    <2>5. ASSUME ShownLayer # "chapter", NEW i \in Queue', NEW j \in Queue',
                 i < j, pending'[j].op = "stage"
          PROVE  pending'[i].op = "stage"
        <3>2. i + 1 < j + 1 /\ i + 1 \in Queue /\ j + 1 \in Queue
              /\ pending'[i] = pending[i + 1] /\ pending'[j] = pending[j + 1]
            BY <1>2, <2>5
        <3> HIDE DEF Queue
        <3> QED  BY <2>5, <3>2 DEF Layered, QueueFits
    <2>6. ASSUME ShownLayer # "chapter", Layer' = "chapter" PROVE NoStage'
        <3>1. CASE Layer = "chapter"
            BY <3>1, <2>6, <1>5 DEF Layered, QueueFits
        <3>2. CASE Layer # "chapter"
            <4>1. t.op = "cancel"
                BY <2>6, <3>2, <1>4
            <4> SUFFICES ASSUME NEW i \in Queue' PROVE pending'[i].op # "stage"
                BY DEF NoStage
            <4>2. i + 1 \in Queue /\ pending'[i] = pending[i + 1] /\ 1 < i + 1
                BY <1>2
            <4> HIDE DEF Queue
            <4> QED  BY <4>1, <4>2, <1>2, <2>6 DEF Layered, QueueFits
        <3> QED  BY <3>1, <3>2
    <2>7. ShownLayer = "battle" => Layer' = "battle"
        BY <1>4 DEF Layered, QueueFits
    <2> QED  BY <2>1, <2>2, <2>3, <2>4, <2>5, <2>6, <2>7, <1>a DEF QueueFits
<1>7. CallAimed'
    BY <1>4, <1>5, <1>a DEF Layered, CallAimed, Layer
<1>8. Back'
    BY <1>4, <1>5, <1>a DEF Layered, Back
<1>9. CallOwed' /\ Proven' /\ Told' /\ SortieOnce' /\ Unplanned'
    BY <1>1, <1>a DEF Layered, CallOwed, Proven, Told, SortieOnce, Unplanned
<1> QED  BY <1>6, <1>7, <1>8, <1>9 DEF Layered

LEMMA PublishLayered ==
    ASSUME Layered, Publish, Fitting'
    PROVE  Layered'
<1>1. /\ shown' = [gen |-> shown.gen + 1, game |-> game]
      /\ UNCHANGED <<game, saved, pending, ctx, call, caller, invocations, delivered>>
      /\ shown.gen \in Nat
    BY DEF Publish, Layered, Fitting, TypeOK
<1>2. /\ ShownLayer' = Layer /\ Layer' = Layer /\ shown'.gen = shown.gen + 1
      /\ shown'.game = game /\ Queue' = Queue /\ NoStage' = NoStage /\ AllStage' = AllStage
    BY <1>1 DEF ShownLayer, Layer, Queue, NoStage, AllStage
<1>3. QueueFits'
    BY <1>1, <1>2 DEF Layered, QueueFits, AllStage, NoStage
<1>4. CallAimed'
    <2> SUFFICES ASSUME call.pc = "tap" PROVE CallAimed'
        BY <1>1 DEF CallAimed
    <2>1. call.gen \in Nat
        BY CampaignAssumption DEF Layered, Fitting, TypeOK, Calls, Receipts
    <2>2. call.gen # 0 /\ call.gen <= shown.gen
        BY DEF Layered, CallAimed
    <2>3. call.op = "stage" /\ Layer # "chapter" => Layer = "map" /\ AllStage
        BY DEF Layered, CallAimed, QueueFits
    <2>4. call.op # "stage" /\ Layer = "chapter" => NoStage
        BY DEF Layered, CallAimed, QueueFits
    <2> QED  BY <1>1, <1>2, <2>1, <2>2, <2>3, <2>4 DEF CallAimed
<1>5. Back'
    <2> SUFFICES ASSUME ctx # None, ctx.cancel # 0 PROVE Back'
        BY <1>1 DEF Back
    <2>1. ctx.cancel \in Nat
        BY CampaignAssumption DEF Layered, Fitting, TypeOK, Maybe, Contexts, Receipts
    <2>2. ctx.entry # 0 /\ ctx.cancel <= shown.gen
        BY DEF Layered, Back
    <2>3. Layer = "chapter" => NoStage
        BY DEF Layered, Back, QueueFits
    <2> QED  BY <1>1, <1>2, <2>1, <2>2, <2>3 DEF Back
<1>6. Proven'
    BY <1>1, <1>2 DEF Layered, Proven, Back, QueueFits
<1>7. CallOwed' /\ Told' /\ SortieOnce' /\ Unplanned'
    BY <1>1 DEF Layered, CallOwed, Told, SortieOnce, Unplanned
<1> QED  BY <1>3, <1>4, <1>5, <1>6, <1>7 DEF Layered

\* A step that leaves the game, the queue, the publication and the call alone.
LEMMA StillLayered ==
    ASSUME Layered, UNCHANGED <<game, shown, pending, delivered>>, call' = NoCall
    PROVE  /\ QueueFits' /\ CallAimed' /\ CallOwed' /\ SortieOnce'
           /\ ShownLayer' = ShownLayer /\ Layer' = Layer /\ NoStage' = NoStage
           /\ call'.pc = "idle"
BY DEF Layered, QueueFits, CallAimed, CallOwed, SortieOnce, Stands, NoCall,
       ShownLayer, Layer, Queue, NoStage, AllStage

LEMMA BeginLayered ==
    ASSUME Layered, Begin, Fitting'
    PROVE  Layered'
<1>1. /\ UNCHANGED <<game, shown, pending>> /\ call' = NoCall
      /\ delivered' = NothingDelivered
      /\ ctx'.cancel = 0 /\ ~ctx'.proof /\ ~ctx'.sortieProof /\ ctx'.sortie = 0
      /\ ~ctx'.authorized /\ ctx'.oil = None /\ ctx'.receipts = <<>>
      /\ ctx'.prepared = None /\ ctx'.plan = <<>> /\ ctx'.row = None
    BY DEF Begin, gameVars
<1>2. QueueFits' /\ CallAimed' /\ CallOwed'
    BY <1>1 DEF Layered, QueueFits, CallAimed, CallOwed, Stands, NoCall,
       ShownLayer, Layer, Queue, NoStage, AllStage
<1>3. Back' /\ Proven' /\ Told' /\ SortieOnce' /\ Unplanned'
    BY <1>1 DEF Back, Proven, Told, SortieOnce, Unplanned, NothingDelivered, NoCall
<1> QED  BY <1>2, <1>3 DEF Layered

LEMMA EndLayered ==
    ASSUME Layered, End, Fitting'
    PROVE  Layered'
<1>1. UNCHANGED <<game, shown, pending, delivered>> /\ call' = NoCall /\ ctx' = None
    BY DEF End, gameVars
<1>2. QueueFits' /\ CallAimed' /\ CallOwed' /\ SortieOnce'
    BY <1>1, StillLayered
<1> QED  BY <1>1, <1>2 DEF Layered, Back, Proven, Told, Unplanned

LEMMA DecidingLayered ==
    ASSUME Layered, Deciding, Fitting'
    PROVE  Layered'
<1>1. /\ UNCHANGED <<game, shown, pending, delivered>> /\ call = NoCall /\ call' = NoCall
      /\ ctx \in Contexts /\ ctx # None /\ caller = "running"
    BY DEF Deciding, AuthorizeFleets, ConfirmSelection, AuthorizeSortie, ConfirmSortie,
           ConfirmPreSortie, Look, Calling, Idle, Quiet, gameVars, Layered, Fitting, TypeOK,
           Maybe
<1>2. /\ QueueFits' /\ CallAimed' /\ CallOwed' /\ SortieOnce'
      /\ ShownLayer' = ShownLayer /\ Layer' = Layer /\ NoStage' = NoStage
      /\ call'.pc = "idle" /\ call.pc = "idle"
    BY <1>1, StillLayered DEF NoCall
<1>3. /\ ctx.initial = None => ~ctx.authorized /\ ctx.prepared = None
      /\ ShownPanel # None
    BY <1>1, NoneAssumption DEF Layered, Told, Unplanned, Fitting, TypeOK, ShownPanel, Panels,
                                Games
<1>4. CASE AuthorizeFleets
    <2>1. ctx.initial = None
        BY <1>4 DEF AuthorizeFleets
    <2>2. PICK request \in Requests :
             \E plan \in {Preflight(shown.game.fleets, request).ops} :
                \/ ctx' = [ctx EXCEPT !.initial = ShownPanel, !.requested = request]
                \/ ctx' = [[ctx EXCEPT !.initial = ShownPanel, !.requested = request]
                             EXCEPT !.plan = plan]
        BY <1>4, AuthorizeFleetsSets
    <2>3. /\ ctx'.initial # None /\ ctx'.receipts = ctx.receipts /\ ctx'.row = ctx.row
          /\ ctx'.cancel = ctx.cancel /\ ctx'.entry = ctx.entry /\ ctx'.sortie = ctx.sortie
          /\ ctx'.proof = ctx.proof /\ ctx'.sortieProof = ctx.sortieProof
          /\ ctx'.authorized = ctx.authorized /\ ctx'.oil = ctx.oil
        BY <1>1, <1>3, <2>2 DEF Contexts
    <2>4. Back' /\ Proven'
        BY <1>1, <1>2, <2>3 DEF Layered, Back, Proven
    <2>5. Told' /\ Unplanned'
        BY <1>1, <1>2, <1>3, <2>1, <2>3 DEF Layered, Told, Unplanned, AfterRaise
    <2> QED  BY <1>2, <2>4, <2>5 DEF Layered
<1>5. CASE ConfirmSelection
    <2>1. /\ ctx.initial # None /\ ctx' = [ctx EXCEPT !.prepared = ShownPanel]
          /\ caller' = caller
        BY <1>5 DEF ConfirmSelection
    <2>2. Back' /\ Proven' /\ Told' /\ Unplanned'
        BY <1>1, <1>2, <2>1 DEF Layered, Back, Proven, Told, Unplanned, Contexts
    <2> QED  BY <1>2, <2>2 DEF Layered
<1>6. CASE AuthorizeSortie
    <2>1. /\ ctx.prepared # None /\ ctx.requested = Qualified /\ ctx.oil = "enough"
          /\ ctx' = [ctx EXCEPT !.authorized = TRUE] /\ caller' = caller
        BY <1>6 DEF AuthorizeSortie
    <2>2. Back' /\ Proven' /\ Told' /\ Unplanned'
        BY <1>1, <1>2, <1>3, <2>1 DEF Layered, Back, Proven, Told, Unplanned, Contexts
    <2> QED  BY <1>2, <2>2 DEF Layered
<1>7. CASE ConfirmSortie
    <2>1. /\ ctx.sortie # 0 /\ ShownLayer = "battle"
          /\ ctx' = [ctx EXCEPT !.sortieProof = TRUE] /\ caller' = caller
        BY <1>7 DEF ConfirmSortie, ShownLayer
    <2>2. Back' /\ Proven' /\ Told' /\ Unplanned'
        BY <1>1, <1>2, <2>1 DEF Layered, Back, Proven, Told, Unplanned, Contexts
    <2> QED  BY <1>2, <2>2 DEF Layered
<1>8. CASE ConfirmPreSortie
    <2>1. PICK fleets \in BOOLEAN : ctx' = [ctx EXCEPT !.proof = TRUE, !.fleetProof = fleets]
        BY <1>8 DEF ConfirmPreSortie
    <2>2. /\ ctx.cancel # 0 /\ ShownLayer = "chapter" /\ caller' = caller
        BY <1>8 DEF ConfirmPreSortie, ShownLayer
    <2>3. Back' /\ Proven' /\ Told' /\ Unplanned'
        BY <1>1, <1>2, <2>1, <2>2 DEF Layered, Back, Proven, Told, Unplanned, Contexts
    <2> QED  BY <1>2, <2>3 DEF Layered
<1>9. CASE Look
    <2>1. ctx' = [ctx EXCEPT !.kind = shown.game.layer] /\ caller' = caller
        BY <1>9 DEF Look
    <2>2. Back' /\ Proven' /\ Told' /\ Unplanned'
        BY <1>1, <1>2, <2>1 DEF Layered, Back, Proven, Told, Unplanned, Contexts
    <2> QED  BY <1>2, <2>2 DEF Layered
<1> QED  BY <1>4, <1>5, <1>6, <1>7, <1>8, <1>9 DEF Deciding

LEMMA CallRaisesLayered ==
    ASSUME Layered, CallRaises, Fitting'
    PROVE  Layered'
<1>1. /\ UNCHANGED <<game, shown, pending, delivered>> /\ call' = NoCall
      /\ ctx' = ctx /\ caller' # "running"
    BY DEF CallRaises, gameVars, AfterRaise
<1>2. /\ QueueFits' /\ CallAimed' /\ CallOwed' /\ SortieOnce'
      /\ ShownLayer' = ShownLayer /\ Layer' = Layer /\ NoStage' = NoStage
      /\ call'.pc = "idle"
    BY <1>1, StillLayered
<1> QED  BY <1>1, <1>2 DEF Layered, Back, Proven, Told, Unplanned

\* The calls with input, and what their first moment may change.
LEMMA AskSorts ==
    ASSUME Layered, Asking
    PROVE  /\ UNCHANGED <<game, shown, pending, delivered>>
           /\ ctx \in Contexts /\ ctx # None /\ call = NoCall
           /\ caller' = "running" => caller = "running"
           /\ call'.pc \in {"idle", "aim"}
           /\ ctx'.cancel = ctx.cancel /\ ctx'.entry = ctx.entry /\ ctx'.sortie = ctx.sortie
           /\ ctx'.proof = ctx.proof /\ ctx'.sortieProof = ctx.sortieProof
           /\ ctx'.authorized = ctx.authorized /\ ctx'.requested = ctx.requested
           /\ ctx'.initial = ctx.initial /\ ctx'.prepared = ctx.prepared
           /\ ctx'.plan = ctx.plan /\ ctx'.receipts = ctx.receipts
           /\ ctx'.row \in {ctx.row, None}
           /\ ctx'.oil # ctx.oil => call'.op = "stage" /\ call'.pc = "aim"
           /\ call'.pc # "idle" =>
                /\ call'.op = "stage" => ctx.entry = 0 /\ ctx.initial = None
                /\ call'.op = "cancel" => call'.row \in {"map", "fleet"} /\ ctx.entry # 0
                /\ call'.op = "sortie" => ctx.sortie = 0 /\ ctx.authorized
                /\ ctx.initial = None => call'.op \in {"stage", "proceed", "cancel"}
<1>0. /\ UNCHANGED <<game, shown, pending, delivered>>
      /\ ctx \in Contexts /\ ctx # None /\ call = NoCall
    BY DEF Asking, AskStage, AskProceed, AskSortie, AskCancel, RollbackClose, Quiet,
           AskSelect, AskClear, AskOption, Entering, Calling, Idle, Ask, Layered, Fitting,
           TypeOK, Maybe, gameVars
<1>a. /\ ctx.initial = None => ctx.row = None /\ ctx.plan = <<>> /\ ctx.prepared = None
      /\ \A r \in Rows : r # None
      /\ ctx.receipts \in Seq(Mutations)
    BY <1>0, NoneAssumption DEF Layered, Unplanned, Contexts
<1>1. CASE AskStage
    BY <1>0, <1>1 DEF AskStage, Entering, Calling, Idle, Ask, Contexts
<1>2. CASE AskProceed
    <2>1. \E k \in {"map", ctx.kind} : ctx' = [ctx EXCEPT !.kind = k]
        BY <1>2 DEF AskProceed
    <2> QED  BY <1>0, <1>2, <2>1 DEF AskProceed, Entering, Calling, Idle, Ask, Contexts
<1>3. CASE AskSortie
    BY <1>0, <1>a, <1>3 DEF AskSortie, Calling, Idle, Ask
<1>4. CASE AskCancel
    BY <1>0, <1>4 DEF AskCancel, Idle, Ask, Contexts
<1>5. CASE RollbackClose
    <2>1. CASE shown.game.dropdown = None
        <3>1. /\ ctx' = [ctx EXCEPT !.row = None, !.previous = 0] /\ call'.pc = "idle"
              /\ caller' = "running" => caller = "running"
            BY <1>0, <1>5, <2>1 DEF RollbackClose, Quiet, NoCall
        <3> QED  BY <1>0, <3>1 DEF Contexts
    <2>2. CASE shown.game.dropdown # None
        BY <1>0, <1>a, <1>5, <2>2 DEF RollbackClose, Idle, Ask
    <2> QED  BY <2>1, <2>2
<1>6. ASSUME NEW r \in Rows, AskSelect(r) \/ AskClear(r)
      PROVE  /\ ctx' = ctx /\ caller' = caller /\ ctx.initial # None
             /\ call'.pc = "aim" /\ call'.op \in {"select", "close", "clear"}
    BY <1>6 DEF AskSelect, AskClear, Authorized, Ask
<1>7. ASSUME NEW r \in Rows, NEW i \in Indices, AskOption(r, i)
      PROVE  /\ ctx' = ctx /\ caller' = caller /\ ctx.initial # None
             /\ call'.pc = "aim" /\ call'.op = "option"
    BY <1>7, <1>a DEF AskOption, Ask
<1> QED
    <2>1. CASE AskStage \/ AskProceed \/ AskSortie \/ AskCancel \/ RollbackClose
        BY <2>1, <1>0, <1>1, <1>2, <1>3, <1>4, <1>5
    <2>2. CASE \E r \in Rows : AskSelect(r) \/ AskClear(r) \/ \E i \in Indices : AskOption(r, i)
        BY <2>2, <1>0, <1>6, <1>7
    <2> QED  BY <2>1, <2>2 DEF Asking

LEMMA AskingLayered ==
    ASSUME Layered, Asking, Fitting'
    PROVE  Layered'
<1>1. /\ UNCHANGED <<game, shown, pending, delivered>>
      /\ ctx \in Contexts /\ ctx # None /\ call.pc = "idle" /\ call'.pc # "tap"
    BY AskSorts DEF NoCall
<1>2. /\ QueueFits' /\ CallAimed' /\ SortieOnce'
      /\ ShownLayer' = ShownLayer /\ Layer' = Layer /\ NoStage' = NoStage
    BY <1>1 DEF Layered, QueueFits, CallAimed, SortieOnce, Stands,
                ShownLayer, Layer, Queue, NoStage, AllStage
<1>3. CallOwed'
    BY <1>1, AskSorts DEF Layered, CallOwed, Told
<1>4. Back' /\ Proven'
    BY <1>1, <1>2, AskSorts DEF Layered, Back, Proven
<1>5. Told'
    BY <1>1, AskSorts DEF Layered, Told
<1>6. Unplanned'
    BY <1>1, AskSorts DEF Layered, Unplanned
<1> QED  BY <1>2, <1>3, <1>4, <1>5, <1>6 DEF Layered

LEMMA AimLayered ==
    ASSUME Layered, Aim, Fitting'
    PROVE  Layered'
<1>1. /\ UNCHANGED <<game, shown, pending, ctx, caller, delivered>>
      /\ call.pc = "aim" /\ Visible(call.op)
      /\ call' = [call EXCEPT !.pc = "tap", !.gen = shown.gen]
    BY DEF Aim, gameVars
<1>2. /\ call \in Calls /\ shown.gen \in Nat /\ shown.gen # 0 /\ shown.game \in Games
      /\ call.op \in Inputs
    BY <1>1 DEF Layered, Fitting, TypeOK, CallFits
<1>3. /\ call'.pc = "tap" /\ call'.gen = shown.gen
      /\ call'.op = call.op /\ call'.row = call.row
    BY <1>1, <1>2 DEF Calls
<1>4. QueueFits' /\ SortieOnce' /\ Back' /\ Proven'
    BY <1>1 DEF Layered, QueueFits, SortieOnce, Back, Proven, Stands,
                ShownLayer, Layer, Queue, NoStage, AllStage
<1>5. CallOwed' /\ Told' /\ Unplanned'
    BY <1>1, <1>3 DEF Layered, CallOwed, Told, Unplanned
<1>6. call.op = "stage" => ShownLayer = "chapter"
    BY <1>1 DEF Visible, ShownLayer
<1>7. call.op # "stage" => ShownLayer # "chapter"
    <2>1. call.op = "cancel" => call.row \in {"map", "fleet"}
        BY <1>1 DEF Layered, CallOwed
    <2>2. Stands(shown.game)
        BY DEF Layered, QueueFits
    <2> QED  BY <1>1, <1>2, <2>1, <2>2 DEF Visible, ShownLayer, Inputs, OnPanel, Stands
<1>8. CallAimed'
    BY <1>1, <1>2, <1>3, <1>6, <1>7 DEF CallAimed, ShownLayer
<1> QED  BY <1>4, <1>5, <1>8 DEF Layered

\* What a tap adds to the queue and to what was delivered.
LEMMA Injected ==
    ASSUME Layered, call.pc = "tap", Inject
    PROVE  /\ \A i \in Queue' :
                \/ i \in Queue /\ pending'[i] = pending[i]
                \/ /\ i = Len(pending) + 1 /\ i \notin Queue
                   /\ pending'[i].op = call.op /\ pending'[i].row = call.row
                   /\ pending'[i].index = call.index
                   /\ pending'[i].wants = ctx.requested
           /\ Queue \subseteq 1..Len(pending) /\ Len(pending) \in Nat
           /\ call.op = "sortie" => /\ delivered'.sortie = delivered.sortie + 1
                                    /\ delivered'.stage = delivered.stage
           /\ call.op = "stage" => /\ delivered'.stage = delivered.stage + 1
                                   /\ delivered'.sortie = delivered.sortie
           /\ call.op \notin {"stage", "sortie"} => /\ delivered'.sortie = delivered.sortie
                                                  /\ delivered'.stage = delivered.stage
           /\ call.op \in {"option", "clear"} =>
                delivered'.mutations = Append(delivered.mutations, Mutation)
           /\ call.op \notin {"option", "clear"} => delivered'.mutations = delivered.mutations
<1> DEFINE t == [op |-> call.op, row |-> call.row, index |-> call.index,
                 wants |-> ctx.requested]
<1>1. /\ ctx \in Contexts /\ call \in Calls /\ call.op \in Inputs
      /\ call.row \in Places /\ call.index \in {0} \union Indices
      /\ pending \in Seq(Taps)
      /\ delivered \in [stage : Nat, sortie : Nat, mutations : Seq(Mutations)]
    BY DEF Layered, Fitting, TypeOK, CallFits, Calls
<1>2. t \in Taps
    BY <1>1 DEF Taps, Contexts
<1>3. pending' = Append(pending, t)
    BY DEF Inject
<1>4. \A i \in Queue' :
           \/ i \in Queue /\ pending'[i] = pending[i]
           \/ i = Len(pending) + 1 /\ i \notin Queue /\ pending'[i] = t
    <2> HIDE DEF t
    <2> QED  BY <1>1, <1>2, <1>3, Appended DEF Queue
<1>5. /\ Queue \subseteq 1..Len(pending) /\ Len(pending) \in Nat
    BY <1>1 DEF Queue
<1>6. /\ call.op = "sortie" => /\ delivered'.sortie = delivered.sortie + 1
                               /\ delivered'.stage = delivered.stage
      /\ call.op = "stage" => /\ delivered'.stage = delivered.stage + 1
                              /\ delivered'.sortie = delivered.sortie
      /\ call.op \notin {"stage", "sortie"} => /\ delivered'.sortie = delivered.sortie
                                             /\ delivered'.stage = delivered.stage
      /\ call.op \in {"option", "clear"} =>
           delivered'.mutations = Append(delivered.mutations, Mutation)
      /\ call.op \notin {"option", "clear"} => delivered'.mutations = delivered.mutations
    BY <1>1 DEF Inject, Mutation, Option, Clear
<1> QED  BY <1>4, <1>5, <1>6

LEMMA InjectedQueue ==
    ASSUME Layered, call.pc = "tap", Inject, UNCHANGED gameVars
    PROVE  /\ QueueFits' /\ ShownLayer' = ShownLayer /\ Layer' = Layer
           /\ NoStage /\ call.op # "stage" => NoStage'
<1>1. /\ ShownLayer' = ShownLayer /\ Layer' = Layer
      /\ Stands(game)' /\ Stands(shown.game)'
    BY DEF gameVars, ShownLayer, Layer, Stands, Layered, QueueFits
<1>2. NoStage /\ call.op # "stage" => NoStage'
    BY Injected DEF NoStage
<1>3. AllStage /\ call.op = "stage" => AllStage'
    BY Injected DEF AllStage
<1>4. \A i \in Queue' : pending'[i].op = "cancel" => pending'[i].row \in {"map", "fleet"}
    BY Injected DEF Layered, QueueFits, CallOwed
<1>5. ASSUME NEW i \in Queue', NEW j \in Queue', i < j
      PROVE  /\ i \in Queue /\ pending'[i] = pending[i]
             /\ \/ j \in Queue /\ pending'[j] = pending[j]
                \/ pending'[j].op = call.op
    BY <1>5, Injected DEF Queue
<1>6. ASSUME ShownLayer = "chapter", Layer = "chapter",
             NEW i \in Queue', NEW j \in Queue', i < j, pending'[i].op = "stage"
      PROVE  pending'[j].op = "stage"
    <2>1. i \in Queue /\ pending[i].op = "stage"
        BY <1>5, <1>6
    <2>2. call.op = "stage"
        BY <1>6, <2>1 DEF Layered, CallAimed, NoStage
    <2> QED  BY <1>5, <1>6, <2>1, <2>2 DEF Layered, QueueFits
<1>7. ASSUME ShownLayer = "chapter", Layer # "chapter"
      PROVE  Layer = "map" /\ AllStage'
    BY <1>3, <1>7 DEF Layered, QueueFits, CallAimed
<1>8. ASSUME ShownLayer # "chapter",
             NEW i \in Queue', NEW j \in Queue', i < j, pending'[j].op = "stage"
      PROVE  pending'[i].op = "stage"
    <2>1. CASE j \in Queue /\ pending'[j] = pending[j]
        BY <1>5, <1>8, <2>1 DEF Layered, QueueFits
    <2>2. CASE call.op = "stage"
        BY <1>5, <1>8, <2>2 DEF Layered, CallAimed, AllStage
    <2> QED  BY <1>5, <1>8, <2>1, <2>2
<1>9. ShownLayer # "chapter" /\ Layer = "chapter" => NoStage'
    <2>1. ShownLayer # "chapter" /\ Layer = "chapter" => call.op # "stage"
        BY DEF Layered, CallAimed
    <2> QED  BY <1>2, <2>1 DEF Layered, QueueFits
<1>10. ShownLayer = "battle" => Layer = "battle"
    BY DEF Layered, QueueFits
<1>11. QueueFits'
    BY <1>1, <1>4, <1>6, <1>7, <1>8, <1>9, <1>10 DEF QueueFits
<1> QED  BY <1>1, <1>2, <1>11

LEMMA TapReturnsLayered ==
    ASSUME Layered, TapReturns, Fitting'
    PROVE  Layered'
<1>1. /\ call.pc = "tap" /\ Inject /\ ctx' = Booked /\ call' = NoCall
      /\ UNCHANGED gameVars /\ UNCHANGED shown
      /\ caller' = "running" => caller = "running"
    BY DEF TapReturns, gameVars
<1>2. /\ ctx \in Contexts /\ ctx # None /\ call.op \in Inputs /\ call.gen # 0
      /\ call.gen <= shown.gen /\ call.pc # "idle"
      /\ call.op \in {"stage", "sortie", "option", "clear"} => caller = "running"
    BY <1>1, NoneAssumption DEF Layered, Fitting, CallFits, CallAimed, Spending
<1>3. /\ QueueFits' /\ ShownLayer' = ShownLayer /\ Layer' = Layer
      /\ NoStage /\ call.op # "stage" => NoStage'
    BY <1>1, InjectedQueue
<1>4. CallAimed' /\ CallOwed'
    BY <1>1 DEF CallAimed, CallOwed, NoCall
<1>5. /\ ctx'.entry = IF call.op = "stage" THEN call.gen ELSE ctx.entry
      /\ ctx'.cancel = IF call.op = "cancel" THEN call.gen ELSE ctx.cancel
      /\ ctx'.sortie = IF call.op = "sortie" THEN call.gen ELSE ctx.sortie
      /\ ctx'.proof = ctx.proof /\ ctx'.sortieProof = ctx.sortieProof
      /\ ctx'.authorized = ctx.authorized /\ ctx'.requested = ctx.requested
      /\ ctx'.initial = ctx.initial /\ ctx'.prepared = ctx.prepared
      /\ ctx'.plan = ctx.plan /\ ctx'.oil = ctx.oil
      /\ ctx'.receipts = IF call.op \in {"option", "clear"}
                         THEN Append(ctx.receipts, Mutation) ELSE ctx.receipts
      /\ call.op \notin {"select", "close", "option"} => ctx'.row = ctx.row
    BY <1>1, <1>2 DEF Booked, Inputs, Contexts
<1>6. /\ call.op = "stage" => ctx.entry = 0 /\ ctx.initial = None
      /\ call.op = "cancel" => ctx.entry # 0
      /\ call.op = "sortie" =>
            ctx.sortie = 0 /\ ctx.oil = "enough" /\ ctx.initial # None
      /\ call.op \in {"select", "close", "option", "clear"} => ctx.initial # None
    BY <1>2 DEF Layered, CallOwed, Unplanned
<1>7. /\ shown.gen \in Nat /\ call.gen \in Nat /\ ctx.cancel \in Nat
      /\ delivered \in [stage : Nat, sortie : Nat, mutations : Seq(Mutations)]
    <2>1. Receipts \subseteq Nat
        BY CampaignAssumption DEF Receipts
    <2>2. shown.gen \in Nat /\ call \in Calls
          /\ delivered \in [stage : Nat, sortie : Nat, mutations : Seq(Mutations)]
        BY DEF Layered, Fitting, TypeOK
    <2>3. call.gen \in Receipts
        BY <2>2 DEF Calls
    <2>4. ctx.cancel \in Receipts
        BY <1>2 DEF Contexts
    <2> QED  BY <2>1, <2>2, <2>3, <2>4
<1>8. Back'
    <2>1. CASE call.op = "cancel"
        <3>1. ShownLayer = "chapter" => shown.gen > call.gen /\ Layer = "chapter" /\ NoStage
            BY <1>1, <2>1 DEF Layered, CallAimed
        <3> QED  BY <1>1, <1>2, <1>3, <1>5, <1>6, <2>1, <3>1 DEF Back
    <2>2. CASE call.op # "cancel" /\ ctx.cancel # 0
        <3>1. ctx.entry # 0 /\ call.op # "stage"
            BY <1>2, <1>6, <2>2 DEF Layered, Back
        <3> QED  BY <1>1, <1>2, <1>3, <1>5, <2>2, <3>1 DEF Layered, Back
    <2>3. CASE call.op # "cancel" /\ ctx.cancel = 0
        BY <1>5, <2>3 DEF Back
    <2> QED  BY <2>1, <2>2, <2>3
<1>9. Proven'
    BY <1>2, <1>3, <1>5 DEF Layered, Proven
<1>10. ctx.oil # None /\ call.op # "stage" /\ caller = "running" =>
           delivered.stage > 0 /\ ctx.entry # 0
    BY <1>2 DEF Layered, Told
<1>11. /\ call.op = "sortie" => /\ delivered'.sortie = delivered.sortie + 1
                                /\ delivered'.stage = delivered.stage
       /\ call.op = "stage" => /\ delivered'.stage = delivered.stage + 1
                               /\ delivered'.sortie = delivered.sortie
       /\ call.op \notin {"stage", "sortie"} => /\ delivered'.sortie = delivered.sortie
                                                /\ delivered'.stage = delivered.stage
       /\ call.op \in {"option", "clear"} =>
            delivered'.mutations = Append(delivered.mutations, Mutation)
       /\ call.op \notin {"option", "clear"} => delivered'.mutations = delivered.mutations
    BY <1>1, Injected
<1>12. call.op = "sortie" => delivered.sortie = 0 /\ delivered.stage > 0
    BY <1>2, <1>6, <1>10, NoneAssumption DEF Layered, Told
<1>13. Told'
    <2>1. ctx'.sortie # 0 => delivered'.sortie = 1
        <3>1. ctx.sortie # 0 => delivered.sortie = 1
            BY <1>2 DEF Layered, Told
        <3> QED  BY <1>5, <1>6, <1>7, <1>11, <1>12, <3>1
    <2>2. ctx'.authorized => ctx'.oil = "enough" /\ ctx'.requested = Qualified
                             /\ ctx'.initial # None
        BY <1>2, <1>5 DEF Layered, Told
    <2>3. caller' = "running" /\ ctx'.sortie = 0 => delivered'.sortie = 0
        BY <1>1, <1>2, <1>5, <1>11 DEF Layered, Told
    <2>4. caller' = "running" /\ ctx'.oil # None => delivered'.stage > 0 /\ ctx'.entry # 0
        BY <1>1, <1>2, <1>5, <1>7, <1>10, <1>11
    <2>5. caller' = "running" => delivered'.mutations = ctx'.receipts
        BY <1>1, <1>2, <1>5, <1>11 DEF Layered, Told
    <2> QED  BY <2>1, <2>2, <2>3, <2>4, <2>5 DEF Told
<1>14. SortieOnce'
    <2>1. CASE call.op = "sortie"
        BY <1>7, <1>11, <1>12, <2>1 DEF SortieOnce
    <2>2. CASE call.op = "stage"
        BY <1>7, <1>11, <2>2 DEF Layered, SortieOnce
    <2>3. CASE call.op \notin {"stage", "sortie"}
        BY <1>7, <1>11, <2>3 DEF Layered, SortieOnce
    <2> QED  BY <2>1, <2>2, <2>3
<1>15. Unplanned'
    BY <1>1, <1>2, <1>5, <1>6 DEF Layered, Unplanned, NoCall
<1> QED  BY <1>3, <1>4, <1>8, <1>9, <1>13, <1>14, <1>15 DEF Layered

LEMMA TapRaisesLateLayered ==
    ASSUME Layered, TapRaisesLate, Fitting'
    PROVE  Layered'
<1>1. /\ call.pc = "tap" /\ Inject /\ ctx' = ctx /\ call' = NoCall
      /\ UNCHANGED gameVars /\ UNCHANGED shown /\ caller' # "running"
    BY DEF TapRaisesLate, gameVars, AfterRaise
<1>2. /\ ctx \in Contexts /\ ctx # None /\ call.op \in Inputs /\ call.pc # "idle"
      /\ call.op \in {"stage", "sortie", "option", "clear"} => caller = "running"
    BY <1>1, NoneAssumption DEF Layered, Fitting, CallFits, Spending
<1>3. /\ QueueFits' /\ ShownLayer' = ShownLayer /\ Layer' = Layer
      /\ NoStage /\ call.op # "stage" => NoStage'
    BY <1>1, InjectedQueue
<1>4. CallAimed' /\ CallOwed'
    BY <1>1 DEF CallAimed, CallOwed, NoCall
<1>5. Back'
    <2>1. ctx.cancel # 0 => ctx.entry # 0 /\ call.op # "stage"
        BY <1>2 DEF Layered, Back, CallOwed
    <2> QED  BY <1>1, <1>2, <1>3, <2>1 DEF Layered, Back
<1>6. Proven' /\ Unplanned'
    BY <1>1, <1>3 DEF Layered, Proven, Unplanned, NoCall
<1>7. delivered \in [stage : Nat, sortie : Nat, mutations : Seq(Mutations)]
    BY DEF Layered, Fitting, TypeOK
<1>8. /\ call.op = "sortie" => /\ delivered'.sortie = delivered.sortie + 1
                               /\ delivered'.stage = delivered.stage
      /\ call.op = "stage" => /\ delivered'.stage = delivered.stage + 1
                              /\ delivered'.sortie = delivered.sortie
      /\ call.op \notin {"stage", "sortie"} => /\ delivered'.sortie = delivered.sortie
                                               /\ delivered'.stage = delivered.stage
    BY <1>1, Injected
<1>9. call.op = "sortie" => delivered.sortie = 0 /\ delivered.stage > 0 /\ ctx.sortie = 0
    BY <1>2, NoneAssumption DEF Layered, Told, CallOwed
<1>10. Told'
    BY <1>1, <1>2, <1>8, <1>9 DEF Layered, Told
<1>11. SortieOnce'
    <2>1. CASE call.op = "sortie"
        BY <1>7, <1>8, <1>9, <2>1 DEF SortieOnce
    <2>2. CASE call.op = "stage"
        BY <1>7, <1>8, <2>2 DEF Layered, SortieOnce
    <2>3. CASE call.op \notin {"stage", "sortie"}
        BY <1>7, <1>8, <2>3 DEF Layered, SortieOnce
    <2> QED  BY <2>1, <2>2, <2>3
<1> QED  BY <1>3, <1>4, <1>5, <1>6, <1>10, <1>11 DEF Layered

LEMMA LayeredNext == Layered /\ [Next]_vars => Layered'
<1> SUFFICES ASSUME Layered, [Next]_vars PROVE Layered'
    OBVIOUS
<1>1. Fitting'
    BY FittingNext DEF Layered
<1>2. CASE UNCHANGED vars
    BY <1>1, <1>2 DEF vars, Layered, QueueFits, CallAimed, CallOwed, Back, Proven, Told,
        SortieOnce, Unplanned, Stands, Layer, ShownLayer, Queue, NoStage, AllStage
<1> QED  BY <1>1, <1>2, HandleLayered, PublishLayered, BeginLayered, EndLayered,
            DecidingLayered, CallRaisesLayered, AskingLayered, AimLayered, TapReturnsLayered,
            TapRaisesLateLayered DEF Next, Game

LEMMA AlwaysLayered == Spec => []Layered
<1>1. Init => Layered
    BY InitLayered
<1>2. Layered /\ [Next]_vars => Layered'
    BY LayeredNext
<1> QED  BY <1>1, <1>2, PTL DEF Spec

\* A proof tells what the game did: the pre-sortie proof that the invocation was
\* cancelled and the game is back at the chapter, with no stage tap left in the
\* queue that could open it again; the sortie proof that the battle was entered
\* by the invocation's one sortie.
THEOREM ProofsTell == Spec => []ProofsAreTrue
<1>1. Layered => ProofsAreTrue
    BY DEF Layered, Proven, Told, Back, QueueFits, ProofsAreTrue, Layer, ShownLayer
<1> QED  BY <1>1, AlwaysLayered, PTL

\* No sortie without the stage input of the same invocation, also when an
\* earlier invocation failed and left its panel open.
THEOREM SortiesFollowEntries == Spec => []SortieFollowsEntry
<1>1. Layered => SortieFollowsEntry
    BY DEF Layered, SortieOnce, SortieFollowsEntry, Fitting, TypeOK
<1> QED  BY <1>1, AlwaysLayered, PTL

(***************************************************************************)
(* The panel, in an invocation that entered the stage itself               *)
(***************************************************************************)

Entered == ctx # None /\ ctx.entry # 0 /\ caller = "running"
Panel   == Entered /\ Authorized /\ ShownLayer = "fleet"
Closers == {"option", "close"}

\* Once its fleets are authorized, the invocation can only leave the panel.
Left ==
    (ctx # None /\ ctx.entry # 0 /\ Authorized) =>
        \/ ShownLayer = "fleet" /\ Layer \in {"chapter", "fleet", "battle"}
        \/ ShownLayer = "chapter" /\ Layer = "chapter" /\ NoStage
        \/ ShownLayer = "battle" /\ Layer = "battle"

\* Until then nothing is on its way that could touch the selection: the panel of
\* an earlier invocation was closed before this one found its stage.
Unasked ==
    (Entered /\ ~Authorized /\ ShownLayer # "chapter") =>
        /\ \A i \in Queue : pending[i].op \in {"stage", "proceed", "cancel"}
        /\ game.dropdown = None
        /\ ShownLayer \in {"map", "fleet"}
        /\ Layer \in {"chapter", "map", "fleet"}
        /\ ShownLayer = "fleet" => Layer # "map"
        /\ ShownLayer = "fleet" /\ Layer = "fleet" => game.fleets = shown.game.fleets

Chosen == \A i \in Queue : pending[i].op \in Closers => pending[i].index # 0

\* One choice at a time: it closes the dropdown that is published as open, and
\* until that closing is published no other row can be opened.
Dropdown ==
    Panel =>
        /\ \A i, j \in Queue : pending[i].op \in Closers /\ pending[j].op \in Closers => i = j
        /\ \A i \in Queue : pending[i].op \in Closers =>
              game.dropdown # None /\ shown.game.dropdown # None /\ ctx.row = None
        /\ shown.game.dropdown # None /\ ctx.row # None =>
              game.dropdown = shown.game.dropdown

\* The receipts of a row's clear, and of a choice made after it.
ClearIn(s, r) == \E k \in 1..Len(s) : s[k] = Clear(r)
Once(s, r) == \A k, m \in 1..Len(s) : s[k] = Clear(r) /\ s[m] = Clear(r) => k = m
OptionSince(s, r) ==
    \E k, m \in 1..Len(s) : k < m /\ s[k] = Clear(r) /\ s[m].op = "option"

Clears(i, r) == pending[i].op = "clear" /\ pending[i].row = r

\* A row whose published number is not the game's: it was cleared, in this
\* invocation, or a dropdown is published as open.  As long as a row is cleared
\* once, a choice made after the clear stays behind it until both are published.
Mutating(r) ==
    /\ \A i \in Queue : Clears(i, r) => ClearIn(ctx.receipts, r)
    /\ ~ClearIn(ctx.receipts, r) /\ Layer # "chapter" /\ shown.game.fleets[r] # 0 =>
         game.fleets[r] # 0
    /\ Layer # "chapter" /\ shown.game.dropdown = None =>
         \/ game.fleets[r] = shown.game.fleets[r]
         \/ shown.game.fleets[r] # 0 /\ game.fleets[r] = 0
    /\ Once(ctx.receipts, r) =>
         /\ \A i, j \in Queue : Clears(i, r) /\ Clears(j, r) => i = j
         /\ \A i \in Queue : Clears(i, r) =>
              /\ shown.game.fleets[r] # 0
              /\ Layer # "chapter" => game.fleets[r] # 0
              /\ OptionSince(ctx.receipts, r) =>
                   \E j \in Queue : j > i /\ pending[j].op = "option"
         /\ (/\ Layer # "chapter" /\ shown.game.fleets[r] # 0 /\ game.fleets[r] = 0
             /\ OptionSince(ctx.receipts, r)) => shown.game.dropdown # None
Mutated == Panel => \A r \in Rows : Mutating(r)

\* The plan is the preflight's, or there is none.
Planned ==
    ctx # None =>
        \/ ctx.plan = <<>>
        \/ /\ Authorized /\ ctx.requested \in Requests
           /\ ctx.plan = Preflight(ctx.initial.fleets, ctx.requested).ops

\* A confirmed selection stays the game's.
Confirmed ==
    (Entered /\ ctx.prepared # None) =>
        /\ ctx.receipts = ctx.plan
        /\ \A i \in Queue : pending[i].op \notin {"option", "clear"}
        /\ Layer \in {"fleet", "battle"} => game.fleets = ctx.requested
        /\ ShownLayer = "fleet" =>
             /\ shown.game.fleets = ctx.requested
             /\ \A i \in Queue : pending[i].op = "close" =>
                   pending[i].index = ctx.requested[game.dropdown]

\* A call under way, for the panel and the selection it was asked for under.
CallHeld ==
    call.pc # "idle" =>
        /\ call.op \in Closers => call.index # 0
        /\ Panel /\ call.op \in Closers => ctx.row # None /\ shown.game.dropdown # None
        /\ Panel /\ call.op = "clear" /\ ~ClearIn(ctx.receipts, call.row) =>
              shown.game.fleets[call.row] # 0
        /\ Panel /\ call.pc = "tap" /\ call.op = "select" =>
              /\ \A i \in Queue : pending[i].op \notin Closers
              /\ shown.game.dropdown # None => game.dropdown = shown.game.dropdown
        /\ Entered /\ ctx.prepared # None =>
              /\ call.op \notin {"option", "clear"}
              /\ call.op = "close" /\ ShownLayer = "fleet" =>
                    call.index = ctx.requested[shown.game.dropdown]

\* A sortie in the queue, whatever became of its invocation.
SortieFits ==
    \A i \in Queue : pending[i].op = "sortie" =>
        /\ pending[i].wants = Qualified
        /\ Layer # "map"
        /\ Layer = "chapter" => \A j \in Queue : j <= i => pending[j].op # "stage"
        /\ Layer = "fleet" =>
             /\ game.fleets = Qualified
             /\ \A j \in Queue : j <= i => pending[j].op \notin {"option", "clear"}
             /\ \A j \in Queue : j <= i /\ pending[j].op = "close" =>
                   /\ game.dropdown # None
                   /\ pending[j].index = Qualified[game.dropdown]
             /\ \A j, k \in Queue : j <= i /\ k <= i /\ pending[j].op = "close"
                                    /\ pending[k].op = "close" => j = k

Held == /\ Layered /\ Left /\ Unasked /\ Chosen /\ Dropdown /\ Mutated /\ Planned
        /\ Confirmed /\ SortieFits /\ CallHeld

(***************************************************************************)
(* Plans clear a row once, and choose something after it if they are to    *)
(***************************************************************************)

LEMMA LongerOps ==
    ASSUME NEW s \in Seq(Mutations), NEW m \in Mutations
    PROVE  /\ Append(s, m) \in Seq(Mutations)
           /\ Len(s) \in Nat /\ Len(Append(s, m)) = Len(s) + 1
           /\ Append(s, m)[Len(s) + 1] = m
           /\ \A k \in 1..Len(s) : Append(s, m)[k] = s[k]
OBVIOUS

LEMMA ClearsDiffer ==
    /\ \A r, q : Clear(r) = Clear(q) => r = q
    /\ \A r, i : Clear(r) # Option(i)
    /\ \A r : Clear(r).op = "clear" /\ Clear(r).row = r
    /\ \A i : Option(i).op = "option"
<1>1. \A r : Clear(r).op = "clear" /\ Clear(r).row = r
    BY DEF Clear
<1>2. \A i : Option(i).op = "option"
    BY DEF Option
<1> QED  BY <1>1, <1>2

\* One clear more in a sequence of mutations.
LEMMA ClearMore ==
    ASSUME NEW s \in Seq(Mutations), NEW r \in Rows, NEW e, e = Append(s, Clear(r))
    PROVE  /\ ClearIn(e, r)
           /\ Once(e, r) => ~ClearIn(s, r) /\ ~OptionSince(e, r)
           /\ ~ClearIn(s, r) => Once(e, r)
           /\ \A q : q # r => /\ ClearIn(e, q) <=> ClearIn(s, q)
                              /\ Once(e, q) <=> Once(s, q)
                              /\ OptionSince(e, q) <=> OptionSince(s, q)
<1> DEFINE n == Len(s) + 1
<1>1. Clear(r) \in Mutations
    BY DEF Mutations
<1>2. /\ Len(s) \in Nat /\ Len(e) = n /\ e[n] = Clear(r)
      /\ \A k \in 1..Len(s) : e[k] = s[k]
    BY <1>1, LongerOps
<1>3. /\ n \in 1..Len(e) /\ n \notin 1..Len(s)
      /\ \A k \in 1..Len(e) : k \in 1..Len(s) \/ k = n
      /\ \A k \in 1..Len(s) : k \in 1..Len(e) /\ k < n /\ ~(n < k)
    BY <1>2
<1>a. \A q : e[n] = Clear(q) => q = r
    BY <1>2, ClearsDiffer
<1>b. e[n].op # "option"
    BY <1>2, ClearsDiffer
<1> HIDE DEF n
<1>4. ClearIn(e, r)
    BY <1>2, <1>3 DEF ClearIn
<1>5. Once(e, r) => ~ClearIn(s, r)
    BY <1>2, <1>3 DEF Once, ClearIn
<1>6. Once(e, r) => ~OptionSince(e, r)
    <2> SUFFICES ASSUME Once(e, r), OptionSince(e, r) PROVE FALSE
        OBVIOUS
    <2>1. PICK k \in 1..Len(e), m \in 1..Len(e) : k < m /\ e[k] = Clear(r) /\ e[m].op = "option"
        BY DEF OptionSince
    <2>2. k = n
        BY <1>2, <1>3, <2>1 DEF Once
    <2> QED  BY <1>3, <2>1, <2>2
<1>7. ~ClearIn(s, r) => Once(e, r)
    BY <1>2, <1>3 DEF Once, ClearIn
<1>8. ASSUME NEW q, q # r
      PROVE  /\ ClearIn(e, q) <=> ClearIn(s, q)
             /\ Once(e, q) <=> Once(s, q)
             /\ OptionSince(e, q) <=> OptionSince(s, q)
    <2>1. ClearIn(e, q) <=> ClearIn(s, q)
        BY <1>2, <1>3, <1>a, <1>8 DEF ClearIn
    <2>2. Once(e, q) <=> Once(s, q)
        BY <1>2, <1>3, <1>a, <1>8 DEF Once
    <2>3. OptionSince(e, q) <=> OptionSince(s, q)
        BY <1>2, <1>3, <1>a, <1>b, <1>8 DEF OptionSince
    <2> QED  BY <2>1, <2>2, <2>3
<1> QED  BY <1>4, <1>5, <1>6, <1>7, <1>8

\* One choice more.
LEMMA OptionMore ==
    ASSUME NEW s \in Seq(Mutations), NEW i \in Indices, NEW e, e = Append(s, Option(i)), NEW q
    PROVE  /\ ClearIn(e, q) <=> ClearIn(s, q)
           /\ Once(e, q) <=> Once(s, q)
           /\ OptionSince(e, q) <=> ClearIn(s, q)
<1> DEFINE n == Len(s) + 1
<1>1. Option(i) \in Mutations
    BY DEF Mutations
<1>2. /\ Len(s) \in Nat /\ Len(e) = n /\ e[n] = Option(i)
      /\ \A k \in 1..Len(s) : e[k] = s[k]
    BY <1>1, LongerOps
<1>3. /\ n \in 1..Len(e) /\ n \notin 1..Len(s)
      /\ \A k \in 1..Len(e) : k \in 1..Len(s) \/ k = n
      /\ \A k \in 1..Len(s) : k \in 1..Len(e) /\ k < n
    BY <1>2
<1>a. e[n] # Clear(q)
    BY <1>2, ClearsDiffer
<1>b. e[n].op = "option"
    BY <1>2, ClearsDiffer
<1> HIDE DEF n
<1>4. ClearIn(e, q) <=> ClearIn(s, q)
    BY <1>2, <1>3, <1>a DEF ClearIn
<1>5. Once(e, q) <=> Once(s, q)
    BY <1>2, <1>3, <1>a DEF Once
<1>6. OptionSince(e, q) <=> ClearIn(s, q)
    BY <1>2, <1>3, <1>a, <1>b DEF OptionSince, ClearIn
<1> QED  BY <1>4, <1>5, <1>6

Tidy(p) == \A r \in Rows : Once(p.ops, r) /\ (ClearIn(p.ops, r) => p.values[r] = 0)

LEMMA ClearedTidy ==
    ASSUME NEW p \in Plans, NEW r \in Rows, Tidy(p)
    PROVE  /\ Tidy(Cleared(p, r))
           /\ \A q \in Rows : ClearIn(Cleared(p, r).ops, q) => ClearIn(p.ops, q) \/ q = r
<1>1. CASE p.values[r] = 0
    BY <1>1 DEF Cleared
<1>2. CASE p.values[r] # 0
    <2>1. Cleared(p, r).ops = Append(p.ops, Clear(r)) /\ p.ops \in Seq(Mutations)
        BY <1>2 DEF Cleared, Plans
    <2>2. /\ Cleared(p, r).values[r] = 0
          /\ \A q \in Rows : q # r => Cleared(p, r).values[q] = p.values[q]
        BY <1>2 DEF Cleared, Plans, Selections
    <2>3. ~ClearIn(p.ops, r)
        BY <1>2 DEF Tidy
    <2> DEFINE e == Cleared(p, r).ops
    <2>4. e = Append(p.ops, Clear(r)) /\ p.ops \in Seq(Mutations)
        BY <2>1
    <2> HIDE DEF e
    <2>5. /\ Once(e, r)
          /\ \A q : q # r => /\ ClearIn(e, q) <=> ClearIn(p.ops, q)
                             /\ Once(e, q) <=> Once(p.ops, q)
        <3> DEFINE s == p.ops
        <3>1. e = Append(s, Clear(r)) /\ s \in Seq(Mutations) /\ ~ClearIn(s, r)
            BY <2>3, <2>4
        <3> HIDE DEF s
        <3>2. ~ClearIn(s, r) => Once(e, r)
            BY <3>1, ClearMore
        <3>3. ASSUME NEW q, q # r
              PROVE  (ClearIn(e, q) <=> ClearIn(s, q)) /\ (Once(e, q) <=> Once(s, q))
            BY <3>1, <3>3, ClearMore
        <3> QED  BY <3>1, <3>2, <3>3 DEF s
    <2>6. \A q \in Rows : Once(e, q) /\ (ClearIn(e, q) => Cleared(p, r).values[q] = 0)
        BY <2>2, <2>5 DEF Tidy
    <2>7. \A q \in Rows : ClearIn(e, q) => ClearIn(p.ops, q) \/ q = r
        BY <2>5
    <2> QED  BY <2>6, <2>7 DEF Tidy, e
<1> QED  BY <1>1, <1>2

LEMMA EnsuredTidy ==
    ASSUME NEW p \in Plans, NEW r \in Rows, NEW i \in Indices, Tidy(p), ~ClearIn(p.ops, r)
    PROVE  /\ Tidy(Ensured(p, r, i))
           /\ \A q \in Rows : ClearIn(Ensured(p, r, i).ops, q) => ClearIn(p.ops, q)
<1>1. CASE p.values[r] = i
    BY <1>1 DEF Ensured
<1>2. CASE p.values[r] # i
    <2>1. Ensured(p, r, i).ops = Append(p.ops, Option(i)) /\ p.ops \in Seq(Mutations)
        BY <1>2 DEF Ensured, Plans
    <2>2. \A q \in Rows : q # r => Ensured(p, r, i).values[q] = p.values[q]
        BY <1>2 DEF Ensured, Plans, Selections
    <2> DEFINE e == Ensured(p, r, i).ops
    <2>4. e = Append(p.ops, Option(i)) /\ p.ops \in Seq(Mutations)
        BY <2>1
    <2> HIDE DEF e
    <2>5. \A q : (ClearIn(e, q) <=> ClearIn(p.ops, q)) /\ (Once(e, q) <=> Once(p.ops, q))
        <3> DEFINE s == p.ops
        <3>1. e = Append(s, Option(i)) /\ s \in Seq(Mutations)
            BY <2>4
        <3> HIDE DEF s
        <3>2. ASSUME NEW q
              PROVE  (ClearIn(e, q) <=> ClearIn(s, q)) /\ (Once(e, q) <=> Once(s, q))
            BY <3>1, OptionMore
        <3> QED  BY <3>2 DEF s
    <2>6. \A q \in Rows : Once(e, q) /\ (ClearIn(e, q) => Ensured(p, r, i).values[q] = 0)
        BY <2>2, <2>5 DEF Tidy
    <2> QED  BY <2>5, <2>6 DEF Tidy, e
<1> QED  BY <1>1, <1>2

LEMMA PlanClears ==
    ASSUME NEW initial \in Selections, NEW request \in Selections, request["fleet1"] # 0,
           NEW r \in Rows
    PROVE  LET plan == Preflight(initial, request).ops IN
           /\ Once(plan, r)
           /\ ClearIn(plan, r) /\ request[r] # 0 => OptionSince(plan, r)
<1> DEFINE sub   == request["submarine"]
           start == [values |-> initial, ops |-> <<>>]
           off   == Cleared(start, "fleet2")
           subs  == IF ~AllowsSubmarine THEN start
                    ELSE IF sub # 0 THEN Ensured(off, "submarine", sub)
                         ELSE Cleared(off, "submarine")
           none  == Cleared(subs, "fleet2")
           one   == Ensured(none, "fleet1", request["fleet1"])
           two   == IF request["fleet2"] = 0 THEN one
                    ELSE Ensured(one, "fleet2", request["fleet2"])
           last  == IF AllowsSubmarine /\ sub = 0 THEN Cleared(two, "submarine") ELSE two
           only(p) == \A q \in Rows :
                        ClearIn(p.ops, q) => q = "fleet2" \/ (q = "submarine" /\ sub = 0)
<1>0. Preflight(initial, request) = last
    BY DEF Preflight
<1>1. /\ "fleet1" \in Rows /\ "fleet2" \in Rows /\ "submarine" \in Rows
      /\ request["fleet1"] \in Indices
      /\ request["fleet2"] # 0 => request["fleet2"] \in Indices
      /\ sub # 0 => sub \in Indices
    BY DEF Rows, Selections
<1>2. start \in Plans /\ Tidy(start) /\ only(start) /\ \A q \in Rows : ~ClearIn(start.ops, q)
    BY DEF Plans, Tidy, Once, ClearIn
<1>3. off \in Plans /\ Tidy(off) /\ \A q \in Rows : ClearIn(off.ops, q) => q = "fleet2"
    <2> HIDE DEF start
    <2> QED  BY <1>1, <1>2, ClearedFacts, ClearedTidy
<1> HIDE DEF start, off
<1>4. /\ subs \in Plans /\ Tidy(subs) /\ only(subs)
      /\ AllowsSubmarine /\ sub = 0 => subs.values["submarine"] = 0
    <2>1. CASE ~AllowsSubmarine
        BY <2>1, <1>2
    <2>2. CASE AllowsSubmarine /\ sub # 0
        <3>1. sub \in Indices /\ subs = Ensured(off, "submarine", sub) /\ sub # 0
            BY <2>2, <1>1
        <3>2. ~ClearIn(off.ops, "submarine")
            BY <1>1, <1>3
        <3> HIDE DEF subs, sub
        <3>3. subs \in Plans /\ Tidy(subs)
              /\ \A q \in Rows : ClearIn(subs.ops, q) => ClearIn(off.ops, q)
            BY <3>1, <3>2, <1>1, <1>3, EnsuredFacts, EnsuredTidy
        <3> QED  BY <3>1, <3>3, <1>3
    <2>3. CASE AllowsSubmarine /\ sub = 0
        <3>1. subs = Cleared(off, "submarine") /\ sub = 0
            BY <2>3
        <3> HIDE DEF subs, sub
        <3>2. /\ subs \in Plans /\ Tidy(subs)
              /\ subs.values = [off.values EXCEPT !["submarine"] = 0]
              /\ \A q \in Rows : ClearIn(subs.ops, q) => ClearIn(off.ops, q) \/ q = "submarine"
            BY <3>1, <1>1, <1>3, ClearedFacts, ClearedTidy
        <3>3. subs.values["submarine"] = 0
            BY <3>2, <1>1, <1>3 DEF Plans, Selections
        <3> QED  BY <3>1, <3>2, <3>3, <1>3
    <2> QED  BY <2>1, <2>2, <2>3
<1> HIDE DEF subs
<1>5. /\ none \in Plans /\ Tidy(none) /\ only(none)
      /\ none.values["fleet2"] = 0
      /\ AllowsSubmarine /\ sub = 0 => none.values["submarine"] = 0
    <2>1. /\ none \in Plans /\ Tidy(none)
          /\ none.values = [subs.values EXCEPT !["fleet2"] = 0]
          /\ \A q \in Rows : ClearIn(none.ops, q) => ClearIn(subs.ops, q) \/ q = "fleet2"
        BY <1>1, <1>4, ClearedFacts, ClearedTidy
    <2>2. none.values["fleet2"] = 0 /\ none.values["submarine"] = subs.values["submarine"]
        BY <2>1, <1>1, <1>4 DEF Plans, Selections
    <2> HIDE DEF none, sub
    <2> QED  BY <2>1, <2>2, <1>4
<1> HIDE DEF none
<1>6. /\ one \in Plans /\ Tidy(one) /\ only(one)
      /\ one.values["fleet2"] = 0
      /\ AllowsSubmarine /\ sub = 0 => one.values["submarine"] = 0
    <2>1. ~ClearIn(none.ops, "fleet1")
        BY <1>1, <1>5
    <2>2. /\ one \in Plans /\ Tidy(one)
          /\ one.values = [none.values EXCEPT !["fleet1"] = request["fleet1"]]
          /\ \A q \in Rows : ClearIn(one.ops, q) => ClearIn(none.ops, q)
        BY <2>1, <1>1, <1>5, EnsuredFacts, EnsuredTidy
    <2>3. one.values["fleet2"] = 0 /\ one.values["submarine"] = none.values["submarine"]
        BY <2>2, <1>1, <1>5 DEF Plans, Selections
    <2> HIDE DEF one, sub
    <2> QED  BY <2>2, <2>3, <1>5
<1> HIDE DEF one
<1>7. /\ Once(two.ops, r)
      /\ ClearIn(two.ops, r) /\ request[r] # 0 => OptionSince(two.ops, r)
      /\ AllowsSubmarine /\ sub = 0 => two.values["submarine"] = 0
    <2>1. CASE request["fleet2"] = 0
        <3>1. two = one
            BY <2>1
        <3> HIDE DEF two
        <3>2. Once(one.ops, r)
            BY <1>6 DEF Tidy
        <3>3. ClearIn(one.ops, r) => r = "fleet2" \/ (r = "submarine" /\ sub = 0)
            BY <1>6
        <3>4. ClearIn(one.ops, r) => request[r] = 0
            BY <2>1, <3>3
        <3>5. AllowsSubmarine /\ sub = 0 => two.values["submarine"] = 0
            BY <3>1, <1>6
        <3>6. two.ops = one.ops
            BY <3>1
        <3> QED  BY <3>2, <3>4, <3>5, <3>6
    <2>2. CASE request["fleet2"] # 0
        <3>1. two = Ensured(one, "fleet2", request["fleet2"]) /\ request["fleet2"] \in Indices
            BY <2>2, <1>1
        <3>2. /\ two.ops = Append(one.ops, Option(request["fleet2"]))
              /\ two.values["submarine"] = one.values["submarine"]
              /\ one.ops \in Seq(Mutations)
            BY <3>1, <2>2, <1>1, <1>6 DEF Ensured, Plans, Selections
        <3> HIDE DEF two
        <3>3. Once(one.ops, r)
            BY <1>6 DEF Tidy
        <3>4. /\ Once(two.ops, r)
              /\ ClearIn(two.ops, r) => OptionSince(two.ops, r)
            BY <3>1, <3>2, <3>3, OptionMore
        <3>5. AllowsSubmarine /\ sub = 0 => two.values["submarine"] = 0
            BY <3>2, <1>6
        <3> QED  BY <3>4, <3>5
    <2> QED  BY <2>1, <2>2
<1>8. last.ops = two.ops
    <2> HIDE DEF two
    <2> QED  BY <1>7 DEF Cleared
<1> HIDE DEF last
<1> QED  BY <1>0, <1>7, <1>8

(***************************************************************************)
(* What a tap does to the panel                                            *)
(***************************************************************************)

LEMMA EffectCases ==
    ASSUME NEW g \in Games, NEW t \in Taps, NEW h, h = Effect(g, t), Stands(g)
    PROVE  /\ t.op = "stage" => h.dropdown = g.dropdown /\ h.fleets = g.fleets
           /\ t.op = "proceed" => /\ h.dropdown = g.dropdown /\ h.fleets = g.fleets
                                  /\ h = g \/ (g.layer = "map" /\ h.layer = "fleet")
           /\ t.op = "select" => /\ h.layer = g.layer /\ h.fleets = g.fleets
                                 /\ h = g \/ OnPanel(g)
           /\ t.op = "clear" => h.layer = g.layer /\ h.dropdown = g.dropdown
           /\ t.op \in Closers => /\ h.layer = g.layer /\ h.dropdown = None
                                  /\ g.dropdown = None => h = g
           /\ t.op = "sortie" => /\ h.dropdown = g.dropdown /\ h.fleets = g.fleets
                                 /\ h = g \/ (OnPanel(g) /\ h.layer = "battle")
           /\ t.op = "cancel" => /\ h.dropdown = g.dropdown
                                 /\ h = g \/ h.layer = "chapter"
           /\ g.layer # "battle" /\ h.layer = "battle" => t.op = "sortie" /\ g.layer = "fleet"
BY DEF Effect, Stands, OnPanel, Games, Closers, Layers

LEMMA EffectRow ==
    ASSUME NEW g \in Games, NEW t \in Taps, NEW h, h = Effect(g, t), Stands(g),
           NEW r \in Rows, t.op = "clear" => t.row \in Rows
    PROVE  \/ h.fleets[r] = g.fleets[r]
           \/ t.op = "clear" /\ t.row = r /\ h.fleets[r] = 0
           \/ t.op \in Closers /\ g.dropdown = r /\ h.fleets[r] = t.index
           \/ t.op = "cancel" /\ h.layer = "chapter"
<1>1. g.fleets \in [Rows -> {0} \union Indices] /\ (g.dropdown # None => g.dropdown \in Rows)
    BY DEF Games, Selections, Maybe
<1>2. CASE t.op = "clear"
    <2>1. h = [g EXCEPT !.fleets[t.row] = 0] \/ h = g
        BY <1>2 DEF Effect
    <2> QED  BY <1>1, <1>2, <2>1 DEF Games
<1>3. CASE t.op \in Closers
    <2>1. \/ g.dropdown # None /\ h = [g EXCEPT !.fleets[g.dropdown] = t.index, !.dropdown = None]
          \/ h = g
        BY <1>3 DEF Effect, Closers
    <2>2. CASE h = g
        BY <2>2
    <2>3. CASE g.dropdown # None
               /\ h = [g EXCEPT !.fleets[g.dropdown] = t.index, !.dropdown = None]
        <3>1. h.fleets = [g.fleets EXCEPT ![g.dropdown] = t.index]
            BY <2>3 DEF Games
        <3> QED  BY <1>1, <1>3, <2>3, <3>1
    <2> QED  BY <2>1, <2>2, <2>3
<1>4. CASE t.op \notin {"clear"} \union Closers
    BY <1>4, EffectCases DEF Inputs, Taps, Closers
<1> QED  BY <1>2, <1>3, <1>4

\* A step that leaves the game, the publication and the queue alone, and of the
\* context what the panel depends on.
LEMMA StillHeld ==
    ASSUME Held, UNCHANGED <<game, shown, pending>>,
           caller' = "running" => caller = "running",
           ctx' # None => /\ ctx # None /\ ctx'.entry = ctx.entry
                          /\ ctx'.initial = ctx.initial /\ ctx'.requested = ctx.requested
                          /\ ctx'.plan = ctx.plan /\ ctx'.receipts = ctx.receipts
                          /\ ctx'.row \in {ctx.row, None}
    PROVE  /\ Left' /\ Unasked' /\ Chosen' /\ Dropdown' /\ Mutated' /\ Planned'
           /\ SortieFits'
           /\ (ctx' # None => ctx'.prepared = ctx.prepared) => Confirmed'
           /\ (Entered' => Entered) /\ (Panel' => Panel)
<1>1. /\ ShownLayer' = ShownLayer /\ Layer' = Layer /\ Queue' = Queue /\ NoStage' = NoStage
      /\ game' = game /\ shown' = shown /\ pending' = pending
    BY DEF ShownLayer, Layer, Queue, NoStage
<1>2. (Entered' => Entered) /\ (Panel' => Panel)
    BY <1>1 DEF Entered, Panel, Authorized
<1>3. Left'
    BY <1>1 DEF Held, Left, Authorized
<1>4. Unasked'
    BY <1>1, <1>2 DEF Held, Unasked, Authorized, Entered
<1>5. Chosen'
    BY <1>1 DEF Held, Chosen
<1>6. Dropdown'
    BY <1>1, <1>2 DEF Held, Dropdown, Panel, Entered
<1>7. Mutated'
    <2> SUFFICES ASSUME Panel', NEW r \in Rows PROVE Mutating(r)'
        BY DEF Mutated
    <2>1. Mutating(r) /\ ctx'.receipts = ctx.receipts
        BY <1>2 DEF Held, Mutated, Panel, Entered
    <2> QED  BY <1>1, <2>1 DEF Mutating, Clears
<1>8. Planned'
    BY DEF Held, Planned, Authorized
<1>9. (ctx' # None => ctx'.prepared = ctx.prepared) => Confirmed'
    BY <1>1, <1>2 DEF Held, Confirmed, Entered
<1>10. SortieFits'
    BY <1>1 DEF Held, SortieFits
<1> QED  BY <1>2, <1>3, <1>4, <1>5, <1>6, <1>7, <1>8, <1>9, <1>10

LEMMA InitHeld == Init => Held
<1> SUFFICES ASSUME Init PROVE Held
    OBVIOUS
<1>1. Layered
    BY InitLayered
<1> QED  BY <1>1 DEF Init, Held, Left, Unasked, Chosen, Dropdown, Mutated, Planned, Confirmed,
              SortieFits, CallHeld, Entered, Panel, Queue, NoCall

LEMMA BeginHeld ==
    ASSUME Held, Begin, Layered'
    PROVE  Held'
<1>1. /\ UNCHANGED <<game, shown, pending>> /\ call'.pc = "idle"
      /\ ctx'.entry = 0 /\ ctx'.plan = <<>>
    BY DEF Begin, gameVars, NoCall
<1>2. ~Entered' /\ ~Panel'
    BY <1>1 DEF Entered, Panel
<1>3. SortieFits' /\ Chosen'
    BY <1>1 DEF Held, SortieFits, Chosen, Layer, Queue
<1>4. Left' /\ Unasked' /\ Dropdown' /\ Mutated' /\ Planned' /\ Confirmed' /\ CallHeld'
    BY <1>1, <1>2 DEF Left, Unasked, Dropdown, Mutated, Planned, Confirmed, CallHeld
<1> QED  BY <1>3, <1>4 DEF Held

LEMMA EndHeld ==
    ASSUME Held, End, Layered'
    PROVE  Held'
<1>1. UNCHANGED <<game, shown, pending>> /\ call'.pc = "idle" /\ ctx' = None /\ caller' = caller
    BY DEF End, gameVars, NoCall
<1> QED  BY <1>1, StillHeld DEF Held, CallHeld

LEMMA CallRaisesHeld ==
    ASSUME Held, CallRaises, Layered'
    PROVE  Held'
<1>1. /\ UNCHANGED <<game, shown, pending>> /\ call'.pc = "idle" /\ ctx' = ctx
      /\ caller' # "running"
    BY DEF CallRaises, gameVars, NoCall, AfterRaise
<1> QED  BY <1>1, StillHeld DEF Held, CallHeld

LEMMA AimHeld ==
    ASSUME Held, Aim, Layered'
    PROVE  Held'
<1>1. /\ UNCHANGED <<game, shown, pending, ctx, caller>>
      /\ call.pc = "aim" /\ Visible(call.op)
      /\ call' = [call EXCEPT !.pc = "tap", !.gen = shown.gen] /\ call \in Calls
    BY DEF Aim, gameVars, Held, Layered, Fitting, TypeOK
<1>2. /\ call'.op = call.op /\ call'.row = call.row /\ call'.index = call.index
    BY <1>1 DEF Calls
<1>3. /\ Left' /\ Unasked' /\ Chosen' /\ Dropdown' /\ Mutated' /\ Planned'
      /\ Confirmed' /\ SortieFits'
    BY <1>1, StillHeld
<1>4. /\ (Entered' <=> Entered) /\ (Panel' <=> Panel) /\ ShownLayer' = ShownLayer
      /\ Queue' = Queue /\ pending' = pending /\ shown' = shown /\ game' = game /\ ctx' = ctx
    BY <1>1 DEF Entered, Panel, Authorized, ShownLayer, Queue
<1>5. ASSUME Panel, call.op = "select"
      PROVE  /\ \A i \in Queue : pending[i].op \notin Closers
             /\ shown.game.dropdown = None
    <2>1. shown.game.dropdown = None
        BY <1>1, <1>5 DEF Visible, OnPanel
    <2> QED  BY <2>1, <1>5 DEF Held, Dropdown
<1>6. CallHeld'
    BY <1>1, <1>2, <1>4, <1>5 DEF Held, CallHeld
<1> QED  BY <1>3, <1>6 DEF Held

\* What both halves of HandleHeld start from.
LEMMA HandleFacts ==
    ASSUME Held, Handle
    PROVE  LET t == pending[1] IN
           /\ t \in Taps /\ game \in Games /\ Stands(game) /\ game' = Effect(game, t)
           /\ UNCHANGED <<saved, shown, ctx, call, caller, invocations, delivered>>
           /\ t.op = "cancel" => t.row \in {"map", "fleet"}
           /\ t.op = "clear" => t.row \in Rows
           /\ 1 \in Queue
           /\ \A i \in Queue' :
                i \in Nat /\ 1 < i + 1 /\ i + 1 \in Queue /\ pending'[i] = pending[i + 1]
           /\ Queue \subseteq Nat
           /\ \A i \in Queue : i # 1 => i - 1 \in Queue' /\ (i - 1) + 1 = i
<1>1. /\ game \in Games /\ pending \in Seq(Taps) /\ pending # <<>>
      /\ game' = Effect(game, Head(pending)) /\ pending' = Tail(pending)
      /\ UNCHANGED <<saved, shown, ctx, call, caller, invocations, delivered>>
    BY DEF Handle, Held, Layered, Fitting, TypeOK
<1>2. /\ Head(pending) = pending[1] /\ pending[1] \in Taps /\ 1 \in Queue
      /\ \A i \in Queue' : i \in Nat /\ i + 1 \in Queue /\ pending'[i] = pending[i + 1]
    BY <1>1, Shifted DEF Queue
<1>3. \A i \in Queue' : 1 < i + 1
    BY DEF Queue
<1>4. Queue \subseteq Nat /\ \A i \in Queue : i # 1 => i - 1 \in Queue' /\ (i - 1) + 1 = i
    BY <1>1 DEF Queue
<1>5. Stands(game)
    BY DEF Held, Layered, QueueFits
<1>6. pending[1].op = "cancel" => pending[1].row \in {"map", "fleet"}
    BY <1>2 DEF Held, Layered, QueueFits
<1>7. pending[1].op = "clear" => pending[1].row \in Rows
    BY <1>2 DEF Held, Layered, Fitting, TapsFit, Queue
<1> QED  BY <1>1, <1>2, <1>3, <1>4, <1>5, <1>6, <1>7

LEMMA HandleMutating ==
    ASSUME Held, Handle, Panel, NEW r \in Rows
    PROVE  Mutating(r)'
<1> DEFINE t == pending[1]
<1>1. /\ t \in Taps /\ game \in Games /\ Stands(game) /\ game' = Effect(game, t)
      /\ shown' = shown /\ ctx' = ctx /\ 1 \in Queue
      /\ \A i \in Queue' :
           i \in Nat /\ 1 < i + 1 /\ i + 1 \in Queue /\ pending'[i] = pending[i + 1]
      /\ Queue \subseteq Nat
      /\ \A i \in Queue : i # 1 => i - 1 \in Queue' /\ (i - 1) + 1 = i
      /\ t.op = "clear" => t.row \in Rows
      /\ t.op = "cancel" => t.row \in {"map", "fleet"}
    BY HandleFacts
<1>2. Mutating(r)
    BY DEF Held, Mutated
<1>a. \A i \in Queue' : i + 1 \in Queue /\ (Clears(i, r)' <=> Clears(i + 1, r))
    BY <1>1 DEF Clears
<1>3. \/ game'.fleets[r] = game.fleets[r]
      \/ Clears(1, r) /\ game'.fleets[r] = 0
      \/ t.op \in Closers /\ game'.fleets[r] = t.index
      \/ Layer' = "chapter"
    <2> DEFINE h == game'
    <2>0. h = Effect(game, t)
        BY <1>1
    <2> HIDE DEF t, h
    <2>1. \/ h.fleets[r] = game.fleets[r]
          \/ t.op = "clear" /\ t.row = r /\ h.fleets[r] = 0
          \/ t.op \in Closers /\ game.dropdown = r /\ h.fleets[r] = t.index
          \/ t.op = "cancel" /\ h.layer = "chapter"
        BY <1>1, <2>0, EffectRow
    <2> QED  BY <2>1 DEF t, h, Clears, Layer
<1>4. t.op \in Closers => t.index # 0 /\ shown.game.dropdown # None
    BY <1>1 DEF Held, Chosen, Dropdown
<1>5. Layer' # "chapter" => Layer # "chapter"
    <2>1. Layer = "chapter" => NoStage
        BY DEF Held, Layered, QueueFits, Panel
    <2>2. Layer = "chapter" => Effect(game, t).layer = "chapter"
        <3> HIDE DEF t
        <3>1. Layer = "chapter" => t.op # "stage"
            BY <1>1, <2>1 DEF NoStage, t
        <3> QED  BY <1>1, <3>1, EffectLayer DEF Layer
    <2> QED  BY <1>1, <2>2 DEF Layer
<1>6. \A i \in Queue' : Clears(i, r)' => ClearIn(ctx.receipts, r)
    BY <1>2, <1>a DEF Mutating
<1>7. (~ClearIn(ctx.receipts, r) /\ Layer' # "chapter" /\ shown.game.fleets[r] # 0)
          => game'.fleets[r] # 0
    BY <1>1, <1>2, <1>3, <1>4, <1>5 DEF Mutating
<1>8. (Layer' # "chapter" /\ shown.game.dropdown = None) =>
         \/ game'.fleets[r] = shown.game.fleets[r]
         \/ shown.game.fleets[r] # 0 /\ game'.fleets[r] = 0
    BY <1>1, <1>2, <1>3, <1>4, <1>5 DEF Mutating
<1> SUFFICES ASSUME Once(ctx.receipts, r)
             PROVE  /\ \A i, j \in Queue' : Clears(i, r)' /\ Clears(j, r)' => i = j
                    /\ \A i \in Queue' : Clears(i, r)' =>
                         /\ shown.game.fleets[r] # 0
                         /\ Layer' # "chapter" => game'.fleets[r] # 0
                         /\ OptionSince(ctx.receipts, r) =>
                              \E j \in Queue' : j > i /\ pending'[j].op = "option"
                    /\ (/\ Layer' # "chapter" /\ shown.game.fleets[r] # 0
                        /\ game'.fleets[r] = 0 /\ OptionSince(ctx.receipts, r)) =>
                            shown.game.dropdown # None
    BY <1>1, <1>6, <1>7, <1>8 DEF Mutating
<1>9. ASSUME NEW i \in Queue', NEW j \in Queue', Clears(i, r)', Clears(j, r)'
      PROVE  i = j
    <2>1. i + 1 = j + 1 /\ i \in Nat /\ j \in Nat
        BY <1>1, <1>2, <1>9, <1>a DEF Mutating
    <2> QED  BY <2>1
<1>10. ASSUME NEW i \in Queue', Clears(i, r)'
       PROVE  /\ shown.game.fleets[r] # 0
              /\ Layer' # "chapter" => game'.fleets[r] # 0
              /\ OptionSince(ctx.receipts, r) =>
                   \E j \in Queue' : j > i /\ pending'[j].op = "option"
    <2>1. /\ i + 1 \in Queue /\ Clears(i + 1, r) /\ i + 1 # 1 /\ i \in Nat
        BY <1>1, <1>10, <1>a
    <2>2. ~Clears(1, r)
        BY <1>1, <1>2, <2>1 DEF Mutating
    <2>3. /\ shown.game.fleets[r] # 0
          /\ Layer # "chapter" => game.fleets[r] # 0
          /\ OptionSince(ctx.receipts, r) =>
               \E j \in Queue : j > i + 1 /\ pending[j].op = "option"
        BY <1>2, <2>1 DEF Mutating
    <2>4. Layer' # "chapter" => game'.fleets[r] # 0
        BY <1>3, <1>4, <1>5, <2>2, <2>3
    <2>5. ASSUME OptionSince(ctx.receipts, r)
          PROVE  \E j \in Queue' : j > i /\ pending'[j].op = "option"
        <3>1. PICK j \in Queue : j > i + 1 /\ pending[j].op = "option"
            BY <2>3, <2>5
        <3>2. j \in Nat /\ j # 1
            BY <1>1, <2>1, <3>1
        <3>3. j - 1 \in Queue' /\ (j - 1) + 1 = j
            BY <1>1, <3>2
        <3>4. j - 1 > i /\ pending'[j - 1] = pending[j]
            BY <1>1, <2>1, <3>1, <3>2, <3>3
        <3> QED  BY <3>1, <3>3, <3>4
    <2> QED  BY <2>3, <2>4, <2>5
<1>11. ASSUME Layer' # "chapter", shown.game.fleets[r] # 0, game'.fleets[r] = 0,
              OptionSince(ctx.receipts, r)
       PROVE  shown.game.dropdown # None
    <2>1. CASE game'.fleets[r] = game.fleets[r]
        BY <1>2, <1>5, <1>11, <2>1 DEF Mutating
    <2>2. CASE Clears(1, r)
        <3>1. PICK j \in Queue : pending[j].op = "option"
            BY <1>1, <1>2, <1>11, <2>2 DEF Mutating
        <3> QED  BY <3>1 DEF Held, Dropdown, Closers
    <2>3. CASE t.op \in Closers
        BY <1>4, <2>3
    <2> QED  BY <1>3, <1>11, <2>1, <2>2, <2>3
<1> QED  BY <1>9, <1>10, <1>11

LEMMA HandleSorties ==
    ASSUME Held, Handle
    PROVE  SortieFits'
<1> DEFINE t == pending[1]
<1>1. /\ t \in Taps /\ game \in Games /\ Stands(game) /\ game' = Effect(game, t)
      /\ shown' = shown /\ 1 \in Queue
      /\ \A i \in Queue' :
           i \in Nat /\ 1 < i + 1 /\ i + 1 \in Queue /\ pending'[i] = pending[i + 1]
      /\ Queue \subseteq Nat
      /\ t.op = "clear" => t.row \in Rows
      /\ t.op = "cancel" => t.row \in {"map", "fleet"}
    BY HandleFacts
<1> HIDE DEF t
<1> SUFFICES ASSUME NEW i \in Queue', pending'[i].op = "sortie"
             PROVE  /\ pending'[i].wants = Qualified
                    /\ Layer' # "map"
                    /\ Layer' = "chapter" =>
                         \A j \in Queue' : j <= i => pending'[j].op # "stage"
                    /\ Layer' = "fleet" =>
                         /\ game'.fleets = Qualified
                         /\ \A j \in Queue' : j <= i => pending'[j].op \notin {"option", "clear"}
                         /\ \A j \in Queue' : j <= i /\ pending'[j].op = "close" =>
                               /\ game'.dropdown # None
                               /\ pending'[j].index = Qualified[game'.dropdown]
                         /\ \A j, k \in Queue' :
                               j <= i /\ k <= i /\ pending'[j].op = "close"
                               /\ pending'[k].op = "close" => j = k
    BY DEF SortieFits
<1>2. /\ i + 1 \in Queue /\ pending[i + 1].op = "sortie" /\ pending'[i] = pending[i + 1]
      /\ 1 <= i + 1 /\ i \in Nat
    BY <1>1
<1>3. /\ pending[i + 1].wants = Qualified
      /\ Layer # "map"
      /\ Layer = "chapter" => \A j \in Queue : j <= i + 1 => pending[j].op # "stage"
      /\ Layer = "fleet" =>
           /\ game.fleets = Qualified
           /\ \A j \in Queue : j <= i + 1 => pending[j].op \notin {"option", "clear"}
           /\ \A j \in Queue : j <= i + 1 /\ pending[j].op = "close" =>
                 /\ game.dropdown # None
                 /\ pending[j].index = Qualified[game.dropdown]
           /\ \A j, k \in Queue : j <= i + 1 /\ k <= i + 1 /\ pending[j].op = "close"
                                  /\ pending[k].op = "close" => j = k
    BY <1>2 DEF Held, SortieFits
<1>4. ASSUME NEW j \in Queue', j <= i
      PROVE  j + 1 \in Queue /\ j + 1 <= i + 1 /\ j + 1 # 1 /\ pending'[j] = pending[j + 1]
    BY <1>1, <1>4
<1>5. CASE Layer = "chapter"
    <2>1. t.op # "stage"
        BY <1>1, <1>2, <1>3, <1>5 DEF t
    <2>2. Layer' = "chapter"
        BY <1>1, <1>5, <2>1, EffectLayer DEF Layer
    <2> QED  BY <1>2, <1>3, <1>4, <1>5, <2>2
<1>6. CASE Layer = "battle"
    <2>1. Layer' = "battle"
        BY <1>1, <1>6, EffectLayer DEF Layer
    <2> QED  BY <1>2, <1>3, <2>1
<1>7. CASE Layer = "fleet"
    <2>a. ASSUME NEW j \in Queue', j <= i
          PROVE  /\ pending'[j].op \notin {"option", "clear"}
                 /\ pending'[j].op = "close" =>
                      /\ game.dropdown # None
                      /\ pending'[j].index = Qualified[game.dropdown]
        BY <1>3, <1>4, <1>7, <2>a
    <2>b. ASSUME NEW j \in Queue', NEW k \in Queue', j <= i, k <= i,
                 pending'[j].op = "close", pending'[k].op = "close"
          PROVE  j = k
        <3>1. j + 1 = k + 1
            BY <1>3, <1>4, <1>7, <2>b
        <3> QED  BY <1>1, <3>1
    <2>c. game.fleets = Qualified /\ pending'[i].wants = Qualified
        BY <1>2, <1>3, <1>7
    <2>1. t.op \notin {"option", "clear"}
        BY <1>1, <1>2, <1>3, <1>7 DEF t
    <2>2. CASE t.op = "stage"
        <3>1. game' = game
            BY <1>1, <1>7, <2>2, EffectLayer DEF Layer
        <3> QED  BY <1>7, <2>a, <2>b, <2>c, <3>1 DEF Layer
    <2>3. CASE t.op = "proceed"
        <3>1. game' = game
            BY <1>1, <1>7, <2>3, EffectCases DEF Layer
        <3> QED  BY <1>7, <2>a, <2>b, <2>c, <3>1 DEF Layer
    <2>4. CASE t.op = "cancel"
        <3>1. game' = game \/ Layer' = "chapter"
            BY <1>1, <2>4, EffectCases DEF Layer
        <3>2. CASE game' = game
            BY <1>7, <2>a, <2>b, <2>c, <3>2 DEF Layer
        <3>3. CASE Layer' = "chapter"
            <4>1. ShownLayer # "chapter"
                BY <1>7 DEF Held, Layered, QueueFits
            <4>2. ASSUME NEW j \in Queue', j <= i PROVE pending'[j].op # "stage"
                <5>1. j + 1 \in Queue /\ 1 < j + 1 /\ pending'[j] = pending[j + 1]
                    BY <1>1
                <5> QED  BY <1>1, <2>4, <4>1, <5>1 DEF Held, Layered, QueueFits, t
            <4> QED  BY <1>2, <1>3, <3>3, <4>2
        <3> QED  BY <3>1, <3>2, <3>3
    <2>5. CASE t.op = "sortie"
        <3>1. game' = game \/ Layer' = "battle"
            BY <1>1, <2>5, EffectCases DEF Layer
        <3>2. CASE game' = game
            BY <1>7, <2>a, <2>b, <2>c, <3>2 DEF Layer
        <3> QED  BY <1>2, <1>3, <3>1, <3>2
    <2>6. CASE t.op = "select"
        <3>1. /\ Layer' = Layer /\ game'.fleets = game.fleets
              /\ game' = game \/ game.dropdown = None
            BY <1>1, <2>6, EffectCases DEF Layer, OnPanel
        <3> QED  BY <1>7, <2>a, <2>b, <2>c, <3>1
    <2>7. CASE t.op = "close"
        <3>1. /\ game.dropdown # None /\ t.index = Qualified[game.dropdown]
              /\ 1 <= i + 1
            BY <1>1, <1>2, <1>3, <1>7, <2>7 DEF t
        <3>2. \A j \in Queue' : j <= i => pending'[j].op # "close"
            BY <1>1, <1>2, <1>3, <1>4, <1>7, <2>7 DEF t
        <3>3. Layer' = Layer
            BY <1>1, <2>7, EffectCases DEF Layer, Closers
        <3>4. game'.fleets = game.fleets
            <4>1. game' = [game EXCEPT !.fleets[game.dropdown] = t.index, !.dropdown = None]
                BY <1>1, <2>7, <3>1 DEF Effect
            <4>2. game.fleets = Qualified /\ game.fleets \in [Rows -> {0} \union Indices]
                BY <1>1, <1>3, <1>7 DEF Games, Selections
            <4> QED  BY <1>1, <3>1, <4>1, <4>2 DEF Games
        <3> QED  BY <1>7, <2>a, <2>b, <2>c, <3>2, <3>3, <3>4
    <2> QED  BY <1>1, <2>1, <2>2, <2>3, <2>4, <2>5, <2>6, <2>7 DEF Taps, Inputs
<1>8. Layer \in Layers
    BY <1>1 DEF Games, Layer
<1> QED  BY <1>3, <1>5, <1>6, <1>7, <1>8 DEF Layers

LEMMA HandleHeld ==
    ASSUME Held, Handle, Layered'
    PROVE  Held'
<1> DEFINE t == pending[1]
<1>1. /\ t \in Taps /\ game \in Games /\ Stands(game) /\ game' = Effect(game, t)
      /\ shown' = shown /\ ctx' = ctx /\ call' = call /\ caller' = caller /\ 1 \in Queue
      /\ \A i \in Queue' :
           i \in Nat /\ 1 < i + 1 /\ i + 1 \in Queue /\ pending'[i] = pending[i + 1]
      /\ t.op = "clear" => t.row \in Rows
      /\ t.op = "cancel" => t.row \in {"map", "fleet"}
    BY HandleFacts
<1>2. /\ (Entered' <=> Entered) /\ (Panel' <=> Panel) /\ (Authorized' <=> Authorized)
      /\ ShownLayer' = ShownLayer /\ (NoStage => NoStage')
    BY <1>1 DEF Entered, Panel, Authorized, ShownLayer, NoStage
<1>3. NoStage => t.op # "stage"
    BY <1>1 DEF NoStage
<1> HIDE DEF t
<1>4. /\ Layer = "chapter" /\ t.op = "stage" => Layer' = "map"
      /\ Layer = "chapter" /\ t.op # "stage" => Layer' = "chapter"
      /\ Layer # "chapter" /\ t.op = "stage" => game' = game
      /\ Layer = "battle" => game' = game
      /\ Layer # "chapter" /\ Layer' = "chapter" => t.op = "cancel"
    BY <1>1, EffectLayer DEF Layer
<1>5. /\ t.op = "stage" => game'.dropdown = game.dropdown /\ game'.fleets = game.fleets
      /\ t.op = "proceed" => /\ game'.dropdown = game.dropdown /\ game'.fleets = game.fleets
                             /\ game' = game \/ (Layer = "map" /\ Layer' = "fleet")
      /\ t.op = "select" => /\ Layer' = Layer /\ game'.fleets = game.fleets
                            /\ game' = game \/ OnPanel(game)
      /\ t.op = "clear" => Layer' = Layer /\ game'.dropdown = game.dropdown
      /\ t.op \in Closers => /\ Layer' = Layer /\ game'.dropdown = None
                             /\ game.dropdown = None => game' = game
      /\ t.op = "sortie" => /\ game'.dropdown = game.dropdown /\ game'.fleets = game.fleets
                            /\ game' = game \/ (OnPanel(game) /\ Layer' = "battle")
      /\ t.op = "cancel" => /\ game'.dropdown = game.dropdown
                            /\ game' = game \/ Layer' = "chapter"
    BY <1>1, EffectCases DEF Layer
<1>6. t.op \in {"stage", "proceed", "select", "clear", "option", "close", "sortie", "cancel"}
    BY <1>1 DEF Taps, Inputs
<1>7. ShownLayer # "chapter" /\ Layer = "chapter" => NoStage
    BY DEF Held, Layered, QueueFits
<1>8. Left'
    <2> SUFFICES ASSUME ctx # None, ctx.entry # 0, Authorized PROVE Left'
        BY <1>1, <1>2 DEF Left
    <2>1. CASE ShownLayer = "fleet" /\ Layer \in {"chapter", "fleet", "battle"}
        <3>1. Layer' \in {"chapter", "fleet", "battle"}
            BY <1>3, <1>4, <1>5, <1>6, <1>7, <2>1 DEF Closers, Layer
        <3> QED  BY <1>2, <2>1, <3>1 DEF Left
    <2>2. CASE ShownLayer = "chapter" /\ Layer = "chapter" /\ NoStage
        BY <1>2, <1>3, <1>4, <2>2 DEF Left
    <2>3. CASE ShownLayer = "battle" /\ Layer = "battle"
        BY <1>2, <1>4, <2>3 DEF Left, Layer
    <2> QED  BY <2>1, <2>2, <2>3 DEF Held, Left
<1>9. Unasked'
    <2> SUFFICES ASSUME Entered, ~Authorized, ShownLayer # "chapter" PROVE Unasked'
        BY <1>2 DEF Unasked
    <2>1. /\ \A i \in Queue : pending[i].op \in {"stage", "proceed", "cancel"}
          /\ game.dropdown = None
          /\ ShownLayer \in {"map", "fleet"}
          /\ Layer \in {"chapter", "map", "fleet"}
          /\ ShownLayer = "fleet" => Layer # "map"
          /\ ShownLayer = "fleet" /\ Layer = "fleet" => game.fleets = shown.game.fleets
        BY DEF Held, Unasked
    <2>2. t.op \in {"stage", "proceed", "cancel"}
        BY <1>1, <2>1 DEF t
    <2>3. \A i \in Queue' : pending'[i].op \in {"stage", "proceed", "cancel"}
        BY <1>1, <2>1
    <2>4. Layer = "chapter" => Layer' = "chapter"
        BY <1>3, <1>4, <1>7
    <2>5. game' = game \/ Layer' = "chapter" \/ (Layer = "map" /\ Layer' = "fleet")
        BY <1>4, <1>5, <2>2, <2>4
    <2>6. game'.dropdown = None
        BY <1>5, <2>1, <2>2
    <2> QED  BY <1>1, <1>2, <2>1, <2>3, <2>5, <2>6 DEF Unasked, Layer
<1>10. Chosen'
    BY <1>1 DEF Held, Chosen
<1>11. ASSUME Panel
       PROVE  /\ t.op \in Closers =>
                   ctx.row = None /\ \A i \in Queue : pending[i].op \in Closers => i = 1
              /\ (\E i \in Queue : pending[i].op \in Closers) => game.dropdown # None
    BY <1>1, <1>11 DEF Held, Dropdown, t
<1>12. Dropdown'
    <2> SUFFICES ASSUME Panel PROVE Dropdown'
        BY <1>2 DEF Dropdown
    <2>1. ASSUME NEW i \in Queue', pending'[i].op \in Closers
          PROVE  /\ i + 1 \in Queue /\ pending[i + 1].op \in Closers /\ i \in Nat
                 /\ t.op \notin Closers /\ game.dropdown # None
                 /\ game'.dropdown # None /\ shown.game.dropdown # None /\ ctx.row = None
        <3>1. i + 1 \in Queue /\ pending[i + 1].op \in Closers /\ i + 1 # 1 /\ i \in Nat
            BY <1>1, <2>1
        <3>2. t.op \notin Closers
            BY <1>11, <3>1
        <3>3. game.dropdown # None /\ shown.game.dropdown # None /\ ctx.row = None
            BY <3>1 DEF Held, Dropdown
        <3>4. game'.dropdown # None
            BY <1>5, <1>6, <3>2, <3>3 DEF OnPanel, Closers
        <3> QED  BY <3>1, <3>2, <3>3, <3>4
    <2>2. ASSUME NEW i \in Queue', NEW j \in Queue', pending'[i].op \in Closers,
                 pending'[j].op \in Closers
          PROVE  i = j
        <3>1. i + 1 = j + 1 /\ i \in Nat /\ j \in Nat
            BY <2>1, <2>2 DEF Held, Dropdown
        <3> QED  BY <3>1
    <2>3. shown.game.dropdown # None /\ ctx.row # None =>
              game'.dropdown = shown.game.dropdown
        <3> SUFFICES ASSUME shown.game.dropdown # None, ctx.row # None
                     PROVE  game'.dropdown = shown.game.dropdown
            OBVIOUS
        <3>1. game.dropdown = shown.game.dropdown
            BY DEF Held, Dropdown
        <3> QED  BY <1>5, <1>6, <1>11, <3>1 DEF OnPanel, Closers
    <2> QED  BY <1>1, <2>1, <2>2, <2>3 DEF Dropdown
<1>13. Mutated'
    BY <1>2, HandleMutating DEF Mutated
<1>14. Planned'
    BY <1>1, <1>2 DEF Held, Planned
<1>15. Confirmed'
    <2> SUFFICES ASSUME Entered, ctx.prepared # None PROVE Confirmed'
        BY <1>1, <1>2 DEF Confirmed
    <2>1. /\ ctx.receipts = ctx.plan
          /\ \A i \in Queue : pending[i].op \notin {"option", "clear"}
          /\ Layer \in {"fleet", "battle"} => game.fleets = ctx.requested
          /\ ShownLayer = "fleet" =>
               /\ shown.game.fleets = ctx.requested
               /\ \A i \in Queue : pending[i].op = "close" =>
                     pending[i].index = ctx.requested[game.dropdown]
        BY DEF Held, Confirmed
    <2>2. Authorized /\ ctx # None /\ ctx.entry # 0
        BY DEF Held, Layered, Unplanned, Entered, Authorized
    <2>3. t.op \notin {"option", "clear"}
        BY <1>1, <2>1 DEF t
    <2>4. Layer' \in {"fleet", "battle"} => Layer \in {"fleet", "battle"}
        <3>1. Layer \in {"fleet", "battle"} \/ (Layer = "chapter" /\ NoStage)
            BY <2>2, <1>7 DEF Held, Left
        <3> QED  BY <1>3, <1>4, <3>1
    <2>5. Layer' \in {"fleet", "battle"} => game'.fleets = game.fleets
        <3> SUFFICES ASSUME t.op = "close", Layer' \in {"fleet", "battle"}
                     PROVE  game'.fleets = game.fleets
            BY <1>5, <1>6, <2>3 DEF Layer
        <3>1. CASE game.dropdown = None
            BY <1>5, <3>1 DEF Closers
        <3>2. CASE game.dropdown # None
            <4>1. Layer = "fleet" /\ game.dropdown \in Rows
                BY <1>1, <3>2 DEF Stands, Layer, Games, Maybe
            <4>2. ShownLayer = "fleet"
                BY <2>2, <4>1 DEF Held, Left
            <4>3. t.index = ctx.requested[game.dropdown]
                BY <1>1, <2>1, <4>2 DEF t
            <4>4. game.fleets = ctx.requested
                BY <2>1, <4>1
            <4>5. game' = [game EXCEPT !.fleets[game.dropdown] = t.index, !.dropdown = None]
                BY <1>1, <3>2 DEF Effect
            <4>6. game.fleets \in [Rows -> {0} \union Indices]
                BY <1>1 DEF Games, Selections
            <4> QED  BY <1>1, <4>1, <4>3, <4>4, <4>5, <4>6 DEF Games
        <3> QED  BY <3>1, <3>2
    <2>6. ASSUME ShownLayer = "fleet", NEW i \in Queue', pending'[i].op = "close"
          PROVE  pending'[i].index = ctx.requested[game'.dropdown]
        <3>1. Panel
            BY <2>2, <2>6 DEF Panel
        <3>2. i + 1 \in Queue /\ pending'[i] = pending[i + 1] /\ i + 1 # 1
            BY <1>1
        <3>3. t.op \notin Closers /\ game.dropdown # None
            BY <1>11, <2>6, <3>1, <3>2 DEF Closers
        <3>4. game'.dropdown = game.dropdown
            BY <1>5, <1>6, <3>3 DEF OnPanel, Closers
        <3> QED  BY <2>1, <2>6, <3>2, <3>4
    <2> QED  BY <1>1, <1>2, <2>1, <2>4, <2>5, <2>6 DEF Confirmed
<1>16. SortieFits'
    BY HandleSorties
<1>17. CallHeld'
    <2>1. ASSUME Panel, call.pc = "tap", call.op = "select"
          PROVE  /\ \A i \in Queue' : pending'[i].op \notin Closers
                 /\ shown.game.dropdown # None => game'.dropdown = shown.game.dropdown
        <3>1. /\ \A i \in Queue : pending[i].op \notin Closers
              /\ shown.game.dropdown # None => game.dropdown = shown.game.dropdown
            BY <2>1 DEF Held, CallHeld
        <3>2. t.op \notin Closers
            BY <1>1, <3>1 DEF t
        <3> QED  BY <1>1, <1>5, <1>6, <3>1, <3>2 DEF OnPanel, Closers
    <2> QED  BY <1>1, <1>2, <2>1 DEF Held, CallHeld
<1> QED  BY <1>8, <1>9, <1>10, <1>12, <1>13, <1>14, <1>15, <1>16, <1>17 DEF Held

LEMMA PublishHeld ==
    ASSUME Held, Publish, Layered'
    PROVE  Held'
<1>1. /\ shown'.game = game
      /\ UNCHANGED <<game, saved, pending, ctx, call, caller, invocations, delivered>>
    BY DEF Publish
<1>2. /\ (Entered' <=> Entered) /\ (Authorized' <=> Authorized)
      /\ ShownLayer' = Layer /\ Layer' = Layer /\ Queue' = Queue /\ NoStage' = NoStage
    BY <1>1 DEF Entered, Authorized, ShownLayer, Layer, Queue, NoStage
<1>3. /\ ShownLayer # "chapter" /\ Layer = "chapter" => NoStage
      /\ ShownLayer = "chapter" /\ Layer # "chapter" => Layer = "map" /\ AllStage
      /\ Stands(game) /\ game \in Games
    BY DEF Held, Layered, QueueFits, Fitting, TypeOK
<1>4. Left'
    BY <1>1, <1>2, <1>3 DEF Held, Left
<1>5. Panel' => Panel /\ Layer = "fleet"
    BY <1>2 DEF Held, Left, Panel, Entered
<1>6. Unasked'
    <2> SUFFICES ASSUME Entered, ~Authorized, Layer # "chapter" PROVE Unasked'
        BY <1>1, <1>2 DEF Unasked
    <2>1. CASE ShownLayer = "chapter"
        BY <1>1, <1>2, <1>3, <2>1 DEF Unasked, AllStage, Stands, Layer
    <2>2. CASE ShownLayer # "chapter"
        BY <1>1, <1>2, <2>2 DEF Held, Unasked
    <2> QED  BY <2>1, <2>2
<1>7. Chosen' /\ SortieFits'
    BY <1>1, <1>2 DEF Held, Chosen, SortieFits
<1>8. Dropdown'
    BY <1>1, <1>2, <1>5 DEF Held, Dropdown
<1>9. Mutated'
    <2> SUFFICES ASSUME Panel, Layer = "fleet", NEW r \in Rows PROVE Mutating(r)'
        BY <1>5 DEF Mutated
    <2>1. Mutating(r)
        BY DEF Held, Mutated
    <2> QED  BY <1>1, <1>2, <2>1 DEF Mutating, Clears
<1>10. Planned'
    BY <1>1, <1>2 DEF Held, Planned
<1>11. Confirmed'
    <2> SUFFICES ASSUME Entered, ctx.prepared # None PROVE Confirmed'
        BY <1>1, <1>2 DEF Confirmed
    <2>1. Layer = "fleet" => ShownLayer = "fleet"
        BY <1>5, <1>2 DEF Held, Layered, Unplanned, Entered, Authorized, Panel
    <2> QED  BY <1>1, <1>2, <2>1 DEF Held, Confirmed, Layer
<1>12. CallHeld'
    <2> SUFFICES ASSUME call.pc # "idle" PROVE CallHeld'
        BY <1>1 DEF CallHeld
    <2>1. call.op \in Closers => call.index # 0
        BY DEF Held, CallHeld
    <2>2. ASSUME Panel', call.op \in Closers
          PROVE  ctx.row # None /\ game.dropdown # None /\ game.dropdown = shown.game.dropdown
        BY <1>5, <2>2 DEF Held, CallHeld, Dropdown
    <2>3. ASSUME Panel', call.op = "clear", ~ClearIn(ctx.receipts, call.row)
          PROVE  game.fleets[call.row] # 0
        <3>1. call.row \in Rows /\ shown.game.fleets[call.row] # 0
            BY <1>5, <2>3 DEF Held, CallHeld, Layered, Fitting, CallFits
        <3>2. Mutating(call.row)
            BY <1>5, <2>3, <3>1 DEF Held, Mutated
        <3> QED  BY <1>5, <2>3, <3>1, <3>2 DEF Mutating
    <2>4. ASSUME Panel', call.pc = "tap", call.op = "select"
          PROVE  \A i \in Queue : pending[i].op \notin Closers
        BY <1>5, <2>4 DEF Held, CallHeld
    <2>5. ASSUME Entered, ctx.prepared # None
          PROVE  /\ call.op \notin {"option", "clear"}
                 /\ call.op = "close" /\ Layer = "fleet" =>
                       call.index = ctx.requested[game.dropdown]
        <3>1. call.op \notin {"option", "clear"}
            BY <2>5 DEF Held, CallHeld
        <3>2. ASSUME call.op = "close", Layer = "fleet"
              PROVE  call.index = ctx.requested[game.dropdown]
            <4>1. Authorized
                BY <2>5 DEF Held, Layered, Unplanned, Entered, Authorized
            <4>2. Panel'
                BY <1>2, <2>5, <3>2, <4>1 DEF Panel
            <4>3. ShownLayer = "fleet" /\ game.dropdown = shown.game.dropdown
                BY <1>5, <2>2, <3>2, <4>2 DEF Panel, Closers
            <4> QED  BY <2>5, <3>2, <4>3 DEF Held, CallHeld
        <3> QED  BY <3>1, <3>2
    <2> QED  BY <1>1, <1>2, <2>1, <2>2, <2>3, <2>4, <2>5 DEF CallHeld
<1> QED  BY <1>4, <1>6, <1>7, <1>8, <1>9, <1>10, <1>11, <1>12 DEF Held

LEMMA AuthorizeFleetsHeld ==
    ASSUME Held, AuthorizeFleets, Layered'
    PROVE  Held'
<1>1. /\ UNCHANGED <<game, shown, pending>> /\ call = NoCall /\ call' = NoCall
      /\ ctx \in Contexts /\ ctx # None /\ caller = "running"
      /\ ~Authorized /\ OnPanel(shown.game) /\ ShownLayer = "fleet"
    BY DEF AuthorizeFleets, Calling, Idle, Quiet, gameVars, Held, Layered, Fitting, TypeOK,
           Maybe, Authorized, OnPanel, ShownLayer
<1>2. ctx.plan = <<>> /\ ctx.receipts = <<>> /\ ctx.row = None /\ ctx.prepared = None
    BY <1>1 DEF Held, Layered, Unplanned, Authorized
<1>3. PICK request \in Requests :
         \E plan \in {Preflight(shown.game.fleets, request).ops} :
            \/ ctx' = [ctx EXCEPT !.initial = ShownPanel, !.requested = request]
            \/ ctx' = [[ctx EXCEPT !.initial = ShownPanel, !.requested = request]
                         EXCEPT !.plan = plan]
    BY AuthorizeFleetsSets
<1>4. /\ ctx'.entry = ctx.entry /\ ctx'.receipts = <<>> /\ ctx'.row = None
      /\ ctx'.prepared = None /\ ctx'.requested = request /\ ctx'.initial = ShownPanel
      /\ ctx'.plan \in {<<>>, Preflight(shown.game.fleets, request).ops}
    BY <1>1, <1>2, <1>3 DEF Contexts
<1>5. /\ ShownLayer' = "fleet" /\ Layer' = Layer /\ Queue' = Queue /\ pending' = pending
      /\ game' = game /\ shown' = shown
    BY <1>1 DEF ShownLayer, Layer, Queue
<1>6. ASSUME ctx'.entry # 0
      PROVE  /\ \A i \in Queue : pending[i].op \in {"stage", "proceed", "cancel"}
             /\ Layer \in {"chapter", "fleet"}
             /\ Layer = "fleet" => game.fleets = shown.game.fleets
    <2>1. Entered
        BY <1>1, <1>4, <1>6 DEF Entered
    <2> QED  BY <1>1, <2>1 DEF Held, Unasked
<1>7. Authorized'
    <2>1. ShownPanel # None
        BY NoneAssumption DEF Held, Layered, Fitting, TypeOK, ShownPanel, Panels, Games
    <2> QED  BY <1>4, <2>1 DEF Authorized
<1>8. Left'
    BY <1>5, <1>6 DEF Left
<1>9. Unasked'
    BY <1>7 DEF Unasked
<1>10. Chosen' /\ SortieFits'
    BY <1>5 DEF Held, Chosen, SortieFits
<1>11. Dropdown'
    BY <1>4, <1>5, <1>6 DEF Dropdown, Panel, Entered, Closers
<1>12. Mutated'
    <2> SUFFICES ASSUME Panel', NEW r \in Rows PROVE Mutating(r)'
        BY DEF Mutated
    <2>1. /\ \A i \in Queue : pending[i].op \in {"stage", "proceed", "cancel"}
          /\ Layer # "chapter" => game.fleets[r] = shown.game.fleets[r]
        BY <1>6 DEF Panel, Entered
    <2>2. \A i \in Queue' : ~Clears(i, r)'
        BY <1>5, <2>1 DEF Clears
    <2> QED  BY <1>4, <1>5, <2>1, <2>2 DEF Mutating
<1>13. Planned'
    BY <1>4, <1>7 DEF Planned, ShownPanel
<1>14. Confirmed' /\ CallHeld'
    BY <1>1, <1>4 DEF Confirmed, CallHeld, NoCall
<1> QED  BY <1>8, <1>9, <1>10, <1>11, <1>12, <1>13, <1>14 DEF Held

LEMMA ConfirmSelectionHeld ==
    ASSUME Held, ConfirmSelection, Layered'
    PROVE  Held'
<1>1. /\ UNCHANGED <<game, shown, pending>> /\ call = NoCall /\ call' = NoCall
      /\ ctx \in Contexts /\ ctx # None /\ caller = "running" /\ caller' = caller
      /\ Authorized /\ OnPanel(shown.game) /\ ShownLayer = "fleet"
      /\ shown.game.fleets = ctx.requested /\ ctx.receipts = ctx.plan
      /\ ctx' = [ctx EXCEPT !.prepared = ShownPanel]
    BY DEF ConfirmSelection, Calling, Idle, Quiet, gameVars, Held, Layered, Fitting, TypeOK,
           Maybe, Authorized, OnPanel, ShownLayer
<1>2. /\ ctx'.entry = ctx.entry /\ ctx'.initial = ctx.initial
      /\ ctx'.requested = ctx.requested /\ ctx'.plan = ctx.plan
      /\ ctx'.receipts = ctx.receipts /\ ctx'.row = ctx.row
    BY <1>1 DEF Contexts
<1>3. /\ Left' /\ Unasked' /\ Chosen' /\ Dropdown' /\ Mutated' /\ Planned' /\ SortieFits'
    BY <1>1, <1>2, StillHeld
<1>4. CallHeld'
    BY <1>1 DEF CallHeld, NoCall
<1>5. Confirmed'
    <2> SUFFICES ASSUME Entered PROVE Confirmed'
        BY <1>1, <1>2 DEF Confirmed, Entered
    <2>1. Panel
        BY <1>1 DEF Panel
    <2>2. \A i \in Queue : pending[i].op \notin Closers
        BY <1>1, <2>1 DEF Held, Dropdown, OnPanel
    <2>3. /\ ctx.requested \in Selections /\ ctx.requested = shown.game.fleets
          /\ game.fleets \in Selections
        BY <1>1 DEF Held, Layered, Fitting, TypeOK, Games
    <2>4. ASSUME NEW r \in Rows
          PROVE  /\ Once(ctx.receipts, r)
                 /\ ClearIn(ctx.receipts, r) /\ ctx.requested[r] # 0 => OptionSince(ctx.receipts, r)
        <3>1. CASE ctx.plan = <<>>
            BY <1>1, <3>1 DEF Once, ClearIn
        <3>2. CASE ctx.plan # <<>>
            <4>1. /\ ctx.requested \in Requests
                  /\ ctx.plan = Preflight(ctx.initial.fleets, ctx.requested).ops
                BY <1>1, <3>2 DEF Held, Planned
            <4>2. ctx.requested["fleet1"] # 0
                BY <4>1, CampaignAssumption
            <4>3. ctx.initial.fleets \in Selections
                BY <1>1 DEF Contexts, Maybe, Panels, Authorized
            <4> QED  BY <1>1, <2>3, <4>1, <4>2, <4>3, PlanClears
        <3> QED  BY <3>1, <3>2
    <2>5. ASSUME NEW r \in Rows
          PROVE  /\ \A i \in Queue : ~Clears(i, r)
                 /\ Layer # "chapter" => game.fleets[r] = ctx.requested[r]
        <3>1. Mutating(r) /\ shown.game.dropdown = None
            BY <1>1, <2>1 DEF Held, Mutated, OnPanel
        <3>2. Once(ctx.receipts, r)
            BY <2>4
        <3>3. ASSUME NEW i \in Queue, Clears(i, r) PROVE FALSE
            <4>1. shown.game.fleets[r] # 0 /\ ClearIn(ctx.receipts, r)
                BY <3>1, <3>2, <3>3 DEF Mutating
            <4>2. OptionSince(ctx.receipts, r)
                BY <2>3, <2>4, <4>1
            <4>3. \E j \in Queue : pending[j].op = "option"
                BY <3>1, <3>2, <3>3, <4>2 DEF Mutating
            <4> QED  BY <2>2, <4>3 DEF Closers
        <3>4. ASSUME Layer # "chapter" PROVE game.fleets[r] = ctx.requested[r]
            <4> SUFFICES ASSUME shown.game.fleets[r] # 0, game.fleets[r] = 0 PROVE FALSE
                BY <2>3, <3>1, <3>4 DEF Mutating
            <4>1. ClearIn(ctx.receipts, r)
                BY <3>1, <3>4 DEF Mutating
            <4>2. OptionSince(ctx.receipts, r)
                BY <2>3, <2>4, <4>1
            <4> QED  BY <3>1, <3>2, <3>4, <4>2 DEF Mutating
        <3> QED  BY <3>3, <3>4
    <2>6. Layer # "chapter" => game.fleets = ctx.requested
        BY <2>3, <2>5 DEF Selections
    <2>7. \A i \in Queue : pending[i].op \notin {"option", "clear"}
        <3>1. \A i \in Queue : pending[i].op = "clear" => pending[i].row \in Rows
            BY DEF Held, Layered, Fitting, TapsFit, Queue
        <3> QED  BY <2>2, <2>5, <3>1 DEF Clears, Closers
    <2>8. /\ ShownLayer' = ShownLayer /\ Layer' = Layer /\ Queue' = Queue
          /\ pending' = pending /\ game' = game /\ shown' = shown
        BY <1>1 DEF ShownLayer, Layer, Queue
    <2> QED  BY <1>1, <1>2, <2>2, <2>3, <2>6, <2>7, <2>8 DEF Confirmed, Closers
<1> QED  BY <1>3, <1>4, <1>5 DEF Held

LEMMA DecidingHeld ==
    ASSUME Held, Deciding, Layered'
    PROVE  Held'
<1>1. CASE AuthorizeFleets
    BY <1>1, AuthorizeFleetsHeld
<1>2. CASE ConfirmSelection
    BY <1>2, ConfirmSelectionHeld
<1>3. CASE AuthorizeSortie \/ ConfirmSortie \/ ConfirmPreSortie \/ Look
    <2>1. /\ UNCHANGED <<game, shown, pending>> /\ call' = NoCall
          /\ ctx \in Contexts /\ ctx # None /\ caller' = caller
        BY <1>3 DEF AuthorizeSortie, ConfirmSortie, ConfirmPreSortie, Look, Calling, Idle,
               Quiet, gameVars, Held, Layered, Fitting, TypeOK, Maybe
    <2>2. /\ ctx'.entry = ctx.entry /\ ctx'.initial = ctx.initial
          /\ ctx'.requested = ctx.requested /\ ctx'.plan = ctx.plan
          /\ ctx'.receipts = ctx.receipts /\ ctx'.row = ctx.row
          /\ ctx'.prepared = ctx.prepared
        BY <1>3, <2>1 DEF AuthorizeSortie, ConfirmSortie, ConfirmPreSortie, Look, Contexts
    <2> QED  BY <2>1, <2>2, StillHeld DEF Held, CallHeld, NoCall
<1> QED  BY <1>1, <1>2, <1>3 DEF Deciding

LEMMA AskingHeld ==
    ASSUME Held, Asking, Layered'
    PROVE  Held'
<1>1. /\ UNCHANGED <<game, shown, pending>> /\ ctx \in Contexts /\ ctx # None /\ call = NoCall
      /\ caller' = "running" => caller = "running"
      /\ call'.pc \in {"idle", "aim"}
      /\ ctx'.entry = ctx.entry /\ ctx'.requested = ctx.requested
      /\ ctx'.initial = ctx.initial /\ ctx'.prepared = ctx.prepared
      /\ ctx'.plan = ctx.plan /\ ctx'.receipts = ctx.receipts
      /\ ctx'.row \in {ctx.row, None}
    BY AskSorts DEF Held
<1>2. /\ Left' /\ Unasked' /\ Chosen' /\ Dropdown' /\ Mutated' /\ Planned'
      /\ Confirmed' /\ SortieFits' /\ (Entered' => Entered) /\ (Panel' => Panel)
    BY <1>1, StillHeld
<1>3. shown.game.dropdown # None => CloseIndex = shown.game.fleets[shown.game.dropdown]
    BY DEF CloseIndex, Active
<1>4. Entered /\ ctx.prepared # None => ~HasMutation
    <2>1. Len(ctx.plan) \in Nat
        BY <1>1 DEF Contexts
    <2> QED  BY <2>1 DEF Held, Confirmed, HasMutation
<1>5. ASSUME shown.game.dropdown # None, CloseIndex # 0, ctx' = ctx, ctx.row # None,
             NEW r, Ask("close", r, CloseIndex)
      PROVE  CallHeld'
    <2>1. call'.op = "close" /\ call'.index = CloseIndex /\ shown' = shown
        BY <1>1, <1>5 DEF Ask
    <2>2. ASSUME Entered', ctx.prepared # None, ShownLayer' = "fleet"
          PROVE  CloseIndex = ctx.requested[shown.game.dropdown]
        <3>1. shown.game.fleets = ctx.requested
            BY <1>1, <1>2, <2>2 DEF Held, Confirmed, ShownLayer
        <3> QED  BY <1>3, <1>5, <3>1
    <2> QED  BY <1>5, <2>1, <2>2 DEF CallHeld
<1>6. ASSUME call'.pc = "idle" \/ call'.op \in {"stage", "proceed", "sortie", "cancel"}
      PROVE  CallHeld'
    BY <1>6 DEF CallHeld, Closers
<1>7. CASE AskStage \/ AskProceed \/ AskSortie \/ AskCancel
    <2>1. call'.op \in {"stage", "proceed", "sortie", "cancel"}
        BY <1>7 DEF AskStage, AskProceed, AskSortie, AskCancel, Ask
    <2> QED  BY <1>2, <1>6, <2>1 DEF Held
<1>8. CASE RollbackClose
    <2>1. CASE shown.game.dropdown = None
        <3>1. call'.pc = "idle"
            BY <1>1, <1>8, <2>1 DEF RollbackClose, Quiet, NoCall
        <3> QED  BY <1>2, <1>6, <3>1 DEF Held
    <2>2. CASE shown.game.dropdown # None
        <3>1. /\ ctx.row # None /\ CloseIndex # 0 /\ ctx' = ctx
              /\ Ask("close", ctx.row, CloseIndex)
            BY <1>8, <2>2 DEF RollbackClose
        <3>2. CallHeld'
            BY <2>2, <3>1, <1>5
        <3> QED  BY <1>2, <3>2 DEF Held
    <2> QED  BY <2>1, <2>2
<1>9. ASSUME NEW r \in Rows, AskSelect(r)  PROVE Held'
    <2>1. CASE Ask("select", r, shown.game.fleets[r])
        <3>1. call'.op = "select" /\ call'.pc = "aim"
            BY <2>1 DEF Ask
        <3>2. CallHeld'
            BY <3>1 DEF CallHeld, Closers
        <3> QED  BY <1>2, <3>2 DEF Held
    <2>2. CASE /\ shown.game.dropdown # None /\ ctx.row = r /\ CloseIndex # 0
               /\ Ask("close", r, CloseIndex)
        <3>1. ctx' = ctx /\ ctx.row # None
            BY <1>9, <2>2, NoneAssumption DEF AskSelect
        <3>2. CallHeld'
            BY <2>2, <3>1, <1>5
        <3> QED  BY <1>2, <3>2 DEF Held
    <2> QED  BY <1>9, <2>1, <2>2 DEF AskSelect
<1>10. ASSUME NEW r \in Rows, AskClear(r)  PROVE Held'
    <2>1. /\ HasMutation /\ shown.game.fleets[r] # 0 /\ ctx' = ctx /\ shown' = shown
          /\ call'.op = "clear" /\ call'.row = r /\ call'.pc = "aim"
        BY <1>1, <1>10 DEF AskClear, Ask
    <2>2. CallHeld'
        BY <1>2, <1>4, <2>1 DEF CallHeld, Closers
    <2> QED  BY <1>2, <2>2 DEF Held
<1>11. ASSUME NEW r \in Rows, NEW i \in Indices, AskOption(r, i)  PROVE Held'
    <2>1. /\ HasMutation /\ shown.game.dropdown # None /\ ctx.row = r /\ ctx' = ctx
          /\ shown' = shown /\ call'.op = "option" /\ call'.index = i /\ call'.pc = "aim"
        BY <1>1, <1>11 DEF AskOption, Ask
    <2>2. i # 0 /\ r # None
        BY CampaignAssumption, NoneAssumption
    <2>3. CallHeld'
        BY <1>2, <1>4, <2>1, <2>2 DEF CallHeld, Closers
    <2> QED  BY <1>2, <2>3 DEF Held
<1> QED  BY <1>7, <1>8, <1>9, <1>10, <1>11 DEF Asking

LEMMA TapSorties ==
    ASSUME Held, call.pc = "tap", Inject, UNCHANGED gameVars
    PROVE  SortieFits' /\ Chosen'
<1>1. /\ \A i \in Queue' :
           \/ i \in Queue /\ pending'[i] = pending[i]
           \/ /\ i = Len(pending) + 1 /\ i \notin Queue
              /\ pending'[i].op = call.op /\ pending'[i].row = call.row
              /\ pending'[i].index = call.index /\ pending'[i].wants = ctx.requested
      /\ Queue \subseteq 1..Len(pending) /\ Len(pending) \in Nat
    BY Injected DEF Held
<1>2. /\ game' = game /\ Layer' = Layer /\ call.pc # "idle"
    BY DEF gameVars, Layer
<1>3. Chosen'
    <2>1. call.op \in Closers => call.index # 0
        BY <1>2 DEF Held, CallHeld
    <2> QED  BY <1>1, <2>1 DEF Held, Chosen
<1>4. ASSUME NEW i \in Queue, NEW j \in Queue', j <= i
      PROVE  j \in Queue /\ pending'[j] = pending[j]
    BY <1>1, <1>4
<1>5. ASSUME NEW i \in Queue', pending'[i].op = "sortie", i \in Queue, pending'[i] = pending[i]
      PROVE  /\ pending'[i].wants = Qualified
             /\ Layer' # "map"
             /\ Layer' = "chapter" => \A j \in Queue' : j <= i => pending'[j].op # "stage"
             /\ Layer' = "fleet" =>
                  /\ game'.fleets = Qualified
                  /\ \A j \in Queue' : j <= i => pending'[j].op \notin {"option", "clear"}
                  /\ \A j \in Queue' : j <= i /\ pending'[j].op = "close" =>
                        /\ game'.dropdown # None
                        /\ pending'[j].index = Qualified[game'.dropdown]
                  /\ \A j, k \in Queue' : j <= i /\ k <= i /\ pending'[j].op = "close"
                                          /\ pending'[k].op = "close" => j = k
    BY <1>2, <1>4, <1>5 DEF Held, SortieFits
<1>6. ASSUME NEW i \in Queue', pending'[i].op = "sortie", i \notin Queue
      PROVE  /\ pending'[i].wants = Qualified
             /\ Layer # "map"
             /\ Layer = "chapter" => \A j \in Queue' : j <= i => pending'[j].op # "stage"
             /\ Layer = "fleet" =>
                  /\ game.fleets = Qualified
                  /\ \A j \in Queue' : j <= i => pending'[j].op \notin {"option", "clear"}
                  /\ \A j \in Queue' : j <= i /\ pending'[j].op = "close" =>
                        /\ game.dropdown # None
                        /\ pending'[j].index = Qualified[game.dropdown]
                  /\ \A j, k \in Queue' : j <= i /\ k <= i /\ pending'[j].op = "close"
                                          /\ pending'[k].op = "close" => j = k
    <2>1. call.op = "sortie" /\ pending'[i].wants = ctx.requested
        BY <1>1, <1>6
    <2>2. /\ ctx \in Contexts /\ ctx # None /\ caller = "running" /\ ctx.prepared # None
          /\ ctx.oil = "enough" /\ ctx.requested = Qualified /\ Authorized
        BY <1>2, <2>1, NoneAssumption
        DEF Held, Layered, Fitting, CallFits, CallOwed, Spending, Authorized
    <2>3. Entered
        BY <1>2, <2>1, <2>2, NoneAssumption DEF Held, Layered, Told, Entered
    <2>4. \A j \in Queue' : \/ j \in Queue /\ pending'[j] = pending[j]
                            \/ j \notin Queue /\ pending'[j].op = "sortie"
        BY <1>1, <2>1
    <2>5. /\ \A j \in Queue : pending[j].op \notin {"option", "clear"}
          /\ Layer \in {"fleet", "battle"} => game.fleets = Qualified
          /\ ShownLayer = "fleet" => \A j \in Queue : pending[j].op = "close" =>
                pending[j].index = Qualified[game.dropdown]
        BY <2>2, <2>3 DEF Held, Confirmed
    <2>6. /\ Layer # "map" /\ (Layer = "fleet" => ShownLayer = "fleet")
          /\ Layer = "chapter" => NoStage
        BY <2>2, <2>3 DEF Held, Left, Entered, Layered, QueueFits
    <2>7. ASSUME Layer = "fleet"
          PROVE  /\ \A j \in Queue : pending[j].op = "close" => game.dropdown # None
                 /\ \A j, k \in Queue : pending[j].op = "close" /\ pending[k].op = "close" => j = k
        BY <2>2, <2>3, <2>6, <2>7 DEF Held, Dropdown, Panel, Closers
    <2>8. Layer = "chapter" => \A j \in Queue' : pending'[j].op # "stage"
        BY <2>4, <2>6 DEF NoStage
    <2>9. ASSUME Layer = "fleet"
          PROVE  /\ \A j \in Queue' : pending'[j].op \notin {"option", "clear"}
                 /\ \A j \in Queue' : pending'[j].op = "close" =>
                       /\ game.dropdown # None
                       /\ pending'[j].index = Qualified[game.dropdown]
                 /\ \A j, k \in Queue' : pending'[j].op = "close"
                                         /\ pending'[k].op = "close" => j = k
        BY <2>4, <2>5, <2>6, <2>7, <2>9
    <2> QED  BY <2>1, <2>2, <2>5, <2>6, <2>8, <2>9
<1>7. SortieFits'
    BY <1>1, <1>2, <1>5, <1>6 DEF SortieFits
<1> QED  BY <1>3, <1>7

LEMMA TapRaisesLateHeld ==
    ASSUME Held, TapRaisesLate, Layered'
    PROVE  Held'
<1>1. /\ call.pc = "tap" /\ Inject /\ ctx' = ctx /\ call'.pc = "idle"
      /\ UNCHANGED gameVars /\ caller' # "running"
    BY DEF TapRaisesLate, AfterRaise, NoCall
<1>2. SortieFits' /\ Chosen'
    BY <1>1, TapSorties
<1>3. ~Entered' /\ ~Panel'
    BY <1>1 DEF Entered, Panel
<1>4. Unasked' /\ Dropdown' /\ Mutated' /\ Confirmed' /\ CallHeld'
    BY <1>1, <1>3 DEF Unasked, Dropdown, Mutated, Confirmed, CallHeld
<1>5. Planned'
    BY <1>1 DEF Held, Planned, Authorized
<1>6. Left'
    <2>1. /\ ShownLayer' = ShownLayer /\ Layer' = Layer
          /\ NoStage /\ call.op # "stage" => NoStage'
        BY <1>1, InjectedQueue DEF Held
    <2>2. call.op = "stage" => ctx.entry = 0
        BY <1>1 DEF Held, Layered, CallOwed
    <2> QED  BY <1>1, <2>1, <2>2 DEF Held, Left, Authorized
<1> QED  BY <1>2, <1>4, <1>5, <1>6 DEF Held

\* The injected tap is the last of the queue.
LEMMA InjectedLast ==
    ASSUME Held, call.pc = "tap", Inject
    PROVE  LET n == Len(pending) + 1 IN
           /\ n \in Queue' /\ n \notin Queue
           /\ pending'[n].op = call.op /\ pending'[n].row = call.row
           /\ pending'[n].index = call.index
           /\ \A i \in Queue : i \in Queue' /\ n > i /\ pending'[i] = pending[i]
           /\ \A i \in Queue' : i = n \/ (i \in Queue /\ pending'[i] = pending[i])
<1> DEFINE n == Len(pending) + 1
           t == [op |-> call.op, row |-> call.row, index |-> call.index,
                 wants |-> ctx.requested]
<1>1. pending \in Seq(Taps) /\ ctx \in Contexts /\ call \in Calls /\ call.op \in Inputs
    BY DEF Held, Layered, Fitting, TypeOK, CallFits
<1>2. t \in Taps
    BY <1>1 DEF Taps, Contexts, Calls
<1>3. pending' = Append(pending, t)
    BY DEF Inject
<1>4. t.op = call.op /\ t.row = call.row /\ t.index = call.index
    OBVIOUS
<1> HIDE DEF t
<1>5. /\ n \in Queue' /\ n \notin Queue /\ pending'[n] = t
      /\ \A i \in Queue : i \in Queue' /\ n > i /\ pending'[i] = pending[i]
      /\ \A i \in Queue' : i = n \/ (i \in Queue /\ pending'[i] = pending[i])
    BY <1>1, <1>2, <1>3 DEF Queue
<1> QED  BY <1>4, <1>5

LEMMA TapMutating ==
    ASSUME Held, call.pc = "tap", Inject, UNCHANGED gameVars, Panel, NEW r \in Rows,
           ctx'.receipts = IF call.op \in {"option", "clear"}
                           THEN Append(ctx.receipts, Mutation) ELSE ctx.receipts
    PROVE  Mutating(r)'
<1> PICK n : n = Len(pending) + 1
    OBVIOUS
<1> DEFINE s == ctx.receipts
           e == ctx'.receipts
<1>1. /\ game' = game /\ shown' = shown /\ Layer' = Layer
      /\ s \in Seq(Mutations) /\ call.op \in Inputs /\ call.pc # "idle"
      /\ call.op = "clear" => call.row \in Rows
      /\ call.op = "option" => call.index \in Indices
    BY DEF gameVars, Layer, Held, Layered, Fitting, CallFits, Contexts
<1>2. /\ n \in Queue' /\ n \notin Queue
      /\ pending'[n].op = call.op /\ pending'[n].row = call.row
      /\ \A i \in Queue : i \in Queue' /\ n > i /\ pending'[i] = pending[i]
      /\ \A i \in Queue' : i = n \/ (i \in Queue /\ pending'[i] = pending[i])
    BY InjectedLast
<1>3. Mutating(r)
    BY DEF Held, Mutated
<1>4. /\ Clears(n, r)' <=> call.op = "clear" /\ call.row = r
      /\ \A i \in Queue : i \in Queue' /\ (Clears(i, r)' <=> Clears(i, r))
      /\ \A i \in Queue' : i = n \/ i \in Queue
    BY <1>2 DEF Clears
<1> HIDE DEF s, e
<1>5. CASE call.op = "clear" /\ call.row = r
    <2>1. e = Append(s, Clear(r))
        BY <1>5 DEF e, s, Mutation
    <2>2. /\ ClearIn(e, r) /\ (Once(e, r) => ~ClearIn(s, r) /\ ~OptionSince(e, r))
        BY <1>1, <2>1, ClearMore
    <2>3. ~ClearIn(s, r) => /\ shown.game.fleets[r] # 0
                            /\ \A i \in Queue : ~Clears(i, r)
                            /\ Layer # "chapter" => game.fleets[r] # 0
        BY <1>1, <1>3, <1>5 DEF Held, CallHeld, Mutating, s
    <2>4. \A i \in Queue' : Clears(i, r)' => ClearIn(e, r)
        BY <2>2
    <2>5. (Layer # "chapter" /\ shown.game.dropdown = None) =>
             \/ game.fleets[r] = shown.game.fleets[r]
             \/ shown.game.fleets[r] # 0 /\ game.fleets[r] = 0
        BY <1>3 DEF Mutating
    <2>6. ASSUME Once(e, r)
          PROVE  /\ \A i, j \in Queue' : Clears(i, r)' /\ Clears(j, r)' => i = j
                 /\ shown.game.fleets[r] # 0 /\ (Layer # "chapter" => game.fleets[r] # 0)
        BY <1>4, <2>2, <2>3, <2>6
    <2> QED  BY <1>1, <2>2, <2>4, <2>5, <2>6 DEF Mutating, e
<1>6. CASE call.op = "option"
    <2>1. PICK m \in Indices : e = Append(s, Option(m))
        BY <1>1, <1>6 DEF e, s, Mutation
    <2>2. /\ ClearIn(e, r) <=> ClearIn(s, r)
          /\ Once(e, r) <=> Once(s, r)
        BY <1>1, <2>1, OptionMore
    <2>3. \A i \in Queue' : Clears(i, r)' => i \in Queue /\ Clears(i, r)
        BY <1>4, <1>6
    <2>4. shown.game.dropdown # None
        BY <1>1, <1>6 DEF Held, CallHeld, Closers
    <2>5. \A i \in Queue' : Clears(i, r)' => n \in Queue' /\ n > i /\ pending'[n].op = "option"
        BY <1>2, <1>6, <2>3
    <2>6. \A i \in Queue' : Clears(i, r)' => ClearIn(e, r)
        BY <1>3, <2>2, <2>3 DEF Mutating, s
    <2>7. (~ClearIn(e, r) /\ Layer # "chapter" /\ shown.game.fleets[r] # 0) => game.fleets[r] # 0
        BY <1>3, <2>2 DEF Mutating, s
    <2>8. ASSUME Once(e, r)
          PROVE  /\ \A i, j \in Queue' : Clears(i, r)' /\ Clears(j, r)' => i = j
                 /\ \A i \in Queue' : Clears(i, r)' =>
                      /\ shown.game.fleets[r] # 0
                      /\ Layer # "chapter" => game.fleets[r] # 0
        BY <1>3, <2>2, <2>3, <2>8 DEF Mutating, s
    <2> QED  BY <1>1, <2>4, <2>5, <2>6, <2>7, <2>8 DEF Mutating, e
<1>7. CASE call.op # "option" /\ (call.op = "clear" => call.row # r)
    <2>1. /\ ClearIn(e, r) <=> ClearIn(s, r)
          /\ Once(e, r) <=> Once(s, r)
          /\ OptionSince(e, r) <=> OptionSince(s, r)
        <3>1. CASE call.op = "clear"
            <4>1. PICK q \in Rows : e = Append(s, Clear(q)) /\ r # q
                BY <1>1, <1>7, <3>1 DEF e, s, Mutation
            <4> QED  BY <1>1, <4>1, ClearMore
        <3>2. CASE call.op # "clear"
            <4>1. e = s
                BY <1>7, <3>2 DEF e, s
            <4> QED  BY <4>1
        <3> QED  BY <3>1, <3>2
    <2>2. \A i \in Queue' : Clears(i, r)' => i \in Queue /\ Clears(i, r)
        BY <1>4, <1>7
    <2>3. \A i \in Queue' : Clears(i, r)' => ClearIn(e, r)
        BY <1>3, <2>1, <2>2 DEF Mutating, s
    <2>4. /\ (~ClearIn(e, r) /\ Layer # "chapter" /\ shown.game.fleets[r] # 0) =>
                game.fleets[r] # 0
          /\ (Layer # "chapter" /\ shown.game.dropdown = None) =>
                \/ game.fleets[r] = shown.game.fleets[r]
                \/ shown.game.fleets[r] # 0 /\ game.fleets[r] = 0
        BY <1>3, <2>1 DEF Mutating, s
    <2>5. ASSUME Once(e, r)
          PROVE  /\ \A i, j \in Queue' : Clears(i, r)' /\ Clears(j, r)' => i = j
                 /\ \A i \in Queue' : Clears(i, r)' =>
                      /\ shown.game.fleets[r] # 0
                      /\ Layer # "chapter" => game.fleets[r] # 0
                 /\ (/\ Layer # "chapter" /\ shown.game.fleets[r] # 0 /\ game.fleets[r] = 0
                     /\ OptionSince(e, r)) => shown.game.dropdown # None
        BY <1>3, <2>1, <2>2, <2>5 DEF Mutating, s
    <2>6. ASSUME Once(e, r), OptionSince(e, r), NEW i \in Queue', Clears(i, r)'
          PROVE  \E j \in Queue' : j > i /\ pending'[j].op = "option"
        <3>1. PICK j \in Queue : j > i /\ pending[j].op = "option"
            BY <1>3, <2>1, <2>2, <2>6 DEF Mutating, s
        <3> QED  BY <1>2, <3>1
    <2> QED  BY <1>1, <2>3, <2>4, <2>5, <2>6 DEF Mutating, e
<1> QED  BY <1>5, <1>6, <1>7

LEMMA TapReturnsHeld ==
    ASSUME Held, TapReturns, Layered'
    PROVE  Held'
<1> PICK n : n = Len(pending) + 1
    OBVIOUS
<1>1. /\ call.pc = "tap" /\ call.pc # "idle" /\ Inject /\ ctx' = Booked /\ call'.pc = "idle"
      /\ UNCHANGED gameVars
      /\ caller' = "running" => caller = "running"
    BY DEF TapReturns, NoCall
<1>2. /\ ctx \in Contexts /\ ctx # None /\ call.op \in Inputs
    BY <1>1, NoneAssumption DEF Held, Layered, Fitting, CallFits
<1>3. /\ ctx'.entry = IF call.op = "stage" THEN call.gen ELSE ctx.entry
      /\ ctx'.requested = ctx.requested /\ ctx'.initial = ctx.initial
      /\ ctx'.prepared = ctx.prepared /\ ctx'.plan = ctx.plan
      /\ ctx'.receipts = IF call.op \in {"option", "clear"}
                         THEN Append(ctx.receipts, Mutation) ELSE ctx.receipts
      /\ call.op \in Closers => ctx'.row = None
      /\ call.op \notin {"select", "close", "option"} => ctx'.row = ctx.row
    BY <1>1, <1>2 DEF Booked, Inputs, Contexts, Closers
<1>4. /\ SortieFits' /\ Chosen'
      /\ ShownLayer' = ShownLayer /\ Layer' = Layer
      /\ NoStage /\ call.op # "stage" => NoStage'
      /\ game' = game /\ shown' = shown
    BY <1>1, TapSorties, InjectedQueue DEF Held, gameVars
<1>5. /\ pending'[n].op = call.op /\ pending'[n].row = call.row
      /\ pending'[n].index = call.index
      /\ \A i \in Queue' : i = n \/ (i \in Queue /\ pending'[i] = pending[i])
    BY <1>1, InjectedLast
<1>6. Planned' /\ CallHeld'
    BY <1>1, <1>2, <1>3 DEF Held, Planned, Authorized, CallHeld
<1>7. CASE call.op = "stage"
    <2>1. ~Authorized /\ ~Authorized' /\ ctx'.prepared = None
        BY <1>1, <1>2, <1>3, <1>7 DEF Held, Layered, CallOwed, Unplanned, Authorized
    <2>2. Left' /\ Dropdown' /\ Mutated' /\ Confirmed'
        BY <2>1 DEF Left, Panel, Dropdown, Mutated, Confirmed
    <2>3. Unasked'
        <3> SUFFICES ASSUME ShownLayer # "chapter" PROVE Unasked'
            BY <1>4 DEF Unasked
        <3>1. ShownLayer = "map" /\ Layer = "map" /\ AllStage /\ Stands(game)
            BY <1>1, <1>7 DEF Held, Layered, CallAimed, QueueFits
        <3>2. game.dropdown = None
            BY <3>1 DEF Stands, Layer
        <3> QED  BY <1>4, <1>5, <1>7, <3>1, <3>2 DEF Unasked, AllStage
    <2> QED  BY <1>4, <1>6, <2>2, <2>3 DEF Held
<1>8. CASE call.op # "stage"
    <2>1. /\ Entered' => Entered
          /\ Panel' => Panel
          /\ Authorized' <=> Authorized
        BY <1>1, <1>2, <1>3, <1>4, <1>8 DEF Entered, Panel, Authorized
    <2>2. Left'
        BY <1>2, <1>3, <1>4, <1>8, <2>1 DEF Held, Left
    <2>3. Unasked'
        <3> SUFFICES ASSUME Entered, ~Authorized PROVE Unasked'
            BY <2>1 DEF Unasked
        <3>1. call.op \in {"stage", "proceed", "cancel"}
            BY <1>1, <1>2 DEF Held, Layered, Unplanned, Authorized
        <3> QED  BY <1>4, <1>5, <3>1 DEF Held, Unasked
    <2>4. Dropdown'
        <3> SUFFICES ASSUME Panel PROVE Dropdown'
            BY <2>1 DEF Dropdown
        <3>1. CASE call.op \in Closers
            <4>1. ctx.row # None /\ shown.game.dropdown # None
                BY <1>1, <3>1 DEF Held, CallHeld
            <4>2. /\ \A i \in Queue : pending[i].op \notin Closers
                  /\ game.dropdown = shown.game.dropdown
                BY <4>1 DEF Held, Dropdown
            <4>3. ctx'.row = None
                BY <1>3, <3>1
            <4> QED  BY <1>4, <1>5, <4>1, <4>2, <4>3 DEF Dropdown
        <3>2. CASE call.op = "select"
            <4>1. /\ \A i \in Queue : pending[i].op \notin Closers
                  /\ shown.game.dropdown # None => game.dropdown = shown.game.dropdown
                BY <1>1, <3>2 DEF Held, CallHeld
            <4>2. call.op \notin Closers
                BY <3>2 DEF Closers
            <4> QED  BY <1>4, <1>5, <4>1, <4>2 DEF Dropdown
        <3>3. CASE call.op \notin Closers \union {"select"}
            <4>1. ctx'.row = ctx.row
                BY <1>3, <3>3 DEF Closers
            <4> QED  BY <1>4, <1>5, <3>3, <4>1 DEF Held, Dropdown
        <3> QED  BY <3>1, <3>2, <3>3
    <2>5. Mutated'
        BY <1>1, <1>3, <2>1, TapMutating DEF Mutated
    <2>6. Confirmed'
        <3> SUFFICES ASSUME Entered, ctx.prepared # None PROVE Confirmed'
            BY <1>3, <2>1 DEF Confirmed
        <3>1. call.op \notin {"option", "clear"}
            BY <1>1 DEF Held, CallHeld
        <3>2. ASSUME ShownLayer = "fleet", call.op = "close"
              PROVE  call.index = ctx.requested[game.dropdown]
            <4>1. Panel
                BY <3>2 DEF Held, Layered, Unplanned, Entered, Authorized, Panel
            <4>2. ctx.row # None /\ shown.game.dropdown # None
                BY <1>1, <3>2, <4>1 DEF Held, CallHeld, Closers
            <4>3. game.dropdown = shown.game.dropdown
                BY <4>1, <4>2 DEF Held, Dropdown
            <4> QED  BY <1>1, <3>2, <4>3 DEF Held, CallHeld
        <3> QED  BY <1>3, <1>4, <1>5, <3>1, <3>2 DEF Held, Confirmed
    <2> QED  BY <1>4, <1>6, <2>2, <2>3, <2>4, <2>5, <2>6 DEF Held
<1> QED  BY <1>7, <1>8

LEMMA HeldNext == Held /\ [Next]_vars => Held'
<1> SUFFICES ASSUME Held, [Next]_vars PROVE Held'
    OBVIOUS
<1>1. Layered'
    BY LayeredNext DEF Held
<1>2. CASE UNCHANGED vars
    <2>1. UNCHANGED <<game, shown, pending, ctx, caller, call>>
        BY <1>2 DEF vars
    <2>2. /\ Left' /\ Unasked' /\ Chosen' /\ Dropdown' /\ Mutated' /\ Planned'
          /\ Confirmed' /\ SortieFits' /\ (Entered' => Entered) /\ (Panel' => Panel)
        BY <2>1, StillHeld
    <2>3. CallHeld'
        BY <2>1, <2>2 DEF Held, CallHeld, Queue, ShownLayer
    <2> QED  BY <1>1, <2>2, <2>3 DEF Held
<1> QED  BY <1>1, <1>2, HandleHeld, PublishHeld, BeginHeld, EndHeld, DecidingHeld,
            CallRaisesHeld, AskingHeld, AimHeld, TapReturnsHeld, TapRaisesLateHeld DEF Next, Game

LEMMA AlwaysHeld == Spec => []Held
<1>1. Init => Held
    BY InitHeld
<1>2. Held /\ [Next]_vars => Held'
    BY HeldNext
<1> QED  BY <1>1, <1>2, PTL DEF Spec

\* A confirmed selection is the game's: in an invocation that entered the stage
\* itself, the game got the planned inputs in the planned order, has the requested
\* selection, and nothing on its way could still change it.
THEOREM SelectionsAreReal == Spec => []SelectionIsReal
<1>1. Held => SelectionIsReal
    <2> SUFFICES ASSUME Held, ctx # None, ctx.entry # 0, ctx.prepared # None, caller = "running"
                 PROVE  /\ delivered.mutations = ctx.plan
                        /\ game.layer \in {"fleet", "battle"} => game.fleets = ctx.requested
                        /\ \A k \in 1..Len(pending) : pending[k].op \notin {"option", "clear"}
        BY DEF SelectionIsReal
    <2>1. delivered.mutations = ctx.receipts
        BY DEF Held, Layered, Told
    <2> QED  BY <2>1 DEF Held, Confirmed, Entered, Layer, Queue
<1> QED  BY <1>1, AlwaysHeld, PTL

\* The battle is entered with the selection that was requested, confirmed and
\* qualified when the sortie was tapped, whatever became of its invocation in the
\* meantime, and whatever taps of later ones are in the queue behind it.
THEOREM SortiesAsProven == Spec => SortieAsProven
<1>1. Held /\ [Next]_vars =>
         ((game.layer # "battle" /\ game'.layer = "battle")
            => game.fleets = Qualified /\ Head(pending).wants = Qualified)
    <2> SUFFICES ASSUME Held, [Next]_vars, game.layer # "battle", game'.layer = "battle"
                 PROVE  game.fleets = Qualified /\ Head(pending).wants = Qualified
        OBVIOUS
    <2>1. Handle
        BY DEF Next, vars, Game, Publish, Begin, End, Deciding, AuthorizeFleets, ConfirmSelection,
               AuthorizeSortie, ConfirmSortie, ConfirmPreSortie, Look, Quiet, CallRaises, Asking,
               AskStage, AskProceed, AskSortie, AskCancel, RollbackClose, AskSelect, AskClear,
               AskOption, Ask, Aim, TapReturns, TapRaisesLate, gameVars
    <2> DEFINE t == pending[1]
    <2>2. /\ t \in Taps /\ game \in Games /\ Stands(game) /\ game' = Effect(game, t)
          /\ 1 \in Queue
        BY <2>1, HandleFacts
    <2>3. Head(pending) = t
        BY <2>1 DEF Handle, Held, Layered, Fitting, TypeOK
    <2> HIDE DEF t
    <2>4. t.op = "sortie" /\ game.layer = "fleet"
        <3> DEFINE h == game'
        <3>1. h = Effect(game, t) /\ h.layer = "battle"
            BY <2>2
        <3> HIDE DEF h
        <3> QED  BY <2>2, <3>1, EffectCases
    <2> QED  BY <2>2, <2>3, <2>4 DEF Held, SortieFits, Layer, t
<1>2. Spec => [][(game.layer # "battle" /\ game'.layer = "battle")
                  => game.fleets = Qualified /\ Head(pending).wants = Qualified]_vars
    BY <1>1, AlwaysHeld, PTL DEF Spec
<1> QED  BY <1>2 DEF SortieAsProven
=============================================================================
