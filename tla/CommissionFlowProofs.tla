------------------------ MODULE CommissionFlowProofs ------------------------
(***************************************************************************)
(* Theorems about CommissionFlow: the context is well-typed, the inputs    *)
(* are funded, a close lands on its popup, a start input starts what was   *)
(* selected, and a start proof is true.                                    *)
(***************************************************************************)
EXTENDS CommissionFlow, FiniteSetTheorems, TLAPS

Fitting == TypeOK /\ CallFits /\ TapsFit

LEMMA CountType ==
    ASSUME NEW g \in Games
    PROVE  Count(g) \in Nat
<1>1. IsFiniteSet(Rows)  BY CommissionAssumption
<1>2. Finished(g) \in SUBSET Rows  BY DEF Finished
<1>3. IsFiniteSet(Finished(g))  BY <1>1, <1>2, FS_Subset
<1> QED  BY <1>3, FS_CardinalityType DEF Count

LEMMA EffectType ==
    ASSUME NEW g \in Games, NEW t \in Taps, TapFits(t)
    PROVE  Effect(g, t) \in Games
<1>1. g.page \in Pages /\ g.open \in Maybe(Rows) /\ g.ships \in BOOLEAN
      /\ g.rows \in [Rows -> Status] /\ t.op \in Inputs
    BY DEF Games, Taps
<1>2. [r \in Rows |-> IF r \in Finished(g) THEN "gone" ELSE g.rows[r]] \in [Rows -> Status]
    BY <1>1 DEF Status
<1>3. [g.rows EXCEPT ![g.open] = "running"] \in [Rows -> Status]
    BY <1>1 DEF Status
<1>4. {"summary", "list", "detail", "exp", "award"} \subseteq Pages
    BY DEF Pages, Popups
<1>5. Closed(g, "summary") \in Games
    BY <1>1, <1>4 DEF Closed, Games, Maybe
<1> QED  BY <1>1, <1>2, <1>3, <1>4, <1>5 DEF Effect, Games, Maybe, TapFits

LEMMA TakeTap ==
    ASSUME Fitting, pending # <<>>
    PROVE  /\ Head(pending) \in Taps
           /\ Head(pending) = pending[1] /\ 1 \in 1..Len(pending)
           /\ Tail(pending) \in Seq(Taps)
           /\ Len(Tail(pending)) = Len(pending) - 1
           /\ \A n \in 1..Len(Tail(pending)) :
                 Tail(pending)[n] = pending[n + 1] /\ n + 1 \in 1..Len(pending)
           /\ TapFits(Head(pending))
<1>1. pending \in Seq(Taps)  BY DEF Fitting, TypeOK
<1>2. Head(pending) = pending[1] /\ 1 \in 1..Len(pending)  BY <1>1
<1>3. TapFits(Head(pending))
    BY <1>2 DEF Fitting, TapsFit
<1> QED  BY <1>1, <1>2, <1>3

LEMMA InitFits == Init => Fitting
<1> SUFFICES ASSUME Init PROVE Fitting  OBVIOUS
<1>1. game \in Games
    <2>1. PICK rows \in [Rows -> {"pending", "running", "finished"}] :
              game = [page |-> "summary", open |-> None, ships |-> FALSE, rows |-> rows]
        BY DEF Init
    <2> QED  BY <2>1 DEF Games, Pages, Maybe, Status
<1>2. TypeOK
    BY <1>1, CommissionAssumption DEF Init, TypeOK, Maybe, Calls, NoCall
<1> QED  BY <1>2 DEF Init, Fitting, CallFits, TapsFit, NoCall

LEMMA BeginFits == Fitting /\ Begin => Fitting'
<1> SUFFICES ASSUME Fitting, Begin PROVE Fitting'  OBVIOUS
<1>1. ctx' \in Contexts
    BY CommissionAssumption DEF Begin, Contexts, Maybe
<1>2. invocations' \in 0..MaxInvocations
    BY CommissionAssumption DEF Begin, Fitting, TypeOK
<1>3. TypeOK'
    BY <1>1, <1>2 DEF Begin, Fitting, TypeOK, Maybe
<1> QED  BY <1>3 DEF Begin, Fitting, CallFits, TapsFit, NoCall

LEMMA HandleFits == Fitting /\ Handle => Fitting'
<1> SUFFICES ASSUME Fitting, Handle PROVE Fitting'  OBVIOUS
<1>1. pending # <<>> /\ pending' = Tail(pending) /\ game' = Effect(game, Head(pending))
    BY DEF Handle
<1>2. game' \in Games
    BY <1>1, TakeTap, EffectType DEF Fitting, TypeOK
<1>3. gained' \in Nat
    BY CountType DEF Handle, Fitting, TypeOK
<1>4. started' \subseteq Rows
    BY DEF Handle, Fitting, TypeOK
<1>5. TypeOK'
    BY <1>1, <1>2, <1>3, <1>4, TakeTap DEF Handle, Fitting, TypeOK
<1>6. TapsFit'
    BY <1>1, TakeTap DEF Fitting, TapsFit
<1> QED  BY <1>5, <1>6 DEF Handle, Fitting, CallFits

LEMMA QuietFits ==
    ASSUME Fitting,
           \/ Publish \/ End \/ RewardPending \/ StartConfirmed \/ CallRaises \/ Waited
           \/ \E r \in Rows : Finish(r)
    PROVE  Fitting'
<1>1. CASE Publish
    BY <1>1 DEF Publish, Fitting, TypeOK, CallFits, TapsFit, history
<1>2. CASE End
    BY <1>2 DEF End, Fitting, TypeOK, CallFits, TapsFit, history, Maybe, NoCall
<1>3. CASE RewardPending
    <2>1. ctx \in Contexts  BY <1>3 DEF RewardPending, Calling, Fitting, TypeOK, Maybe
    <2>2. Detected \in Maybe(Nat)
        BY CountType DEF Detected, Maybe, Fitting, TypeOK
    <2>3. ctx' \in Contexts  BY <1>3, <2>1, <2>2 DEF RewardPending, Contexts
    <2> QED  BY <1>3, <2>3 DEF RewardPending, Calling, Quiet, history, Fitting, TypeOK,
                               CallFits, TapsFit, Maybe, NoCall
<1>4. CASE StartConfirmed
    <2>1. ctx \in Contexts /\ ctx.selected \in Rows
        BY <1>4 DEF StartConfirmed, Calling, Fitting, TypeOK, Maybe, Contexts
    <2>2. ctx' \in Contexts
        BY <1>4, <2>1 DEF StartConfirmed, Contexts, Maybe
    <2> QED  BY <1>4, <2>2 DEF StartConfirmed, Calling, Quiet, history, Fitting, TypeOK,
                               CallFits, TapsFit, Maybe, NoCall
<1>5. CASE CallRaises
    BY <1>5 DEF CallRaises, Fitting, TypeOK, CallFits, TapsFit, history, Calls, NoCall, Maybe
<1>6. CASE Waited
    <2>1. ctx \in Contexts /\ ctx' \in Contexts /\ caller' \in {"running", "leaving"}
        BY <1>6 DEF Waited, Fitting, TypeOK, CallFits, Maybe, Contexts
    <2> QED  BY <1>6, <2>1 DEF Waited, Fitting, TypeOK, CallFits, TapsFit, history, Calls,
                               NoCall, Maybe
<1>7. CASE \E r \in Rows : Finish(r)
    <2>1. PICK r \in Rows : Finish(r)  BY <1>7
    <2>2. game' \in Games
        BY <2>1 DEF Finish, Fitting, TypeOK, Games, Status
    <2> QED  BY <2>1, <2>2 DEF Finish, Fitting, TypeOK, CallFits, TapsFit, history
<1> QED  BY <1>1, <1>2, <1>3, <1>4, <1>5, <1>6, <1>7

\* What an asking action leaves: one well-formed call, and the context but for
\* the counter it has read.
LEMMA AskingShape ==
    ASSUME Fitting, Asking
    PROVE  /\ ctx \in Contexts /\ ctx' \in Contexts
           /\ call = NoCall /\ caller = "running"
           /\ call' \in Calls /\ call'.pc = "aim" /\ call'.op \in Inputs
           /\ call'.op = "finish" => ctx.rewardBudget > 0
           /\ call'.op = "start" => ctx.startBudget > 0
           /\ call'.op = "row" => call'.at \in Rows
           /\ call'.op = "close" => call'.at \in Popups /\ ctx.claimed /\ call'.at \notin ctx.closes
           /\ \E d \in Maybe(Nat) : ctx' = [ctx EXCEPT !.detected = d]
           /\ UNCHANGED <<game, pending, shown, caller, invocations, history>>
<1>0. ctx \in Contexts /\ call = NoCall /\ caller = "running"
    BY DEF Asking, AskFinish, AskGo, AskArrow, AskRecommend, AskStart, AskBack, AskLeave,
           AskClose, AskRow, Calling, Fitting, TypeOK, Maybe
<1>1. Detected \in Maybe(Nat)
    BY CountType DEF Detected, Maybe, Fitting, TypeOK
<1>2. ctx.selected \in Maybe(Rows) /\ ctx.detected \in Maybe(Nat)
    BY <1>0 DEF Contexts
<1>3. ctx = [ctx EXCEPT !.detected = ctx.detected]
    BY <1>0 DEF Contexts
<1>4. CASE AskFinish
    BY <1>4, <1>0, <1>1 DEF AskFinish, Ask, Calls, Inputs, Maybe, Contexts
<1>5. CASE AskGo \/ AskArrow \/ AskBack \/ AskLeave
    BY <1>5, <1>0, <1>2, <1>3 DEF AskGo, AskArrow, AskBack, AskLeave, Ask, Calls, Inputs, Maybe
<1>6. CASE AskRecommend \/ AskStart
    BY <1>6, <1>0, <1>2, <1>3 DEF AskRecommend, AskStart, Ask, Calls, Inputs, Maybe
<1>7. CASE \E p \in Popups : AskClose(p)
    BY <1>7, <1>0, <1>2, <1>3 DEF AskClose, Ask, Calls, Inputs, Maybe
<1>8. CASE \E r \in Rows : AskRow(r)
    BY <1>8, <1>0, <1>2, <1>3 DEF AskRow, Ask, Calls, Inputs, Maybe
<1> QED  BY <1>4, <1>5, <1>6, <1>7, <1>8 DEF Asking

LEMMA AskingFits == Fitting /\ Asking => Fitting'
<1> SUFFICES ASSUME Fitting, Asking PROVE Fitting'  OBVIOUS
<1>1. PICK d \in Maybe(Nat) : ctx' = [ctx EXCEPT !.detected = d]  BY AskingShape
<1>2. ctx'.rewardBudget = ctx.rewardBudget /\ ctx'.startBudget = ctx.startBudget
      /\ ctx'.claimed = ctx.claimed /\ ctx'.closes = ctx.closes
    BY <1>1, AskingShape DEF Contexts
<1>3. TypeOK'
    BY AskingShape DEF Fitting, TypeOK, history, Maybe
<1>4. CallFits'
    BY AskingShape, <1>2, NoneAssumption DEF CallFits
<1> QED  BY <1>3, <1>4, AskingShape DEF Fitting, TapsFit

NewTap == [op |-> call.op, at |-> call.at, run |-> invocations]

LEMMA InjectShape ==
    ASSUME Fitting, Inject
    PROVE  /\ ctx \in Contexts /\ caller = "running" /\ call.op \in Inputs
           /\ NewTap \in Taps
           /\ pending' \in Seq(Taps)
           /\ Len(pending') = Len(pending) + 1 /\ Len(pending) \in Nat
           /\ pending'[Len(pending) + 1] = NewTap
           /\ \A n \in 1..Len(pending) : pending'[n] = pending[n]
           /\ delivered' \in [finish : Nat, start : Nat]
           /\ TapsFit'
<1>1. call.pc = "aim" /\ call \in Calls /\ ctx \in Maybe(Contexts) /\ pending \in Seq(Taps)
      /\ invocations \in Nat
    BY CommissionAssumption DEF Inject, Fitting, TypeOK
<1>2. ctx \in Contexts /\ caller = "running" /\ call.op \in Inputs
    BY <1>1 DEF Fitting, CallFits, Calls, Maybe
<1>3. NewTap \in Taps
    BY <1>1, <1>2 DEF NewTap, Taps, Calls
<1>4. pending' = Append(pending, NewTap)
    BY DEF Inject, NewTap
<1>5. /\ pending' \in Seq(Taps)
      /\ Len(pending') = Len(pending) + 1 /\ Len(pending) \in Nat
      /\ pending'[Len(pending) + 1] = NewTap
      /\ \A n \in 1..Len(pending) : pending'[n] = pending[n]
    BY <1>1, <1>3, <1>4
<1>6. delivered' \in [finish : Nat, start : Nat]
    BY DEF Inject, Fitting, TypeOK
<1>7. TapsFit'
    <2>1. TapFits(NewTap)
        BY <1>1 DEF NewTap, TapFits, Fitting, CallFits
    <2> QED  BY <1>5, <2>1 DEF Fitting, TapsFit
<1> QED  BY <1>2, <1>3, <1>5, <1>6, <1>7

LEMMA TappingFits == Fitting /\ (TapReturns \/ TapRaisesLate) => Fitting'
<1> SUFFICES ASSUME Fitting, TapReturns \/ TapRaisesLate PROVE Fitting'  OBVIOUS
<1>1. Inject  BY DEF TapReturns, TapRaisesLate
<1>2. ctx' \in Contexts
    <2>1. CASE TapRaisesLate  BY <1>1, <2>1, InjectShape DEF TapRaisesLate
    <2>2. CASE TapReturns
        <3>1. call.op = "finish" => ctx.rewardBudget - 1 \in Nat
            BY <1>1, InjectShape DEF Inject, Fitting, CallFits, Contexts
        <3>2. call.op = "start" => ctx.startBudget - 1 \in Nat
            BY <1>1, InjectShape DEF Inject, Fitting, CallFits, Contexts
        <3>3. call.op = "row" => call.at \in Rows
            BY <1>1 DEF Inject, Fitting, CallFits
        <3>4. call.op = "close" => call.at \in Popups
            BY <1>1 DEF Inject, Fitting, CallFits
        <3>5. ctx' = Booked  BY <2>2 DEF TapReturns
        <3>6. ctx \in Contexts  BY <1>1, InjectShape
        <3>7. CASE call.op = "finish"
            BY <3>1, <3>5, <3>6, <3>7 DEF Booked, Contexts
        <3>8. CASE call.op = "close"
            BY <3>4, <3>5, <3>6, <3>8 DEF Booked, Contexts
        <3>9. CASE call.op = "row"
            BY <3>3, <3>5, <3>6, <3>9 DEF Booked, Contexts, Maybe
        <3>10. CASE call.op = "start"
            BY <3>2, <3>5, <3>6, <3>10 DEF Booked, Contexts
        <3>11. CASE call.op \notin {"finish", "close", "row", "start"}
            BY <3>5, <3>6, <3>11 DEF Booked
        <3> QED  BY <3>7, <3>8, <3>9, <3>10, <3>11
    <2> QED  BY <2>1, <2>2
<1>3. /\ call' \in Calls /\ caller' \in {"running", "leaving"}
      /\ call'.pc \in {"idle", "wait"}
      /\ call'.pc = "wait" => call'.op \in {"back", "leave"} /\ caller' = "running"
    <2>1. NoCall \in Calls /\ NoCall.pc = "idle"
        BY DEF NoCall, Calls, Maybe
    <2>2. CASE TapRaisesLate  BY <2>1, <2>2 DEF TapRaisesLate
    <2>3. CASE TapReturns
        <3>1. call \in Calls /\ caller' = "running"
            BY <1>1, <2>3, InjectShape DEF TapReturns, Fitting, TypeOK
        <3>2. CASE call.op \in {"back", "leave"}
            <4>1. call' = [call EXCEPT !.pc = "wait"]
                BY <2>3, <3>2 DEF TapReturns
            <4> QED  BY <3>1, <3>2, <4>1 DEF Calls
        <3>3. CASE call.op \notin {"back", "leave"}
            <4>1. call' = NoCall
                BY <2>3, <3>3 DEF TapReturns
            <4> QED  BY <2>1, <3>1, <4>1
        <3> QED  BY <3>2, <3>3
    <2> QED  BY <2>2, <2>3
<1>4. UNCHANGED <<game, shown, invocations, gained, started>>  BY <1>1 DEF Inject
<1>5. pending' \in Seq(Taps) /\ delivered' \in [finish : Nat, start : Nat] /\ TapsFit'
    BY <1>1, InjectShape
<1>6. TypeOK'
    <2>1. ctx' \in Maybe(Contexts)  BY <1>2 DEF Maybe
    <2>2. game' \in Games /\ shown' \in Games
        BY <1>4 DEF Fitting, TypeOK
    <2>3. invocations' \in 0..MaxInvocations /\ gained' \in Nat /\ started' \subseteq Rows
        BY <1>4 DEF Fitting, TypeOK
    <2> QED  BY <1>3, <1>5, <2>1, <2>2, <2>3 DEF TypeOK
<1>7. CallFits'
    <2>1. ctx' # None  BY <1>2, NoneAssumption
    <2>2. call'.pc # "idle" => caller' = "running" /\ call'.op \in {"back", "leave"}
        BY <1>3
    <2>3. call'.op \in {"back", "leave"} =>
              call'.op \in Inputs /\ call'.op \notin {"finish", "start", "row", "close"}
        BY DEF Inputs
    <2> QED  BY <2>1, <2>2, <2>3 DEF CallFits
<1> QED  BY <1>5, <1>6, <1>7 DEF Fitting

LEMMA FittingNext == Fitting /\ [Next]_vars => Fitting'
<1> SUFFICES ASSUME Fitting, [Next]_vars PROVE Fitting'  OBVIOUS
<1>1. CASE UNCHANGED vars
    BY <1>1 DEF vars, Fitting, TypeOK, CallFits, TapsFit
<1>2. CASE Next
    BY <1>2, BeginFits, HandleFits, QuietFits, AskingFits, TappingFits DEF Next, Game
<1> QED  BY <1>1, <1>2

LEMMA AlwaysFits == Spec => []Fitting
    BY InitFits, FittingNext, PTL DEF Spec

\* Budgets stay natural numbers, receipts and proofs name rows, and a tap fits
\* the control it is made on, for all rows, faces and budgets.
THEOREM TypeCorrect == Spec => []TypeOK
<1>1. Fitting => TypeOK  BY DEF Fitting
<1> QED  BY <1>1, AlwaysFits, PTL

(***************************************************************************)
(* The inputs are funded                                                   *)
(***************************************************************************)

Funded == Fitting /\ Ledger /\ InputsFunded

LEMMA FundedTap ==
    ASSUME Funded, TapReturns \/ TapRaisesLate
    PROVE  Ledger' /\ InputsFunded'
<1>1. Fitting /\ Inject  BY DEF Funded, TapReturns, TapRaisesLate
<1>2. /\ ctx \in Contexts /\ ctx # None /\ caller = "running"
      /\ delivered \in [finish : Nat, start : Nat]
      /\ call.op = "finish" => ctx.rewardBudget > 0
      /\ call.op = "start" => ctx.startBudget > 0
    BY <1>1, InjectShape, NoneAssumption DEF Inject, Fitting, TypeOK, CallFits
<1>3. /\ ctx.rewardBudget \in Nat /\ ctx.startBudget \in Nat
      /\ delivered.finish \in Nat /\ delivered.start \in Nat
    BY <1>2 DEF Contexts
<1>4. /\ delivered.finish + ctx.rewardBudget = RewardBudget
      /\ delivered.start + ctx.startBudget = StartBudget
    BY <1>2 DEF Funded, Ledger
<1>5. /\ delivered'.finish = delivered.finish + (IF call.op = "finish" THEN 1 ELSE 0)
      /\ delivered'.start = delivered.start + (IF call.op = "start" THEN 1 ELSE 0)
    BY <1>1, <1>2, <1>3 DEF Inject
<1>6. InputsFunded'
    BY <1>2, <1>3, <1>4, <1>5 DEF InputsFunded
<1>7. CASE TapReturns
    <2>1. ctx' = Booked  BY <1>7 DEF TapReturns
    <2>2. /\ ctx'.rewardBudget = ctx.rewardBudget - (IF call.op = "finish" THEN 1 ELSE 0)
          /\ ctx'.startBudget = ctx.startBudget - (IF call.op = "start" THEN 1 ELSE 0)
        BY <2>1, <1>2, <1>3 DEF Booked, Contexts
    <2>3. /\ delivered'.finish + ctx'.rewardBudget = RewardBudget
          /\ delivered'.start + ctx'.startBudget = StartBudget
        BY <1>3, <1>4, <1>5, <2>2
    <2>4. Ledger'  BY <2>3 DEF Ledger
    <2> QED  BY <1>6, <2>4
<1>8. CASE TapRaisesLate
    BY <1>6, <1>8 DEF TapRaisesLate, Ledger
<1> QED  BY <1>7, <1>8

LEMMA FundedNext == Funded /\ [Next]_vars => Funded'
<1> SUFFICES ASSUME Funded, [Next]_vars PROVE Funded'  OBVIOUS
<1>1. Fitting /\ Fitting'  BY FittingNext DEF Funded
<1>2. Ledger' /\ InputsFunded'
    <2>1. CASE UNCHANGED vars \/ Game
        BY <2>1 DEF vars, Game, Handle, Publish, Finish, history, Funded, Ledger, InputsFunded
    <2>2. CASE Begin
        BY <2>2, CommissionAssumption DEF Begin, Ledger, InputsFunded
    <2>3. CASE End \/ CallRaises
        BY <2>3 DEF End, CallRaises, history, Funded, Ledger, InputsFunded
    <2>4. CASE RewardPending \/ StartConfirmed
        <3>1. ctx \in Contexts
            BY <1>1, <2>4 DEF RewardPending, StartConfirmed, Calling, Fitting, TypeOK, Maybe
        <3>2. ctx # None /\ ctx'.rewardBudget = ctx.rewardBudget
              /\ ctx'.startBudget = ctx.startBudget
            BY <2>4, <3>1 DEF RewardPending, StartConfirmed, Calling, Contexts
        <3> QED  BY <2>4, <3>2 DEF RewardPending, StartConfirmed, Calling, Quiet, history,
                                   Funded, Ledger, InputsFunded
    <2>5. CASE Asking
        <3>1. PICK d \in Maybe(Nat) : ctx' = [ctx EXCEPT !.detected = d]
            BY <1>1, <2>5, AskingShape
        <3>2. ctx # None /\ ctx'.rewardBudget = ctx.rewardBudget
              /\ ctx'.startBudget = ctx.startBudget
            BY <1>1, <2>5, <3>1, AskingShape, NoneAssumption DEF Contexts
        <3> QED  BY <1>1, <2>5, <3>2, AskingShape DEF history, Funded, Ledger, InputsFunded
    <2>6. CASE TapReturns \/ TapRaisesLate
        BY <2>6, FundedTap
    <2>7. CASE Waited
        <3>1. ctx \in Contexts /\ ctx # None /\ caller = "running"
            BY <1>1, <2>7, NoneAssumption DEF Waited, Fitting, TypeOK, CallFits, Maybe
        <3>2. ctx'.rewardBudget = ctx.rewardBudget /\ ctx'.startBudget = ctx.startBudget
            BY <2>7, <3>1 DEF Waited, Contexts
        <3> QED  BY <2>7, <3>1, <3>2 DEF Waited, history, Funded, Ledger, InputsFunded
    <2> QED  BY <2>1, <2>2, <2>3, <2>4, <2>5, <2>6, <2>7 DEF Next
<1> QED  BY <1>1, <1>2 DEF Funded

\* In no invocation does the game get more finish or start inputs than were
\* granted, for all budgets, rows and queues of unhandled taps.
THEOREM FundedInputs == Spec => []InputsFunded
<1>1. Init => Funded
    <2> SUFFICES ASSUME Init PROVE Funded  OBVIOUS
    <2>1. Fitting  BY InitFits
    <2>2. Ledger /\ InputsFunded
        BY CommissionAssumption DEF Init, Ledger, InputsFunded
    <2> QED  BY <2>1, <2>2 DEF Funded
<1>2. Funded => InputsFunded  BY DEF Funded
<1> QED  BY <1>1, <1>2, FundedNext, PTL DEF Spec

(***************************************************************************)
(* A close lands on its popup                                              *)
(***************************************************************************)

Landing == Fitting /\ PopupsAhead

\* Only what is on top of the popups takes a tap.
LEMMA PopupTakesCloses ==
    ASSUME NEW g \in Games, NEW t \in Taps, g.page \in Popups, t.op # "close"
    PROVE  Effect(g, t) = g
BY DEF Effect, Popups

\* A popup that is under way to be closed has its receipt.
LEMMA ClosesBooked ==
    ASSUME Landing, ctx # None, caller = "running", ctx.claimed, CloseUnderWay,
           shown.page \in Popups
    PROVE  shown.page \in ctx.closes
BY DEF Landing, PopupsAhead

LEMMA HandleLands == Landing /\ Handle => PopupsAhead'
<1> SUFFICES ASSUME Landing, Handle PROVE PopupsAhead'  OBVIOUS
<1>1. /\ Fitting /\ pending # <<>> /\ pending' = Tail(pending)
      /\ game' = Effect(game, Head(pending))
      /\ UNCHANGED <<shown, ctx, caller>>
    BY DEF Landing, Handle
<1>2. /\ Head(pending) = pending[1] /\ 1 \in 1..Len(pending)
      /\ Head(pending) \in Taps /\ game \in Games
      /\ Len(pending') = Len(pending) - 1 /\ Len(pending) \in Nat
      /\ \A n \in 1..Len(pending') : pending'[n] = pending[n + 1] /\ n + 1 \in 1..Len(pending)
    BY <1>1, TakeTap DEF Fitting, TypeOK
<1>3. ASSUME game.page \in Popups, Head(pending).op # "close"
      PROVE  game' = game
    BY <1>1, <1>2, <1>3, PopupTakesCloses
<1>4. ASSUME NEW n \in 1..Len(pending'), pending'[n].op = "close"
      PROVE  /\ game'.page = pending'[n].at /\ shown'.page = pending'[n].at
             /\ \A k \in 1..Len(pending') : pending'[k].op = "close" => k = n
    <2>1. n + 1 \in 1..Len(pending) /\ pending[n + 1].op = "close"
          /\ pending'[n] = pending[n + 1] /\ n \in Nat
        BY <1>2, <1>4
    <2>2. /\ game.page = pending[n + 1].at /\ shown.page = pending[n + 1].at
          /\ \A k \in 1..Len(pending) : pending[k].op = "close" => k = n + 1
        BY <2>1 DEF Landing, PopupsAhead
    <2>3. Head(pending).op # "close"
        <3>1. 1 # n + 1  BY <1>4
        <3> QED  BY <1>2, <2>2, <3>1
    <2>4. game.page \in Popups
        <3>1. TapFits(pending[n + 1])  BY <1>1, <2>1 DEF Fitting, TapsFit
        <3> QED  BY <2>1, <2>2, <3>1 DEF TapFits
    <2>5. game' = game  BY <1>3, <2>3, <2>4
    <2>6. \A k \in 1..Len(pending') : pending'[k].op = "close" => k = n
        <3> TAKE k \in 1..Len(pending')
        <3>1. HAVE pending'[k].op = "close"
        <3>2. k + 1 = n + 1  BY <1>2, <2>2, <3>1
        <3> QED  BY <2>1, <3>2
    <2> QED  BY <1>1, <2>1, <2>2, <2>5, <2>6
<1>5. ASSUME ctx' # None, caller' = "running", ctx'.claimed, shown'.page \in Popups \ ctx'.closes
      PROVE  game'.page = shown'.page /\ ~CloseUnderWay'
    <2>1. game.page = shown.page /\ ~CloseUnderWay /\ game.page \in Popups
        BY <1>1, <1>5 DEF Landing, PopupsAhead
    <2>2. Head(pending).op # "close"
        BY <1>2, <2>1 DEF CloseUnderWay
    <2>3. game' = game  BY <1>3, <2>1, <2>2
    <2>4. ~CloseUnderWay'
        BY <1>2, <2>1 DEF CloseUnderWay
    <2> QED  BY <1>1, <2>1, <2>3, <2>4
<1> QED  BY <1>4, <1>5 DEF PopupsAhead

LEMMA TapLands == Landing /\ (TapReturns \/ TapRaisesLate) => PopupsAhead'
<1> SUFFICES ASSUME Landing, TapReturns \/ TapRaisesLate PROVE PopupsAhead'  OBVIOUS
<1>1. Fitting /\ Inject  BY DEF Landing, TapReturns, TapRaisesLate
<1>2. /\ ctx \in Contexts /\ ctx # None /\ caller = "running"
      /\ Len(pending') = Len(pending) + 1 /\ Len(pending) \in Nat
      /\ pending'[Len(pending) + 1] = NewTap
      /\ \A n \in 1..Len(pending) : pending'[n] = pending[n]
      /\ UNCHANGED <<game, shown>>
      /\ call.op = "close" => call.at \in Popups /\ ctx.claimed /\ call.at \notin ctx.closes
    BY <1>1, InjectShape, NoneAssumption DEF Inject, Fitting, CallFits
<1>3. NewTap.op = call.op /\ NewTap.at = call.at  BY DEF NewTap
<1>4. CASE call.op = "close"
    <2>1. /\ shown.page = call.at /\ game.page = call.at
          /\ ~CloseUnderWay
        BY <1>1, <1>2, <1>4 DEF Inject, Visible, Landing, PopupsAhead
    <2>2. \A n \in 1..Len(pending') : pending'[n].op = "close" => n = Len(pending) + 1
        BY <1>2, <2>1 DEF CloseUnderWay
    <2>3. caller' = "leaving" \/ (ctx' = Booked /\ caller' = "running")
        BY <1>2 DEF TapReturns, TapRaisesLate
    <2>4. ctx' = Booked => shown.page \in ctx'.closes
        BY <1>2, <1>4, <2>1 DEF Booked, Contexts
    <2>5. caller' = "running" => shown'.page \notin Popups \ ctx'.closes
        BY <1>2, <2>3, <2>4
    <2> QED  BY <1>2, <1>3, <2>1, <2>2, <2>5 DEF PopupsAhead
<1>5. CASE call.op # "close"
    <2>1. \A n \in 1..Len(pending') : pending'[n].op = "close" =>
              n \in 1..Len(pending) /\ pending'[n] = pending[n]
        BY <1>2, <1>3, <1>5
    <2>2. CloseUnderWay' => CloseUnderWay
        BY <2>1 DEF CloseUnderWay
    <2>3. ASSUME ctx' # None, caller' = "running", ctx'.claimed, shown'.page \in Popups \ ctx'.closes
          PROVE  game'.page = shown'.page /\ ~CloseUnderWay'
        <3>1. ctx' = Booked  BY <2>3 DEF TapReturns, TapRaisesLate
        <3>2. call.op # "finish"
            BY <1>1, <1>2, <2>3 DEF Inject, Visible, Popups
        <3>3. ctx'.claimed = ctx.claimed /\ ctx'.closes = ctx.closes
            BY <1>2, <1>5, <3>1, <3>2 DEF Booked, Contexts
        <3> QED  BY <1>2, <2>2, <2>3, <3>3 DEF Landing, PopupsAhead
    <2>4. ASSUME NEW n \in 1..Len(pending'), pending'[n].op = "close"
          PROVE  /\ game'.page = pending'[n].at /\ shown'.page = pending'[n].at
                 /\ \A k \in 1..Len(pending') : pending'[k].op = "close" => k = n
        BY <1>2, <2>1, <2>4 DEF Landing, PopupsAhead
    <2> QED  BY <2>3, <2>4 DEF PopupsAhead
<1> QED  BY <1>4, <1>5

LEMMA LandingNext == Landing /\ [Next]_vars => Landing'
<1> SUFFICES ASSUME Landing, [Next]_vars PROVE Landing'  OBVIOUS
<1>1. Fitting /\ Fitting'  BY FittingNext DEF Landing
<1>2. PopupsAhead'
    <2>1. CASE UNCHANGED vars
        BY <2>1 DEF vars, Landing, PopupsAhead, CloseUnderWay
    <2>2. CASE Handle  BY <2>2, HandleLands
    <2>3. CASE Publish
        <3>1. /\ UNCHANGED <<game, pending, ctx, caller>> /\ shown' = game
            BY <2>3 DEF Publish
        <3>2. ASSUME ctx # None, caller = "running", ctx.claimed, game.page \in Popups \ ctx.closes
              PROVE  ~CloseUnderWay
            <4>1. ASSUME CloseUnderWay PROVE FALSE
                <5>1. shown.page = game.page
                    BY <4>1 DEF CloseUnderWay, Landing, PopupsAhead
                <5> QED  BY <3>2, <4>1, <5>1, ClosesBooked
            <4> QED  BY <4>1
        <3> QED  BY <3>1, <3>2 DEF Landing, PopupsAhead, CloseUnderWay
    <2>4. CASE \E r \in Rows : Finish(r)
        <3>1. PICK r \in Rows : Finish(r)  BY <2>4
        <3>2. game'.page = game.page
            BY <1>1, <3>1 DEF Finish, Fitting, TypeOK, Games
        <3> QED  BY <3>1, <3>2 DEF Finish, Landing, PopupsAhead, CloseUnderWay
    <2>5. CASE Begin
        BY <2>5 DEF Begin, Landing, PopupsAhead, CloseUnderWay
    <2>6. CASE End \/ CallRaises
        BY <2>6 DEF End, CallRaises, Landing, PopupsAhead, CloseUnderWay
    <2>7. CASE RewardPending \/ StartConfirmed
        <3>1. ctx \in Contexts
            BY <1>1, <2>7 DEF RewardPending, StartConfirmed, Calling, Fitting, TypeOK, Maybe
        <3>2. ctx # None /\ ctx'.claimed = ctx.claimed /\ ctx'.closes = ctx.closes
            BY <2>7, <3>1 DEF RewardPending, StartConfirmed, Calling, Contexts
        <3> QED  BY <2>7, <3>2 DEF RewardPending, StartConfirmed, Quiet, Landing, PopupsAhead,
                                   CloseUnderWay
    <2>8. CASE Asking
        <3>1. PICK d \in Maybe(Nat) : ctx' = [ctx EXCEPT !.detected = d]
            BY <1>1, <2>8, AskingShape
        <3>2. ctx # None /\ ctx'.claimed = ctx.claimed /\ ctx'.closes = ctx.closes
            BY <1>1, <2>8, <3>1, AskingShape, NoneAssumption DEF Contexts
        <3> QED  BY <1>1, <2>8, <3>2, AskingShape DEF Landing, PopupsAhead, CloseUnderWay
    <2>9. CASE TapReturns \/ TapRaisesLate  BY <2>9, TapLands
    <2>10. CASE Waited
        <3>1. ctx \in Contexts /\ ctx # None /\ caller = "running"
            BY <1>1, <2>10, NoneAssumption DEF Waited, Fitting, TypeOK, CallFits, Maybe
        <3>2. ctx'.claimed = ctx.claimed /\ ctx'.closes = ctx.closes
            BY <2>10, <3>1 DEF Waited, Contexts
        <3> QED  BY <2>10, <3>1, <3>2 DEF Waited, Landing, PopupsAhead, CloseUnderWay
    <2> QED  BY <2>1, <2>2, <2>3, <2>4, <2>5, <2>6, <2>7, <2>8, <2>9, <2>10 DEF Next, Game
<1> QED  BY <1>1, <1>2 DEF Landing

\* A close input is handled by the popup it was made for, for all queues of
\* unhandled taps and wherever a call raises.
THEOREM ClosesAlwaysLand == Spec => ClosesLand
<1>1. Init => Landing
    <2> SUFFICES ASSUME Init PROVE Landing  OBVIOUS
    <2>1. Fitting  BY InitFits
    <2>2. PopupsAhead  BY DEF Init, PopupsAhead
    <2> QED  BY <2>1, <2>2 DEF Landing
<1>2. Landing =>
          ((pending # <<>> /\ pending' = Tail(pending) /\ Head(pending).op = "close")
              => game.page = Head(pending).at)
    <2> SUFFICES ASSUME Landing, pending # <<>>, Head(pending).op = "close"
                 PROVE  game.page = Head(pending).at
        OBVIOUS
    <2>1. Head(pending) = pending[1] /\ 1 \in 1..Len(pending)
        BY TakeTap DEF Landing
    <2> QED  BY <2>1 DEF Landing, PopupsAhead
<1> QED  BY <1>1, <1>2, LandingNext, PTL DEF Spec, ClosesLand

(***************************************************************************)
(* A start input starts what was selected                                  *)
(***************************************************************************)

\* The page whose control a tap is made for.
Home(t) ==
    CASE t.op \in {"finish", "go"}                 -> "summary"
      [] t.op \in {"back", "arrow", "row"}         -> "list"
      [] t.op \in {"recommend", "start", "leave"}  -> "detail"
      [] t.op = "close"                            -> t.at

\* The taps under way were made for two pages at most: those left over from the
\* page before the one that is on top, which meet nothing, and then those for
\* the page on top.  While the publication lags behind a change of page there
\* are only taps for the page it shows, and the game cannot leave the new one.
OneAhead ==
    /\ shown.page = game.page =>
           \A n \in 1..Len(pending) : Home(pending[n]) # game.page =>
               \A k \in 1..n : Home(pending[k]) # game.page
    /\ shown.page # game.page =>
           \A n \in 1..Len(pending) : Home(pending[n]) = shown.page

\* So the detail that is read is the one that is open when the tap is handled.
DetailRead ==
    /\ (shown.page = "detail" /\ game.page = "detail") => shown.open = game.open
    /\ (call.pc # "idle" /\ call.op = "start") => call.at = ctx.selected
    /\ \A n \in 1..Len(pending) :
          (game.page = "detail" /\ pending[n].op = "start") =>
              game.open \in ZeroOil /\ FaceOf[game.open] = FaceOf[pending[n].at]

Aimed == Landing /\ OneAhead /\ DetailRead

\* A tap that meets another page than its own does nothing, and no tap opens a
\* detail from within a detail.
LEMMA HomeTakesTaps ==
    ASSUME NEW g \in Games, NEW t \in Taps, TapFits(t)
    PROVE  /\ (Home(t) # g.page /\ t.op # "close") => Effect(g, t) = g
           /\ Effect(g, t).page = g.page =>
                  Effect(g, t).open = g.open
<1>1. g.page \in Pages /\ t.op \in Inputs  BY DEF Games, Taps
<1>2. (Home(t) # g.page /\ t.op # "close") => Effect(g, t) = g
    BY <1>1 DEF Home, Effect, Inputs, Pages, Popups
<1>3. Effect(g, t).page = g.page => Effect(g, t).open = g.open
    BY <1>1 DEF Effect, Inputs, Pages, Popups, Closed, Games
<1> QED  BY <1>2, <1>3

\* A start input is what sets a row running.
LEMMA StartsRun ==
    ASSUME NEW g \in Games, NEW t \in Taps, NEW r \in Rows,
           g.rows[r] = "pending", Effect(g, t).rows[r] = "running"
    PROVE  g.page = "detail" /\ t.op = "start" /\ g.open = r
<1>1. g.page \in Pages /\ t.op \in Inputs /\ g.rows \in [Rows -> Status]  BY DEF Games, Taps
<1> QED  BY <1>1 DEF Effect, Closed, Games, Finished

LEMMA HandleAims == Aimed /\ Handle => OneAhead' /\ DetailRead'
<1> SUFFICES ASSUME Aimed, Handle PROVE OneAhead' /\ DetailRead'  OBVIOUS
<1>1. /\ Fitting /\ pending # <<>> /\ pending' = Tail(pending)
      /\ game' = Effect(game, Head(pending))
      /\ UNCHANGED <<shown, ctx, call>>
    BY DEF Aimed, Landing, Handle
<1>2. /\ Head(pending) = pending[1] /\ 1 \in 1..Len(pending)
      /\ Head(pending) \in Taps /\ game \in Games /\ TapFits(Head(pending))
      /\ Len(pending') = Len(pending) - 1 /\ Len(pending) \in Nat
      /\ \A n \in 1..Len(pending') : pending'[n] = pending[n + 1] /\ n + 1 \in 1..Len(pending)
    BY <1>1, TakeTap DEF Fitting, TypeOK
<1>3. Head(pending).op = "close" => Home(Head(pending)) = game.page
    BY <1>2 DEF Aimed, Landing, PopupsAhead, Home
<1>4. Home(Head(pending)) # game.page => game' = game
    BY <1>1, <1>2, <1>3, HomeTakesTaps
<1>5. game'.page = game.page => game'.open = game.open
    BY <1>1, <1>2, HomeTakesTaps
<1>6. CASE game'.page = game.page
    <2>1. OneAhead'
        <3>1. CASE shown.page = game.page
            <4>1. ASSUME NEW n \in 1..Len(pending'), Home(pending'[n]) # game.page,
                         NEW k \in 1..n
                  PROVE  Home(pending'[k]) # game.page
                <5>1. n \in Nat /\ k \in 1..Len(pending') /\ k + 1 \in 1..(n + 1)
                    BY <1>2
                <5>2. pending'[n] = pending[n + 1] /\ n + 1 \in 1..Len(pending)
                      /\ pending'[k] = pending[k + 1]
                    BY <1>2, <5>1
                <5> QED  BY <3>1, <4>1, <5>1, <5>2 DEF Aimed, OneAhead
            <4> QED  BY <1>1, <1>6, <3>1, <4>1 DEF OneAhead
        <3>2. CASE shown.page # game.page
            BY <1>1, <1>2, <1>6, <3>2 DEF Aimed, OneAhead
        <3> QED  BY <3>1, <3>2
    <2>2. DetailRead'
        BY <1>1, <1>2, <1>5, <1>6 DEF Aimed, DetailRead
    <2> QED  BY <2>1, <2>2
<1>7. CASE game'.page # game.page
    <2>1. Home(pending[1]) = game.page
        BY <1>2, <1>4, <1>7
    <2>2. shown.page = game.page
        BY <1>2, <2>1 DEF Aimed, OneAhead
    <2>3. ASSUME NEW n \in 1..Len(pending)
          PROVE  Home(pending[n]) = game.page
        <3>1. 1 \in 1..n  BY <2>3
        <3> QED  BY <2>1, <2>2, <3>1 DEF Aimed, OneAhead
    <2>4. \A n \in 1..Len(pending') : Home(pending'[n]) = shown'.page
        BY <1>1, <1>2, <2>2, <2>3
    <2>5. OneAhead'
        BY <1>1, <1>7, <2>2, <2>4 DEF OneAhead
    <2>6. \A n \in 1..Len(pending') : pending'[n].op = "start" => game'.page # "detail"
        <3> SUFFICES ASSUME NEW n \in 1..Len(pending'), pending'[n].op = "start"
                     PROVE  game'.page # "detail"
            OBVIOUS
        <3>1. Home(pending'[n]) = "detail"  BY DEF Home
        <3> QED  BY <1>1, <1>7, <2>2, <2>4, <3>1
    <2>7. DetailRead'
        BY <1>1, <1>7, <2>2, <2>6 DEF Aimed, DetailRead
    <2> QED  BY <2>5, <2>7
<1> QED  BY <1>6, <1>7

LEMMA PublishAims == Aimed /\ Publish => OneAhead' /\ DetailRead'
<1> SUFFICES ASSUME Aimed, Publish PROVE OneAhead' /\ DetailRead'  OBVIOUS
<1>1. UNCHANGED <<game, pending, ctx, call>> /\ shown' = game  BY DEF Publish
<1>2. OneAhead'
    <2>1. CASE shown.page = game.page
        BY <1>1, <2>1 DEF Aimed, OneAhead
    <2>2. CASE shown.page # game.page
        <3>1. \A n \in 1..Len(pending) : Home(pending[n]) # game.page
            BY <2>2 DEF Aimed, OneAhead
        <3>2. pending \in Seq(Taps)  BY DEF Aimed, Landing, Fitting, TypeOK
        <3>3. \A n \in 1..Len(pending) : \A k \in 1..n : k \in 1..Len(pending)
            BY <3>2
        <3> QED  BY <1>1, <3>1, <3>3 DEF OneAhead
    <2> QED  BY <2>1, <2>2
<1>3. DetailRead'  BY <1>1 DEF Aimed, DetailRead
<1> QED  BY <1>2, <1>3

LEMMA TapAims == Aimed /\ (TapReturns \/ TapRaisesLate) => OneAhead' /\ DetailRead'
<1> SUFFICES ASSUME Aimed, TapReturns \/ TapRaisesLate PROVE OneAhead' /\ DetailRead'  OBVIOUS
<1>1. Fitting /\ Inject  BY DEF Aimed, Landing, TapReturns, TapRaisesLate
<1>2. /\ ctx \in Contexts /\ ctx # None /\ call.op \in Inputs
      /\ Len(pending') = Len(pending) + 1 /\ Len(pending) \in Nat
      /\ pending'[Len(pending) + 1] = NewTap
      /\ \A n \in 1..Len(pending) : pending'[n] = pending[n]
      /\ UNCHANGED <<game, shown>> /\ Visible
    BY <1>1, InjectShape, NoneAssumption DEF Inject
<1>3. NewTap.op = call.op /\ NewTap.at = call.at  BY DEF NewTap
<1>4. Home(NewTap) = shown.page
    BY <1>2, <1>3 DEF Home, Visible, Inputs, ShowsSelected, StartVisible
<1>5. \A n \in 1..Len(pending') : n \in 1..Len(pending) \/ n = Len(pending) + 1
    BY <1>2
<1>6. OneAhead'
    <2>1. CASE shown.page = game.page
        <3>1. ASSUME NEW n \in 1..Len(pending'), Home(pending'[n]) # game.page, NEW k \in 1..n
              PROVE  Home(pending'[k]) # game.page
            <4>1. n \in 1..Len(pending) /\ pending'[n] = pending[n]
                BY <1>2, <1>4, <1>5, <2>1, <3>1
            <4>2. k \in 1..Len(pending)
                BY <1>2, <4>1
            <4> QED  BY <1>2, <2>1, <3>1, <4>1, <4>2 DEF Aimed, OneAhead
        <3> QED  BY <1>2, <2>1, <3>1 DEF OneAhead
    <2>2. CASE shown.page # game.page
        BY <1>2, <1>4, <1>5, <2>2 DEF Aimed, OneAhead
    <2> QED  BY <2>1, <2>2
<1>7. ASSUME NEW n \in 1..Len(pending'), game.page = "detail", pending'[n].op = "start"
      PROVE  game.open \in ZeroOil /\ FaceOf[game.open] = FaceOf[pending'[n].at]
    <2>1. CASE n \in 1..Len(pending)
        BY <1>2, <1>7, <2>1 DEF Aimed, DetailRead
    <2>2. CASE n = Len(pending) + 1
        <3>1. call.op = "start" /\ pending'[n].at = call.at
            BY <1>2, <1>3, <1>7, <2>2
        <3>2. StartVisible /\ call.at = ctx.selected
            BY <1>1, <1>2, <3>1 DEF Inject, Visible, Aimed, DetailRead
        <3>3. shown.page = "detail" /\ shown.open \in ZeroOil
              /\ FaceOf[shown.open] = FaceOf[call.at]
            BY <3>2 DEF StartVisible, ShowsSelected
        <3>4. shown.open = game.open
            BY <1>7, <3>3 DEF Aimed, DetailRead
        <3> QED  BY <3>1, <3>3, <3>4
    <2> QED  BY <1>5, <2>1, <2>2
<1>8. (call'.pc # "idle" /\ call'.op = "start") => call'.at = ctx'.selected
    <2>1. call' = NoCall \/ call'.op \in {"back", "leave"}
        BY <1>1 DEF TapReturns, TapRaisesLate, Fitting, TypeOK, Calls
    <2> QED  BY <2>1 DEF NoCall
<1>9. DetailRead'
    BY <1>2, <1>7, <1>8 DEF Aimed, DetailRead
<1> QED  BY <1>6, <1>9

LEMMA AimedNext == Aimed /\ [Next]_vars => Aimed'
<1> SUFFICES ASSUME Aimed, [Next]_vars PROVE Aimed'  OBVIOUS
<1>1. Landing /\ Landing' /\ Fitting  BY LandingNext DEF Aimed, Landing
<1>2. OneAhead' /\ DetailRead'
    <2>1. CASE UNCHANGED vars
        BY <2>1 DEF vars, Aimed, OneAhead, DetailRead
    <2>2. CASE Handle  BY <2>2, HandleAims
    <2>3. CASE Publish  BY <2>3, PublishAims
    <2>4. CASE \E r \in Rows : Finish(r)
        <3>1. PICK r \in Rows : Finish(r)  BY <2>4
        <3>2. /\ game'.page = game.page /\ game'.open = game.open
              /\ UNCHANGED <<pending, shown, ctx, call>>
            BY <1>1, <3>1 DEF Finish, Fitting, TypeOK, Games
        <3> QED  BY <3>2 DEF Aimed, OneAhead, DetailRead
    <2>5. CASE Begin \/ End \/ CallRaises
        <3>1. /\ UNCHANGED <<game, pending, shown>>
              /\ call'.pc = "idle"
            BY <2>5 DEF Begin, End, CallRaises, NoCall
        <3> QED  BY <3>1 DEF Aimed, OneAhead, DetailRead
    <2>6. CASE RewardPending \/ StartConfirmed
        <3>1. UNCHANGED <<game, pending, shown>> /\ call'.pc = "idle"
            BY <2>6 DEF RewardPending, StartConfirmed, Calling, Quiet, NoCall
        <3> QED  BY <3>1 DEF Aimed, OneAhead, DetailRead
    <2>7. CASE Asking
        <3>1. UNCHANGED <<game, pending, shown>>  BY <1>1, <2>7, AskingShape
        <3>2. PICK d \in Maybe(Nat) : ctx' = [ctx EXCEPT !.detected = d]
            BY <1>1, <2>7, AskingShape
        <3>3. ctx'.selected = ctx.selected
            BY <1>1, <2>7, <3>2, AskingShape DEF Contexts
        <3>4. call'.op = "start" => call'.at = ctx.selected
            BY <2>7 DEF Asking, AskFinish, AskGo, AskArrow, AskRecommend, AskStart, AskBack,
                        AskLeave, AskClose, AskRow, Ask
        <3> QED  BY <3>1, <3>3, <3>4 DEF Aimed, OneAhead, DetailRead
    <2>8. CASE TapReturns \/ TapRaisesLate  BY <2>8, TapAims
    <2>9. CASE Waited
        <3>1. UNCHANGED <<game, pending, shown>> /\ call'.pc = "idle"
            BY <2>9 DEF Waited, NoCall
        <3> QED  BY <3>1 DEF Aimed, OneAhead, DetailRead
    <2> QED  BY <2>1, <2>2, <2>3, <2>4, <2>5, <2>6, <2>7, <2>8, <2>9 DEF Next, Game
<1> QED  BY <1>1, <1>2 DEF Aimed

\* A start input sets running the selected row, or one that looks the same, and
\* none that costs oil, for all rows, faces and queues of unhandled taps,
\* although the detail is read before the input is handled.
THEOREM StartsSelected == Spec => StartsAsSelected
<1>1. Init => Aimed
    <2> SUFFICES ASSUME Init PROVE Aimed  OBVIOUS
    <2>1. Fitting  BY InitFits
    <2> QED  BY <2>1 DEF Init, NoCall, Aimed, Landing, PopupsAhead, OneAhead, DetailRead
<1>2. ASSUME Aimed, [Next]_vars, NEW r \in Rows,
             game.rows[r] = "pending", game'.rows[r] = "running"
      PROVE  r \in ZeroOil /\ FaceOf[r] = FaceOf[Head(pending).at]
    <2>1. Fitting  BY <1>2 DEF Aimed, Landing
    <2>2. Handle
        <3>1. CASE UNCHANGED vars  BY <1>2, <3>1 DEF vars
        <3>2. CASE \E q \in Rows : Finish(q)
            <4>1. PICK q \in Rows : Finish(q)  BY <3>2
            <4> QED  BY <1>2, <2>1, <4>1 DEF Finish, Fitting, TypeOK, Games
        <3>3. CASE Publish \/ Begin \/ End \/ RewardPending \/ StartConfirmed \/ CallRaises
                   \/ Waited
            <4>1. game' = game
                BY <3>3 DEF Publish, Begin, End, RewardPending, StartConfirmed, CallRaises,
                            Waited, Quiet
            <4> QED  BY <1>2, <4>1
        <3>4. CASE Asking
            BY <1>2, <2>1, <3>4, AskingShape
        <3>5. CASE TapReturns \/ TapRaisesLate
            BY <1>2, <3>5 DEF TapReturns, TapRaisesLate, Inject
        <3> QED  BY <1>2, <3>1, <3>2, <3>3, <3>4, <3>5 DEF Next, Game
    <2>3. /\ pending # <<>> /\ game' = Effect(game, Head(pending))
          /\ Head(pending) = pending[1] /\ 1 \in 1..Len(pending)
          /\ game \in Games /\ Head(pending) \in Taps
        BY <2>1, <2>2, TakeTap DEF Handle, Fitting, TypeOK
    <2>4. game.page = "detail" /\ Head(pending).op = "start" /\ game.open = r
        BY <1>2, <2>3, StartsRun
    <2> QED  BY <1>2, <2>3, <2>4 DEF Aimed, DetailRead
<1>3. Aimed /\ [Next]_vars =>
          [\A r \in Rows :
              (game.rows[r] = "pending" /\ game'.rows[r] = "running") =>
                  /\ r \in ZeroOil
                  /\ FaceOf[r] = FaceOf[Head(pending).at]]_vars
    BY <1>2
<1> QED  BY <1>1, <1>3, AimedNext, PTL DEF Spec, StartsAsSelected

(***************************************************************************)
(* A start proof is true                                                   *)
(***************************************************************************)

Known == Fitting /\ RowsKnown /\ StartProofTrue

\* What the proof depends on: the game, its publication, the queue, the started
\* rows, and of the context the selection and the proof.
LEMMA KnownStays ==
    ASSUME Known, UNCHANGED <<game, pending, shown, started>>,
           ctx' = None \/ (/\ ctx # None /\ ctx' # None
                           /\ ctx'.selected = ctx.selected
                           /\ ctx'.startProof = ctx.startProof)
    PROVE  RowsKnown' /\ StartProofTrue'
<1>1. Startable' = Startable  BY DEF Startable
<1> QED  BY <1>1 DEF Known, RowsKnown, StartProofTrue

\* A tap sets no row back to pending, and opens no detail but that of its row.
LEMMA EffectRows ==
    ASSUME NEW g \in Games, NEW t \in Taps, TapFits(t)
    PROVE  /\ \A r \in Rows : g.rows[r] = "pending" => Effect(g, t).rows[r] \in {"pending", "running"}
           /\ \A r \in Rows : g.rows[r] # "pending" => Effect(g, t).rows[r] # "pending"
           /\ Effect(g, t).page = "detail" =>
                  \/ g.page = "detail" /\ Effect(g, t).open = g.open
                  \/ t.op = "row" /\ Effect(g, t).open = t.at
<1>1. g.page \in Pages /\ g.rows \in [Rows -> Status] /\ g = [g EXCEPT !.page = g.page]
    BY DEF Games
<1> QED  BY <1>1 DEF Effect, Closed, Finished, Games

LEMMA HandleKnows == Known /\ Handle => RowsKnown' /\ StartProofTrue'
<1> SUFFICES ASSUME Known, Handle PROVE RowsKnown' /\ StartProofTrue'  OBVIOUS
<1>1. /\ Fitting /\ pending # <<>> /\ pending' = Tail(pending)
      /\ game' = Effect(game, Head(pending))
      /\ started' = started \union {r \in Rows : game.rows[r] = "pending" /\ game'.rows[r] = "running"}
      /\ UNCHANGED <<shown, ctx>>
    BY DEF Known, Handle
<1>2. /\ Head(pending) = pending[1] /\ 1 \in 1..Len(pending) /\ TapFits(Head(pending))
      /\ Head(pending) \in Taps /\ game \in Games
      /\ \A n \in 1..Len(pending') : pending'[n] = pending[n + 1] /\ n + 1 \in 1..Len(pending)
    BY <1>1, TakeTap DEF Fitting, TypeOK
<1>3. /\ \A r \in Rows : game.rows[r] = "pending" => game'.rows[r] \in {"pending", "running"}
      /\ \A r \in Rows : game.rows[r] # "pending" => game'.rows[r] # "pending"
      /\ game'.page = "detail" =>
             \/ game.page = "detail" /\ game'.open = game.open
             \/ Head(pending).op = "row" /\ game'.open = Head(pending).at
    BY <1>1, <1>2, EffectRows
<1>4. Startable \subseteq Startable'
    BY <1>1, <1>3 DEF Startable
<1>5. game'.page = "detail" => game'.open \in Startable'
    BY <1>2, <1>3, <1>4 DEF Known, RowsKnown
<1>6. \A n \in 1..Len(pending') : pending'[n].op = "row" => pending'[n].at \in Startable'
    BY <1>2, <1>4 DEF Known, RowsKnown
<1>7. RowsKnown'
    BY <1>1, <1>3, <1>4, <1>5, <1>6 DEF Known, RowsKnown
<1>8. StartProofTrue'
    BY <1>1 DEF Known, StartProofTrue
<1> QED  BY <1>7, <1>8

LEMMA ConfirmKnows == Known /\ StartConfirmed => RowsKnown' /\ StartProofTrue'
<1> SUFFICES ASSUME Known, StartConfirmed PROVE RowsKnown' /\ StartProofTrue'  OBVIOUS
<1>1. /\ ctx \in Contexts /\ ctx # None /\ shown \in Games
      /\ ctx.selected \in Rows
      /\ UNCHANGED <<game, pending, shown, started>>
    BY DEF Known, StartConfirmed, Calling, Quiet, history, Fitting, TypeOK, Maybe, Contexts
<1>2. ctx'.selected = ctx.selected /\ ctx'.startProof = ctx.selected
    BY <1>1 DEF StartConfirmed, Contexts
<1>3. \E r \in started : FaceOf[r] = FaceOf[ctx.selected]
    <2>1. CASE ShowsSelected /\ shown.rows[shown.open] = "running"
        <3>1. shown.open \in Startable /\ FaceOf[shown.open] = FaceOf[ctx.selected]
            BY <2>1 DEF ShowsSelected, Known, RowsKnown
        <3>2. shown.open \in Rows /\ game.rows[shown.open] # "pending"
            BY <2>1, <3>1 DEF Startable, Known, RowsKnown
        <3>3. shown.open \in started
            BY <3>1, <3>2 DEF Startable
        <3> QED  BY <3>1, <3>3
    <2>2. CASE shown.rows[ctx.selected] = "running"
        <3>1. ctx.selected \in Startable
            BY <1>1, CommissionAssumption DEF Known, RowsKnown
        <3>2. ctx.selected \in started
            BY <1>1, <2>2, <3>1 DEF Startable, Known, RowsKnown
        <3> QED  BY <3>2
    <2>3. ShowsRunning  BY DEF StartConfirmed
    <2>4. \/ ShowsSelected /\ shown.rows[shown.open] = "running"
          \/ shown.rows[ctx.selected] = "running"
        BY <2>3 DEF ShowsRunning
    <2> QED  BY <2>1, <2>2, <2>4
<1>4. Startable' = Startable  BY <1>1 DEF Startable
<1> QED  BY <1>1, <1>2, <1>3, <1>4 DEF Known, RowsKnown, StartProofTrue

LEMMA TapKnows == Known /\ (TapReturns \/ TapRaisesLate) => RowsKnown' /\ StartProofTrue'
<1> SUFFICES ASSUME Known, TapReturns \/ TapRaisesLate PROVE RowsKnown' /\ StartProofTrue'
    OBVIOUS
<1>1. Fitting /\ Inject  BY DEF Known, TapReturns, TapRaisesLate
<1>2. /\ ctx \in Contexts /\ ctx # None
      /\ Len(pending') = Len(pending) + 1 /\ Len(pending) \in Nat
      /\ pending'[Len(pending) + 1] = NewTap
      /\ \A n \in 1..Len(pending) : pending'[n] = pending[n]
      /\ UNCHANGED <<game, shown, started>>
      /\ call.op = "row" => call.at \in Rows
    BY <1>1, InjectShape, NoneAssumption DEF Inject, Fitting, CallFits
<1>3. Startable' = Startable  BY <1>2 DEF Startable
<1>4. call.op = "row" => call.at \in Startable
    BY <1>1, <1>2 DEF Inject, Visible, Known, RowsKnown
<1>5. \A n \in 1..Len(pending') : pending'[n].op = "row" => pending'[n].at \in Startable
    <2>1. NewTap.op = call.op /\ NewTap.at = call.at  BY DEF NewTap
    <2> QED  BY <1>2, <1>4, <2>1 DEF Known, RowsKnown
<1>6. \/ ctx'.selected = ctx.selected /\ ctx'.startProof = ctx.startProof
      \/ call.op = "row" /\ ctx'.selected = call.at /\ ctx'.startProof = None
    BY <1>2 DEF TapReturns, TapRaisesLate, Booked, Contexts
<1> QED  BY <1>2, <1>3, <1>4, <1>5, <1>6 DEF Known, RowsKnown, StartProofTrue

LEMMA KnownNext == Known /\ [Next]_vars => Known'
<1> SUFFICES ASSUME Known, [Next]_vars PROVE Known'  OBVIOUS
<1>1. Fitting /\ Fitting'  BY FittingNext DEF Known
<1>2. RowsKnown' /\ StartProofTrue'
    <2>1. CASE UNCHANGED vars
        <3>1. UNCHANGED <<game, pending, shown, started, ctx>>  BY <2>1 DEF vars
        <3> QED  BY <3>1, KnownStays
    <2>2. CASE Handle  BY <2>2, HandleKnows
    <2>3. CASE Publish
        <3>1. /\ UNCHANGED <<game, pending, started, ctx>> /\ shown' = game
            BY <2>3 DEF Publish, history
        <3>2. Startable' = Startable  BY <3>1 DEF Startable
        <3>3. \A r \in Rows : game.rows[r] = "pending" => r \in Startable  BY DEF Startable
        <3> QED  BY <3>1, <3>2, <3>3 DEF Known, RowsKnown, StartProofTrue
    <2>4. CASE \E r \in Rows : Finish(r)
        <3>1. PICK r \in Rows : Finish(r)  BY <2>4
        <3>2. /\ game'.page = game.page /\ game'.open = game.open
              /\ \A q \in Rows : game'.rows[q] = "pending" <=> game.rows[q] = "pending"
              /\ UNCHANGED <<pending, shown, started, ctx>>
            BY <1>1, <3>1 DEF Finish, Fitting, TypeOK, Games, history
        <3>3. Startable' = Startable  BY <3>2 DEF Startable
        <3> QED  BY <3>2, <3>3 DEF Known, RowsKnown, StartProofTrue
    <2>5. CASE Begin
        <3>1. /\ ctx'.selected = None /\ ctx'.startProof = None
              /\ UNCHANGED <<game, pending, shown, started>>
            BY <2>5 DEF Begin
        <3>2. Startable' = Startable  BY <3>1 DEF Startable
        <3> QED  BY <3>1, <3>2 DEF Known, RowsKnown, StartProofTrue
    <2>6. CASE End
        <3>1. UNCHANGED <<game, pending, shown, started>> /\ ctx' = None
            BY <2>6 DEF End, history
        <3> QED  BY <3>1, KnownStays
    <2>7. CASE CallRaises
        <3>1. UNCHANGED <<game, pending, shown, started, ctx>>
            BY <2>7 DEF CallRaises, history
        <3> QED  BY <3>1, KnownStays
    <2>8. CASE RewardPending
        <3>1. ctx \in Contexts /\ UNCHANGED <<game, pending, shown, started>>
            BY <1>1, <2>8 DEF RewardPending, Calling, Quiet, history, Fitting, TypeOK, Maybe
        <3>2. ctx' \in Contexts
            <4>1. Detected \in Maybe(Nat)
                BY <1>1, CountType DEF Detected, Maybe, Fitting, TypeOK
            <4> QED  BY <2>8, <3>1, <4>1 DEF RewardPending, Contexts
        <3>3. ctx'.selected = ctx.selected /\ ctx'.startProof = ctx.startProof
            BY <2>8, <3>1 DEF RewardPending, Contexts
        <3> QED  BY <3>1, <3>2, <3>3, KnownStays, NoneAssumption
    <2>9. CASE StartConfirmed  BY <2>9, ConfirmKnows
    <2>10. CASE Asking
        <3>1. PICK d \in Maybe(Nat) : ctx' = [ctx EXCEPT !.detected = d]
            BY <1>1, <2>10, AskingShape
        <3>2. ctx \in Contexts /\ ctx' \in Contexts
              /\ UNCHANGED <<game, pending, shown, started>>
            BY <1>1, <2>10, AskingShape DEF history
        <3>3. ctx'.selected = ctx.selected /\ ctx'.startProof = ctx.startProof
            BY <3>1, <3>2 DEF Contexts
        <3> QED  BY <3>2, <3>3, KnownStays, NoneAssumption
    <2>11. CASE TapReturns \/ TapRaisesLate  BY <2>11, TapKnows
    <2>12. CASE Waited
        <3>1. ctx \in Contexts /\ UNCHANGED <<game, pending, shown, started>>
            BY <1>1, <2>12, NoneAssumption DEF Waited, Fitting, TypeOK, CallFits, Maybe, history
        <3>2. /\ ctx' \in Contexts
              /\ ctx'.selected = ctx.selected /\ ctx'.startProof = ctx.startProof
            BY <2>12, <3>1 DEF Waited, Contexts
        <3> QED  BY <3>1, <3>2, KnownStays, NoneAssumption
    <2> QED  BY <2>1, <2>2, <2>3, <2>4, <2>5, <2>6, <2>7, <2>8, <2>9, <2>10, <2>11, <2>12
             DEF Next, Game
<1> QED  BY <1>1, <1>2 DEF Known

\* Whenever a start proof exists, one of the flow's start inputs has set a row of
\* the proven face running, for all rows and faces and wherever a call raises.
THEOREM StartProofsAreTrue == Spec => []StartProofTrue
<1>1. Init => Known
    <2> SUFFICES ASSUME Init PROVE Known  OBVIOUS
    <2>1. Fitting  BY InitFits
    <2>2. game.page = "summary" /\ shown = game /\ pending = <<>> /\ ctx = None
        BY DEF Init
    <2> QED  BY <2>1, <2>2 DEF Known, RowsKnown, StartProofTrue, Startable
<1>2. Known => StartProofTrue  BY DEF Known
<1> QED  BY <1>1, <1>2, KnownNext, PTL DEF Spec
=============================================================================
