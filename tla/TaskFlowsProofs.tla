-------------------------- MODULE TaskFlowsProofs ---------------------------
(***************************************************************************)
(* Theorems about TaskFlows: every variable has its type; in every task    *)
(* the game gets no more inputs of a kind than were granted; and what it   *)
(* does with an input is what was decided on an earlier picture of it, for *)
(* any projects, foods, pools, ships and books and any grant.              *)
(*                                                                         *)
(* What the tasks share is proved once, for a task with games G, contexts  *)
(* C, inputs O and targets T; each task then shows that its own operators  *)
(* stay within these sets.                                                 *)
(*                                                                         *)
(* The decisions rest on the order of the taps that are on their way.  A   *)
(* page P divides the inputs in those made on it and those made elsewhere; *)
(* OneAhead says that the taps for the other side come first, and are all  *)
(* there is while the publication lags behind a change of side.            *)
(***************************************************************************)
EXTENDS TaskFlows, FiniteSetTheorems, TLAPS

\* What an input under way has already been charged for, and not delivered.
Reserved(u) == IF call.pc = "aim" /\ call.booked /\ call.unit = u THEN 1 ELSE 0

\* Only a running caller has a call under way.  The inputs that are followed by
\* a second one are free, and one that has not been charged has its unit left.
CallCharged ==
    /\ call # NoCall => ctx # None /\ caller = "running"
    /\ call.op \in DOMAIN NextInput => call.unit = None
    /\ call.pc = "aim" /\ ~call.booked /\ call.unit # None => ctx.budget[call.unit] > 0

\* While nothing has raised, what was delivered, what is left and what is
\* reserved do not exceed the grant.
Ledger ==
    ctx # None /\ caller = "running" =>
        \A u \in Units : delivered[u] + ctx.budget[u] + Reserved(u) <= Grant[u]

Charged == InputsFunded /\ CallCharged /\ Ledger

\* The target of an input is of the kind it is made for.
Fits(op, at) ==
    /\ op \in {"inspect", "collectCard"} => at \in Cards
    /\ op = "start" => at \in Projects
    /\ op = "feed" => at \in Portions
    /\ op = "pool" => at \in Pools
    /\ op = "seat" => at \in Seats
    /\ op \in {"ship", "stopCourse"} => at \in Ships
    /\ op = "book" => at \in Books

InputsFit ==
    /\ call.pc # "idle" => Fits(call.op, call.at)
    /\ \A i \in 1..Len(pending) : Fits(pending[i].op, pending[i].at)

\* A page that is about a project or a ship has one, and a course has its book.
GameFits(g) ==
    /\ g.task = "research" /\ g.page \in {"detail", "startPrompt", "queuePrompt"} =>
           g.open \in Projects
    /\ g.task = "tactical" /\ g.page = "course" => g.shelf[g.book] > 0
    /\ g.task = "tactical" /\ g.page = "continue" => g.pick \in Ships

Flow == /\ caller \in {"running", "leaving"} /\ invocations \in 0..MaxInvocations
        /\ clean \in BOOLEAN /\ delivered \in [Units -> Nat] /\ begun \subseteq Projects

Well(G, C, O, T) ==
    /\ Typed(G, C, O, T) /\ Flow
    /\ call.pc # "idle" => call.op \in O
    /\ InputsFit /\ GameFits(game) /\ GameFits(shown) /\ Charged

\* Every context of a task has its budgets.
Budgeted(C) == \A c \in C : c # None /\ "budget" \in DOMAIN c /\ c.budget \in [Units -> Nat]

(***************************************************************************)
(* What the tasks share                                                    *)
(***************************************************************************)

LEMMA AskWell ==
    ASSUME NEW G, NEW C, NEW O, NEW T, Budgeted(C), Well(G, C, O, T),
           NEW op \in O, NEW at \in Maybe(T), NEW unit \in Maybe(Units),
           Fits(op, at), op \in DOMAIN NextInput => unit = None, Ask(op, at, unit)
    PROVE  Well(G, C, O, T)'
<1>1. /\ call' = [pc |-> "aim", op |-> op, at |-> at, unit |-> unit, booked |-> FALSE]
      /\ UNCHANGED <<game, pending, shown, ctx, caller, invocations, clean, delivered, begun>>
      /\ ctx # None /\ caller = "running" /\ call = NoCall
      /\ unit # None => ctx.budget[unit] > 0
    BY DEF Ask, AskWith, Calling, Funded
<1>2. \A u \in Units : Reserved(u)' = 0 /\ Reserved(u) = 0
    BY <1>1 DEF Reserved, NoCall
<1>3. Ledger'  BY <1>1, <1>2 DEF Ledger, Charged, Well
<1>4. call' \in Calls(O, T)  BY <1>1 DEF Calls, Maybe
<1>5. Typed(G, C, O, T)'  BY <1>1, <1>4 DEF Typed, Well
<1>6. Charged'  BY <1>1, <1>3 DEF Charged, Well, InputsFunded, CallCharged, NextInput
<1>7. InputsFit'  BY <1>1 DEF InputsFit, Well
<1> QED  BY <1>1, <1>5, <1>6, <1>7 DEF Well, Flow, GameFits

LEMMA NoteWell ==
    ASSUME NEW G, NEW C, NEW O, NEW T, Budgeted(C), Well(G, C, O, T),
           NEW context \in C, context.budget = ctx.budget, Note(context)
    PROVE  Well(G, C, O, T)'
<1>1. /\ ctx' = context
      /\ UNCHANGED <<game, pending, shown, call, caller, invocations, clean, delivered, begun>>
      /\ ctx # None /\ caller = "running" /\ call = NoCall
    BY DEF Note, Calling
<1>2. \A u \in Units : Reserved(u)' = Reserved(u)  BY <1>1 DEF Reserved
<1>3. Ledger'  BY <1>1, <1>2 DEF Ledger, Charged, Well
<1>4. Typed(G, C, O, T)'  BY <1>1 DEF Typed, Well, Maybe
<1>5. Charged'  BY <1>1, <1>3 DEF Charged, Well, InputsFunded, CallCharged, NoCall
<1> QED  BY <1>1, <1>4, <1>5 DEF Well, Flow, GameFits, InputsFit

\* A call that the context notes, and may be charged for, before it is made.
LEMMA NotedAskWell ==
    ASSUME NEW G, NEW C, NEW O, NEW T, Budgeted(C), Well(G, C, O, T), Calling,
           NEW op \in O, NEW unit \in Maybe(Units), op \notin DOMAIN NextInput,
           Fits(op, None), ctx' \in C,
           ctx'.budget = [u \in Units |-> IF u = unit THEN ctx.budget[u] - 1 ELSE ctx.budget[u]],
           AskWith(op, None, unit, unit # None)
    PROVE  Well(G, C, O, T)'
<1>1. /\ call' = [pc |-> "aim", op |-> op, at |-> None, unit |-> unit, booked |-> unit # None]
      /\ UNCHANGED <<game, pending, shown, caller, invocations, clean, delivered, begun>>
      /\ ctx # None /\ caller = "running" /\ call = NoCall
    BY DEF AskWith, Calling
<1>2. ctx' # None /\ ctx'.budget \in [Units -> Nat]  BY DEF Budgeted
<1>3. ctx \in C  BY <1>1 DEF Well, Typed, Maybe
<1>4. ctx.budget \in [Units -> Nat]  BY <1>3 DEF Budgeted
<1>5. \A u \in Units : /\ Reserved(u) = 0
                       /\ Reserved(u)' = IF unit = u THEN 1 ELSE 0
    BY <1>1, TaskAssumption DEF Reserved, NoCall
<1>6. delivered \in [Units -> Nat]  BY DEF Well, Flow
<1>7. Ledger'
    <2> SUFFICES ASSUME NEW u \in Units
                 PROVE  (delivered[u] + ctx.budget[u] + Reserved(u))' <= Grant[u]
        BY DEF Ledger
    <2>1. delivered[u] + ctx.budget[u] + Reserved(u) <= Grant[u]
        BY <1>1 DEF Ledger, Charged, Well
    <2> QED  BY <1>1, <1>4, <1>5, <1>6, <2>1, TaskAssumption
<1>8. call' \in Calls(O, T)  BY <1>1 DEF Calls, Maybe
<1>9. Typed(G, C, O, T)'  BY <1>1, <1>8 DEF Typed, Well, Maybe
<1>10. Charged'  BY <1>1, <1>2, <1>7 DEF Charged, Well, InputsFunded, CallCharged
<1>11. InputsFit'  BY <1>1 DEF InputsFit, Well
<1> QED  BY <1>1, <1>9, <1>10, <1>11 DEF Well, Flow, GameFits

LEMMA CallEndsWell ==
    ASSUME NEW G, NEW C, NEW O, NEW T, Well(G, C, O, T), CallRaises
    PROVE  Well(G, C, O, T)'
<1>1. /\ call' = NoCall /\ caller' = "leaving"
      /\ UNCHANGED <<game, pending, shown, ctx, invocations, clean, delivered, begun>>
    BY DEF CallRaises
<1>2. call' \in Calls(O, T)  BY <1>1 DEF Calls, Maybe, NoCall
<1>3. Typed(G, C, O, T)'  BY <1>1, <1>2 DEF Typed, Well
<1>5. Charged'
    BY <1>1 DEF Charged, Well, InputsFunded, CallCharged, Ledger, NoCall, NextInput
<1>6. InputsFit'  BY <1>1 DEF InputsFit, Well, NoCall
<1> QED  BY <1>1, <1>3, <1>5, <1>6 DEF Well, Flow, GameFits, NoCall

LEMMA EndWell ==
    ASSUME NEW G, NEW C, NEW O, NEW T, Well(G, C, O, T), End
    PROVE  Well(G, C, O, T)'
<1>1. /\ ctx' = None /\ call = NoCall
      /\ UNCHANGED <<game, pending, shown, call, caller, invocations, clean, delivered, begun>>
    BY DEF End
<1>2. Typed(G, C, O, T)'  BY <1>1 DEF Typed, Well, Maybe
<1>3. Charged'
    BY <1>1 DEF Charged, Well, InputsFunded, CallCharged, Ledger, NoCall, NextInput
<1> QED  BY <1>1, <1>2, <1>3 DEF Well, Flow, GameFits, InputsFit

LEMMA BeginWell ==
    ASSUME NEW G, NEW C, NEW O, NEW T, Budgeted(C), Well(G, C, O, T),
           NEW context \in C, context.budget = Grant, Begin(context)
    PROVE  Well(G, C, O, T)'
<1>1. /\ ctx = None /\ ctx' = context /\ caller' = "running"
      /\ clean' \in BOOLEAN
      /\ delivered' = [u \in Units |-> 0] /\ begun' = {}
      /\ UNCHANGED <<game, pending, shown, call>>
    BY DEF Begin
<1>2. invocations' \in 0..MaxInvocations
    BY TaskAssumption DEF Begin, Well, Flow
<1>3. call = NoCall  BY <1>1 DEF Well, Charged, CallCharged
<1>4. \A u \in Units : Reserved(u)' = 0  BY <1>1, <1>3 DEF Reserved, NoCall
<1>5. Ledger'  BY <1>1, <1>4, TaskAssumption DEF Ledger
<1>6. Typed(G, C, O, T)'  BY <1>1 DEF Typed, Well, Maybe
<1>7. InputsFunded'  BY <1>1, TaskAssumption DEF InputsFunded
<1>8. CallCharged'  BY <1>1, <1>3 DEF CallCharged, NoCall, NextInput, Well, Charged
<1> QED  BY <1>1, <1>2, <1>5, <1>6, <1>7, <1>8 DEF Well, Flow, GameFits, InputsFit, Charged

LEMMA PublishWell ==
    ASSUME NEW G, NEW C, NEW O, NEW T, Well(G, C, O, T), Publish
    PROVE  Well(G, C, O, T)'
<1>1. /\ shown' = game
      /\ UNCHANGED <<game, pending, ctx, call, caller, invocations, clean, delivered, begun>>
    BY DEF Publish
<1>2. \A u \in Units : Reserved(u)' = Reserved(u)  BY <1>1 DEF Reserved
<1>3. Ledger'  BY <1>1, <1>2 DEF Ledger, Charged, Well
<1>4. Typed(G, C, O, T)'  BY <1>1 DEF Typed, Well
<1>5. Charged'  BY <1>1, <1>3 DEF Charged, Well, InputsFunded, CallCharged
<1> QED  BY <1>1, <1>4, <1>5 DEF Well, Flow, GameFits, InputsFit

LEMMA TimeWell ==
    ASSUME NEW G, NEW C, NEW O, NEW T, Well(G, C, O, T),
           game' \in G, GameFits(game)',
           UNCHANGED <<pending, shown, ctx, call, caller, invocations, clean, delivered, begun>>
    PROVE  Well(G, C, O, T)'
<1>1. \A u \in Units : Reserved(u)' = Reserved(u)  BY DEF Reserved
<1>2. Ledger'  BY <1>1 DEF Ledger, Charged, Well
<1>3. Typed(G, C, O, T)'  BY DEF Typed, Well
<1>4. Charged'  BY <1>2 DEF Charged, Well, InputsFunded, CallCharged
<1>5. InputsFit'  BY DEF InputsFit, Well
<1>6. Flow'  BY DEF Flow, Well
<1>7. GameFits(shown)'  BY DEF GameFits, Well
<1>8. call'.pc # "idle" => call'.op \in O  BY DEF Well
<1> QED  BY <1>3, <1>4, <1>5, <1>6, <1>7, <1>8 DEF Well

LEMMA HandleWell ==
    ASSUME NEW G, NEW C, NEW O, NEW T, Well(G, C, O, T),
           game' \in G, GameFits(game)', Handle
    PROVE  Well(G, C, O, T)'
<1>1. /\ pending # <<>> /\ pending' = Tail(pending)
      /\ UNCHANGED <<shown, ctx, call, caller, invocations, clean, delivered>>
    BY DEF Handle
<1>2. pending \in Seq(Taps(O, T))  BY DEF Well, Typed
<1>3. /\ pending' \in Seq(Taps(O, T))
      /\ Len(pending') = Len(pending) - 1
      /\ \A i \in 1..Len(pending') : pending'[i] = pending[i + 1] /\ i + 1 \in 1..Len(pending)
    BY <1>1, <1>2
<1>4. \A u \in Units : Reserved(u)' = Reserved(u)  BY <1>1 DEF Reserved
<1>5. Ledger'  BY <1>1, <1>4 DEF Ledger, Charged, Well
<1>6. Typed(G, C, O, T)'  BY <1>1, <1>3 DEF Typed, Well
<1>7. Charged'  BY <1>1, <1>5 DEF Charged, Well, InputsFunded, CallCharged
<1>8. InputsFit'  BY <1>1, <1>3 DEF InputsFit, Well
<1>9. Flow'
    <2>1. begun' \subseteq Projects  BY DEF Handle, Started, Well, Flow
    <2> QED  BY <1>1, <2>1 DEF Flow, Well
<1>10. GameFits(shown)'  BY <1>1 DEF GameFits, Well
<1>11. call'.pc # "idle" => call'.op \in O  BY <1>1 DEF Well
<1> QED  BY <1>6, <1>7, <1>8, <1>9, <1>10, <1>11 DEF Well

\* An input that reaches the game takes the place of what it was charged.
LEMMA InjectFunded ==
    ASSUME NEW G, NEW C, NEW O, NEW T, Budgeted(C), Well(G, C, O, T), Inject
    PROVE  /\ ctx \in C /\ caller = "running"
           /\ delivered' \in [Units -> Nat] /\ InputsFunded'
           /\ Paid.budget \in [Units -> Nat] /\ "budget" \in DOMAIN Paid
           /\ \A u \in Units : delivered'[u] + Paid.budget[u] <= Grant[u]
           /\ pending' \in Seq(Taps(O, T))
           /\ \A i \in 1..Len(pending') : Fits(pending'[i].op, pending'[i].at)
           /\ UNCHANGED <<game, shown, invocations, clean, begun>>
<1>1. /\ call.pc = "aim"
      /\ pending' = Append(pending, [op |-> call.op, at |-> call.at,
                                     unit |-> call.unit, run |-> invocations])
      /\ delivered' = [u \in Units |-> IF u = call.unit THEN delivered[u] + 1 ELSE delivered[u]]
      /\ UNCHANGED <<game, shown, invocations, clean, begun>>
    BY DEF Inject
<1>2. call # NoCall  BY <1>1 DEF NoCall
<1>3. ctx # None /\ caller = "running"  BY <1>2 DEF Well, Charged, CallCharged
<1>4. ctx \in C  BY <1>3 DEF Well, Typed, Maybe
<1>5. "budget" \in DOMAIN ctx /\ ctx.budget \in [Units -> Nat]  BY <1>4 DEF Budgeted
<1>6. call.unit \in Maybe(Units) /\ call.booked \in BOOLEAN
      /\ call.op \in Maybe(O) /\ call.at \in Maybe(T)
    BY DEF Well, Typed, Calls
<1>7. delivered \in [Units -> Nat] /\ invocations \in Nat
    BY TaskAssumption DEF Well, Flow
<1>8. \A u \in Units : delivered[u] + ctx.budget[u] + Reserved(u) <= Grant[u]
    BY <1>3 DEF Well, Charged, Ledger
<1>9. "budget" \in DOMAIN Paid
      /\ Paid.budget = [u \in Units |-> IF u = call.unit /\ ~call.booked
                                        THEN ctx.budget[u] - 1 ELSE ctx.budget[u]]
    BY <1>5, <1>6, TaskAssumption DEF Paid, Maybe
<1>10. Paid.budget \in [Units -> Nat]
    BY <1>1, <1>5, <1>9, TaskAssumption DEF Well, Charged, CallCharged
<1>11. delivered' \in [Units -> Nat]  BY <1>1, <1>7
<1>12. \A u \in Units : delivered'[u] + Paid.budget[u] <= Grant[u]
    <2> SUFFICES ASSUME NEW u \in Units
                 PROVE  delivered'[u] + Paid.budget[u] <= Grant[u]
        OBVIOUS
    <2>1. delivered[u] + ctx.budget[u] + Reserved(u) <= Grant[u]  BY <1>8
    <2>2. delivered[u] \in Nat /\ ctx.budget[u] \in Nat /\ Grant[u] \in Nat
        BY <1>5, <1>7, TaskAssumption
    <2>3. CASE u = call.unit /\ call.booked
        <3>1. Reserved(u) = 1  BY <1>1, <2>3 DEF Reserved
        <3> QED  BY <1>1, <1>9, <2>1, <2>2, <2>3, <3>1
    <2>4. CASE u = call.unit /\ ~call.booked
        <3>1. Reserved(u) = 0  BY <2>4 DEF Reserved
        <3> QED  BY <1>1, <1>9, <2>1, <2>2, <2>4, <3>1
    <2>5. CASE u # call.unit
        <3>1. Reserved(u) = 0  BY <2>5 DEF Reserved
        <3> QED  BY <1>1, <1>9, <2>1, <2>2, <2>5, <3>1
    <2> QED  BY <2>3, <2>4, <2>5, <1>6
<1>13. InputsFunded'
    BY <1>10, <1>11, <1>12, TaskAssumption DEF InputsFunded
<1> DEFINE tap == [op |-> call.op, at |-> call.at, unit |-> call.unit, run |-> invocations]
<1>14. call.op \in O
    BY <1>1 DEF Well
<1>15. tap \in Taps(O, T)  BY <1>6, <1>7, <1>14 DEF Taps
<1>16. pending \in Seq(Taps(O, T))  BY DEF Well, Typed
<1>17. pending' \in Seq(Taps(O, T))  BY <1>1, <1>15, <1>16
<1>18. \A i \in 1..Len(pending') : Fits(pending'[i].op, pending'[i].at)
    <2>1. Fits(call.op, call.at) /\ \A i \in 1..Len(pending) : Fits(pending[i].op, pending[i].at)
        BY <1>1 DEF Well, InputsFit
    <2> SUFFICES ASSUME NEW i \in 1..Len(pending')
                 PROVE  Fits(pending'[i].op, pending'[i].at)
        OBVIOUS
    <2>2. CASE i \in 1..Len(pending)
        <3>1. pending'[i] = pending[i]  BY <1>1, <1>16, <2>2
        <3> QED  BY <2>1, <2>2, <3>1
    <2>3. CASE i = Len(pending) + 1
        <3>1. pending'[i] = tap  BY <1>1, <1>16, <2>3
        <3> QED  BY <2>1, <3>1
    <2> QED  BY <1>1, <1>16, <2>2, <2>3
<1> QED  BY <1>1, <1>3, <1>4, <1>9, <1>10, <1>11, <1>12, <1>13, <1>17, <1>18

LEMMA TapReturnsWell ==
    ASSUME NEW G, NEW C, NEW O, NEW T, Budgeted(C), Well(G, C, O, T),
           Booked \in C, Booked.budget = Paid.budget, TapReturns
    PROVE  Well(G, C, O, T)'
<1>1. /\ Inject /\ ctx' = Booked /\ UNCHANGED caller
      /\ call' = IF call.op \in Waits THEN [call EXCEPT !.pc = "wait"] ELSE NoCall
    BY DEF TapReturns
<1>2. call \in Calls(O, T) /\ call.pc = "aim"
    BY <1>1 DEF Well, Typed, Inject
<1>3. call' \in Calls(O, T) /\ call'.pc # "aim"
    BY <1>1, <1>2 DEF Calls, NoCall, Maybe
<1>4. call'.pc # "idle" => call'.op = call.op /\ call'.at = call.at /\ call'.unit = call.unit
    BY <1>1, <1>2 DEF Calls, NoCall
<1>5. ctx' \in C /\ ctx' # None /\ caller' = "running"
    BY <1>1, InjectFunded DEF Budgeted
<1>6. \A u \in Units : Reserved(u)' = 0  BY <1>3 DEF Reserved
<1>7. Ledger'
    <2>1. \A u \in Units : delivered'[u] + Paid.budget[u] <= Grant[u]
          /\ delivered' \in [Units -> Nat] /\ Paid.budget \in [Units -> Nat]
        BY <1>1, InjectFunded
    <2> QED  BY <1>1, <1>6, <2>1 DEF Ledger
<1>8. CallCharged'
    <2>1. call'.op \in DOMAIN NextInput => call'.unit = None
        BY <1>1, <1>2 DEF Calls, NoCall, Well, Charged, CallCharged
    <2> QED  BY <1>3, <1>5, <2>1 DEF CallCharged
<1>9. /\ InputsFunded' /\ delivered' \in [Units -> Nat] /\ pending' \in Seq(Taps(O, T))
      /\ \A i \in 1..Len(pending') : Fits(pending'[i].op, pending'[i].at)
      /\ UNCHANGED <<game, shown, invocations, clean, begun>>
    BY <1>1, InjectFunded
<1>10. InputsFit'
    <2>1. call'.pc # "idle" => Fits(call'.op, call'.at)
        BY <1>2, <1>4 DEF Well, InputsFit
    <2> QED  BY <1>9, <2>1 DEF InputsFit
<1>11. Typed(G, C, O, T)'  BY <1>3, <1>5, <1>9 DEF Typed, Well, Maybe
<1>12. call'.pc # "idle" => call'.op \in O  BY <1>2, <1>4 DEF Well
<1>13. Flow'  BY <1>5, <1>9 DEF Flow, Well
<1>14. GameFits(game)' /\ GameFits(shown)'  BY <1>9 DEF GameFits, Well
<1> QED  BY <1>7, <1>8, <1>9, <1>10, <1>11, <1>12, <1>13, <1>14 DEF Well, Charged

LEMMA TapRaisesLateWell ==
    ASSUME NEW G, NEW C, NEW O, NEW T, Budgeted(C), Well(G, C, O, T), TapRaisesLate
    PROVE  Well(G, C, O, T)'
<1>1. Inject /\ call' = NoCall /\ caller' = "leaving" /\ UNCHANGED ctx
    BY DEF TapRaisesLate, RaisesLate
<1>2. call' \in Calls(O, T)  BY <1>1 DEF Calls, NoCall, Maybe
<1>3. /\ ctx \in C
      /\ InputsFunded' /\ delivered' \in [Units -> Nat] /\ pending' \in Seq(Taps(O, T))
      /\ \A i \in 1..Len(pending') : Fits(pending'[i].op, pending'[i].at)
      /\ UNCHANGED <<game, shown, invocations, clean, begun>>
    BY <1>1, InjectFunded
<1>4. Charged'  BY <1>1, <1>3 DEF Charged, CallCharged, Ledger, NoCall, NextInput
<1>5. InputsFit'  BY <1>1, <1>3 DEF InputsFit, NoCall
<1>6. Typed(G, C, O, T)'  BY <1>1, <1>2, <1>3 DEF Typed, Well, Maybe
<1>7. Flow'  BY <1>1, <1>3 DEF Flow, Well
<1>8. GameFits(game)' /\ GameFits(shown)'  BY <1>3 DEF GameFits, Well
<1> QED  BY <1>1, <1>4, <1>5, <1>6, <1>7, <1>8 DEF Well, NoCall

LEMMA WaitedWell ==
    ASSUME NEW G, NEW C, NEW O, NEW T, Budgeted(C), Well(G, C, O, T),
           \A op \in O \cap DOMAIN NextInput : NextInput[op] \in O, Waited
    PROVE  Well(G, C, O, T)'
<1>1. /\ call.pc = "wait"
      /\ call' = IF call.op \in DOMAIN NextInput
                 THEN [call EXCEPT !.pc = "aim", !.op = NextInput[call.op]] ELSE NoCall
      /\ UNCHANGED <<game, pending, shown, ctx, caller, invocations, clean, delivered, begun>>
    BY DEF Waited
<1>2. call \in Calls(O, T) /\ call.op \in O /\ call # NoCall
    BY <1>1 DEF Well, Typed, NoCall
<1>3. call' \in Calls(O, T)  BY <1>1, <1>2 DEF Calls, NoCall, Maybe
<1>4. \A u \in Units : Reserved(u)' = 0 /\ Reserved(u) = 0
    <2>1. \A u \in Units : Reserved(u) = 0  BY <1>1 DEF Reserved
    <2>2. CASE call.op \in DOMAIN NextInput
        <3>1. call.unit = None  BY <2>2 DEF Well, Charged, CallCharged
        <3>2. call'.unit = None  BY <1>1, <1>2, <2>2, <3>1 DEF Calls
        <3> QED  BY <2>1, <3>2, TaskAssumption DEF Reserved
    <2>3. CASE call.op \notin DOMAIN NextInput
        BY <1>1, <2>1, <2>3 DEF Reserved, NoCall
    <2> QED  BY <2>2, <2>3
<1>5. Ledger'  BY <1>1, <1>4 DEF Ledger, Well, Charged
<1>6. CallCharged'
    <2>1. CASE call.op \in DOMAIN NextInput
        <3>1. call.unit = None  BY <2>1 DEF Well, Charged, CallCharged
        <3>2. call'.unit = None  BY <1>1, <1>2, <2>1, <3>1 DEF Calls
        <3> QED  BY <1>1, <1>2, <3>2 DEF CallCharged, Well, Charged
    <2>2. CASE call.op \notin DOMAIN NextInput
        BY <1>1, <2>2 DEF CallCharged, NoCall, NextInput
    <2> QED  BY <2>1, <2>2
<1>7. InputsFit' /\ (call'.pc # "idle" => call'.op \in O)
    <2>1. CASE call.op \in DOMAIN NextInput
        <3>1. /\ call'.op = NextInput[call.op] /\ call'.op \in O
              /\ call'.op \in {"dockConfirm", "skillConfirm"}
            BY <1>1, <1>2, <2>1 DEF Calls, NextInput
        <3>2. Fits(call'.op, call'.at)  BY <3>1 DEF Fits
        <3> QED  BY <1>1, <3>1, <3>2 DEF InputsFit, Well
    <2>2. CASE call.op \notin DOMAIN NextInput
        BY <1>1, <2>2 DEF InputsFit, NoCall, Well
    <2> QED  BY <2>1, <2>2
<1>8. Typed(G, C, O, T)'  BY <1>1, <1>3 DEF Typed, Well
<1>9. InputsFunded'  BY <1>1 DEF InputsFunded, Well, Charged
<1>10. Flow' /\ GameFits(game)' /\ GameFits(shown)'  BY <1>1 DEF Flow, GameFits, Well
<1> QED  BY <1>5, <1>6, <1>7, <1>8, <1>9, <1>10 DEF Well, Charged

(***************************************************************************)
(* Missions                                                                *)
(***************************************************************************)

MissionWell == Well(MissionGames, MissionContexts, MissionOps, MissionTargets)

LEMMA MissionBudgets == Budgeted(MissionContexts)
BY ContextAssumption DEF Budgeted, MissionContexts

LEMMA MissionAsks ==
    ASSUME MissionWell, MissionAsking
    PROVE  MissionWell'
<1>1. Calling /\ ctx \in MissionContexts /\ shown \in MissionGames
    BY DEF MissionAsking, MissionWell, Well, Typed, Calling, Maybe
<1>2. Observed \in MissionContexts /\ Observed.budget = ctx.budget
    BY <1>1 DEF Observed, Disposition, MissionContexts, MissionGames, Maybe
<1>3. CASE ReadMissions
    BY <1>2, <1>3, MissionBudgets, NoteWell DEF ReadMissions, MissionWell
<1>4. CASE AskTask \/ AskCloseReward \/ AskLeaveTasks
    <2>1. /\ {"task", "closeReward", "leaveTasks"} \subseteq MissionOps
          /\ None \in Maybe(MissionTargets) /\ None \in Maybe(Units)
          /\ \A op \in {"task", "closeReward", "leaveTasks"} :
                Fits(op, None) /\ op \notin DOMAIN NextInput
        BY DEF MissionOps, Maybe, Fits, NextInput
    <2>2. PICK op \in {"task", "closeReward", "leaveTasks"} : Ask(op, None, None)
        BY <1>4 DEF AskTask, AskCloseReward, AskLeaveTasks
    <2> QED  BY <2>1, <2>2, MissionBudgets, AskWell DEF MissionWell
<1>5. CASE AskClaim
    <2>1. /\ ctx' = [Observed EXCEPT !.budget["claim"] = @ - 1]
          /\ AskWith("claim", None, "claim", TRUE) /\ ctx.budget["claim"] > 0
        BY <1>5, TaskAssumption DEF AskClaim, Funded, Units
    <2>2. "claim" \in Units /\ "claim" \in MissionOps /\ None # "claim"
        BY TaskAssumption DEF Units, MissionOps
    <2>3. ctx.budget \in [Units -> Nat]  BY <1>1 DEF MissionContexts
    <2>4. ctx' \in MissionContexts  BY <1>2, <2>1, <2>2, <2>3 DEF MissionContexts
    <2>5. ctx'.budget = [u \in Units |-> IF u = "claim" THEN ctx.budget[u] - 1 ELSE ctx.budget[u]]
        BY <1>2, <2>1, <2>2, <2>3 DEF MissionContexts
    <2>6. "claim" \in Maybe(Units) /\ "claim" \notin DOMAIN NextInput /\ Fits("claim", None)
        BY DEF Maybe, Units, Fits, NextInput
    <2>7. AskWith("claim", None, "claim", "claim" # None)  BY <2>1, <2>2
    <2> QED  BY <1>1, <2>2, <2>4, <2>5, <2>6, <2>7, MissionBudgets, NotedAskWell DEF MissionWell
<1> QED  BY <1>3, <1>4, <1>5 DEF MissionAsking

LEMMA MissionMoves ==
    ASSUME MissionWell, game.task = "mission"
    PROVE  /\ MissionTime => game' \in MissionGames /\ GameFits(game)'
           /\ Handle => game' \in MissionGames /\ GameFits(game)'
           /\ Inject => Booked \in MissionContexts /\ Booked.budget = Paid.budget
           /\ MissionContext \in MissionContexts /\ MissionContext.budget = Grant
<1>1. game \in MissionGames  BY DEF MissionWell, Well, Typed
<1>2. ASSUME MissionTime PROVE game' \in MissionGames
    BY <1>1, <1>2 DEF MissionTime, MissionGames, MissionGo, MissionPages, Dispositions
<1>3. ASSUME Handle PROVE game' \in MissionGames
    BY <1>1, <1>3 DEF Handle, Effect, MissionEffect, MissionGames, MissionGo,
                      MissionPages, Dispositions
<1>4. game' \in MissionGames => GameFits(game)'
    BY DEF MissionGames, GameFits
<1>5. ASSUME Inject PROVE Booked \in MissionContexts /\ Booked.budget = Paid.budget
    <2>1. ctx \in MissionContexts /\ Paid.budget \in [Units -> Nat]
        BY <1>5, MissionBudgets, InjectFunded DEF MissionWell
    <2>2. Paid \in MissionContexts
        BY <2>1 DEF Paid, MissionContexts
    <2> QED  BY <2>2 DEF Booked, MissionBooked, MissionContexts
<1>6. MissionContext \in MissionContexts /\ MissionContext.budget = Grant
    BY TaskAssumption DEF MissionContext, MissionContexts, Maybe
<1> QED  BY <1>2, <1>3, <1>4, <1>5, <1>6

LEMMA MissionSteps ==
    ASSUME MissionWell, game.task = "mission", [Next]_vars
    PROVE  MissionWell' /\ game'.task = "mission"
<1>0. SUFFICES MissionWell'  BY DEF MissionWell, Well, Typed, MissionGames
<1>1. \A op \in MissionOps \cap DOMAIN NextInput : NextInput[op] \in MissionOps
    BY DEF MissionOps, NextInput
<1>2. CASE Handle  BY <1>2, MissionMoves, HandleWell DEF MissionWell
<1>3. CASE Time
    BY <1>3, MissionMoves, TimeWell DEF MissionWell, Time
<1>4. CASE Publish  BY <1>4, PublishWell DEF MissionWell
<1>5. CASE BeginTask
    <2>1. Begin(MissionContext)  BY <1>5 DEF BeginTask
    <2> QED  BY <2>1, MissionMoves, MissionBudgets, BeginWell DEF MissionWell
<1>6. CASE End  BY <1>6, EndWell DEF MissionWell
<1>7. CASE Asking  BY <1>7, MissionAsks DEF Asking
<1>8. CASE TapReturns
    BY <1>8, MissionMoves, MissionBudgets, TapReturnsWell DEF MissionWell, TapReturns
<1>9. CASE TapRaisesLate  BY <1>9, MissionBudgets, TapRaisesLateWell DEF MissionWell
<1>10. CASE Waited  BY <1>1, <1>10, MissionBudgets, WaitedWell DEF MissionWell
<1>11. CASE CallRaises  BY <1>11, CallEndsWell DEF MissionWell
<1>12. CASE UNCHANGED vars
    BY <1>12, TimeWell DEF MissionWell, Well, Typed, vars, GameFits
<1> QED
    BY <1>2, <1>3, <1>4, <1>5, <1>6, <1>7, <1>8, <1>9, <1>10, <1>11, <1>12 DEF Next

(***************************************************************************)
(* Research                                                                *)
(***************************************************************************)

ResearchWell == Well(ResearchGames, ResearchContexts, ResearchOps, ResearchTargets)

LEMMA ResearchBudgets == Budgeted(ResearchContexts)
BY ContextAssumption DEF Budgeted, ResearchContexts

LEMMA ResearchAsks ==
    ASSUME ResearchWell, ResearchAsking
    PROVE  ResearchWell'
<1>1. /\ Calling /\ ctx \in ResearchContexts /\ shown \in ResearchGames /\ GameFits(shown)
      /\ shown.page \in {"detail", "startPrompt", "queuePrompt"} => shown.open \in Projects
    BY DEF ResearchAsking, ResearchWell, Well, Typed, Calling, Maybe, GameFits, ResearchGames
<1>2. /\ {"start", "reward"} \subseteq Maybe(Units) /\ None \in Maybe(Units)
      /\ Maybe(Projects) \subseteq Maybe(ResearchTargets)
      /\ Cards \subseteq Maybe(ResearchTargets) /\ None \in Maybe(ResearchTargets)
      /\ \A op \in ResearchOps : op \notin DOMAIN NextInput
    BY DEF Maybe, Units, ResearchTargets, ResearchOps, NextInput
<1>3. ASSUME NEW s \in Slots, AskCard(s)  PROVE ResearchWell'
    <2>1. Card(s) \in Cards
        BY <1>1 DEF Card, Cards, ResearchGames
    <2>2. Fits("inspect", Card(s)) /\ Fits("collectCard", Card(s))
        BY <2>1 DEF Fits
    <2>3. {"inspect", "collectCard"} \subseteq ResearchOps  BY DEF ResearchOps
    <2>4. Ask("collectCard", Card(s), "reward") \/ Ask("inspect", Card(s), None)
        BY <1>3 DEF AskCard
    <2> QED  BY <1>2, <2>1, <2>2, <2>3, <2>4, ResearchBudgets, AskWell DEF ResearchWell
<1>4. CASE AskStart
    <2>1. shown.open \in Projects /\ Ask("start", shown.open, None)
        BY <1>1, <1>4 DEF AskStart, CanStart, DetailShown
    <2>2. Fits("start", shown.open) /\ "start" \in ResearchOps
        BY <2>1 DEF Fits, ResearchOps
    <2>3. shown.open \in Maybe(ResearchTargets)  BY <1>2, <2>1 DEF Maybe
    <2> QED  BY <1>2, <2>1, <2>2, <2>3, ResearchBudgets, AskWell DEF ResearchWell
<1>5. CASE AskConfirm
    <2>1. /\ {"confirmAdd", "confirmStart"} \subseteq ResearchOps
          /\ \A at : Fits("confirmAdd", at) /\ Fits("confirmStart", at)
        BY DEF Fits, ResearchOps
    <2>2. ctx.selected \in Maybe(ResearchTargets)
        BY <1>1, <1>2 DEF ResearchContexts
    <2>3. CASE ctx.addInput
        <3>1. PICK unit \in {"start", None} : Ask("confirmAdd", None, unit)
            BY <1>5, <2>3 DEF AskConfirm
        <3> QED  BY <1>2, <2>1, <3>1, ResearchBudgets, AskWell DEF ResearchWell
    <2>4. CASE ~ctx.addInput
        <3>1. Ask("confirmStart", ctx.selected, "start")  BY <1>5, <2>4 DEF AskConfirm
        <3> QED  BY <1>2, <2>1, <2>2, <3>1, ResearchBudgets, AskWell DEF ResearchWell
    <2> QED  BY <2>3, <2>4
<1>6. CASE AskAdd
    <2>1. "add" \in ResearchOps /\ \A at : Fits("add", at)
        BY DEF Fits, ResearchOps
    <2>2. shown.open \in Maybe(ResearchTargets)
        BY <1>1, <1>2 DEF ResearchGames
    <2>3. PICK at \in {shown.open, None} : Ask("add", at, None)
        BY <1>6 DEF AskAdd
    <2> QED  BY <1>2, <2>1, <2>2, <2>3, ResearchBudgets, AskWell DEF ResearchWell
<1>7. CASE AskClaimQueue \/ AskCloseAward \/ ResearchNavigation
    <2>1. PICK op \in {"claimQueue", "closeAward", "quit", "enter", "leave"},
               unit \in {"reward", None} : Ask(op, None, unit)
        BY <1>7 DEF AskClaimQueue, AskCloseAward, ResearchNavigation
    <2>2. op \in ResearchOps /\ Fits(op, None)
        BY DEF Fits, ResearchOps
    <2> QED  BY <1>2, <2>1, <2>2, ResearchBudgets, AskWell DEF ResearchWell
<1> QED  BY <1>3, <1>4, <1>5, <1>6, <1>7 DEF ResearchAsking

LEMMA ResearchMoves ==
    ASSUME ResearchWell, game.task = "research"
    PROVE  /\ ResearchTime => game' \in ResearchGames /\ GameFits(game)'
           /\ Handle => game' \in ResearchGames /\ GameFits(game)'
           /\ Inject => Booked \in ResearchContexts /\ Booked.budget = Paid.budget
           /\ ResearchContext \in ResearchContexts /\ ResearchContext.budget = Grant
<1>1. game \in ResearchGames /\ GameFits(game) /\ game'.task = game'.task
    BY DEF ResearchWell, Well, Typed
<1>2. /\ game.page \in ResearchPages /\ game.open \in Maybe(Projects)
      /\ game.cards \in [Slots -> Projects] /\ game.status \in [Projects -> ResearchStatus]
      /\ game.page \in {"detail", "startPrompt", "queuePrompt"} => game.open \in Projects
    BY <1>1 DEF ResearchGames, GameFits
<1>3. ASSUME ResearchTime
      PROVE  game' \in ResearchGames /\ GameFits(game)'
    <2>1. CASE \E p \in Projects, to \in ResearchStatus : game' = [game EXCEPT !.status[p] = to]
        BY <1>1, <1>2, <2>1 DEF ResearchGames, GameFits
    <2>2. ASSUME NEW s \in Slots \ {1}, game.page = "cards",
                 game' = [game EXCEPT !.cards[1] = game.cards[s], !.cards[s] = game.cards[1]]
          PROVE  game' \in ResearchGames /\ GameFits(game)'
        <3>1. 1 \in Slots
            BY FS_CardinalityType, ResearchAssumption DEF Slots
        <3> QED  BY <1>1, <1>2, <2>2, <3>1 DEF ResearchGames, GameFits
    <2> QED  BY <1>3, <2>1, <2>2 DEF ResearchTime, ResearchStatus
<1>4. ASSUME Handle
      PROVE  game' \in ResearchGames /\ GameFits(game)'
    <2> DEFINE t == Head(pending)
    <2>1. pending # <<>> /\ game' = ResearchEffect(game, t)
        BY <1>4 DEF Handle, Effect
    <2>2. t = pending[1] /\ 1 \in 1..Len(pending)
        BY <2>1 DEF ResearchWell, Well, Typed
    <2>3. Fits(t.op, t.at)  BY <2>2 DEF ResearchWell, Well, InputsFit
    <2>4. CASE t.op \in {"inspect", "collectCard"} /\ game.page = "cards"
        <3>1. game.cards[t.at.slot] \in Projects  BY <1>2, <2>3, <2>4 DEF Fits, Cards
        <3> QED
            BY <1>1, <1>2, <2>1, <2>4, <3>1
               DEF ResearchEffect, ResearchGames, GameFits, ResearchPages, ResearchStatus, Maybe
    <2>5. CASE t.op \in {"start", "add"} /\ game.page = "detail"
        <3>1. \/ game' = game
              \/ \E page \in {"startPrompt", "queuePrompt"} : game' = [game EXCEPT !.page = page]
            BY <1>1, <2>1, <2>5 DEF ResearchEffect, ResearchGo
        <3> QED  BY <1>1, <1>2, <2>5, <3>1 DEF ResearchGames, GameFits, ResearchPages
    <2>6. CASE t.op \in {"confirmStart", "confirmAdd"} /\ game.page \in {"startPrompt", "queuePrompt"}
        <3>1. game' = game \/ \E to \in ResearchStatus :
                  game' = [game EXCEPT !.page = "detail", !.status[game.open] = to]
            BY <1>2, <2>1, <2>6 DEF ResearchEffect, ResearchStatus
        <3>2. game.open \in Projects  BY <1>2, <2>6
        <3>3. CASE game' = game  BY <1>1, <3>3 DEF GameFits
        <3>4. ASSUME NEW to \in ResearchStatus,
                     game' = [game EXCEPT !.page = "detail", !.status[game.open] = to]
              PROVE  game' \in ResearchGames /\ GameFits(game)'
            <4>1. game' \in ResearchGames  BY <1>1, <1>2, <3>4 DEF ResearchGames, ResearchPages
            <4>2. game'.open \in Projects /\ game'.task = "research"
                BY <1>1, <3>2, <3>4 DEF ResearchGames
            <4> QED  BY <4>1, <4>2 DEF GameFits
        <3> QED  BY <3>1, <3>3, <3>4
    <2>7. CASE t.op = "claimQueue" /\ game.page = "queue"
        <3>1. game' = game \/ \E status \in [Projects -> ResearchStatus] :
                  game' = [game EXCEPT !.page = "award", !.status = status]
            BY <1>2, <2>1, <2>7 DEF ResearchEffect, ResearchStatus
        <3>2. CASE game' = game  BY <1>1, <3>2 DEF GameFits
        <3>3. ASSUME NEW status \in [Projects -> ResearchStatus],
                     game' = [game EXCEPT !.page = "award", !.status = status]
              PROVE  game' \in ResearchGames /\ GameFits(game)'
            <4>1. game' \in ResearchGames  BY <1>1, <1>2, <3>3 DEF ResearchGames, ResearchPages
            <4>2. game'.page = "award" /\ game'.task = "research"  BY <1>1, <3>3 DEF ResearchGames
            <4> QED  BY <4>1, <4>2 DEF GameFits
        <3> QED  BY <3>1, <3>2, <3>3
    <2>8. CASE t.op \in {"quit", "enter", "leave", "closeAward"}
        BY <1>1, <1>2, <2>1, <2>8
           DEF ResearchEffect, ResearchGo, ResearchGames, GameFits, ResearchPages, Maybe
    <2>9. CASE ~(\/ t.op \in {"inspect", "collectCard"} /\ game.page = "cards"
                 \/ t.op \in {"start", "add"} /\ game.page = "detail"
                 \/ t.op \in {"confirmStart", "confirmAdd"} /\ game.page \in {"startPrompt", "queuePrompt"}
                 \/ t.op = "claimQueue" /\ game.page = "queue"
                 \/ t.op \in {"quit", "enter", "leave", "closeAward"})
        BY <1>1, <2>1, <2>9 DEF ResearchEffect, GameFits
    <2> QED  BY <2>4, <2>5, <2>6, <2>7, <2>8, <2>9
<1>5. ASSUME Inject PROVE Booked \in ResearchContexts /\ Booked.budget = Paid.budget
    <2>1. ctx \in ResearchContexts /\ Paid.budget \in [Units -> Nat]
        BY <1>5, ResearchBudgets, InjectFunded DEF ResearchWell
    <2>2. Paid \in ResearchContexts
        BY <2>1 DEF Paid, ResearchContexts
    <2>3. Fits(call.op, call.at) /\ Booked = ResearchBooked
        BY <1>5 DEF ResearchWell, Well, InputsFit, Inject, Booked
    <2>4. CASE call.op = "inspect"
        <3>1. call.at.project \in Projects /\ call.at.status \in ResearchStatus
            BY <2>3, <2>4 DEF Fits, Cards
        <3> QED  BY <2>2, <2>3, <2>4, <3>1 DEF ResearchBooked, Selecting, ResearchContexts, Maybe
    <2>5. CASE call.op = "collectCard"
        BY <2>2, <2>3, <2>5 DEF ResearchBooked, Selecting, ResearchContexts, Maybe
    <2>6. CASE call.op = "start"
        <3>1. CostOf[call.at] \in Maybe({CostOf[p] : p \in Projects})
            BY <2>3, <2>6 DEF Fits, Maybe
        <3> QED  BY <2>2, <2>3, <2>6, <3>1 DEF ResearchBooked, ResearchContexts
    <2>7. CASE call.op \notin {"inspect", "collectCard", "start"}
        BY <2>2, <2>3, <2>7 DEF ResearchBooked, ResearchContexts
    <2> QED  BY <2>4, <2>5, <2>6, <2>7
<1>6. ResearchContext \in ResearchContexts /\ ResearchContext.budget = Grant
    BY TaskAssumption DEF ResearchContext, ResearchContexts, Maybe
<1> QED  BY <1>3, <1>4, <1>5, <1>6

LEMMA ResearchSteps ==
    ASSUME ResearchWell, game.task = "research", [Next]_vars
    PROVE  ResearchWell' /\ game'.task = "research"
<1>0. SUFFICES ResearchWell'  BY DEF ResearchWell, Well, Typed, ResearchGames
<1>1. \A op \in ResearchOps \cap DOMAIN NextInput : NextInput[op] \in ResearchOps
    BY DEF ResearchOps, NextInput
<1>2. CASE Handle  BY <1>2, ResearchMoves, HandleWell DEF ResearchWell
<1>3. CASE Time
    BY <1>3, ResearchMoves, TimeWell DEF ResearchWell, Time
<1>4. CASE Publish  BY <1>4, PublishWell DEF ResearchWell
<1>5. CASE BeginTask
    <2>1. Begin(ResearchContext)  BY <1>5 DEF BeginTask
    <2> QED  BY <2>1, ResearchMoves, ResearchBudgets, BeginWell DEF ResearchWell
<1>6. CASE End  BY <1>6, EndWell DEF ResearchWell
<1>7. CASE Asking  BY <1>7, ResearchAsks DEF Asking
<1>8. CASE TapReturns
    BY <1>8, ResearchMoves, ResearchBudgets, TapReturnsWell DEF ResearchWell, TapReturns
<1>9. CASE TapRaisesLate  BY <1>9, ResearchBudgets, TapRaisesLateWell DEF ResearchWell
<1>10. CASE Waited  BY <1>1, <1>10, ResearchBudgets, WaitedWell DEF ResearchWell
<1>11. CASE CallRaises  BY <1>11, CallEndsWell DEF ResearchWell
<1>12. CASE UNCHANGED vars
    BY <1>12, TimeWell DEF ResearchWell, Well, Typed, vars, GameFits
<1> QED
    BY <1>2, <1>3, <1>4, <1>5, <1>6, <1>7, <1>8, <1>9, <1>10, <1>11, <1>12 DEF Next

(***************************************************************************)
(* The dorm                                                                *)
(***************************************************************************)

DormWell == Well(DormGames, DormContexts, DormOps, DormTargets)

LEMMA DormBudgets == Budgeted(DormContexts)
BY ContextAssumption DEF Budgeted, DormContexts

LEMMA DormAsks ==
    ASSUME DormWell, DormAsking
    PROVE  DormWell'
<1>1. /\ Calling /\ ctx \in DormContexts /\ shown \in DormGames
      /\ \A op \in DormOps : op \notin DOMAIN NextInput
    BY DEF DormAsking, DormWell, Well, Typed, Calling, Maybe, DormOps, NextInput
<1>2. ASSUME NEW f \in Foods, AskFeed(f)  PROVE DormWell'
    <2> DEFINE at == [food |-> f, count |-> shown.stock[f], gauge |-> shown.gauge]
    <2>1. Ask("feed", at, "feed")  BY <1>2 DEF AskFeed
    <2>2. at \in Portions  BY <1>1 DEF DormGames, Portions
    <2>3. at \in Maybe(DormTargets) /\ Fits("feed", at)
        BY <2>2 DEF Maybe, DormTargets, Fits
    <2>4. "feed" \in DormOps /\ "feed" \in Maybe(Units)  BY DEF DormOps, Maybe, Units
    <2> QED  BY <1>1, <2>1, <2>3, <2>4, DormBudgets, AskWell DEF DormWell
<1>3. CASE AskCollect \/ DormNavigation
    <2>1. PICK op \in {"collect", "closePanel", "openPanel", "cancelEmpty", "cancelShop"},
               unit \in {"collect", None} : Ask(op, None, unit)
        BY <1>3 DEF AskCollect, DormNavigation
    <2>2. op \in DormOps /\ Fits(op, None) /\ unit \in Maybe(Units) /\ None \in Maybe(DormTargets)
        BY DEF DormOps, Fits, Maybe, Units
    <2> QED  BY <1>1, <2>1, <2>2, DormBudgets, AskWell DEF DormWell
<1> QED  BY <1>2, <1>3 DEF DormAsking

LEMMA DormMoves ==
    ASSUME DormWell, game.task = "dorm"
    PROVE  /\ DormTime => game' \in DormGames /\ GameFits(game)'
           /\ Handle => game' \in DormGames /\ GameFits(game)'
           /\ Inject => Booked \in DormContexts /\ Booked.budget = Paid.budget
           /\ DormContext \in DormContexts /\ DormContext.budget = Grant
<1>1. game \in DormGames  BY DEF DormWell, Well, Typed
<1>2. game' \in DormGames => GameFits(game)'  BY DEF DormGames, GameFits
<1>3. ASSUME DormTime PROVE game' \in DormGames
    BY <1>1, <1>3, DormAssumption DEF DormTime, DormGames
<1>4. ASSUME Handle PROVE game' \in DormGames
    <2> DEFINE t == Head(pending)
    <2>1. pending # <<>> /\ game' = DormEffect(game, t)
        BY <1>4 DEF Handle, Effect
    <2>2. t = pending[1] /\ 1 \in 1..Len(pending)
        BY <2>1 DEF DormWell, Well, Typed
    <2>3. Fits(t.op, t.at)  BY <2>2 DEF DormWell, Well, InputsFit
    <2>4. CASE t.op = "feed" /\ game.page = "panel" /\ game.stock[t.at.food] # 0
        <3>1. t.at.food \in Foods  BY <2>3, <2>4 DEF Fits, Portions
        <3>2. game.stock[t.at.food] - 1 \in Nat  BY <1>1, <2>4, <3>1 DEF DormGames
        <3>3. Filled(game.gauge + Value[t.at.food]) \in 0..Capacity
            BY <1>1, <3>1, DormAssumption DEF DormGames, Filled
        <3>4. game' = [game EXCEPT !.stock[t.at.food] = game.stock[t.at.food] - 1,
                                   !.gauge = Filled(game.gauge + Value[t.at.food])]
            BY <1>1, <2>1, <2>4 DEF DormEffect, DormGames
        <3> QED  BY <1>1, <3>1, <3>2, <3>3, <3>4 DEF DormGames
    <2>5. CASE ~(t.op = "feed" /\ game.page = "panel" /\ game.stock[t.at.food] # 0)
        BY <1>1, <2>1, <2>5 DEF DormEffect, DormGames, DormPages
    <2> QED  BY <2>4, <2>5
<1>5. ASSUME Inject PROVE Booked \in DormContexts /\ Booked.budget = Paid.budget
    <2>1. ctx \in DormContexts /\ Paid.budget \in [Units -> Nat]
        BY <1>5, DormBudgets, InjectFunded DEF DormWell
    <2>2. Paid \in DormContexts
        BY <2>1 DEF Paid, DormContexts
    <2> QED  BY <2>2 DEF Booked
<1>6. DormContext \in DormContexts /\ DormContext.budget = Grant
    BY TaskAssumption DEF DormContext, DormContexts
<1> QED  BY <1>2, <1>3, <1>4, <1>5, <1>6

LEMMA DormSteps ==
    ASSUME DormWell, game.task = "dorm", [Next]_vars
    PROVE  DormWell' /\ game'.task = "dorm"
<1>0. SUFFICES DormWell'  BY DEF DormWell, Well, Typed, DormGames
<1>1. \A op \in DormOps \cap DOMAIN NextInput : NextInput[op] \in DormOps
    BY DEF DormOps, NextInput
<1>2. CASE Handle  BY <1>2, DormMoves, HandleWell DEF DormWell
<1>3. CASE Time
    BY <1>3, DormMoves, TimeWell DEF DormWell, Time
<1>4. CASE Publish  BY <1>4, PublishWell DEF DormWell
<1>5. CASE BeginTask
    <2>1. Begin(DormContext)  BY <1>5 DEF BeginTask
    <2> QED  BY <2>1, DormMoves, DormBudgets, BeginWell DEF DormWell
<1>6. CASE End  BY <1>6, EndWell DEF DormWell
<1>7. CASE Asking  BY <1>7, DormAsks DEF Asking
<1>8. CASE TapReturns
    BY <1>8, DormMoves, DormBudgets, TapReturnsWell DEF DormWell, TapReturns
<1>9. CASE TapRaisesLate  BY <1>9, DormBudgets, TapRaisesLateWell DEF DormWell
<1>10. CASE Waited  BY <1>1, <1>10, DormBudgets, WaitedWell DEF DormWell
<1>11. CASE CallRaises  BY <1>11, CallEndsWell DEF DormWell
<1>12. CASE UNCHANGED vars
    BY <1>12, TimeWell DEF DormWell, Well, Typed, vars, GameFits
<1> QED
    BY <1>2, <1>3, <1>4, <1>5, <1>6, <1>7, <1>8, <1>9, <1>10, <1>11, <1>12 DEF Next

(***************************************************************************)
(* Construction                                                            *)
(***************************************************************************)

BuildWell == Well(BuildGames, BuildContexts, BuildOps, BuildTargets)

LEMMA BuildBudgets == Budgeted(BuildContexts)
BY ContextAssumption DEF Budgeted, BuildContexts

LEMMA BuildAsks ==
    ASSUME BuildWell, BuildAsking
    PROVE  BuildWell'
<1>1. /\ Calling /\ ctx \in BuildContexts /\ shown \in BuildGames
      /\ \A op \in BuildOps : op \notin DOMAIN NextInput
    BY DEF BuildAsking, BuildWell, Well, Typed, Calling, Maybe, BuildOps, NextInput
<1>2. CASE ReadCoins
    <2>1. Note([ctx EXCEPT !.coins = shown.coins])  BY <1>2 DEF ReadCoins
    <2>2. /\ [ctx EXCEPT !.coins = shown.coins] \in BuildContexts
          /\ [ctx EXCEPT !.coins = shown.coins].budget = ctx.budget
        BY <1>1 DEF BuildContexts, BuildGames, Maybe
    <2> QED  BY <2>1, <2>2, BuildBudgets, NoteWell DEF BuildWell
<1>3. CASE ReadQueue
    <2>1. Note([ctx EXCEPT !.flushed = TRUE])  BY <1>3 DEF ReadQueue
    <2>2. /\ [ctx EXCEPT !.flushed = TRUE] \in BuildContexts
          /\ [ctx EXCEPT !.flushed = TRUE].budget = ctx.budget
        BY <1>1 DEF BuildContexts
    <2> QED  BY <2>1, <2>2, BuildBudgets, NoteWell DEF BuildWell
<1>4. CASE AskConfirmWarning
    <2>1. /\ ctx' = [ctx EXCEPT !.warned = TRUE]
          /\ AskWith("confirmWarning", None, None, None # None)
        BY <1>4 DEF AskConfirmWarning
    <2>2. ctx' \in BuildContexts /\ ctx'.budget = ctx.budget
        BY <1>1, <2>1 DEF BuildContexts
    <2>3. ctx.budget = [u \in Units |-> IF u = None THEN ctx.budget[u] - 1 ELSE ctx.budget[u]]
        BY <1>1, TaskAssumption DEF BuildContexts
    <2>4. "confirmWarning" \in BuildOps /\ None \in Maybe(Units) /\ Fits("confirmWarning", None)
        BY DEF BuildOps, Maybe, Fits
    <2> QED  BY <1>1, <2>1, <2>2, <2>3, <2>4, BuildBudgets, NotedAskWell DEF BuildWell
<1>5. ASSUME NEW at \in Pools, NEW op \in {"pool", "order"}, NEW unit \in {"submit", None},
             Ask(op, at, unit)
      PROVE  BuildWell'
    <2>1. /\ op \in BuildOps /\ at \in Maybe(BuildTargets) /\ unit \in Maybe(Units)
          /\ Fits(op, at)
        BY DEF BuildOps, BuildTargets, Maybe, Units, Fits
    <2> QED  BY <1>1, <1>5, <2>1, BuildBudgets, AskWell DEF BuildWell
<1>6. CASE AskPrepare \/ BuildNavigation
    <2>1. PICK op \in {"prepare", "cancel", "toQueue", "toPools"} : Ask(op, None, None)
        BY <1>6 DEF AskPrepare, BuildNavigation
    <2>2. op \in BuildOps /\ Fits(op, None) /\ None \in Maybe(Units) /\ None \in Maybe(BuildTargets)
        BY DEF BuildOps, Fits, Maybe
    <2> QED  BY <1>1, <2>1, <2>2, BuildBudgets, AskWell DEF BuildWell
<1>7. shown.pool \in Pools  BY <1>1 DEF BuildGames
<1> QED  BY <1>2, <1>3, <1>4, <1>5, <1>6, <1>7 DEF BuildAsking, AskOrder, AskPool

LEMMA BuildMoves ==
    ASSUME BuildWell, game.task = "build"
    PROVE  /\ BuildTime => game' \in BuildGames /\ GameFits(game)'
           /\ Handle => game' \in BuildGames /\ GameFits(game)'
           /\ Inject => Booked \in BuildContexts /\ Booked.budget = Paid.budget
           /\ BuildContext \in BuildContexts /\ BuildContext.budget = Grant
<1>1. game \in BuildGames  BY DEF BuildWell, Well, Typed
<1>2. game' \in BuildGames => GameFits(game)'  BY DEF BuildGames, GameFits
<1>3. ASSUME BuildTime PROVE game' \in BuildGames
    BY <1>1, <1>3 DEF BuildTime, BuildGames
<1>4. ASSUME Handle PROVE game' \in BuildGames
    <2> DEFINE t == Head(pending)
    <2>1. pending # <<>> /\ game' = BuildEffect(game, t)
        BY <1>4 DEF Handle, Effect
    <2>2. t = pending[1] /\ 1 \in 1..Len(pending)
        BY <2>1 DEF BuildWell, Well, Typed
    <2>3. Fits(t.op, t.at)  BY <2>2 DEF BuildWell, Well, InputsFit
    <2>4. CASE t.op = "pool"
        BY <1>1, <2>1, <2>3, <2>4 DEF BuildEffect, BuildGames, Fits
    <2>5. CASE t.op = "order"
        <3>1. /\ game.coins \in Nat /\ PriceOf[game.pool] \in Nat /\ game.orders + 1 \in Nat
              /\ game.coins >= PriceOf[game.pool] => game.coins - PriceOf[game.pool] \in Nat
            BY <1>1, BuildAssumption DEF BuildGames
        <3>2. \/ game' = game
              \/ /\ game.coins >= PriceOf[game.pool]
                 /\ game' = [game EXCEPT !.page = "queue", !.orders = game.orders + 1,
                                         !.coins = game.coins - PriceOf[game.pool]]
            BY <1>1, <2>1, <2>5 DEF BuildEffect, BuildGames
        <3> QED  BY <1>1, <3>1, <3>2 DEF BuildGames, BuildPages
    <2>6. CASE t.op \notin {"pool", "order"}
        BY <1>1, <2>1, <2>6 DEF BuildEffect, BuildGo, BuildGames, BuildPages
    <2> QED  BY <2>4, <2>5, <2>6
<1>5. ASSUME Inject PROVE Booked \in BuildContexts /\ Booked.budget = Paid.budget
    <2>1. ctx \in BuildContexts /\ Paid.budget \in [Units -> Nat]
        BY <1>5, BuildBudgets, InjectFunded DEF BuildWell
    <2>2. Paid \in BuildContexts
        BY <2>1 DEF Paid, BuildContexts
    <2> QED  BY <2>2 DEF Booked, BuildBooked, BuildContexts
<1>6. BuildContext \in BuildContexts /\ BuildContext.budget = Grant
    BY TaskAssumption DEF BuildContext, BuildContexts, Maybe
<1> QED  BY <1>2, <1>3, <1>4, <1>5, <1>6

LEMMA BuildSteps ==
    ASSUME BuildWell, game.task = "build", [Next]_vars
    PROVE  BuildWell' /\ game'.task = "build"
<1>0. SUFFICES BuildWell'  BY DEF BuildWell, Well, Typed, BuildGames
<1>1. \A op \in BuildOps \cap DOMAIN NextInput : NextInput[op] \in BuildOps
    BY DEF BuildOps, NextInput
<1>2. CASE Handle  BY <1>2, BuildMoves, HandleWell DEF BuildWell
<1>3. CASE Time
    BY <1>3, BuildMoves, TimeWell DEF BuildWell, Time
<1>4. CASE Publish  BY <1>4, PublishWell DEF BuildWell
<1>5. CASE BeginTask
    <2>1. Begin(BuildContext)  BY <1>5 DEF BeginTask
    <2> QED  BY <2>1, BuildMoves, BuildBudgets, BeginWell DEF BuildWell
<1>6. CASE End  BY <1>6, EndWell DEF BuildWell
<1>7. CASE Asking  BY <1>7, BuildAsks DEF Asking
<1>8. CASE TapReturns
    BY <1>8, BuildMoves, BuildBudgets, TapReturnsWell DEF BuildWell, TapReturns
<1>9. CASE TapRaisesLate  BY <1>9, BuildBudgets, TapRaisesLateWell DEF BuildWell
<1>10. CASE Waited  BY <1>1, <1>10, BuildBudgets, WaitedWell DEF BuildWell
<1>11. CASE CallRaises  BY <1>11, CallEndsWell DEF BuildWell
<1>12. CASE UNCHANGED vars
    BY <1>12, TimeWell DEF BuildWell, Well, Typed, vars, GameFits
<1> QED
    BY <1>2, <1>3, <1>4, <1>5, <1>6, <1>7, <1>8, <1>9, <1>10, <1>11, <1>12 DEF Next

(***************************************************************************)
(* The tactical class                                                      *)
(***************************************************************************)

TacticalWell == Well(TacticalGames, TacticalContexts, TacticalOps, TacticalTargets)

LEMMA TacticalBudgets == Budgeted(TacticalContexts)
BY ContextAssumption DEF Budgeted, TacticalContexts

LEMMA TacticalAsks ==
    ASSUME TacticalWell, TacticalAsking
    PROVE  TacticalWell'
<1>1. /\ Calling /\ ctx \in TacticalContexts /\ shown \in TacticalGames /\ GameFits(shown)
      /\ None \in Maybe(Units) /\ "assign" \in Maybe(Units) /\ None \in Maybe(TacticalTargets)
      /\ Seats \union Ships \union Books \subseteq Maybe(TacticalTargets)
    BY DEF TacticalAsking, TacticalWell, Well, Typed, Calling, Maybe, Units, TacticalTargets
<1>2. ASSUME NEW at \in Seats, Ask("seat", at, None)  PROVE TacticalWell'
    <2>1. "seat" \in TacticalOps /\ Fits("seat", at)  BY DEF TacticalOps, Fits
    <2> QED  BY <1>1, <1>2, <2>1, TacticalBudgets, AskWell DEF TacticalWell
<1>3. ASSUME NEW at \in Ships, NEW op \in {"ship", "stopCourse"}, Ask(op, at, None)
      PROVE  TacticalWell'
    <2>1. op \in TacticalOps /\ Fits(op, at)  BY DEF TacticalOps, Fits
    <2> QED  BY <1>1, <1>3, <2>1, TacticalBudgets, AskWell DEF TacticalWell
<1>4. ASSUME NEW at \in Books, NEW op \in {"book", "course"}, Ask(op, at, None)
      PROVE  TacticalWell'
    <2>1. op \in TacticalOps /\ Fits(op, at)  BY DEF TacticalOps, Fits
    <2> QED  BY <1>1, <1>4, <2>1, TacticalBudgets, AskWell DEF TacticalWell
<1>5. ASSUME NEW op \in {"skill", "courseConfirm", "bookCancel", "back"},
             NEW unit \in {"assign", None}, op = "skill" => unit = None, Ask(op, None, unit)
      PROVE  TacticalWell'
    <2>1. /\ op \in TacticalOps /\ Fits(op, None)
          /\ op \in DOMAIN NextInput => unit = None
        BY <1>5 DEF TacticalOps, Fits, NextInput
    <2> QED  BY <1>1, <1>5, <2>1, TacticalBudgets, AskWell DEF TacticalWell
<1>6. CASE AskSeat  BY <1>2, <1>6 DEF AskSeat
<1>7. CASE AskStopCourse
    <2>1. shown.pick \in Ships
        BY <1>1, <1>7 DEF AskStopCourse, GameFits, TacticalGames
    <2> QED  BY <1>3, <1>7, <2>1 DEF AskStopCourse
<1>8. CASE AskCourse
    <2>1. shown.book \in Books  BY <1>1 DEF TacticalGames
    <2> QED  BY <1>4, <1>8, <2>1 DEF AskCourse
<1>9. CASE AskSkill \/ AskCourseConfirm \/ TacticalNavigation
    BY <1>5, <1>9 DEF AskSkill, AskCourseConfirm, TacticalNavigation
<1>10. CASE (\E s \in Ships : AskShip(s)) \/ (\E b \in Books : AskBook(b))
    BY <1>3, <1>4, <1>10 DEF AskShip, AskBook
<1> QED  BY <1>6, <1>7, <1>8, <1>9, <1>10 DEF TacticalAsking

LEMMA TacticalMoves ==
    ASSUME TacticalWell, game.task = "tactical"
    PROVE  /\ TacticalTime => game' \in TacticalGames /\ GameFits(game)'
           /\ Handle => game' \in TacticalGames /\ GameFits(game)'
           /\ Inject => Booked \in TacticalContexts /\ Booked.budget = Paid.budget
           /\ TacticalContext \in TacticalContexts /\ TacticalContext.budget = Grant
<1>1. game \in TacticalGames /\ GameFits(game)  BY DEF TacticalWell, Well, Typed
<1>2. /\ game.page \in TacticalPages /\ game.seat \in Seats /\ game.pick \in Maybe(Ships)
      /\ game.book \in Books /\ game.seats \in [Seats -> Maybe(Ships)]
      /\ game.shelf \in [Books -> Nat]
      /\ game.page = "course" => game.shelf[game.book] > 0
      /\ game.page = "continue" => game.pick \in Ships
    BY <1>1 DEF TacticalGames, GameFits
<1>3. ASSUME TacticalTime PROVE game' \in TacticalGames /\ GameFits(game)'
    BY <1>1, <1>2, <1>3 DEF TacticalTime, TacticalGames, TacticalPages, GameFits, Maybe
<1>4. ASSUME Handle PROVE game' \in TacticalGames /\ GameFits(game)'
    <2> DEFINE t == Head(pending)
    <2>1. pending # <<>> /\ game' = TacticalEffect(game, t)
        BY <1>4 DEF Handle, Effect
    <2>2. t = pending[1] /\ 1 \in 1..Len(pending)
        BY <2>1 DEF TacticalWell, Well, Typed
    <2>3. Fits(t.op, t.at)  BY <2>2 DEF TacticalWell, Well, InputsFit
    <2>4. CASE t.op \in {"seat", "ship", "book"}
        BY <1>1, <1>2, <2>1, <2>3, <2>4
           DEF TacticalEffect, TacticalGames, TacticalPages, GameFits, Fits, Maybe
    <2>5. CASE t.op \in {"dockConfirm", "course", "bookCancel", "back"}
        BY <1>1, <1>2, <2>1, <2>5
           DEF TacticalEffect, TacticalGo, TacticalGames, TacticalPages, GameFits
    <2>6. CASE t.op = "skillConfirm"
        <3>1. FirstBook \in Books  BY TacticalAssumption DEF FirstBook
        <3> QED  BY <1>1, <1>2, <2>1, <2>6, <3>1
                    DEF TacticalEffect, TacticalGames, TacticalPages, GameFits
    <2>7. CASE t.op = "courseConfirm" /\ game.page = "course"
        <3>1. game' = [game EXCEPT !.page = "class", !.seats[game.seat] = game.pick,
                                   !.shelf[game.book] = game.shelf[game.book] - 1]
            BY <1>1, <2>1, <2>7 DEF TacticalEffect, TacticalGames
        <3>2. game.shelf[game.book] - 1 \in Nat  BY <1>2, <2>7
        <3> QED  BY <1>1, <1>2, <3>1, <3>2 DEF TacticalGames, TacticalPages, GameFits
    <2>8. CASE t.op = "stopCourse" /\ game.page = "continue"
        <3>1. PICK seats \in [Seats -> Maybe(Ships)] :
                  game' = [game EXCEPT !.page = "class", !.seats = seats]
            BY <1>1, <1>2, <2>1, <2>8 DEF TacticalEffect, TacticalGames, Maybe
        <3> QED  BY <1>1, <1>2, <3>1 DEF TacticalGames, TacticalPages, GameFits
    <2>9. CASE /\ t.op \notin {"seat", "ship", "book", "dockConfirm", "course",
                               "bookCancel", "back", "skillConfirm"}
               /\ ~(t.op = "courseConfirm" /\ game.page = "course")
               /\ ~(t.op = "stopCourse" /\ game.page = "continue")
        BY <1>1, <2>1, <2>9 DEF TacticalEffect, GameFits
    <2> QED  BY <2>4, <2>5, <2>6, <2>7, <2>8, <2>9
<1>5. ASSUME Inject PROVE Booked \in TacticalContexts /\ Booked.budget = Paid.budget
    <2>1. ctx \in TacticalContexts /\ Paid.budget \in [Units -> Nat]
        BY <1>5, TacticalBudgets, InjectFunded DEF TacticalWell
    <2>2. Paid \in TacticalContexts
        BY <2>1 DEF Paid, TacticalContexts
    <2>3. call.op = "stopCourse" => call.at \in Ships
        BY <1>5 DEF TacticalWell, Well, InputsFit, Inject, Fits
    <2> QED  BY <2>2, <2>3 DEF Booked, TacticalBooked, TacticalContexts
<1>6. TacticalContext \in TacticalContexts /\ TacticalContext.budget = Grant
    BY TaskAssumption DEF TacticalContext, TacticalContexts
<1> QED  BY <1>3, <1>4, <1>5, <1>6

LEMMA TacticalSteps ==
    ASSUME TacticalWell, game.task = "tactical", [Next]_vars
    PROVE  TacticalWell' /\ game'.task = "tactical"
<1>0. SUFFICES TacticalWell'  BY DEF TacticalWell, Well, Typed, TacticalGames
<1>1. \A op \in TacticalOps \cap DOMAIN NextInput : NextInput[op] \in TacticalOps
    BY DEF TacticalOps, NextInput
<1>2. CASE Handle  BY <1>2, TacticalMoves, HandleWell DEF TacticalWell
<1>3. CASE Time
    BY <1>3, TacticalMoves, TimeWell DEF TacticalWell, Time
<1>4. CASE Publish  BY <1>4, PublishWell DEF TacticalWell
<1>5. CASE BeginTask
    <2>1. Begin(TacticalContext)  BY <1>5 DEF BeginTask
    <2> QED  BY <2>1, TacticalMoves, TacticalBudgets, BeginWell DEF TacticalWell
<1>6. CASE End  BY <1>6, EndWell DEF TacticalWell
<1>7. CASE Asking  BY <1>7, TacticalAsks DEF Asking
<1>8. CASE TapReturns
    BY <1>8, TacticalMoves, TacticalBudgets, TapReturnsWell DEF TacticalWell, TapReturns
<1>9. CASE TapRaisesLate  BY <1>9, TacticalBudgets, TapRaisesLateWell DEF TacticalWell
<1>10. CASE Waited  BY <1>1, <1>10, TacticalBudgets, WaitedWell DEF TacticalWell
<1>11. CASE CallRaises  BY <1>11, CallEndsWell DEF TacticalWell
<1>12. CASE UNCHANGED vars
    BY <1>12, TimeWell DEF TacticalWell, Well, Typed, vars, GameFits
<1> QED
    BY <1>2, <1>3, <1>4, <1>5, <1>6, <1>7, <1>8, <1>9, <1>10, <1>11, <1>12 DEF Next

(***************************************************************************)
(* All tasks                                                               *)
(***************************************************************************)

TaskWell ==
    \/ game.task = "research" /\ ResearchWell
    \/ game.task = "dorm" /\ DormWell
    \/ game.task = "build" /\ BuildWell
    \/ game.task = "tactical" /\ TacticalWell
    \/ game.task = "mission" /\ MissionWell

LEMMA StartsWell ==
    ASSUME NEW G, NEW C, NEW O, NEW T, Init, game \in G, GameFits(game)
    PROVE  Well(G, C, O, T)
<1>1. /\ shown = game /\ pending = <<>> /\ ctx = None /\ call = NoCall /\ caller = "running"
      /\ invocations = 0 /\ clean = TRUE /\ delivered = [u \in Units |-> 0] /\ begun = {}
    BY DEF Init
<1>2. Typed(G, C, O, T)  BY <1>1 DEF Typed, Maybe, Calls, NoCall
<1>3. Flow  BY <1>1, TaskAssumption DEF Flow
<1>4. InputsFit  BY <1>1 DEF InputsFit, NoCall
<1>5. Charged
    <2>1. InputsFunded  BY <1>1, TaskAssumption DEF InputsFunded
    <2> QED  BY <1>1, <2>1 DEF Charged, CallCharged, Ledger, NoCall, NextInput
<1> QED  BY <1>1, <1>2, <1>3, <1>4, <1>5 DEF Well, NoCall, GameFits

LEMMA InitWell == Init => TaskWell
<1> SUFFICES ASSUME Init PROVE TaskWell  OBVIOUS
<1>1. CASE ResearchInit
    <2>1. game \in ResearchGames /\ game.task = "research" /\ GameFits(game)
        BY <1>1 DEF ResearchInit, ResearchGames, ResearchPages, ResearchStatus, Maybe, GameFits
    <2> QED  BY <2>1, StartsWell DEF TaskWell, ResearchWell
<1>2. CASE DormInit
    <2>1. game \in DormGames /\ game.task = "dorm" /\ GameFits(game)
        BY <1>2, DormAssumption DEF DormInit, DormGames, DormPages, GameFits
    <2> QED  BY <2>1, StartsWell DEF TaskWell, DormWell
<1>3. CASE BuildInit
    <2>1. game \in BuildGames /\ game.task = "build" /\ GameFits(game)
        BY <1>3, BuildAssumption DEF BuildInit, BuildGames, BuildPages, GameFits
    <2> QED  BY <2>1, StartsWell DEF TaskWell, BuildWell
<1>4. CASE TacticalInit
    <2>1. 1 \in Seats
        BY FS_CardinalityType, FS_EmptySet, TacticalAssumption DEF Seats
    <2>2. FirstBook \in Books  BY TacticalAssumption DEF FirstBook
    <2>3. game \in TacticalGames /\ game.task = "tactical" /\ GameFits(game)
        BY <1>4, <2>1, <2>2, TacticalAssumption
           DEF TacticalInit, TacticalGames, TacticalPages, Maybe, GameFits
    <2> QED  BY <2>3, StartsWell DEF TaskWell, TacticalWell
<1>5. CASE MissionInit
    <2>1. game \in MissionGames /\ game.task = "mission" /\ GameFits(game)
        BY <1>5 DEF MissionInit, MissionGames, MissionPages, GameFits
    <2> QED  BY <2>1, StartsWell DEF TaskWell, MissionWell
<1> QED  BY <1>1, <1>2, <1>3, <1>4, <1>5 DEF Init

LEMMA StepsWell == TaskWell /\ [Next]_vars => TaskWell'
BY ResearchSteps, DormSteps, BuildSteps, TacticalSteps, MissionSteps DEF TaskWell

\* The invariant: the task's own, with its games, contexts, inputs and targets.
THEOREM AlwaysWell == Spec => []TaskWell
BY InitWell, StepsWell, PTL DEF Spec

\* Every variable has its type, in whichever task the game and its flow are.
THEOREM TypeCorrect == Spec => []TypeOK
<1>1. TaskWell => TypeOK
    BY DEF TaskWell, ResearchWell, DormWell, BuildWell, TacticalWell, MissionWell, Well, Flow, TypeOK
<1> QED  BY <1>1, AlwaysWell, PTL

\* No invocation of any of the five flows makes more inputs of a kind than it
\* was granted units of it, whether the adapter takes the unit before the tap or
\* after it, and although a tap that raised is not booked.
THEOREM InputsAreFunded == Spec => []InputsFunded
<1>1. TaskWell => InputsFunded
    BY DEF TaskWell, ResearchWell, DormWell, BuildWell, TacticalWell, MissionWell, Well, Charged
<1> QED  BY <1>1, AlwaysWell, PTL

(***************************************************************************)
(* What is on its way between the caller and the game                      *)
(***************************************************************************)

Queue == 1..Len(pending)

\* The inputs O are made on the pages P, and the others elsewhere.
Meets(i, P, O) == pending[i].op \in O <=> game.page \in P

\* Taps that meet nothing, as the game has changed sides since, come first; and
\* while the publication lags behind such a change there are no others.
OneAhead(P, O) ==
    /\ \A i, j \in Queue : i < j /\ Meets(i, P, O) => Meets(j, P, O)
    /\ ~(shown.page \in P <=> game.page \in P) => \A i \in Queue : ~Meets(i, P, O)

Running == ctx # None /\ caller = "running"

\* The taps of a step: none new, one handled, one injected.
Rests    == pending' = pending
Advances == pending # <<>> /\ pending' = Tail(pending) /\ UNCHANGED shown
Extends(t) == pending' = Append(pending, t) /\ UNCHANGED <<game, shown>>

LEMMA QueueAdvances ==
    ASSUME NEW T, pending \in Seq(T), Advances
    PROVE  /\ 1 \in Queue /\ Head(pending) = pending[1]
           /\ pending' \in Seq(T) /\ Len(pending') = Len(pending) - 1
           /\ \A i \in Queue' : pending'[i] = pending[i + 1] /\ i + 1 \in Queue /\ i + 1 > 1
BY DEF Advances, Queue

LEMMA QueueExtends ==
    ASSUME NEW T, pending \in Seq(T), NEW t, Extends(t)
    PROVE  /\ Len(pending') = Len(pending) + 1
           /\ \A i \in Queue' : \/ i \in Queue /\ i # Len(pending') /\ pending'[i] = pending[i]
                                \/ i = Len(pending') /\ pending'[i] = t
           /\ \A i \in Queue : i \in Queue' /\ pending'[i] = pending[i]
BY DEF Extends, Queue

LEMMA AheadRests ==
    ASSUME NEW P, NEW O, OneAhead(P, O), Rests,
           game'.page \in P <=> game.page \in P, shown' = shown \/ shown' = game
    PROVE  OneAhead(P, O)'
<1>1. Queue' = Queue /\ \A i \in Queue : Meets(i, P, O)' <=> Meets(i, P, O)
    BY DEF Rests, Queue, Meets
<1> QED  BY <1>1 DEF OneAhead

LEMMA AheadAdvances ==
    ASSUME NEW P, NEW O, NEW T, pending \in Seq(T), OneAhead(P, O), Advances,
           ~Meets(1, P, O) => (game'.page \in P <=> game.page \in P)
    PROVE  OneAhead(P, O)'
<1>1. /\ 1 \in Queue /\ Queue \subseteq Nat
      /\ \A i \in Queue' : pending'[i] = pending[i + 1] /\ i + 1 \in Queue /\ i + 1 > 1
    BY QueueAdvances DEF Queue
<1>2. shown' = shown  BY DEF Advances
<1>3. CASE game'.page \in P <=> game.page \in P
    <2>1. \A i \in Queue' : Meets(i, P, O)' <=> Meets(i + 1, P, O)
        BY <1>1, <1>3 DEF Meets
    <2>2. ASSUME NEW i \in Queue', NEW j \in Queue', i < j, Meets(i, P, O)'
          PROVE  Meets(j, P, O)'
        <3>1. i + 1 < j + 1  BY <2>2 DEF Queue
        <3> QED  BY <1>1, <2>1, <2>2, <3>1 DEF OneAhead
    <2>3. ASSUME ~(shown'.page \in P <=> game'.page \in P), NEW i \in Queue'
          PROVE  ~Meets(i, P, O)'
        BY <1>1, <1>2, <1>3, <2>1, <2>3 DEF OneAhead
    <2> QED  BY <2>2, <2>3 DEF OneAhead
<1>4. CASE ~(game'.page \in P <=> game.page \in P)
    <2>1. \A i \in Queue : Meets(i, P, O)
        <3>1. \A i \in Queue : i = 1 \/ 1 < i  BY DEF Queue
        <3> QED  BY <1>1, <1>4, <3>1 DEF OneAhead
    <2>2. \A i \in Queue' : ~Meets(i, P, O)'
        BY <1>1, <1>4, <2>1 DEF Meets
    <2> QED  BY <2>2 DEF OneAhead
<1> QED  BY <1>3, <1>4

\* A tap is injected on what is shown.
LEMMA AheadExtends ==
    ASSUME NEW P, NEW O, NEW T, pending \in Seq(T), OneAhead(P, O), NEW t, Extends(t),
           t.op \in O <=> shown.page \in P
    PROVE  OneAhead(P, O)'
<1>1. /\ Len(pending) \in Nat /\ Len(pending') = Len(pending) + 1
      /\ \A i \in Queue' : \/ i \in Queue /\ pending'[i] = pending[i]
                           \/ i = Len(pending') /\ pending'[i] = t
    BY QueueExtends
<1>2. game' = game /\ shown' = shown  BY DEF Extends
<1>3. \A i \in Queue' : \/ i \in Queue /\ (Meets(i, P, O)' <=> Meets(i, P, O))
                        \/ i = Len(pending') /\ (Meets(i, P, O)' <=>
                               (shown.page \in P <=> game.page \in P))
    BY <1>1, <1>2 DEF Meets
<1>4. ASSUME NEW i \in Queue', NEW j \in Queue', i < j, Meets(i, P, O)'
      PROVE  Meets(j, P, O)'
    <2>1. i \in Queue  BY <1>1, <1>4 DEF Queue
    <2>2. Meets(i, P, O)  BY <1>1, <1>3, <1>4, <2>1 DEF Queue
    <2>3. shown.page \in P <=> game.page \in P  BY <2>1, <2>2 DEF OneAhead
    <2> QED  BY <1>3, <1>4, <2>1, <2>2, <2>3 DEF OneAhead
<1>5. ASSUME ~(shown'.page \in P <=> game'.page \in P), NEW i \in Queue'
      PROVE  ~Meets(i, P, O)'
    BY <1>2, <1>3, <1>5 DEF OneAhead
<1> QED  BY <1>4, <1>5 DEF OneAhead

\* After the side has changed no tap is left that meets it.
LEMMA SideChanges ==
    ASSUME NEW P, NEW O, NEW T, pending \in Seq(T), OneAhead(P, O), Advances,
           ~(game'.page \in P <=> game.page \in P),
           ~Meets(1, P, O) => game' = game
    PROVE  /\ shown.page \in P <=> game.page \in P
           /\ \A i \in Queue : Meets(i, P, O)
           /\ \A i \in Queue' : pending'[i].op \in O <=> game.page \in P
<1>1. /\ 1 \in Queue
      /\ \A i \in Queue' : pending'[i] = pending[i + 1] /\ i + 1 \in Queue /\ i + 1 > 1
    BY QueueAdvances
<1>2. Meets(1, P, O)  OBVIOUS
<1>3. \A i \in Queue : i = 1 \/ 1 < i  BY DEF Queue
<1>4. \A i \in Queue : Meets(i, P, O)  BY <1>1, <1>2, <1>3 DEF OneAhead
<1> QED  BY <1>1, <1>2, <1>4 DEF OneAhead, Meets

(***************************************************************************)
(* What a step is                                                          *)
(***************************************************************************)

Tap == [op |-> call.op, at |-> call.at, unit |-> call.unit, run |-> invocations]

LEMMA AskingRests ==
    ASSUME Asking
    PROVE  /\ Calling /\ UNCHANGED <<game, pending, shown, caller, invocations, clean, begun>>
           /\ call' = NoCall \/ call'.pc = "aim"
BY DEF Asking, ResearchAsking, AskCard, AskStart, AskConfirm, AskAdd, AskClaimQueue, AskCloseAward,
       ResearchNavigation, DormAsking, AskCollect, AskFeed, DormNavigation, BuildAsking, ReadCoins,
       ReadQueue, AskPrepare, AskConfirmWarning, AskOrder, AskPool, BuildNavigation,
       TacticalAsking, AskSeat, AskShip, AskSkill, AskBook, AskCourse, AskCourseConfirm,
       AskStopCourse, TacticalNavigation, MissionAsking, ReadMissions, AskTask, AskClaim,
       AskCloseReward, AskLeaveTasks, Ask, AskWith, Note, Calling

\* A step injects the tap of the call, and the call is over or waits; the game
\* handles a tap, or changes by itself; or neither queue nor game change.
LEMMA StepKinds ==
    ASSUME [Next]_vars
    PROVE  \/ Handle
           \/ Time
           \/ Publish
           \/ BeginTask
           \/ /\ Inject /\ Visible /\ Extends(Tap)
              /\ TapReturns \/ TapRaisesLate
           \/ /\ End \/ Asking \/ Waited \/ CallRaises \/ UNCHANGED vars
              /\ UNCHANGED <<game, pending, shown, invocations, clean, begun>>
BY AskingRests
   DEF Next, TapReturns, TapRaisesLate, Inject, Tap, Extends, End, Waited, CallRaises, vars

(***************************************************************************)
(* What the dorm's portions are decided on                                 *)
(***************************************************************************)

Making(op, pc) == call.op = op /\ call.pc = pc
Feeds(i) == pending[i].op = "feed"

\* Nothing is on its way that changes the stock, which is the published one, and
\* the ships have at most eaten since.
Calm ==
    /\ \A i \in Queue : ~Feeds(i)
    /\ shown.stock = game.stock /\ game.gauge <= shown.gauge

\* One portion at a time is on its way, and it fits.
OnePortion ==
    /\ \A i, j \in Queue : Feeds(i) /\ Feeds(j) => i = j
    /\ \A i \in Queue : Feeds(i) => game.gauge + Value[pending[i].at.food] <= Capacity

PortionDecided ==
    Making("feed", "aim") =>
        /\ call.at.count = game.stock[call.at.food] /\ game.gauge <= call.at.gauge
        /\ call.at.gauge + Value[call.at.food] <= Capacity

\* A stock that is one less is the effect of the portion that is waited for.
PortionAwaited ==
    Making("feed", "wait") =>
        /\ \A i \in Queue : Feeds(i) =>
              /\ shown.stock[call.at.food] = call.at.count
              /\ game.stock[call.at.food] = call.at.count
        /\ shown.stock[call.at.food] = call.at.count - 1 => Calm

DormActs ==
    clean => /\ OnePortion /\ PortionDecided /\ PortionAwaited
             /\ Running /\ ~Making("feed", "wait") => Calm

LEMMA DormFacts ==
    ASSUME DormWell
    PROVE  /\ game \in DormGames /\ shown \in DormGames
           /\ pending \in Seq(Taps(DormOps, DormTargets))
           /\ game.gauge \in Nat /\ shown.gauge \in Nat /\ Capacity \in Nat
           /\ game.stock \in [Foods -> Nat] /\ shown.stock \in [Foods -> Nat]
           /\ \A i \in Queue : Feeds(i) => pending[i].at \in Portions
           /\ call.op = "feed" /\ call.pc # "idle" => call.at \in Portions
           /\ call.pc # "idle" => Running /\ call.op \in DormOps
           /\ \A p \in Portions : p.food \in Foods /\ p.count \in Nat /\ p.gauge \in Nat
                                  /\ Value[p.food] \in Nat
<1>1. /\ game \in DormGames /\ shown \in DormGames
      /\ pending \in Seq(Taps(DormOps, DormTargets))
      /\ call.pc # "idle" => call.op \in DormOps
    BY DEF DormWell, Well, Typed
<1>2. call.pc # "idle" => Running
    BY DEF DormWell, Well, Charged, CallCharged, NoCall, Running
<1>3. /\ \A i \in Queue : Feeds(i) => pending[i].at \in Portions
      /\ call.op = "feed" /\ call.pc # "idle" => call.at \in Portions
    BY DEF DormWell, Well, InputsFit, Fits, Feeds, Queue
<1>4. \A p \in Portions : p.food \in Foods /\ p.count \in Nat /\ p.gauge \in Nat
                          /\ Value[p.food] \in Nat
    BY DormAssumption DEF Portions
<1>5. Capacity \in Nat /\ \A g \in DormGames : g.gauge \in Nat /\ g.stock \in [Foods -> Nat]
    BY DormAssumption DEF DormGames
<1> QED  BY <1>1, <1>2, <1>3, <1>4, <1>5

\* Feeding is the only input that changes gauge and stock.
LEMMA OnlyFeedsFeed ==
    ASSUME NEW g \in DormGames, NEW t, t.op # "feed"
    PROVE  DormEffect(g, t).stock = g.stock /\ DormEffect(g, t).gauge = g.gauge
BY DEF DormEffect, DormGames

LEMMA DormHandles ==
    ASSUME DormWell, DormActs, game.task = "dorm", Handle
    PROVE  DormActs'
<1>1. /\ Advances /\ game' = DormEffect(game, Head(pending))
      /\ UNCHANGED <<shown, ctx, call, caller, clean>>
    BY DEF Handle, Advances, Effect
<1>2. /\ 1 \in Queue /\ Head(pending) = pending[1]
      /\ \A i \in Queue' : /\ pending'[i] = pending[i + 1] /\ i + 1 \in Queue /\ i + 1 > 1
                           /\ i \in Nat
    BY <1>1, QueueAdvances, DormFacts DEF Queue
<1>3. \A i \in Queue' : Feeds(i)' <=> Feeds(i + 1)
    BY <1>2 DEF Feeds
<1> SUFFICES ASSUME clean PROVE DormActs'
    BY <1>1 DEF DormActs
<1>4. /\ OnePortion /\ PortionDecided /\ PortionAwaited
      /\ Running /\ ~Making("feed", "wait") => Calm
    BY DEF DormActs
<1>5. CASE Feeds(1)
    <2>1. \A i \in Queue' : ~Feeds(i)'
        BY <1>2, <1>3, <1>4, <1>5 DEF OnePortion
    <2>2. ~Calm  BY <1>2, <1>5 DEF Calm
    <2>3. ~Making("feed", "aim")
        BY <1>4, <2>2, DormFacts DEF Making
    <2>4. PortionAwaited'
        <3> SUFFICES ASSUME Making("feed", "wait")
                     PROVE  shown.stock[call.at.food] # call.at.count - 1
            BY <1>1, <2>1 DEF PortionAwaited, Making
        <3>1. shown.stock[call.at.food] = call.at.count
            BY <1>2, <1>4, <1>5 DEF PortionAwaited
        <3>2. call.at.count \in Nat
            BY DormFacts DEF Making
        <3> QED  BY <3>1, <3>2
    <2>5. Running' /\ ~Making("feed", "wait")' => Calm'
        BY <1>1, <1>4, <2>2 DEF Running, Making
    <2> QED  BY <1>1, <2>1, <2>3, <2>4, <2>5 DEF DormActs, OnePortion, PortionDecided, Making
<1>6. CASE ~Feeds(1)
    <2>1. game'.stock = game.stock /\ game'.gauge = game.gauge
        BY <1>1, <1>2, <1>6, OnlyFeedsFeed, DormFacts DEF Feeds
    <2>2. Calm => Calm'
        BY <1>1, <1>2, <1>3, <2>1 DEF Calm
    <2>3. OnePortion'
        <3>1. \A i, j \in Queue' : Feeds(i)' /\ Feeds(j)' => i = j
            <4> SUFFICES ASSUME NEW i \in Queue', NEW j \in Queue', Feeds(i)', Feeds(j)'
                         PROVE  i = j
                OBVIOUS
            <4>1. i + 1 = j + 1  BY <1>2, <1>3, <1>4 DEF OnePortion
            <4> QED  BY <1>2, <4>1
        <3>2. \A i \in Queue' : Feeds(i)' => game'.gauge + Value[pending'[i].at.food] <= Capacity
            BY <1>2, <1>3, <1>4, <2>1 DEF OnePortion
        <3> QED  BY <3>1, <3>2 DEF OnePortion
    <2>4. PortionDecided'
        BY <1>1, <1>4, <2>1 DEF PortionDecided, Making
    <2>5. PortionAwaited'
        BY <1>1, <1>2, <1>3, <1>4, <2>1, <2>2 DEF PortionAwaited, Making
    <2>6. Running' /\ ~Making("feed", "wait")' => Calm'
        BY <1>1, <1>4, <2>2 DEF Running, Making
    <2> QED  BY <2>3, <2>4, <2>5, <2>6 DEF DormActs
<1> QED  BY <1>5, <1>6

\* Time passes, or what it has done is published.
LEMMA DormChanges ==
    ASSUME DormWell, DormActs, game.task = "dorm", Time \/ Publish
    PROVE  DormActs'
<1>1. /\ UNCHANGED <<pending, ctx, call, caller, clean>>
      /\ \/ game' = [game EXCEPT !.gauge = @ - 1] /\ game.gauge > 0 /\ shown' = shown
         \/ game' = game /\ shown' = game
    BY DEF Time, DormTime, Publish
<1>2. /\ game'.stock = game.stock
      /\ game'.gauge \in Nat /\ game'.gauge <= game.gauge
      /\ shown' = shown \/ (shown'.stock = game'.stock /\ shown'.gauge = game'.gauge)
    BY <1>1, DormFacts DEF DormGames
<1>3. Queue' = Queue /\ \A i \in Queue : Feeds(i)' <=> Feeds(i)
    BY <1>1 DEF Queue, Feeds
<1>4. Calm => Calm'
    BY <1>1, <1>2, <1>3, DormFacts DEF Calm
<1> SUFFICES ASSUME clean PROVE DormActs'
    BY <1>1 DEF DormActs
<1>5. /\ OnePortion /\ PortionDecided /\ PortionAwaited
      /\ Running /\ ~Making("feed", "wait") => Calm
    BY DEF DormActs
<1>6. OnePortion'
    <2>1. ASSUME NEW i \in Queue, Feeds(i)
          PROVE  game'.gauge + Value[pending[i].at.food] <= Capacity
        <3>1. Value[pending[i].at.food] \in Nat  BY <2>1, DormFacts
        <3>2. game.gauge + Value[pending[i].at.food] <= Capacity  BY <1>5, <2>1 DEF OnePortion
        <3> QED  BY <1>2, <3>1, <3>2, DormFacts
    <2> QED  BY <1>1, <1>3, <1>5, <2>1 DEF OnePortion
<1>7. PortionDecided'
    <2> SUFFICES ASSUME Making("feed", "aim")
                 PROVE  /\ call.at.count = game'.stock[call.at.food]
                        /\ game'.gauge <= call.at.gauge
                        /\ call.at.gauge + Value[call.at.food] <= Capacity
        BY <1>1 DEF PortionDecided, Making
    <2>1. call.at.gauge \in Nat  BY DormFacts DEF Making
    <2> QED  BY <1>2, <1>5, <2>1, DormFacts DEF PortionDecided
<1>8. PortionAwaited'
    <2> SUFFICES ASSUME Making("feed", "wait")
                 PROVE  /\ \A i \in Queue : Feeds(i) =>
                              /\ shown'.stock[call.at.food] = call.at.count
                              /\ game'.stock[call.at.food] = call.at.count
                        /\ shown'.stock[call.at.food] = call.at.count - 1 => Calm'
        BY <1>1, <1>3 DEF PortionAwaited, Making
    <2>1. \A i \in Queue : Feeds(i) => /\ shown.stock[call.at.food] = call.at.count
                                       /\ game.stock[call.at.food] = call.at.count
        BY <1>5 DEF PortionAwaited
    <2>2. ASSUME shown'.stock[call.at.food] = call.at.count - 1  PROVE Calm'
        <3>1. CASE shown' = shown
            BY <1>4, <1>5, <2>2, <3>1 DEF PortionAwaited
        <3>2. CASE shown' # shown
            <4>1. call.at.count \in Nat  BY DormFacts DEF Making
            <4>2. game.stock[call.at.food] = call.at.count - 1  BY <1>2, <2>2, <3>2
            <4>3. \A i \in Queue : ~Feeds(i)  BY <2>1, <4>1, <4>2
            <4> QED  BY <1>2, <1>3, <3>2, <4>3 DEF Calm
        <3> QED  BY <3>1, <3>2
    <2> QED  BY <1>2, <2>1, <2>2
<1>9. Running' /\ ~Making("feed", "wait")' => Calm'
    BY <1>1, <1>4, <1>5 DEF Running, Making
<1> QED  BY <1>6, <1>7, <1>8, <1>9 DEF DormActs

LEMMA DormInjects ==
    ASSUME DormWell, DormActs, Inject, Extends(Tap), UNCHANGED clean,
           TapReturns \/ TapRaisesLate
    PROVE  DormActs'
<1>1. /\ call.pc = "aim"
      /\ \/ call' = NoCall
         \/ call' = [call EXCEPT !.pc = "wait"]
      /\ call.op = "feed" => ~Running' \/ call' = [call EXCEPT !.pc = "wait"]
      /\ game' = game /\ shown' = shown
    BY DEF Inject, TapReturns, TapRaisesLate, RaisesLate, Waits, Extends, Running
<1>2. /\ Len(pending') = Len(pending) + 1
      /\ \A i \in Queue' : \/ i \in Queue /\ pending'[i] = pending[i]
                           \/ i = Len(pending') /\ pending'[i] = Tap
      /\ Tap.op = call.op /\ Tap.at = call.at
    BY QueueExtends, DormFacts DEF Tap
<1>3. call \in Calls(DormOps, DormTargets) /\ Running /\ call.op \in DormOps
    BY <1>1, DormFacts DEF DormWell, Well, Typed
<1>4. /\ call'.op = "feed" => call.op = "feed" /\ call'.at = call.at
      /\ call'.pc # "aim"
      /\ call.op = "feed" => ~Running' \/ (call'.op = "feed" /\ call'.pc = "wait")
      /\ call'.op = "feed" => call'.pc = "wait"
    BY <1>1, <1>3, TaskAssumption DEF Calls, NoCall, DormOps, Units
<1> SUFFICES ASSUME clean PROVE DormActs'
    BY DEF DormActs
<1>5. OnePortion /\ PortionDecided /\ Calm
    BY <1>1, <1>3 DEF DormActs, Making
<1>6. \A i \in Queue' : Feeds(i)' => i = Len(pending') /\ call.op = "feed" /\ pending'[i] = Tap
    BY <1>2, <1>5 DEF Feeds, Calm
<1>7. OnePortion'
    <2>1. ASSUME NEW i \in Queue', Feeds(i)'
          PROVE  game'.gauge + Value[pending'[i].at.food] <= Capacity
        <3>1. pending'[i].at = call.at /\ Making("feed", "aim")
            BY <1>1, <1>2, <1>6, <2>1 DEF Making
        <3>2. call.at.gauge \in Nat /\ Value[call.at.food] \in Nat
            BY <3>1, DormFacts DEF Making
        <3>3. game.gauge <= call.at.gauge /\ call.at.gauge + Value[call.at.food] <= Capacity
            BY <1>5, <3>1 DEF PortionDecided
        <3> QED  BY <1>1, <3>1, <3>2, <3>3, DormFacts
    <2> QED  BY <1>6, <2>1 DEF OnePortion
<1>8. PortionDecided'
    BY <1>4 DEF PortionDecided, Making
<1>9. PortionAwaited'
    <2> SUFFICES ASSUME call'.op = "feed"
                 PROVE  /\ shown.stock[call.at.food] = call.at.count
                        /\ game.stock[call.at.food] = call.at.count
                        /\ shown.stock[call.at.food] # call.at.count - 1
        BY <1>1, <1>4 DEF PortionAwaited, Making
    <2>1. Making("feed", "aim")  BY <1>1, <1>4 DEF Making
    <2>2. call.at.count \in Nat  BY <2>1, DormFacts DEF Making
    <2> QED  BY <1>5, <2>1, <2>2 DEF PortionDecided, Calm
<1>10. Running' /\ ~Making("feed", "wait")' => Calm'
    <2> SUFFICES ASSUME call.op # "feed" PROVE Calm'
        BY <1>4 DEF Making
    <2> QED  BY <1>1, <1>5, <1>6 DEF Calm
<1> QED  BY <1>7, <1>8, <1>9, <1>10 DEF DormActs

\* The caller goes on, and nothing moves.
LEMMA DormCalls ==
    ASSUME DormWell, DormActs, game.task = "dorm",
           End \/ Asking \/ Waited \/ CallRaises \/ UNCHANGED vars,
           UNCHANGED <<game, pending, shown, clean>>
    PROVE  DormActs'
<1> SUFFICES ASSUME clean PROVE DormActs'
    BY DEF DormActs
<1>1. /\ OnePortion /\ PortionDecided /\ PortionAwaited
      /\ Running /\ ~Making("feed", "wait") => Calm
    BY DEF DormActs
<1>2. OnePortion' /\ (Calm => Calm')
    BY <1>1 DEF OnePortion, Calm, Queue, Feeds
<1>3. CASE UNCHANGED vars
    <2>1. UNCHANGED <<ctx, call, caller>>  BY <1>3 DEF vars
    <2> QED
        BY <1>1, <1>2, <2>1
           DEF DormActs, PortionDecided, PortionAwaited, Making, Running, Queue, Feeds
<1>4. ASSUME call' = NoCall, ~Running' \/ Calm  PROVE DormActs'
    BY <1>2, <1>4 DEF DormActs, PortionDecided, PortionAwaited, Making, NoCall
<1>5. CASE End \/ CallRaises
    BY <1>4, <1>5 DEF End, CallRaises, Running
<1>6. CASE Waited
    <2>1. Running /\ call.op \in DormOps /\ call.pc = "wait"
        BY <1>6, DormFacts DEF Waited
    <2>2. call' = NoCall  BY <1>6, <2>1 DEF Waited, DormOps, NextInput
    <2>3. Calm
        BY <1>1, <1>6, <2>1 DEF Waited, Fed, PortionAwaited, Making
    <2> QED  BY <1>4, <2>2, <2>3
<1>7. CASE Asking
    <2>1. Calling /\ DormAsking /\ Running /\ Calm
        BY <1>1, <1>7, AskingRests DEF Asking, Calling, Running, NoCall, Making
    <2>2. PICK op \in DormOps, at \in Maybe(Portions), unit \in Maybe(Units) :
              /\ Ask(op, at, unit)
              /\ op = "feed" => \E f \in Foods :
                     /\ at = [food |-> f, count |-> shown.stock[f], gauge |-> shown.gauge]
                     /\ shown.gauge + Value[f] <= Capacity
        BY <2>1, DormFacts
           DEF DormAsking, AskCollect, AskFeed, DormNavigation, DormOps, Units, Maybe, Portions, DormGames
    <2>3. call'.op = op /\ call'.at = at /\ call'.pc = "aim"
        BY <2>2 DEF Ask, AskWith
    <2>4. PortionDecided'
        <3> SUFFICES ASSUME op = "feed"
                     PROVE  /\ at.count = game.stock[at.food] /\ game.gauge <= at.gauge
                            /\ at.gauge + Value[at.food] <= Capacity
            BY <2>3 DEF PortionDecided, Making
        <3> QED  BY <2>1, <2>2 DEF Calm
    <2> QED  BY <1>2, <2>1, <2>3, <2>4 DEF DormActs, PortionAwaited, Making
<1> QED  BY <1>3, <1>5, <1>6, <1>7

LEMMA DormActsSteps ==
    ASSUME DormWell, DormActs, game.task = "dorm", [Next]_vars
    PROVE  DormActs'
<1>1. CASE BeginTask
    <2>1. clean' => pending = <<>> /\ shown = game
        BY <1>1 DEF BeginTask, Begin
    <2>2. UNCHANGED <<game, pending, shown, call>> /\ call = NoCall
        BY <1>1 DEF BeginTask, Begin, DormWell, Well, Charged, CallCharged
    <2>3. ASSUME clean' PROVE Queue' = {} /\ shown' = game'
        BY <2>1, <2>2, <2>3 DEF Queue
    <2>4. Calm' \/ ~clean'
        BY <2>1, <2>2, <2>3, DormFacts DEF Calm
    <2> QED
        BY <2>2, <2>3, <2>4 DEF DormActs, OnePortion, PortionDecided, PortionAwaited, Making, NoCall
<1>2. CASE Handle \/ Time \/ Publish
    BY <1>2, DormHandles, DormChanges
<1>3. CASE Inject /\ Extends(Tap) /\ (TapReturns \/ TapRaisesLate)
    BY <1>3, DormInjects DEF Inject
<1>4. CASE /\ End \/ Asking \/ Waited \/ CallRaises \/ UNCHANGED vars
           /\ UNCHANGED <<game, pending, shown, invocations, clean, begun>>
    BY <1>4, DormCalls
<1> QED  BY <1>1, <1>2, <1>3, <1>4, StepKinds

\* A portion that is handled fits.
LEMMA DormDecides ==
    ASSUME DormWell, DormActs, game.task = "dorm", clean, Handle
    PROVE  FoodFits(Head(pending))
<1>1. /\ Advances /\ game' = DormEffect(game, Head(pending))
    BY DEF Handle, Advances, Effect
<1>2. 1 \in Queue /\ Head(pending) = pending[1]
    BY <1>1, QueueAdvances, DormFacts
<1>3. CASE Feeds(1)
    <2>1. pending[1].at \in Portions  BY <1>2, <1>3, DormFacts
    <2>2. \A f \in Foods : f # pending[1].at.food => game'.stock[f] = game.stock[f]
        BY <1>1, <1>2, <1>3, <2>1, DormFacts DEF Feeds, DormEffect, DormGames
    <2>3. game.gauge + Value[pending[1].at.food] <= Capacity
        BY <1>2, <1>3 DEF DormActs, OnePortion
    <2> QED  BY <1>1, <2>2, <2>3, DormFacts DEF FoodFits
<1>4. CASE ~Feeds(1)
    <2>1. game'.stock = game.stock
        BY <1>1, <1>2, <1>4, OnlyFeedsFeed, DormFacts DEF Feeds
    <2> QED  BY <2>1, DormFacts DEF FoodFits
<1> QED  BY <1>3, <1>4

(***************************************************************************)
(* What an order is decided on                                             *)
(***************************************************************************)

HomePools == {"pool", "prepare", "toQueue"}
AtPools   == OneAhead({"pools"}, HomePools)
Orders(i) == pending[i].op = "order"

\* Away from the pool page, the pool cannot have changed since it was published.
PoolShown == shown.page # "pools" => shown.pool = game.pool

\* One order at a time is on its way, for the pool it will meet.
OrderTaps ==
    \A i \in Queue : Orders(i) =>
        /\ game.page # "pools" => game.pool = pending[i].at
        /\ game.orders = 0
        /\ \A j \in Queue : Orders(j) => i = j

OrderDecided ==
    Making("order", "aim") =>
        /\ game.pool = call.at
        /\ game.page = "pools" => \A i \in Queue : pending[i].op \notin HomePools
        /\ ctx.flushed /\ ~ctx.ordered

\* Until the flow has seen the queue empty it cannot come to the order's page.
QueueUnread ==
    ~ctx.flushed =>
        /\ \A i \in Queue : pending[i].op # "prepare"
        /\ ~Making("prepare", "aim")
        /\ shown.page \in {"pools", "queue"} => game.page \in {"pools", "queue"}
        /\ ctx.coins # None => shown.page \in {"pools", "queue"}

\* Until it has ordered, the queue of orders only gets shorter.
Unordered ==
    ~ctx.ordered =>
        /\ \A i \in Queue : ~Orders(i)
        /\ game.orders <= shown.orders
        /\ ctx.flushed => game.orders = 0

BuildActs ==
    /\ AtPools /\ PoolShown
    /\ clean => OrderTaps /\ OrderDecided /\ (Running => QueueUnread /\ Unordered)

LEMMA BuildFacts ==
    ASSUME BuildWell
    PROVE  /\ game \in BuildGames /\ shown \in BuildGames
           /\ pending \in Seq(Taps(BuildOps, BuildTargets))
           /\ game.orders \in Nat /\ shown.orders \in Nat
           /\ call.pc # "idle" => Running /\ call.op \in BuildOps
           /\ Running => ctx \in BuildContexts
           /\ call \in Calls(BuildOps, BuildTargets)
BY DEF BuildWell, Well, Typed, Charged, CallCharged, NoCall, Running, BuildGames, Maybe

\* What an input changes, and where.
LEMMA BuildEffects ==
    ASSUME NEW g \in BuildGames, NEW t
    PROVE  /\ ~(t.op \in HomePools <=> g.page = "pools") => BuildEffect(g, t) = g
           /\ g.page # "pools" => BuildEffect(g, t).pool = g.pool
           /\ t.op # "order" => BuildEffect(g, t).orders = g.orders
           /\ t.op # "prepare" /\ g.page \in {"pools", "queue"} =>
                 BuildEffect(g, t).page \in {"pools", "queue"}
           /\ t.op = "order" /\ BuildEffect(g, t) # g => g.page = "order"
BY DEF BuildEffect, BuildGo, BuildGames, HomePools

LEMMA BuildHandles ==
    ASSUME BuildWell, BuildActs, game.task = "build", Handle
    PROVE  BuildActs'
<1>1. /\ Advances /\ game' = BuildEffect(game, Head(pending))
      /\ UNCHANGED <<shown, ctx, call, caller, clean>>
    BY DEF Handle, Advances, Effect
<1>2. /\ 1 \in Queue /\ Head(pending) = pending[1]
      /\ \A i \in Queue' : /\ pending'[i] = pending[i + 1] /\ i + 1 \in Queue /\ i + 1 # 1
                           /\ i \in Nat
    BY <1>1, QueueAdvances, BuildFacts DEF Queue
<1> DEFINE t == pending[1]
<1>3. /\ ~Meets(1, {"pools"}, HomePools) => game' = game
      /\ game.page # "pools" => game'.pool = game.pool
      /\ t.op # "order" => game'.orders = game.orders
      /\ t.op # "prepare" /\ game.page \in {"pools", "queue"} => game'.page \in {"pools", "queue"}
    BY <1>1, <1>2, BuildEffects, BuildFacts DEF Meets
<1>4. AtPools'
    BY <1>1, <1>3, BuildFacts, AheadAdvances DEF AtPools, BuildActs
<1>5. PoolShown'
    <2> SUFFICES ASSUME shown.page # "pools" PROVE shown.pool = game'.pool
        BY <1>1 DEF PoolShown
    <2>1. CASE game.page = "pools"
        BY <1>2, <1>3, <2>1 DEF BuildActs, AtPools, OneAhead, PoolShown
    <2>2. CASE game.page # "pools"
        BY <1>3, <2>2 DEF BuildActs, PoolShown
    <2> QED  BY <2>1, <2>2
<1> SUFFICES ASSUME clean
             PROVE  OrderTaps' /\ OrderDecided' /\ (Running' => QueueUnread' /\ Unordered')
    BY <1>1, <1>4, <1>5 DEF BuildActs
<1>6. OrderTaps /\ OrderDecided /\ (Running => QueueUnread /\ Unordered)
    BY DEF BuildActs
\* Where the side changes, none of the other side is left.
<1>7. ~(game'.page = "pools" <=> game.page = "pools") =>
          \A i \in Queue' : pending'[i].op \in HomePools <=> game.page = "pools"
    <2>1. ASSUME ~(game'.page \in {"pools"} <=> game.page \in {"pools"})
          PROVE  \A i \in Queue' : pending'[i].op \in HomePools <=> game.page \in {"pools"}
        BY <1>1, <1>3, <2>1, SideChanges, BuildFacts DEF BuildActs, AtPools
    <2> QED  BY <2>1
<1>8. OrderTaps'
    <2> SUFFICES ASSUME NEW i \in Queue', Orders(i)'
                 PROVE  /\ game'.page # "pools" => game'.pool = pending'[i].at
                        /\ game'.orders = 0
                        /\ \A j \in Queue' : Orders(j)' => i = j
        BY DEF OrderTaps
    <2>1. Orders(i + 1) /\ i + 1 \in Queue  BY <1>2 DEF Orders
    <2>2. game.orders = 0 /\ \A j \in Queue : Orders(j) => i + 1 = j
        BY <1>6, <2>1 DEF OrderTaps
    <2>3. t.op # "order"  BY <1>2, <2>2 DEF Orders
    <2>4. ASSUME NEW j \in Queue', Orders(j)'  PROVE i = j
        <3>1. Orders(j + 1) /\ j + 1 \in Queue  BY <1>2, <2>4 DEF Orders
        <3> QED  BY <1>2, <2>2, <3>1
    <2>5. ASSUME game'.page # "pools"  PROVE game'.pool = pending'[i].at
        <3>1. pending'[i].op \notin HomePools  BY DEF Orders, HomePools
        <3>2. game.page # "pools"  BY <1>7, <2>5, <3>1
        <3> QED  BY <1>2, <1>3, <1>6, <2>1, <3>2 DEF OrderTaps
    <2> QED  BY <1>3, <2>2, <2>3, <2>4, <2>5
<1>9. OrderDecided'
    <2> SUFFICES ASSUME Making("order", "aim")
                 PROVE  /\ game'.pool = call.at
                        /\ game'.page = "pools" => \A i \in Queue' : pending'[i].op \notin HomePools
                        /\ ctx.flushed /\ ~ctx.ordered
        BY <1>1 DEF OrderDecided, Making
    <2>1. /\ game.pool = call.at
          /\ game.page = "pools" => \A i \in Queue : pending[i].op \notin HomePools
          /\ ctx.flushed /\ ~ctx.ordered
        BY <1>6 DEF OrderDecided
    <2>2. CASE game.page = "pools"
        <3>1. game' = game  BY <1>2, <1>3, <2>1, <2>2 DEF Meets
        <3> QED  BY <1>2, <2>1, <3>1
    <2>3. CASE game.page # "pools"
        BY <1>3, <1>7, <2>1, <2>3
    <2> QED  BY <2>2, <2>3
<1>10. QueueUnread => QueueUnread'
    BY <1>1, <1>2, <1>3 DEF QueueUnread, Making
<1>11. Unordered => Unordered'
    BY <1>1, <1>2, <1>3 DEF Unordered, Orders
<1> QED  BY <1>1, <1>6, <1>8, <1>9, <1>10, <1>11 DEF Running

LEMMA BuildChanges ==
    ASSUME BuildWell, BuildActs, game.task = "build", Time \/ Publish
    PROVE  BuildActs'
<1>1. /\ UNCHANGED <<pending, ctx, call, caller, clean>>
      /\ \/ game' = [game EXCEPT !.orders = @ - 1] /\ game.orders > 0 /\ shown' = shown
         \/ game' = game /\ shown' = game
    BY DEF Time, BuildTime, Publish
<1>2. /\ game'.page = game.page /\ game'.pool = game.pool
      /\ \/ game.orders > 0 /\ game'.orders = game.orders - 1 /\ shown' = shown
         \/ game' = game /\ shown' = game
    BY <1>1, BuildFacts DEF BuildGames
<1>3. AtPools'
    BY <1>1, <1>2, AheadRests DEF BuildActs, AtPools, Rests
<1>4. PoolShown'
    BY <1>2 DEF BuildActs, PoolShown
<1> SUFFICES ASSUME clean
             PROVE  OrderTaps' /\ OrderDecided' /\ (Running' => QueueUnread' /\ Unordered')
    BY <1>1, <1>3, <1>4 DEF BuildActs
<1>5. OrderTaps /\ OrderDecided /\ (Running => QueueUnread /\ Unordered)
    BY DEF BuildActs
<1>6. OrderTaps'
    BY <1>1, <1>2, <1>5 DEF OrderTaps, Queue, Orders
<1>7. OrderDecided'
    BY <1>1, <1>2, <1>5 DEF OrderDecided, Making, Queue
<1>8. QueueUnread => QueueUnread'
    BY <1>1, <1>2 DEF QueueUnread, Making, Queue
<1>9. Unordered => Unordered'
    <2> SUFFICES ASSUME Unordered, ~ctx.ordered
                 PROVE  /\ \A i \in Queue : ~Orders(i)
                        /\ game'.orders <= shown'.orders
                        /\ ctx.flushed => game'.orders = 0
        BY <1>1 DEF Unordered, Queue, Orders
    <2>1. /\ \A i \in Queue : ~Orders(i)
          /\ game.orders <= shown.orders /\ (ctx.flushed => game.orders = 0)
        BY DEF Unordered
    <2> QED  BY <1>2, <2>1, BuildFacts
<1> QED  BY <1>1, <1>5, <1>6, <1>7, <1>8, <1>9 DEF Running

LEMMA BuildInjects ==
    ASSUME BuildWell, BuildActs, game.task = "build", Inject, Visible, Extends(Tap),
           UNCHANGED clean, TapReturns \/ TapRaisesLate
    PROVE  BuildActs'
<1>1. /\ call.pc = "aim" /\ Running /\ call.op \in BuildOps
      /\ game' = game /\ shown' = shown
    BY BuildFacts DEF Inject, Extends
<1>2. /\ call' = NoCall
      /\ \/ ~Running'
         \/ ctx' = BuildBooked
    BY <1>1 DEF TapReturns, TapRaisesLate, RaisesLate, Running, Waits, BuildOps, Booked
<1>3. /\ Len(pending') = Len(pending) + 1
      /\ \A i \in Queue' : \/ i \in Queue /\ pending'[i] = pending[i]
                           \/ i = Len(pending') /\ pending'[i] = Tap
      /\ Tap.op = call.op /\ Tap.at = call.at
    BY QueueExtends, BuildFacts DEF Tap
<1>4. call.op \in HomePools <=> shown.page = "pools"
    BY <1>1 DEF Visible, BuildVisible, BuildOps, HomePools
<1>5. AtPools'
    BY <1>3, <1>4, AheadExtends, BuildFacts DEF BuildActs, AtPools
<1>6. PoolShown'
    BY <1>1 DEF BuildActs, PoolShown
<1> SUFFICES ASSUME clean
             PROVE  OrderTaps' /\ OrderDecided' /\ (Running' => QueueUnread' /\ Unordered')
    BY <1>5, <1>6 DEF BuildActs
<1>7. OrderTaps /\ OrderDecided /\ QueueUnread /\ Unordered
    BY <1>1 DEF BuildActs
<1>8. OrderTaps'
    <2>1. CASE call.op = "order"
        <3>1. game.pool = call.at /\ game.orders = 0 /\ \A i \in Queue : ~Orders(i)
            BY <1>1, <1>7, <2>1 DEF OrderDecided, Unordered, Making
        <3>2. \A i \in Queue' : Orders(i)' => i = Len(pending') /\ pending'[i] = Tap
            BY <1>3, <3>1 DEF Orders
        <3> QED  BY <1>1, <1>3, <3>1, <3>2 DEF OrderTaps
    <2>2. CASE call.op # "order"
        <3>1. \A i \in Queue' : Orders(i)' => i \in Queue /\ Orders(i) /\ pending'[i] = pending[i]
            BY <1>3, <2>2 DEF Orders
        <3> QED  BY <1>1, <1>7, <3>1 DEF OrderTaps
    <2> QED  BY <2>1, <2>2
<1>9. OrderDecided' /\ ~Making("prepare", "aim")'
    BY <1>2 DEF OrderDecided, Making, NoCall
<1>10. ASSUME Running'  PROVE QueueUnread' /\ Unordered'
    <2>1. /\ ctx'.flushed = ctx.flushed /\ ctx'.coins = ctx.coins
          /\ ctx'.ordered = (call.op = "order" \/ ctx.ordered)
        BY <1>1, <1>2, <1>10, BuildFacts DEF BuildBooked, Paid, BuildContexts
    <2>2. QueueUnread'
        BY <1>1, <1>3, <1>7, <1>9, <2>1 DEF QueueUnread, Making
    <2>3. Unordered'
        BY <1>1, <1>3, <1>7, <2>1 DEF Unordered, Orders
    <2> QED  BY <2>2, <2>3
<1> QED  BY <1>8, <1>9, <1>10

\* What is shown away from the pool page is what an order will meet.
LEMMA BuildAsked ==
    ASSUME BuildWell, BuildActs, game.task = "build", clean, Asking,
           UNCHANGED <<game, pending, shown>>
    PROVE  OrderDecided' /\ QueueUnread' /\ Unordered'
<1>1. /\ BuildAsking /\ Running /\ ctx \in BuildContexts
      /\ OrderTaps /\ QueueUnread /\ Unordered /\ PoolShown /\ AtPools
    BY BuildFacts DEF Asking, BuildAsking, Calling, Running, BuildActs
<1>2. Queue' = Queue /\ \A i \in Queue : Orders(i)' <=> Orders(i)
    BY DEF Queue, Orders
<1>3. CASE ReadCoins \/ ReadQueue
    <2>1. call' = NoCall
        BY <1>3 DEF ReadCoins, ReadQueue, Note, Calling
    <2>2. /\ ctx'.ordered = ctx.ordered
          /\ ctx'.flushed => ctx.flushed \/ shown.orders = 0
          /\ ~ctx'.flushed => ~ctx.flushed
          /\ ctx'.coins # ctx.coins => shown.page = "pools"
        BY <1>1, <1>3 DEF ReadCoins, ReadQueue, Note, BuildContexts
    <2>3. OrderDecided'  BY <2>1 DEF OrderDecided, Making, NoCall
    <2>4. QueueUnread'
        BY <1>1, <1>2, <2>1, <2>2 DEF QueueUnread, Making, NoCall
    <2>5. Unordered'
        <3> SUFFICES ASSUME ~ctx.ordered, ctx'.flushed
                     PROVE  game.orders = 0
            BY <1>1, <1>2, <2>2 DEF Unordered
        <3>1. game.orders <= shown.orders /\ (ctx.flushed => game.orders = 0)
            BY <1>1 DEF Unordered
        <3> QED  BY <2>2, <3>1, BuildFacts
    <2> QED  BY <2>3, <2>4, <2>5
<1>4. CASE AskConfirmWarning
    <2>1. /\ ctx' = [ctx EXCEPT !.warned = TRUE]
          /\ call'.op = "confirmWarning"
        BY <1>4 DEF AskConfirmWarning, AskWith
    <2>2. ctx'.ordered = ctx.ordered /\ ctx'.flushed = ctx.flushed /\ ctx'.coins = ctx.coins
        BY <1>1, <2>1 DEF BuildContexts
    <2> QED
        BY <1>1, <1>2, <2>1, <2>2 DEF OrderDecided, QueueUnread, Unordered, Making
<1>5. CASE AskOrder
    <2>1. /\ shown.page = "order" /\ ctx.coins # None /\ ~ctx.ordered
          /\ ctx' = ctx /\ call'.op = "order" /\ call'.at = shown.pool
        BY <1>5 DEF AskOrder, Ask, AskWith
    <2>2. ctx.flushed  BY <1>1, <2>1 DEF QueueUnread
    <2>3. game.pool = shown.pool  BY <1>1, <2>1 DEF PoolShown
    <2>4. game.page = "pools" => \A i \in Queue : pending[i].op \notin HomePools
        BY <1>1, <2>1 DEF AtPools, OneAhead, Meets
    <2>5. OrderDecided'
        BY <1>2, <2>1, <2>2, <2>3, <2>4 DEF OrderDecided, Making
    <2> QED  BY <1>1, <1>2, <2>1, <2>2, <2>5 DEF QueueUnread, Unordered
<1>6. CASE AskPrepare \/ (\E p \in Pools : AskPool(p)) \/ BuildNavigation
    <2>0. PICK op \in {"prepare", "pool", "cancel", "toQueue", "toPools"}, at \in Maybe(Pools) :
              Ask(op, at, None) /\ (op = "prepare" => ctx.flushed)
        BY <1>6 DEF AskPrepare, AskPool, BuildNavigation, Maybe
    <2>1. ctx' = ctx /\ call'.op = op
        BY <2>0 DEF Ask, AskWith
    <2> QED
        BY <1>1, <1>2, <2>0, <2>1 DEF OrderDecided, QueueUnread, Unordered, Making
<1> QED  BY <1>1, <1>3, <1>4, <1>5, <1>6 DEF BuildAsking

LEMMA BuildCalls ==
    ASSUME BuildWell, BuildActs, game.task = "build",
           End \/ Asking \/ Waited \/ CallRaises \/ UNCHANGED vars,
           UNCHANGED <<game, pending, shown, clean>>
    PROVE  BuildActs'
<1>1. AtPools' /\ PoolShown'
    BY AheadRests DEF BuildActs, AtPools, PoolShown, Rests
<1> SUFFICES ASSUME clean
             PROVE  OrderTaps' /\ OrderDecided' /\ (Running' => QueueUnread' /\ Unordered')
    BY <1>1 DEF BuildActs
<1>2. OrderTaps /\ OrderDecided /\ (Running => QueueUnread /\ Unordered)
    BY DEF BuildActs
<1>3. OrderTaps'  BY <1>2 DEF OrderTaps, Queue, Orders
<1>4. CASE Asking  BY <1>3, <1>4, BuildAsked
<1>5. ASSUME call' = NoCall, ~Running' \/ UNCHANGED <<ctx, caller>>
      PROVE  OrderDecided' /\ (Running' => QueueUnread' /\ Unordered')
    BY <1>2, <1>5 DEF OrderDecided, QueueUnread, Unordered, Running, Making, NoCall, Queue, Orders
<1>6. CASE End \/ CallRaises
    BY <1>3, <1>5, <1>6 DEF End, CallRaises, Running
<1>7. CASE Waited
    <2>1. call.op \in BuildOps  BY <1>7, BuildFacts DEF Waited
    <2>2. call' = NoCall /\ UNCHANGED <<ctx, caller>>
        BY <1>7, <2>1 DEF Waited, BuildOps, NextInput
    <2> QED  BY <1>3, <1>5, <2>2
<1>8. CASE UNCHANGED vars
    <2>1. UNCHANGED <<ctx, caller, call>>  BY <1>8 DEF vars
    <2> QED
        BY <1>2, <1>3, <2>1
           DEF OrderDecided, QueueUnread, Unordered, Running, Making, Queue, Orders
<1> QED  BY <1>4, <1>6, <1>7, <1>8

LEMMA BuildBegins ==
    ASSUME BuildWell, BuildActs, game.task = "build", BeginTask
    PROVE  BuildActs'
<1>1. /\ clean' => pending = <<>> /\ shown = game
      /\ UNCHANGED <<game, pending, shown, call>> /\ call = NoCall
      /\ ctx' = BuildContext
    BY DEF BeginTask, Begin, BuildWell, Well, Charged, CallCharged
<1>2. AtPools' /\ PoolShown'
    BY <1>1, AheadRests DEF BuildActs, AtPools, PoolShown, Rests
<1> SUFFICES ASSUME clean' PROVE OrderTaps' /\ OrderDecided' /\ QueueUnread' /\ Unordered'
    BY <1>2 DEF BuildActs
<1>3. Queue' = {} /\ shown' = game'
    BY <1>1 DEF Queue
<1>4. ~ctx'.flushed /\ ctx'.coins = None
    BY <1>1 DEF BuildContext
<1> QED
    BY <1>1, <1>3, <1>4, BuildFacts
       DEF OrderTaps, OrderDecided, QueueUnread, Unordered, Making, NoCall

LEMMA BuildActsSteps ==
    ASSUME BuildWell, BuildActs, game.task = "build", [Next]_vars
    PROVE  BuildActs'
<1>1. CASE BeginTask  BY <1>1, BuildBegins
<1>2. CASE Handle \/ Time \/ Publish
    BY <1>2, BuildHandles, BuildChanges
<1>3. CASE Inject /\ Visible /\ Extends(Tap) /\ (TapReturns \/ TapRaisesLate)
    BY <1>3, BuildInjects DEF Inject
<1>4. CASE /\ End \/ Asking \/ Waited \/ CallRaises \/ UNCHANGED vars
           /\ UNCHANGED <<game, pending, shown, invocations, clean, begun>>
    BY <1>4, BuildCalls
<1> QED  BY <1>1, <1>2, <1>3, <1>4, StepKinds

LEMMA BuildDecides ==
    ASSUME BuildWell, BuildActs, game.task = "build", clean, Handle
    PROVE  OneOrder(Head(pending))
<1>1. /\ Advances /\ game' = BuildEffect(game, Head(pending))
    BY DEF Handle, Advances, Effect
<1>2. 1 \in Queue /\ Head(pending) = pending[1]
    BY <1>1, QueueAdvances, BuildFacts
<1> SUFFICES ASSUME Orders(1), game' # game
             PROVE  game.pool = pending[1].at /\ game.orders = 0
    BY <1>2 DEF OneOrder, Orders
<1>3. game.page = "order"
    BY <1>1, <1>2, BuildEffects, BuildFacts DEF Orders
<1> QED  BY <1>2, <1>3 DEF BuildActs, OrderTaps

(***************************************************************************)
(* What a course is decided on                                             *)
(***************************************************************************)

HomeBooks == {"book", "course", "bookCancel"}
AtBooks   == OneAhead({"books"}, HomeBooks)
InBooks   == game.page = "books"
Selects(i) == pending[i].op = "book"

\* A course that will be prepared is for the book that is selected, and nothing
\* on its way before it selects another.
CourseTaps ==
    InBooks => \A i \in Queue : pending[i].op = "course" =>
                   pending[i].at = game.book /\ \A j \in Queue : j < i => ~Selects(j)

\* Outside the wait for a selection, the published one stands.
BookStands ==
    Running /\ InBooks /\ ~Making("book", "wait") =>
        /\ \A i \in Queue : ~Selects(i)
        /\ shown.page = "books" => shown.book = game.book

\* When the game has left the books under a call, it does not come back to them.
BooksLeft ==
    Making("book", "aim") \/ Making("book", "wait") \/ Making("course", "aim") =>
        (~InBooks => \A i \in Queue : pending[i].op \in HomeBooks)

BookDecided ==
    InBooks => /\ Making("course", "aim") => game.book = call.at
               /\ Making("book", "aim") => game.book # call.at

\* A selection that is waited for is the last input, and once it is published it
\* has been handled.
BookAwaited ==
    Making("book", "wait") /\ InBooks =>
        /\ \A i \in Queue : Selects(i) =>
              i = Len(pending) /\ pending[i].at = call.at /\ game.book # call.at
        /\ shown.page = "books" /\ shown.book = call.at => game.book = call.at

CourseFits == CourseTaps /\ BookStands /\ BooksLeft /\ BookDecided /\ BookAwaited
TacticalActs == AtBooks /\ (clean => CourseFits)

LEMMA TacticalFacts ==
    ASSUME TacticalWell
    PROVE  /\ game \in TacticalGames /\ shown \in TacticalGames
           /\ pending \in Seq(Taps(TacticalOps, TacticalTargets))
           /\ call.pc # "idle" => Running /\ call.op \in TacticalOps
           /\ call \in Calls(TacticalOps, TacticalTargets)
BY DEF TacticalWell, Well, Typed, Charged, CallCharged, NoCall, Running, Maybe

\* What an input changes, and where.
LEMMA TacticalEffects ==
    ASSUME NEW g \in TacticalGames, NEW t
    PROVE  /\ ~(t.op \in HomeBooks <=> g.page = "books") => TacticalEffect(g, t) = g
           /\ g.page = "books" /\ t.op # "book" => TacticalEffect(g, t).book = g.book
           /\ g.page = "books" /\ t.op = "book" => /\ TacticalEffect(g, t).book = t.at
                                                   /\ TacticalEffect(g, t).page = "books"
           /\ t.op = "course" /\ TacticalEffect(g, t) # g => g.page = "books"
<1>1. CASE g.page = "books" /\ t.op = "book"
    BY <1>1 DEF TacticalEffect, TacticalGames, HomeBooks
<1>2. CASE g.page = "books" /\ t.op \in {"course", "bookCancel"}
    BY <1>2 DEF TacticalEffect, TacticalGo, TacticalGames, HomeBooks
<1>3. CASE g.page = "books" /\ t.op \notin HomeBooks
    BY <1>3 DEF TacticalEffect, HomeBooks
<1>4. CASE g.page # "books" /\ t.op \in HomeBooks
    BY <1>4 DEF TacticalEffect, HomeBooks
<1>5. CASE g.page # "books" /\ t.op \notin HomeBooks
    BY <1>5 DEF HomeBooks
<1> QED  BY <1>1, <1>2, <1>3, <1>4, <1>5 DEF HomeBooks

LEMMA TacticalHandles ==
    ASSUME TacticalWell, TacticalActs, game.task = "tactical", Handle
    PROVE  TacticalActs'
<1>1. /\ Advances /\ game' = TacticalEffect(game, Head(pending))
      /\ UNCHANGED <<shown, ctx, call, caller, clean>>
    BY DEF Handle, Advances, Effect
<1>2. /\ 1 \in Queue /\ Head(pending) = pending[1] /\ Len(pending') = Len(pending) - 1
      /\ Len(pending) \in Nat
      /\ \A i \in Queue' : /\ pending'[i] = pending[i + 1] /\ i + 1 \in Queue /\ i + 1 # 1
                           /\ i \in Nat /\ 1 < i + 1
    BY <1>1, QueueAdvances, TacticalFacts DEF Queue
<1> DEFINE t == pending[1]
<1>3. /\ ~Meets(1, {"books"}, HomeBooks) => game' = game
      /\ InBooks /\ t.op # "book" => game'.book = game.book
      /\ InBooks /\ t.op = "book" => game'.book = t.at /\ game'.page = "books"
    BY <1>1, <1>2, TacticalEffects, TacticalFacts DEF Meets, InBooks
<1>4. AtBooks'
    BY <1>1, <1>3, TacticalFacts, AheadAdvances DEF AtBooks, TacticalActs
<1> SUFFICES ASSUME clean PROVE CourseFits'
    BY <1>1, <1>4 DEF TacticalActs
<1>5. CourseTaps /\ BookStands /\ BooksLeft /\ BookDecided /\ BookAwaited
    BY DEF TacticalActs, CourseFits
\* Where the side changes, none of the other side is left.
<1>6. ASSUME ~(InBooks' <=> InBooks)
      PROVE  /\ \A i \in Queue' : pending'[i].op \in HomeBooks <=> InBooks
             /\ \A i \in Queue : pending[i].op \in HomeBooks <=> InBooks
             /\ shown.page = "books" <=> InBooks
    <2>1. ~(game'.page \in {"books"} <=> game.page \in {"books"})
        BY <1>6 DEF InBooks
    <2>2. /\ shown.page \in {"books"} <=> game.page \in {"books"}
          /\ \A i \in Queue : Meets(i, {"books"}, HomeBooks)
          /\ \A i \in Queue' : pending'[i].op \in HomeBooks <=> game.page \in {"books"}
        BY <1>1, <1>3, <2>1, SideChanges, TacticalFacts DEF TacticalActs, AtBooks
    <2> QED  BY <2>2 DEF Meets, InBooks
<1>7. CASE InBooks' /\ ~InBooks
    <2>1. /\ \A i \in Queue' : pending'[i].op \notin HomeBooks
          /\ pending[1].op \notin HomeBooks /\ shown'.page # "books"
        BY <1>1, <1>2, <1>6, <1>7
    <2>2. ~(Making("book", "aim") \/ Making("book", "wait") \/ Making("course", "aim"))'
        BY <1>1, <1>2, <1>5, <1>7, <2>1 DEF BooksLeft, Making
    <2>3. CourseTaps' /\ BookStands'
        BY <2>1 DEF CourseTaps, BookStands, Selects, HomeBooks
    <2> QED  BY <2>2, <2>3 DEF CourseFits, BooksLeft, BookDecided, BookAwaited
<1>8. CASE ~InBooks'
    <2>1. BooksLeft'
        <3>1. CASE InBooks  BY <1>6, <1>8, <3>1 DEF BooksLeft
        <3>2. CASE ~InBooks
            BY <1>1, <1>2, <1>5, <3>2 DEF BooksLeft, Making
        <3> QED  BY <3>1, <3>2
    <2> QED
        BY <1>8, <2>1 DEF CourseFits, CourseTaps, BookStands, BookDecided, BookAwaited
<1>9. CASE InBooks /\ InBooks'
    <2>1. CourseTaps'
        <3> SUFFICES ASSUME NEW i \in Queue', pending'[i].op = "course"
                     PROVE  /\ pending'[i].at = game'.book
                            /\ \A j \in Queue' : j < i => ~Selects(j)'
            BY DEF CourseTaps
        <3>1. /\ pending[i + 1].at = game.book
              /\ \A j \in Queue : j < i + 1 => ~Selects(j)
            BY <1>2, <1>5, <1>9 DEF CourseTaps
        <3>2. t.op # "book"  BY <1>2, <3>1 DEF Selects
        <3>3. ASSUME NEW j \in Queue', j < i PROVE ~Selects(j)'
            <4>1. j + 1 < i + 1 /\ j + 1 \in Queue  BY <1>2, <3>3
            <4> QED  BY <1>2, <3>1, <4>1 DEF Selects
        <3> QED  BY <1>2, <1>3, <1>9, <3>1, <3>2, <3>3
    <2>2. ASSUME Running, ~Making("book", "wait")
          PROVE  /\ game'.book = game.book
                 /\ \A i \in Queue' : ~Selects(i)'
        BY <1>2, <1>3, <1>5, <1>9, <2>2 DEF BookStands, Selects
    <2>3. BookStands'
        BY <1>1, <1>5, <1>9, <2>2 DEF BookStands, Running, Making
    <2>4. BookDecided'
        <3>1. ASSUME Making("course", "aim") \/ Making("book", "aim")
              PROVE  Running /\ ~Making("book", "wait")
            BY <3>1, TacticalFacts DEF Making
        <3> QED  BY <1>1, <1>5, <1>9, <2>2, <3>1 DEF BookDecided, Making
    <2>5. BookAwaited'
        <3> SUFFICES ASSUME Making("book", "wait")
                     PROVE  /\ \A i \in Queue' : Selects(i)' =>
                                  /\ i = Len(pending') /\ pending'[i].at = call.at
                                  /\ game'.book # call.at
                            /\ shown.page = "books" /\ shown.book = call.at =>
                                  game'.book = call.at
            BY <1>1 DEF BookAwaited, Making
        <3>1. /\ \A i \in Queue : Selects(i) =>
                    i = Len(pending) /\ pending[i].at = call.at /\ game.book # call.at
              /\ shown.page = "books" /\ shown.book = call.at => game.book = call.at
            BY <1>5, <1>9 DEF BookAwaited
        <3>2. CASE t.op = "book"
            <4>1. Len(pending) = 1 /\ t.at = call.at  BY <1>2, <3>1, <3>2 DEF Selects
            <4>2. Queue' = {}  BY <1>2, <4>1 DEF Queue
            <4> QED  BY <1>3, <1>9, <3>2, <4>1, <4>2
        <3>3. CASE t.op # "book"
            <4>1. ASSUME NEW i \in Queue', Selects(i)'
                  PROVE  i = Len(pending') /\ pending'[i].at = call.at /\ game.book # call.at
                <5>1. Selects(i + 1) /\ i + 1 \in Queue  BY <1>2, <4>1 DEF Selects
                <5> QED  BY <1>2, <3>1, <5>1
            <4> QED  BY <1>3, <1>9, <3>1, <3>3, <4>1
        <3> QED  BY <3>2, <3>3
    <2> QED  BY <1>9, <2>1, <2>3, <2>4, <2>5 DEF CourseFits, BooksLeft
<1> QED  BY <1>7, <1>8, <1>9

LEMMA TacticalChanges ==
    ASSUME TacticalWell, TacticalActs, game.task = "tactical", Time \/ Publish
    PROVE  TacticalActs'
<1>1. /\ UNCHANGED <<pending, ctx, call, caller, clean>>
      /\ \/ ~InBooks /\ ~InBooks' /\ shown' = shown
         \/ game' = game /\ shown' = game
    BY TacticalFacts DEF Time, TacticalTime, Publish, TacticalGames, InBooks
<1>2. AtBooks'
    BY <1>1, AheadRests DEF TacticalActs, AtBooks, Rests, InBooks
<1> SUFFICES ASSUME clean PROVE CourseFits'
    BY <1>1, <1>2 DEF TacticalActs
<1>3. CourseTaps /\ BookStands /\ BooksLeft /\ BookDecided /\ BookAwaited
    BY DEF TacticalActs, CourseFits
<1>4. CASE ~InBooks /\ ~InBooks'
    <2>1. BooksLeft'
        BY <1>1, <1>3, <1>4 DEF BooksLeft, Making, Queue
    <2> QED
        BY <1>4, <2>1 DEF CourseFits, CourseTaps, BookStands, BookDecided, BookAwaited
<1>5. CASE game' = game /\ shown' = game
    <2>1. CourseTaps'  BY <1>1, <1>3, <1>5 DEF CourseTaps, InBooks, Queue, Selects
    <2>2. BookStands'
        BY <1>1, <1>3, <1>5 DEF BookStands, InBooks, Queue, Selects, Running, Making
    <2>3. BooksLeft'  BY <1>1, <1>3, <1>5 DEF BooksLeft, InBooks, Queue, Making
    <2>4. BookDecided'  BY <1>1, <1>3, <1>5 DEF BookDecided, InBooks, Making
    <2>5. BookAwaited'
        BY <1>1, <1>3, <1>5 DEF BookAwaited, InBooks, Queue, Selects, Making
    <2> QED  BY <2>1, <2>2, <2>3, <2>4, <2>5 DEF CourseFits
<1> QED  BY <1>1, <1>4, <1>5

LEMMA TacticalInjects ==
    ASSUME TacticalWell, TacticalActs, game.task = "tactical", Inject, Visible, Extends(Tap),
           UNCHANGED clean, TapReturns \/ TapRaisesLate
    PROVE  TacticalActs'
<1>1. /\ call.pc = "aim" /\ Running /\ call.op \in TacticalOps
      /\ game' = game /\ shown' = shown /\ (InBooks' <=> InBooks)
    BY TacticalFacts DEF Inject, Extends, InBooks
<1>2. /\ call'.pc # "aim"
      /\ call'.pc # "idle" => call'.op = call.op /\ call'.at = call.at
      /\ Running' /\ call.op = "book" => Making("book", "wait")'
    BY <1>1, TacticalFacts
       DEF TapReturns, TapRaisesLate, RaisesLate, Running, Waits, Making, NoCall, Calls
<1>3. /\ Len(pending') = Len(pending) + 1 /\ Len(pending) \in Nat
      /\ \A i \in Queue' : \/ i \in Queue /\ i # Len(pending') /\ pending'[i] = pending[i]
                           \/ i = Len(pending') /\ pending'[i] = Tap
      /\ Tap.op = call.op /\ Tap.at = call.at
    BY QueueExtends, TacticalFacts DEF Tap
<1>4. call.op \in HomeBooks <=> shown.page = "books"
    BY <1>1 DEF Visible, TacticalVisible, TacticalOps, HomeBooks
<1>5. AtBooks'
    BY <1>3, <1>4, AheadExtends, TacticalFacts DEF TacticalActs, AtBooks
<1> SUFFICES ASSUME clean PROVE CourseFits'
    BY <1>5 DEF TacticalActs
<1>6. CourseTaps /\ BookStands /\ BooksLeft /\ BookDecided /\ BookAwaited
    BY DEF TacticalActs, CourseFits
\* No selection is on its way, and the published one stands.
<1>7. InBooks => /\ \A i \in Queue : ~Selects(i)
                 /\ shown.page = "books" => shown.book = game.book
    BY <1>1, <1>6 DEF BookStands, Making
<1>8. CourseTaps'
    <2> SUFFICES ASSUME InBooks, NEW i \in Queue', pending'[i].op = "course"
                 PROVE  /\ pending'[i].at = game.book
                        /\ \A j \in Queue' : j < i => ~Selects(j)'
        BY <1>1 DEF CourseTaps
    <2>1. pending'[i].at = game.book
        BY <1>1, <1>3, <1>6 DEF CourseTaps, BookDecided, Making
    <2>2. ASSUME NEW j \in Queue', j < i PROVE ~Selects(j)'
        <3>1. j \in Queue /\ pending'[j] = pending[j]
            BY <1>3, <2>2 DEF Queue
        <3> QED  BY <1>7, <3>1 DEF Selects
    <2> QED  BY <2>1, <2>2
<1>9. BookStands'
    <2> SUFFICES ASSUME Running', InBooks, call.op # "book"
                 PROVE  /\ \A i \in Queue' : ~Selects(i)'
                        /\ shown.page = "books" => shown.book = game.book
        BY <1>1, <1>2 DEF BookStands
    <2> QED  BY <1>3, <1>7 DEF Selects
<1>10. BooksLeft'
    <2> SUFFICES ASSUME call.op = "book", ~InBooks
                 PROVE  \A i \in Queue' : pending'[i].op \in HomeBooks
        BY <1>1, <1>2 DEF BooksLeft, Making
    <2>1. \A i \in Queue : pending[i].op \in HomeBooks
        BY <1>1, <1>6 DEF BooksLeft, Making
    <2> QED  BY <1>3, <2>1 DEF HomeBooks
<1>11. BookDecided'  BY <1>2 DEF BookDecided, Making
<1>12. BookAwaited'
    <2> SUFFICES ASSUME call.op = "book", call'.at = call.at, InBooks
                 PROVE  /\ \A i \in Queue' : Selects(i)' =>
                              /\ i = Len(pending') /\ pending'[i].at = call.at
                              /\ game.book # call.at
                        /\ shown.page = "books" /\ shown.book = call.at => game.book = call.at
        BY <1>1, <1>2 DEF BookAwaited, Making
    <2>1. game.book # call.at
        BY <1>1, <1>6 DEF BookDecided, Making
    <2> QED  BY <1>3, <1>7, <2>1 DEF Selects
<1> QED  BY <1>8, <1>9, <1>10, <1>11, <1>12 DEF CourseFits

\* A book or a course is asked for where the publication shows the books.
LEMMA TacticalAsked ==
    ASSUME TacticalWell, TacticalActs, game.task = "tactical", clean, Asking,
           UNCHANGED <<game, pending, shown, caller>>
    PROVE  CourseFits'
<1>1. /\ TacticalAsking /\ Running /\ call = NoCall /\ AtBooks
      /\ CourseTaps /\ BookStands
    BY DEF Asking, TacticalAsking, Calling, Running, TacticalActs, CourseFits
<1>2. PICK op \in TacticalOps, at \in TacticalTargets \union {None}, unit \in Maybe(Units) :
          /\ Ask(op, at, unit)
          /\ op \in {"book", "course"} => shown.page = "books"
          /\ op = "course" => at = shown.book
          /\ op = "book" => at # shown.book
    <2>1. CASE AskSeat
        BY <2>1 DEF AskSeat, TacticalOps, TacticalTargets, Maybe
    <2>2. CASE AskSkill \/ AskCourseConfirm \/ TacticalNavigation
        BY <2>2 DEF AskSkill, AskCourseConfirm, TacticalNavigation, TacticalOps, Maybe, Units
    <2>3. CASE AskCourse
        <3>1. shown.book \in TacticalTargets
            BY TacticalFacts DEF TacticalGames, TacticalTargets
        <3> QED  BY <2>3, <3>1 DEF AskCourse, TacticalOps, Maybe
    <2>4. CASE AskStopCourse
        <3>1. shown.pick \in TacticalTargets \union {None}
            BY TacticalFacts DEF TacticalGames, TacticalTargets, Maybe
        <3> QED  BY <2>4, <3>1 DEF AskStopCourse, TacticalOps, Maybe
    <2>5. CASE (\E s \in Ships : AskShip(s)) \/ (\E b \in Books : AskBook(b))
        BY <2>5 DEF AskShip, AskBook, TacticalOps, TacticalTargets, Maybe
    <2> QED  BY <1>1, <2>1, <2>2, <2>3, <2>4, <2>5 DEF TacticalAsking
<1>3. ctx' = ctx /\ call'.pc = "aim" /\ call'.op = op /\ call'.at = at
    BY <1>2 DEF Ask, AskWith
<1>4. ~Making("book", "wait") /\ ~Making("book", "wait")'
    BY <1>1, <1>3 DEF Making, NoCall
<1>5. CourseTaps'  BY <1>1 DEF CourseTaps, InBooks, Queue, Selects
<1>6. BookStands'
    BY <1>1, <1>3, <1>4 DEF BookStands, InBooks, Queue, Selects, Running
<1>7. BooksLeft'
    <2> SUFFICES ASSUME shown.page = "books", game.page # "books"
                 PROVE  \A i \in Queue : pending[i].op \in HomeBooks
        BY <1>2, <1>3 DEF BooksLeft, Making, InBooks, Queue
    <2> QED  BY <1>1 DEF AtBooks, OneAhead, Meets
<1>8. BookDecided'
    <2> SUFFICES ASSUME InBooks, op \in {"book", "course"}
                 PROVE  shown.book = game.book
        BY <1>2, <1>3 DEF BookDecided, Making, InBooks
    <2> QED  BY <1>1, <1>2, <1>4 DEF BookStands
<1>9. BookAwaited'  BY <1>4 DEF BookAwaited
<1> QED  BY <1>5, <1>6, <1>7, <1>8, <1>9 DEF CourseFits

LEMMA TacticalCalls ==
    ASSUME TacticalWell, TacticalActs, game.task = "tactical",
           End \/ Asking \/ Waited \/ CallRaises \/ UNCHANGED vars,
           UNCHANGED <<game, pending, shown, clean>>
    PROVE  TacticalActs'
<1>1. AtBooks'
    BY AheadRests DEF TacticalActs, AtBooks, Rests
<1> SUFFICES ASSUME clean PROVE CourseFits'
    BY <1>1 DEF TacticalActs
<1>2. CourseTaps /\ BookStands /\ BooksLeft /\ BookDecided /\ BookAwaited
    BY DEF TacticalActs, CourseFits
<1>3. CourseTaps'  BY <1>2 DEF CourseTaps, InBooks, Queue, Selects
<1>4. CASE Asking
    <2>1. UNCHANGED caller  BY <1>4, AskingRests
    <2> QED  BY <1>4, <2>1, TacticalAsked
<1>5. CASE End \/ CallRaises
    <2>1. call' = NoCall /\ ~Running'
        BY <1>5 DEF End, CallRaises, Running
    <2> QED
        BY <1>3, <2>1
           DEF CourseFits, BookStands, BooksLeft, BookDecided, BookAwaited, Making, NoCall
<1>6. CASE Waited
    <2>1. /\ call.op \in TacticalOps /\ Running /\ UNCHANGED <<ctx, caller>>
          /\ call.pc = "wait"
        BY <1>6, TacticalFacts DEF Waited
    <2>2. /\ call.op = "book" => shown.page = "books" /\ shown.book = call.at
          /\ call'.op \notin {"book", "course"} \/ call' = NoCall
        <3>1. call.op \in DOMAIN NextInput => NextInput[call.op] \in {"dockConfirm", "skillConfirm"}
            BY DEF NextInput
        <3>2. \A op : [call EXCEPT !.pc = "aim", !.op = op].op = op
            BY TacticalFacts DEF Calls
        <3>3. IF call.op \in DOMAIN NextInput
              THEN call' = [call EXCEPT !.pc = "aim", !.op = NextInput[call.op]]
              ELSE call' = NoCall
            BY <1>6 DEF Waited
        <3>4. call.op = "book" => shown.page = "books" /\ shown.book = call.at
            BY <1>6 DEF Waited, TacticalWaited
        <3> QED  BY <3>1, <3>2, <3>3, <3>4
    <2>3. BooksLeft' /\ BookDecided' /\ BookAwaited'
        BY <2>2 DEF BooksLeft, BookDecided, BookAwaited, Making, NoCall
    <2>4. BookStands'
        <3> SUFFICES ASSUME InBooks
                     PROVE  /\ \A i \in Queue : ~Selects(i)
                            /\ shown.page = "books" => shown.book = game.book
            BY DEF BookStands, InBooks, Queue, Selects
        <3>1. CASE call.op = "book"
            BY <1>2, <2>1, <2>2, <3>1 DEF BookAwaited, Making
        <3>2. CASE call.op # "book"
            BY <1>2, <2>1, <3>2 DEF BookStands, Making
        <3> QED  BY <3>1, <3>2
    <2> QED  BY <1>3, <2>3, <2>4 DEF CourseFits
<1>7. CASE UNCHANGED vars
    <2>1. UNCHANGED <<ctx, caller, call>>  BY <1>7 DEF vars
    <2> QED
        BY <1>2, <1>3, <2>1
           DEF CourseFits, BookStands, BooksLeft, BookDecided, BookAwaited, InBooks, Queue,
               Selects, Running, Making
<1> QED  BY <1>4, <1>5, <1>6, <1>7

LEMMA TacticalBegins ==
    ASSUME TacticalWell, TacticalActs, BeginTask
    PROVE  TacticalActs'
<1>1. /\ clean' => pending = <<>> /\ shown = game
      /\ UNCHANGED <<game, pending, shown, call>> /\ call = NoCall
    BY DEF BeginTask, Begin, TacticalWell, Well, Charged, CallCharged
<1>2. AtBooks'
    BY <1>1, AheadRests DEF TacticalActs, AtBooks, Rests
<1> SUFFICES ASSUME clean' PROVE CourseFits'
    BY <1>2 DEF TacticalActs
<1>3. Queue' = {} /\ shown' = game'
    BY <1>1 DEF Queue
<1> QED
    BY <1>1, <1>3
       DEF CourseFits, CourseTaps, BookStands, BooksLeft, BookDecided, BookAwaited, Making, NoCall

LEMMA TacticalActsSteps ==
    ASSUME TacticalWell, TacticalActs, game.task = "tactical", [Next]_vars
    PROVE  TacticalActs'
<1>1. CASE BeginTask  BY <1>1, TacticalBegins
<1>2. CASE Handle \/ Time \/ Publish
    BY <1>2, TacticalHandles, TacticalChanges
<1>3. CASE Inject /\ Visible /\ Extends(Tap) /\ (TapReturns \/ TapRaisesLate)
    BY <1>3, TacticalInjects DEF Inject
<1>4. CASE /\ End \/ Asking \/ Waited \/ CallRaises \/ UNCHANGED vars
           /\ UNCHANGED <<game, pending, shown, invocations, clean, begun>>
    BY <1>4, TacticalCalls
<1> QED  BY <1>1, <1>2, <1>3, <1>4, StepKinds

LEMMA TacticalDecides ==
    ASSUME TacticalWell, TacticalActs, game.task = "tactical", clean, Handle
    PROVE  CourseAsRead(Head(pending))
<1>1. /\ Advances /\ game' = TacticalEffect(game, Head(pending))
    BY DEF Handle, Advances, Effect
<1>2. 1 \in Queue /\ Head(pending) = pending[1]
    BY <1>1, QueueAdvances, TacticalFacts
<1> SUFFICES ASSUME pending[1].op = "course", game' # game
             PROVE  game.book = pending[1].at
    BY <1>2 DEF CourseAsRead
<1>3. InBooks
    BY <1>1, <1>2, TacticalEffects, TacticalFacts DEF InBooks
<1> QED  BY <1>2, <1>3 DEF TacticalActs, CourseFits, CourseTaps

(***************************************************************************)
(* What the start of a project is decided on                               *)
(***************************************************************************)

HomeCards == {"inspect", "collectCard", "enter"}
AtCards   == OneAhead({"cards"}, HomeCards)
Detail    == {"detail", "startPrompt", "queuePrompt"}

\* Away from the cards, game and publication show the same project or none.
SameScreen ==
    shown.page # "cards" /\ game.page # "cards" =>
        /\ shown.page \in Detail <=> game.page \in Detail
        /\ game.page \in Detail => shown.open = game.open

\* A prompt to start is for a project that waits for it.
PromptIdle == game.page = "startPrompt" => game.status[game.open] = "idle"

OwnTaps == \A i \in Queue : pending[i].run = invocations

\* No other project than p can be opened by what is on its way, and when p runs
\* it is the flow that has started it.
Locked(p) ==
    /\ game.page \in Detail => game.open = p
    /\ shown.page \in Detail => shown.open = p
    /\ game.page = "cards" => \A i \in Queue : pending[i].op \notin {"inspect", "collectCard"}
Fresh(p) == game.status[p] = "running" => p \in begun
Beginning == \E p \in Projects : ctx.selected \in {None, p} /\ Locked(p) /\ Fresh(p)

\* What runs was started by the flow, or is published as running.
RunningRead == \A p \in Projects : Fresh(p) \/ shown.status[p] = "running"

PromptTaps ==
    game.page \in Detail => \A i \in Queue :
        /\ pending[i].op = "confirmStart" => pending[i].at \in {None, game.open}
        /\ pending[i].op = "confirmAdd" => pending[i].unit = "start" \/ Fresh(game.open)

StartDecided ==
    /\ Making("start", "aim") =>
          ctx.selected \in {None, call.at} /\ Locked(call.at) /\ Fresh(call.at)
    /\ Making("confirmStart", "aim") => ctx.startInput /\ call.at = ctx.selected
    /\ Making("add", "aim") => call.at # None \/ ctx.startConfirmed
    /\ Making("confirmAdd", "aim") => call.unit = "start" \/ ctx.startInput

StartNoted ==
    Running => /\ ctx.startInput => Beginning
               /\ ctx.startConfirmed => ctx.startInput
               /\ ctx.addInput => ctx.addPaid \/ ctx.startInput

StartFits == OwnTaps /\ RunningRead /\ PromptTaps /\ StartDecided /\ StartNoted
ResearchActs == AtCards /\ SameScreen /\ PromptIdle /\ (clean => StartFits)

LEMMA ResearchFacts ==
    ASSUME ResearchWell
    PROVE  /\ game \in ResearchGames /\ shown \in ResearchGames
           /\ GameFits(game) /\ GameFits(shown)
           /\ pending \in Seq(Taps(ResearchOps, ResearchTargets))
           /\ call.pc # "idle" => Running /\ call.op \in ResearchOps
           /\ call.pc # "idle" /\ call.op = "start" => call.at \in Projects
           /\ call \in Calls(ResearchOps, ResearchTargets)
           /\ Running => ctx \in ResearchContexts
BY DEF ResearchWell, Well, Typed, InputsFit, Fits, Charged, CallCharged, NoCall, Running, Maybe

\* What an input changes, and where.
LEMMA ResearchEffects ==
    ASSUME NEW g \in ResearchGames, g.task = "research", GameFits(g), NEW t,
           g.page = "startPrompt" => g.status[g.open] = "idle",
           NEW h, h = ResearchEffect(g, t)
    PROVE  /\ ~(t.op \in HomeCards <=> g.page = "cards") => h = g
           /\ g.page # "cards" /\ h.page # "cards" =>
                 /\ h.page \in Detail <=> g.page \in Detail
                 /\ h.open = g.open
           /\ g.page = "cards" /\ h.page \in Detail => t.op \in {"inspect", "collectCard"}
           /\ h.page = "startPrompt" => h.status[h.open] = "idle"
           /\ \A p \in Projects : h.status[p] = "running" /\ g.status[p] # "running" =>
                 /\ t.op = "confirmStart" /\ g.page = "startPrompt"
                 /\ p = g.open /\ g.status[p] = "idle"
           /\ \A p \in Projects : h.status[p] = "queued" /\ g.status[p] # "queued" =>
                 t.op = "confirmAdd" /\ g.page = "queuePrompt" /\ p = g.open
<1> DEFINE card == g.cards[t.at.slot]
<1>0. /\ g.page \in ResearchPages /\ g.open \in Maybe(Projects)
      /\ g.status \in [Projects -> ResearchStatus]
      /\ g.page \in Detail => g.open \in Projects
    BY DEF ResearchGames, GameFits, Detail
<1>1. CASE t.op \in {"inspect", "collectCard"} /\ g.page = "cards"
    <2>1. CASE g.status[card] = "finished"
        <3>1. h = [g EXCEPT !.page = "award", !.status[card] = "idle"]
            BY <1>1, <2>1 DEF ResearchEffect
        <3> QED  BY <1>0, <1>1, <3>1 DEF ResearchGames, HomeCards, Detail
    <2>2. CASE g.status[card] # "finished"
        <3>1. h = [g EXCEPT !.page = "detail", !.open = card]
            BY <1>1, <2>2 DEF ResearchEffect
        <3> QED  BY <1>0, <1>1, <3>1 DEF ResearchGames, HomeCards, Detail
    <2> QED  BY <2>1, <2>2
<1>2. CASE t.op = "start" /\ g.page = "detail" /\ g.status[g.open] = "idle"
    <2>1. h = [g EXCEPT !.page = "startPrompt"]  BY <1>2 DEF ResearchEffect, ResearchGo
    <2> QED  BY <1>0, <1>2, <2>1 DEF ResearchGames, HomeCards, Detail
<1>3. CASE t.op = "confirmStart" /\ g.page = "startPrompt"
    <2>1. \E s \in {"idle", "running"} : h = [g EXCEPT !.page = "detail", !.status[g.open] = s]
        BY <1>0, <1>3 DEF ResearchEffect, ResearchGames
    <2> QED  BY <1>0, <1>3, <2>1 DEF ResearchGames, HomeCards, Detail
<1>4. CASE t.op = "add" /\ g.page = "detail" /\ g.status[g.open] = "running"
    <2>1. h = [g EXCEPT !.page = "queuePrompt"]  BY <1>4 DEF ResearchEffect, ResearchGo
    <2> QED  BY <1>0, <1>4, <2>1 DEF ResearchGames, HomeCards, Detail
<1>5. CASE t.op = "confirmAdd" /\ g.page = "queuePrompt"
    <2>1. \E s \in ResearchStatus :
              /\ h = [g EXCEPT !.page = "detail", !.status[g.open] = s]
              /\ s = "queued" \/ s = g.status[g.open]
        BY <1>0, <1>5 DEF ResearchEffect, ResearchGames, ResearchStatus, Detail
    <2> QED  BY <1>0, <1>5, <2>1 DEF ResearchGames, HomeCards, Detail
<1>6. CASE t.op = "claimQueue" /\ g.page = "queue"
    <2>1. h = g \/ /\ h = [g EXCEPT !.page = "award", !.status = h.status]
                   /\ \A p \in Projects : h.status[p] = "idle" \/ h.status[p] = g.status[p]
        BY <1>0, <1>6 DEF ResearchEffect, ResearchGames
    <2> QED  BY <1>0, <1>6, <2>1 DEF ResearchGames, HomeCards, Detail
<1>7. CASE t.op = "quit" /\ g.page = "detail"
    <2>1. h = [g EXCEPT !.page = "cards", !.open = None]  BY <1>7 DEF ResearchEffect
    <2> QED  BY <1>0, <1>7, <2>1 DEF ResearchGames, HomeCards, Detail
<1>8. CASE \/ t.op = "enter" /\ g.page = "cards"
           \/ t.op = "leave" /\ g.page = "queue"
           \/ t.op = "closeAward" /\ g.page = "award"
    <2>1. \E page \in {"cards", "queue"} :
              h = [g EXCEPT !.page = page] /\ (page = "queue" <=> g.page = "cards")
        BY <1>8 DEF ResearchEffect, ResearchGo
    <2> QED  BY <1>0, <1>8, <2>1 DEF ResearchGames, HomeCards, Detail
<1>9. CASE h = g  BY <1>0, <1>9 DEF Detail
<1> QED
    BY <1>1, <1>2, <1>3, <1>4, <1>5, <1>6, <1>7, <1>8, <1>9 DEF ResearchEffect

LEMMA ResearchHandles ==
    ASSUME ResearchWell, ResearchActs, game.task = "research", Handle
    PROVE  ResearchActs'
<1>1. /\ Advances /\ game' = ResearchEffect(game, Head(pending))
      /\ UNCHANGED <<shown, ctx, call, caller, clean, invocations>>
    BY DEF Handle, Advances, Effect
<1>2. /\ 1 \in Queue /\ Head(pending) = pending[1]
      /\ \A i \in Queue' : pending'[i] = pending[i + 1] /\ i + 1 \in Queue
    BY <1>1, QueueAdvances, ResearchFacts
<1> DEFINE t == pending[1]
<1>3. /\ ~Meets(1, {"cards"}, HomeCards) => game' = game
      /\ game.page # "cards" /\ game'.page # "cards" =>
            /\ game'.page \in Detail <=> game.page \in Detail
            /\ game'.open = game.open
      /\ game.page = "cards" /\ game'.page \in Detail => t.op \in {"inspect", "collectCard"}
      /\ PromptIdle'
      /\ \A p \in Projects : game'.status[p] = "running" /\ game.status[p] # "running" =>
            game.status[p] = "idle"
    BY <1>1, <1>2, ResearchEffects, ResearchFacts DEF Meets, PromptIdle, ResearchActs
<1>4. AtCards'
    BY <1>1, <1>3, ResearchFacts, AheadAdvances DEF AtCards, ResearchActs
\* Where the side changes, none of the other side is left.
<1>5. ASSUME ~(game'.page = "cards" <=> game.page = "cards")
      PROVE  /\ \A i \in Queue' : pending'[i].op \in HomeCards <=> game.page = "cards"
             /\ shown.page = "cards" <=> game.page = "cards"
    <2>1. ~(game'.page \in {"cards"} <=> game.page \in {"cards"})
        BY <1>5
    <2>2. /\ shown.page \in {"cards"} <=> game.page \in {"cards"}
          /\ \A i \in Queue' : pending'[i].op \in HomeCards <=> game.page \in {"cards"}
        BY <1>1, <1>3, <2>1, SideChanges, ResearchFacts DEF ResearchActs, AtCards
    <2> QED  BY <2>2
<1>6. SameScreen'
    BY <1>1, <1>3, <1>5 DEF SameScreen, ResearchActs
<1> SUFFICES ASSUME clean PROVE StartFits'
    BY <1>1, <1>3, <1>4, <1>6 DEF ResearchActs
<1>7. OwnTaps /\ RunningRead /\ PromptTaps /\ StartDecided /\ StartNoted
    BY DEF ResearchActs, StartFits
<1>8. begun' = begun \union Started
    BY <1>2, <1>7 DEF Handle, OwnTaps
<1>9. ASSUME NEW p \in Projects, Fresh(p) PROVE Fresh(p)'
    BY <1>3, <1>8, <1>9 DEF Fresh, Started
<1>10. ASSUME NEW p, Locked(p) PROVE Locked(p)'
    <2>1. ASSUME game'.page \in Detail PROVE game'.open = p
        BY <1>2, <1>3, <1>10, <2>1 DEF Locked, Detail
    <2>2. ASSUME game'.page = "cards", NEW i \in Queue'
          PROVE  pending'[i].op \notin {"inspect", "collectCard"}
        BY <1>2, <1>5, <1>10, <2>2 DEF Locked, HomeCards
    <2> QED  BY <1>1, <1>10, <2>1, <2>2 DEF Locked
<1>11. OwnTaps'  BY <1>1, <1>2, <1>7 DEF OwnTaps
<1>12. RunningRead'  BY <1>1, <1>7, <1>9 DEF RunningRead
<1>13. PromptTaps'
    <2> SUFFICES ASSUME game'.page \in Detail, NEW i \in Queue'
                 PROVE  /\ pending'[i].op = "confirmStart" => pending'[i].at \in {None, game'.open}
                        /\ pending'[i].op = "confirmAdd" =>
                              pending'[i].unit = "start" \/ Fresh(game.open)'
        BY DEF PromptTaps
    <2>1. CASE game.page = "cards"
        BY <1>5, <2>1 DEF Detail, HomeCards
    <2>2. CASE game.page # "cards"
        <3>1. game.page \in Detail /\ game'.open = game.open /\ game.open \in Projects
            BY <1>3, <2>2, ResearchFacts DEF Detail, GameFits
        <3>2. Fresh(game.open) => (game'.status[game.open] = "running" => game.open \in begun')
            BY <1>9, <3>1 DEF Fresh
        <3> QED  BY <1>2, <1>7, <3>1, <3>2 DEF PromptTaps, Fresh
    <2> QED  BY <2>1, <2>2
<1>14. StartDecided'
    <2>1. ASSUME Making("start", "aim")
          PROVE  /\ ctx.selected \in {None, call.at}
                 /\ Locked(call.at)' /\ Fresh(call.at)'
        <3>1. call.at \in Projects  BY <2>1, ResearchFacts DEF Making
        <3>2. ctx.selected \in {None, call.at} /\ Locked(call.at) /\ Fresh(call.at)
            BY <1>7, <2>1 DEF StartDecided
        <3> DEFINE p == call.at
        <3>3. Locked(p)'
            BY <1>1, <1>10, <3>1, <3>2 DEF Locked
        <3>4. Fresh(p)'
            BY <1>1, <1>9, <3>1, <3>2 DEF Fresh
        <3> QED  BY <3>2, <3>3, <3>4
    <2> QED  BY <1>1, <1>7, <2>1 DEF StartDecided, Making
<1>15. StartNoted'
    <2>1. Beginning => Beginning'
        BY <1>1, <1>9, <1>10 DEF Beginning
    <2> QED  BY <1>1, <1>7, <2>1 DEF StartNoted, Running
<1> QED  BY <1>11, <1>12, <1>13, <1>14, <1>15 DEF StartFits

LEMMA ResearchChanges ==
    ASSUME ResearchWell, ResearchActs, game.task = "research", Time \/ Publish
    PROVE  ResearchActs'
<1>1. /\ UNCHANGED <<pending, ctx, call, caller, clean, invocations, begun>>
      /\ game'.page = game.page /\ game'.open = game.open
      /\ shown' = shown \/ (game' = game /\ shown' = game)
    <2>1. CASE Publish  BY <2>1 DEF Publish
    <2>2. CASE Time
        BY <2>2, ResearchFacts DEF Time, ResearchTime, ResearchGames
    <2> QED  BY <2>1, <2>2
<1>2. ASSUME NEW p \in Projects
      PROVE  /\ game'.status[p] = "running" => game.status[p] = "running"
             /\ game.status[p] = "idle" => game'.status[p] = "idle"
    <2>1. CASE Publish  BY <2>1 DEF Publish
    <2>2. CASE Time  BY <2>2, ResearchFacts DEF Time, ResearchTime, ResearchGames
    <2> QED  BY <2>1, <2>2
<1>3. AtCards'
    BY <1>1, AheadRests DEF ResearchActs, AtCards, Rests
<1>4. SameScreen'  BY <1>1 DEF ResearchActs, SameScreen
<1>5. PromptIdle'
    BY <1>1, <1>2, ResearchFacts DEF ResearchActs, PromptIdle, GameFits
<1> SUFFICES ASSUME clean PROVE StartFits'
    BY <1>1, <1>3, <1>4, <1>5 DEF ResearchActs
<1>6. OwnTaps /\ RunningRead /\ PromptTaps /\ StartDecided /\ StartNoted
    BY DEF ResearchActs, StartFits
<1>7. ASSUME NEW p \in Projects, Fresh(p) PROVE Fresh(p)'
    BY <1>1, <1>2, <1>7 DEF Fresh
<1>8. ASSUME NEW p, Locked(p) PROVE Locked(p)'
    BY <1>1, <1>8 DEF Locked, Queue
<1>9. OwnTaps'  BY <1>1, <1>6 DEF OwnTaps, Queue
<1>10. RunningRead'
    BY <1>1, <1>6, <1>7 DEF RunningRead, Fresh
<1>11. PromptTaps'
    <2> SUFFICES ASSUME game.page \in Detail, Fresh(game.open)
                 PROVE  game'.status[game.open] = "running" => game.open \in begun
        BY <1>1, <1>6 DEF PromptTaps, Fresh, Queue
    <2>1. game.open \in Projects  BY ResearchFacts DEF Detail, GameFits
    <2> QED  BY <1>2, <2>1 DEF Fresh
<1>12. StartDecided'
    <2>1. ASSUME Making("start", "aim")
          PROVE  /\ ctx.selected \in {None, call.at}
                 /\ Locked(call.at)' /\ Fresh(call.at)'
        <3>1. call.at \in Projects  BY <2>1, ResearchFacts DEF Making
        <3>2. ctx.selected \in {None, call.at} /\ Locked(call.at) /\ Fresh(call.at)
            BY <1>6, <2>1 DEF StartDecided
        <3>3. Locked(call.at)'
            BY <1>1, <3>2 DEF Locked, Queue
        <3>4. Fresh(call.at)'
            BY <1>1, <1>2, <3>1, <3>2 DEF Fresh
        <3> QED  BY <3>2, <3>3, <3>4
    <2> QED  BY <1>1, <1>6, <2>1 DEF StartDecided, Making
<1>13. StartNoted'
    <2>1. Beginning => Beginning'
        BY <1>1, <1>7, <1>8 DEF Beginning
    <2> QED  BY <1>1, <1>6, <2>1 DEF StartNoted, Running
<1> QED  BY <1>9, <1>10, <1>11, <1>12, <1>13 DEF StartFits

\* The fields of the context that an input changes.
LEMMA ResearchNotes ==
    ASSUME ResearchWell, Running, call.op \in ResearchOps, call.pc = "aim",
           ctx' = ResearchBooked
    PROVE  /\ call.op \in {"inspect", "collectCard"} =>
                 ~ctx'.startInput /\ ~ctx'.startConfirmed /\ ~ctx'.addInput
           /\ call.op \notin {"inspect", "collectCard"} =>
                 /\ ctx'.selected = ctx.selected
                 /\ ctx'.startInput => ctx.startInput \/ call.op = "start"
                 /\ ctx.startInput \/ call.op = "start" => ctx'.startInput
                 /\ ctx'.startConfirmed =>
                       (ctx.startConfirmed /\ call.op # "start") \/ call.op = "confirmStart"
                 /\ ctx'.addInput => ctx.addInput \/ call.op = "add"
                 /\ call.op # "add" /\ ctx.addPaid => ctx'.addPaid
                 /\ call.op = "add" /\ call.at # None => ctx'.addPaid
<1>1. ctx \in ResearchContexts  BY ResearchFacts
<1>2. PICK b : Paid = [ctx EXCEPT !.budget = b]
    BY <1>1 DEF Paid, ResearchContexts
<1> QED  BY <1>1, <1>2 DEF ResearchBooked, Selecting, ResearchContexts, ResearchOps

LEMMA ResearchInjects ==
    ASSUME ResearchWell, ResearchActs, game.task = "research", Inject, Visible, Extends(Tap),
           UNCHANGED <<clean, invocations, begun>>, TapReturns \/ TapRaisesLate
    PROVE  ResearchActs'
<1>1. /\ call.pc = "aim" /\ Running /\ call.op \in ResearchOps
      /\ game' = game /\ shown' = shown
    BY ResearchFacts DEF Inject, Extends
<1>2. call' = NoCall /\ (Running' => ctx' = ResearchBooked)
    BY <1>1 DEF TapReturns, TapRaisesLate, RaisesLate, Running, Waits, ResearchOps, Booked
<1>3. /\ Len(pending') = Len(pending) + 1
      /\ \A i \in Queue' : \/ i \in Queue /\ pending'[i] = pending[i]
                           \/ i = Len(pending') /\ pending'[i] = Tap
      /\ Tap.op = call.op /\ Tap.at = call.at /\ Tap.unit = call.unit
      /\ Tap.run = invocations
    BY QueueExtends, ResearchFacts DEF Tap
<1>4. call.op \in HomeCards <=> shown.page = "cards"
    BY <1>1 DEF Visible, ResearchVisible, ResearchOps, HomeCards, CardsShown, CanStart,
                DetailShown, IsRunning, Claimable
<1>5. AtCards'
    BY <1>3, <1>4, AheadExtends, ResearchFacts DEF ResearchActs, AtCards
<1>6. SameScreen' /\ PromptIdle'
    BY <1>1 DEF ResearchActs, SameScreen, PromptIdle
<1> SUFFICES ASSUME clean PROVE StartFits'
    BY <1>5, <1>6 DEF ResearchActs
<1>7. OwnTaps /\ RunningRead /\ PromptTaps /\ StartDecided /\ StartNoted
    BY DEF ResearchActs, StartFits
<1>8. \A p : Fresh(p)' <=> Fresh(p)
    BY <1>1 DEF Fresh
<1>9. ASSUME NEW p, Locked(p), call.op \notin {"inspect", "collectCard"} PROVE Locked(p)'
    BY <1>1, <1>3, <1>9 DEF Locked
<1>10. OwnTaps'  BY <1>3, <1>7 DEF OwnTaps
<1>11. RunningRead'  BY <1>1, <1>7 DEF RunningRead, Fresh
<1>12. PromptTaps'
    <2> SUFFICES ASSUME game.page \in Detail
                 PROVE  /\ call.op = "confirmStart" => call.at \in {None, game.open}
                        /\ call.op = "confirmAdd" => call.unit = "start" \/ Fresh(game.open)
        BY <1>1, <1>3, <1>7 DEF PromptTaps, Fresh
    <2>1. ctx.startInput => ctx.selected \in {None, game.open} /\ Fresh(game.open)
        BY <1>1, <1>7 DEF StartNoted, Beginning, Locked
    <2> QED  BY <1>1, <1>7, <2>1 DEF StartDecided, Making
<1>13. StartDecided'  BY <1>2 DEF StartDecided, Making, NoCall
<1>14. StartNoted'
    <2> SUFFICES ASSUME Running'
                 PROVE  /\ ctx'.startInput => Beginning'
                        /\ ctx'.startConfirmed => ctx'.startInput
                        /\ ctx'.addInput => ctx'.addPaid \/ ctx'.startInput
        BY DEF StartNoted
    <2>1. /\ call.op \in {"inspect", "collectCard"} =>
                ~ctx'.startInput /\ ~ctx'.startConfirmed /\ ~ctx'.addInput
          /\ call.op \notin {"inspect", "collectCard"} =>
                /\ ctx'.selected = ctx.selected
                /\ ctx'.startInput => ctx.startInput \/ call.op = "start"
                /\ ctx.startInput \/ call.op = "start" => ctx'.startInput
                /\ ctx'.startConfirmed =>
                      (ctx.startConfirmed /\ call.op # "start") \/ call.op = "confirmStart"
                /\ ctx'.addInput => ctx.addInput \/ call.op = "add"
                /\ call.op # "add" /\ ctx.addPaid => ctx'.addPaid
                /\ call.op = "add" /\ call.at # None => ctx'.addPaid
        BY <1>1, <1>2, ResearchNotes
    <2>2. /\ ctx.startInput => Beginning
          /\ ctx.startConfirmed => ctx.startInput
          /\ ctx.addInput => ctx.addPaid \/ ctx.startInput
        BY <1>1, <1>7 DEF StartNoted
    <2>3. CASE call.op \in {"inspect", "collectCard"}  BY <2>1, <2>3
    <2>4. CASE call.op = "start"
        <3>1. /\ call.at \in Projects /\ ctx.selected \in {None, call.at}
              /\ Locked(call.at) /\ Fresh(call.at)
            BY <1>1, <1>7, <2>4, ResearchFacts DEF StartDecided, Making
        <3>2. PICK p \in Projects : /\ p = call.at /\ ctx'.selected \in {None, p}
                                    /\ Locked(p) /\ Fresh(p)
            BY <2>1, <2>4, <3>1
        <3>3. Beginning'  BY <1>8, <1>9, <2>4, <3>2 DEF Beginning
        <3> QED  BY <2>1, <2>4, <3>3
    <2>5. CASE call.op \notin {"inspect", "collectCard", "start"}
        <3>1. Beginning => Beginning'  BY <1>8, <1>9, <2>1, <2>5 DEF Beginning
        <3>2. call.op = "confirmStart" => ctx.startInput
            BY <1>1, <1>7 DEF StartDecided, Making
        <3>3. call.op = "add" => call.at # None \/ ctx.startConfirmed
            BY <1>1, <1>7 DEF StartDecided, Making
        <3> QED  BY <2>1, <2>2, <2>5, <3>1, <3>2, <3>3
    <2> QED  BY <2>3, <2>4, <2>5
<1> QED  BY <1>10, <1>11, <1>12, <1>13, <1>14 DEF StartFits

\* What a call of the research flow is made for and with.
LEMMA ResearchAsked ==
    ASSUME ResearchWell, ResearchAsking
    PROVE  \E op, at, unit :
              /\ op \in ResearchOps /\ Ask(op, at, unit)
              /\ op = "start" => /\ CanStart /\ at = shown.open
                                 /\ ctx.selected \in {None, at}
              /\ op = "confirmStart" => ctx.startInput /\ at = ctx.selected
              /\ op = "add" => at # None \/ ctx.startConfirmed
              /\ op = "confirmAdd" => unit = "start" \/ (ctx.addInput /\ ~ctx.addPaid)
<1>1. CASE \E s \in Slots : AskCard(s)
    <2>1. PICK s \in Slots : AskCard(s)  BY <1>1
    <2>2. \E op \in {"collectCard", "inspect"} : \E at, unit : Ask(op, at, unit)
        BY <2>1 DEF AskCard
    <2> QED  BY <2>2 DEF ResearchOps
<1>2. CASE AskStart  BY <1>2 DEF AskStart, ResearchOps
<1>3. CASE AskConfirm
    <2>1. CASE ctx.addInput
        <3>1. PICK unit : /\ Ask("confirmAdd", None, unit)
                          /\ unit = IF ctx.addPaid THEN "start" ELSE None
            BY <1>3, <2>1 DEF AskConfirm
        <3> QED  BY <2>1, <3>1 DEF ResearchOps
    <2>2. CASE ~ctx.addInput
        <3>1. Ask("confirmStart", ctx.selected, "start") /\ ctx.startInput
            BY <1>3, <2>2 DEF AskConfirm
        <3> QED  BY <3>1 DEF ResearchOps
    <2> QED  BY <2>1, <2>2
<1>4. CASE AskAdd
    <2>1. CASE ExistingRunning
        <3>1. shown.open \in Projects
            BY <2>1, ResearchFacts DEF ExistingRunning, IsRunning, DetailShown, GameFits,
                                       ResearchGames
        <3>2. Ask("add", shown.open, None) /\ shown.open # None
            BY <1>4, <2>1, <3>1, ResearchAssumption DEF AskAdd
        <3> QED  BY <3>2 DEF ResearchOps
    <2>2. CASE ~ExistingRunning
        <3>1. Ask("add", None, None) /\ ctx.startConfirmed
            BY <1>4, <2>2 DEF AskAdd
        <3> QED  BY <3>1 DEF ResearchOps
    <2> QED  BY <2>1, <2>2
<1>5. CASE AskClaimQueue \/ AskCloseAward \/ ResearchNavigation
    <2>1. \E op \in {"claimQueue", "closeAward", "quit", "enter", "leave"} : \E unit :
              Ask(op, None, unit)
        BY <1>5 DEF AskClaimQueue, AskCloseAward, ResearchNavigation
    <2> QED  BY <2>1 DEF ResearchOps
<1> QED  BY <1>1, <1>2, <1>3, <1>4, <1>5 DEF ResearchAsking

LEMMA ResearchCalls ==
    ASSUME ResearchWell, ResearchActs, game.task = "research",
           End \/ Asking \/ Waited \/ CallRaises \/ UNCHANGED vars,
           UNCHANGED <<game, pending, shown, clean, invocations, begun>>
    PROVE  ResearchActs'
<1>1. AtCards' /\ SameScreen' /\ PromptIdle'
    BY AheadRests DEF ResearchActs, AtCards, Rests, SameScreen, PromptIdle
<1> SUFFICES ASSUME clean PROVE StartFits'
    BY <1>1 DEF ResearchActs
<1>2. OwnTaps /\ RunningRead /\ PromptTaps /\ StartDecided /\ StartNoted
    BY DEF ResearchActs, StartFits
<1>3. OwnTaps' /\ RunningRead' /\ PromptTaps'
    BY <1>2 DEF OwnTaps, RunningRead, PromptTaps, Queue, Fresh
<1>4. \A p : (Fresh(p)' <=> Fresh(p)) /\ (Locked(p)' <=> Locked(p))
    BY DEF Fresh, Locked, Queue
<1>5. ASSUME ~Running' \/ UNCHANGED <<ctx, caller>>  PROVE StartNoted'
    <2>1. UNCHANGED ctx => (Beginning' <=> Beginning)  BY <1>4 DEF Beginning
    <2> QED  BY <1>2, <1>5, <2>1 DEF StartNoted, Running
<1>6. CASE Asking
    <2>1. ResearchAsking /\ Running /\ call = NoCall
        BY <1>6 DEF Asking, ResearchAsking, Calling, Running
    <2>2. PICK op, at, unit :
              /\ op \in ResearchOps /\ Ask(op, at, unit)
              /\ op = "start" => CanStart /\ at = shown.open /\ ctx.selected \in {None, at}
              /\ op = "confirmStart" => ctx.startInput /\ at = ctx.selected
              /\ op = "add" => at # None \/ ctx.startConfirmed
              /\ op = "confirmAdd" => unit = "start" \/ (ctx.addInput /\ ~ctx.addPaid)
        BY <2>1, ResearchAsked
    <2>3. /\ ctx' = ctx /\ caller' = caller
          /\ call'.op = op /\ call'.at = at /\ call'.unit = unit
        BY <2>2 DEF Ask, AskWith
    <2>4. StartNoted'  BY <1>5, <2>3
    <2>5. ASSUME op = "start" PROVE Locked(at) /\ Fresh(at)
        <3>1. /\ shown.page = "detail" /\ shown.status[at] = "idle" /\ at = shown.open
              /\ at \in Projects
            BY <2>2, <2>5, ResearchFacts DEF CanStart, DetailShown, GameFits, ResearchGames
        <3>2. Fresh(at)  BY <1>2, <3>1 DEF RunningRead
        <3>3. game.page \in Detail => game.open = at
            BY <3>1 DEF ResearchActs, SameScreen, Detail
        <3>4. game.page = "cards" => \A i \in Queue : pending[i].op \notin HomeCards
            BY <3>1 DEF ResearchActs, AtCards, OneAhead, Meets
        <3> QED  BY <3>1, <3>2, <3>3, <3>4 DEF Locked, HomeCards
    <2>6. StartDecided'
        <3>1. op = "start" => Locked(at)' /\ Fresh(at)'  BY <1>4, <2>5
        <3>2. op = "confirmAdd" => unit = "start" \/ ctx.startInput
            BY <1>2, <2>1, <2>2 DEF StartNoted
        <3> QED
            BY <2>2, <2>3, <3>1, <3>2 DEF StartDecided, Making, Locked, Fresh
    <2> QED  BY <1>3, <2>4, <2>6 DEF StartFits
<1>7. CASE End \/ CallRaises \/ Waited
    <2>1. call' = NoCall /\ (~Running' \/ UNCHANGED <<ctx, caller>>)
        <3>1. CASE Waited
            <4>1. call.op \in ResearchOps  BY <3>1, ResearchFacts DEF Waited
            <4> QED  BY <3>1, <4>1 DEF Waited, ResearchOps, NextInput
        <3> QED  BY <1>7, <3>1 DEF End, CallRaises, Running
    <2>2. StartDecided'  BY <2>1 DEF StartDecided, Making, NoCall
    <2> QED  BY <1>3, <1>5, <2>1, <2>2 DEF StartFits
<1>8. CASE UNCHANGED vars
    <2>1. UNCHANGED <<ctx, caller, call>>  BY <1>8 DEF vars
    <2>2. StartDecided'
        BY <1>2, <2>1 DEF StartDecided, Making, Locked, Fresh, Queue
    <2> QED  BY <1>3, <1>5, <2>1, <2>2 DEF StartFits
<1> QED  BY <1>6, <1>7, <1>8

LEMMA ResearchBegins ==
    ASSUME ResearchWell, ResearchActs, game.task = "research", BeginTask
    PROVE  ResearchActs'
<1>1. /\ clean' => pending = <<>> /\ shown = game
      /\ UNCHANGED <<game, pending, shown, call>> /\ call = NoCall
      /\ ctx' = ResearchContext
    BY DEF BeginTask, Begin, ResearchWell, Well, Charged, CallCharged
<1>2. AtCards' /\ SameScreen' /\ PromptIdle'
    BY <1>1, AheadRests DEF ResearchActs, AtCards, Rests, SameScreen, PromptIdle
<1> SUFFICES ASSUME clean' PROVE StartFits'
    BY <1>2 DEF ResearchActs
<1>3. Queue' = {} /\ shown' = game'
    BY <1>1 DEF Queue
<1>4. ~ctx'.startInput /\ ~ctx'.startConfirmed /\ ~ctx'.addInput
    BY <1>1 DEF ResearchContext
<1> QED
    BY <1>1, <1>3, <1>4
       DEF StartFits, OwnTaps, RunningRead, PromptTaps, StartDecided, StartNoted, Making,
           NoCall, Fresh

LEMMA ResearchActsSteps ==
    ASSUME ResearchWell, ResearchActs, game.task = "research", [Next]_vars
    PROVE  ResearchActs'
<1>1. CASE BeginTask  BY <1>1, ResearchBegins
<1>2. CASE Handle \/ Time \/ Publish
    BY <1>2, ResearchHandles, ResearchChanges
<1>3. CASE Inject /\ Visible /\ Extends(Tap) /\ (TapReturns \/ TapRaisesLate)
    BY <1>3, ResearchInjects DEF Inject
<1>4. CASE /\ End \/ Asking \/ Waited \/ CallRaises \/ UNCHANGED vars
           /\ UNCHANGED <<game, pending, shown, invocations, clean, begun>>
    BY <1>4, ResearchCalls
<1> QED  BY <1>1, <1>2, <1>3, <1>4, StepKinds

LEMMA ResearchDecides ==
    ASSUME ResearchWell, ResearchActs, game.task = "research", clean, Handle
    PROVE  StartsAsSelected(Head(pending))
<1>1. /\ Advances /\ game' = ResearchEffect(game, Head(pending))
    BY DEF Handle, Advances, Effect
<1>2. 1 \in Queue /\ Head(pending) = pending[1]
    BY <1>1, QueueAdvances, ResearchFacts
<1> DEFINE t == pending[1]
<1>3. /\ \A p \in Projects : game'.status[p] = "running" /\ game.status[p] # "running" =>
            t.op = "confirmStart" /\ game.page = "startPrompt" /\ p = game.open
      /\ \A p \in Projects : game'.status[p] = "queued" /\ game.status[p] # "queued" =>
            t.op = "confirmAdd" /\ game.page = "queuePrompt" /\ p = game.open
    BY <1>1, <1>2, ResearchEffects, ResearchFacts DEF PromptIdle, ResearchActs
<1>4. game.page \in {"startPrompt", "queuePrompt"} =>
          /\ t.op = "confirmStart" => t.at \in {None, game.open}
          /\ t.op = "confirmAdd" => t.unit = "start" \/ Fresh(game.open)
    BY <1>2 DEF ResearchActs, StartFits, PromptTaps, Detail
<1> QED  BY <1>2, <1>3, <1>4 DEF StartsAsSelected, Fresh

(***************************************************************************)
(* The decisions of all tasks                                              *)
(***************************************************************************)

TaskActs ==
    \/ game.task = "research" /\ ResearchActs
    \/ game.task = "dorm" /\ DormActs
    \/ game.task = "build" /\ BuildActs
    \/ game.task = "tactical" /\ TacticalActs
    \/ game.task = "mission"

LEMMA InitActs == Init => TaskActs
<1> SUFFICES ASSUME Init PROVE TaskActs  OBVIOUS
<1>1. /\ shown = game /\ pending = <<>> /\ ctx = None /\ call = NoCall
      /\ Queue = {} /\ ~Running /\ \A op : ~Making(op, "aim") /\ ~Making(op, "wait")
    BY DEF Init, Queue, Running, Making, NoCall
<1>2. \A P, O : OneAhead(P, O)  BY <1>1 DEF OneAhead
<1>3. CASE ResearchInit
    <2>1. game.task = "research" /\ game.page = "cards"  BY <1>3 DEF ResearchInit
    <2>2. AtCards /\ SameScreen /\ PromptIdle
        BY <1>1, <1>2, <2>1 DEF AtCards, SameScreen, PromptIdle
    <2>3. StartFits
        BY <1>1 DEF StartFits, OwnTaps, RunningRead, PromptTaps, StartDecided, StartNoted, Fresh
    <2> QED  BY <2>1, <2>2, <2>3 DEF TaskActs, ResearchActs
<1>4. CASE DormInit
    <2>1. game.task = "dorm"  BY <1>4 DEF DormInit
    <2>2. DormActs
        BY <1>1 DEF DormActs, OnePortion, PortionDecided, PortionAwaited
    <2> QED  BY <2>1, <2>2 DEF TaskActs
<1>5. CASE BuildInit
    <2>1. game.task = "build"  BY <1>5 DEF BuildInit
    <2>2. BuildActs
        BY <1>1, <1>2 DEF BuildActs, AtPools, PoolShown, OrderTaps, OrderDecided
    <2> QED  BY <2>1, <2>2 DEF TaskActs
<1>6. CASE TacticalInit
    <2>1. game.task = "tactical"  BY <1>6 DEF TacticalInit
    <2>2. TacticalActs
        BY <1>1, <1>2
           DEF TacticalActs, AtBooks, CourseFits, CourseTaps, BookStands, BooksLeft, BookDecided,
               BookAwaited
    <2> QED  BY <2>1, <2>2 DEF TaskActs
<1>7. CASE MissionInit
    BY <1>7 DEF MissionInit, TaskActs
<1> QED  BY <1>3, <1>4, <1>5, <1>6, <1>7 DEF Init

LEMMA StepsActs == TaskWell /\ TaskActs /\ [Next]_vars => TaskActs'
<1> SUFFICES ASSUME TaskWell, TaskActs, [Next]_vars PROVE TaskActs'  OBVIOUS
<1>1. CASE game.task = "research"
    <2>1. ResearchWell /\ ResearchActs  BY <1>1 DEF TaskWell, TaskActs
    <2> QED  BY <1>1, <2>1, ResearchSteps, ResearchActsSteps DEF TaskActs
<1>2. CASE game.task = "dorm"
    <2>1. DormWell /\ DormActs  BY <1>2 DEF TaskWell, TaskActs
    <2> QED  BY <1>2, <2>1, DormSteps, DormActsSteps DEF TaskActs
<1>3. CASE game.task = "build"
    <2>1. BuildWell /\ BuildActs  BY <1>3 DEF TaskWell, TaskActs
    <2> QED  BY <1>3, <2>1, BuildSteps, BuildActsSteps DEF TaskActs
<1>4. CASE game.task = "tactical"
    <2>1. TacticalWell /\ TacticalActs  BY <1>4 DEF TaskWell, TaskActs
    <2> QED  BY <1>4, <2>1, TacticalSteps, TacticalActsSteps DEF TaskActs
<1>5. CASE game.task = "mission"
    <2>1. MissionWell  BY <1>5 DEF TaskWell
    <2> QED  BY <1>5, <2>1, MissionSteps DEF TaskActs
<1> QED  BY <1>1, <1>2, <1>3, <1>4, <1>5 DEF TaskActs

\* Only the game takes a tap from the queue.
LEMMA OnlyHandles ==
    ASSUME TaskWell, [Next]_vars, pending # <<>>, pending' = Tail(pending)
    PROVE  Handle
<1>1. \E T : pending \in Seq(T)
    BY DEF TaskWell, ResearchWell, DormWell, BuildWell, TacticalWell, MissionWell, Well, Typed
<1>2. PICK T : pending \in Seq(T)  BY <1>1
<1>3. PICK n \in Nat : Len(pending) = n /\ Len(pending') = n - 1
    BY <1>2
<1>4. n # n - 1 /\ n - 1 # n + 1  OBVIOUS
<1>5. pending' # pending  BY <1>3, <1>4, Zenon
<1>6. ~Extends(Tap)
    <2>1. Extends(Tap) => Len(pending') = Len(pending) + 1  BY <1>2, QueueExtends
    <2> QED  BY <1>3, <1>4, <2>1, Zenon
<1> QED  BY <1>5, <1>6, StepKinds DEF Time, Publish, BeginTask, Begin

\* What a tap does when the game handles it is what the flow decided when it
\* read the screen, with a screen that lags, taps that wait and calls that
\* raise: a project starts as selected and moves to the queue for its unit, a
\* portion fits, a course has the book that was read and an order the pool.
THEOREM DoesAsDecided == Spec => ActsAsDecided
<1>1. ASSUME TaskWell, TaskActs, Handle, clean
      PROVE  /\ StartsAsSelected(Head(pending))
             /\ FoodFits(Head(pending))
             /\ CourseAsRead(Head(pending))
             /\ OneOrder(Head(pending))
    <2>1. CASE game.task = "research"
        <3>1. ResearchWell /\ ResearchActs  BY <1>1, <2>1 DEF TaskWell, TaskActs
        <3> QED
            BY <1>1, <2>1, <3>1, ResearchDecides DEF FoodFits, CourseAsRead, OneOrder
    <2>2. CASE game.task = "dorm"
        <3>1. DormWell /\ DormActs  BY <1>1, <2>2 DEF TaskWell, TaskActs
        <3> QED
            BY <1>1, <2>2, <3>1, DormDecides DEF StartsAsSelected, CourseAsRead, OneOrder
    <2>3. CASE game.task = "build"
        <3>1. BuildWell /\ BuildActs  BY <1>1, <2>3 DEF TaskWell, TaskActs
        <3> QED
            BY <1>1, <2>3, <3>1, BuildDecides DEF StartsAsSelected, FoodFits, CourseAsRead
    <2>4. CASE game.task = "tactical"
        <3>1. TacticalWell /\ TacticalActs  BY <1>1, <2>4 DEF TaskWell, TaskActs
        <3> QED
            BY <1>1, <2>4, <3>1, TacticalDecides DEF StartsAsSelected, FoodFits, OneOrder
    <2>5. CASE game.task = "mission"
        BY <2>5 DEF StartsAsSelected, FoodFits, CourseAsRead, OneOrder
    <2> QED  BY <1>1, <2>1, <2>2, <2>3, <2>4, <2>5 DEF TaskWell
<1>2. TaskWell /\ TaskActs /\ [Next]_vars =>
          [(pending # <<>> /\ pending' = Tail(pending) /\ clean /\ Own(Head(pending))) =>
               /\ StartsAsSelected(Head(pending))
               /\ FoodFits(Head(pending))
               /\ CourseAsRead(Head(pending))
               /\ OneOrder(Head(pending))]_vars
    BY <1>1, OnlyHandles
<1>3. TaskWell /\ TaskActs /\ [Next]_vars => TaskActs'
    BY StepsActs
<1> QED  BY <1>2, <1>3, InitActs, AlwaysWell, PTL DEF Spec, ActsAsDecided
=============================================================================
