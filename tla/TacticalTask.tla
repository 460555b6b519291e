---------------------------- MODULE TacticalTask ----------------------------
(***************************************************************************)
(* The tactical flow: put a ship into a free seat of the class and start   *)
(* its course with a book, and refuse the prompts to continue a finished   *)
(* one.  begin_tactical, the tactical_* helpers and the tactical branch of *)
(* click in alas_adapter.py, the reads and clicks of semantic_oracle.py,   *)
(* and RewardTacticalClass of the ALAS patch.                              *)
(***************************************************************************)
EXTENDS TaskBase

CONSTANTS
    Ships,
    Books,
    Shelf,           \* the copies of each book at the start
    RewardsAllowed   \* allow_tactical_rewards

ASSUME TacticalAssumption ==
    /\ None \notin Ships \union Books
    /\ IsFiniteSet(Ships) /\ Ships # {} /\ Books # {}
    /\ Shelf \in [Books -> Nat] /\ RewardsAllowed \in BOOLEAN

\* In the model, a seat for every ship.
Seats == 1..Cardinality(Ships)

TacticalPages == {"class", "dock", "skills", "books", "course", "continue"}

\* "seat" is the one being filled, "pick" the ship picked for it or asked about
\* by the prompt to continue, "book" the selected one.
TacticalGames ==
    [task : {"tactical"}, page : TacticalPages, seat : Seats, pick : Maybe(Ships),
     book : Books, seats : [Seats -> Maybe(Ships)], shelf : [Books -> Nat]]
TacticalContexts ==
    [kind : {"tactical"}, budget : [Units -> Nat], cancelled : SUBSET Ships]
TacticalOps == {"seat", "ship", "dockConfirm", "skill", "skillConfirm", "book", "course",
                "courseConfirm", "bookCancel", "back", "stopCourse"}
TacticalTargets == Seats \union Ships \union Books

FirstBook == CHOOSE b \in Books : TRUE

TacticalInit ==
    \E seats \in [Seats -> Maybe(Ships)] :
        /\ \A i, j \in Seats : i # j => seats[i] = None \/ seats[i] # seats[j]
        /\ game = [task |-> "tactical", page |-> "class", seat |-> 1, pick |-> None,
                   book |-> FirstBook, seats |-> seats, shelf |-> Shelf]

TacticalContext == [kind |-> "tactical", budget |-> Grant, cancelled |-> {}]

(***************************************************************************)
(* The game                                                                *)
(***************************************************************************)

Seated(g) == {g.seats[i] : i \in Seats} \ {None}
TacticalGo(g, page) == [g EXCEPT !.page = page]

TacticalEffect(g, t) ==
    CASE t.op = "seat" /\ g.page = "class" /\ g.seats[t.at] = None ->
             [g EXCEPT !.page = "dock", !.seat = t.at, !.pick = None]
      [] t.op = "ship" /\ g.page = "dock" /\ t.at \notin Seated(g) -> [g EXCEPT !.pick = t.at]
      [] t.op = "dockConfirm" /\ g.page = "dock" /\ g.pick # None -> TacticalGo(g, "skills")
      [] t.op = "skillConfirm" /\ g.page = "skills" ->
             [g EXCEPT !.page = "books", !.book = FirstBook]
      [] t.op = "book" /\ g.page = "books" -> [g EXCEPT !.book = t.at]
      [] t.op = "course" /\ g.page = "books" /\ g.shelf[g.book] > 0 -> TacticalGo(g, "course")
      [] t.op = "courseConfirm" /\ g.page = "course" ->
             [g EXCEPT !.page = "class", !.seats[g.seat] = g.pick, !.shelf[g.book] = @ - 1]
      [] t.op = "bookCancel" /\ g.page = "books" -> TacticalGo(g, "class")
      [] t.op = "back" /\ g.page = "dock" -> TacticalGo(g, "class")
      [] t.op = "stopCourse" /\ g.page = "continue" ->
             [g EXCEPT !.page = "class",
                       !.seats = [i \in Seats |-> IF @[i] = g.pick THEN None ELSE @[i]]]
      [] OTHER -> g

\* Time passes: a course is over, and the game asks whether to go on.
TacticalTime ==
    /\ game.page = "class"
    /\ \E i \in Seats : /\ game.seats[i] # None
                        /\ game' = [game EXCEPT !.page = "continue", !.pick = game.seats[i]]

(***************************************************************************)
(* Calls                                                                   *)
(***************************************************************************)

\* tactical_slots numbers the ships that are seated from left to right, and not
\* their seats: the number after theirs is taken for an empty seat.
NextSeat == Cardinality(Seated(shown)) + 1

AskSeat ==
    /\ shown.page = "class"
    /\ NextSeat \in Seats
    /\ ctx.budget["assign"] > 0
    /\ Ask("seat", NextSeat, None)

\* tactical_select_suitable_ship and tactical_select_first_trainable_skill, each
\* an input that is followed by its confirmation.  Which ship is suitable is up
\* to the level and index ALAS gives.
AskShip(s) ==
    /\ shown.page = "dock" /\ s \notin Seated(shown)
    /\ ctx.budget["assign"] > 0
    /\ Ask("ship", s, None)

AskSkill ==
    /\ shown.page = "skills"
    /\ ctx.budget["assign"] > 0
    /\ Ask("skill", None, None)

\* tactical_select_book; the selected book needs no input.
AskBook(b) ==
    /\ shown.page = "books" /\ shown.book # b /\ shown.shelf[b] > 0
    /\ ctx.budget["assign"] > 0
    /\ Ask("book", b, None)

\* TACTICAL_CLASS_START
AskCourse ==
    /\ shown.page = "books" /\ shown.shelf[shown.book] > 0
    /\ ctx.budget["assign"] > 0
    /\ Ask("course", shown.book, None)

AskCourseConfirm == Ask("courseConfirm", None, "assign")

\* cancel_tactical_continue_if_present; a prompt is refused once.
AskStopCourse ==
    /\ shown.page = "continue"
    /\ RewardsAllowed
    /\ shown.pick \notin ctx.cancelled
    /\ Ask("stopCourse", shown.pick, None)

TacticalNavigation == \E op \in {"bookCancel", "back"} : Ask(op, None, None)

TacticalAsking ==
    /\ Calling
    /\ \/ AskSeat \/ AskSkill \/ AskCourse \/ AskCourseConfirm \/ AskStopCourse
       \/ \E s \in Ships : AskShip(s)
       \/ \E b \in Books : AskBook(b)
       \/ TacticalNavigation

TacticalVisible ==
    CASE call.op = "seat"          -> shown.page = "class"
      [] call.op = "ship"          -> shown.page = "dock" /\ call.at \notin Seated(shown)
      [] call.op \in {"dockConfirm", "back"}   -> shown.page = "dock"
      [] call.op \in {"skill", "skillConfirm"} -> shown.page = "skills"
      [] call.op = "book"          -> shown.page = "books" /\ shown.shelf[call.at] > 0
      [] call.op \in {"course", "bookCancel"}  -> shown.page = "books"
      [] call.op = "courseConfirm" -> shown.page = "course"
      [] call.op = "stopCourse"    -> shown.page = "continue"

TacticalBooked ==
    IF call.op = "stopCourse" THEN [Paid EXCEPT !.cancelled = @ \union {call.at}] ELSE Paid

\* What the helpers wait for after an input.  The confirmations of the dock and
\* of the skill list are there before it as well.
TacticalWaited ==
    CASE call.op = "ship"        -> shown.page = "dock"
      [] call.op = "dockConfirm" -> shown.page = "skills"
      [] call.op = "skill"       -> shown.page = "skills"
      [] call.op = "book"        -> shown.page = "books" /\ shown.book = call.at

\* The input a helper goes on to make.
NextInput == [op \in {"ship", "skill"} |-> IF op = "ship" THEN "dockConfirm" ELSE "skillConfirm"]
=============================================================================
