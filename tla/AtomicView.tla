----------------------------- MODULE AtomicView -----------------------------
(***************************************************************************)
(* What a controller is promised by the observer: every view it accepts is *)
(* one publication of one game process, current at some moment between the *)
(* start and the end of the read.  A read may also fail, at any time.      *)
(***************************************************************************)
EXTENDS Naturals

CONSTANT Publication,  \* records with at least a pid and a gen
         Nothing       \* no publication yet, or no view yet

VARIABLES current,     \* the latest publication
          reading,     \* whether a read is under way
          window,      \* what was current at some moment of the read
          view         \* the last accepted view: its two halves

vars == <<current, reading, window, view>>

Halves(p) == [snapshot |-> p, buttons |-> p]

Init == /\ current = Nothing
        /\ reading = FALSE
        /\ window = {}
        /\ view = Nothing

\* A publication follows the current one of its process, or begins a process.
Publish ==
    \E p \in Publication :
        /\ current # Nothing => p.pid = current.pid /\ p.gen > current.gen
        /\ current' = p
        /\ window' = IF reading THEN window \union {p} ELSE window
        /\ UNCHANGED <<reading, view>>

\* The process goes away and takes its publication with it.
Vanish == /\ current' = Nothing
          /\ UNCHANGED <<reading, window, view>>

Begin == /\ ~reading
         /\ reading' = TRUE
         /\ window' = {current} \ {Nothing}
         /\ UNCHANGED <<current, view>>

Accept == /\ reading
          /\ \E p \in window : view' = Halves(p)
          /\ reading' = FALSE
          /\ window' = {}
          /\ UNCHANGED current

Fail == /\ reading
        /\ reading' = FALSE
        /\ window' = {}
        /\ UNCHANGED <<current, view>>

Next == Publish \/ Vanish \/ Begin \/ Accept \/ Fail

Spec == Init /\ [][Next]_vars
=============================================================================
