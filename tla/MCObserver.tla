----------------------------- MODULE MCObserver -----------------------------
(* Model values and bounds for Observer. *)
EXTENDS Observer, TLC

CONSTANTS t1, t2

TwoThreads == {t1, t2}

ObserverSymmetry == Permutations(TwoThreads)

\* With the combined endpoint two threads and incomplete probes matter, with
\* the older pair of endpoints records that are refused after a read, and a
\* restarted game only as the other half of a pair.
Focus ==
    LET Saw(fault) == \E t \in Threads :
            tick[t].saw # Nothing /\ tick[t].saw.fault = fault
    IN  IF combined THEN ~Saw("records")
        ELSE /\ ~Saw("probe") /\ Cardinality({t \in Threads : tick[t] # Idle}) <= 1
             /\ pid # 1 => generation <= 2
=============================================================================
