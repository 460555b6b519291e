------------------------------ MODULE Observer ------------------------------
(***************************************************************************)
(* The observer inside the game process and the oracle that reads it.      *)
(*                                                                         *)
(* Il2CppNamespaceProbe.cpp publishes three snapshots (probe, buttons, ui) *)
(* from the frame callback of the one thread that registered as the Unity  *)
(* main thread; ObserverServer.cpp answers one connection at a time, and   *)
(* takes each snapshot under the lock on its own; semantic_oracle.py asks  *)
(* for /v1/state (or, from an older build, for /v1/snapshot and then       *)
(* /v1/buttons) and for /v1/ui, and accepts or refuses what it gets.  The  *)
(* game process may be restarted at any time; the ADB forward the client   *)
(* holds leads to the socket of one process only.                          *)
(*                                                                         *)
(* A publication is what one probe saw: its process and generation name    *)
(* the content, and the fault is what the client would refuse it for.      *)
(***************************************************************************)
EXTENDS Naturals, FiniteSets

CONSTANTS
    Threads,        \* threads of the game that swap frames
    Nothing,        \* no thread, no publication, no answer, no view
    Faults,         \* what a publication may be refused for
    MaxGeneration,  \* bound of the model: generations per process
    MaxPid          \* bound of the model: game processes

ASSUME ObserverAssumption ==
    /\ Faults \subseteq {"none", "probe", "records"}
    /\ MaxGeneration \in Nat
    /\ MaxPid \in Nat \ {0}

Attempts == 3       \* StateResponse: attempts to get an equal pair
MaxSkew  == 2       \* read_state: generations the legacy pair may differ

\* Faults: "probe" is an incomplete flag, stage or method mask, "records" a list
\* that is truncated or has extraction errors.
Publication == [pid : 1..MaxPid, gen : 1..MaxGeneration, fault : Faults]
Maybe(S) == S \union {Nothing}

ASSUME NothingAssumption == Nothing \notin Threads \union Publication

VARIABLES
    pid,            \* the running game process
    mainTid,        \* gObserverMainThreadTid
    generation,     \* gObserverGeneration
    tick,           \* per thread: the generation taken (0: idle), what the probe saw
    snapshot, buttons, ui,   \* the three published globals
    serving,        \* the connection the server is answering
    request,        \* what the client waits for
    answer,         \* what arrived for it
    first,          \* the snapshot half of a legacy read
    lastGeneration, \* SemanticOracle._last_generation
    bridgePid,      \* AdbObserverBridge.pid, the forward's target
    view,           \* the last accepted state
    window,         \* history: what was published during the current read
    combined        \* whether the installed build serves /v1/state

gameVars == <<pid, mainTid, generation, tick>>
pubVars  == <<snapshot, buttons, ui>>
cliVars  == <<first, lastGeneration, bridgePid, view>>
vars == <<gameVars, pubVars, serving, request, answer, cliVars, window, combined>>

Kinds == {"state", "snapshot", "buttons", "ui"}
Idle == [gen |-> 0, saw |-> Nothing]
NotServing == [kind |-> "idle", attempt |-> 0, got |-> Nothing, live |-> FALSE]

TypeOK ==
    /\ pid \in 1..MaxPid
    /\ mainTid \in Maybe(Threads)
    /\ generation \in 0..MaxGeneration
    /\ tick \in [Threads -> [gen : 0..MaxGeneration, saw : Maybe(Publication)]]
    /\ {snapshot, buttons, ui} \subseteq Maybe(Publication)
    /\ serving \in [kind : Kinds \union {"idle"}, attempt : 0..(Attempts - 1),
                    got : Maybe(Publication), live : BOOLEAN]
    /\ request \in Kinds \union {"idle"}
    /\ answer \in {Nothing} \union [status : {"ok", "unavailable", "bad-request", "broken"},
                                    snapshot : Maybe(Publication),
                                    buttons : Maybe(Publication)]
    /\ first \in Maybe(Publication)
    /\ lastGeneration \in 0..MaxGeneration     \* 0 is None
    /\ bridgePid \in 1..MaxPid
    /\ view \in {Nothing} \union [snapshot : Publication, buttons : Publication]
    /\ window \subseteq Publication
    /\ combined \in BOOLEAN

Init ==
    /\ pid = 1 /\ mainTid = Nothing /\ generation = 0
    /\ tick = [t \in Threads |-> Idle]
    /\ snapshot = Nothing /\ buttons = Nothing /\ ui = Nothing
    /\ serving = NotServing /\ request = "idle" /\ answer = Nothing
    /\ first = Nothing /\ lastGeneration = 0 /\ bridgePid = 1
    /\ view = Nothing /\ window = {}
    /\ combined \in BOOLEAN

(***************************************************************************)
(* The game process                                                        *)
(***************************************************************************)

\* Mutant: the registration is a store and not a compare-exchange, so the
\* last attached thread is the main thread.
RegisterLast(t) == t
\* RegisterObserverMainThread: compare_exchange from zero, by a thread that is
\* attached to the runtime.
Register(t) == IF mainTid = Nothing THEN t ELSE mainTid

\* ObserverFrameTick: the thread may register (when attached); only the
\* registered thread takes the next generation, and samples every third frame.
FrameTick(t) ==
    /\ tick[t] = Idle
    /\ \E attached \in BOOLEAN :
           mainTid' = IF attached THEN Register(t) ELSE mainTid
    /\ IF mainTid' = t
       THEN \/ /\ generation < MaxGeneration
               /\ generation' = generation + 1
               /\ tick' = [tick EXCEPT ![t].gen = generation']
            \/ UNCHANGED <<generation, tick>>
       ELSE UNCHANGED <<generation, tick>>
    /\ UNCHANGED <<pid, pubVars, serving, request, answer, cliVars, window>>

\* ObserverMainThreadTick refuses before it has a sample: nothing published.
ProbeRefused(t) ==
    /\ tick[t].gen > 0 /\ tick[t].saw = Nothing
    /\ tick' = [tick EXCEPT ![t] = Idle]
    /\ UNCHANGED <<pid, mainTid, generation, pubVars, serving, request,
                   answer, cliVars, window>>

\* ProbeUnityUi walks the typed UI: one probe fills all three snapshots.
Probe(t) ==
    /\ tick[t].gen > 0 /\ tick[t].saw = Nothing
    /\ \E f \in Faults :
           tick' = [tick EXCEPT ![t].saw = [pid |-> pid, gen |-> tick[t].gen,
                                            fault |-> f]]
    /\ UNCHANGED <<pid, mainTid, generation, pubVars, serving, request,
                   answer, cliVars, window>>

Remember(p) == window' = IF request # "idle" THEN window \union {p} ELSE window

\* The three globals are assigned under gObserverSnapshotMutex.
Publish(t) ==
    /\ tick[t].saw # Nothing
    /\ snapshot' = tick[t].saw
    /\ buttons' = tick[t].saw
    /\ ui' = tick[t].saw
    /\ tick' = [tick EXCEPT ![t] = Idle]
    /\ Remember(tick[t].saw)
    /\ UNCHANGED <<pid, mainTid, generation, serving, request, answer, cliVars>>

\* The game process dies and a new one starts: its globals, its server and its
\* connections are gone.  The client's forward still names the old socket.
GameRestart ==
    /\ pid < MaxPid
    /\ pid' = pid + 1
    /\ mainTid' = Nothing /\ generation' = 0
    /\ tick' = [t \in Threads |-> Idle]
    /\ snapshot' = Nothing /\ buttons' = Nothing /\ ui' = Nothing
    /\ serving' = NotServing
    /\ UNCHANGED <<request, answer, cliVars, window>>

(***************************************************************************)
(* ServeObserver: one connection at a time                                 *)
(***************************************************************************)

Reply(status, s, b) == [status |-> status, snapshot |-> s, buttons |-> b]

\* accept(), recv() and the dispatch on the request line.
Accept ==
    /\ serving = NotServing
    /\ request # "idle" /\ answer = Nothing
    /\ bridgePid = pid
    /\ IF request = "state" /\ ~combined
       THEN /\ answer' = Reply("bad-request", Nothing, Nothing)
            /\ UNCHANGED serving
       ELSE /\ serving' = [kind |-> request, attempt |-> 0, got |-> Nothing, live |-> TRUE]
            /\ UNCHANGED answer
    /\ UNCHANGED <<gameVars, pubVars, request, cliVars, window>>

\* send() and close(): an answer whose client has gone is dropped.
Send(r) ==
    /\ answer' = IF serving.live THEN r ELSE answer
    /\ serving' = NotServing

One(p) == IF p = Nothing THEN Reply("unavailable", Nothing, Nothing)
                         ELSE Reply("ok", p, p)

ServeOne ==
    /\ \/ serving.kind = "snapshot" /\ Send(One(snapshot))
       \/ serving.kind = "buttons" /\ Send(One(buttons))
       \/ serving.kind = "ui" /\ Send(One(ui))
    /\ UNCHANGED <<gameVars, pubVars, request, cliVars, window>>

\* StateResponse, first getter of an attempt.
StateFirst ==
    /\ serving.kind = "state" /\ serving.got = Nothing
    /\ IF snapshot = Nothing
       THEN Send(Reply("unavailable", Nothing, Nothing))
       ELSE /\ serving' = [serving EXCEPT !.got = snapshot]
            /\ UNCHANGED answer
    /\ UNCHANGED <<gameVars, pubVars, request, cliVars, window>>

\* Mutant: the attempts are not limited.
StateSecondForever ==
    /\ serving.kind = "state" /\ serving.got # Nothing
    /\ IF buttons.gen = serving.got.gen
       THEN Send(Reply("ok", serving.got, buttons))
       ELSE /\ serving' = [serving EXCEPT !.got = Nothing, !.attempt = @ + 1]
            /\ UNCHANGED answer
    /\ UNCHANGED <<gameVars, pubVars, request, cliVars, window>>

\* Second getter: answer an equal pair, or try again, three times in all.
StateSecond ==
    /\ serving.kind = "state" /\ serving.got # Nothing
    /\ IF buttons.gen = serving.got.gen
       THEN Send(Reply("ok", serving.got, buttons))
       ELSE IF serving.attempt + 1 < Attempts
       THEN /\ serving' = [serving EXCEPT !.got = Nothing, !.attempt = @ + 1]
            /\ UNCHANGED answer
       ELSE Send(Reply("unavailable", Nothing, Nothing))
    /\ UNCHANGED <<gameVars, pubVars, request, cliVars, window>>

(***************************************************************************)
(* SemanticOracle.read_state and read_ui_state                             *)
(***************************************************************************)

\* The foreground check passed and the request line is on its way.
BeginRead(kind) ==
    /\ request = "idle"
    /\ request' = kind
    /\ window' = {snapshot} \ {Nothing}
    /\ UNCHANGED <<gameVars, pubVars, serving, answer, cliVars>>

\* Mutant: one connection is kept for several requests.
EndReadKeepsConnection ==
    /\ request' = "idle" /\ answer' = Nothing /\ first' = Nothing
    /\ window' = {}
    /\ UNCHANGED serving

\* The connection of a request is closed with it.
EndRead ==
    /\ request' = "idle" /\ answer' = Nothing /\ first' = Nothing
    /\ window' = {}
    /\ serving' = [serving EXCEPT !.live = FALSE]

\* A dead forward, a closed connection, or the three-second socket timeout:
\* the read raises ObserverTransportError.  The server may still be answering.
TransportError ==
    /\ request # "idle"
    /\ EndRead
    /\ UNCHANGED <<gameVars, pubVars, lastGeneration, bridgePid, view>>

\* "bad-request" to /v1/state: fall back to the two older endpoints.
Fallback ==
    /\ request = "state" /\ answer # Nothing /\ answer.status = "bad-request"
    /\ request' = "snapshot" /\ answer' = Nothing
    /\ UNCHANGED <<gameVars, pubVars, serving, cliVars, window>>

\* Whatever the first answer is, it is looked at after the second request.
SecondHalf ==
    /\ request = "snapshot" /\ answer # Nothing
    /\ first' = answer.snapshot
    /\ request' = "buttons" /\ answer' = Nothing
    /\ UNCHANGED <<gameVars, pubVars, serving, lastGeneration, bridgePid, view, window>>

\* The pair a complete read compares, and whether it came in one answer.
Complete == /\ request \in {"state", "buttons", "ui"}
            /\ answer # Nothing /\ answer.status = "ok"
            /\ request = "buttons" => first # Nothing
Left     == IF request = "buttons" THEN first ELSE answer.snapshot
Right    == answer.buttons

\* _validate_identity for both, and the completeness of the probe.
Identity(s, b) ==
    /\ s.pid = bridgePid /\ b.pid = bridgePid
    /\ request = "ui" \/ s.fault # "probe"

\* Mutant: the legacy pair is not compared.
CoherentLoose(s, b) == TRUE
Coherent(s, b) == IF request = "buttons"
                  THEN s.gen <= b.gen /\ b.gen <= s.gen + MaxSkew
                  ELSE b.gen = s.gen

NotBehind(s) == s.gen >= lastGeneration

\* The typed read is accepted.  read_state sets _last_generation before it
\* looks at the list's truncation and errors; read_ui_state after.
AcceptRead ==
    /\ Complete
    /\ Identity(Left, Right) /\ Coherent(Left, Right) /\ NotBehind(Left)
    /\ Right.fault # "records"
    /\ lastGeneration' = Left.gen
    /\ view' = [snapshot |-> Left, buttons |-> Right]
    /\ EndRead
    /\ UNCHANGED <<gameVars, pubVars, bridgePid>>

\* SemanticGateClosed or a malformed combined answer.  An identity check may
\* also fail for what is not modelled: package, revision, peer, age.
RefuseRead ==
    /\ answer # Nothing
    /\ request # "snapshot" /\ ~(answer.status = "bad-request" /\ request = "state")
    /\ \/ UNCHANGED lastGeneration
       \/ /\ Complete /\ request # "ui"
          /\ Identity(Left, Right) /\ Coherent(Left, Right) /\ NotBehind(Left)
          /\ Right.fault = "records"
          /\ lastGeneration' = Left.gen
    /\ EndRead
    /\ UNCHANGED <<gameVars, pubVars, bridgePid, view>>

\* AlasSemanticSession.close() and open(): a bridge to the running process and
\* a new oracle.
Reopen ==
    /\ request = "idle" /\ bridgePid # pid
    /\ bridgePid' = pid
    /\ lastGeneration' = 0
    /\ UNCHANGED <<gameVars, pubVars, serving, request, answer, first, view, window>>

Game   == GameRestart
          \/ \E t \in Threads : FrameTick(t) \/ ProbeRefused(t) \/ Probe(t) \/ Publish(t)
Server == Accept \/ ServeOne \/ StateFirst \/ StateSecond
Client == BeginRead("state") \/ BeginRead("ui") \/ TransportError \/ Fallback
          \/ SecondHalf \/ AcceptRead \/ RefuseRead \/ Reopen
Next == (Game \/ Server \/ Client) /\ UNCHANGED combined
Spec == Init /\ [][Next]_vars

(***************************************************************************)
(* Properties                                                              *)
(***************************************************************************)

\* What is published only moves forward within a process, although any thread
\* that swaps frames calls the tick and a generation is taken long before its
\* snapshot is assigned: one thread registers, for the life of the process.
PublishedForward ==
    [][(snapshot # Nothing /\ snapshot' # Nothing /\ snapshot' # snapshot)
         => snapshot'.gen > snapshot.gen]_vars

\* The two halves of an accepted view come from one process, the one the
\* bridge was opened for, the buttons are never older than the probe they are
\* read with, and at most MaxSkew generations newer.
HalvesAgree ==
    view # Nothing => /\ view.snapshot.pid = view.buttons.pid
                      /\ view.snapshot.gen <= view.buttons.gen
                      /\ view.buttons.gen <= view.snapshot.gen + MaxSkew

\* A build that serves the combined endpoint implements the atomic view; of an
\* older build the abstract system shows nothing.
Abstract == INSTANCE AtomicView WITH
    current <- IF combined THEN snapshot ELSE Nothing,
    reading <- combined /\ request # "idle",
    window  <- IF combined THEN window ELSE {},
    view    <- IF combined THEN view ELSE Nothing
AtomicViewSpec == Abstract!Spec
=============================================================================
