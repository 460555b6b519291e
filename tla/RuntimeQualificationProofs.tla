--------------------- MODULE RuntimeQualificationProofs ---------------------
(***************************************************************************)
(* For any number of settings and process ids, whichever command fails and *)
(* wherever: a manifest that reports no cleanup failure is that of a run   *)
(* that put the routing back and left no emulator, and one that passes     *)
(* left no forward either.                                                 *)
(*                                                                         *)
(* The argument follows the settings' only copy.  Until the run has kept   *)
(* them they are on the device; from then on they are with the backend,    *)
(* and stop() takes them with it; the check at the end compares the device *)
(* with what it took.  An installed forward is, while nothing has failed,  *)
(* that of the bridge the backend holds, or of the one being waited for;   *)
(* no phase between a restart and the next observer phase holds one.       *)
(*                                                                         *)
(* A recovery that passes has seen a newer game: the games are numbered as *)
(* they start, an observer only sees the one that runs, so what is seen    *)
(* later is not older, and is another game when its pid is another.  And a *)
(* launch starts under the routing it verified, because between the two    *)
(* the runner writes no setting and the device has none of its own.        *)
(***************************************************************************)
EXTENDS RuntimeQualification, TLAPS

PCs == InPhase \union Stopping \union {"report", "done"}

Devices == [up : BOOLEAN, rebooting : BOOLEAN, boots : Nat,
            settings : Routings, game : Maybe(Games), games : 0..MaxGames]

Runners == [pc : PCs, at : Phases \union {"end"}, next : Nat \ {0},
            opening : Maybe(Pids), restoring : Maybe(Routings), instance : BOOLEAN,
            failure : BOOLEAN, unrestored : BOOLEAN, cleanupFailure : BOOLEAN]

Types ==
    /\ config \in Configs /\ original \in Routings
    /\ device \in Devices /\ runner \in Runners
    /\ emulator \in BOOLEAN /\ bridge \in BOOLEAN /\ forwards \in Nat
    /\ remembered \in Maybe(Routings)

Before == runner.pc \in InPhase \union {"stop"}

\* Where the settings found are kept.
Kept ==
    /\ remembered # None => remembered = original
    /\ runner.restoring # None => runner.restoring = original
    /\ (remembered = None /\ runner.restoring = None) => device.settings = original
    /\ Before => runner.restoring = None /\ ~runner.cleanupFailure
    /\ ~Before => remembered = None
    /\ runner.pc = "write" => remembered # None
    /\ runner.pc = "restore" => runner.restoring # None /\ ~runner.cleanupFailure

Restored ==
    (runner.pc \in {"close", "halt", "report", "done"} /\ ~runner.cleanupFailure)
        => device.settings = original

Unstarted == {"probe-host", "resolve-artifacts", "provision", "start"}

\* stop() is called for every instance, and only start() makes one.
Started ==
    /\ runner.pc \in (InPhase \ {"phase"}) \union Stopping => runner.instance
    /\ (runner.pc = "phase" /\ runner.at \notin Unstarted) => runner.instance
    /\ ~runner.instance => remembered = None /\ runner.restoring = None
    /\ runner.pc \in InPhase \ {"phase"} => runner.at # "end"
    /\ runner.pc = "listen" => runner.at \in {"observer-ready", "observer-recovered"}

Halted ==
    /\ emulator => config.backend = "kvm" /\ runner.instance
    /\ (emulator /\ runner.pc \in {"report", "done"}) => runner.cleanupFailure

WithBridge == {"fingerprint", "restart-game", "restart-android", "fingerprint-recovered",
               "end"}

\* Which bridge an installed forward belongs to.
Held ==
    (~runner.failure /\ ~runner.cleanupFailure) =>
        /\ forwards <= IF bridge \/ runner.pc = "listen" THEN 1 ELSE 0
        /\ (runner.pc = "phase" /\ bridge) => runner.at \in WithBridge
        /\ runner.pc \in (InPhase \ {"phase"}) \union {"halt", "report", "done"} => ~bridge

Reported ==
    manifest # None =>
        /\ runner.pc = "done"
        /\ manifest.cleanupFailure = runner.cleanupFailure
        /\ manifest.pass => ~runner.failure /\ ~runner.cleanupFailure

IInv == Types /\ Kept /\ Restored /\ Started /\ Halted /\ Held /\ Reported


(***************************************************************************)
(* The changes actions are made of                                         *)
(***************************************************************************)

\* What a move of the runner leaves alone.
Same(r) ==
    /\ r.instance = runner.instance /\ r.restoring = runner.restoring
    /\ r.unrestored = runner.unrestored /\ r.cleanupFailure = runner.cleanupFailure

LEMMA GotoFacts ==
    ASSUME Types, NEW pc \in PCs
    PROVE  /\ Goto(pc) \in Runners /\ Same(Goto(pc))
           /\ Goto(pc).pc = pc /\ Goto(pc).at = runner.at
           /\ Goto(pc).failure = runner.failure
<1>1. runner \in Runners /\ 1 \in Nat \ {0}
  BY DEF Types
<1>2. Goto(pc) \in Runners
  BY <1>1 DEF Runners, Goto
<1>3. Same(Goto(pc))
  BY <1>1 DEF Runners, Goto, Same
<1> QED BY <1>1, <1>2, <1>3 DEF Runners, Goto

LEMMA AfterType ==
    ASSUME config \in Configs, NEW p \in Phases
    PROVE  After(p) \in Phases \union {"end"}
<1>1. config.recovery \in {"none", "game", "android"}
  BY DEF Configs
<1> QED BY <1>1 DEF Phases, After

LEMMA NextPhaseFacts ==
    ASSUME Types, runner.at # "end"
    PROVE  /\ NextPhase \in Runners /\ Same(NextPhase)
           /\ NextPhase.pc = "phase" /\ NextPhase.at = After(runner.at)
           /\ NextPhase.failure = runner.failure
<1>1. runner.at \in Phases
  BY DEF Types, Runners
<1>2. After(runner.at) \in Phases \union {"end"}
  BY <1>1, AfterType DEF Types
<1>3. "phase" \in PCs
  BY DEF PCs, InPhase
<1> QED BY <1>2, <1>3 DEF Types, Runners, NextPhase, Same

LEMMA FailedFacts ==
    ASSUME Types
    PROVE  /\ Failed \in Runners /\ Same(Failed)
           /\ Failed.pc = IF runner.instance THEN "stop" ELSE "report"
           /\ Failed.failure = TRUE
<1>1. {"stop", "report"} \subseteq PCs
  BY DEF PCs, Stopping
<1> QED BY <1>1 DEF Types, Runners, Failed, Same

LEMMA DeviceFacts ==
    ASSUME Types
    PROVE  /\ Down \in Devices /\ Down.settings = device.settings
           /\ [device EXCEPT !.game = None] \in Devices
           /\ [device EXCEPT !.game = None].settings = device.settings
           /\ [device EXCEPT !.rebooting = TRUE] \in Devices
           /\ [device EXCEPT !.rebooting = TRUE].settings = device.settings
           /\ [device EXCEPT !.up = TRUE, !.boots = @ + 1] \in Devices
           /\ [device EXCEPT !.up = TRUE, !.boots = @ + 1].settings = device.settings
<1>1. device \in Devices /\ None \in Maybe(Games)
  BY DEF Types, Maybe
<1>2. Down \in Devices /\ Down.settings = device.settings
  BY <1>1 DEF Devices, Down
<1>3. /\ [device EXCEPT !.game = None] \in Devices
      /\ [device EXCEPT !.game = None].settings = device.settings
  BY <1>1 DEF Devices
<1>4. /\ [device EXCEPT !.rebooting = TRUE] \in Devices
      /\ [device EXCEPT !.rebooting = TRUE].settings = device.settings
  BY <1>1 DEF Devices
<1>5. device.boots + 1 \in Nat
  BY <1>1 DEF Devices
<1>6. /\ [device EXCEPT !.up = TRUE, !.boots = @ + 1] \in Devices
      /\ [device EXCEPT !.up = TRUE, !.boots = @ + 1].settings = device.settings
  BY <1>1, <1>5 DEF Devices
<1> QED BY <1>2, <1>3, <1>4, <1>6

LEMMA WithGameFacts ==
    ASSUME Types, NEW p \in Pids, device.games < MaxGames
    PROVE  WithGame(p) \in Devices /\ WithGame(p).settings = device.settings
<1>1. MaxGames \in Nat
  BY QualificationAssumption
<1>2. device.games \in 0..MaxGames
  BY DEF Types, Devices
<1>3. device.games + 1 \in 1..MaxGames /\ device.games + 1 \in 0..MaxGames
  BY <1>1, <1>2
<1>4. [pid |-> p, number |-> device.games + 1] \in Maybe(Games)
  BY <1>3 DEF Maybe, Games
<1> QED BY <1>3, <1>4 DEF Types, Devices, WithGame

LEMMA SettingFacts ==
    ASSUME Types, NEW n \in Numbers, NEW v \in {"own", "angle"}
    PROVE  [device EXCEPT !.settings[n] = v] \in Devices
<1>1. device.settings \in [Numbers -> {"own", "angle"}]
  BY DEF Types, Devices, Routings
<1>2. [device.settings EXCEPT ![n] = v] \in Routings
  BY <1>1 DEF Routings
<1> QED BY <1>2 DEF Types, Devices

(***************************************************************************)
(* The three kinds of steps that do not write the settings                 *)
(***************************************************************************)

\* The device moves on its own.
LEMMA OthersKeep ==
    ASSUME IInv, Others, device' \in Devices, device'.settings = device.settings,
           emulator' \in BOOLEAN, emulator' => emulator,
           forwards' \in Nat, forwards' <= forwards
    PROVE  IInv'
<1> USE DEF IInv, Others, fixed
<1>1. Types'
  BY DEF Types
<1>2. Kept' /\ Restored' /\ Started' /\ Halted' /\ Reported'
  BY DEF Kept, Restored, Started, Halted, Reported, Before
<1>3. Held'
  BY DEF Held, Types
<1> QED BY <1>1, <1>2, <1>3

\* Who holds the settings is not changed, nor the manifest.
Still ==
    /\ UNCHANGED <<config, original, emulator, manifest>>
    /\ device' \in Devices /\ bridge' \in BOOLEAN /\ forwards' \in Nat
    /\ remembered' \in Maybe(Routings)
    /\ remembered # None => remembered' = remembered
    /\ remembered' # None => remembered' = original
    /\ remembered' = None => device'.settings = device.settings

\* A phase fails.
LEMMA FailingKeeps ==
    ASSUME IInv, runner.pc \in InPhase, Still,
           ~runner.instance => remembered' = None,
           runner' \in Runners, Same(runner'), runner'.failure = TRUE,
           runner'.pc = IF runner.instance THEN "stop" ELSE "report"
    PROVE  IInv'
<1> USE DEF IInv, Still, Same
<1>1. Types'
  BY DEF Types
<1>2. runner.pc \notin {"restore", "close", "halt", "report", "done"}
  BY DEF InPhase
<1>3. Kept' /\ Restored'
  BY <1>2 DEF Kept, Restored, Before, InPhase, Started
<1>4. Started' /\ Halted'
  BY <1>2 DEF Started, Halted, InPhase, Stopping
<1>5. Held' /\ Reported'
  BY <1>2 DEF Held, Reported
<1> QED BY <1>1, <1>3, <1>4, <1>5

\* A phase goes on.
LEMMA AdvancingKeeps ==
    ASSUME IInv, runner.pc \in InPhase, Still, Held',
           ~runner.instance => remembered' = None,
           runner' \in Runners, Same(runner'), runner'.failure = runner.failure,
           runner'.pc \in InPhase \union {"stop"},
           runner'.pc = "write" => remembered' # None,
           runner.instance \/ (runner'.pc = "phase" /\ runner'.at \in Unstarted),
           runner'.at = "end" => runner'.pc \in {"phase", "stop"},
           runner'.pc = "listen" => runner'.at \in {"observer-ready", "observer-recovered"}
    PROVE  IInv'
<1> USE DEF IInv, Still, Same
<1>1. Types'
  BY DEF Types
<1>2. runner.pc \notin {"restore", "close", "halt", "report", "done"}
      /\ runner'.pc \notin {"restore", "close", "halt", "report", "done"}
  BY DEF InPhase
<1>3. Kept' /\ Restored'
  BY <1>2 DEF Kept, Restored, Before, InPhase
<1>4. Started' /\ Halted' /\ Reported'
  BY <1>2 DEF Started, Halted, Reported, InPhase, Stopping
<1> QED BY <1>1, <1>3, <1>4

(***************************************************************************)
(* The device's actions and the phases                                     *)
(***************************************************************************)

LEMMA DeviceInv == IInv /\ Device => IInv'
<1> SUFFICES ASSUME IInv, Device PROVE IInv'
  OBVIOUS
<1>0. Types /\ emulator \in BOOLEAN /\ forwards \in Nat /\ 0 \in Nat
  BY DEF IInv, Types
<1>1. CASE GameDies
  BY <1>0, <1>1, DeviceFacts, OthersKeep DEF GameDies
<1>2. CASE GameStarts
  BY <1>0, <1>2, WithGameFacts, OthersKeep DEF GameStarts
<1>3. CASE GoesDown
  BY <1>0, <1>3, DeviceFacts, OthersKeep DEF GoesDown
<1>4. CASE Boots
  BY <1>0, <1>4, DeviceFacts, OthersKeep DEF Boots
<1>5. CASE EmulatorDies
  <2>1. emulator' = FALSE /\ (emulator' => emulator) /\ emulator' \in BOOLEAN
    BY <1>5 DEF EmulatorDies
  <2>2. forwards' \in Nat /\ forwards' <= forwards
    BY <1>0, <1>5 DEF EmulatorDies
  <2>3. device' \in Devices /\ device'.settings = device.settings
    BY <1>0, <1>5, DeviceFacts DEF EmulatorDies
  <2> QED BY <1>5, <2>1, <2>2, <2>3, OthersKeep DEF EmulatorDies
<1>6. GameDies \/ GameStarts \/ GoesDown \/ Boots \/ EmulatorDies
  BY DEF Device
<1> QED BY <1>1, <1>2, <1>3, <1>4, <1>5, <1>6

\* What Still asks for, when the backend's copy is not touched.
LEMMA StillFacts ==
    ASSUME IInv, runner.pc \in InPhase, UNCHANGED <<fixed, emulator, manifest, remembered>>,
           device' \in Devices, bridge' \in BOOLEAN, forwards' \in Nat,
           device'.settings = device.settings \/ remembered # None
    PROVE  Still /\ (~runner.instance => remembered' = None)
BY DEF IInv, Types, Kept, Started, Still, fixed

LEMMA FailsInv == IInv /\ PhaseFails => IInv'
<1> SUFFICES ASSUME IInv, PhaseFails PROVE IInv'
  OBVIOUS
<1>1. Types /\ runner.pc \in InPhase /\ Only(Failed)
  BY DEF IInv, PhaseFails
<1>2. Still /\ (~runner.instance => remembered' = None)
  BY <1>1, StillFacts DEF Only, Types, fixed
<1> QED BY <1>1, <1>2, FailedFacts, FailingKeeps DEF Only

\* A command's failure, with its effect, is the phase's.
LEMMA DeliverFails ==
    ASSUME IInv, NEW d \in Devices, NEW next, runner.pc \in InPhase, Deliver(d, next),
           d.settings = device.settings \/ remembered # None,
           runner' = Failed
    PROVE  IInv'
<1>1. Types /\ device' = d
  BY DEF IInv, Deliver
<1>2. Still /\ (~runner.instance => remembered' = None)
  BY <1>1, StillFacts DEF Deliver, Types, fixed
<1> QED BY <1>1, <1>2, FailedFacts, FailingKeeps

\* A phase that holds no bridge goes on without one.
LEMMA Bridgeless ==
    ASSUME IInv, runner.pc \in InPhase, UNCHANGED <<bridge, forwards>>,
           runner'.failure = runner.failure, Same(runner'),
           runner.pc \notin {"phase", "listen"}
               \/ (runner.pc = "phase" /\ runner.at \notin WithBridge),
           runner'.pc \in InPhase \ {"listen"}
    PROVE  Held'
BY DEF IInv, Held, Same, InPhase

\* After the first phases there is an instance.
LEMMA HasInstance ==
    ASSUME IInv, runner.pc \in InPhase, runner.pc # "phase" \/ runner.at \notin Unstarted
    PROVE  runner.instance
BY DEF IInv, Started, InPhase

\* Within a phase there is a phase.
LEMMA NotEnd ==
    ASSUME IInv, runner.pc \in InPhase \ {"phase"}
    PROVE  runner.at # "end"
BY DEF IInv, Started

LEMMA ReadPhaseInv == IInv /\ ReadPhase => IInv'
<1> SUFFICES ASSUME IInv, ReadPhase PROVE IInv'
  OBVIOUS
<1>1. /\ Types /\ runner.pc = "phase" /\ runner.pc \in InPhase
      /\ runner.at # "end" /\ Only(NextPhase)
  BY DEF IInv, ReadPhase, At, InPhase
<1>2. runner' = NextPhase /\ runner'.pc = "phase" /\ runner'.at = After(runner.at)
      /\ runner' \in Runners /\ Same(runner') /\ runner'.failure = runner.failure
  BY <1>1, NextPhaseFacts DEF Only
<1>3. Still /\ (~runner.instance => remembered' = None)
  BY <1>1, StillFacts DEF Only, Types, fixed
<1>4. CASE At({"probe-host", "resolve-artifacts", "provision"})
  <2>1. runner'.at \in Unstarted /\ runner.at \notin WithBridge
    BY <1>2, <1>4 DEF At, After, Unstarted, WithBridge
  <2>2. Held'
    BY <1>1, <1>2, <2>1, Bridgeless DEF Only, InPhase
  <2> QED BY <1>1, <1>2, <1>3, <2>1, <2>2, AdvancingKeeps DEF InPhase
<1>5. CASE At({"adb-offline", "adb-ready", "android-ready", "adb-recovered",
               "android-recovered"})
  <2>1. runner.at \notin Unstarted /\ runner.at \notin WithBridge
    BY <1>5 DEF At, Unstarted, WithBridge
  <2>2. Held'
    BY <1>1, <1>2, <2>1, Bridgeless DEF Only, InPhase
  <2> QED BY <1>1, <1>2, <1>3, <2>1, <2>2, HasInstance, AdvancingKeeps DEF InPhase
<1>6. CASE At({"fingerprint", "fingerprint-recovered"})
  <2>1. config.recovery \in {"none", "game", "android"}
    BY <1>1 DEF Types, Configs
  <2>2. runner.at \notin Unstarted /\ runner'.at \in WithBridge
    BY <1>2, <1>6, <2>1 DEF At, Unstarted, WithBridge, After
  <2>3. Held'
    BY <1>1, <1>2, <2>2 DEF IInv, Held, Only, Same, InPhase
  <2> QED BY <1>1, <1>2, <1>3, <2>2, <2>3, HasInstance, AdvancingKeeps DEF InPhase
<1> QED BY <1>4, <1>5, <1>6 DEF ReadPhase, At

LEMMA StartInv == IInv /\ Start => IInv'
<1> SUFFICES ASSUME IInv, Start PROVE IInv'
  OBVIOUS
<1> USE DEF IInv
<1>1. Types /\ runner.pc = "phase" /\ runner.at = "start"
  BY DEF Start, At
<1>2. /\ NextPhase \in Runners /\ Same(NextPhase) /\ NextPhase.failure = runner.failure
      /\ NextPhase.pc = "phase" /\ NextPhase.at = "adb-ready"
  BY <1>1, NextPhaseFacts DEF After
<1>3. /\ runner' \in Runners /\ runner'.instance = TRUE
      /\ runner'.pc = "phase" /\ runner'.at = "adb-ready"
      /\ runner'.restoring = runner.restoring
      /\ runner'.cleanupFailure = runner.cleanupFailure
      /\ runner'.failure = runner.failure
  BY <1>2 DEF Start, Runners, Same
<1>4. Types'
  BY <1>1, <1>3 DEF Start, Types, fixed
<1>5. Kept' /\ Restored'
  BY <1>1, <1>3 DEF Start, fixed, Kept, Restored, Before, InPhase
<1>6. Started' /\ Halted' /\ Reported'
  BY <1>1, <1>3 DEF Start, fixed, Started, Halted, Reported
<1>7. Held'
  BY <1>1, <1>3 DEF Start, Held, WithBridge, InPhase
<1> QED BY <1>4, <1>5, <1>6, <1>7

\* A move within a phase that holds no bridge.
LEMMA Moving ==
    ASSUME IInv, NEW pc \in InPhase \ {"phase", "listen", "write"}, Only(Goto(pc)),
           runner.pc \in InPhase,
           runner.pc \notin {"phase", "listen"}
               \/ (runner.pc = "phase" /\ runner.at \notin WithBridge),
           runner.at # "end", runner.pc # "phase" \/ runner.at \notin Unstarted
    PROVE  IInv'
<1>1. Types /\ pc \in PCs
  BY DEF IInv, PCs
<1>2. Still /\ (~runner.instance => remembered' = None)
  BY <1>1, StillFacts DEF Only, Types, fixed
<1>3. /\ runner' = Goto(pc) /\ runner' \in Runners /\ Same(runner') /\ runner'.pc = pc
      /\ runner'.failure = runner.failure /\ runner'.at = runner.at
  BY <1>1, GotoFacts DEF Only
<1>4. Held'
  BY <1>3, Bridgeless DEF Only
<1> QED BY <1>2, <1>3, <1>4, HasInstance, AdvancingKeeps

LEMMA WaitGameInv == IInv /\ WaitGame => IInv'
<1> SUFFICES ASSUME IInv, WaitGame PROVE IInv'
  OBVIOUS
<1>1. runner.pc = "phase" /\ runner.pc \in InPhase
      /\ runner.at \notin WithBridge /\ runner.at \notin Unstarted /\ runner.at # "end"
  BY DEF WaitGame, At, WithBridge, Unstarted, InPhase
<1>2. PICK pc \in {"configure", "verify", "foreground"} : Only(Goto(pc))
  BY DEF WaitGame, ToLaunch
<1>3. pc \in InPhase \ {"phase", "listen", "write"}
  BY DEF InPhase
<1> QED BY <1>1, <1>2, <1>3, Moving

LEMMA VerifyInv == IInv /\ Verify => IInv'
<1> SUFFICES ASSUME IInv, Verify PROVE IInv'
  OBVIOUS
<1>1. runner.pc \in {"write", "verify"} /\ runner.pc \in InPhase /\ Only(Goto("force-stop"))
  BY DEF Verify, InPhase
<1>2. "force-stop" \in InPhase \ {"phase", "listen", "write"}
  BY DEF InPhase
<1> QED BY <1>1, <1>2, NotEnd, Moving

\* A command that ends a step of a phase: on to the next step, or the failure.
LEMMA Delivering ==
    ASSUME IInv, NEW d \in Devices, NEW pc \in InPhase \ {"phase", "listen", "write"},
           Deliver(d, Goto(pc)), d.settings = device.settings,
           runner.pc \in InPhase \ {"phase", "listen"}
    PROVE  IInv'
<1>1. CASE runner' = Failed
  BY <1>1, DeliverFails
<1>2. CASE runner' = Goto(pc)
  <2>1. Types /\ pc \in PCs
    BY DEF IInv, PCs
  <2>2. Still /\ (~runner.instance => remembered' = None)
    BY <2>1, StillFacts DEF Deliver, Types, fixed
  <2>3. /\ runner' \in Runners /\ Same(runner') /\ runner'.pc = pc
        /\ runner'.failure = runner.failure /\ runner'.at = runner.at
    BY <1>2, <2>1, GotoFacts
  <2>4. Held'
    BY <2>3, Bridgeless DEF Deliver
  <2> QED BY <2>2, <2>3, <2>4, HasInstance, NotEnd, AdvancingKeeps
<1> QED BY <1>1, <1>2 DEF Deliver

\* A command that ends a phase which began with a restart or a launch.
LEMMA DeliveringLast ==
    ASSUME IInv, NEW d \in Devices, Deliver(d, NextPhase), d.settings = device.settings,
           runner.pc \in InPhase \ {"phase", "listen"}
    PROVE  IInv'
<1>1. CASE runner' = Failed
  BY <1>1, DeliverFails
<1>2. CASE runner' = NextPhase
  <2>1. Types /\ runner.at # "end"
    BY NotEnd DEF IInv
  <2>2. Still /\ (~runner.instance => remembered' = None)
    BY <2>1, StillFacts DEF Deliver, Types, fixed
  <2>3. runner' \in Runners /\ Same(runner') /\ runner'.pc = "phase"
        /\ runner'.failure = runner.failure
    BY <1>2, <2>1, NextPhaseFacts
  <2>4. Held'
    BY <2>3, Bridgeless DEF Deliver, InPhase
  <2> QED BY <2>2, <2>3, <2>4, HasInstance, AdvancingKeeps DEF InPhase
<1> QED BY <1>1, <1>2 DEF Deliver

LEMMA ForceStopInv == IInv /\ ForceStop => IInv'
<1> SUFFICES ASSUME IInv, ForceStop PROVE IInv'
  OBVIOUS
<1>1. /\ Deliver([device EXCEPT !.game = None], Goto("start-game"))
      /\ runner.pc \in InPhase \ {"phase", "listen"}
      /\ "start-game" \in InPhase \ {"phase", "listen", "write"}
  BY DEF ForceStop, InPhase
<1>2. Types
  BY DEF IInv
<1> QED BY <1>1, <1>2, DeviceFacts, Delivering

LEMMA ConfigureInv == IInv /\ Configure => IInv'
<1> SUFFICES ASSUME IInv, Configure PROVE IInv'
  OBVIOUS
<1>1. Types /\ "write" \in PCs /\ runner.pc \in InPhase \ {"phase", "listen"}
  BY DEF IInv, Configure, PCs, InPhase
<1>2. /\ runner' = Goto("write") /\ runner' \in Runners /\ Same(runner')
      /\ runner'.pc = "write" /\ runner'.failure = runner.failure
      /\ runner'.at = runner.at
  BY <1>1, GotoFacts DEF Configure
<1>3. runner.instance /\ runner.at # "end"
  BY <1>1, HasInstance, NotEnd
<1>4. remembered' = original /\ original \in Routings
  BY <1>1 DEF IInv, Kept, Before, Configure, Remember, Types
<1>5. remembered' # None /\ remembered' \in Maybe(Routings)
  BY <1>4, NoneAssumption DEF Maybe
<1>6. Still
  BY <1>1, <1>4, <1>5 DEF Still, Configure, fixed, Types, IInv, Kept
<1>7. Held'
  BY <1>1, <1>2, Bridgeless DEF Configure, InPhase
<1>8. runner.pc \in InPhase /\ runner'.pc \in InPhase
  BY <1>1, <1>2 DEF InPhase
<1> QED BY <1>2, <1>3, <1>5, <1>6, <1>7, <1>8, AdvancingKeeps

LEMMA WriteSettingInv == IInv /\ WriteSetting => IInv'
<1> SUFFICES ASSUME IInv, WriteSetting PROVE IInv'
  OBVIOUS
<1> DEFINE n    == runner.next
           next == [runner EXCEPT !.next = @ + 1]
           d    == [device EXCEPT !.settings[n] = "angle"]
<1>1. /\ Types /\ runner.pc = "write"
      /\ runner.pc \in InPhase \ {"phase", "listen"} /\ runner.pc \in InPhase
  BY DEF IInv, WriteSetting, InPhase
<1>2. n \in Nat \ {0} /\ n <= NSettings /\ NSettings \in Nat
  BY <1>1, QualificationAssumption DEF Types, Runners, WriteSetting
<1>3. n \in Numbers
  BY <1>2 DEF Numbers
<1>4. next \in Runners /\ Same(next) /\ next.pc = "write" /\ next.failure = runner.failure
      /\ next.at = runner.at
  BY <1>1, <1>2 DEF Types, Runners, Same
<1>5. remembered # None /\ runner.instance /\ runner.at # "end"
  BY <1>1, HasInstance, NotEnd DEF IInv, Kept
<1>6. ASSUME runner' = next, Still, UNCHANGED <<bridge, forwards>>
      PROVE  IInv'
  <2>1. Held'
    BY <1>1, <1>4, <1>6, Bridgeless DEF InPhase
  <2>2. remembered' # None /\ runner'.pc \in InPhase
    BY <1>1, <1>4, <1>5, <1>6 DEF Still
  <2> QED BY <1>1, <1>4, <1>5, <1>6, <2>1, <2>2, AdvancingKeeps
<1>7. CASE Only(next)
  <2>1. Still
    BY <1>1, <1>7, StillFacts DEF Only, Types, fixed
  <2> QED BY <1>6, <1>7, <2>1 DEF Only
<1>8. CASE Deliver(d, next)
  <2>1. d \in Devices
    BY <1>1, <1>3, SettingFacts
  <2>2. CASE runner' = Failed
    BY <1>1, <1>5, <1>8, <2>1, <2>2, DeliverFails
  <2>3. CASE runner' = next
    <3>1. Still
      BY <1>1, <1>5, <1>8, <2>1, StillFacts DEF Deliver, Types, fixed
    <3> QED BY <1>6, <1>8, <2>3, <3>1 DEF Deliver
  <2> QED BY <1>8, <2>2, <2>3 DEF Deliver
<1> QED BY <1>7, <1>8 DEF WriteSetting

LEMMA StartGameInv == IInv /\ StartGame => IInv'
<1> SUFFICES ASSUME IInv, StartGame PROVE IInv'
  OBVIOUS
<1>1. /\ Types /\ device \in Devices
      /\ runner.pc \in InPhase \ {"phase", "listen"}
      /\ "foreground" \in InPhase \ {"phase", "listen", "write"}
  BY DEF IInv, Types, StartGame, InPhase
<1>2. ASSUME NEW d \in Devices, d.settings = device.settings,
             Deliver(d, IF runner.at = "restart-game" THEN NextPhase
                        ELSE Goto("foreground"))
      PROVE  IInv'
  <2>1. CASE runner.at = "restart-game"
    BY <1>1, <1>2, <2>1, DeliveringLast
  <2>2. CASE runner.at # "restart-game"
    BY <1>1, <1>2, <2>2, Delivering
  <2> QED BY <2>1, <2>2
<1>3. CASE device.game # None
  BY <1>1, <1>2, <1>3 DEF StartGame
<1>4. CASE device.game = None
  <2>1. device.games < MaxGames
    BY <1>4 DEF StartGame
  <2>2. PICK p \in Pids :
            Deliver(WithGame(p), IF runner.at = "restart-game" THEN NextPhase
                                 ELSE Goto("foreground"))
    BY <1>4 DEF StartGame
  <2>3. WithGame(p) \in Devices /\ WithGame(p).settings = device.settings
    BY <1>1, <2>1, WithGameFacts
  <2> QED BY <1>2, <2>2, <2>3
<1> QED BY <1>3, <1>4

LEMMA RebootInv == IInv /\ Reboot => IInv'
<1> SUFFICES ASSUME IInv, Reboot PROVE IInv'
  OBVIOUS
<1>1. /\ Deliver([device EXCEPT !.rebooting = TRUE], NextPhase)
      /\ runner.pc \in InPhase \ {"phase", "listen"} /\ Types
  BY DEF IInv, Reboot, InPhase
<1> QED BY <1>1, DeviceFacts, DeliveringLast

LEMMA ForegroundInv == IInv /\ Foreground => IInv'
<1> SUFFICES ASSUME IInv, Foreground PROVE IInv'
  OBVIOUS
<1>1. /\ Types /\ runner.pc \in InPhase \ {"phase", "listen"} /\ runner.pc \in InPhase
      /\ UNCHANGED <<bridge, forwards>>
  BY DEF IInv, Foreground, InPhase
<1>2. runner.instance /\ runner.at # "end"
  BY <1>1, HasInstance, NotEnd
<1>3. /\ runner' = NextPhase /\ runner' \in Runners /\ Same(runner')
      /\ runner'.pc = "phase" /\ runner'.failure = runner.failure
  BY <1>1, <1>2, NextPhaseFacts DEF Foreground
<1>4. Still
  BY <1>1, StillFacts DEF Foreground, Types, fixed
<1>5. runner'.pc \in InPhase /\ runner'.pc \in InPhase \ {"listen"}
  BY <1>3 DEF InPhase
<1>6. Held'
  BY <1>1, <1>3, <1>5, Bridgeless
<1> QED BY <1>1, <1>2, <1>3, <1>4, <1>5, <1>6, AdvancingKeeps

\* The bridge being waited for is the one that may be installed.
LEMMA OpenBridgeInv == IInv /\ OpenBridge => IInv'
<1> SUFFICES ASSUME IInv, OpenBridge PROVE IInv'
  OBVIOUS
<1> DEFINE opened == [Goto("listen") EXCEPT !.opening = device.game.pid]
<1>1. /\ Types /\ runner.pc = "phase" /\ runner.pc \in InPhase /\ "listen" \in PCs
      /\ runner.at \notin WithBridge /\ runner.at \notin Unstarted /\ runner.at # "end"
  BY DEF IInv, OpenBridge, At, InPhase, PCs, WithBridge, Unstarted
<1>2. forwards \in Nat /\ forwards' = forwards + 1 /\ forwards' \in Nat
  BY <1>1 DEF OpenBridge, Types
<1>3. Still /\ (~runner.instance => remembered' = None)
  BY <1>1, <1>2, StillFacts DEF OpenBridge, Types, fixed
<1>4. CASE runner' = opened
  <2>1. device.game.pid \in Maybe(Pids)
    BY <1>1 DEF OpenBridge, Types, Devices, Maybe, Games
  <2>2. /\ runner' \in Runners /\ Same(runner') /\ runner'.pc = "listen"
        /\ runner'.failure = runner.failure /\ runner'.at = runner.at
    BY <1>1, <1>4, <2>1, GotoFacts DEF Runners, Same
  <2>3. Held'
    BY <1>1, <1>2, <2>2 DEF OpenBridge, IInv, Held, Same, InPhase
  <2>4. runner'.pc \in InPhase
    BY <2>2 DEF InPhase
  <2>5. runner.at \in {"observer-ready", "observer-recovered"}
    BY DEF OpenBridge, At
  <2> QED BY <1>1, <1>3, <2>2, <2>3, <2>4, <2>5, HasInstance, AdvancingKeeps
<1>5. CASE runner' = Failed
  BY <1>1, <1>3, <1>5, FailedFacts, FailingKeeps
<1> QED BY <1>4, <1>5 DEF OpenBridge

LEMMA ListenInv == IInv /\ Listen => IInv'
<1> SUFFICES ASSUME IInv, Listen PROVE IInv'
  OBVIOUS
<1>1. /\ Types /\ runner.pc = "listen" /\ runner.pc \in InPhase
      /\ runner.pc \in InPhase \ {"phase"}
  BY DEF IInv, Listen, InPhase
<1>2. runner.instance /\ runner.at # "end"
  BY <1>1, HasInstance, NotEnd
<1>3. /\ NextPhase \in Runners /\ Same(NextPhase) /\ NextPhase.pc = "phase"
      /\ NextPhase.failure = runner.failure /\ NextPhase.at = After(runner.at)
  BY <1>1, <1>2, NextPhaseFacts
<1>4. /\ runner' \in Runners /\ Same(runner') /\ runner'.pc = "phase"
      /\ runner'.failure = runner.failure /\ runner'.at = After(runner.at)
  BY <1>3 DEF Listen, Runners, Same, Maybe
<1>5. Still
  BY <1>1, StillFacts DEF Listen, Types, fixed
<1>6. runner.at \in {"observer-ready", "observer-recovered"}
  BY <1>1 DEF IInv, Started
<1>7. runner'.at \in WithBridge
  BY <1>4, <1>6 DEF After, WithBridge
<1>8. Held'
  BY <1>1, <1>4, <1>7 DEF Listen, IInv, Held, Same, InPhase
<1>9. runner'.pc \in InPhase
  BY <1>4 DEF InPhase
<1> QED BY <1>1, <1>2, <1>4, <1>5, <1>8, <1>9, AdvancingKeeps

LEMMA ListenFailsInv == IInv /\ ListenFails => IInv'
<1> SUFFICES ASSUME IInv, ListenFails PROVE IInv'
  OBVIOUS
<1>1. /\ Types /\ runner.pc = "listen" /\ runner.pc \in InPhase
  BY DEF IInv, ListenFails, InPhase
<1>2. forwards \in Nat /\ Removed \in Nat
  BY <1>1 DEF Types, Removed
<1>3. forwards' \in Nat
  BY <1>2 DEF ListenFails
<1>4. Still /\ (~runner.instance => remembered' = None)
  BY <1>1, <1>3, StillFacts DEF ListenFails, Types, fixed
<1>5. /\ runner' \in Runners /\ Same(runner') /\ runner'.failure = TRUE
      /\ runner'.pc = IF runner.instance THEN "stop" ELSE "report"
  BY <1>1, FailedFacts DEF ListenFails, Runners, Same, Maybe
<1> QED BY <1>1, <1>4, <1>5, FailingKeeps

LEMMA RestartInv == IInv /\ Restart => IInv'
<1> SUFFICES ASSUME IInv, Restart PROVE IInv'
  OBVIOUS
<1>1. /\ Types /\ runner.pc = "phase" /\ runner.pc \in InPhase /\ runner.at # "end"
      /\ runner.at \notin Unstarted /\ bridge' = FALSE
  BY DEF IInv, Restart, At, InPhase, Unstarted
<1>2. forwards \in Nat /\ Removed \in Nat
  BY <1>1 DEF Types, Removed
<1>3. forwards' \in Nat
  BY <1>2 DEF Restart
<1>4. Still /\ (~runner.instance => remembered' = None)
  BY <1>1, <1>3, StillFacts DEF Restart, Types, fixed
<1>5. CASE runner' = Failed
  BY <1>1, <1>4, <1>5, FailedFacts, FailingKeeps
<1>6. ASSUME NEW pc \in {"configure", "verify", "reboot"}, runner' = Goto(pc),
             forwards' = Removed
      PROVE  IInv'
  <2>1. pc \in PCs /\ pc \in InPhase /\ pc \notin {"phase", "listen", "write"}
    BY DEF PCs, InPhase
  <2>2. /\ runner' \in Runners /\ Same(runner') /\ runner'.pc = pc
        /\ runner'.failure = runner.failure /\ runner'.at = runner.at
    BY <1>1, <1>6, <2>1, GotoFacts
  <2>3. (~runner.failure /\ ~runner.cleanupFailure) => Removed <= 0
    BY <1>1, <1>2 DEF IInv, Held, Removed
  <2>4. Held'
    BY <1>1, <1>6, <2>1, <2>2, <2>3 DEF Held, Same
  <2> QED BY <1>1, <1>4, <2>1, <2>2, <2>4, HasInstance, AdvancingKeeps
<1>7. CASE runner' # Failed
  <2>1. PICK pc \in {"configure", "verify", "reboot"} :
          runner' = Goto(pc) /\ forwards' = Removed
    BY <1>7 DEF Restart, ToLaunch
  <2> QED BY <1>6, <2>1
<1> QED BY <1>5, <1>7

LEMMA CompareInv == IInv /\ Compare => IInv'
<1> SUFFICES ASSUME IInv, Compare PROVE IInv'
  OBVIOUS
<1>1. /\ Types /\ runner.pc = "phase" /\ runner.pc \in InPhase /\ "stop" \in PCs
      /\ runner.at \notin Unstarted /\ Only(Goto("stop"))
  BY DEF IInv, Compare, At, InPhase, PCs, Stopping, Unstarted
<1>2. /\ runner' \in Runners /\ Same(runner') /\ runner'.pc = "stop"
      /\ runner'.failure = runner.failure /\ runner'.at = runner.at
  BY <1>1, GotoFacts DEF Only
<1>3. Still /\ (~runner.instance => remembered' = None)
  BY <1>1, StillFacts DEF Only, Types, fixed
<1>4. Held'
  BY <1>1, <1>2 DEF IInv, Only, Held, Same, InPhase
<1> QED BY <1>1, <1>2, <1>3, <1>4, HasInstance, AdvancingKeeps

(***************************************************************************)
(* stop() and the manifest                                                 *)
(***************************************************************************)

LEMMA BeginStopInv == IInv /\ BeginStop => IInv'
<1> SUFFICES ASSUME IInv, BeginStop PROVE IInv'
  OBVIOUS
<1> DEFINE pc == IF remembered = None THEN "close" ELSE "restore"
<1>1. Types /\ runner.pc = "stop" /\ Before /\ pc \in PCs /\ runner.instance
  BY DEF IInv, BeginStop, Before, PCs, Stopping, Started
<1>2. Goto(pc) \in Runners /\ Same(Goto(pc)) /\ Goto(pc).pc = pc
      /\ Goto(pc).failure = runner.failure
  BY <1>1, GotoFacts
<1>3. /\ runner' \in Runners /\ runner'.pc = pc /\ runner'.restoring = remembered
      /\ runner'.instance /\ runner'.failure = runner.failure
      /\ runner'.cleanupFailure = runner.cleanupFailure
  BY <1>1, <1>2 DEF BeginStop, Runners, Same, Types
<1>4. Types'
  BY <1>1, <1>3 DEF BeginStop, Types, fixed, Maybe
<1>5. Kept' /\ Restored'
  BY <1>1, <1>3 DEF IInv, BeginStop, fixed, Kept, Restored, Before, InPhase
<1>6. Started' /\ Halted' /\ Reported'
  BY <1>1, <1>3 DEF IInv, BeginStop, fixed, Started, Halted, Reported, InPhase, Stopping
<1>7. Held'
  BY <1>1, <1>3 DEF IInv, BeginStop, Held, InPhase
<1> QED BY <1>4, <1>5, <1>6, <1>7 DEF IInv

LEMMA RestoreWriteInv == IInv /\ RestoreWrite => IInv'
<1> SUFFICES ASSUME IInv, RestoreWrite PROVE IInv'
  OBVIOUS
<1>1. Types /\ runner.pc = "restore" /\ runner.restoring \in Routings
  BY DEF IInv, RestoreWrite, Kept, Types, Runners, Maybe
<1>2. /\ runner' \in Runners /\ runner'.pc = "restore"
      /\ runner'.restoring = runner.restoring /\ runner'.instance = runner.instance
      /\ runner'.cleanupFailure = runner.cleanupFailure
      /\ runner'.failure = runner.failure
  <2>1. PICK ok \in BOOLEAN :
          runner' = [runner EXCEPT !.next = @ + 1, !.unrestored = @ \/ ~ok]
    BY DEF RestoreWrite
  <2>2. runner.next + 1 \in Nat \ {0}
    BY <1>1 DEF Types, Runners
  <2>3. (runner.unrestored \/ ~ok) \in BOOLEAN
    OBVIOUS
  <2> QED BY <1>1, <2>1, <2>2, <2>3 DEF Types, Runners
<1>3. runner.next \in Numbers
  <2>1. runner.next \in Nat \ {0} /\ runner.next <= NSettings /\ NSettings \in Nat
    BY <1>1, QualificationAssumption DEF RestoreWrite, Types, Runners
  <2> QED BY <2>1 DEF Numbers
<1>4. device' \in Devices
  <2>1. runner.restoring[runner.next] \in {"own", "angle"}
    BY <1>1, <1>3 DEF Routings
  <2>2. [device EXCEPT !.settings[runner.next] = runner.restoring[runner.next]] \in Devices
    BY <1>1, <1>3, <2>1, SettingFacts
  <2> QED BY <1>1, <2>2 DEF RestoreWrite, Types
<1>5. Types'
  BY <1>1, <1>2, <1>4 DEF RestoreWrite, Types, fixed
<1>6. Kept' /\ Restored'
  BY <1>1, <1>2 DEF IInv, RestoreWrite, fixed, Kept, Restored, Before, InPhase
<1>7. Started' /\ Halted' /\ Reported'
  BY <1>1, <1>2 DEF IInv, RestoreWrite, fixed, Started, Halted, Reported, InPhase, Stopping
<1>8. Held'
  BY <1>1, <1>2 DEF IInv, RestoreWrite, Held, InPhase
<1> QED BY <1>5, <1>6, <1>7, <1>8 DEF IInv

LEMMA RestoreCheckInv == IInv /\ RestoreCheck => IInv'
<1> SUFFICES ASSUME IInv, RestoreCheck PROVE IInv'
  OBVIOUS
<1>1. Types /\ runner.pc = "restore" /\ "close" \in PCs
  BY DEF IInv, RestoreCheck, PCs, Stopping
<1>2. Goto("close") \in Runners /\ Same(Goto("close")) /\ Goto("close").pc = "close"
      /\ Goto("close").failure = runner.failure
  BY <1>1, GotoFacts
<1>3. PICK ok \in BOOLEAN :
        /\ ok => device.settings = runner.restoring
        /\ Only([Goto("close") EXCEPT !.cleanupFailure = ~ok])
  BY DEF RestoreCheck
<1>4. /\ runner' \in Runners /\ runner'.pc = "close"
      /\ runner'.restoring = runner.restoring /\ runner'.instance = runner.instance
      /\ runner'.failure = runner.failure /\ (~runner'.cleanupFailure => ok)
  BY <1>2, <1>3 DEF Only, Runners, Same
<1>5. Types'
  BY <1>1, <1>3, <1>4 DEF Only, Types, fixed
<1>6. Kept' /\ Restored'
  BY <1>1, <1>3, <1>4 DEF IInv, Only, fixed, Kept, Restored, Before, InPhase
<1>7. Started' /\ Halted' /\ Reported'
  BY <1>1, <1>3, <1>4 DEF IInv, Only, fixed, Started, Halted, Reported, InPhase, Stopping
<1>8. Held'
  BY <1>1, <1>3, <1>4 DEF IInv, Kept, Only, Held, InPhase
<1> QED BY <1>5, <1>6, <1>7, <1>8 DEF IInv

LEMMA CloseObserverInv == IInv /\ CloseObserver => IInv'
<1> SUFFICES ASSUME IInv, CloseObserver PROVE IInv'
  OBVIOUS
<1> DEFINE pc == IF config.backend = "kvm" THEN "halt" ELSE "report"
<1>1. Types /\ runner.pc = "close" /\ pc \in PCs /\ runner.instance
  BY DEF IInv, CloseObserver, PCs, Stopping, Started
<1>2. Goto(pc) \in Runners /\ Same(Goto(pc)) /\ Goto(pc).pc = pc
      /\ Goto(pc).failure = runner.failure
  BY <1>1, GotoFacts
<1>3. /\ runner' \in Runners /\ runner'.pc = pc
      /\ runner'.restoring = runner.restoring /\ runner'.instance
      /\ runner'.failure = runner.failure
      /\ runner.cleanupFailure => runner'.cleanupFailure
      /\ ~runner'.cleanupFailure =>
            forwards' = (IF bridge THEN Removed ELSE forwards)
  BY <1>1, <1>2 DEF CloseObserver, Runners, Same, Types
<1>4. forwards \in Nat /\ Removed \in Nat /\ forwards' \in Nat
  BY <1>1 DEF Types, Removed, CloseObserver
<1>5. Types'
  BY <1>1, <1>3, <1>4 DEF CloseObserver, Types, fixed
<1>6. Kept' /\ Restored'
  BY <1>1, <1>3 DEF IInv, CloseObserver, fixed, Kept, Restored, Before, InPhase
<1>7. Started' /\ Reported'
  BY <1>1, <1>3 DEF IInv, CloseObserver, fixed, Started, Reported, InPhase, Stopping
<1>8. Halted'
  BY <1>1, <1>3 DEF IInv, CloseObserver, fixed, Halted
<1>9. Held'
  BY <1>1, <1>3, <1>4 DEF IInv, CloseObserver, Held, InPhase, Removed
<1> QED BY <1>5, <1>6, <1>7, <1>8, <1>9 DEF IInv

LEMMA HaltInv == IInv /\ Halt => IInv'
<1> SUFFICES ASSUME IInv, Halt PROVE IInv'
  OBVIOUS
<1>1. Types /\ runner.pc = "halt" /\ "report" \in PCs /\ runner.instance
  BY DEF IInv, Halt, PCs, Stopping, Started
<1>2. Goto("report") \in Runners /\ Same(Goto("report")) /\ Goto("report").pc = "report"
      /\ Goto("report").failure = runner.failure
  BY <1>1, GotoFacts
<1>3. /\ runner' \in Runners /\ runner'.pc = "report"
      /\ runner'.restoring = runner.restoring /\ runner'.instance
      /\ runner'.failure = runner.failure
      /\ runner.cleanupFailure => runner'.cleanupFailure
  BY <1>1, <1>2 DEF Halt, Runners, Same, Types
<1>4. /\ device' \in Devices /\ device'.settings = device.settings
      /\ forwards' \in Nat /\ forwards' <= forwards
      /\ emulator' \in BOOLEAN
  <2>1. CASE device' = Down /\ forwards' = 0 /\ emulator' = FALSE
    <3>1. 0 \in Nat /\ forwards \in Nat
      BY <1>1 DEF Types
    <3>2. device' \in Devices /\ device'.settings = device.settings
      BY <1>1, <2>1, DeviceFacts
    <3>3. forwards' \in Nat /\ forwards' <= forwards
      BY <2>1, <3>1
    <3>4. emulator' \in BOOLEAN
      BY <2>1
    <3> QED BY <3>2, <3>3, <3>4
  <2>2. CASE UNCHANGED <<device, emulator, forwards>>
    BY <1>1, <2>2 DEF Types, Devices
  <2> QED BY <2>1, <2>2 DEF Halt
<1>5. emulator' => emulator /\ runner'.cleanupFailure
  <2>1. CASE emulator' = FALSE
    BY <2>1
  <2>2. CASE emulator /\ runner' = [Goto("report") EXCEPT !.cleanupFailure = TRUE]
    BY <1>2, <2>2 DEF Runners
  <2> QED BY <2>1, <2>2 DEF Halt
<1>6. Types'
  BY <1>1, <1>3, <1>4 DEF Halt, Types, fixed
<1>7. Kept' /\ Restored'
  BY <1>1, <1>3, <1>4 DEF IInv, Halt, fixed, Kept, Restored, Before, InPhase
<1>8. Started' /\ Reported'
  BY <1>1, <1>3 DEF IInv, Halt, fixed, Started, Reported, InPhase, Stopping
<1>9. Halted'
  BY <1>1, <1>3, <1>5 DEF IInv, Halt, fixed, Halted
<1>10. Held'
  BY <1>1, <1>3, <1>4 DEF IInv, Types, Halt, Held, InPhase
<1> QED BY <1>6, <1>7, <1>8, <1>9, <1>10 DEF IInv

LEMMA ReportInv == IInv /\ Report => IInv'
<1> SUFFICES ASSUME IInv, Report PROVE IInv'
  OBVIOUS
<1>1. Types /\ runner.pc = "report" /\ "done" \in PCs
  BY DEF IInv, Report, PCs
<1>2. /\ runner' \in Runners /\ Same(runner') /\ runner'.pc = "done"
      /\ runner'.failure = runner.failure
  BY <1>1, GotoFacts DEF Report
<1>3. PICK downgraded \in BOOLEAN :
        manifest' = [pass |-> ~runner.failure /\ ~runner.cleanupFailure /\ ~downgraded,
                     cleanupFailure |-> runner.cleanupFailure,
                     changed |-> (runner.instance /\ config.backend = "kvm")
                                 \/ config.launch]
  BY DEF Report
<1>4. Types'
  BY <1>1, <1>2 DEF Report, Types, fixed
<1>5. Kept' /\ Restored'
  BY <1>1, <1>2 DEF IInv, Report, fixed, Kept, Restored, Before, InPhase, Same
<1>6. Started' /\ Halted'
  BY <1>1, <1>2 DEF IInv, Report, fixed, Started, Halted, InPhase, Stopping, Same
<1>7. Held'
  BY <1>1, <1>2 DEF IInv, Report, Held, InPhase, Same
<1>8. Reported'
  <2>1. /\ manifest'.cleanupFailure = runner.cleanupFailure
        /\ manifest'.pass => ~runner.failure /\ ~runner.cleanupFailure
    BY <1>3
  <2> QED BY <1>2, <2>1 DEF Reported, Same
<1> QED BY <1>4, <1>5, <1>6, <1>7, <1>8 DEF IInv

(***************************************************************************)
(* The invariant and what it says                                          *)
(***************************************************************************)

LEMMA InitInv == Init => IInv
<1> SUFFICES ASSUME Init PROVE IInv
  OBVIOUS
<1>1. /\ {"phase", "probe-host"} \subseteq PCs \union Phases
      /\ "phase" \in PCs /\ "probe-host" \in Phases /\ "phase" \in InPhase
      /\ "probe-host" \in Unstarted
  BY DEF PCs, InPhase, Phases, Unstarted
<1>2. config \in Configs /\ original \in Routings
  BY DEF Init
<1>3. PICK game \in Maybe({[pid |-> p, number |-> 1] : p \in Pids}) :
        device = [up |-> config.backend = "adb", rebooting |-> FALSE, boots |-> 0,
                  settings |-> original, game |-> game,
                  games |-> IF game = None THEN 0 ELSE 1]
  BY DEF Init
<1>4. MaxGames \in Nat /\ 0 \in 0..MaxGames /\ 1 \in 0..MaxGames /\ 1 \in 1..MaxGames
  BY QualificationAssumption
<1>5. game \in Maybe(Games)
  BY <1>4 DEF Maybe, Games
<1>6. (config.backend = "adb") \in BOOLEAN /\ FALSE \in BOOLEAN /\ 0 \in Nat
  OBVIOUS
<1>7. device \in Devices /\ device.settings = original
  BY <1>2, <1>3, <1>4, <1>5, <1>6 DEF Devices
<1>8. /\ runner \in Runners /\ runner.pc = "phase" /\ runner.at = "probe-host"
      /\ runner.instance = FALSE /\ runner.restoring = None
      /\ runner.cleanupFailure = FALSE
  BY <1>1 DEF Init, Runners, Maybe
<1>9. emulator = FALSE /\ forwards = 0 /\ remembered = None /\ bridge = FALSE
      /\ manifest = None
  BY DEF Init
<1>10. Types
  BY <1>2, <1>6, <1>7, <1>8, <1>9 DEF Types, Maybe
<1>11. Kept /\ Restored
  BY <1>1, <1>7, <1>8, <1>9 DEF Kept, Restored, Before
<1>12. Started /\ Halted /\ Reported
  BY <1>1, <1>8, <1>9 DEF Started, Halted, Reported, Stopping
<1>13. Held
  BY <1>8, <1>9 DEF Held, InPhase
<1> QED BY <1>10, <1>11, <1>12, <1>13 DEF IInv

LEMMA StutterInv == IInv /\ UNCHANGED vars => IInv'
BY DEF IInv, vars, fixed, Types, Kept, Restored, Started, Halted, Held, Reported, Before

LEMMA StepInv == IInv /\ [Next]_vars => IInv'
<1> SUFFICES ASSUME IInv, [Next]_vars PROVE IInv'
  OBVIOUS
<1>1. CASE Device
  BY <1>1, DeviceInv
<1>2. CASE Phase
  BY <1>2, FailsInv, ReadPhaseInv, StartInv, WaitGameInv, ConfigureInv,
     WriteSettingInv, VerifyInv, ForceStopInv, StartGameInv, ForegroundInv,
     OpenBridgeInv, ListenInv, ListenFailsInv, RestartInv, RebootInv, CompareInv
     DEF Phase
<1>3. CASE Stop
  BY <1>3, BeginStopInv, RestoreWriteInv, RestoreCheckInv, CloseObserverInv, HaltInv,
     ReportInv DEF Stop
<1>4. CASE UNCHANGED vars
  BY <1>4, StutterInv
<1> QED BY <1>1, <1>2, <1>3, <1>4 DEF Next

THEOREM Invariance == Spec => []IInv
BY InitInv, StepInv, PTL DEF Spec

\* Whatever command or phase failed, and with whatever effect: a manifest that
\* reports no cleanup failure is that of a run that put the routing back as it was
\* found and left no emulator running.
THEOREM EveryLeftoverReported == Spec => []LeftoversReported
<1>1. IInv => LeftoversReported
  BY DEF IInv, Reported, Restored, Halted, LeftoversReported
<1> QED BY <1>1, Invariance, PTL

\* A manifest that passes is that of a run that left neither changed settings nor a
\* forward nor an emulator, after any number of launches and restarts.
THEOREM PassIsClean == Spec => []PassLeavesNothing
<1>1. IInv => PassLeavesNothing
  BY DEF IInv, Types, Reported, Restored, Halted, Held, PassLeavesNothing
<1> QED BY <1>1, Invariance, PTL

(***************************************************************************)
(* Launches under the routing, and games that are new                      *)
(***************************************************************************)

Observed == {"fingerprint", "restart-game", "restart-android", "adb-offline",
             "adb-recovered", "android-recovered", "game-recovered",
             "observer-recovered", "fingerprint-recovered", "end"}

\* In which phases the steps of a launch and of a reboot are taken.
Places ==
    /\ runner.pc \in {"configure", "write", "verify", "force-stop", "start-game"} =>
          runner.at \in {"game-ready", "restart-game", "game-recovered"}
    /\ runner.pc = "foreground" => runner.at \in {"game-ready", "game-recovered"}
    /\ runner.pc = "reboot" => runner.at = "restart-android"

\* From its verification to the launch nobody changes the routing.
LaunchRouted == runner.pc \in {"force-stop", "start-game"} => device.settings = Routed

\* The running game is the last one that was started.
Numbered == device.game # None => device.game.number = device.games

\* What was seen first is not newer than what runs; if it is as old, it is what
\* runs; and the same holds of what was seen after the recovery.
SeenFits ==
    /\ seen \in [baseline : Maybe(Games), recovered : Maybe(Games), game : Maybe(Pids)]
    /\ seen.baseline # None =>
          /\ seen.baseline.number <= device.games
          /\ device.game # None /\ device.games = seen.baseline.number =>
                device.game = seen.baseline
    /\ seen.baseline # None /\ seen.recovered # None =>
          /\ seen.baseline.number <= seen.recovered.number
          /\ seen.baseline.number = seen.recovered.number => seen.recovered = seen.baseline

\* What has been seen by which phase.
PhaseSeen ==
    /\ runner.at \in Observed => seen.baseline # None
    /\ runner.at \notin Observed => seen.recovered = None
    /\ runner.at = "fingerprint-recovered" => seen.recovered # None
    /\ runner.at = "end" /\ config.recovery # "none" => seen.recovered # None

\* Once the pids were compared, what was seen is new.
Newer ==
    (~runner.failure /\ runner.pc \notin InPhase /\ config.recovery # "none") =>
        seen.recovered.number > seen.baseline.number

Steady == Places /\ LaunchRouted /\ PhaseSeen /\ Newer
Ages   == Numbered /\ SeenFits /\ Steady

(***************************************************************************)
(* How games follow each other                                             *)
(***************************************************************************)

\* No step but a start changes the game, unless it ends it.
NoneStarted == /\ device'.games = device.games
               /\ device'.game # None => device'.game = device.game
OneStarted  == /\ device'.games = device.games + 1
               /\ device'.game.number = device'.games

LEMMA DeviceAges ==
    ASSUME Types
    PROVE  /\ Down.games = device.games /\ Down.game = None
           /\ [device EXCEPT !.game = None].games = device.games
           /\ [device EXCEPT !.game = None].game = None
           /\ [device EXCEPT !.rebooting = TRUE].games = device.games
           /\ [device EXCEPT !.rebooting = TRUE].game = device.game
           /\ [device EXCEPT !.up = TRUE, !.boots = @ + 1].games = device.games
           /\ [device EXCEPT !.up = TRUE, !.boots = @ + 1].game = device.game
BY DEF Types, Devices, Down

LEMMA SettingAges ==
    ASSUME Types, NEW n, NEW v
    PROVE  /\ [device EXCEPT !.settings[n] = v].games = device.games
           /\ [device EXCEPT !.settings[n] = v].game = device.game
BY DEF Types, Devices

LEMMA GameAges ==
    ASSUME Types, NEW p \in Pids
    PROVE  /\ WithGame(p).games = device.games + 1
           /\ WithGame(p).game.number = device.games + 1
BY DEF Types, Devices, WithGame

\* A command, whichever way it is reported, leaves what it does to the device.
LEMMA DeliverIs ==
    ASSUME NEW d, NEW next, Deliver(d, next)
    PROVE  device' = d /\ UNCHANGED <<config, seen, manifest>> /\ runner' \in {next, Failed}
BY DEF Deliver, fixed

LEMMA StartsAtMostOne ==
    ASSUME Types, [Next]_vars
    PROVE  NoneStarted \/ OneStarted
<1> USE DEF NoneStarted, OneStarted
<1>1. CASE UNCHANGED device
  BY <1>1
<1>2. CASE GameDies \/ GoesDown \/ EmulatorDies \/ Boots \/ Halt
  BY <1>2, DeviceAges DEF GameDies, GoesDown, EmulatorDies, Boots, Halt
<1>3. CASE GameStarts
  BY <1>3, GameAges DEF GameStarts
<1>4. CASE WriteSetting
  <2> DEFINE d == [device EXCEPT !.settings[runner.next] = "angle"]
             next == [runner EXCEPT !.next = @ + 1]
  <2>1. CASE Deliver(d, next)
    <3>1. device' = d
      BY <2>1, DeliverIs
    <3>2. d.games = device.games /\ d.game = device.game
      BY SettingAges
    <3> QED BY <3>1, <3>2
  <2>2. CASE Only(next)
    BY <1>1, <2>2 DEF Only
  <2> QED BY <1>4, <2>1, <2>2 DEF WriteSetting
<1>5. CASE ForceStop
  BY <1>5, DeviceAges, DeliverIs DEF ForceStop
<1>6. CASE StartGame
  <2>1. ASSUME NEW next, device.game # None /\ Deliver(device, next)
        PROVE  device' = device
    BY <2>1, DeliverIs
  <2>2. ASSUME NEW next, NEW p \in Pids, Deliver(WithGame(p), next)
        PROVE  OneStarted
    BY <2>2, DeliverIs, GameAges
  <2> QED BY <1>6, <2>1, <2>2 DEF StartGame
<1>7. CASE Reboot
  BY <1>7, DeviceAges, DeliverIs DEF Reboot
<1>8. CASE RestoreWrite
  <2> DEFINE d == [device EXCEPT !.settings[runner.next] =
                                    runner.restoring[runner.next]]
  <2>1. d.games = device.games /\ d.game = device.game
    BY SettingAges
  <2>2. device' = d \/ UNCHANGED device
    BY <1>8 DEF RestoreWrite
  <2> QED BY <1>1, <2>1, <2>2
<1>9. CASE PhaseFails \/ ReadPhase \/ WaitGame \/ Verify \/ Compare \/ RestoreCheck
  BY <1>9, <1>1 DEF PhaseFails, ReadPhase, WaitGame, Verify, Compare, RestoreCheck, Only
<1>10. CASE Start \/ Configure \/ Foreground \/ OpenBridge \/ Listen \/ ListenFails
            \/ Restart \/ BeginStop \/ CloseObserver \/ Report
  BY <1>10, <1>1 DEF Start, Configure, Foreground, OpenBridge, Listen, ListenFails,
     Restart, BeginStop, CloseObserver, Report
<1> QED BY <1>1, <1>2, <1>3, <1>4, <1>5, <1>6, <1>7, <1>8, <1>9, <1>10
        DEF Next, Device, Phase, Stop, vars

LEMMA NumberedNext ==
    ASSUME Types, Numbered, [Next]_vars
    PROVE  Numbered'
BY StartsAtMostOne DEF Numbered, NoneStarted, OneStarted

(***************************************************************************)
(* What was seen                                                           *)
(***************************************************************************)

\* Only the end of a wait for the observer sees a game.
LEMMA SeenChanges ==
    ASSUME [Next]_vars
    PROVE  \/ UNCHANGED seen
           \/ Foreground /\ seen' = [seen EXCEPT !.game = device.game.pid]
           \/ Listen
BY DeliverIs DEF Next, Device, Phase, Stop, vars, Others, Only, Foreground, GameDies,
   GameStarts, GoesDown, Boots, EmulatorDies, PhaseFails, ReadPhase, Start, WaitGame,
   Configure, WriteSetting, Verify, ForceStop, StartGame, OpenBridge, ListenFails,
   Restart, Reboot, Compare, BeginStop, RestoreWrite, RestoreCheck, CloseObserver,
   Halt, Report

LEMMA SeenFitsNext ==
    ASSUME IInv, Ages, [Next]_vars
    PROVE  SeenFits'
<1>1. /\ Types /\ device \in Devices /\ device' \in Devices
      /\ device.games \in Nat /\ device'.games \in Nat
  <2>1. IInv' /\ MaxGames \in Nat
    BY StepInv, QualificationAssumption
  <2> QED BY <2>1 DEF IInv, Types, Devices
<1>2. NoneStarted \/ OneStarted
  BY <1>1, StartsAtMostOne
<1>3. CASE /\ seen'.baseline = seen.baseline /\ seen'.recovered = seen.recovered
           /\ seen' \in [baseline : Maybe(Games), recovered : Maybe(Games),
                         game : Maybe(Pids)]
  <2>1. ASSUME seen.baseline # None
        PROVE  /\ seen.baseline.number <= device'.games
               /\ device'.game # None /\ device'.games = seen.baseline.number =>
                      device'.game = seen.baseline
    <3>1. /\ seen.baseline.number \in Nat /\ seen.baseline.number <= device.games
          /\ device.game # None /\ device.games = seen.baseline.number =>
                device.game = seen.baseline
      BY <2>1, QualificationAssumption DEF Ages, SeenFits, Games, Maybe
    <3>2. CASE NoneStarted
      BY <3>1, <3>2 DEF NoneStarted
    <3>3. CASE OneStarted
      BY <1>1, <3>1, <3>3 DEF OneStarted
    <3> QED BY <1>2, <3>2, <3>3
  <2> QED BY <1>3, <2>1 DEF Ages, SeenFits
<1>4. CASE UNCHANGED seen
  BY <1>3, <1>4 DEF Ages, SeenFits
<1>5. CASE Foreground /\ seen' = [seen EXCEPT !.game = device.game.pid]
  <2>1. device.game.pid \in Maybe(Pids)
    BY <1>1, <1>5 DEF Foreground, Devices, Maybe, Games
  <2> QED BY <1>3, <1>5, <2>1 DEF Ages, SeenFits
<1>6. CASE Listen
  <2>1. /\ device' = device /\ device.game # None /\ device.game \in Games
        /\ device.game.number = device.games
    BY <1>1, <1>6 DEF Listen, Devices, Maybe, Ages, Numbered
  <2>2. seen \in [baseline : Maybe(Games), recovered : Maybe(Games), game : Maybe(Pids)]
    BY DEF Ages, SeenFits
  <2>3. CASE Recovering
    <3>1. /\ seen' = [seen EXCEPT !.recovered = device.game]
          /\ seen' \in [baseline : Maybe(Games), recovered : Maybe(Games),
                        game : Maybe(Pids)]
      BY <1>6, <2>1, <2>2, <2>3 DEF Listen, Maybe
    <3>2. seen'.baseline = seen.baseline /\ seen'.recovered = device.game
      BY <2>2, <3>1
    <3> QED BY <2>1, <3>1, <3>2 DEF Ages, SeenFits
  <2>4. CASE ~Recovering
    <3>1. /\ seen' = [seen EXCEPT !.baseline = device.game]
          /\ seen' \in [baseline : Maybe(Games), recovered : Maybe(Games),
                        game : Maybe(Pids)]
      BY <1>6, <2>1, <2>2, <2>4 DEF Listen, Maybe
    <3>2. seen'.baseline = device.game /\ seen'.recovered = seen.recovered
      BY <2>2, <3>1
    <3>3. seen.recovered = None
      <4>1. runner.at \in {"observer-ready", "observer-recovered"}
        BY <1>6 DEF IInv, Started, Listen
      <4>2. runner.at \notin Observed
        BY <2>4, <4>1 DEF Recovering, Observed
      <4> QED BY <4>2 DEF Ages, Steady, PhaseSeen
    <3> QED BY <1>1, <2>1, <3>1, <3>2, <3>3 DEF SeenFits
  <2> QED BY <2>3, <2>4
<1> QED BY <1>4, <1>5, <1>6, SeenChanges

(***************************************************************************)
(* The runner's moves                                                      *)
(***************************************************************************)

\* A phase fails: nothing is seen, and what is stopped is judged by its cleanup.
LEMMA FailingIsSteady ==
    ASSUME Ages, UNCHANGED <<config, seen>>, runner'.at = runner.at,
           runner'.pc \in {"stop", "report"}, runner'.failure = TRUE
    PROVE  Steady'
BY DEF Ages, Steady, Places, LaunchRouted, PhaseSeen, Newer

LEMMA FailedAt ==
    ASSUME Types
    PROVE  /\ Failed.at = runner.at /\ Failed.failure = TRUE
           /\ Failed.pc \in {"stop", "report"}
BY DEF Types, Runners, Failed

\* A phase follows another, and has seen what that one has.
LEMMA FollowingIsSteady ==
    ASSUME Types, Ages, UNCHANGED config, runner' = NextPhase, runner.at # "end",
           runner.at \notin {"observer-ready", "observer-recovered"},
           UNCHANGED seen \/ seen' = [seen EXCEPT !.game = device.game.pid]
    PROVE  Steady'
<1>1. runner'.pc = "phase" /\ runner'.at = After(runner.at) /\ runner.at \in Phases
  BY NextPhaseFacts DEF Types, Runners
<1>2. seen'.baseline = seen.baseline /\ seen'.recovered = seen.recovered
  BY DEF Ages, SeenFits
<1>3. config.recovery \in {"none", "game", "android"}
  BY DEF Types, Configs
<1>4. PhaseSeen'
  BY <1>1, <1>2, <1>3 DEF Ages, Steady, PhaseSeen, Observed, Phases, After
<1>5. (Places /\ LaunchRouted /\ Newer)'
  BY <1>1 DEF Places, LaunchRouted, Newer, InPhase
<1> QED BY <1>4, <1>5 DEF Steady

\* A move within a phase.
LEMMA MovingIsSteady ==
    ASSUME Types, Ages, UNCHANGED <<config, seen>>, runner'.at = runner.at,
           runner'.pc \in InPhase, Places', LaunchRouted'
    PROVE  Steady'
BY DEF Ages, Steady, PhaseSeen, Newer

\* stop() and the report judge what the phases have seen.
LEMMA StoppingIsSteady ==
    ASSUME Types, Ages, UNCHANGED <<config, seen>>, runner'.at = runner.at,
           runner.pc \in Stopping \union {"report"},
           runner'.pc \in Stopping \union {"report", "done"},
           runner'.failure = runner.failure
    PROVE  Steady'
<1>1. runner.pc \notin InPhase
  BY DEF InPhase, Stopping
<1> QED BY <1>1 DEF Ages, Steady, Places, LaunchRouted, PhaseSeen, Newer, Stopping

\* The device moves on its own, and does not touch the routing.
LEMMA DeviceIsSteady == Types /\ Ages /\ Device => Steady'
<1> SUFFICES ASSUME Types, Ages, Device PROVE Steady'
  OBVIOUS
<1>1. device'.settings = device.settings
  <2>1. CASE GameStarts
    BY <2>1, WithGameFacts DEF GameStarts
  <2>2. CASE GameDies
    BY <2>2, DeviceFacts DEF GameDies
  <2>3. CASE GoesDown
    BY <2>3, DeviceFacts DEF GoesDown
  <2>4. CASE Boots
    BY <2>4, DeviceFacts DEF Boots
  <2>5. CASE EmulatorDies
    BY <2>5, DeviceFacts DEF EmulatorDies
  <2> QED BY <2>1, <2>2, <2>3, <2>4, <2>5 DEF Device
<1>2. UNCHANGED <<config, seen, runner>>
  BY DEF Device, GameDies, GameStarts, GoesDown, Boots, EmulatorDies, Others, fixed
<1> QED BY <1>1, <1>2 DEF Ages, Steady, Places, LaunchRouted, PhaseSeen, Newer

\* The phases that are not of a launch.
LEMMA PhaseIsSteady ==
    ASSUME IInv, Ages,
           PhaseFails \/ ReadPhase \/ Start \/ WaitGame \/ Configure \/ Foreground
             \/ OpenBridge \/ Listen \/ ListenFails \/ Restart \/ Reboot
    PROVE  Steady'
<1>0. Types
  BY DEF IInv
<1>1. CASE PhaseFails
  BY <1>0, <1>1, FailedAt, FailingIsSteady DEF PhaseFails, Only, fixed
<1>2. CASE ReadPhase
  BY <1>0, <1>2, FollowingIsSteady DEF ReadPhase, At, Only, fixed
<1>3. CASE Start
  <2>1. runner.at = "start" /\ NextPhase.at = "adb-ready" /\ NextPhase.pc = "phase"
        /\ NextPhase \in Runners
    BY <1>0, <1>3, NextPhaseFacts DEF Start, At, After
  <2>2. runner'.at = "adb-ready" /\ runner'.pc = "phase" /\ UNCHANGED <<config, seen>>
    BY <1>3, <2>1 DEF Start, Runners, fixed
  <2> QED BY <2>1, <2>2 DEF Ages, Steady, Places, LaunchRouted, PhaseSeen, Newer,
          Observed, InPhase
<1>4. CASE WaitGame
  <2>1. PICK pc \in {"configure", "verify", "foreground"} : Only(Goto(pc))
    BY <1>4 DEF WaitGame, ToLaunch
  <2>2. pc \in InPhase /\ pc \in PCs
    BY DEF InPhase, PCs
  <2>3. runner'.pc = pc /\ runner'.at = runner.at /\ UNCHANGED <<config, seen>>
    BY <1>0, <2>1, <2>2, GotoFacts DEF Only, fixed
  <2>4. Places' /\ LaunchRouted'
    BY <1>4, <2>3 DEF WaitGame, At, Places, LaunchRouted
  <2> QED BY <1>0, <2>2, <2>3, <2>4, MovingIsSteady
<1>5. CASE Configure
  <2>1. "write" \in InPhase /\ "write" \in PCs
    BY DEF InPhase, PCs
  <2>2. runner'.pc = "write" /\ runner'.at = runner.at /\ UNCHANGED <<config, seen>>
    BY <1>0, <1>5, <2>1, GotoFacts DEF Configure, fixed
  <2>3. Places' /\ LaunchRouted'
    BY <1>5, <2>2 DEF Configure, Ages, Steady, Places, LaunchRouted
  <2> QED BY <1>0, <2>1, <2>2, <2>3, MovingIsSteady
<1>6. CASE Foreground
  <2>1. runner.at \in {"game-ready", "game-recovered"}
    BY <1>6 DEF Foreground, Ages, Steady, Places
  <2> QED BY <1>0, <1>6, <2>1, FollowingIsSteady DEF Foreground, fixed
<1>7. CASE OpenBridge
  <2>1. CASE runner' = Failed
    BY <1>0, <1>7, <2>1, FailedAt, FailingIsSteady DEF OpenBridge, fixed
  <2>2. CASE runner' = [Goto("listen") EXCEPT !.opening = device.game.pid]
    <3>1. "listen" \in InPhase /\ "listen" \in PCs
      BY DEF InPhase, PCs
    <3>2. runner'.pc = "listen" /\ runner'.at = runner.at /\ UNCHANGED <<config, seen>>
      BY <1>0, <1>7, <2>2, <3>1, GotoFacts DEF OpenBridge, fixed, Runners
    <3>3. Places' /\ LaunchRouted'
      BY <3>2 DEF Places, LaunchRouted
    <3> QED BY <1>0, <3>1, <3>2, <3>3, MovingIsSteady
  <2> QED BY <1>7, <2>1, <2>2 DEF OpenBridge
<1>8. CASE Listen
  <2>1. /\ runner.at \in {"observer-ready", "observer-recovered"} /\ runner.at # "end"
        /\ device.game # None /\ UNCHANGED config
    BY <1>8 DEF IInv, Started, Listen, fixed
  <2>2. NextPhase.pc = "phase" /\ NextPhase.at = After(runner.at) /\ NextPhase \in Runners
    BY <1>0, <2>1, NextPhaseFacts
  <2>3. runner'.pc = "phase" /\ runner'.at = After(runner.at)
    BY <1>8, <2>2 DEF Listen, Runners
  <2>4. seen \in [baseline : Maybe(Games), recovered : Maybe(Games), game : Maybe(Pids)]
    BY DEF Ages, SeenFits
  <2>5. PhaseSeen'
    <3>1. CASE runner.at = "observer-ready"
      <4>1. seen' = [seen EXCEPT !.baseline = device.game] /\ seen.recovered = None
        BY <1>8, <3>1 DEF Listen, Recovering, Ages, Steady, PhaseSeen, Observed
      <4>2. runner'.at = "fingerprint"
        BY <2>3, <3>1 DEF After
      <4> QED BY <2>1, <2>4, <4>1, <4>2 DEF PhaseSeen, Observed
    <3>2. CASE runner.at = "observer-recovered"
      <4>1. seen' = [seen EXCEPT !.recovered = device.game] /\ seen.baseline # None
        BY <1>8, <3>2 DEF Listen, Recovering, Ages, Steady, PhaseSeen, Observed
      <4>2. runner'.at = "fingerprint-recovered"
        BY <2>3, <3>2 DEF After
      <4> QED BY <2>1, <2>4, <4>1, <4>2 DEF PhaseSeen, Observed
    <3> QED BY <2>1, <3>1, <3>2
  <2> QED BY <2>3, <2>5 DEF Steady, Places, LaunchRouted, Newer, InPhase
<1>9. CASE ListenFails
  <2>1. Failed \in Runners
    BY <1>0, FailedFacts
  <2>2. /\ runner'.at = runner.at /\ runner'.failure = TRUE
        /\ runner'.pc \in {"stop", "report"} /\ UNCHANGED <<config, seen>>
    BY <1>0, <1>9, <2>1, FailedAt DEF ListenFails, fixed, Runners
  <2> QED BY <2>2, FailingIsSteady
<1>10. CASE Restart
  <2>1. CASE runner' = Failed
    BY <1>0, <1>10, <2>1, FailedAt, FailingIsSteady DEF Restart, fixed
  <2>2. ASSUME NEW pc \in {"configure", "verify", "reboot"}, runner' = Goto(pc),
               pc = "reboot" => runner.at = "restart-android",
               pc # "reboot" => runner.at = "restart-game"
        PROVE  Steady'
    <3>1. pc \in InPhase /\ pc \in PCs
      BY DEF InPhase, PCs
    <3>2. runner'.pc = pc /\ runner'.at = runner.at /\ UNCHANGED <<config, seen>>
      BY <1>0, <1>10, <2>2, <3>1, GotoFacts DEF Restart, fixed
    <3>3. Places' /\ LaunchRouted'
      BY <2>2, <3>2 DEF Places, LaunchRouted
    <3> QED BY <1>0, <3>1, <3>2, <3>3, MovingIsSteady
  <2>3. CASE runner' # Failed
    <3>1. runner' = IF At({"restart-game"}) THEN ToLaunch ELSE Goto("reboot")
      BY <1>10, <2>3 DEF Restart
    <3>2. runner.at \in {"restart-game", "restart-android"} /\ runner.pc = "phase"
      BY <1>10 DEF Restart, At
    <3>3. CASE runner.at = "restart-game"
      <4>1. PICK pc \in {"configure", "verify"} : runner' = Goto(pc)
        BY <3>1, <3>2, <3>3 DEF At, ToLaunch
      <4> QED BY <2>2, <3>3, <4>1
    <3>4. CASE runner.at = "restart-android"
      BY <2>2, <3>1, <3>4 DEF At
    <3> QED BY <3>2, <3>3, <3>4
  <2> QED BY <2>1, <2>3
<1>11. CASE Reboot
  <2>1. runner.at = "restart-android" /\ UNCHANGED <<config, seen>>
        /\ runner' \in {NextPhase, Failed}
    BY <1>11, DeliverIs DEF Reboot, Ages, Steady, Places
  <2> QED BY <1>0, <2>1, FailedAt, FailingIsSteady, FollowingIsSteady
<1> QED BY <1>1, <1>2, <1>3, <1>4, <1>5, <1>6, <1>7, <1>8, <1>9, <1>10, <1>11

\* The launch, from the first write of the routing to the start of the game.
LEMMA LaunchIsSteady ==
    ASSUME IInv, Ages, WriteSetting \/ Verify \/ ForceStop \/ StartGame
    PROVE  Steady'
<1>0. Types
  BY DEF IInv
<1>1. CASE WriteSetting
  <2> DEFINE next == [runner EXCEPT !.next = @ + 1]
  <2>1. /\ UNCHANGED <<config, seen>> /\ runner' \in {next, Failed}
        /\ runner.pc = "write"
    BY <1>1, DeliverIs DEF WriteSetting, Only, fixed
  <2>2. CASE runner' = next
    <3>1. runner'.pc = "write" /\ runner'.at = runner.at /\ "write" \in InPhase
      BY <1>0, <2>1, <2>2 DEF Types, Runners, InPhase
    <3>2. Places' /\ LaunchRouted'
      BY <2>1, <3>1 DEF Ages, Steady, Places, LaunchRouted
    <3> QED BY <1>0, <2>1, <3>1, <3>2, MovingIsSteady
  <2> QED BY <1>0, <2>1, <2>2, FailedAt, FailingIsSteady
<1>2. CASE Verify
  <2>1. /\ UNCHANGED <<config, seen, device>> /\ runner' = Goto("force-stop")
        /\ runner.pc \in {"write", "verify"} /\ device.settings = Routed
        /\ "force-stop" \in InPhase /\ "force-stop" \in PCs
    BY <1>2 DEF Verify, Only, fixed, InPhase, PCs
  <2>2. runner'.pc = "force-stop" /\ runner'.at = runner.at
    BY <1>0, <2>1, GotoFacts
  <2>3. Places' /\ LaunchRouted'
    BY <2>1, <2>2 DEF Ages, Steady, Places, LaunchRouted
  <2> QED BY <1>0, <2>1, <2>2, <2>3, MovingIsSteady
<1>3. CASE ForceStop
  <2>1. /\ UNCHANGED <<config, seen>> /\ runner' \in {Goto("start-game"), Failed}
        /\ runner.pc = "force-stop" /\ device' = [device EXCEPT !.game = None]
        /\ "start-game" \in InPhase /\ "start-game" \in PCs
    BY <1>3, DeliverIs DEF ForceStop, InPhase, PCs
  <2>2. CASE runner' = Goto("start-game")
    <3>1. runner'.pc = "start-game" /\ runner'.at = runner.at
      BY <1>0, <2>1, <2>2, GotoFacts
    <3>2. device'.settings = device.settings /\ device.settings = Routed
      BY <1>0, <2>1, DeviceFacts DEF Ages, Steady, LaunchRouted
    <3>3. Places' /\ LaunchRouted'
      BY <2>1, <3>1, <3>2 DEF Ages, Steady, Places, LaunchRouted
    <3> QED BY <1>0, <2>1, <3>1, <3>3, MovingIsSteady
  <2> QED BY <1>0, <2>1, <2>2, FailedAt, FailingIsSteady
<1>4. CASE StartGame
  <2>1. /\ runner.pc = "start-game"
        /\ runner.at \in {"game-ready", "restart-game", "game-recovered"}
    BY <1>4 DEF StartGame, Ages, Steady, Places
  <2>2. /\ UNCHANGED <<config, seen>>
        /\ runner' \in {IF runner.at = "restart-game" THEN NextPhase
                        ELSE Goto("foreground"), Failed}
    BY <1>4, DeliverIs DEF StartGame
  <2>3. CASE runner' = NextPhase /\ runner.at = "restart-game"
    BY <1>0, <2>2, <2>3, FollowingIsSteady
  <2>4. CASE runner' = Goto("foreground") /\ runner.at # "restart-game"
    <3>1. "foreground" \in InPhase /\ "foreground" \in PCs
      BY DEF InPhase, PCs
    <3>2. runner'.pc = "foreground" /\ runner'.at = runner.at
      BY <1>0, <2>4, <3>1, GotoFacts
    <3>3. Places' /\ LaunchRouted'
      BY <2>1, <2>4, <3>2 DEF Places, LaunchRouted
    <3> QED BY <1>0, <2>2, <3>1, <3>2, <3>3, MovingIsSteady
  <2> QED BY <1>0, <2>2, <2>3, <2>4, FailedAt, FailingIsSteady
<1> QED BY <1>1, <1>2, <1>3, <1>4

\* The pids are compared once both observers have answered.  As what was seen
\* after the recovery is not older, another pid is that of a newer game.
LEMMA CompareIsSteady ==
    ASSUME IInv, Ages, Compare
    PROVE  Steady'
<1>1. /\ Types /\ "stop" \in PCs /\ runner.at = "end" /\ Only(Goto("stop"))
      /\ config.recovery # "none" => Recovered
  BY DEF IInv, Compare, At, PCs, Stopping
<1>2. runner'.pc = "stop" /\ runner'.at = "end" /\ UNCHANGED <<config, seen>>
  BY <1>1, GotoFacts DEF Only, fixed
<1>3. config.recovery # "none" => seen.recovered.number > seen.baseline.number
  <2> SUFFICES ASSUME config.recovery # "none"
               PROVE  seen.recovered.number > seen.baseline.number
    OBVIOUS
  <2>1. seen.baseline # None /\ seen.recovered # None
    BY <1>1 DEF Ages, Steady, PhaseSeen, Observed
  <2>2. /\ seen.baseline \in Games /\ seen.recovered \in Games
        /\ seen.baseline.number <= seen.recovered.number
        /\ seen.baseline.number = seen.recovered.number => seen.recovered = seen.baseline
    BY <2>1 DEF Ages, SeenFits, Maybe
  <2>3. seen.recovered # seen.baseline
    BY <1>1 DEF Recovered
  <2>4. seen.baseline.number \in Nat /\ seen.recovered.number \in Nat
    BY <2>2, QualificationAssumption DEF Games
  <2> QED BY <2>2, <2>3, <2>4
<1>4. PhaseSeen'
  BY <1>1, <1>2 DEF Ages, Steady, PhaseSeen
<1>5. Newer'
  BY <1>2, <1>3 DEF Newer
<1>6. Places' /\ LaunchRouted'
  BY <1>2 DEF Places, LaunchRouted
<1> QED BY <1>4, <1>5, <1>6 DEF Steady

LEMMA StopIsSteady == IInv /\ Ages /\ Stop => Steady'
<1> SUFFICES ASSUME IInv, Ages, Stop PROVE Steady'
  OBVIOUS
<1>0. Types
  BY DEF IInv
<1>1. UNCHANGED <<config, seen>>
  BY DEF Stop, BeginStop, RestoreWrite, RestoreCheck, Only, CloseObserver, Halt, Report,
     fixed
<1>2. ASSUME NEW pc \in Stopping \union {"report", "done"},
             runner.pc \in Stopping \union {"report"}, runner'.pc = pc,
             runner'.at = Goto(pc).at, runner'.failure = Goto(pc).failure
      PROVE  Steady'
  <2>1. pc \in PCs
    BY DEF PCs
  <2>2. runner'.at = runner.at /\ runner'.failure = runner.failure
    BY <1>0, <1>2, <2>1, GotoFacts
  <2> QED BY <1>0, <1>1, <1>2, <2>2, StoppingIsSteady
<1>3. \A pc \in Stopping \union {"report", "done"} : Goto(pc) \in Runners /\ Goto(pc).pc = pc
  BY <1>0, GotoFacts DEF PCs
<1>4. CASE BeginStop
  <2>1. PICK pc \in {"close", "restore"} :
            runner' = [Goto(pc) EXCEPT !.restoring = remembered]
    BY <1>4 DEF BeginStop
  <2>2. pc \in Stopping \union {"report", "done"}
        /\ runner.pc \in Stopping \union {"report"}
    BY <1>4 DEF BeginStop, Stopping
  <2> QED BY <1>2, <1>3, <2>1, <2>2 DEF Runners
<1>5. CASE RestoreWrite
  <2>1. /\ runner'.pc = runner.pc /\ runner'.at = runner.at
        /\ runner'.failure = runner.failure
    BY <1>0, <1>5 DEF RestoreWrite, Types, Runners
  <2>2. runner.pc \in Stopping
    BY <1>5 DEF RestoreWrite, Stopping
  <2> QED BY <1>0, <1>1, <2>1, <2>2, StoppingIsSteady
<1>6. CASE RestoreCheck
  <2>1. PICK ok \in BOOLEAN : runner' = [Goto("close") EXCEPT !.cleanupFailure = ~ok]
    BY <1>6 DEF RestoreCheck, Only
  <2>2. "close" \in Stopping /\ runner.pc \in Stopping
    BY <1>6 DEF RestoreCheck, Stopping
  <2> QED BY <1>2, <1>3, <2>1, <2>2 DEF Runners
<1>7. CASE CloseObserver
  <2>1. PICK pc \in {"halt", "report"} :
            \/ runner' = Goto(pc)
            \/ runner' = [Goto(pc) EXCEPT !.cleanupFailure = TRUE]
    BY <1>7 DEF CloseObserver
  <2>2. pc \in Stopping \union {"report"} /\ runner.pc \in Stopping
    BY <1>7 DEF CloseObserver, Stopping
  <2> QED BY <1>2, <1>3, <2>1, <2>2 DEF Runners
<1>8. CASE Halt
  <2>1. \/ runner' = Goto("report")
        \/ runner' = [Goto("report") EXCEPT !.cleanupFailure = TRUE]
    BY <1>8 DEF Halt
  <2>2. runner.pc \in Stopping
    BY <1>8 DEF Halt, Stopping
  <2> QED BY <1>2, <1>3, <2>1, <2>2 DEF Runners
<1>9. CASE Report
  BY <1>2, <1>3, <1>9 DEF Report
<1> QED BY <1>4, <1>5, <1>6, <1>7, <1>8, <1>9 DEF Stop

LEMMA AgesInit == Init => Ages
<1> SUFFICES ASSUME Init PROVE Ages
  OBVIOUS
<1>1. /\ seen = [baseline |-> None, recovered |-> None, game |-> None]
      /\ runner.pc = "phase" /\ runner.at = "probe-host" /\ runner.failure = FALSE
  BY DEF Init
<1>2. SeenFits
  BY <1>1 DEF SeenFits, Maybe
<1>3. Steady
  BY <1>1 DEF Steady, Places, LaunchRouted, PhaseSeen, Observed, Newer, InPhase
<1>4. PICK game \in Maybe({[pid |-> p, number |-> 1] : p \in Pids}) :
        device = [up |-> config.backend = "adb", rebooting |-> FALSE, boots |-> 0,
                  settings |-> original, game |-> game,
                  games |-> IF game = None THEN 0 ELSE 1]
  BY DEF Init
<1>5. Numbered
  BY <1>4 DEF Numbered, Maybe
<1> QED BY <1>2, <1>3, <1>5 DEF Ages

LEMMA AgesNext == IInv /\ Ages /\ [Next]_vars => Ages'
<1> SUFFICES ASSUME IInv, Ages, [Next]_vars PROVE Ages'
  OBVIOUS
<1>1. Numbered' /\ SeenFits'
  BY NumberedNext, SeenFitsNext DEF IInv, Ages
<1>2. Steady'
  <2>1. CASE UNCHANGED vars
    BY <2>1 DEF vars, fixed, Ages, Steady, Places, LaunchRouted, PhaseSeen, Newer
  <2>2. CASE Device \/ Stop
    BY <2>2, DeviceIsSteady, StopIsSteady DEF IInv
  <2>3. CASE Phase
    BY <2>3, PhaseIsSteady, LaunchIsSteady, CompareIsSteady DEF Phase
  <2> QED BY <2>1, <2>2, <2>3 DEF Next
<1> QED BY <1>1, <1>2 DEF Ages

LEMMA AgesInvariance == Spec => []Ages
BY AgesInit, AgesNext, Invariance, PTL DEF Spec

\* A recovery that passes has seen a game process that was started after the one it
\* saw first, although pids are used again and a reboot may come late: the bridge is
\* only opened to a running game, which is never older than one that was seen.
THEOREM RecoveriesAreNew == Spec => []RecoveredIsNew
<1>1. IInv /\ Ages => RecoveredIsNew
  BY DEF IInv, Reported, Ages, Steady, Newer, InPhase, RecoveredIsNew
<1> QED BY <1>1, Invariance, AgesInvariance, PTL

\* Whenever this run starts the game, each of its settings names the expected routing:
\* nothing between the verification and the start writes one.
THEOREM LaunchesAreRouted == Spec => LaunchIsRouted
<1>1. /\ Ages
      /\ runner.pc = "start-game"
      => device.settings = Routed
  BY DEF Ages, Steady, LaunchRouted
<1>2. Ages /\ [Next]_vars =>
        [(runner.pc = "start-game" /\ runner'.pc # "start-game" /\ device' # device)
           => device.settings = Routed]_vars
  BY <1>1
<1> QED BY <1>2, AgesInvariance, PTL DEF Spec, LaunchIsRouted

(***************************************************************************)
(* The bounds of the types                                                 *)
(***************************************************************************)

\* The runner stays in a phase, or takes the one after it, and writes or restores
\* no more settings than there are.
Proceeds(r) ==
    /\ \/ r.at = runner.at /\ (r.pc = "phase" => runner.pc = "phase")
       \/ runner.at # "end" /\ r.at = After(runner.at) /\ r.pc = "phase"
    /\ \/ r.next \in {1, runner.next}
       \/ runner.next <= NSettings /\ r.next = runner.next + 1

LEMMA MovesProceed ==
    ASSUME Types
    PROVE  /\ Proceeds(Failed)
           /\ runner.at # "end" => Proceeds(NextPhase)
           /\ \A pc \in PCs \ {"phase"} : Proceeds(Goto(pc))
           /\ runner.next <= NSettings => Proceeds([runner EXCEPT !.next = @ + 1])
BY DEF Types, Runners, Failed, NextPhase, Goto, Proceeds

LEMMA RunnerProceeds ==
    ASSUME IInv, Ages, [Next]_vars
    PROVE  Proceeds(runner')
<1>0. Types
  BY DEF IInv
<1>1. {"configure", "write", "verify", "force-stop", "start-game", "foreground",
       "listen", "reboot", "stop", "restore", "close", "halt", "report", "done"}
         \subseteq PCs \ {"phase"}
  BY DEF PCs, InPhase, Stopping
<1>2. CASE UNCHANGED runner
  BY <1>2 DEF Proceeds
<1>3. CASE runner' = Failed
  BY <1>0, <1>3, MovesProceed
<1>4. ASSUME NEW pc \in PCs \ {"phase"}, runner' = Goto(pc)
      PROVE  Proceeds(runner')
  BY <1>0, <1>4, MovesProceed
<1>5. ASSUME runner' = NextPhase, runner.at # "end"
      PROVE  Proceeds(runner')
  BY <1>0, <1>5, MovesProceed
<1>6. /\ Failed \in Runners
      /\ runner.at # "end" => NextPhase \in Runners
      /\ \A pc \in PCs : Goto(pc) \in Runners
  BY <1>0, FailedFacts, NextPhaseFacts, GotoFacts
<1>7. CASE PhaseFails \/ ReadPhase \/ WaitGame \/ Verify \/ Compare \/ Configure
  <2>1. CASE WaitGame
    <3>1. PICK pc \in {"configure", "verify", "foreground"} : runner' = Goto(pc)
      BY <2>1 DEF WaitGame, ToLaunch, Only
    <3> QED BY <1>1, <1>4, <3>1
  <2> QED BY <1>1, <1>3, <1>4, <1>5, <1>7, <2>1 DEF PhaseFails, ReadPhase, At, Only,
          Verify, Compare, Configure
<1>8. CASE Start
  <2>1. runner.at # "end" /\ runner' = [NextPhase EXCEPT !.instance = TRUE]
    BY <1>8 DEF Start, At
  <2> QED BY <1>0, <1>6, <2>1, MovesProceed DEF Runners, Proceeds
<1>9. CASE WriteSetting
  <2>1. runner' \in {[runner EXCEPT !.next = @ + 1], Failed} /\ runner.next <= NSettings
    BY <1>9, DeliverIs DEF WriteSetting, Only
  <2> QED BY <1>0, <2>1, MovesProceed
<1>10. CASE ForceStop
  BY <1>1, <1>3, <1>4, <1>10, DeliverIs DEF ForceStop
<1>11. CASE StartGame
  <2>1. runner' \in {NextPhase, Goto("foreground"), Failed}
    BY <1>11, DeliverIs DEF StartGame
  <2>2. runner.at # "end"
    BY <1>11 DEF StartGame, Ages, Steady, Places
  <2> QED BY <1>1, <1>3, <1>4, <1>5, <2>1, <2>2
<1>12. CASE Reboot
  <2>1. runner' \in {NextPhase, Failed}
    BY <1>12, DeliverIs DEF Reboot
  <2>2. runner.at # "end"
    BY <1>12 DEF Reboot, Ages, Steady, Places
  <2> QED BY <1>3, <1>5, <2>1, <2>2
<1>13. CASE Foreground
  BY <1>5, <1>13 DEF Foreground, Ages, Steady, Places
<1>14. CASE OpenBridge
  <2>1. CASE runner' = [Goto("listen") EXCEPT !.opening = device.game.pid]
    BY <1>0, <1>1, <1>6, <2>1, MovesProceed DEF Runners, Proceeds
  <2> QED BY <1>3, <1>14, <2>1 DEF OpenBridge
<1>15. CASE Listen
  <2>1. runner.at # "end" /\ runner' = [NextPhase EXCEPT !.opening = None]
    BY <1>15 DEF IInv, Started, Listen
  <2> QED BY <1>0, <1>6, <2>1, MovesProceed DEF Runners, Proceeds
<1>16. CASE ListenFails
  <2>1. runner' = [Failed EXCEPT !.opening = None]
    BY <1>16 DEF ListenFails
  <2> QED BY <1>0, <1>6, <2>1, MovesProceed DEF Runners, Proceeds
<1>17. CASE Restart
  <2>1. runner' = Failed
        \/ \E pc \in {"configure", "verify", "reboot"} : runner' = Goto(pc)
    BY <1>17 DEF Restart, ToLaunch
  <2> QED BY <1>1, <1>3, <1>4, <2>1
<1>18. CASE BeginStop
  <2>1. PICK pc \in {"close", "restore"} :
            runner' = [Goto(pc) EXCEPT !.restoring = remembered]
    BY <1>18 DEF BeginStop
  <2> QED BY <1>0, <1>1, <1>6, <2>1, MovesProceed DEF Runners, Proceeds
<1>19. CASE RestoreWrite
  BY <1>0, <1>19 DEF RestoreWrite, Types, Runners, Proceeds
<1>20. CASE RestoreCheck \/ CloseObserver \/ Halt \/ Report
  <2>1. PICK pc \in {"close", "halt", "report", "done"} :
            \/ runner' = Goto(pc)
            \/ \E b \in BOOLEAN : runner' = [Goto(pc) EXCEPT !.cleanupFailure = b]
    BY <1>20 DEF RestoreCheck, CloseObserver, Halt, Report, Only
  <2>2. Goto(pc) \in Runners /\ Proceeds(Goto(pc))
    BY <1>0, <1>1, <1>6, <2>1, MovesProceed
  <2> QED BY <2>1, <2>2 DEF Runners, Proceeds
<1> QED BY <1>2, <1>7, <1>8, <1>9, <1>10, <1>11, <1>12, <1>13, <1>14, <1>15, <1>16,
        <1>17, <1>18, <1>19, <1>20
        DEF Next, Device, Phase, Stop, vars, GameDies, GameStarts, GoesDown, Boots,
            EmulatorDies, Others

\* A forward is only added by a wait for the observer, and a run waits twice.
Unopened == Unstarted \union {"adb-ready", "android-ready", "game-ready"}
Opened   == {"observer-ready", "fingerprint", "restart-game", "restart-android",
             "adb-offline", "adb-recovered", "android-recovered", "game-recovered"}

FewForwards ==
    /\ forwards <= 2
    /\ runner.at \in Unopened => forwards = 0
    /\ runner.at = "observer-ready" /\ runner.pc = "phase" => forwards = 0
    /\ runner.at \in Opened => forwards <= 1
    /\ runner.at = "observer-recovered" /\ runner.pc = "phase" => forwards <= 1

Bounded ==
    /\ device.boots <= MaxBoots /\ runner.next <= NSettings + 1
    /\ touched \in BOOLEAN
    /\ manifest \in Maybe([pass : BOOLEAN, cleanupFailure : BOOLEAN, changed : BOOLEAN])
    /\ FewForwards

LEMMA ForwardsOpened ==
    ASSUME Types, [Next]_vars
    PROVE  forwards' <= forwards \/ OpenBridge
<1>1. forwards \in Nat /\ Removed \in Nat /\ Removed <= forwards /\ 0 <= forwards
  BY DEF Types, Removed
<1>2. CASE UNCHANGED forwards
  BY <1>1, <1>2
<1>3. CASE GoesDown \/ EmulatorDies \/ ListenFails \/ Restart \/ CloseObserver \/ Halt
  BY <1>1, <1>3 DEF GoesDown, EmulatorDies, ListenFails, Restart, CloseObserver, Halt
<1>4. ASSUME NEW d, NEW next, Deliver(d, next)
      PROVE  UNCHANGED forwards
  BY <1>4 DEF Deliver
<1>5. CASE WriteSetting \/ ForceStop \/ StartGame \/ Reboot
  BY <1>2, <1>4, <1>5 DEF WriteSetting, ForceStop, StartGame, Reboot, Only
<1> QED BY <1>2, <1>3, <1>5 DEF Next, Device, Phase, Stop, vars, GameDies, GameStarts,
        Boots, PhaseFails, ReadPhase, Start, WaitGame, Configure, Verify, Foreground,
        Listen, Compare, BeginStop, RestoreWrite, RestoreCheck, Report, Only

LEMMA FewForwardsNext ==
    ASSUME IInv, Ages, FewForwards, [Next]_vars
    PROVE  FewForwards'
<1>1. Types /\ Types' /\ forwards \in Nat /\ forwards' \in Nat
  BY StepInv DEF IInv, Types
<1>2. CASE OpenBridge
  <2>1. /\ runner.pc = "phase" /\ runner.at \in {"observer-ready", "observer-recovered"}
        /\ forwards' = forwards + 1
    BY <1>2 DEF OpenBridge, At
  <2>2. runner'.at = runner.at /\ runner'.pc # "phase"
    <3>1. CASE runner' = Failed
      BY <1>1, <3>1, FailedAt
    <3>2. CASE runner' = [Goto("listen") EXCEPT !.opening = device.game.pid]
      <4>1. Goto("listen") \in Runners /\ Goto("listen").pc = "listen"
            /\ Goto("listen").at = runner.at
        BY <1>1, GotoFacts DEF PCs, InPhase
      <4> QED BY <3>2, <4>1 DEF Runners
    <3> QED BY <1>2, <3>1, <3>2 DEF OpenBridge
  <2> QED BY <1>1, <2>1, <2>2 DEF FewForwards, Unopened, Unstarted, Opened
<1>3. CASE forwards' <= forwards
  <2>1. CASE runner'.at = runner.at /\ (runner'.pc = "phase" => runner.pc = "phase")
    BY <1>1, <1>3, <2>1 DEF FewForwards
  <2>2. CASE runner.at # "end" /\ runner'.at = After(runner.at)
    <3>1. runner.at \in Phases /\ config.recovery \in {"none", "game", "android"}
      BY <1>1, <2>2 DEF Types, Runners, Configs
    <3>2. runner'.at \in Unopened => runner.at \in Unopened
      BY <2>2, <3>1 DEF Phases, After, Unopened, Unstarted
    <3>3. runner'.at = "observer-ready" => runner.at \in Unopened
      BY <2>2, <3>1 DEF Phases, After, Unopened, Unstarted
    <3>4. runner'.at \in Opened \/ runner'.at = "observer-recovered" =>
            runner.at \in Opened \union Unopened
      BY <2>2, <3>1 DEF Phases, After, Unopened, Unstarted, Opened
    <3> QED BY <1>1, <1>3, <3>2, <3>3, <3>4 DEF FewForwards
  <2> QED BY <2>1, <2>2, RunnerProceeds DEF Proceeds
<1> QED BY <1>1, <1>2, <1>3, ForwardsOpened

\* Only a boot is a boot.
LEMMA BootsBounded ==
    ASSUME Types, device.boots <= MaxBoots, [Next]_vars
    PROVE  device'.boots <= MaxBoots
<1>1. device \in Devices /\ MaxBoots \in Nat /\ device.boots \in Nat
  BY QualificationAssumption DEF Types, Devices
<1>2. CASE UNCHANGED device
  BY <1>2
<1>3. CASE Boots
  <2>1. device.boots < MaxBoots /\ device'.boots = device.boots + 1
    BY <1>1, <1>3 DEF Boots, Devices
  <2> QED BY <1>1, <2>1
<1>4. ASSUME NEW n, NEW v
      PROVE  [device EXCEPT !.settings[n] = v].boots = device.boots
  BY <1>1 DEF Devices
<1>5. ASSUME NEW p
      PROVE  WithGame(p).boots = device.boots
  BY <1>1 DEF Devices, WithGame
<1>6. CASE GameDies \/ GameStarts \/ GoesDown \/ EmulatorDies \/ Halt
  BY <1>1, <1>2, <1>5, <1>6 DEF GameDies, GameStarts, GoesDown, EmulatorDies, Halt, Down,
     Devices
<1>7. CASE WriteSetting
  <2>1. UNCHANGED device \/ device' = [device EXCEPT !.settings[runner.next] = "angle"]
    BY <1>7, DeliverIs DEF WriteSetting, Only
  <2>2. [device EXCEPT !.settings[runner.next] = "angle"].boots = device.boots
    BY <1>4
  <2> QED BY <1>2, <2>1, <2>2
<1>8. CASE RestoreWrite
  <2> DEFINE d == [device EXCEPT !.settings[runner.next] =
                                    runner.restoring[runner.next]]
  <2>1. UNCHANGED device \/ device' = d
    BY <1>8 DEF RestoreWrite
  <2>2. d.boots = device.boots
    BY <1>4
  <2> QED BY <1>2, <2>1, <2>2
<1>9. CASE ForceStop \/ Reboot
  BY <1>1, <1>9, DeliverIs DEF ForceStop, Reboot, Devices
<1>10. CASE StartGame
  <2>1. UNCHANGED device \/ \E p \in Pids : device' = WithGame(p)
    BY <1>10, DeliverIs DEF StartGame
  <2> QED BY <1>2, <1>5, <2>1
<1> QED BY <1>2, <1>3, <1>6, <1>7, <1>8, <1>9, <1>10
        DEF Next, Device, Phase, Stop, vars, PhaseFails, ReadPhase, Start, WaitGame,
            Configure, Verify, Foreground, OpenBridge, Listen, ListenFails, Restart,
            Compare, BeginStop, RestoreCheck, CloseObserver, Report, Only

LEMMA TouchedBoolean ==
    ASSUME touched \in BOOLEAN, [Next]_vars
    PROVE  touched' \in BOOLEAN
<1>1. ASSUME NEW d, NEW next, Deliver(d, next)
      PROVE  touched' = TRUE
  BY <1>1 DEF Deliver
<1>2. CASE WriteSetting \/ ForceStop \/ StartGame \/ Reboot
  BY <1>1, <1>2 DEF WriteSetting, ForceStop, StartGame, Reboot, Only
<1>3. CASE Start
  BY <1>3 DEF Start
<1>4. CASE UNCHANGED touched
  BY <1>4
<1> QED BY <1>2, <1>3, <1>4 DEF Next, Device, Phase, Stop, vars, GameDies, GameStarts,
        GoesDown, Boots, EmulatorDies, Others, PhaseFails, ReadPhase, WaitGame, Configure,
        Verify, Foreground, OpenBridge, Listen, ListenFails, Restart, Compare, BeginStop,
        RestoreWrite, RestoreCheck, CloseObserver, Halt, Report, Only

LEMMA ManifestTyped ==
    ASSUME Types, [Next]_vars,
           manifest \in Maybe([pass : BOOLEAN, cleanupFailure : BOOLEAN, changed : BOOLEAN])
    PROVE  manifest' \in Maybe([pass : BOOLEAN, cleanupFailure : BOOLEAN,
                                changed : BOOLEAN])
<1>1. CASE Report
  <2>1. runner.cleanupFailure \in BOOLEAN /\ runner.instance \in BOOLEAN
        /\ runner.failure \in BOOLEAN /\ config.launch \in BOOLEAN
    BY DEF Types, Runners, Configs
  <2>2. PICK downgraded \in BOOLEAN :
          manifest' = [pass |-> ~runner.failure /\ ~runner.cleanupFailure /\ ~downgraded,
                       cleanupFailure |-> runner.cleanupFailure,
                       changed |-> (runner.instance /\ config.backend = "kvm")
                                   \/ config.launch]
    BY <1>1 DEF Report
  <2>3. /\ (~runner.failure /\ ~runner.cleanupFailure /\ ~downgraded) \in BOOLEAN
        /\ ((runner.instance /\ config.backend = "kvm") \/ config.launch) \in BOOLEAN
    OBVIOUS
  <2> QED BY <2>1, <2>2, <2>3 DEF Maybe
<1>2. ASSUME NEW d, NEW next, Deliver(d, next)
      PROVE  UNCHANGED manifest
  BY <1>2 DEF Deliver
<1>3. CASE WriteSetting \/ ForceStop \/ StartGame \/ Reboot
  BY <1>2, <1>3 DEF WriteSetting, ForceStop, StartGame, Reboot, Only
<1>4. CASE UNCHANGED manifest
  BY <1>4
<1> QED BY <1>1, <1>3, <1>4 DEF Next, Device, Phase, Stop, vars, GameDies, GameStarts,
        GoesDown, Boots, EmulatorDies, Others, PhaseFails, ReadPhase, Start, WaitGame,
        Configure, Verify, Foreground, OpenBridge, Listen, ListenFails, Restart, Compare,
        BeginStop, RestoreWrite, RestoreCheck, CloseObserver, Halt, Only

LEMMA BoundedInit == Init => Bounded
<1> SUFFICES ASSUME Init PROVE Bounded
  OBVIOUS
<1>1. /\ runner.pc = "phase" /\ runner.at = "probe-host" /\ runner.next = 1
      /\ forwards = 0 /\ manifest = None /\ touched = FALSE /\ device.boots = 0
  BY DEF Init
<1>2. {NSettings, MaxBoots} \subseteq Nat
  BY QualificationAssumption
<1>3. device.boots <= MaxBoots /\ runner.next <= NSettings + 1
  BY <1>1, <1>2
<1>4. FewForwards
  BY <1>1 DEF FewForwards, Opened
<1> QED BY <1>1, <1>3, <1>4 DEF Bounded, Maybe

LEMMA BoundedNext == IInv /\ Ages /\ Bounded /\ [Next]_vars => Bounded'
<1> SUFFICES ASSUME IInv, Ages, Bounded, [Next]_vars PROVE Bounded'
  OBVIOUS
<1>1. runner'.next <= NSettings + 1
  <2>1. runner.next \in Nat /\ NSettings \in Nat
    BY QualificationAssumption DEF IInv, Types, Runners
  <2> QED BY <2>1, RunnerProceeds DEF Bounded, Proceeds
<1>2. device'.boots <= MaxBoots /\ touched' \in BOOLEAN
  BY BootsBounded, TouchedBoolean DEF IInv, Bounded
<1>3. FewForwards' /\ manifest' \in Maybe([pass : BOOLEAN, cleanupFailure : BOOLEAN,
                                           changed : BOOLEAN])
  BY FewForwardsNext, ManifestTyped DEF IInv, Bounded
<1> QED BY <1>1, <1>2, <1>3 DEF Bounded

LEMMA BoundedInvariance == Spec => []Bounded
BY BoundedInit, BoundedNext, Invariance, AgesInvariance, PTL DEF Spec

\* The state has its type; in particular a run never holds more than two forwards,
\* the ones of its two waits for the observer.
THEOREM TypeCorrect == Spec => []TypeOK
<1>1. IInv /\ Ages /\ Bounded => TypeOK
  <2> SUFFICES ASSUME IInv, Ages, Bounded PROVE TypeOK
    OBVIOUS
  <2>1. {NSettings, MaxBoots} \subseteq Nat
    BY QualificationAssumption
  <2>2. device \in [up : BOOLEAN, rebooting : BOOLEAN, boots : 0..MaxBoots,
                    settings : Routings, game : Maybe(Games), games : 0..MaxGames]
    BY <2>1 DEF IInv, Types, Devices, Bounded
  <2>3. runner \in [pc : InPhase \union Stopping \union {"report", "done"},
                    at : Phases \union {"end"}, next : 1..(NSettings + 1),
                    opening : Maybe(Pids), restoring : Maybe(Routings),
                    instance : BOOLEAN, failure : BOOLEAN, unrestored : BOOLEAN,
                    cleanupFailure : BOOLEAN]
    BY <2>1 DEF IInv, Types, Runners, PCs, Bounded
  <2>4. forwards \in 0..2
    BY DEF IInv, Types, Bounded, FewForwards
  <2>5. /\ manifest \in Maybe([pass : BOOLEAN, cleanupFailure : BOOLEAN,
                               changed : BOOLEAN])
        /\ touched \in BOOLEAN
    BY DEF Bounded
  <2>6. seen \in [baseline : Maybe(Games), recovered : Maybe(Games), game : Maybe(Pids)]
    BY DEF Ages, SeenFits
  <2> QED BY <2>2, <2>3, <2>4, <2>5, <2>6 DEF IInv, Types, TypeOK
<1> QED BY <1>1, Invariance, AgesInvariance, BoundedInvariance, PTL
=============================================================================
