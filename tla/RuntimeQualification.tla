------------------------ MODULE RuntimeQualification ------------------------
(***************************************************************************)
(* One RuntimeQualificationRunner.qualify() over the two backends that can  *)
(* run, external ADB and KVM: the phases, the game or Android recovery, the *)
(* cleanup, and the verdict (runtime_qualification.py,                      *)
(* runtime_backend_adb.py, runtime_backend_kvm.py).                         *)
(*                                                                         *)
(* An ADB command takes effect and succeeds, or is reported as failed (an   *)
(* exit code, a timeout), and then it may have taken effect all the same.   *)
(* Reads and waits have no effect; they may fail at any time, whatever the  *)
(* device is doing, and the phase with them.                                *)
(***************************************************************************)
EXTENDS Naturals

CONSTANTS
    NSettings,  \* the ANGLE settings, in the order they are written
    Pids,       \* process ids the device hands out, and hands out again
    MaxGames,   \* bound of the model: game processes started
    MaxBoots,   \* bound of the model: boots of the device
    None

ASSUME QualificationAssumption ==
    /\ {NSettings, MaxGames, MaxBoots} \subseteq Nat
    /\ MaxGames # 0
    /\ Pids # {} /\ None \notin Pids

VARIABLES
    config,     \* backend, launch_game, manage_angle_routing, recovery
    device,     \* what the device is doing, its settings and its game
    emulator,   \* whether the emulator process of this run is alive
    forwards,   \* ADB forwards of this run that are installed
    remembered, \* _original_angle_settings of the instance, or None
    bridge,     \* whether _bridges holds one for the instance
    runner,     \* where qualify() is
    seen,       \* what the observer and the game phases returned
    manifest,   \* the manifest, or None
    original,   \* history: the settings before the run
    touched     \* history: whether the run changed the device or started one

vars == <<config, device, emulator, forwards, remembered, bridge, runner, seen,
          manifest, original, touched>>
fixed == <<config, original>>

Numbers  == 1..NSettings
Routings == [Numbers -> {"own", "angle"}]
Routed   == [n \in Numbers |-> "angle"]       \* _expected_angle_settings
Maybe(S) == S \union {None}
Games    == [pid : Pids, number : 1..MaxGames]

Configs ==
    {c \in [backend : {"adb", "kvm"}, launch : BOOLEAN, manage : BOOLEAN,
            recovery : {"none", "game", "android"}] : c.manage => c.launch}

\* No settings are told from all settings.
ASSUME NoneAssumption == None \notin Routings

\* The phases of qualify(): the one after each, the first is "probe-host".
After(p) ==
    CASE p = "probe-host"        -> "resolve-artifacts"
      [] p = "resolve-artifacts" -> "provision"
      [] p = "provision"         -> "start"
      [] p = "start"             -> "adb-ready"
      [] p = "adb-ready"         -> "android-ready"
      [] p = "android-ready"     -> "game-ready"
      [] p = "game-ready"        -> "observer-ready"
      [] p = "observer-ready"    -> "fingerprint"
      [] p = "fingerprint" /\ config.recovery = "none"    -> "end"
      [] p = "fingerprint" /\ config.recovery = "game"    -> "restart-game"
      [] p = "fingerprint" /\ config.recovery = "android" -> "restart-android"
      [] p = "restart-game"       -> "game-recovered"
      [] p = "restart-android"    -> "adb-offline"
      [] p = "adb-offline"        -> "adb-recovered"
      [] p = "adb-recovered"      -> "android-recovered"
      [] p = "android-recovered"  -> "game-recovered"
      [] p = "game-recovered"     -> "observer-recovered"
      [] p = "observer-recovered" -> "fingerprint-recovered"
      [] p = "fingerprint-recovered" -> "end"

Phases == {"probe-host", "resolve-artifacts", "provision", "start", "adb-ready",
           "android-ready", "game-ready", "observer-ready", "fingerprint",
           "restart-game", "restart-android", "adb-offline", "adb-recovered",
           "android-recovered", "game-recovered", "observer-recovered",
           "fingerprint-recovered"}

InPhase  == {"phase", "configure", "write", "verify", "force-stop", "start-game",
             "foreground", "listen", "reboot"}
Stopping == {"stop", "restore", "close", "halt"}

TypeOK ==
    /\ config \in Configs /\ original \in Routings
    /\ device \in [up : BOOLEAN, rebooting : BOOLEAN, boots : 0..MaxBoots,
                   settings : Routings, game : Maybe(Games), games : 0..MaxGames]
    /\ emulator \in BOOLEAN
    /\ forwards \in 0..2
    /\ remembered \in Maybe(Routings)
    /\ bridge \in BOOLEAN
    /\ runner \in [pc : InPhase \union Stopping \union {"report", "done"},
                   at : Phases \union {"end"}, next : 1..(NSettings + 1),
                   opening : Maybe(Pids), restoring : Maybe(Routings), instance : BOOLEAN,
                   failure : BOOLEAN, unrestored : BOOLEAN, cleanupFailure : BOOLEAN]
    /\ seen \in [baseline : Maybe(Games), recovered : Maybe(Games), game : Maybe(Pids)]
    /\ manifest \in Maybe([pass : BOOLEAN, cleanupFailure : BOOLEAN, changed : BOOLEAN])
    /\ touched \in BOOLEAN

\* An external device runs, with or without the game; an emulator does not.
Init ==
    /\ config \in Configs /\ original \in Routings
    /\ \E game \in Maybe({[pid |-> p, number |-> 1] : p \in Pids}) :
        /\ config.backend = "kvm" => game = None
        /\ device = [up |-> config.backend = "adb", rebooting |-> FALSE, boots |-> 0,
                     settings |-> original, game |-> game,
                     games |-> IF game = None THEN 0 ELSE 1]
    /\ emulator = FALSE /\ forwards = 0 /\ remembered = None /\ bridge = FALSE
    /\ runner = [pc |-> "phase", at |-> "probe-host", next |-> 1, opening |-> None,
                 restoring |-> None, instance |-> FALSE, failure |-> FALSE,
                 unrestored |-> FALSE, cleanupFailure |-> FALSE]
    /\ seen = [baseline |-> None, recovered |-> None, game |-> None]
    /\ manifest = None /\ touched = FALSE

(***************************************************************************)
(* The device                                                              *)
(***************************************************************************)

Others == UNCHANGED <<fixed, remembered, bridge, runner, seen, manifest, touched>>

WithGame(p) == [device EXCEPT !.game = [pid |-> p, number |-> device.games + 1],
                              !.games = @ + 1]
Down == [device EXCEPT !.up = FALSE, !.rebooting = FALSE, !.game = None]

GameDies ==
    /\ device.game # None
    /\ device' = [device EXCEPT !.game = None]
    /\ Others /\ UNCHANGED <<emulator, forwards>>

\* Somebody else starts the game.
GameStarts ==
    /\ device.up /\ device.game = None /\ device.games < MaxGames
    /\ \E p \in Pids : device' = WithGame(p)
    /\ Others /\ UNCHANGED <<emulator, forwards>>

\* A reboot that was asked for takes its time; ADB drops the forwards of a
\* device that goes.
GoesDown ==
    /\ device.rebooting
    /\ device' = Down /\ forwards' = 0
    /\ Others /\ UNCHANGED emulator

Boots ==
    /\ ~device.up /\ (config.backend = "kvm" => emulator)
    /\ device.boots < MaxBoots
    /\ device' = [device EXCEPT !.up = TRUE, !.boots = @ + 1]
    /\ Others /\ UNCHANGED <<emulator, forwards>>

EmulatorDies ==
    /\ emulator
    /\ emulator' = FALSE /\ device' = Down /\ forwards' = 0
    /\ Others

(***************************************************************************)
(* Phases                                                                  *)
(***************************************************************************)

At(phases) == runner.pc = "phase" /\ runner.at \in phases
Recovering == runner.at \in {"game-recovered", "observer-recovered"}

Goto(pc)  == [runner EXCEPT !.pc = pc, !.next = 1]
NextPhase == [runner EXCEPT !.pc = "phase", !.at = After(@)]
\* The exception ends the phases; stop() is called when start() had returned.
Failed    == [runner EXCEPT !.failure = TRUE,
                            !.pc = IF runner.instance THEN "stop" ELSE "report"]

\* A command on the device: it takes effect, and its success is reported or not.
Deliver(d, next) ==
    /\ device.up
    /\ device' = d /\ touched' = TRUE
    /\ runner' \in {next, Failed}
    /\ UNCHANGED <<fixed, emulator, forwards, remembered, bridge, seen, manifest>>

Only(r) ==
    /\ runner' = r
    /\ UNCHANGED <<fixed, device, emulator, forwards, remembered, bridge, seen,
                   manifest, touched>>

\* A phase raises: a refusal, a mismatch, a timeout, a command without effect.
PhaseFails == runner.pc \in InPhase \ {"listen"} /\ Only(Failed)

\* Phases that read the host, the lock or the device, and change nothing.
\* wait_android_offline is one: any get-state that does not answer "device",
\* or does not answer in time, is the offline boundary.
ReadPhase ==
    /\ \/ At({"probe-host", "resolve-artifacts", "provision", "adb-offline"})
       \/ /\ At({"adb-ready", "android-ready", "adb-recovered", "android-recovered"})
          /\ device.up
       \/ At({"fingerprint", "fingerprint-recovered"}) /\ bridge /\ device.up
    /\ Only(NextPhase)

Start ==
    /\ At({"start"})
    /\ emulator' = (config.backend = "kvm")
    /\ touched' = emulator'
    /\ runner' = [NextPhase EXCEPT !.instance = TRUE]
    /\ UNCHANGED <<fixed, device, forwards, remembered, bridge, seen, manifest>>

\* Where a launch begins: with the routing, or with its verification.
ToLaunch == Goto(IF config.manage THEN "configure" ELSE "verify")

\* wait_game_ready; wait_recovered_game_ready after the game's own restart.
WaitGame ==
    /\ At({"game-ready", "game-recovered"})
    /\ Only(IF config.launch /\ ~(Recovering /\ config.recovery = "game")
            THEN ToLaunch ELSE Goto("foreground"))

\* Mutant: the settings are read, and kept, at every launch.
RememberAgain == device.settings
\* The settings found are kept once for an instance, before the first write.
Remember == IF remembered = None THEN device.settings ELSE remembered

Configure ==
    /\ runner.pc = "configure" /\ device.up
    /\ remembered' = Remember
    /\ runner' = Goto("write")
    /\ UNCHANGED <<fixed, device, emulator, forwards, bridge, seen, manifest, touched>>

WriteSetting ==
    /\ runner.pc = "write" /\ runner.next <= NSettings
    /\ LET n    == runner.next
           next == [runner EXCEPT !.next = @ + 1]
       IN  IF device.settings[n] = "angle"
           THEN Only(next)
           ELSE Deliver([device EXCEPT !.settings[n] = "angle"], next)

\* Mutant: only what this run has set is verified.
VerifyManaged ==
    /\ \/ runner.pc = "write" /\ runner.next > NSettings
       \/ runner.pc = "verify"
    /\ device.up /\ (config.manage => device.settings = Routed)
    /\ Only(Goto("force-stop"))

\* The route is read back, managed or not, before the game is stopped.
Verify ==
    /\ \/ runner.pc = "write" /\ runner.next > NSettings
       \/ runner.pc = "verify"
    /\ device.up /\ device.settings = Routed
    /\ Only(Goto("force-stop"))

ForceStop ==
    /\ runner.pc = "force-stop"
    /\ Deliver([device EXCEPT !.game = None], Goto("start-game"))

\* "am start -W": a game that is already running only comes to the front.
StartGame ==
    /\ runner.pc = "start-game"
    /\ LET next == IF runner.at = "restart-game" THEN NextPhase
                   ELSE Goto("foreground")
       IN  \/ device.game # None /\ Deliver(device, next)
           \/ /\ device.game = None /\ device.games < MaxGames
              /\ \E p \in Pids : Deliver(WithGame(p), next)

Foreground ==
    /\ runner.pc = "foreground"
    /\ device.up /\ device.game # None
    /\ seen' = IF Recovering THEN [seen EXCEPT !.game = device.game.pid] ELSE seen
    /\ runner' = NextPhase
    /\ UNCHANGED <<fixed, device, emulator, forwards, remembered, bridge, manifest, touched>>

\* wait_observer_ready opens its bridge: the forward names the game's pid.  A
\* forward that is reported as failed has no known port, and stays.
OpenBridge ==
    /\ At({"observer-ready", "observer-recovered"})
    /\ device.up /\ device.game # None
    /\ forwards' = forwards + 1
    /\ runner' \in {[Goto("listen") EXCEPT !.opening = device.game.pid], Failed}
    /\ UNCHANGED <<fixed, device, emulator, remembered, bridge, seen, manifest, touched>>

Listen ==
    /\ runner.pc = "listen"
    /\ device.up /\ device.game # None /\ device.game.pid = runner.opening
    /\ bridge' = TRUE
    /\ seen' = IF Recovering THEN [seen EXCEPT !.recovered = device.game]
               ELSE [seen EXCEPT !.baseline = device.game]
    /\ runner' = [NextPhase EXCEPT !.opening = None]
    /\ UNCHANGED <<fixed, device, emulator, forwards, remembered, manifest, touched>>

\* Removing a forward may fail with it removed, with it in place, or with the
\* device, and the forward, gone.
Removed == IF forwards > 0 THEN forwards - 1 ELSE 0

\* Mutant: the wait opens another bridge instead of giving up.
ListenRetries ==
    /\ runner.pc = "listen"
    /\ runner' = [Goto("phase") EXCEPT !.opening = None]
    /\ UNCHANGED <<fixed, device, emulator, forwards, remembered, bridge, seen, manifest,
                   touched>>

\* The wait raises and closes its bridge; a failure to close is a failure too.
ListenFails ==
    /\ runner.pc = "listen"
    /\ forwards' \in {forwards, Removed}
    /\ runner' = [Failed EXCEPT !.opening = None]
    /\ UNCHANGED <<fixed, device, emulator, remembered, bridge, seen, manifest, touched>>

\* restart_game and restart_android forget and close the bridge first.
Restart ==
    /\ At({"restart-game", "restart-android"})
    /\ bridge' = FALSE
    /\ \/ /\ forwards' = Removed
          /\ runner' = IF At({"restart-game"}) THEN ToLaunch ELSE Goto("reboot")
       \/ forwards' \in {forwards, Removed} /\ runner' = Failed
    /\ UNCHANGED <<fixed, device, emulator, remembered, seen, manifest, touched>>

Reboot ==
    /\ runner.pc = "reboot"
    /\ Deliver([device EXCEPT !.rebooting = TRUE], NextPhase)

\* Mutant: the pid of the first observation is not asked for.
SameGameAccepted == seen.recovered.pid = seen.game

\* After the last phase of a recovery the pids are compared.
Recovered == /\ seen.recovered.pid # seen.baseline.pid
             /\ seen.recovered.pid = seen.game

Compare ==
    /\ At({"end"})
    /\ config.recovery # "none" => Recovered
    /\ Only(Goto("stop"))

(***************************************************************************)
(* stop() and the manifest                                                 *)
(***************************************************************************)

\* _restore_angle_routing forgets the settings, then writes every one.
BeginStop ==
    /\ runner.pc = "stop"
    /\ remembered' = None
    /\ runner' = [Goto(IF remembered = None THEN "close" ELSE "restore")
                    EXCEPT !.restoring = remembered]
    /\ UNCHANGED <<fixed, device, emulator, forwards, bridge, seen, manifest, touched>>

\* A write that fails does not keep the others from being tried.
RestoreWrite ==
    /\ runner.pc = "restore" /\ runner.next <= NSettings
    /\ \E ok \in BOOLEAN :
        /\ runner' = [runner EXCEPT !.next = @ + 1, !.unrestored = @ \/ ~ok]
        /\ \/ /\ device.up
              /\ device' = [device EXCEPT !.settings[runner.next] =
                                            runner.restoring[runner.next]]
           \/ ~ok /\ UNCHANGED device
    /\ UNCHANGED <<fixed, emulator, forwards, remembered, bridge, seen, manifest, touched>>

\* Mutant: a failed write is not kept from the caller, a failed check is.
RestoreUnchecked ==
    /\ runner.pc = "restore" /\ runner.next > NSettings
    /\ Only(Goto("close"))

\* All are read back, and any failure is the cleanup's.
RestoreCheck ==
    /\ runner.pc = "restore" /\ runner.next > NSettings
    /\ \E ok \in BOOLEAN :
        /\ ok => /\ device.up /\ ~runner.unrestored
                 /\ device.settings = runner.restoring
        /\ Only([Goto("close") EXCEPT !.cleanupFailure = ~ok])

CloseObserver ==
    /\ runner.pc = "close"
    /\ bridge' = FALSE
    /\ LET next == Goto(IF config.backend = "kvm" THEN "halt" ELSE "report")
       IN  \/ /\ runner' = next
              /\ forwards' = IF bridge THEN Removed ELSE forwards
           \/ /\ bridge
              /\ runner' = [next EXCEPT !.cleanupFailure = TRUE]
              /\ forwards' \in {forwards, Removed}
    /\ UNCHANGED <<fixed, device, emulator, remembered, seen, manifest, touched>>

\* "emu kill", then stop_owned: wait, terminate, kill.  Only a process that
\* survives the kill makes it raise.
Halt ==
    /\ runner.pc = "halt"
    /\ \/ /\ emulator' = FALSE /\ device' = Down /\ forwards' = 0
          /\ runner' = Goto("report")
       \/ /\ emulator
          /\ runner' = [Goto("report") EXCEPT !.cleanupFailure = TRUE]
          /\ UNCHANGED <<device, emulator, forwards>>
    /\ UNCHANGED <<fixed, remembered, bridge, seen, manifest, touched>>

\* A pass needs a run without failure, a cleanup without failure, the locked
\* fingerprint and a complete trace; the last two may be missing.
Report ==
    /\ runner.pc = "report"
    /\ \E downgraded \in BOOLEAN :
        manifest' = [pass |-> ~runner.failure /\ ~runner.cleanupFailure /\ ~downgraded,
                     cleanupFailure |-> runner.cleanupFailure,
                     changed |-> (runner.instance /\ config.backend = "kvm")
                                 \/ config.launch]
    /\ runner' = Goto("done")
    /\ UNCHANGED <<fixed, device, emulator, forwards, remembered, bridge, seen, touched>>

Device == GameDies \/ GameStarts \/ GoesDown \/ Boots \/ EmulatorDies
Phase  == PhaseFails \/ ReadPhase \/ Start \/ WaitGame \/ Configure \/ WriteSetting
          \/ Verify \/ ForceStop \/ StartGame \/ Foreground \/ OpenBridge \/ Listen
          \/ ListenFails \/ Restart \/ Reboot \/ Compare
Stop   == BeginStop \/ RestoreWrite \/ RestoreCheck \/ CloseObserver \/ Halt \/ Report
Next   == Device \/ Phase \/ Stop
Spec   == Init /\ [][Next]_vars

(***************************************************************************)
(* Properties                                                              *)
(***************************************************************************)

\* A passing manifest is that of a run that left nothing behind: the settings
\* are those found, also after several launches, no forward is installed, and
\* no emulator runs.
PassLeavesNothing ==
    (manifest # None /\ manifest.pass) =>
        device.settings = original /\ forwards = 0 /\ ~emulator

\* Whatever failed, and wherever, the manifest of a run that left the routing
\* changed, or its emulator running, says that the cleanup failed.
LeftoversReported ==
    (manifest # None /\ ~manifest.cleanupFailure) =>
        device.settings = original /\ ~emulator

\* A recovery that passes has seen another game process after the restart than
\* before it, although process ids are used again and a reboot that is asked for
\* may come late.
RecoveredIsNew ==
    (manifest # None /\ manifest.pass /\ config.recovery # "none") =>
        seen.recovered.number > seen.baseline.number

\* The game is started by this run only under the expected routing.
LaunchIsRouted ==
    [][(runner.pc = "start-game" /\ runner'.pc # "start-game" /\ device' # device)
         => device.settings = Routed]_vars

\* "The manifest binds ... whether the runner changed runtime state": what the
\* documentation says of runtime_state_changed.
ChangeReported == (manifest # None /\ touched) => manifest.changed
=============================================================================
