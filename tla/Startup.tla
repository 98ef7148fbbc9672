------------------------------ MODULE Startup ------------------------------
(***************************************************************************)
(* One launch of HoldToSpeak after another: main from the settings file to *)
(* the running pipeline, the acquisition of the model on the way, the      *)
(* engine's own start, the fatal exits, and the ways out: the graceful     *)
(* quit of the main thread and the console handler, which runs on a thread *)
(* of its own beside it.  Between two launches the user edits the files.   *)
(***************************************************************************)
EXTENDS ModelStore, Config

CONSTANTS
    SettingsFiles, HotkeyFiles, \* what the user may make of the two files
    CommandLines,               \* what the program may be started with
    Attempts,   \* ATTEMPTS of pin_beside_exe
    MaxTicks    \* polls of the console handler before it gives up

ASSUME FilesAssumption ==
    /\ SettingsFiles \subseteq Seq([key : STRING, val : STRING])
    /\ HotkeyFiles \subseteq Seq([key : STRING, val : Seq(STRING)])
ASSUME AttemptsAssumption == Attempts \in Nat \ {0} /\ MaxTicks \in Nat

VARIABLES
    main,      \* where the main thread stands
    settings,  \* {} or {the lines of settings.toml}
    hotkeys,   \* {} or {the lines of hotkeys.toml}
    setup,     \* {} or {what main goes by, from the settings and the command line}
    hook,      \* {} or {what Win32Hotkey::start was given}
    runKey,    \* the Run entry exists
    spawns,    \* attempts to start the engine that failed in this launch
    engine,    \* the engine process: "none", "pin", "load", "ready"
    loads,     \* attempts of the engine to load onnxruntime.dll
    quit,      \* a Quit is in the pipeline's channel
    handler,   \* the console handler: "none", "installed", "polling"
    ticks,     \* its polls
    done,      \* shutdown_done
    tray,      \* the tray thread: "none", "spawned", "window", "icon"
    icon       \* the shell shows the icon

disk == <<part, staging, dir, step, recv, online>>
files == <<settings, hotkeys>>
config == <<files, runKey, setup, hook>>
child == <<spawns, engine, loads>>
exits == <<quit, handler, ticks, done>>
shell == <<tray, icon>>
life == <<main, config, child, exits, shell>>
vars == <<store, life>>

TypeOK ==
    /\ StoreTypeOK
    /\ main \in {"gone", "settings", "autostart", "args", "model", "dictionary", "spawn",
                 "capture", "wire", "handler", "tray", "serve", "busy", "drop", "delete", "fatal"}
    /\ settings \in {{}, {Template}} \union {{f} : f \in SettingsFiles}
    /\ hotkeys \in {{}} \union {{f} : f \in HotkeyFiles}
    /\ Cardinality(setup) <= 1 /\ Cardinality(hook) <= 1
    /\ \A h \in hook : Len(h.chords) = Len(h.actions) /\ h.ptt # {}
    /\ spawns \in 0..2 /\ loads \in 0..(Attempts - 1) /\ ticks \in 0..MaxTicks
    /\ engine \in {"none", "pin", "load", "ready"}
    /\ handler \in {"none", "installed", "polling"}
    /\ tray \in {"none", "spawned", "window", "icon"}
    /\ {runKey, quit, done, icon} \subseteq BOOLEAN

\* What a process leaves behind when it ends: files, the registry, an icon.
Fresh ==
    /\ spawns' = 0 /\ engine' = "none" /\ loads' = 0
    /\ quit' = FALSE /\ handler' = "none" /\ ticks' = 0 /\ done' = FALSE /\ tray' = "none"
    /\ setup' = {} /\ hook' = {}

Init ==
    /\ StoreInit
    /\ main = "gone" /\ runKey = FALSE
    /\ settings = {} /\ hotkeys = {} /\ setup = {} /\ hook = {}
    /\ spawns = 0 /\ engine = "none" /\ loads = 0
    /\ quit = FALSE /\ handler = "none" /\ ticks = 0 /\ done = FALSE
    /\ tray = "none" /\ icon = FALSE

\* The main thread moves on and nothing else changes.
Go(from, to) == main = from /\ main' = to
Others == UNCHANGED <<config, child, exits, shell>>

----------------------------------------------------------------------------
(* main, up to the pipeline.                                               *)

Launch ==
    /\ Go("gone", "settings")
    /\ Fresh
    /\ step' = "idle" /\ online' = FALSE
    /\ UNCHANGED <<part, staging, dir, recv, faults, files, runKey, icon>>

\* The lines of a file; a file that is not there has none.
Lines(file) == IF file = {} THEN <<>> ELSE CHOOSE f \in file : TRUE
\* ensure_template never overwrites; a file that cannot be written is no reason
\* not to start.
EnsureTemplate ==
    /\ Go("settings", "autostart")
    /\ \/ settings' = (IF settings = {} THEN {Template} ELSE settings) /\ UNCHANGED faults
       \/ settings = {} /\ UNCHANGED settings /\ Fault
    /\ setup' = {FromSettings(LoadSettings(Lines(settings')))}
    /\ UNCHANGED <<disk, hotkeys, runKey, hook, child, exits, shell>>

\* The entry below HKCU's Run key; writing or deleting it can fail, and deleting
\* one that is not there is no failure.
RunEntry == runKey
SetRunEntry(on) ==
    \/ runKey' = on /\ UNCHANGED faults
    \/ UNCHANGED runKey /\ Fault

\* apply_autostart: the settings file is the source of truth; failing is reported.
ApplyAutostart ==
    /\ Go("autostart", "args")
    /\ \E s \in setup :
        IF RunEntry = s.autostart THEN UNCHANGED <<runKey, faults>> ELSE SetRunEntry(s.autostart)
    /\ UNCHANGED <<disk, files, setup, hook, child, exits, shell>>

\* A typo in --sidecar ends the launch; a model directory on the command line
\* needs no acquisition.
Arguments ==
    /\ main = "args"
    /\ \E args \in CommandLines, from \in setup :
        LET parsed == ParseArgs(args, from)
        IN  IF Startable(parsed)
            THEN /\ main' = IF parsed.dir THEN "dictionary" ELSE "model"
                 /\ setup' = {parsed}
                 /\ UNCHANGED <<faults, child, exits, tray, hook>>
            ELSE main' = "gone" /\ Fault /\ Fresh
    /\ step' = IF main' = "model" THEN "check" ELSE "idle"
    /\ UNCHANGED <<part, staging, dir, recv, online, files, runKey, icon>>

\* A directory in the environment always spares the store, a checkout's copy
\* does while nothing is installed.
ModelElsewhere == Go("model", "dictionary") /\ step = "check"
                  /\ UNCHANGED <<part, staging, dir, recv, online, faults>>
                  /\ step' = "idle" /\ Others
AcquireModel == main = "model" /\ EnsureModel /\ UNCHANGED life

ModelReady == Go("model", "dictionary") /\ step = "ok" /\ UNCHANGED store /\ Others
ModelFailed == Go("model", "fatal") /\ step = "error" /\ UNCHANGED store /\ Others

\* The dictionary is seeded or created empty; then the engine is started.
SpawnEngine ==
    /\ \/ Go("dictionary", "spawn")
       \/ main = "spawn" /\ engine = "none" /\ spawns = 1 /\ UNCHANGED main
    /\ engine' = "pin" /\ loads' = 0
    /\ UNCHANGED <<store, config, spawns, exits, shell>>

\* The engine said it is ready; one without a language model has no Email.
SpawnOk ==
    /\ Go("spawn", "capture") /\ engine = "ready"
    /\ setup' = {[s EXCEPT !.mode = IF @ = "email" /\ s.sidecar = "native" THEN "polish" ELSE @] :
                 s \in setup}
    /\ UNCHANGED <<store, files, runKey, hook, child, exits, shell>>

\* The second failure is fatal.
SpawnFails ==
    /\ main = "spawn" /\ engine = "none" /\ spawns = 2
    /\ main' = "fatal"
    /\ UNCHANGED store /\ Others

CaptureStarts == Go("capture", "wire") /\ UNCHANGED store /\ Others
CaptureFails == Go("capture", "fatal") /\ Fault /\ Others
                /\ UNCHANGED disk

\* The hotkeys are read and the hook is started ...
StartHotkeys ==
    /\ Go("wire", "handler")
    /\ \E hk \in {LoadHotkeys(Lines(hotkeys))} : \E chords \in {ChordsOf(hk)} :
        hook' = {StartHook(hk.ptt, chords)}
    /\ UNCHANGED <<store, files, runKey, setup, child, exits, shell>>

\* ... before the console handler is there.
InstallHandler ==
    /\ Go("handler", "tray")
    /\ handler' = "installed"
    /\ UNCHANGED <<store, config, child, quit, ticks, done, shell>>

SpawnTray ==
    /\ Go("tray", "serve")
    /\ tray' = "spawned"
    /\ UNCHANGED <<store, config, child, exits, icon>>

----------------------------------------------------------------------------
(* The engine's own start: pin_beside_exe, then the model.                 *)

EngineStep(to) ==
    /\ engine' = to
    /\ UNCHANGED <<disk, main, config, exits, shell>>

\* The copy beside the executable is loaded, bound and of the right version.
PinOk == engine = "pin" /\ EngineStep("load") /\ UNCHANGED <<faults, spawns, loads>>

PinOnceMore ==
    /\ engine = "pin" /\ loads < Attempts
    /\ Fault
    /\ loads' = loads + 1
    /\ EngineStep("pin") /\ UNCHANGED spawns
\* A load that fails is tried again, ATTEMPTS times in all.
PinRetry ==
    /\ engine = "pin" /\ loads < Attempts - 1
    /\ Fault
    /\ loads' = loads + 1
    /\ EngineStep("pin") /\ UNCHANGED spawns

Dies(at) ==
    /\ engine = at /\ main = "spawn"
    /\ Fault
    /\ spawns' = spawns + 1
    /\ EngineStep("none") /\ UNCHANGED loads

\* Another copy is bound to the name; or this one does not serve the API that
\* the recogniser asks for.
OtherCopy == Dies("pin")
WrongVersion == Dies("pin")
PinGivesUp == loads = Attempts - 1 /\ Dies("pin")

\* Files of the model are missing, or the recogniser takes the process down.
EngineDies == Dies("load")

EngineReady == engine = "load" /\ EngineStep("ready") /\ UNCHANGED <<faults, spawns, loads>>

----------------------------------------------------------------------------
(* Serving and leaving.                                                    *)

\* An utterance keeps the pipeline busy; nothing says for how long.
Busy == Go("serve", "busy") /\ ~quit /\ UNCHANGED store /\ Others
BusyEnds == Go("busy", "serve") /\ UNCHANGED store /\ Others

\* Quit: hotkey, tray, console command or the handler.
AskQuit ==
    /\ main \in {"serve", "busy"} /\ ~quit
    /\ quit' = TRUE
    /\ UNCHANGED <<store, main, config, child, handler, ticks, done, shell>>

TakeQuit == Go("serve", "drop") /\ quit /\ UNCHANGED store /\ Others

\* Sidecar::drop ends the engine; then shutdown_done is set.
DropPipeline ==
    /\ Go("drop", "delete")
    /\ engine' = "none" /\ done' = TRUE
    /\ UNCHANGED <<store, config, spawns, loads, quit, handler, ticks, shell>>

\* NIM_DELETE does nothing before the tray thread has stored its window.
DeleteIcon == icon' = (icon /\ tray \in {"none", "spawned"})

\* delete_icon, and the process ends with its main thread.
LeaveMain ==
    /\ Go("delete", "gone")
    /\ DeleteIcon /\ Fresh
    /\ UNCHANGED <<store, files, runKey>>

\* The process exits; the engine, if there is one, reads the end of its input.
FatalExit ==
    /\ Go("fatal", "gone")
    /\ Fresh
    /\ UNCHANGED <<store, files, runKey, icon>>

\* fatal waits for the Enter that somebody may press on a console of its own ...
FatalEnter == FatalExit

\* ... but no longer than FATAL_PAUSE_SECS; without such a console, not at all.
FatalTimeout == FatalExit

\* Ctrl+C, or the console is closed.
Close ==
    /\ handler = "installed"
    /\ handler' = "polling" /\ quit' = TRUE
    /\ UNCHANGED <<store, main, config, child, ticks, done, shell>>

Poll ==
    /\ handler = "polling" /\ ~done /\ ticks < MaxTicks
    /\ ticks' = ticks + 1
    /\ UNCHANGED <<store, main, config, child, quit, handler, done, shell>>

\* Done, or polled often enough.
PollUntilDone == done
PollOver == done \/ ticks = MaxTicks
LeaveHandler ==
    /\ handler = "polling" /\ PollOver
    /\ main' = "gone"
    /\ DeleteIcon /\ Fresh
    /\ UNCHANGED <<store, files, runKey>>

TrayWindow == tray = "spawned" /\ tray' = "window" /\ UNCHANGED <<store, icon>>
              /\ UNCHANGED <<main, config, child, exits>>
TrayIcon == tray = "window" /\ tray' = "icon" /\ icon' = TRUE /\ UNCHANGED store
            /\ UNCHANGED <<main, config, child, exits>>

\* The process is killed at any step; what it wrote stays, in the order it was
\* written.
Killed ==
    /\ main # "gone" /\ Fault
    /\ main' = "gone" /\ Fresh
    /\ UNCHANGED <<disk, files, runKey, icon>>

\* The user edits or deletes a file between two launches.
EditFiles ==
    /\ main = "gone" /\ Fault
    /\ \/ settings' \in ({{}} \union {{f} : f \in SettingsFiles}) \ {settings} /\ UNCHANGED hotkeys
       \/ hotkeys' \in ({{}} \union {{f} : f \in HotkeyFiles}) \ {hotkeys} /\ UNCHANGED settings
    /\ UNCHANGED <<disk, main, runKey, setup, hook, child, exits, shell>>

MainThread ==
    \/ Launch \/ EnsureTemplate \/ ApplyAutostart \/ Arguments \/ AcquireModel \/ ModelElsewhere
    \/ ModelReady \/ ModelFailed \/ SpawnEngine \/ SpawnOk \/ SpawnFails
    \/ CaptureStarts \/ CaptureFails \/ StartHotkeys \/ InstallHandler \/ SpawnTray
    \/ TakeQuit \/ DropPipeline \/ LeaveMain \/ FatalTimeout
Engine == PinOk \/ PinRetry \/ OtherCopy \/ WrongVersion \/ PinGivesUp \/ EngineDies \/ EngineReady
Handler == Poll \/ LeaveHandler
Tray == TrayWindow \/ TrayIcon
User == Busy \/ BusyEnds \/ AskQuit \/ Close \/ FatalEnter \/ EditFiles

Next == MainThread \/ Engine \/ Handler \/ Tray \/ User \/ Killed

Spec == Init /\ [][Next]_vars

\* The scheduler runs every thread that can run, and the user launches the
\* program again; nothing is assumed of how long an utterance takes.
FairSpec ==
    Spec /\ WF_vars(MainThread) /\ WF_vars(Engine) /\ WF_vars(Handler) /\ WF_vars(Tray)

----------------------------------------------------------------------------
(* nib-models: "an interrupted run can never leave a half-extracted model   *)
(* that later looks present": whatever is taken for an installed model has *)
(* every file of it, wherever earlier launches were cut short.             *)
InstalledComplete == LooksInstalled => dir = {Files}

(* The network is used only while no model is installed: from then on every *)
(* launch stays offline, also one after a launch that ended before it had  *)
(* cleaned up.                                                             *)
OfflineOnceInstalled == [][online' /\ ~online => ~LooksInstalled]_vars

(* A user who keeps fetching gets the model, once the faults are over: no  *)
(* partial, oversized or substituted download, and no failed install,      *)
(* leaves the directory in a state that a retry cannot get out of.         *)
RetriesSucceed == []<>(main = "model" /\ step = "fetch") => <>LooksInstalled

(* hotkeys.toml keeps its word: while the program serves, every chord the   *)
(* hook knows carries the action of the last line for it that means        *)
(* anything, or else the default, and a chord that was turned off is gone, *)
(* whatever the files held and in which order the others were turned off.  *)
Means(line) ==
    \/ line.val \in {<<"off">>, <<"none">>, <<>>}
    \/ ParseCombo(line.val).mods # {} /\ ParseCombo(line.val).key # NoKey
Sets(line, slot) == line.key \in DOMAIN SlotOf /\ SlotOf[line.key] = slot /\ Means(line)
Unset(slot) ==
    <<"ctrl", "alt",
      CASE slot = "cycle_mode" -> "m" [] slot = "cycle_style" -> "o" [] OTHER -> "q">>
ChosenOf(lines, slot) ==
    LET last == SelectLastInSeq(lines, LAMBDA l : Sets(l, slot))
    IN  IF last = 0 THEN Unset(slot) ELSE lines[last].val
Chosen(slot) == ChosenOf(Lines(hotkeys), slot)
ChordMeaning ==
    \A h \in hook : \A slot \in ToSet(Slots) :
        {h.chords[i] : i \in {j \in DOMAIN h.chords : h.actions[j] = slot}} =
        (IF ParseCombo(Chosen(slot)).mods = {} THEN {} ELSE {ParseCombo(Chosen(slot))})

(* settings.rs: "a typo degrades one setting": a value that means nothing   *)
(* leaves every other setting, the numbers and the autostart among them,   *)
(* as it would be without that line.  Its own is what an earlier line said *)
(* where the value is parsed when it is read, the default where it is      *)
(* looked up afterwards, and Polish where it is the mode (Mode::parse).    *)
Good(line) ==
    CASE line.key = "mode" -> line.val \in {"raw", "auto", "tidy", "email", "polish"}
      [] line.key \in {"overlay", "autostart"} ->
            line.val \in {"true", "yes", "on", "1", "false", "no", "off", "0"}
      [] line.key = "silence_rms" -> line.val \in Numbers
      [] line.key = "overlay_style" -> line.val \in {"bars", "wave", "volt", "hud"}
      [] line.key = "sidecar" -> line.val \in {"native", "python"}
      [] OTHER -> TRUE
GoodLines(lines) == KeepIn(lines, {l \in ToSet(lines) : Good(l)})
Default == FromSettings(DefaultSettings)
FieldOf == [mode |-> "mode", overlay_style |-> "style", sidecar |-> "sidecar"]
TypoDegradesOne ==
    main = "autostart" =>
        LET lines == Lines(settings)
            clean == FromSettings(LoadSettings(GoodLines(lines)))
            fallback == [Default EXCEPT !.mode = "polish"]
            typos == {lines[i].key : i \in {j \in DOMAIN lines : ~Good(lines[j])}}
        IN  \A s \in setup : \A f \in DOMAIN s :
                \/ s[f] = clean[f]
                \/ s[f] = fallback[f] /\ \E k \in typos \cap DOMAIN FieldOf : FieldOf[k] = f

(* The template that is written as settings.toml: "a bad value falls back   *)
(* to the default": whatever the lines that mean nothing say, a setting is *)
(* the default or what the others make it.                                 *)
BadValuesFallBack ==
    main = "autostart" =>
        \A s \in setup : \A f \in DOMAIN s :
            s[f] \in {Default[f], FromSettings(LoadSettings(GoodLines(Lines(settings))))[f]}

(* A fatal error and a closing console end the process, also when nobody   *)
(* reads the console and when the pipeline is busy for ever.               *)
NothingHangs == (main = "fatal" \/ handler = "polling") ~> (main = "gone")
=============================================================================
