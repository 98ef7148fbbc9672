------------------------------- MODULE Config -------------------------------
(***************************************************************************)
(* The user's two configuration files, hotkeys.toml and settings.toml, and *)
(* the command line: how main reads them, how the hotkeys become the       *)
(* indexed chords handed to the keyboard hook, and how the hook takes a    *)
(* binding apart again.  A file is a sequence of lines [key, val]; the     *)
(* value of a hotkey is the sequence of its parts between the plus signs.  *)
(***************************************************************************)
EXTENDS Naturals, Sequences, FiniteSets, SequencesExt, Lists

----------------------------------------------------------------------------
(* Combos.                                                                 *)

ModOrder == <<"ctrl", "alt", "shift", "win">>
ModVk == [ctrl |-> 17, alt |-> 18, shift |-> 16, win |-> 91]
NameToMod == [ctrl |-> "ctrl", control |-> "ctrl", alt |-> "alt", shift |-> "shift",
              win |-> "win", super |-> "win", meta |-> "win", cmd |-> "win"]
NameToVk == [k |-> 75, m |-> 77, o |-> 79, q |-> 81, f5 |-> 116, space |-> 32]
NoKey == 0

\* Parts that name neither a modifier nor a key are passed over, and the last
\* key counts.
ParseCombo(parts) ==
    LET named == SelectLastInSeq(parts, LAMBDA p : p \in DOMAIN NameToVk)
    IN  [mods |-> {NameToMod[p] : p \in ToSet(parts) \cap DOMAIN NameToMod},
         key |-> IF named = 0 THEN NoKey ELSE NameToVk[parts[named]]]

\* {} or {the virtual keys of the binding}.
BindingFromCombo(parts) ==
    LET c == ParseCombo(parts)
        held == KeepIn(ModOrder, c.mods)
    IN  IF c.mods = {} THEN {}
        ELSE {[i \in DOMAIN held |-> ModVk[held[i]]] \o
              (IF c.key = NoKey THEN <<>> ELSE <<c.key>>)}

\* "off", "none" and nothing at all clear a chord; a chord needs a modifier and
\* a main key; anything else leaves it alone.
SetChord(slot, parts) ==
    LET c == ParseCombo(parts)
    IN  IF parts \in {<<"off">>, <<"none">>, <<>>} THEN {}
        ELSE IF c.mods # {} /\ c.key # NoKey THEN BindingFromCombo(parts) ELSE slot

Slots == <<"cycle_mode", "cycle_style", "quit">>
DefaultHotkeys == [ptt |-> BindingFromCombo(<<"ctrl", "win">>),
                   cycle_mode |-> BindingFromCombo(<<"ctrl", "alt", "m">>),
                   cycle_style |-> BindingFromCombo(<<"ctrl", "alt", "o">>),
                   quit |-> BindingFromCombo(<<"ctrl", "alt", "q">>)]
SlotOf == [ptt |-> "ptt", cycle_mode |-> "cycle_mode", cycle |-> "cycle_mode",
           cycle_style |-> "cycle_style", cycle_overlay |-> "cycle_style",
           style |-> "cycle_style", quit |-> "quit"]

HotkeyLine(hk, line) ==
    IF line.key \notin DOMAIN SlotOf THEN hk
    ELSE LET s == SlotOf[line.key]
             b == BindingFromCombo(line.val)
         IN  [hk EXCEPT ![s] = IF s # "ptt" THEN SetChord(@, line.val)
                               ELSE IF b = {} THEN @ ELSE b]

LoadHotkeys(lines) == FoldLeft(HotkeyLine, DefaultHotkeys, lines)

\* Bindings and actions are built together, so that an unset chord leaves both.
ChordsDrift(hk) ==
    [bindings |-> LET set == KeepIn(Slots, {s \in DOMAIN hk : hk[s] # {}})
                  IN  [i \in DOMAIN set |-> CHOOSE b \in hk[set[i]] : TRUE],
     actions |-> Slots]
ChordsOf(hk) ==
    LET set == KeepIn(Slots, {s \in DOMAIN hk : hk[s] # {}})
    IN  [bindings |-> [i \in DOMAIN set |-> CHOOSE b \in hk[set[i]] : TRUE],
         actions |-> set]

\* The hook classifies the virtual keys once more.
ModBit(vk) ==
    CASE vk \in {17, 162, 163} -> "ctrl"
      [] vk \in {18, 164, 165} -> "alt"
      [] vk \in {16, 160, 161} -> "shift"
      [] vk \in {91, 92} -> "win"
      [] OTHER -> "none"
BindingModsKey(keys) ==
    LET main == SelectLastInSeq(keys, LAMBDA k : ModBit(k) = "none")
    IN  [mods |-> {ModBit(keys[i]) : i \in DOMAIN keys} \ {"none"},
         key |-> IF main = 0 THEN NoKey ELSE keys[main]]

MaxChords == 4
\* Win32Hotkey::start; what the hook and the forwarder work from.
StartHook(ptt, c) ==
    LET all == [i \in DOMAIN c.bindings |-> BindingModsKey(c.bindings[i])]
    IN  [ptt |-> BindingModsKey(CHOOSE b \in ptt : TRUE).mods,
         chords |-> SubSeq(all, 1, IF Len(all) < MaxChords THEN Len(all) ELSE MaxChords),
         actions |-> c.actions]

----------------------------------------------------------------------------
(* Settings.                                                               *)

DefaultSettings == [mode |-> "auto", overlay |-> TRUE, overlay_style |-> "hud",
                    silence_rms |-> "0.003", sidecar |-> "native", autostart |-> FALSE]

\* The template spells the defaults out.
Template == <<[key |-> "mode", val |-> "auto"], [key |-> "overlay", val |-> "true"],
              [key |-> "overlay_style", val |-> "hud"], [key |-> "silence_rms", val |-> "0.003"],
              [key |-> "sidecar", val |-> "native"], [key |-> "autostart", val |-> "false"]>>

ParseBoolLoose(v, default) == v \in {"true", "yes", "on", "1"}
ParseBool(v, default) ==
    IF v \in {"true", "yes", "on", "1"} THEN TRUE
    ELSE IF v \in {"false", "no", "off", "0"} THEN FALSE ELSE default

\* What parses as a number.
Numbers == {"0.003", "0.01"}

SettingLine(s, line) ==
    CASE line.key \in {"mode", "overlay_style", "sidecar"} -> [s EXCEPT ![line.key] = line.val]
      [] line.key \in {"overlay", "autostart"} -> [s EXCEPT ![line.key] = ParseBool(line.val, @)]
      [] line.key = "silence_rms" -> [s EXCEPT !.silence_rms = IF line.val \in Numbers THEN line.val ELSE @]
      [] OTHER -> s

LoadSettings(lines) == FoldLeft(SettingLine, DefaultSettings, lines)

ModeParse(v) ==
    IF v \in {"raw", "auto", "email"} THEN v ELSE IF v = "tidy" THEN "auto" ELSE "polish"
StyleIndex(v) == CASE v = "bars" -> 0 [] v = "wave" -> 1 [] v = "volt" -> 2 [] OTHER -> 3

\* What main takes over from the settings file.  silence is read and used by
\* nobody: the pipeline asks the environment variable NIB_SILENCE_RMS.
FromSettings(s) ==
    [mode |-> ModeParse(s.mode), overlay |-> s.overlay, style |-> StyleIndex(s.overlay_style),
     silence |-> s.silence_rms, sidecar |-> IF s.sidecar = "python" THEN "python" ELSE "native",
     autostart |-> s.autostart, dir |-> FALSE]

----------------------------------------------------------------------------
(* The command line: flags that take a value take the next argument,       *)
(* whatever it looks like.                                                 *)

WithValue == {"--mode", "--gpu-layers", "--overlay", "--sidecar"}

\* A typo must not silently start the wrong sidecar.
Startable(setup) == setup.sidecar \in {"native", "python"}

Flag(setup, flag, v) ==
    CASE flag = "--mode" -> [setup EXCEPT !.mode = ModeParse(v)]
      [] flag = "--overlay" -> [setup EXCEPT !.style = StyleIndex(v)]
      [] flag = "--sidecar" -> IF Startable(setup) THEN [setup EXCEPT !.sidecar = v] ELSE setup
      [] OTHER -> setup

Bare(setup, arg) ==
    IF arg = "--no-overlay" THEN [setup EXCEPT !.overlay = FALSE]
    ELSE IF arg \in {"--model-dir", "--verbose"} THEN setup ELSE [setup EXCEPT !.dir = TRUE]

ParseArgs(args, from) ==
    LET step(st, arg) ==
            IF st.flag # "" THEN [flag |-> "", setup |-> Flag(st.setup, st.flag, arg)]
            ELSE IF arg \in WithValue THEN [st EXCEPT !.flag = arg]
            ELSE [st EXCEPT !.setup = Bare(@, arg)]
        end == FoldLeft(step, [flag |-> "", setup |-> from], args)
    IN  \* only --sidecar insists on a value
        IF end.flag = "--sidecar" THEN [end.setup EXCEPT !.sidecar = ""] ELSE end.setup
=============================================================================
