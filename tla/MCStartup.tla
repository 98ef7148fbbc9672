----------------------------- MODULE MCStartup -----------------------------
(* A model of two files, the sentinel among them, in an archive of two     *)
(* chunks, and files and command lines with the telling lines: values that *)
(* mean nothing, a chord turned off, a later line against an earlier one.  *)
EXTENDS Startup

MCFiles == {"tokens.txt", "encoder"}

Line(k, v) == [key |-> k, val |-> v]
MCSettings == {
    <<Line("mode", "email"), Line("overlay", "maybe"), Line("silence_rms", "0.01")>>,
    <<Line("overlay", "off"), Line("overlay", "maybe"), Line("autostart", "yes"), Line("mode", "casual")>>,
    <<Line("sidecar", "pyton"), Line("overlay_style", "volt"), Line("silence_rms", "loud")>>,
    <<Line("sidecar", "python"), Line("autostart", "yes"), Line("autostart", "sure")>>}
MCHotkeys == {
    <<Line("cycle_mode", <<"off">>), Line("quit", <<"ctrl", "alt">>)>>,
    <<Line("cycle", <<"ctrl", "shift", "f5">>), Line("cycle_style", <<>>), Line("style", <<"junk">>)>>,
    <<Line("ptt", <<"super", "control">>), Line("ptt", <<"k">>), Line("quit", <<"q", "alt", "k">>)>>,
    <<Line("cycle_overlay", <<"none">>), Line("style", <<"win", "space">>), Line("cycle_mode", <<"m">>)>>}
MCCommandLines == {<<>>, <<"--sidecar", "nativ">>, <<"models", "--mode">>, <<"--mode", "raw">>}
=============================================================================
