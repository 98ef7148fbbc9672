------------------------------ MODULE MCDesktop ------------------------------
(* Ctrl, Win and one letter; the default push-to-talk binding.             *)
EXTENDS Desktop, TLC

MCKeys == {"c", "w", "m", "s"}
MCTouched == {"c", "w", "m"}
MCGroup == ("c" :> "ctrl") @@ ("w" :> "win") @@ ("m" :> "plain") @@ ("s" :> "shift")
MCPtt == {"ctrl", "win"}
MCChords == <<[mods |-> {"ctrl"}, key |-> "m", action |-> "mode"],
              [mods |-> {"win"}, key |-> "m", action |-> "style"]>>
MCChains == {<<"paste", "unicode">>, <<"paste", "alt", "unicode">>, <<"unicode", "paste">>}
=============================================================================
