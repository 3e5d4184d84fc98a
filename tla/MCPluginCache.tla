--------------------------- MODULE MCPluginCache ---------------------------
(* One text, in a language that starts at epoch 0 and may be deleted and   *)
(* added again.                                                            *)
EXTENDS PluginCache, TLC

CONSTANTS s1, de

OneLanguage == s1 :> de
NeverAdvanced == de :> 0
OneEdit == <<s1>>
=============================================================================
