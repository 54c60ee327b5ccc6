----------------------------- MODULE MCModelStore ------------------------------
(* Small instances of ModelStore: m1 stands for a sherpa-onnx model, w for   *)
(* the whisper.cpp model that also needs the configured CLI.                 *)
EXTENDS ModelStore

CONSTANTS m1, w, c1, c2

OneModel   == {m1}
TwoModels  == {m1, w}
NoCli      == {}
Whisper    == {w}
OneCaller  == {c1}
TwoCallers == {c1, c2}
================================================================================
