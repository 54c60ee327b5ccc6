------------------------------ MODULE MCJobQueue -------------------------------
(* Instances of JobQueue for TLC.                                          *)
EXTENDS JobQueue, TLC

CONSTANTS w1, w2, f1, f2

OneWorker  == {w1}
TwoWorkers == {w1, w2}
OneRequest == {f1}
TwoRequests == {f1, f2}

(* The engine, once started, stays up: the suffix of a behaviour that the  *)
(* liveness properties speak about.                                        *)
SpecStaysUp == Init /\ [][Step]_vars /\ Fairness
================================================================================
