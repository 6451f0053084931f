--------------------------- MODULE MCAlertPipeline ---------------------------
(* Instances of AlertPipeline for TLC. *)
EXTENDS AlertPipeline, TLC

CONSTANTS e1, e2, e3, e4

NoSyslog == {}
OneSyslog == {e1}

\* Events that arrive by the same path are interchangeable.
HttpSymmetry == Permutations(Events)
=============================================================================
