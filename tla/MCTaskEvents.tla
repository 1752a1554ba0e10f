---------------------------- MODULE MCTaskEvents -----------------------------
(* Instance of TaskEvents for TLC. *)
EXTENDS TaskEvents

CONSTANTS l1, l2

MCListeners == {l1, l2}

==============================================================================
