----------------------------- MODULE MCMsgLooper -----------------------------
(* Instance of MsgLooper for TLC: the handlers and the stopping threads. *)
EXTENDS MsgLooper

CONSTANTS h1, h2, s1, s2

MCHandlers == {h1, h2}
MCStoppers == {s1, s2}

==============================================================================
