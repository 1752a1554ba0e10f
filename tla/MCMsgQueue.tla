----------------------------- MODULE MCMsgQueue ------------------------------
(* Instance of MsgQueue for TLC: names of the threads and message objects. *)
EXTENDS MsgQueue

CONSTANTS m1, m2, m3, m4, s1, s2, r1, r2

MCMsgs == {m1, m2, m3, m4}
MCSenders == {s1, s2}
MCReceivers == {r1, r2}

==============================================================================
