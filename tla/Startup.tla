-------------------------------- MODULE Startup --------------------------------
(***************************************************************************)
(* lib.c: the modules of the library register themselves before main, and   *)
(* ylib_init and ylib_exit run their functions, one step each.              *)
(***************************************************************************)
EXTENDS Naturals, Sequences, FiniteSets

CONSTANT Modules   \* log, msg, msglooper, o, gp, threadex

VARIABLES
  hd,         \* _hd: the registered modules, the last one first
  phase,      \* "main", or the loop that runs
  pos,        \* m: the module the loop has come to
  last,       \* lastm
  up,         \* the modules whose init has run and whose exit has not
  strange     \* history: modules initialised twice, or exited when not up

libVars == <<hd, phase, pos, last, up, strange>>

InitLib == /\ hd = <<>> /\ phase = "loading" /\ pos = 0 /\ last = 0
           /\ up = {} /\ strange = {}

\* ylib_register_module, from a constructor.
Register(m) == /\ phase = "loading"
               /\ \A i \in DOMAIN hd : hd[i] # m
               /\ hd' = <<m>> \o hd
               /\ UNCHANGED <<phase, pos, last, up, strange>>

\* ylib_init begins; it is tried again when it has failed.
CallInit == /\ phase \in {"loading", "failed"}
            /\ phase' = "init" /\ pos' = 1 /\ last' = 1
            /\ UNCHANGED <<hd, up, strange>>

InitModule == /\ phase = "init" /\ pos <= Len(hd)
              /\ up' = up \union {hd[pos]}
              /\ strange' = strange \union (up \intersect {hd[pos]})
              /\ last' = pos /\ pos' = pos + 1
              /\ UNCHANGED <<hd, phase>>

ModuleFails == /\ phase = "init" /\ pos <= Len(hd)
               /\ last' = pos
               /\ phase' = "rollback" /\ pos' = 1
               /\ UNCHANGED <<hd, up, strange>>

InitReturns == /\ phase = "init" /\ pos > Len(hd)
               /\ phase' = "up"
               /\ UNCHANGED <<hd, pos, last, up, strange>>

\* The exit function of a module.
Down(m) == up' = up \ {m} /\ strange' = strange \union ({m} \ up)

\* A defect: the module that failed is exited as well.
RollbackPastLast == /\ phase = "rollback"
                    /\ IF pos <= last
                       THEN Down(hd[pos]) /\ pos' = pos + 1 /\ UNCHANGED phase
                       ELSE phase' = "failed" /\ UNCHANGED <<pos, up, strange>>
                    /\ UNCHANGED <<hd, last>>
\* The loop at the label fail.
Rollback == /\ phase = "rollback"
            /\ IF pos # last
               THEN Down(hd[pos]) /\ pos' = pos + 1 /\ UNCHANGED phase
               ELSE phase' = "failed" /\ UNCHANGED <<pos, up, strange>>
            /\ UNCHANGED <<hd, last>>

\* ylib_exit; free_modules leaves _hd as it is, and the library cannot be
\* initialised again.
CallExit == /\ phase = "up"
            /\ phase' = "exit" /\ pos' = 1
            /\ UNCHANGED <<hd, last, up, strange>>

ExitModule == /\ phase = "exit"
              /\ IF pos <= Len(hd)
                 THEN Down(hd[pos]) /\ pos' = pos + 1 /\ UNCHANGED phase
                 ELSE phase' = "over" /\ UNCHANGED <<pos, up, strange>>
              /\ UNCHANGED <<hd, last>>

NextLib == \/ \E m \in Modules : Register(m)
           \/ CallInit \/ InitModule \/ ModuleFails \/ InitReturns \/ Rollback
           \/ CallExit \/ ExitModule

LibSpec == InitLib /\ [][NextLib]_libVars

-----------------------------------------------------------------------------

(* The library is up as a whole or not at all, whichever module fails and   *)
(* however often the start is tried again: no module is initialised twice,  *)
(* none is exited that is not up, and the one that failed is not exited.    *)
AllOrNothing ==
  /\ strange = {}
  /\ phase = "up" => up = {hd[i] : i \in DOMAIN hd}
  /\ phase \in {"loading", "failed", "over"} => up = {}
=============================================================================
