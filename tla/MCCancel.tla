------------------------------ MODULE MCCancel ------------------------------
(***************************************************************************)
(* Values for the constants of Cancel: the machine of MCCoresched.         *)
(***************************************************************************)
EXTENDS Cancel

MCSiblings == <<<<0, 3>>, <<1, 4>>, <<2, 5>>>>
SiblingsOf == [c \in 0 .. 2 |-> MCSiblings[c + 1]]
AllCpus    == 0 .. 5

Ask(mode, type, need, timeout) ==
  [mode |-> mode, type |-> type, need |-> need, priority |-> 0, timeout |-> timeout]

(* Jobs that share core 0; the direct run may give up.                     *)
SharedCoreRequests == {Ask("run", "py", 1, TRUE), Ask("enqueue", "cfd", 1, FALSE)}

ReserveCore0 == {{0}}
=============================================================================
