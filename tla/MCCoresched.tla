---------------------------- MODULE MCCoresched -----------------------------
(***************************************************************************)
(* Values for the constants of Coresched: a machine with three cores and   *)
(* two hardware threads each, numbered as Linux numbers them (the siblings *)
(* of core c are CPUs c and c + 3).  Core 2 belongs to P3, core 1 to P2    *)
(* and P3, and core 0 to everyone.                                         *)
(***************************************************************************)
EXTENDS Coresched

MCSiblings == <<<<0, 3>>, <<1, 4>>, <<2, 5>>>>
SiblingsOf == [c \in 0 .. 2 |-> MCSiblings[c + 1]]
AllCpus    == 0 .. 5

Ask(mode, type, need, priority) ==
  [mode |-> mode, type |-> type, need |-> need, priority |-> priority, timeout |-> FALSE]

(* Jobs of three levels and both types, that compete for core 0 and, when  *)
(* P3 asks for the whole machine, with everyone.                           *)
MixedRequests ==
  {Ask("run", "py", 1, 0), Ask("run", "cfd", 3, 3),
   Ask("enqueue", "cfd", 1, 0), Ask("enqueue", "py", 3, 2)}

(* Jobs of the lowest level that share core 0; the direct run may give up. *)
SharedCoreRequests ==
  {[Ask("run", "py", 1, 0) EXCEPT !.timeout = TRUE], Ask("enqueue", "cfd", 1, 0)}

(* Jobs for faults: one hardware thread of core 0 or all of it, queued or  *)
(* run directly, and then ready to give up.                                *)
HalfQueued == Ask("enqueue", "py", 1, 0)
FullQueued == Ask("enqueue", "cfd", 1, 0)
HalfRun    == [Ask("run", "py", 1, 0) EXCEPT !.timeout = TRUE]
FullRun    == [Ask("run", "cfd", 1, 0) EXCEPT !.timeout = TRUE]
CoreZeroRequests == {HalfQueued, FullQueued, HalfRun, FullRun}

(* A direct run of P3 that wants every core, and a queued job.             *)
RivalRequests == {Ask("enqueue", "py", 1, 0), Ask("run", "cfd", 3, 3)}

(* The same with a direct run that may give up.                            *)
ImpatientRequests ==
  {Ask("enqueue", "py", 1, 0), [Ask("run", "cfd", 3, 3) EXCEPT !.timeout = TRUE]}

NoReserve == {}

(* The fair behaviours in which the run comes between two queued jobs.     *)
RivalInit ==
  Init /\ req = [j \in Jobs |-> IF j = 2 THEN Ask("run", "cfd", 3, 3)
                                         ELSE Ask("enqueue", "py", 1, 0)]
RivalSpec == RivalInit /\ [][Next]_vars /\ Fairness

(* Three jobs for core 0.  In the first mixture two queued jobs fit side   *)
(* by side, so that two dispatchers may have taken one each; in the second *)
(* they cannot, and the run needs the whole core; in the third the queued  *)
(* job waits for two runs that fit side by side.                           *)
FaultsInit ==
  /\ Init
  /\ req \in {<<FullRun, HalfQueued, HalfQueued>>, <<HalfQueued, FullQueued, FullRun>>,
              <<HalfRun, FullQueued, HalfRun>>}
FaultsSpec == FaultsInit /\ [][Next]_vars
=============================================================================
