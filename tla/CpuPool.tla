------------------------------ MODULE CpuPool -------------------------------
(***************************************************************************)
(* What coresched promises, without processes, queues or a state file: a   *)
(* pool of CPUs from which jobs get what no other job has, keep it as long *)
(* as their command runs, and run once.                                    *)
(***************************************************************************)
EXTENDS Naturals

CONSTANTS Jobs, Cpus

VARIABLES
  grant,  (* the CPUs of each job that has been given some                 *)
  life    (* life[j]: whether the command of j waits, runs or is over      *)

Active == {j \in Jobs : life[j] = "runs"}

Init ==
  /\ grant = <<>>
  /\ life = [j \in Jobs |-> "waits"]

(* The CPUs of the jobs D return to the pool.                              *)
Kept(D) == [j \in DOMAIN grant \ D |-> grant[j]]
Taken(D) == UNION {grant[j] : j \in DOMAIN grant \ D}

GiveBack(D) ==
  /\ D \cap Active = {}
  /\ grant' = Kept(D)
  /\ UNCHANGED life

(* They do, and job j gets CPUs that nobody has any more.                  *)
Allocate(D, j) ==
  /\ D \cap Active = {}
  /\ life[j] = "waits" /\ j \notin DOMAIN grant /\ UNCHANGED life
  /\ \E S \in SUBSET (Cpus \ Taken(D)) :
       grant' = [k \in (DOMAIN grant \ D) \cup {j} |-> IF k = j THEN S ELSE grant[k]]

(* The command of a job that has CPUs starts.                              *)
Start(j) ==
  /\ life[j] = "waits" /\ j \in DOMAIN grant
  /\ life' = [life EXCEPT ![j] = "runs"]
  /\ UNCHANGED grant

(* Commands end, several at once when the machine stops.                   *)
Finish(D) ==
  /\ D \subseteq Active
  /\ life' = [j \in Jobs |-> IF j \in D THEN "over" ELSE life[j]]
  /\ UNCHANGED grant

Next ==
  \/ \E j \in Jobs : Start(j)
  \/ \E D \in SUBSET Jobs :
       GiveBack(D) \/ Finish(D) \/ \E j \in Jobs : Allocate(D, j)

Spec == Init /\ [][Next]_<<grant, life>>
=============================================================================
