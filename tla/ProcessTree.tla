---------------------------- MODULE ProcessTree -----------------------------
(***************************************************************************)
(* cancel_job of src/process.rs against a job that goes on living: the     *)
(* processes of the job fork, start sessions of their own and exit, while  *)
(* the walk over /proc reads the lists of children, one process after the  *)
(* other and one child after the other, and the signals are sent to one    *)
(* target after the other.                                                 *)
(*                                                                         *)
(* Processes are numbered as they are born, Root is the one whose pid the  *)
(* state file has.  Outside stands for everything that is not of the job:  *)
(* as a parent it is init, as a group that of the user's shell.            *)
(*                                                                         *)
(* A child belongs to the thread that forked it, and the file the walk     *)
(* reads, /proc/{pid}/task/{pid}/children, lists the children of the main  *)
(* thread only: hidden are those of the other threads.                     *)
(***************************************************************************)
EXTENDS Naturals, FiniteSets

CONSTANT MaxPids  (* bound: how many processes the job has in its life     *)

ASSUME ProcessTreeAssumption == MaxPids \in Nat \ {0}

Pids    == 1 .. MaxPids
Root    == 1
Outside == 0

VARIABLES
  life,     (* life[p]: "unborn", "alive", "zombie" or "gone"              *)
  parent,   (* parent[p]                                                   *)
  group,    (* group[p]: its process group                                 *)
  foreign,  (* the processes that run as another user                      *)
  hidden,   (* the children of threads that are not the main one           *)
  mainless, (* the processes whose main thread has ended before the others *)
  pipeline, (* TRUE while Root's group has members that are not of the job *)
  phase,    (* where cancel_job stands                                     *)
  seen,     (* processes: the snapshot of the tree                         *)
  groups,   (* the groups to be signalled                                  *)
  todo,     (* the members of the list that is being gone through          *)
  reading,  (* whose list of children is open, Outside if none is          *)
  listed,   (* the children the open list has given so far                 *)
  missed,   (* history: processes the walk can no longer come upon         *)
  still     (* history: the job has not moved since the walk began         *)

job    == <<life, parent, group, foreign, hidden, mainless, pipeline>>
cancel == <<phase, seen, groups, todo, reading, listed>>
vars   == <<job, cancel, missed, still>>

Phases == {"idle", "collect", "groups", "term groups", "term processes",
           "kill groups", "kill processes", "done", "failed"}

Alive(p) == life[p] = "alive"
Children(p) == {q \in Pids : parent[q] = p /\ life[q] \in {"alive", "zombie"}}
Listed(p)   == Children(p) \ hidden

(* The recorded process leads a group, as a waiter and a command do, or it *)
(* is a submitter: in the group of its shell, or, if it is the first of a  *)
(* pipeline, at the head of a group that the others of the pipeline are    *)
(* in.                                                                     *)
Init ==
  /\ life = [p \in Pids |-> IF p = Root THEN "alive" ELSE "unborn"]
  /\ parent = [p \in Pids |-> Outside]
  /\ group \in {[p \in Pids |-> IF p = Root THEN g ELSE Outside] : g \in {Root, Outside}}
  /\ pipeline \in {FALSE, group[Root] = Root}
  /\ foreign = {} /\ hidden = {} /\ mainless = {}
  /\ phase = "idle" /\ seen = {} /\ groups = {} /\ todo = {}
  /\ reading = Outside /\ listed = {}
  /\ missed = {} /\ still = TRUE

-----------------------------------------------------------------------------
(* The job.                                                                *)

Moves == still' = (phase = "idle")

(* The walk is past p: it has read the children of p, or never will.       *)
Past(p) ==
  \/ p \in missed
  \/ phase = "collect" /\ p \in seen \ todo
  \/ phase \notin {"idle", "collect"}

(* A submitter has one thread only, a command may have more.               *)
Threaded(p) == Alive(p) /\ (p = Root => group[Root] = Root /\ ~ pipeline)

(* The main thread forks, or another one.                                  *)
Fork(p, c) ==
  /\ Alive(p) /\ life[c] = "unborn" /\ \A q \in Pids : q < c => life[q] # "unborn"
  /\ life' = [life EXCEPT ![c] = "alive"]
  /\ parent' = [parent EXCEPT ![c] = p]
  /\ group' = [group EXCEPT ![c] = group[p]]
  /\ foreign' = IF p \in foreign THEN foreign \cup {c} ELSE foreign
  /\ \/ Threaded(p) /\ hidden' = hidden \cup {c}
     \/ p \notin mainless /\ hidden' = hidden
  /\ missed' = IF Past(p) THEN missed \cup {c} ELSE missed
  /\ Moves
  /\ UNCHANGED <<mainless, pipeline, cancel>>

(* A recorded process that leads no group is a submitter, it stays there.  *)
Setsid(p) ==
  /\ Alive(p) /\ p # Root /\ group[p] # p
  /\ group' = [group EXCEPT ![p] = p]
  /\ Moves
  /\ UNCHANGED <<life, parent, foreign, hidden, mainless, pipeline, cancel, missed>>

(* sudo: the process may no longer be signalled.                           *)
ChangeUser(p) ==
  /\ Alive(p) /\ p # Root /\ foreign = {}
  /\ foreign' = {p}
  /\ Moves
  /\ UNCHANGED <<life, parent, group, hidden, mainless, pipeline, cancel, missed>>

(* A thread ends, the process goes on: the kernel gives its children to    *)
(* the main thread, or to another one if the main thread has ended.        *)
ThreadEnds(p) ==
  /\ Threaded(p) /\ p \notin mainless
  /\ \E S \in SUBSET (Children(p) \cap hidden) : S # {} /\ hidden' = hidden \ S
  /\ Moves
  /\ UNCHANGED <<life, parent, group, foreign, mainless, pipeline, cancel, missed>>

MainThreadEnds(p) ==
  /\ Threaded(p) /\ p \notin mainless
  /\ mainless' = mainless \cup {p}
  /\ hidden' = hidden \cup Children(p)
  /\ Moves
  /\ UNCHANGED <<life, parent, group, foreign, pipeline, cancel, missed>>

(* The processes below those of D: all that D and its descendants lead to. *)
Below(D) ==
  LET closed == {S \in SUBSET Pids : D \subseteq S /\ \A p \in S : Children(p) \subseteq S}
  IN  {q \in Pids : \A S \in closed : q \in S} \ D

(* The processes D end.  Their children go to init, who reaps them; the    *)
(* recorded process is reaped by its waiter, the others by their parents.  *)
End(D) ==
  LET adopted(p) == p # Root /\ (parent[p] \in D \/ parent[p] = Outside)
  IN  /\ life' = [p \in Pids |->
                    IF p \in D \/ life[p] = "zombie"
                    THEN IF adopted(p) THEN "gone" ELSE "zombie"
                    ELSE life[p]]
      /\ parent' = [p \in Pids |-> IF parent[p] \in D THEN Outside ELSE parent[p]]
      /\ hidden' = {p \in hidden : parent[p] \notin D}
      /\ mainless' = mainless \ D
      /\ UNCHANGED <<group, foreign>>

(* Those whose children the walk is going to read.                         *)
Front == IF phase = "idle" THEN {Root} ELSE todo \cup (listed \ seen)

(* An exit cuts off those below the process, but for what the walk has     *)
(* already come upon and what is below that.                               *)
Exit(p) ==
  /\ Alive(p)
  /\ End({p})
  /\ Moves
  /\ UNCHANGED <<pipeline, cancel>>
  /\ missed' = IF phase \in {"idle", "collect"}
               THEN missed \cup (Below({p}) \ (seen \cup Front \cup Below(Front)'))
               ELSE missed

Reap(p) ==
  /\ life[p] = "zombie"
  /\ life' = [life EXCEPT ![p] = "gone"]
  /\ Moves
  /\ UNCHANGED <<parent, group, foreign, hidden, mainless, pipeline, cancel, missed>>

(* The others of the pipeline end by themselves.                           *)
PipelineEnds ==
  /\ pipeline /\ pipeline' = FALSE
  /\ UNCHANGED <<life, parent, group, foreign, hidden, mainless, cancel, missed, still>>

-----------------------------------------------------------------------------
(* The walk over the tree and its groups.                                  *)

(* What is gone through next, or the next phase.                           *)
Turn(next, list) == phase' = next /\ todo' = list

Begin ==
  /\ phase = "idle"
  /\ Turn("collect", {Root}) /\ seen' = {Root}
  /\ UNCHANGED <<job, groups, reading, listed, missed, still>>

(* collect_process_tree: open the list of the next process.  The code      *)
(* takes the processes in the order it found them in, here they come in    *)
(* any.  The list of one that is gone or dead has nobody in it.            *)
OpenList(p) ==
  /\ phase = "collect" /\ reading = Outside /\ p \in todo
  /\ reading' = p /\ listed' = {}
  /\ UNCHANGED <<job, phase, seen, groups, todo, missed, still>>

(* The kernel looks the children up one by one, each by the one before.    *)
ReadChild(c) ==
  /\ reading # Outside /\ c \in Listed(reading) \ listed
  /\ listed' = listed \cup {c}
  /\ UNCHANGED <<job, phase, seen, groups, todo, reading, missed, still>>

(* The end of the list.  When the child before has vanished, the kernel    *)
(* goes by the number of those it has given, and passes over as many as    *)
(* are no longer there.  What the file does not have is not come upon, nor *)
(* what is below it.                                                       *)
Unlisted == Children(reading) \ listed

AtListEnd ==
  Cardinality(Unlisted \ hidden) <= Cardinality(listed \ Listed(reading))

(* Mutant: the children of a child are not looked for.                     *)
CloseRootList ==
  /\ reading # Outside /\ AtListEnd
  /\ seen' = seen \cup listed
  /\ todo' = todo \ {reading}
  /\ missed' = missed \cup Unlisted \cup Below(Unlisted)
  /\ reading' = Outside /\ listed' = {}
  /\ UNCHANGED <<job, phase, groups, still>>

CloseList ==
  /\ reading # Outside /\ AtListEnd
  /\ seen' = seen \cup listed
  /\ todo' = (todo \ {reading}) \cup (listed \ seen)
  /\ missed' = missed \cup Unlisted \cup Below(Unlisted)
  /\ reading' = Outside /\ listed' = {}
  /\ UNCHANGED <<job, phase, groups, still>>

(* Mutant: whatever group a process is in.                                 *)
AskAnyGroup(p) ==
  /\ phase = "groups" /\ p \in todo
  /\ todo' = todo \ {p}
  /\ groups' = IF life[p] # "gone" THEN groups \cup {group[p]} ELSE groups
  /\ UNCHANGED <<job, phase, seen, reading, listed, missed, still>>

(* Mutant: the inherited group only.                                       *)
AskInheritedGroup(p) ==
  /\ phase = "groups" /\ p \in todo
  /\ todo' = todo \ {p}
  /\ groups' = IF life[p] # "gone" /\ group[p] = Root THEN groups \cup {group[p]} ELSE groups
  /\ UNCHANGED <<job, phase, seen, reading, listed, missed, still>>

(* job_process_groups: getpgid of one process.  A group is taken if its    *)
(* leader is in the snapshot.                                              *)
AskGroup(p) ==
  /\ phase = "groups" /\ p \in todo
  /\ todo' = todo \ {p}
  /\ groups' = IF life[p] # "gone" /\ group[p] \in seen
               THEN groups \cup {group[p]} ELSE groups
  /\ UNCHANGED <<job, phase, seen, reading, listed, missed, still>>

-----------------------------------------------------------------------------
(* The signals.                                                            *)

Members(g) == {p \in Pids : life[p] \in {"alive", "zombie"} /\ group[p] = g}

(* The members that are not of the job: the shell or the pipeline.  They   *)
(* are the caller's own.                                                   *)
Others(g) == g = Outside \/ (g = Root /\ pipeline)

(* kill to some processes: all of the caller's own among them get it.      *)
(* SIGTERM may be caught, SIGKILL not.                                     *)
Signal(targets, surely) ==
  LET own == {p \in targets \ foreign : Alive(p)}
  IN  \E D \in (IF surely THEN {own} ELSE SUBSET own) : End(D) /\ UNCHANGED <<missed, still>>

(* It is refused if there is somebody and all of them are another user's.  *)
Refused(targets) == targets # {} /\ targets \subseteq foreign

SignalGroup(g, now, surely) ==
  /\ phase = now /\ g \in todo
  /\ Others(g) \/ ~ Refused(Members(g))
  /\ Signal(Members(g), surely)
  /\ pipeline' \in (IF ~ Others(g) THEN {pipeline} ELSE IF surely THEN {FALSE} ELSE {pipeline, FALSE})
  /\ todo' = todo \ {g}
  /\ UNCHANGED <<phase, seen, groups, reading, listed>>

SignalProcess(p, now, surely) ==
  /\ phase = now /\ p \in todo
  /\ ~ Refused({p} \cap {q \in Pids : life[q] # "gone"})
  /\ Signal({p}, surely)
  /\ todo' = todo \ {p}
  /\ UNCHANGED <<pipeline, phase, seen, groups, reading, listed>>

TermGroup(g)   == SignalGroup(g, "term groups", FALSE)
TermProcess(p) == SignalProcess(p, "term processes", FALSE)
KillGroup(g)   == SignalGroup(g, "kill groups", TRUE)
KillProcess(p) == SignalProcess(p, "kill processes", TRUE)

(* Every error but ESRCH ends cancel_job at once.                          *)
SignalRefused ==
  /\ \/ phase \in {"term groups", "kill groups"}
        /\ \E g \in todo : ~ Others(g) /\ Refused(Members(g))
     \/ phase \in {"term processes", "kill processes"}
        /\ \E p \in todo : life[p] # "gone" /\ Refused({p})
  /\ Turn("failed", {})
  /\ UNCHANGED <<job, seen, groups, reading, listed, missed, still>>

(* One list is through, the next begins.                                   *)
NextPhase ==
  /\ todo = {}
  /\ \/ phase = "collect" /\ Turn("groups", seen)
     \/ phase = "groups" /\ Turn("term groups", groups)
     \/ phase = "term groups" /\ Turn("term processes", seen)
     \/ phase = "term processes" /\ Turn("kill groups", groups)
     \/ phase = "kill groups" /\ Turn("kill processes", seen)
     \/ phase = "kill processes" /\ Turn("done", {})
  /\ UNCHANGED <<job, seen, groups, reading, listed, missed, still>>

JobStep ==
  \/ \E p \in Pids : \/ \E c \in Pids : Fork(p, c)
                     \/ Setsid(p) \/ ChangeUser(p) \/ Exit(p) \/ Reap(p)
                     \/ ThreadEnds(p) \/ MainThreadEnds(p)
  \/ PipelineEnds

CancelStep ==
  \/ Begin \/ CloseList \/ NextPhase \/ SignalRefused
  \/ \E p \in Pids : \/ OpenList(p) \/ ReadChild(p) \/ AskGroup(p)
                     \/ TermProcess(p) \/ KillProcess(p)
  \/ \E g \in Pids : TermGroup(g) \/ KillGroup(g)

Next == JobStep \/ CancelStep

Spec == Init /\ [][Next]_vars

-----------------------------------------------------------------------------
(* Properties.                                                             *)

TypeOK ==
  /\ life \in [Pids -> {"unborn", "alive", "zombie", "gone"}]
  /\ parent \in [Pids -> Pids \cup {Outside}]
  /\ group \in [Pids -> Pids \cup {Outside}]
  /\ foreign \subseteq Pids /\ hidden \subseteq Pids \ {Root} /\ mainless \subseteq Pids
  /\ pipeline \in BOOLEAN /\ still \in BOOLEAN
  /\ missed \subseteq Pids \ {Root}
  /\ phase \in Phases /\ seen \subseteq Pids /\ groups \subseteq seen
  /\ todo \subseteq seen
  /\ reading \in Pids \cup {Outside} /\ listed \subseteq Pids \ {Root}
  /\ reading # Outside => phase = "collect" /\ reading \in todo

(* When cancel_job reports success, a process of the job is alive only if  *)
(* the walk could not come upon it: it was forked by a process whose list  *)
(* had been read, its parent exited before, the list does not have it, for *)
(* another thread forked it or a sibling vanished while the list was read, *)
(* or one of these is true of a process above it.  And, besides, it has    *)
(* left the groups of the snapshot or runs as another user.                *)
OnlyMissedSurvive ==
  phase = "done" =>
    \A p \in Pids : Alive(p) => p \in missed /\ (group[p] \notin groups \/ p \in foreign)

(* If the job stands still while it is looked at, the walk comes upon all  *)
(* that is below the recorded process, but for the children of threads     *)
(* that are not the main one and what is below them, and each group whose  *)
(* leader it has come upon is going to be signalled (collect_process_tree, *)
(* job_process_groups).                                                    *)
StillJobCovered ==
  phase = "term groups" /\ todo = groups /\ still =>
    LET others == hidden \cap Below({Root})
    IN  /\ Below({Root}) \subseteq seen \cup others \cup Below(others)
        /\ \A p \in seen : life[p] # "gone" /\ group[p] \in seen => group[p] \in groups
=============================================================================
