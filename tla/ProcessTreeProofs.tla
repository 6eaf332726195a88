-------------------------- MODULE ProcessTreeProofs -------------------------
(***************************************************************************)
(* cancel_job against a job of any size: who is still alive when it ends,  *)
(* and what the walk has found of a job that stood still.                  *)
(***************************************************************************)
EXTENDS ProcessTree, FiniteSetTheorems, NaturalsInduction, WellFoundedInduction, TLAPS

-----------------------------------------------------------------------------
(* The inductive invariant.                                                *)

Born(p) == life[p] # "unborn"

(* A parent is alive and older than its child.                             *)
Family ==
  /\ Born(Root) /\ parent[Root] = Outside
  /\ \A p, q \in Pids : q < p /\ Born(p) => Born(q)
  /\ \A p \in Pids : /\ parent[p] # Outside => Alive(parent[p]) /\ parent[p] < p
                     /\ ~ Born(p) => parent[p] = Outside /\ group[p] = Outside

(* A group has its leader, who stays in it.                                *)
Leads(p) == group[p] = p
Led ==
  /\ \A p \in Pids : group[p] # Outside => Leads(group[p])
  /\ \A g \in groups : Leads(g)

(* The walk can still come upon q if q has a parent whose children it will *)
(* read, or whom it can still come upon itself.                            *)
Unfound(q) == Alive(q) /\ q \notin seen \cup listed \cup missed
Reachable ==
  /\ phase = "idle" => seen = {}
  /\ phase # "idle" => Root \in seen
  /\ reading = Outside => listed = {}
  /\ phase \in {"idle", "collect"} =>
       \A q \in Pids \ {Root} : Unfound(q) =>
         /\ parent[q] \in Pids
         /\ parent[q] \in Front \/ parent[q] \notin seen \cup listed \cup missed
  /\ phase \notin {"idle", "collect"} => \A q \in Pids : ~ Unfound(q)

(* While the job stands still nobody vanishes from a list, and the lists   *)
(* that are closed are in the snapshot; so are the groups, once asked for. *)
ListsRead(D) == \A r \in D : Listed(r) \subseteq seen
GroupsAsked(D) == \A p \in D : life[p] # "gone" /\ group[p] \in seen => group[p] \in groups
Stood ==
  still =>
    /\ phase = "collect" =>
         /\ reading # Outside => listed \subseteq Listed(reading)
         /\ ListsRead(seen \ todo)
    /\ phase = "groups" => ListsRead(seen) /\ GroupsAsked(seen \ todo)
    /\ phase = "term groups" /\ todo = groups => ListsRead(seen) /\ GroupsAsked(seen)

(* Nobody is born into the snapshot, and nobody survives SIGKILL but as    *)
(* another user.                                                           *)
Killed ==
  /\ \A p \in seen \cup listed : Born(p)
  /\ phase \in {"term groups", "kill groups"} => todo \subseteq groups
  /\ phase = "kill groups" =>
       \A p \in Pids : Alive(p) /\ p \notin foreign => group[p] \notin groups \ todo
  /\ phase \in {"kill processes", "done"} =>
       \A p \in Pids : Alive(p) =>
         /\ p \notin foreign => group[p] \notin groups
         /\ p \in seen => p \in todo
  /\ phase = "done" => todo = {}

IInv == TypeOK /\ Family /\ Led /\ Reachable /\ Stood /\ Killed

-----------------------------------------------------------------------------
(* Numbers and trees.                                                      *)

LEMMA LeastElement ==
  ASSUME NEW S \in SUBSET Nat, S # {}
  PROVE  \E n \in S : \A k \in S : n <= k
<1>1. PICK n \in S : \A k \in S : <<k, n>> \notin OpToRel(<, Nat)
  BY WFMin, NatLessThanWellFounded, Zenon
<1>2. \A k \in S : ~(k < n)
  BY <1>1, Zenon DEF OpToRel
<1> QED
  BY <1>2

LEMMA Numbers ==
  /\ Pids \subseteq Nat \ {0} /\ Root \in Pids /\ Outside \notin Pids /\ Outside \in Nat
BY ProcessTreeAssumption DEF Pids, Root, Outside

(* What is below D is closed under the children, and nothing else is in it. *)
LEMMA BelowFacts ==
  ASSUME NEW D \in SUBSET Pids
  PROVE  /\ Below(D) \subseteq Pids
         /\ \A p \in D \cup Below(D) : Children(p) \subseteq D \cup Below(D)
         /\ \A S \in SUBSET Pids :
              D \subseteq S /\ (\A p \in S : Children(p) \subseteq S) => Below(D) \subseteq S
<1>1. \A p : Children(p) \subseteq Pids
  BY DEF Children
<1> QED
  BY <1>1 DEF Below

(* After a step, too, who is below D is a child of D or of somebody below. *)
LEMMA BelowStep ==
  ASSUME NEW D \in SUBSET Pids, NEW q \in Below(D)'
  PROVE  \E r \in D \cup Below(D)' : q \in Children(r)'
<1> DEFINE B == D \cup Below(D)'
           S == B \ {q}
<1>1. q \in Pids \ D /\ Below(D)' \subseteq Pids
  BY DEF Below
<1>2. \A T \in SUBSET Pids :
        D \subseteq T /\ (\A p \in T : Children(p)' \subseteq T) => Below(D)' \subseteq T
  BY DEF Below
<1>3. \A p \in B : Children(p)' \subseteq B
  <2>1. \A p : Children(p)' \subseteq Pids
    BY DEF Children
  <2> QED
    BY <2>1 DEF Below
<1>4. S \in SUBSET Pids /\ D \subseteq S /\ q \notin S
  BY <1>1
<1>5. ~ \A p \in S : Children(p)' \subseteq S
  BY <1>2, <1>4
<1>6. PICK p \in S : ~ (Children(p)' \subseteq S)
  BY <1>5
<1>7. q \in Children(p)'
  BY <1>3, <1>6
<1> QED
  BY <1>6, <1>7

-----------------------------------------------------------------------------
(* The steps of the job.                                                   *)

LEMMA InitInv == Init => IInv
<1> SUFFICES ASSUME Init PROVE IInv
  OBVIOUS
<1> USE Numbers DEF Init
<1>1. TypeOK
  <2>1. pipeline \in BOOLEAN
    BY Zenon
  <2>2. group \in [Pids -> Pids \cup {Outside}]
    OBVIOUS
  <2> QED
    BY <2>1, <2>2 DEF TypeOK, Phases
<1>2. Family
  BY DEF Family, Born, Alive, Root
<1>3. Led
  BY DEF Led, Leads
<1>4. Reachable
  BY DEF Reachable, Unfound, Alive
<1>5. Killed /\ Stood
  BY DEF Killed, Stood
<1> QED
  BY <1>1, <1>2, <1>3, <1>4, <1>5 DEF IInv

(* A step of the job: the walk has what it had, and the job has moved.     *)
Unlooked ==
  /\ phase' = phase /\ seen' = seen /\ groups' = groups /\ todo' = todo
  /\ reading' = reading /\ listed' = listed /\ Front' = Front
  /\ still' \in BOOLEAN /\ Stood'

LEMMA JobMoves ==
  ASSUME Moves, UNCHANGED cancel
  PROVE  Unlooked
<1>1. /\ phase' = phase /\ seen' = seen /\ groups' = groups /\ todo' = todo
      /\ reading' = reading /\ listed' = listed /\ still' = (phase = "idle")
  BY DEF cancel, Moves
<1>2. still' => phase' = "idle"
  BY <1>1
<1>3. Stood'
  BY <1>2 DEF Stood
<1> QED
  BY <1>1, <1>3 DEF Front, Unlooked

LEMMA ForkKeeps ==
  ASSUME IInv, NEW p \in Pids, NEW c \in Pids, Fork(p, c)
  PROVE  IInv'
<1>0. /\ TypeOK /\ Family /\ Led /\ Reachable /\ Stood /\ Killed
      /\ Alive(p) /\ ~ Born(c) /\ \A q \in Pids : q < c => Born(q)
      /\ life' = [life EXCEPT ![c] = "alive"]
      /\ parent' = [parent EXCEPT ![c] = p]
      /\ group' = [group EXCEPT ![c] = group[p]]
      /\ foreign' = IF p \in foreign THEN foreign \cup {c} ELSE foreign
      /\ hidden' \in {hidden, hidden \cup {c}} /\ mainless' = mainless
      /\ missed' = IF Past(p) THEN missed \cup {c} ELSE missed
      /\ pipeline' = pipeline /\ Unlooked
  BY JobMoves DEF IInv, Fork, Born
<1> USE DEF Unlooked
<1>1. p < c /\ c # Root /\ p # c
  BY <1>0, Numbers DEF Family, Alive, Born, Pids
<1>2. \A q \in Pids : (Alive(q)' <=> Alive(q) \/ q = c) /\ (Born(q)' <=> Born(q) \/ q = c)
  BY <1>0 DEF TypeOK, Alive, Born
<1>3. TypeOK'
  BY <1>0, <1>1, Numbers DEF TypeOK
<1>4. Family'
  <2>1. Born(Root)' /\ parent'[Root] = Outside
    BY <1>0, <1>1, <1>2, Numbers DEF TypeOK, Family
  <2>2. \A q, r \in Pids : r < q /\ Born(q)' => Born(r)'
    BY <1>0, <1>2 DEF Family
  <2>3. ASSUME NEW q \in Pids, parent'[q] # Outside
        PROVE  (Alive(parent[q]))' /\ parent'[q] < q
    <3>1. CASE q = c
      BY <1>0, <1>1, <1>2, <3>1 DEF TypeOK
    <3>2. CASE q # c
      <4>1. parent'[q] = parent[q] /\ parent[q] \in Pids
        BY <1>0, <2>3, <3>2 DEF TypeOK
      <4> QED
        BY <1>0, <1>2, <2>3, <4>1 DEF Family
    <3> QED
      BY <3>1, <3>2
  <2>4. \A q \in Pids : ~ Born(q)' => parent'[q] = Outside /\ group'[q] = Outside
    BY <1>0, <1>2 DEF TypeOK, Family
  <2> QED
    BY <2>1, <2>2, <2>3, <2>4 DEF Family
<1>5. \A q \in Pids : group[q] # c
  BY <1>0, Numbers DEF TypeOK, Family, Led, Leads
<1>6. Led'
  BY <1>0, <1>5, Numbers DEF TypeOK, Led, Leads
<1>7. c \notin seen
  BY <1>0 DEF Killed
<1>8. Reachable'
  <2>1. \A q \in Pids : Unfound(q)' => (Unfound(q) /\ q # c) \/ (q = c /\ ~ Past(p))
    BY <1>0, <1>2 DEF Unfound, Alive, Born
  <2>2. ~ Past(p) => p \in Front \/ p \notin seen \cup listed \cup missed
    BY <1>0, Numbers DEF Past, Reachable, Front, TypeOK
  <2>3. phase \in {"idle", "collect"} =>
          \A q \in Pids \ {Root} : Unfound(q)' =>
            parent'[q] \in Pids /\ (parent'[q] \in Front \/ parent'[q] \notin seen \cup listed \cup missed')
    <3>1. ASSUME NEW q \in Pids \ {Root}, phase \in {"idle", "collect"}, Unfound(q)', q # c
          PROVE  /\ parent'[q] \in Pids
                 /\ parent'[q] \in Front \/ parent'[q] \notin seen \cup listed \cup missed'
      <4>1. parent'[q] = parent[q] /\ Unfound(q)
        BY <1>0, <2>1, <3>1 DEF TypeOK
      <4>2. parent[q] \in Pids /\ (parent[q] \in Front \/ parent[q] \notin seen \cup listed \cup missed)
        BY <1>0, <3>1, <4>1 DEF Reachable
      <4>3. parent[q] # c
        BY <1>0, <4>2, Numbers DEF Family, Alive, Born
      <4> QED
        BY <1>0, <4>1, <4>2, <4>3
    <3>2. ASSUME Unfound(c)'
          PROVE  /\ parent'[c] \in Pids
                 /\ parent'[c] \in Front \/ parent'[c] \notin seen \cup listed \cup missed'
      BY <1>0, <1>1, <2>1, <2>2, <3>2 DEF TypeOK
    <3> QED
      BY <3>1, <3>2
  <2>4. phase \notin {"idle", "collect"} => \A q \in Pids : ~ Unfound(q)'
    BY <1>0, <2>1 DEF Reachable, Past
  <2> QED
    BY <1>0, <2>3, <2>4 DEF Reachable
<1>9. Killed'
  <2>1. ASSUME NEW q \in Pids, Alive(q)', q \notin foreign'
        PROVE  \E r \in Pids : Alive(r) /\ r \notin foreign /\ group'[q] = group[r]
    <3>1. CASE q = c
      BY <1>0, <2>1, <3>1 DEF TypeOK
    <3>2. CASE q # c
      BY <1>0, <1>2, <2>1, <3>2 DEF TypeOK
    <3> QED
      BY <3>1, <3>2
  <2>2. \A q \in Pids : Alive(q)' /\ q \in seen => Alive(q)
    BY <1>2, <1>7
  <2>3. \A q \in seen \cup listed : Born(q)'
    BY <1>0, <1>2 DEF Killed, TypeOK
  <2>4. phase = "kill groups" =>
          \A q \in Pids : Alive(q)' /\ q \notin foreign' => group'[q] \notin groups \ todo
    BY <1>0, <2>1 DEF Killed
  <2>5. phase \in {"kill processes", "done"} =>
          \A q \in Pids : Alive(q)' =>
            /\ q \notin foreign' => group'[q] \notin groups
            /\ q \in seen => q \in todo
    BY <1>0, <2>1, <2>2 DEF Killed
  <2> QED
    BY <1>0, <2>3, <2>4, <2>5 DEF Killed
<1> QED
  BY <1>0, <1>3, <1>4, <1>6, <1>8, <1>9 DEF IInv

LEMMA SetsidKeeps ==
  ASSUME IInv, NEW p \in Pids, Setsid(p)
  PROVE  IInv'
<1>0. /\ TypeOK /\ Family /\ Led /\ Reachable /\ Stood /\ Killed
      /\ Alive(p) /\ group[p] # p /\ group' = [group EXCEPT ![p] = p]
      /\ life' = life /\ parent' = parent /\ foreign' = foreign /\ missed' = missed
      /\ hidden' = hidden /\ mainless' = mainless /\ pipeline' = pipeline
      /\ Unlooked
  BY JobMoves DEF IInv, Setsid
<1> USE DEF Unlooked
<1>1. TypeOK'
  BY <1>0 DEF TypeOK
<1>2. Family'
  BY <1>0 DEF TypeOK, Family, Born, Alive
<1>3. Led'
  BY <1>0, Numbers DEF TypeOK, Led, Leads
<1>4. Reachable'
  BY <1>0 DEF Reachable, Unfound, Alive
<1>5. Killed'
  <2>1. p \notin groups
    BY <1>0 DEF Led, Leads
  <2>2. \A q \in Pids : group'[q] = group[q] \/ (q = p /\ group'[q] = p)
    BY <1>0 DEF TypeOK
  <2>3. \A q \in Pids : (Alive(q)' <=> Alive(q)) /\ (Born(q)' <=> Born(q))
    BY <1>0 DEF Alive, Born
  <2>4. \A q \in seen \cup listed : Born(q)'
    BY <1>0, <2>3 DEF Killed, TypeOK
  <2>5. phase = "kill groups" =>
          \A q \in Pids : Alive(q)' /\ q \notin foreign' => group'[q] \notin groups \ todo
    BY <1>0, <2>1, <2>2, <2>3 DEF Killed
  <2>6. phase \in {"kill processes", "done"} =>
          \A q \in Pids : Alive(q)' =>
            /\ q \notin foreign' => group'[q] \notin groups
            /\ q \in seen => q \in todo
    BY <1>0, <2>1, <2>2, <2>3 DEF Killed
  <2> QED
    BY <1>0, <2>4, <2>5, <2>6 DEF Killed
<1> QED
  BY <1>0, <1>1, <1>2, <1>3, <1>4, <1>5 DEF IInv

LEMMA ChangeUserKeeps ==
  ASSUME IInv, NEW p \in Pids, ChangeUser(p)
  PROVE  IInv'
<1>0. /\ TypeOK /\ Family /\ Led /\ Reachable /\ Stood /\ Killed
      /\ foreign = {} /\ foreign' = {p}
      /\ life' = life /\ parent' = parent /\ group' = group /\ missed' = missed
      /\ hidden' = hidden /\ mainless' = mainless /\ pipeline' = pipeline
      /\ Unlooked
  BY JobMoves DEF IInv, ChangeUser
<1> USE DEF Unlooked
<1>1. TypeOK'
  BY <1>0 DEF TypeOK
<1>2. Family' /\ Led' /\ Reachable'
  BY <1>0 DEF Family, Born, Alive, Led, Leads, Reachable, Unfound
<1>3. Killed'
  BY <1>0 DEF Killed, Born, Alive
<1> QED
  BY <1>0, <1>1, <1>2, <1>3 DEF IInv

(* Whoever ends leaves the rest as it was, and his children to init.       *)
LEMMA EndFacts ==
  ASSUME TypeOK, Family, NEW D \in SUBSET Pids, \A p \in D : Alive(p), End(D)
  PROVE  /\ life' \in [Pids -> {"unborn", "alive", "zombie", "gone"}]
         /\ parent' \in [Pids -> Pids \cup {Outside}] /\ group' = group /\ foreign' = foreign
         /\ hidden' \subseteq hidden /\ mainless' \subseteq mainless
         /\ \A p \in Pids : /\ Alive(p)' <=> Alive(p) /\ p \notin D
                            /\ Born(p)' <=> Born(p)
                            /\ parent'[p] = IF parent[p] \in D THEN Outside ELSE parent[p]
         /\ Family'
<1>1. /\ life' \in [Pids -> {"unborn", "alive", "zombie", "gone"}]
      /\ parent' \in [Pids -> Pids \cup {Outside}] /\ group' = group /\ foreign' = foreign
      /\ hidden' \subseteq hidden /\ mainless' \subseteq mainless
  BY DEF End, TypeOK
<1>2. \A p \in Pids : /\ Alive(p)' <=> Alive(p) /\ p \notin D
                      /\ Born(p)' <=> Born(p)
                      /\ parent'[p] = IF parent[p] \in D THEN Outside ELSE parent[p]
  BY DEF End, TypeOK, Alive, Born
<1>3. Born(Root)' /\ parent'[Root] = Outside
  BY <1>2, Numbers DEF Family
<1>4. \A p, q \in Pids : q < p /\ Born(p)' => Born(q)'
  BY <1>2 DEF Family
<1>5. ASSUME NEW p \in Pids, parent'[p] # Outside
      PROVE  Alive(parent[p])' /\ parent'[p] = parent[p] /\ parent[p] < p
  <2>1. parent'[p] = parent[p] /\ parent[p] \notin D /\ parent[p] \in Pids
    BY <1>2, <1>5 DEF TypeOK
  <2>2. Alive(parent[p]) /\ parent[p] < p
    BY <1>5, <2>1 DEF Family
  <2> QED
    BY <1>2, <2>1, <2>2 DEF Alive
<1>6. \A p \in Pids : ~ Born(p)' => parent'[p] = Outside /\ group'[p] = Outside
  BY <1>1, <1>2 DEF Family
<1>7. Family'
  BY <1>1, <1>3, <1>4, <1>5, <1>6 DEF Family
<1> QED
  BY <1>1, <1>2, <1>7

LEMMA ExitKeeps ==
  ASSUME IInv, NEW p \in Pids, Exit(p)
  PROVE  IInv'
<1>0. /\ TypeOK /\ Family /\ Led /\ Reachable /\ Stood /\ Killed /\ Alive(p) /\ End({p})
      /\ missed' = IF phase \in {"idle", "collect"}
                   THEN missed \cup (Below({p}) \ (seen \cup Front \cup Below(Front)'))
                   ELSE missed
      /\ pipeline' = pipeline /\ Unlooked
  BY JobMoves DEF IInv, Exit
<1> USE DEF Unlooked
<1>1. /\ life' \in [Pids -> {"unborn", "alive", "zombie", "gone"}]
      /\ parent' \in [Pids -> Pids \cup {Outside}] /\ group' = group /\ foreign' = foreign
      /\ hidden' \subseteq hidden /\ mainless' \subseteq mainless
      /\ \A q \in Pids : /\ Alive(q)' <=> Alive(q) /\ q # p
                         /\ Born(q)' <=> Born(q)
                         /\ parent'[q] = IF parent[q] = p THEN Outside ELSE parent[q]
      /\ Family'
  <2>1. \A q \in {p} : Alive(q)
    BY <1>0
  <2>2. /\ life' \in [Pids -> {"unborn", "alive", "zombie", "gone"}]
        /\ parent' \in [Pids -> Pids \cup {Outside}] /\ group' = group /\ foreign' = foreign
        /\ hidden' \subseteq hidden /\ mainless' \subseteq mainless
        /\ \A q \in Pids : /\ Alive(q)' <=> Alive(q) /\ q \notin {p}
                           /\ Born(q)' <=> Born(q)
                           /\ parent'[q] = IF parent[q] \in {p} THEN Outside ELSE parent[q]
        /\ Family'
    BY <1>0, <2>1, EndFacts
  <2> QED
    BY <2>2
<1>2. Root \notin Below({p})
  <2>1. p = Root => Root \notin Below({p})
    BY DEF Below
  <2>2. \A q \in Pids : Root \notin Children(q)
    BY <1>0, Numbers DEF Children, Family
  <2>3. \A q \in Pids : Children(q) \subseteq Pids
    BY DEF Children
  <2>4. ASSUME p # Root PROVE Below({p}) \subseteq Pids \ {Root}
    <3>1. \A q \in Pids \ {Root} : Children(q) \subseteq Pids \ {Root}
      BY <2>2, <2>3
    <3>2. {p} \in SUBSET Pids /\ {p} \subseteq Pids \ {Root}
      BY <2>4
    <3>3. Pids \ {Root} \in SUBSET Pids
      OBVIOUS
    <3>4. \A S \in SUBSET Pids :
            {p} \subseteq S /\ (\A q \in S : Children(q) \subseteq S) => Below({p}) \subseteq S
      BY <3>2, BelowFacts
    <3> QED
      BY <3>1, <3>2, <3>3, <3>4
  <2> QED
    BY <2>1, <2>4
<1>3. TypeOK'
  <2>1. missed' \subseteq Pids \ {Root}
    BY <1>0, <1>2, BelowFacts DEF TypeOK
  <2> QED
    BY <1>0, <1>1, <2>1 DEF TypeOK
<1>4. Led'
  BY <1>0, <1>1 DEF Led, Leads
<1>5. Reachable'
  <2>1. \A q \in Pids : Unfound(q)' => Unfound(q) /\ q # p
    BY <1>0, <1>1 DEF Unfound
  <2>2. ASSUME NEW q \in Pids \ {Root}, phase \in {"idle", "collect"}, Unfound(q)'
        PROVE  /\ parent'[q] \in Pids
               /\ parent'[q] \in Front \/ parent'[q] \notin seen \cup listed \cup missed'
    <3>1. Unfound(q) /\ q # p /\ q \notin seen \cup listed \cup missed
      BY <1>0, <2>1, <2>2 DEF Unfound
    <3>2. parent[q] \in Pids /\ (parent[q] \in Front \/ parent[q] \notin seen \cup listed \cup missed)
      BY <1>0, <2>2, <3>1 DEF Reachable
    <3>3. q \in Children(parent[q])
      BY <3>1 DEF Children, Unfound, Alive
    <3>4. CASE q \notin Below({p})
      <4>1. parent[q] # p /\ parent[q] \notin Below({p})
        BY <3>1, <3>3, <3>4, BelowFacts
      <4> QED
        BY <1>0, <1>1, <3>2, <4>1
    <3>5. CASE q \in Below({p})
      <4>1. q \notin Front
        BY <1>0, <2>2, <3>1 DEF Front, TypeOK
      <4>2. q \in Below(Front)'
        BY <1>0, <2>2, <3>1, <3>5, <4>1 DEF Unfound
      <4>3. PICK D \in SUBSET Pids : D = Front
        BY <1>0, Numbers DEF Front, TypeOK
      <4>4. Below(D)' = Below(Front)'
        BY <1>0, <4>3 DEF Below
      <4>5. PICK r \in D \cup Below(D)' : q \in Children(r)'
        BY <4>2, <4>4, BelowStep
      <4>6. parent'[q] = r /\ (r \in Front \/ r \in Below(Front)')
        BY <4>3, <4>4, <4>5 DEF Children
      <4>7. r # Outside => r = parent[q]
        BY <1>1, <4>6
      <4>8. r \in Pids
        BY <4>3, <4>5 DEF Below
      <4>9. r \in Front \/ r \notin seen \cup listed \cup missed'
        BY <1>0, <3>2, <4>6, <4>7, <4>8, Numbers
      <4> QED
        BY <1>0, <4>6, <4>8, <4>9
    <3> QED
      BY <3>4, <3>5
  <2>3. phase \notin {"idle", "collect"} => \A q \in Pids : ~ Unfound(q)'
    BY <1>0, <2>1 DEF Reachable
  <2> QED
    BY <1>0, <2>2, <2>3 DEF Reachable
<1>6. Killed'
  BY <1>0, <1>1 DEF Killed, TypeOK
<1> QED
  BY <1>0, <1>1, <1>3, <1>4, <1>5, <1>6 DEF IInv

LEMMA ThreadsKeep ==
  ASSUME IInv, NEW p \in Pids, ThreadEnds(p) \/ MainThreadEnds(p)
  PROVE  IInv'
<1>0. /\ TypeOK /\ Family /\ Led /\ Reachable /\ Stood /\ Killed
      /\ hidden' \subseteq hidden \cup Children(p) /\ mainless' \subseteq mainless \cup {p}
      /\ life' = life /\ parent' = parent /\ group' = group /\ foreign' = foreign
      /\ missed' = missed /\ pipeline' = pipeline /\ Unlooked
  BY JobMoves DEF IInv, ThreadEnds, MainThreadEnds
<1> USE DEF Unlooked
<1>1. hidden' \subseteq Pids \ {Root}
  BY <1>0, Numbers DEF TypeOK, Family, Children
<1>2. TypeOK'
  BY <1>0, <1>1 DEF TypeOK
<1>3. Family' /\ Led' /\ Reachable'
  BY <1>0 DEF Family, Born, Alive, Led, Leads, Reachable, Unfound
<1>4. Killed'
  BY <1>0 DEF Killed, Born, Alive
<1> QED
  BY <1>0, <1>2, <1>3, <1>4 DEF IInv

LEMMA PipelineEndsKeeps ==
  ASSUME IInv, PipelineEnds
  PROVE  IInv'
<1>0. /\ TypeOK /\ Family /\ Led /\ Reachable /\ Stood /\ Killed
      /\ life' = life /\ parent' = parent /\ group' = group /\ foreign' = foreign
      /\ hidden' = hidden /\ mainless' = mainless /\ pipeline' = FALSE
      /\ missed' = missed /\ still' = still
      /\ phase' = phase /\ seen' = seen /\ groups' = groups /\ todo' = todo
      /\ reading' = reading /\ listed' = listed
  BY DEF IInv, PipelineEnds, cancel
<1>1. TypeOK'
  BY <1>0 DEF TypeOK
<1>2. Family' /\ Led' /\ Reachable'
  BY <1>0 DEF Family, Born, Alive, Led, Leads, Reachable, Unfound, Front
<1>3. Killed' /\ Stood'
  BY <1>0 DEF Killed, Born, Alive, Stood, ListsRead, GroupsAsked, Listed, Children
<1> QED
  BY <1>0, <1>1, <1>2, <1>3 DEF IInv

LEMMA ReapKeeps ==
  ASSUME IInv, NEW p \in Pids, Reap(p)
  PROVE  IInv'
<1>0. /\ TypeOK /\ Family /\ Led /\ Reachable /\ Stood /\ Killed
      /\ life[p] = "zombie" /\ life' = [life EXCEPT ![p] = "gone"]
      /\ parent' = parent /\ group' = group /\ foreign' = foreign /\ missed' = missed
      /\ hidden' = hidden /\ mainless' = mainless /\ pipeline' = pipeline
      /\ Unlooked
  BY JobMoves DEF IInv, Reap
<1> USE DEF Unlooked
<1>1. \A q \in Pids : (Alive(q)' <=> Alive(q)) /\ (Born(q)' <=> Born(q))
  BY <1>0 DEF TypeOK, Alive, Born
<1>2. TypeOK' /\ Led'
  BY <1>0 DEF TypeOK, Led, Leads
<1>3. Family'
  BY <1>0, <1>1, Numbers DEF TypeOK, Family
<1>4. Reachable'
  BY <1>0, <1>1 DEF Reachable, Unfound
<1>5. Killed'
  BY <1>0, <1>1 DEF TypeOK, Killed
<1> QED
  BY <1>0, <1>2, <1>3, <1>4, <1>5 DEF IInv

-----------------------------------------------------------------------------
(* The steps of cancel_job.                                                *)

LEMMA SameJob ==
  ASSUME Family, UNCHANGED job
  PROVE  /\ Family' /\ life' = life /\ parent' = parent /\ group' = group /\ foreign' = foreign
         /\ hidden' = hidden /\ mainless' = mainless /\ pipeline' = pipeline
         /\ \A p : /\ (Alive(p)' <=> Alive(p)) /\ (Born(p)' <=> Born(p))
                  /\ Children(p)' = Children(p) /\ Listed(p)' = Listed(p)
BY DEF job, Family, Alive, Born, Children, Listed

LEMMA BeginKeeps ==
  ASSUME IInv, Begin
  PROVE  IInv'
<1>0. /\ TypeOK /\ Family /\ Led /\ Reachable /\ Stood /\ Killed
      /\ phase = "idle" /\ phase' = "collect" /\ todo' = {Root} /\ seen' = {Root}
      /\ UNCHANGED job /\ groups' = groups /\ missed' = missed
      /\ reading' = reading /\ listed' = listed /\ still' = still
      /\ reading = Outside /\ listed = {}
  BY DEF IInv, Begin, Turn, TypeOK, Reachable
<1>1. TypeOK'
  BY <1>0, SameJob, Numbers DEF TypeOK, Phases, Reachable
<1>2. Led'
  BY <1>0, SameJob DEF Led, Leads
<1>3. Reachable'
  BY <1>0, SameJob DEF TypeOK, Reachable, Unfound, Front
<1>4. Killed' /\ Stood'
  BY <1>0, SameJob DEF Killed, Family, Stood, ListsRead
<1> QED
  BY <1>0, <1>1, <1>2, <1>3, <1>4, SameJob DEF IInv

LEMMA OpenListKeeps ==
  ASSUME IInv, NEW p \in Pids, OpenList(p)
  PROVE  IInv'
<1>0. /\ TypeOK /\ Family /\ Led /\ Reachable /\ Stood /\ Killed
      /\ phase = "collect" /\ p \in todo /\ reading = Outside /\ listed = {}
      /\ reading' = p /\ listed' = {}
      /\ UNCHANGED job /\ phase' = phase /\ seen' = seen /\ groups' = groups
      /\ todo' = todo /\ missed' = missed /\ still' = still
  BY DEF IInv, OpenList, Reachable
<1>1. TypeOK'
  BY <1>0, SameJob, Numbers DEF TypeOK
<1>2. Led'
  BY <1>0, SameJob DEF Led, Leads
<1>3. Reachable'
  BY <1>0, SameJob, Numbers DEF Reachable, Unfound, Front
<1>4. Killed' /\ Stood'
  BY <1>0, SameJob DEF Killed, Stood, ListsRead
<1> QED
  BY <1>0, <1>1, <1>2, <1>3, <1>4, SameJob DEF IInv

LEMMA ReadChildKeeps ==
  ASSUME IInv, NEW c \in Pids, ReadChild(c)
  PROVE  IInv'
<1>0. /\ TypeOK /\ Family /\ Led /\ Reachable /\ Stood /\ Killed
      /\ phase = "collect" /\ reading # Outside /\ c \in Listed(reading)
      /\ listed' = listed \cup {c}
      /\ UNCHANGED job /\ phase' = phase /\ seen' = seen /\ groups' = groups
      /\ todo' = todo /\ reading' = reading /\ missed' = missed /\ still' = still
  BY DEF IInv, ReadChild, TypeOK
<1>1. c \in Pids \ {Root}
  BY <1>0, Numbers DEF Listed, Children, Family
<1>2. TypeOK'
  BY <1>0, <1>1, SameJob DEF TypeOK
<1>3. Led'
  BY <1>0, SameJob DEF Led, Leads
<1>4. Reachable'
  <2>1. ASSUME NEW q \in Pids \ {Root}, Unfound(q)'
        PROVE  parent[q] \in Pids /\ (parent[q] \in Front' \/ parent[q] \notin seen \cup listed' \cup missed)
    <3>1. Unfound(q)
      BY <1>0, <2>1, SameJob DEF Unfound
    <3>2. parent[q] \in Pids /\ (parent[q] \in Front \/ parent[q] \notin seen \cup listed \cup missed)
      BY <1>0, <3>1 DEF Reachable
    <3>3. Front \subseteq Front' /\ (c \in Front' \/ c \in seen)
      BY <1>0 DEF Front
    <3> QED
      BY <1>0, <3>2, <3>3
  <2> QED
    BY <1>0, <2>1, SameJob DEF Reachable
<1>5. Killed'
  BY <1>0, SameJob DEF Killed, Born, Listed, Children
<1>6. Stood'
  BY <1>0, SameJob DEF Stood, ListsRead
<1> QED
  BY <1>0, <1>2, <1>3, <1>4, <1>5, <1>6, SameJob DEF IInv

(* While nothing has vanished from the list, its end is the end of it.     *)
LEMMA ListWhole ==
  ASSUME TypeOK, AtListEnd, listed \subseteq Listed(reading)
  PROVE  Listed(reading) \subseteq listed
<1>1. listed \ Listed(reading) = {}
  OBVIOUS
<1>2. Cardinality(Unlisted \ hidden) <= 0
  BY <1>1, FS_EmptySet DEF AtListEnd
<1>3. IsFiniteSet(Unlisted \ hidden)
  <2>1. IsFiniteSet(Pids)
    BY FS_Interval, ProcessTreeAssumption DEF Pids
  <2>2. Unlisted \ hidden \subseteq Pids
    BY DEF Unlisted, Children
  <2> QED
    BY <2>1, <2>2, FS_Subset
<1>4. Cardinality(Unlisted \ hidden) = 0
  BY <1>2, <1>3, FS_CardinalityType
<1>5. Unlisted \ hidden = {}
  BY <1>3, <1>4, FS_EmptySet
<1> QED
  BY <1>5 DEF Unlisted, Listed

LEMMA CloseListKeeps ==
  ASSUME IInv, CloseList
  PROVE  IInv'
<1>0. /\ TypeOK /\ Family /\ Led /\ Reachable /\ Stood /\ Killed
      /\ phase = "collect" /\ reading \in Pids /\ reading \in todo /\ AtListEnd
      /\ seen' = seen \cup listed
      /\ todo' = (todo \ {reading}) \cup (listed \ seen)
      /\ missed' = missed \cup Unlisted \cup Below(Unlisted)
      /\ reading' = Outside /\ listed' = {}
      /\ UNCHANGED job /\ phase' = phase /\ groups' = groups /\ still' = still
  BY Numbers DEF IInv, CloseList, TypeOK
<1>1. /\ Unlisted \subseteq Pids \ {Root} /\ Below(Unlisted) \subseteq Pids \ {Root}
  <2>1. \A q \in Pids : Children(q) \subseteq Pids \ {Root}
    BY <1>0, Numbers DEF Children, Family
  <2>2. Unlisted \subseteq Pids \ {Root}
    BY <1>0, <2>1 DEF Unlisted
  <2>3. Pids \ {Root} \in SUBSET Pids /\ Unlisted \in SUBSET Pids
    BY <2>2
  <2>4. \A q \in Pids \ {Root} : Children(q) \subseteq Pids \ {Root}
    BY <2>1
  <2> QED
    BY <2>2, <2>3, <2>4, BelowFacts
<1>2. TypeOK'
  BY <1>0, <1>1, SameJob DEF TypeOK
<1>3. Led'
  BY <1>0, SameJob DEF Led, Leads
<1>4. Reachable'
  <2>1. ASSUME NEW q \in Pids \ {Root}, Unfound(q)'
        PROVE  parent[q] \in Pids /\ (parent[q] \in Front' \/ parent[q] \notin seen' \cup listed' \cup missed')
    <3>1. Unfound(q) /\ q \notin listed /\ q \notin Unlisted \cup Below(Unlisted)
      BY <1>0, <2>1, SameJob DEF Unfound
    <3>2. parent[q] \in Pids /\ (parent[q] \in Front \/ parent[q] \notin seen \cup listed \cup missed)
      BY <1>0, <3>1 DEF Reachable
    <3>3. q \in Children(parent[q])
      BY <3>1 DEF Unfound, Children, Alive
    <3>4. parent[q] # reading
      BY <3>1, <3>3 DEF Unlisted
    <3>5. parent[q] \notin Unlisted \cup Below(Unlisted)
      BY <1>1, <3>1, <3>3, BelowFacts
    <3>6. Front = todo \cup (listed \ seen) /\ Front' = todo'
      BY <1>0 DEF Front
    <3> QED
      BY <1>0, <3>2, <3>4, <3>5, <3>6
  <2> QED
    BY <1>0, <2>1, SameJob DEF Reachable
<1>5. \A q \in listed : Born(q)
  BY <1>0 DEF Killed
<1>6. Killed'
  BY <1>0, <1>5, SameJob DEF Killed
<1>7. Stood'
  <2>1. ASSUME still PROVE ListsRead(seen \ todo)' /\ TRUE
    <3>1. listed \subseteq Listed(reading) /\ ListsRead(seen \ todo)
      BY <1>0, <2>1, Numbers DEF Stood
    <3>2. Listed(reading) \subseteq listed
      BY <1>0, <3>1, ListWhole
    <3> QED
      BY <1>0, <3>1, <3>2, SameJob DEF ListsRead
  <2> QED
    BY <1>0, <2>1 DEF Stood
<1> QED
  BY <1>0, <1>2, <1>3, <1>4, <1>6, <1>7, SameJob DEF IInv

LEMMA AskGroupKeeps ==
  ASSUME IInv, NEW p \in Pids, AskGroup(p)
  PROVE  IInv'
<1>0. /\ TypeOK /\ Family /\ Led /\ Reachable /\ Stood /\ Killed
      /\ phase = "groups" /\ p \in todo /\ todo' = todo \ {p}
      /\ groups' = IF life[p] # "gone" /\ group[p] \in seen
                   THEN groups \cup {group[p]} ELSE groups
      /\ UNCHANGED job /\ phase' = phase /\ seen' = seen /\ missed' = missed
      /\ reading' = reading /\ listed' = listed /\ still' = still
  BY DEF IInv, AskGroup
<1>1. TypeOK'
  BY <1>0, SameJob DEF TypeOK
<1>2. Led'
  BY <1>0, SameJob, Numbers DEF TypeOK, Led, Leads
<1>3. Reachable'
  BY <1>0, SameJob DEF Reachable, Unfound
<1>4. Killed'
  BY <1>0, SameJob DEF Killed
<1>5. Stood'
  BY <1>0, SameJob DEF Stood, ListsRead, GroupsAsked
<1> QED
  BY <1>0, <1>1, <1>2, <1>3, <1>4, <1>5, SameJob DEF IInv

(* One signal to some processes, of the list that is gone through.         *)
LEMMA SignalKeeps ==
  ASSUME IInv, NEW x \in todo, NEW targets \in SUBSET Pids, NEW surely \in BOOLEAN,
         Signal(targets, surely), todo' = todo \ {x},
         pipeline' \in BOOLEAN, phase' = phase, seen' = seen,
         groups' = groups, reading' = reading, listed' = listed,
         phase \in {"term groups", "term processes", "kill groups", "kill processes"},
         phase = "kill groups" => surely /\ targets = Members(x),
         phase = "kill processes" => surely /\ targets = {x} /\ (Alive(x) => x \notin foreign)
  PROVE  IInv'
<1>1. PICK D \in SUBSET {p \in targets \ foreign : Alive(p)} :
        /\ End(D) /\ missed' = missed /\ still' = still
        /\ surely => D = {p \in targets \ foreign : Alive(p)}
  BY DEF Signal
<1>0. /\ TypeOK /\ Family /\ Led /\ Reachable /\ Stood /\ Killed /\ D \in SUBSET Pids
      /\ \A p \in D : Alive(p)
      /\ phase' = phase /\ seen' = seen /\ groups' = groups
      /\ reading' = reading /\ listed' = listed
  BY <1>1 DEF IInv
<1>2. /\ life' \in [Pids -> {"unborn", "alive", "zombie", "gone"}]
      /\ parent' \in [Pids -> Pids \cup {Outside}] /\ group' = group /\ foreign' = foreign
      /\ hidden' \subseteq hidden /\ mainless' \subseteq mainless
      /\ \A p \in Pids : /\ Alive(p)' <=> Alive(p) /\ p \notin D
                         /\ Born(p)' <=> Born(p)
      /\ Family'
  BY <1>0, <1>1, EndFacts
<1>3. TypeOK'
  BY <1>0, <1>1, <1>2 DEF TypeOK
<1>4. Led'
  BY <1>0, <1>2 DEF Led, Leads
<1>5. Reachable'
  BY <1>0, <1>1, <1>2 DEF Reachable, Unfound
<1>6. Killed'
  <2>1. \A p \in seen \cup listed : Born(p)'
    BY <1>0, <1>2 DEF Killed, TypeOK
  <2>2. ASSUME phase = "kill groups", NEW p \in Pids, Alive(p)', p \notin foreign
        PROVE  group[p] \notin groups \ todo'
    <3>1. Alive(p) /\ p \notin D /\ D = {q \in Members(x) \ foreign : Alive(q)}
      BY <1>1, <1>2, <2>2
    <3>2. group[p] \notin groups \ todo
      BY <1>0, <2>2, <3>1 DEF Killed
    <3>3. group[p] # x
      BY <2>2, <3>1 DEF Members, Alive
    <3> QED
      BY <3>2, <3>3
  <2>3. ASSUME phase = "kill processes", NEW p \in Pids, Alive(p)'
        PROVE  /\ p \notin foreign => group[p] \notin groups
               /\ p \in seen => p \in todo'
    <3>1. Alive(p) /\ p \notin D /\ D = {q \in {x} \ foreign : Alive(q)}
      BY <1>1, <1>2, <2>3
    <3>2. p \notin foreign => group[p] \notin groups
      BY <1>0, <2>3, <3>1 DEF Killed
    <3>3. p \in seen => p \in todo
      BY <1>0, <2>3, <3>1 DEF Killed
    <3>4. p # x
      BY <2>3, <3>1
    <3> QED
      BY <3>2, <3>3, <3>4
  <2>4. phase \in {"term groups", "kill groups"} => todo' \subseteq groups
    BY <1>0 DEF Killed
  <2>5. phase = "kill groups" =>
          \A p \in Pids : Alive(p)' /\ p \notin foreign => group'[p] \notin groups \ todo'
    BY <1>2, <2>2
  <2>6. phase = "kill processes" =>
          \A p \in Pids : Alive(p)' =>
            /\ p \notin foreign => group'[p] \notin groups
            /\ p \in seen => p \in todo'
    BY <1>2, <2>3
  <2>7. phase' # "done" /\ phase' = phase /\ seen' = seen /\ listed' = listed /\ groups' = groups /\ foreign' = foreign
    BY <1>0, <1>2
  <2>8. /\ \A p \in seen' \cup listed' : Born(p)'
        /\ phase' \in {"term groups", "kill groups"} => todo' \subseteq groups'
        /\ phase' = "kill groups" =>
             \A p \in Pids : Alive(p)' /\ p \notin foreign' => group'[p] \notin groups' \ todo'
        /\ phase' \in {"kill processes", "done"} =>
             \A p \in Pids : Alive(p)' =>
               /\ p \notin foreign' => group'[p] \notin groups'
               /\ p \in seen' => p \in todo'
        /\ phase' = "done" => todo' = {}
    BY <2>1, <2>4, <2>5, <2>6, <2>7
  <2> QED
    BY <2>8 DEF Killed
<1>7. Family' /\ Stood'
  <2>1. phase' = "term groups" => todo' # groups'
    BY <1>0 DEF Killed
  <2> QED
    BY <1>0, <1>2, <2>1 DEF Stood
<1> QED
  BY <1>3, <1>4, <1>5, <1>6, <1>7 DEF IInv

LEMMA SignalGroupKeeps ==
  ASSUME IInv, NEW g \in Pids, TermGroup(g) \/ KillGroup(g)
  PROVE  IInv'
<1>1. PICK surely \in BOOLEAN :
        /\ phase = IF surely THEN "kill groups" ELSE "term groups"
        /\ g \in todo /\ todo' = todo \ {g}
        /\ Signal(Members(g), surely)
        /\ pipeline' \in {pipeline, FALSE}
        /\ phase' = phase /\ seen' = seen /\ groups' = groups
        /\ reading' = reading /\ listed' = listed
  BY DEF TermGroup, KillGroup, SignalGroup
<1>2. pipeline' \in BOOLEAN
  BY <1>1 DEF IInv, TypeOK
<1>3. Members(g) \in SUBSET Pids
  BY DEF Members
<1> QED
  BY <1>1, <1>2, <1>3, SignalKeeps

LEMMA SignalProcessKeeps ==
  ASSUME IInv, NEW p \in Pids, TermProcess(p) \/ KillProcess(p)
  PROVE  IInv'
<1>1. PICK surely \in BOOLEAN :
        /\ phase = IF surely THEN "kill processes" ELSE "term processes"
        /\ p \in todo /\ todo' = todo \ {p}
        /\ ~ Refused({p} \cap {q \in Pids : life[q] # "gone"})
        /\ Signal({p}, surely)
        /\ pipeline' = pipeline /\ phase' = phase /\ seen' = seen
        /\ groups' = groups /\ reading' = reading /\ listed' = listed
  BY DEF TermProcess, KillProcess, SignalProcess
<1>2. Alive(p) => p \notin foreign
  BY <1>1 DEF Alive, Refused
<1>3. {p} \in SUBSET Pids /\ pipeline' \in BOOLEAN
  BY <1>1 DEF IInv, TypeOK
<1> QED
  BY <1>1, <1>2, <1>3, SignalKeeps

LEMMA SignalRefusedKeeps ==
  ASSUME IInv, SignalRefused
  PROVE  IInv'
<1>0. /\ TypeOK /\ Family /\ Led /\ Reachable /\ Stood /\ Killed
      /\ phase \in {"term groups", "kill groups", "term processes", "kill processes"}
      /\ phase' = "failed" /\ todo' = {}
      /\ UNCHANGED job /\ seen' = seen /\ groups' = groups /\ missed' = missed
      /\ reading' = reading /\ listed' = listed /\ still' = still
  BY DEF IInv, SignalRefused, Turn
<1>1. TypeOK'
  BY <1>0, SameJob DEF TypeOK, Phases
<1>2. Led'
  BY <1>0, SameJob DEF Led, Leads
<1>3. Reachable'
  BY <1>0, SameJob DEF Reachable, Unfound
<1>4. Killed' /\ Stood'
  BY <1>0, SameJob DEF Killed, Stood
<1> QED
  BY <1>0, <1>1, <1>2, <1>3, <1>4, SameJob DEF IInv

(* Nobody is left who can still be come upon when the walk has ended: the  *)
(* oldest of them would have an older parent among them.                   *)
LEMMA WalkEnds ==
  ASSUME IInv, phase = "collect", todo = {}
  PROVE  \A q \in Pids : ~ Unfound(q)
<1> DEFINE Lost == {q \in Pids : Unfound(q)}
<1>1. SUFFICES ASSUME Lost # {} PROVE FALSE
  OBVIOUS
<1>2. Lost \in SUBSET Nat
  BY Numbers
<1>3. PICK q \in Lost : \A r \in Lost : q <= r
  BY <1>1, <1>2, LeastElement
<1>4. q # Root /\ q \in Pids /\ Unfound(q)
  BY <1>3 DEF IInv, Reachable, Unfound
<1>5. parent[q] \in Pids /\ parent[q] \notin seen \cup listed \cup missed
  <2>1. Front = {}
    BY Numbers DEF IInv, TypeOK, Reachable, Front
  <2> QED
    BY <1>4, <2>1 DEF IInv, Reachable
<1>6. Alive(parent[q]) /\ parent[q] < q
  BY <1>4, <1>5, Numbers DEF IInv, Family
<1>7. parent[q] \in Lost
  BY <1>5, <1>6 DEF Unfound
<1>8. q <= parent[q]
  BY <1>3, <1>7
<1>9. q \in Nat /\ parent[q] \in Nat
  BY <1>4, <1>5, Numbers
<1> QED
  BY <1>6, <1>8, <1>9

LEMMA NextPhaseKeeps ==
  ASSUME IInv, NextPhase
  PROVE  IInv'
<1>0. /\ TypeOK /\ Family /\ Led /\ Reachable /\ Stood /\ Killed /\ todo = {}
      /\ UNCHANGED job /\ seen' = seen /\ groups' = groups /\ missed' = missed
      /\ reading' = reading /\ listed' = listed /\ still' = still
  BY DEF IInv, NextPhase
<1>1. \/ phase = "collect" /\ phase' = "groups" /\ todo' = seen
      \/ phase = "groups" /\ phase' = "term groups" /\ todo' = groups
      \/ phase = "term groups" /\ phase' = "term processes" /\ todo' = seen
      \/ phase = "term processes" /\ phase' = "kill groups" /\ todo' = groups
      \/ phase = "kill groups" /\ phase' = "kill processes" /\ todo' = seen
      \/ phase = "kill processes" /\ phase' = "done" /\ todo' = {}
  BY DEF NextPhase, Turn
<1>2. TypeOK'
  BY <1>0, <1>1, SameJob DEF TypeOK, Phases
<1>3. Led'
  BY <1>0, SameJob DEF Led, Leads
<1>4. Reachable'
  <2>1. \A q \in Pids : ~ Unfound(q)
    BY <1>0, <1>1, WalkEnds DEF Reachable
  <2> QED
    BY <1>0, <1>1, <2>1, SameJob DEF Reachable, Unfound
<1>5. Killed'
  <2>1. /\ phase' = "kill groups" => todo' = groups
        /\ phase' \in {"term groups", "kill groups"} => todo' = groups
        /\ phase' = "kill processes" => phase = "kill groups" /\ todo' = seen
        /\ phase' = "done" => phase = "kill processes" /\ todo' = {}
    BY <1>1
  <2>2. \A p \in (seen \cup listed)' : Born(p)'
    BY <1>0, SameJob DEF Killed
  <2>3. phase' \in {"kill processes", "done"} =>
          \A p \in Pids : Alive(p)' =>
            /\ p \notin foreign => group[p] \notin groups
            /\ p \in seen => p \in todo'
    BY <1>0, <2>1, SameJob DEF Killed
  <2> QED
    BY <1>0, <2>1, <2>2, <2>3, SameJob DEF Killed
<1>6. Stood'
  <2>1. phase' = "groups" => phase = "collect" /\ todo' = seen
    BY <1>1
  <2>2. phase' = "term groups" => phase = "groups" /\ todo' = groups
    BY <1>1
  <2>3. phase' # "collect"
    BY <1>1
  <2> QED
    BY <1>0, <2>1, <2>2, <2>3, SameJob DEF Stood, ListsRead, GroupsAsked
<1> QED
  BY <1>0, <1>2, <1>3, <1>4, <1>5, <1>6, SameJob DEF IInv

-----------------------------------------------------------------------------
(* The theorems.                                                           *)

LEMMA StepInv == IInv /\ [Next]_vars => IInv'
<1> SUFFICES ASSUME IInv, [Next]_vars PROVE IInv'
  OBVIOUS
<1>1. CASE UNCHANGED vars
  <2>1. /\ UNCHANGED job /\ missed' = missed /\ still' = still
        /\ phase' = phase /\ seen' = seen /\ groups' = groups /\ todo' = todo
        /\ reading' = reading /\ listed' = listed
    BY <1>1 DEF vars, cancel
  <2>2. TypeOK' /\ Led' /\ Reachable'
    BY <2>1, SameJob DEF IInv, TypeOK, Led, Leads, Reachable, Unfound, Front
  <2>3. Killed'
    BY <2>1, SameJob DEF IInv, Killed
  <2>4. Stood'
    BY <2>1, SameJob DEF IInv, Stood, ListsRead, GroupsAsked
  <2> QED
    BY <2>1, <2>2, <2>3, <2>4, SameJob DEF IInv
<1>2. CASE JobStep
  BY <1>2, ForkKeeps, SetsidKeeps, ChangeUserKeeps, ExitKeeps, ReapKeeps, ThreadsKeep,
     PipelineEndsKeeps DEF JobStep
<1>3. CASE CancelStep
  BY <1>3, BeginKeeps, NextPhaseKeeps, SignalRefusedKeeps, OpenListKeeps, ReadChildKeeps,
     CloseListKeeps, AskGroupKeeps,
     SignalGroupKeeps, SignalProcessKeeps DEF CancelStep
<1> QED
  BY <1>1, <1>2, <1>3 DEF Next

LEMMA Invariant == Spec => []IInv
BY InitInv, StepInv, PTL DEF Spec

(* The lists of cancel_job are processes of the job, whatever the job does *)
(* meanwhile.                                                              *)
THEOREM TypeCorrect == Spec => []TypeOK
<1>1. IInv => TypeOK
  BY DEF IInv
<1> QED
  BY <1>1, Invariant, PTL

(* Whoever is alive when cancel_job reports success was missed by the walk *)
(* for one of the reasons a walk can miss somebody, and has left its       *)
(* groups or its user (collect_process_tree, job_process_groups and the    *)
(* four rounds of signals, src/process.rs).                                *)
THEOREM OnlyMissedSurviveCorrect == Spec => []OnlyMissedSurvive
<1>1. IInv => OnlyMissedSurvive
  BY Numbers DEF IInv, TypeOK, Reachable, Unfound, Killed, OnlyMissedSurvive
<1> QED
  BY <1>1, Invariant, PTL

(* Of a job that stands still, the walk leaves out the children of threads *)
(* other than the main one and what is below them, nobody else, and asks   *)
(* for every group it can signal (collect_process_tree,                    *)
(* job_process_groups, src/process.rs).                                    *)
THEOREM StillJobCoveredCorrect == Spec => []StillJobCovered
<1>1. IInv => StillJobCovered
  <2> SUFFICES ASSUME IInv, phase = "term groups", todo = groups, still
               PROVE  StillJobCovered
    BY DEF StillJobCovered
  <2> DEFINE others == hidden \cap Below({Root})
             tree == {Root} \cup Below({Root})
             S == tree \cap (seen \cup others \cup Below(others))
  <2>1. ListsRead(seen) /\ GroupsAsked(seen) /\ Root \in seen
    BY DEF IInv, Stood, Reachable
  <2>2. {Root} \in SUBSET Pids /\ others \in SUBSET Pids /\ tree \subseteq Pids
    <3>1. {Root} \in SUBSET Pids
      BY Numbers
    <3>2. Below({Root}) \subseteq Pids
      BY <3>1, BelowFacts
    <3> QED
      BY <3>1, <3>2
  <2>3. \A r \in tree : Children(r) \subseteq tree
    BY <2>2, BelowFacts
  <2>4. ASSUME NEW r \in S PROVE Children(r) \subseteq S
    <3>1. CASE r \in seen
      <4>1. Children(r) \subseteq seen \cup (Children(r) \cap hidden)
        BY <2>1, <3>1 DEF ListsRead, Listed
      <4>2. Root \notin Children(r)
        BY <2>2, Numbers DEF IInv, Family, Children
      <4> QED
        BY <2>3, <2>4, <4>1, <4>2
    <3>2. CASE r \in others \cup Below(others)
      <4>1. Children(r) \subseteq others \cup Below(others)
        BY <2>2, <3>2, BelowFacts
      <4> QED
        BY <2>3, <2>4, <4>1
    <3> QED
      BY <2>4, <3>1, <3>2
  <2>5. S \in SUBSET Pids /\ {Root} \subseteq S
    BY <2>1, <2>2
  <2>6. \A T \in SUBSET Pids :
          {Root} \subseteq T /\ (\A p \in T : Children(p) \subseteq T) => Below({Root}) \subseteq T
    BY <2>2, BelowFacts
  <2>7. Below({Root}) \subseteq S
    BY <2>4, <2>5, <2>6
  <2> QED
    BY <2>1, <2>7 DEF StillJobCovered, GroupsAsked
<1> QED
  BY <1>1, Invariant, PTL
=============================================================================
