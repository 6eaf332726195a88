------------------------ MODULE TopologyDetectProofs ------------------------
(***************************************************************************)
(* Why no two detected cores share a CPU, on every machine, and why, where *)
(* every CPU tells its core, they are the cores of the hardware.           *)
(***************************************************************************)
EXTENDS TopologyDetect, FiniteSetTheorems, TLAPS

(* A CPU that was visited is in one group at most, and one that was not is *)
(* in none.                                                                *)
Grouped ==
  /\ left \subseteq cpus
  /\ \A k \in DOMAIN groups : groups[k] # {} /\ groups[k] \subseteq cpus \ left
  /\ \A k, l \in DOMAIN groups : k # l => groups[k] \cap groups[l] = {}

LEMMA PutGrouped ==
  ASSUME Grouped, NEW cpu \in left, NEW key, NEW group,
         Put(key, group), left' = left \ {cpu}, cpus' = cpus,
         cpu \in group, group \subseteq Members(key) \cup {cpu}
  PROVE  Grouped'
<1>1. /\ DOMAIN groups' = DOMAIN groups \cup {key} /\ groups'[key] = group
      /\ \A k \in DOMAIN groups \ {key} : groups'[k] = groups[k]
  BY DEF Put
<1>2. \A k \in DOMAIN groups : cpu \notin groups[k]
  BY DEF Grouped
<1>3. Members(key) \subseteq cpus \ left
      /\ \A k \in DOMAIN groups \ {key} : Members(key) \cap groups[k] = {}
  BY DEF Grouped, Members
<1>4. \A k \in DOMAIN groups' : groups'[k] # {} /\ groups'[k] \subseteq cpus' \ left'
  BY <1>1, <1>3 DEF Grouped
<1>5. \A k, l \in DOMAIN groups' : k # l => groups'[k] \cap groups'[l] = {}
  BY <1>1, <1>2, <1>3 DEF Grouped
<1> QED
  BY <1>4, <1>5 DEF Grouped

LEMMA GroupedInit == Init => Grouped
BY DEF Init, Grouped

LEMMA GroupedStep == Grouped /\ [Next]_vars => Grouped'
<1> SUFFICES ASSUME Grouped, [Next]_vars PROVE Grouped'
  OBVIOUS
<1>1. ASSUME NEW cpu \in left, Visit(cpu)
      PROVE  Grouped'
  <2>1. PICK id \in sys[cpu].core :
          Put(<<sys[cpu].pkg, id>>, Members(<<sys[cpu].pkg, id>>) \cup {cpu})
    BY <1>1 DEF Visit
  <2> DEFINE key == <<sys[cpu].pkg, id>>
  <2>2. Put(key, Members(key) \cup {cpu})
    BY <2>1
  <2> HIDE DEF key
  <2> QED
    BY <1>1, <2>2, PutGrouped DEF Visit
<1>2. ASSUME NEW cpu \in left, VisitUnnumbered(cpu)
      PROVE  Grouped'
  <2> DEFINE key == <<cpu, sys[cpu].pkg>>
  <2>1. Put(key, {cpu})
    BY <1>2 DEF VisitUnnumbered
  <2> HIDE DEF key
  <2> QED
    BY <1>2, <2>1, PutGrouped DEF VisitUnnumbered
<1>3. ASSUME NEW p \in 1 .. MaxCpus, Fallback(p)
      PROVE  Grouped'
  <2>1. left = {} /\ left' = {}
    BY <1>3 DEF Fallback, Grouped
  <2>2. groups' = [k \in {0} \X cpus' |-> {k[2]}]
    BY <1>3 DEF Fallback
  <2>3. DOMAIN groups' = {0} \X cpus' /\ \A k \in {0} \X cpus' : groups'[k] = {k[2]}
    BY <2>2
  <2>4. \A k, l \in {0} \X cpus' : k[2] \in cpus' /\ (k # l => k[2] # l[2])
    OBVIOUS
  <2> QED
    BY <2>1, <2>3, <2>4 DEF Grouped
<1>4. CASE UNCHANGED vars
  BY <1>4 DEF vars, Grouped
<1> QED
  BY <1>1, <1>2, <1>3, <1>4 DEF Next

(* Every detected core has CPUs of the machine, and no two share one.      *)
THEOREM OwnCpusAlways == Spec => []OwnCpus
<1>1. Grouped => OwnCpus
  <2> SUFFICES ASSUME Grouped PROVE OwnCpus
    OBVIOUS
  <2>1. ASSUME NEW c, NEW d, c # d, NEW x \in LogicalCpus(c), x \in LogicalCpus(d)
        PROVE  FALSE
    <3>1. PICK k \in DOMAIN groups : CoreNumber(k) = c /\ x \in groups[k]
      BY DEF LogicalCpus, PairOf
    <3>2. PICK l \in DOMAIN groups : CoreNumber(l) = d /\ x \in groups[l]
      BY <2>1 DEF LogicalCpus, PairOf
    <3> QED
      BY <2>1, <3>1, <3>2 DEF Grouped
  <2> QED
    BY <2>1 DEF OwnCpus, Grouped
<1> QED
  BY <1>1, GroupedInit, GroupedStep, PTL DEF Spec

-----------------------------------------------------------------------------
(* Where every CPU has a core_id, the groups are the cores.                *)

Listed == sys \in Machines /\ (DOMAIN sys # {} => cpus = DOMAIN sys)

AllNumbered == DOMAIN sys # {} /\ \A c \in cpus : sys[c].core # {}

IsKeyOf(k, c) == \E id \in sys[c].core : k = <<sys[c].pkg, id>>

(* The groups are those of the CPUs visited so far, and none is missing.   *)
Sorted == AllNumbered =>
  /\ \A k \in DOMAIN groups : groups[k] = {c \in cpus \ left : IsKeyOf(k, c)}
  /\ \A c \in cpus \ left : \A id \in sys[c].core : <<sys[c].pkg, id>> \in DOMAIN groups

LEMMA MachineFacts ==
  ASSUME Listed, NEW c \in DOMAIN sys
  PROVE  /\ c \in Nat /\ c \in 0 .. (MaxCpus - 1) /\ sys[c].pkg \in Nat
         /\ sys[c] = [pkg |-> sys[c].pkg, core |-> sys[c].core]
         /\ sys[c].core \subseteq Nat /\ \A i, j \in sys[c].core : i = j
<1>1. PICK L \in SUBSET Listable : sys \in [L -> [pkg : Packages, core : CoreIds]]
  BY DEF Listed, Machines
<1>2. c \in Listable /\ sys[c] \in [pkg : Packages, core : CoreIds]
  BY <1>1
<1>3. c \in Nat /\ c \in 0 .. (MaxCpus - 1)
  BY <1>2, DetectAssumption DEF Listable
<1>4. /\ sys[c].pkg \in Packages /\ sys[c].core \in CoreIds
      /\ sys[c] = [pkg |-> sys[c].pkg, core |-> sys[c].core]
  BY <1>2
<1> QED
  BY <1>3, <1>4, DetectAssumption

LEMMA SortedInit == Init => Listed /\ Sorted
BY DEF Init, Listed, Sorted, AllNumbered

LEMMA SortedStep == Listed /\ Grouped /\ Sorted /\ [Next]_vars => Listed' /\ Sorted'
<1> SUFFICES ASSUME Listed, Grouped, Sorted, [Next]_vars
             PROVE  Listed' /\ Sorted'
  OBVIOUS
<1>1. ASSUME NEW cpu \in left, Visit(cpu)
      PROVE  Listed' /\ Sorted'
  <2>1. /\ left' = left \ {cpu} /\ sys' = sys /\ cpus' = cpus /\ cpu \in cpus
    BY <1>1 DEF Visit, Grouped
  <2>2. Listed'
    BY <2>1 DEF Listed
  <2>3. PICK id \in sys[cpu].core :
          Put(<<sys[cpu].pkg, id>>, Members(<<sys[cpu].pkg, id>>) \cup {cpu})
    BY <1>1 DEF Visit
  <2> DEFINE key == <<sys[cpu].pkg, id>>
             group == Members(key) \cup {cpu}
  <2>4. ASSUME AllNumbered
        PROVE  \A k : IsKeyOf(k, cpu) <=> k = key
    <3>1. cpu \in DOMAIN sys
      BY <2>1, <2>4 DEF Listed, AllNumbered
    <3> QED
      BY <3>1, MachineFacts DEF IsKeyOf
  <2>5. \A c \in cpus : \A i \in sys[c].core : IsKeyOf(<<sys[c].pkg, i>>, c)
    BY DEF IsKeyOf
  <2>6. /\ DOMAIN groups' = DOMAIN groups \cup {key} /\ groups'[key] = group
        /\ \A k \in DOMAIN groups \ {key} : groups'[k] = groups[k]
    BY <2>3 DEF Put
  <2> HIDE DEF key
  <2>7. ASSUME AllNumbered
        PROVE  Members(key) = {c \in cpus \ left : IsKeyOf(key, c)}
    <3>1. CASE key \in DOMAIN groups
      BY <2>7, <3>1 DEF Sorted, Members
    <3>2. CASE key \notin DOMAIN groups
      <4>1. \A c \in cpus \ left : ~ IsKeyOf(key, c)
        BY <2>7, <3>2 DEF Sorted, IsKeyOf
      <4> QED
        BY <3>2, <4>1 DEF Members
    <3> QED
      BY <3>1, <3>2
  <2>8. \A k, c : IsKeyOf(k, c)' <=> IsKeyOf(k, c)
    BY <2>1 DEF IsKeyOf
  <2>9. cpus' \ left' = (cpus \ left) \cup {cpu}
    BY <2>1
  <2>10. ASSUME AllNumbered
         PROVE  /\ \A k \in DOMAIN groups' : groups'[k] = {c \in cpus' \ left' : IsKeyOf(k, c)}
                /\ \A c \in cpus' \ left' : \A i \in sys[c].core :
                     <<sys[c].pkg, i>> \in DOMAIN groups'
    <3>1. ASSUME NEW k \in DOMAIN groups'
          PROVE  groups'[k] = {c \in cpus' \ left' : IsKeyOf(k, c)}
      <4>1. CASE k = key
        BY <2>4, <2>6, <2>7, <2>9, <2>10, <4>1
      <4>2. CASE k # key
        <5>1. k \in DOMAIN groups /\ groups'[k] = {c \in cpus \ left : IsKeyOf(k, c)}
          BY <2>6, <2>10, <4>2 DEF Sorted
        <5> QED
          BY <2>4, <2>9, <2>10, <4>2, <5>1
      <4> QED
        BY <4>1, <4>2
    <3>2. ASSUME NEW c \in cpus' \ left', NEW i \in sys[c].core
          PROVE  <<sys[c].pkg, i>> \in DOMAIN groups'
      <4>1. CASE c = cpu
        BY <2>1, <2>4, <2>5, <2>6, <2>10, <4>1
      <4>2. CASE c # cpu
        BY <2>6, <2>9, <2>10, <4>2 DEF Sorted
      <4> QED
        BY <4>1, <4>2
    <3> QED
      BY <3>1, <3>2
  <2>11. AllNumbered' => AllNumbered
    BY <2>1 DEF AllNumbered
  <2>12. Sorted'
    BY <2>1, <2>8, <2>10, <2>11 DEF Sorted
  <2> QED
    BY <2>2, <2>12
<1>2. ASSUME NEW cpu \in left, VisitUnnumbered(cpu)
      PROVE  Listed' /\ Sorted'
  BY <1>2 DEF VisitUnnumbered, Listed, Sorted, AllNumbered, Grouped
<1>3. ASSUME NEW p \in 1 .. MaxCpus, Fallback(p)
      PROVE  Listed' /\ Sorted'
  BY <1>3 DEF Fallback, Listed, Sorted, AllNumbered
<1>4. CASE UNCHANGED vars
  BY <1>4 DEF vars, Listed, Sorted, AllNumbered, IsKeyOf
<1> QED
  BY <1>1, <1>2, <1>3, <1>4 DEF Next

(* The cores are numbered from 0 on, in the order of their keys.           *)
LEMMA Numbering ==
  ASSUME DOMAIN groups \subseteq Int \X Int, IsFiniteSet(DOMAIN groups)
  PROVE  /\ \A k \in DOMAIN groups : CoreNumber(k) \in 0 .. (Cardinality(DOMAIN groups) - 1)
         /\ \A k, l \in DOMAIN groups : CoreNumber(k) = CoreNumber(l) => k = l
<1> DEFINE keys == DOMAIN groups
           Before(x) == {k \in keys : KeyBefore(k, x)}
<1>1. \A x, y, z \in keys :
        /\ ~ KeyBefore(x, x)
        /\ KeyBefore(x, y) /\ KeyBefore(y, z) => KeyBefore(x, z)
        /\ x # y => KeyBefore(x, y) \/ KeyBefore(y, x)
  <2>1. \A x \in Int \X Int : x = <<x[1], x[2]>> /\ x[1] \in Int /\ x[2] \in Int
    OBVIOUS
  <2> SUFFICES ASSUME NEW x \in Int \X Int, NEW y \in Int \X Int, NEW z \in Int \X Int
               PROVE  /\ ~ KeyBefore(x, x)
                      /\ KeyBefore(x, y) /\ KeyBefore(y, z) => KeyBefore(x, z)
                      /\ x # y => KeyBefore(x, y) \/ KeyBefore(y, x)
    OBVIOUS
  <2> QED
    BY <2>1 DEF KeyBefore
<1>2. Cardinality(keys) \in Nat
  BY FS_CardinalityType
<1>3. \A x : CoreNumber(x) = Cardinality(Before(x))
  BY DEF CoreNumber
<1>4. \A x, y \in keys : KeyBefore(x, y) => Before(x) \subseteq Before(y) /\ x \in Before(y)
  BY <1>1
<1>5. \A x \in keys : x \notin Before(x) /\ Before(x) \subseteq keys
  BY <1>1
<1> HIDE DEF keys, Before
<1>6. \A x \in keys : IsFiniteSet(Before(x)) /\ Cardinality(Before(x)) \in Nat
  BY <1>5, FS_Subset, FS_CardinalityType DEF keys
<1>7. ASSUME NEW x \in keys
      PROVE  Cardinality(Before(x)) <= Cardinality(keys) - 1
  <2>1. Before(x) \subseteq keys \ {x}
    BY <1>5
  <2>2. IsFiniteSet(keys \ {x}) /\ Cardinality(keys \ {x}) = Cardinality(keys) - 1
    BY <1>7, FS_RemoveElement DEF keys
  <2> QED
    BY <2>1, <2>2, FS_Subset
<1>8. ASSUME NEW x \in keys, NEW y \in keys, KeyBefore(x, y)
      PROVE  Cardinality(Before(x)) # Cardinality(Before(y))
  BY <1>4, <1>5, <1>6, <1>8, FS_Subset
<1>9. \A x \in keys : CoreNumber(x) \in 0 .. (Cardinality(keys) - 1)
  BY <1>2, <1>3, <1>6, <1>7
<1>10. \A x, y \in keys : CoreNumber(x) = CoreNumber(y) => x = y
  BY <1>1, <1>3, <1>8 DEF keys
<1> QED
  BY <1>9, <1>10 DEF keys

(* The first two of a group of two at most are the group.                  *)
LEMMA WholePair ==
  ASSUME NEW group \in SUBSET Int, IsFiniteSet(group), Cardinality(group) <= 2
  PROVE  PairOf(group) = group
<1> SUFFICES ASSUME NEW c \in group
             PROVE  Cardinality({d \in group : d < c}) < 2
  BY DEF PairOf
<1>1. {d \in group : d < c} \subseteq group \ {c}
  OBVIOUS
<1> DEFINE less == {d \in group : d < c}
<1> HIDE DEF less
<1>2. IsFiniteSet(group \ {c}) /\ Cardinality(group \ {c}) = Cardinality(group) - 1
  BY FS_RemoveElement
<1>3. Cardinality(less) <= Cardinality(group \ {c})
  BY <1>1, <1>2, FS_Subset DEF less
<1>4. Cardinality(group) \in Nat /\ IsFiniteSet(less) /\ Cardinality(less) \in Nat
  BY <1>1, <1>2, FS_Subset, FS_CardinalityType DEF less
<1>5. Cardinality(less) < 2
  BY <1>2, <1>3, <1>4
<1> QED
  BY <1>5 DEF less

(* On a machine that tells the core of every CPU, each CPU is in one of    *)
(* the cores that are counted, together with its sibling and nobody else.  *)
THEOREM CoresAreCoresAlways == Spec => []CoresAreCores
<1>1. Listed /\ Grouped /\ Sorted => CoresAreCores
  <2> SUFFICES ASSUME Listed, Grouped, Sorted, Regular, NEW c \in cpus
               PROVE  \E core \in 0 .. (NumCores - 1) :
                        LogicalCpus(core) = {d \in cpus : SameCore(c, d)}
    BY DEF CoresAreCores
  <2>1. AllNumbered /\ cpus = DOMAIN sys /\ left = {} /\ cpus \subseteq 0 .. (MaxCpus - 1)
    BY MachineFacts DEF Regular, AllNumbered, Listed
  <2>2. PICK id : id \in sys[c].core
    BY DEF Regular
  <2> DEFINE key == <<sys[c].pkg, id>>
             pair == {d \in cpus : SameCore(c, d)}
  <2>3. \A d \in cpus : IsKeyOf(key, d) <=> SameCore(c, d)
    <3> SUFFICES ASSUME NEW d \in cpus
                 PROVE  IsKeyOf(key, d) <=> SameCore(c, d)
      OBVIOUS
    <3>1. /\ sys[c] = [pkg |-> sys[c].pkg, core |-> sys[c].core]
          /\ sys[d] = [pkg |-> sys[d].pkg, core |-> sys[d].core]
          /\ sys[c].core = {id} /\ sys[d].core # {}
          /\ \A i, j \in sys[d].core : i = j
      BY <2>1, <2>2, MachineFacts DEF AllNumbered
    <3>2. ASSUME IsKeyOf(key, d)
          PROVE  SameCore(c, d)
      <4>1. sys[d].pkg = sys[c].pkg /\ id \in sys[d].core
        BY <3>2 DEF IsKeyOf
      <4>2. sys[d].core = {id}
        BY <3>1, <4>1
      <4> QED
        BY <3>1, <4>1, <4>2 DEF SameCore
    <3>3. ASSUME SameCore(c, d)
          PROVE  IsKeyOf(key, d)
      BY <2>2, <3>3 DEF SameCore, IsKeyOf
    <3> QED
      BY <3>2, <3>3
  <2>4. key \in DOMAIN groups /\ groups[key] = pair
    BY <2>1, <2>2, <2>3 DEF Sorted
  <2>5. IsFiniteSet(cpus) /\ IsFiniteSet(pair)
    <3>1. IsFiniteSet(0 .. (MaxCpus - 1))
      <4>1. 0 \in Int /\ MaxCpus - 1 \in Int
        BY DetectAssumption
      <4> QED
        BY ONLY <4>1, FS_Interval, Zenon
    <3>2. IsFiniteSet(cpus)
      BY <2>1, <3>1, FS_Subset
    <3> QED
      BY <3>2, FS_Subset
  <2>6. PairOf(pair) = pair
    <3>1. pair \in SUBSET Int /\ Cardinality(pair) <= 2
      BY <2>1 DEF Regular
    <3> HIDE DEF pair
    <3> QED
      BY <2>5, <3>1, WholePair
  <2>7. DOMAIN groups \subseteq Int \X Int
    <3> SUFFICES ASSUME NEW k \in DOMAIN groups
                 PROVE  k \in Int \X Int
      OBVIOUS
    <3>1. PICK d \in cpus : IsKeyOf(k, d)
      BY <2>1 DEF Grouped, Sorted
    <3> QED
      BY <2>1, <3>1, MachineFacts DEF IsKeyOf
  <2>8. IsFiniteSet(DOMAIN groups)
    <3> DEFINE f == [k \in DOMAIN groups |-> CHOOSE d \in cpus : d \in groups[k]]
    <3>1. \A k \in DOMAIN groups : f[k] \in cpus /\ f[k] \in groups[k]
      BY DEF Grouped
    <3>2. f \in Injection(DOMAIN groups, cpus)
      <4>1. f \in [DOMAIN groups -> cpus]
        BY <3>1
      <4>2. ASSUME NEW k \in DOMAIN groups, NEW l \in DOMAIN groups, f[k] = f[l]
            PROVE  k = l
        <5> HIDE DEF f
        <5> QED
          BY <3>1, <4>2 DEF Grouped
      <4> HIDE DEF f
      <4> QED
        BY <4>1, <4>2 DEF Injection, IsInjective
    <3> HIDE DEF f
    <3> QED
      BY <2>5, <3>2, FS_Injection
  <2>9. NumCores = Cardinality(DOMAIN groups)
    <3>1. Cardinality(DOMAIN groups) \in Nat /\ Cardinality(DOMAIN groups) < U8Size
      BY <2>8, FS_CardinalityType DEF Regular
    <3> QED
      BY <3>1, DetectAssumption DEF NumCores, U8
  <2>10. /\ CoreNumber(key) \in 0 .. (NumCores - 1)
         /\ {l \in DOMAIN groups : CoreNumber(l) = CoreNumber(key)} = {key}
    BY <2>4, <2>7, <2>8, <2>9, Numbering
  <2>11. LogicalCpus(CoreNumber(key)) = pair
    BY <2>4, <2>6, <2>10 DEF LogicalCpus
  <2> QED
    BY <2>10, <2>11
<1> QED
  BY <1>1, GroupedInit, GroupedStep, SortedInit, SortedStep, PTL DEF Spec
=============================================================================
