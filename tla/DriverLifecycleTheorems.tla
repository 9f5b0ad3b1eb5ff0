----------------------- MODULE DriverLifecycleTheorems -----------------------
(***************************************************************************)
(* Theorems about the driver's memory, for any ring size, any number of    *)
(* writers, loads and writes, and any memory.                              *)
(***************************************************************************)
EXTENDS DriverLifecycle, FiniteSetTheorems, FunctionTheorems, TLAPS

RL == INSTANCE RingLemmas WITH Byte <- Block

(* The strings in an entry of the ring, one or none.                       *)
Strings(s) == ToSet(ring.entry[s])

Writers == {p \in Proc : file[p] = "write"}

Leaked == heap \ Owned

(* Each load has failed, or been undone, or is the one in force.           *)
LoadsCounted ==
    /\ RegionsLeftBehind
    /\ noMemory + (IF module = "out" THEN 0 ELSE 1) <= loads

(***************************************************************************)
(* What the device points to at each stage of loading; the ring and the    *)
(* files are empty until loading is done and again before unloading.       *)
(***************************************************************************)
InStage ==
    /\ \A f \in Field : dev[f] # Nothing =>
         \/ module = "live"
         \/ f = "circularBuffer" /\ module \in {"tempEntry", "lock", "cdev"}
         \/ f = "tempEntry" /\ module \in {"lock", "cdev"}
         \/ f = "lock" /\ module = "cdev"
    /\ module # "live" => \A p \in Proc : file[p] = "closed"
    /\ module # "live" => \A s \in 0 .. N - 1 : Strings(s) = {}
    /\ \A p \in Proc : temp[p] # Nothing <=> file[p] = "write"

(* Every pointer points to a block that is allocated.                      *)
PointsToHeap ==
    /\ \A f \in Field : dev[f] # Nothing => dev[f] \in heap
    /\ \A s \in 0 .. N - 1 : Strings(s) \subseteq heap
    /\ \A p \in Proc : temp[p] # Nothing => temp[p] \in heap

(* No two pointers point to one block.                                     *)
NoSharing ==
    /\ \A f, g \in Field : dev[f] # Nothing /\ dev[f] = dev[g] => f = g
    /\ \A s, t \in 0 .. N - 1 : \A b \in Strings(s) : b \in Strings(t) => s = t
    /\ \A p, q \in Proc : temp[p] # Nothing /\ temp[p] = temp[q] => p = q
    /\ \A f \in Field : dev[f] # Nothing =>
         /\ \A s \in 0 .. N - 1 : dev[f] \notin Strings(s)
         /\ \A p \in Proc : temp[p] # dev[f]
    /\ \A p \in Proc : temp[p] # Nothing => \A s \in 0 .. N - 1 : temp[p] \notin Strings(s)

(* The writes that have returned, each with the one block it left.         *)
LeaksCounted ==
    /\ IsFiniteSet(heap) /\ IsFiniteSet(Writers)
    /\ Cardinality(Leaked) = writes - Cardinality(Writers)

(***************************************************************************)
(* The inductive invariant.  Nothing that OnlyCopiesLeak counts can be     *)
(* followed through a step without NoSharing: a block that two pointers    *)
(* shared would not be lost with the first of them.                        *)
(***************************************************************************)
Inv ==
    /\ TypeOK
    /\ Buffer!RingInv(ring)
    /\ LoadsCounted
    /\ InStage
    /\ PointsToHeap /\ NoSharing
    /\ LeaksCounted

-------------------------------------------------------------------------------
(* The places of the definition of Pointers, one by one.                   *)
PointsTo(b) ==
    \/ b # Nothing /\ \E f \in Field : dev[f] = b
    \/ \E s \in 0 .. N - 1 : b \in Strings(s)
    \/ b # Nothing /\ \E p \in Proc : temp[p] = b

LEMMA PointersListed ==
    \A q : q \in Pointers <=>
      \/ \E f \in Field : dev[f] # Nothing /\ q = <<"device", f, dev[f]>>
      \/ \E s \in 0 .. N - 1 : \E b \in Strings(s) : q = <<"entry", s, b>>
      \/ \E p \in Proc : temp[p] # Nothing /\ q = <<"copy", p, temp[p]>>
BY SMT DEF Pointers, Strings

LEMMA OwnedBlocks == (\A b : b \in Owned <=> PointsTo(b)) /\ (\A b : b \in Owned' <=> PointsTo(b)')
<1>1. \A b : b \in Owned <=> PointsTo(b)
  <2>1. \A b : b \in Owned <=> \E q \in Pointers : b = q[3] BY DEF Owned
  <2>2. ASSUME NEW b, b \in Owned PROVE PointsTo(b)
    <3>1. PICK q \in Pointers : b = q[3] BY <2>1, <2>2
    <3> QED BY <3>1, PointersListed DEF PointsTo
  <2>3. ASSUME NEW q \in Pointers, NEW b, b = q[3] PROVE b \in Owned BY <2>1, <2>3
  <2>4. ASSUME NEW f \in Field, dev[f] # Nothing PROVE dev[f] \in Owned
    <3> DEFINE q == <<"device", f, dev[f]>>
    <3>1. q \in Pointers BY <2>4, PointersListed
    <3> QED BY <2>3, <3>1
  <2>5. ASSUME NEW s \in 0 .. N - 1, NEW b \in Strings(s) PROVE b \in Owned
    <3> DEFINE q == <<"entry", s, b>>
    <3>1. q \in Pointers BY PointersListed
    <3> QED BY <2>3, <3>1
  <2>6. ASSUME NEW p \in Proc, temp[p] # Nothing PROVE temp[p] \in Owned
    <3> DEFINE q == <<"copy", p, temp[p]>>
    <3>1. q \in Pointers BY <2>6, PointersListed
    <3> QED BY <2>3, <3>1
  <2> QED BY <2>2, <2>4, <2>5, <2>6 DEF PointsTo
<1>2. \A b : b \in Owned' <=> PointsTo(b)'
  <2>0. \A q : q \in Pointers' <=>
          \/ \E f \in Field : dev'[f] # Nothing /\ q = <<"device", f, dev'[f]>>
          \/ \E s \in 0 .. N - 1 : \E b \in Strings(s)' : q = <<"entry", s, b>>
          \/ \E p \in Proc : temp'[p] # Nothing /\ q = <<"copy", p, temp'[p]>>
    BY SMT DEF Pointers, Strings
  <2>1. \A b : b \in Owned' <=> \E q \in Pointers' : b = q[3] BY DEF Owned
  <2>2. ASSUME NEW b, b \in Owned' PROVE PointsTo(b)'
    <3>1. PICK q \in Pointers' : b = q[3] BY <2>1, <2>2
    <3> QED BY <3>1, <2>0 DEF PointsTo
  <2>3. ASSUME NEW q \in Pointers', NEW b, b = q[3] PROVE b \in Owned' BY <2>1, <2>3
  <2>4. ASSUME NEW f \in Field, dev'[f] # Nothing PROVE dev'[f] \in Owned'
    <3> DEFINE q == <<"device", f, dev'[f]>>
    <3>1. q \in Pointers' BY <2>4, <2>0
    <3> QED BY <2>3, <3>1
  <2>5. ASSUME NEW s \in 0 .. N - 1, NEW b \in Strings(s)' PROVE b \in Owned'
    <3> DEFINE q == <<"entry", s, b>>
    <3>1. q \in Pointers' BY <2>0
    <3> QED BY <2>3, <3>1
  <2>6. ASSUME NEW p \in Proc, temp'[p] # Nothing PROVE temp'[p] \in Owned'
    <3> DEFINE q == <<"copy", p, temp'[p]>>
    <3>1. q \in Pointers' BY <2>6, <2>0
    <3> QED BY <2>3, <3>1
  <2> QED BY <2>2, <2>4, <2>5, <2>6 DEF PointsTo
<1> QED BY <1>1, <1>2

LEMMA FreshBlocks ==
    ASSUME NEW b \in Fresh
    PROVE  b \in Block /\ b \notin heap /\ b # Nothing
BY BlockAssumption DEF Fresh, Nothing

(* The strings of a ring after add_entry: one entry is replaced.           *)
LEMMA EntryReplaced ==
    ASSUME ring \in Buffer!Ring, Buffer!RingInv(ring), NEW s \in Block,
           ring' = Buffer!AddEntry(ring, <<s>>), NEW k, k = ring.in_offs
    PROVE  /\ ring' \in Buffer!Ring /\ Buffer!RingInv(ring')
           /\ k \in 0 .. N - 1
           /\ Strings(k)' = {s}
           /\ \A t \in 0 .. N - 1 : t # k => Strings(t)' = Strings(t)
           /\ Overwritten = Strings(k)
<1>1. RL!Ring = Buffer!Ring BY DEF RL!Slot, Buffer!Slot, RL!Ring, Buffer!Ring
<1>2. RL!RingInv(ring) BY DEF RL!RingInv, Buffer!RingInv
<1>3. RL!AddEntry(ring, <<s>>) \in RL!Ring /\ RL!RingInv(RL!AddEntry(ring, <<s>>))
  <2>1. <<s>> \in Seq(Block) OBVIOUS
  <2> QED BY <1>1, <1>2, <2>1, RL!AddEntryShape, NAssumption
<1>4. ring' \in Buffer!Ring /\ Buffer!RingInv(ring')
  BY <1>1, <1>3 DEF RL!RingInv, Buffer!RingInv, RL!AddEntry, Buffer!AddEntry,
                    RL!Advance, Buffer!Advance
<1>5. /\ ring.in_offs \in 0 .. N - 1 /\ ring.entry \in [0 .. N - 1 -> Seq(Block)]
      /\ ring'.entry = [ring.entry EXCEPT ![ring.in_offs] = <<s>>]
  BY DEF Buffer!Ring, Buffer!Slot, Buffer!AddEntry
<1>6. ToSet(<<s>>) = {s} BY DEF ToSet
<1>7. Overwritten = Strings(ring.in_offs)
  <2>1. CASE ring.full BY <2>1 DEF Overwritten, Strings
  <2>2. CASE ~ring.full
    <3>1. N \in Nat /\ ring.in_offs \in ring.in_offs .. N - 1 BY <1>5, NAssumption
    <3>2. ring.entry[ring.in_offs] = <<>> BY <2>2, <3>1 DEF Buffer!RingInv
    <3> QED BY <2>2, <3>2 DEF Overwritten, Strings, ToSet
  <2> QED BY <2>1, <2>2
<1>8. Strings(k)' = {s} BY <1>5, <1>6 DEF Strings
<1>9. \A t \in 0 .. N - 1 : t # k => Strings(t)' = Strings(t) BY <1>5 DEF Strings
<1> QED BY <1>4, <1>5, <1>7, <1>8, <1>9

LEMMA EmptyStrings ==
    /\ Buffer!EmptyRing \in Buffer!Ring /\ Buffer!RingInv(Buffer!EmptyRing)
    /\ \A s \in 0 .. N - 1 : ToSet(Buffer!EmptyRing.entry[s]) = {}
<1>1. \A s \in 0 .. N - 1 : Buffer!EmptyRing.entry[s] = <<>> BY DEF Buffer!EmptyRing, Buffer!Slot
<1>2. ToSet(<<>>) = {} BY DEF ToSet
<1>3. Buffer!EmptyRing \in Buffer!Ring /\ Buffer!RingInv(Buffer!EmptyRing)
  BY NAssumption DEF Buffer!EmptyRing, Buffer!Ring, Buffer!RingInv, Buffer!Slot
<1> QED BY <1>1, <1>2, <1>3

LEMMA InitInv == Init => Inv
<1> SUFFICES ASSUME Init PROVE Inv OBVIOUS
<1> USE DEF Init
<1>1. TypeOK BY EmptyStrings, BoundsAssumption DEF TypeOK, NoDevice, Nothing, Field
<1>2. /\ \A s \in 0 .. N - 1 : Strings(s) = {}
      /\ \A f \in Field : dev[f] = Nothing
      /\ \A p \in Proc : temp[p] = Nothing
  BY EmptyStrings DEF Strings, NoDevice
<1>3. InStage /\ PointsToHeap /\ NoSharing BY <1>2 DEF InStage, PointsToHeap, NoSharing
<1>4. LoadsCounted BY DEF LoadsCounted, RegionsLeftBehind
<1>5. LeaksCounted
  <2>1. Writers = {} /\ Leaked = {} BY DEF Writers, Leaked
  <2> QED BY <2>1, FS_EmptySet DEF LeaksCounted
<1>6. Buffer!RingInv(ring) BY EmptyStrings
<1> QED BY <1>1, <1>3, <1>4, <1>5, <1>6 DEF Inv

-------------------------------------------------------------------------------
(* What a step does to the blocks that are lost, and to their number.      *)
LEMMA LeakedBlocks ==
    /\ \A b : b \in Leaked <=> b \in heap /\ ~PointsTo(b)
    /\ \A b : b \in Leaked' <=> b \in heap' /\ ~PointsTo(b)'
BY OwnedBlocks DEF Leaked

LEMMA NoneLost ==
    ASSUME LeaksCounted, IsFiniteSet(heap'),
           UNCHANGED writes, Writers' = Writers, Leaked' = Leaked
    PROVE  LeaksCounted'
BY DEF LeaksCounted

LEMMA WriteBegun ==
    ASSUME LeaksCounted, TypeOK, IsFiniteSet(heap'), writes' = writes + 1,
           NEW p, p \notin Writers, Writers' = Writers \cup {p}, Leaked' = Leaked
    PROVE  LeaksCounted'
<1>1. Cardinality(Writers') = Cardinality(Writers) + 1 /\ IsFiniteSet(Writers')
      /\ Cardinality(Writers) \in Nat
  BY FS_AddElement, FS_CardinalityType DEF LeaksCounted
<1>2. writes \in Nat BY BoundsAssumption DEF TypeOK
<1> QED BY <1>1, <1>2 DEF LeaksCounted

LEMMA OneLost ==
    ASSUME LeaksCounted, TypeOK, IsFiniteSet(heap'),
           NEW b, b \notin Leaked, Leaked' = Leaked \cup {b},
           \/ writes' = writes + 1 /\ Writers' = Writers
           \/ writes' = writes /\ \E p \in Writers : Writers' = Writers \ {p}
    PROVE  LeaksCounted'
<1>1. IsFiniteSet(Leaked)
  <2>1. Leaked \in SUBSET heap BY DEF Leaked
  <2> QED BY <2>1, FS_Subset DEF LeaksCounted
<1>2. Cardinality(Leaked') = Cardinality(Leaked) + 1 /\ Cardinality(Leaked) \in Nat
  BY <1>1, FS_AddElement, FS_CardinalityType
<1>3. writes \in Nat BY BoundsAssumption DEF TypeOK
<1>4. IsFiniteSet(Writers) /\ Cardinality(Writers) \in Nat
  BY FS_CardinalityType DEF LeaksCounted
<1>5. CASE writes' = writes + 1 /\ Writers' = Writers
  BY <1>2, <1>3, <1>4, <1>5 DEF LeaksCounted
<1>6. ASSUME writes' = writes, NEW p \in Writers, Writers' = Writers \ {p} PROVE LeaksCounted'
  <2>1. IsFiniteSet(Writers') /\ Cardinality(Writers') = Cardinality(Writers) - 1
    BY <1>4, <1>6, FS_RemoveElement
  <2> QED BY <1>2, <1>3, <1>4, <1>6, <2>1 DEF LeaksCounted
<1> QED BY <1>5, <1>6

-------------------------------------------------------------------------------
(***************************************************************************)
(* The steps, one by one.  Memory is the part of the invariant that is     *)
(* about blocks.                                                           *)
(***************************************************************************)
Memory == TypeOK /\ InStage /\ PointsToHeap /\ NoSharing /\ LeaksCounted

(* The steps that allocate and free nothing.                               *)
LEMMA QuietSteps ==
    ASSUME Memory, LoadRegion \/ AddCdev \/ \E p \in Proc : Open(p) \/ Release(p)
    PROVE  (InStage /\ PointsToHeap /\ NoSharing /\ LeaksCounted)'
<1>1. UNCHANGED <<heap, dev, ring, temp, writes>>
  BY DEF LoadRegion, AddCdev, Open, Release
<1>2. \A s \in 0 .. N - 1 : Strings(s)' = Strings(s) BY <1>1 DEF Strings
<1>3. PointsToHeap' /\ NoSharing' BY <1>1, <1>2 DEF Memory, PointsToHeap, NoSharing
<1>4. file \in [Proc -> {"closed", "open", "write"}] BY DEF Memory, TypeOK
<1>5. InStage'
  <2>1. CASE LoadRegion BY <1>1, <1>2, <2>1 DEF Memory, InStage, LoadRegion
  <2>2. CASE AddCdev BY <1>1, <1>2, <2>2 DEF Memory, InStage, AddCdev
  <2>3. ASSUME NEW p \in Proc, Open(p) \/ Release(p) PROVE InStage'
    BY <1>1, <1>2, <1>4, <2>3 DEF Memory, InStage, Open, Release, devVars
  <2> QED BY <2>1, <2>2, <2>3
<1>6. Writers' = Writers BY <1>4 DEF Writers, LoadRegion, AddCdev, Open, Release
<1>7. Leaked' = Leaked
  <2>1. \A b : PointsTo(b)' <=> PointsTo(b) BY <1>1, <1>2 DEF PointsTo
  <2> QED BY <1>1, <2>1, LeakedBlocks
<1>8. LeaksCounted' BY <1>1, <1>6, <1>7, NoneLost DEF Memory, LeaksCounted
<1> QED BY <1>3, <1>5, <1>8

LEMMA StepLoadAllocates ==
    ASSUME Memory, LoadAllocates
    PROVE  (InStage /\ PointsToHeap /\ NoSharing /\ LeaksCounted)'
<1>1. PICK b \in Fresh : heap' = heap \cup {b} /\ dev' = [dev EXCEPT ![module] = b]
  BY DEF LoadAllocates
<1>2. /\ module \in {"circularBuffer", "tempEntry", "lock"}
      /\ module = "circularBuffer" => module' = "tempEntry"
      /\ module = "tempEntry" => module' = "lock"
      /\ module = "lock" => module' = "cdev"
      /\ UNCHANGED <<ring, file, temp, writes>>
  BY DEF LoadAllocates, NextAllocation
<1>3. b \notin heap /\ b # Nothing BY <1>1, FreshBlocks
<1>4. \A s \in 0 .. N - 1 : Strings(s)' = Strings(s) BY <1>2 DEF Strings
<1>5. module \in Field /\ dev[module] = Nothing BY <1>2 DEF Memory, InStage, Field
<1>6. \A f \in Field : dev'[f] = IF f = module THEN b ELSE dev[f]
  BY <1>1, <1>5 DEF Memory, TypeOK
<1>7. InStage' BY <1>2, <1>4, <1>6 DEF Memory, InStage, Field
<1>8. PointsToHeap' BY <1>1, <1>2, <1>4, <1>6 DEF Memory, PointsToHeap
<1>9. NoSharing' BY <1>2, <1>3, <1>4, <1>6 DEF Memory, PointsToHeap, NoSharing
<1>10. Leaked' = Leaked
  <2>1. \A c : PointsTo(c)' <=> PointsTo(c) \/ c = b BY <1>2, <1>3, <1>4, <1>5, <1>6 DEF PointsTo
  <2> QED BY <1>1, <1>3, <2>1, LeakedBlocks
<1>11. IsFiniteSet(heap') BY <1>1, FS_AddElement DEF Memory, LeaksCounted
<1>12. Writers' = Writers BY <1>2 DEF Writers
<1>13. LeaksCounted' BY <1>2, <1>10, <1>11, <1>12, NoneLost DEF Memory
<1> QED BY <1>7, <1>8, <1>9, <1>13

(* The three ways the module goes: everything it points to is freed.       *)
LEMMA StepModuleGoes ==
    ASSUME Memory, LoadFails \/ AddCdevFails \/ Unload
    PROVE  (InStage /\ PointsToHeap /\ NoSharing /\ LeaksCounted)'
<1>1. module' = "out" /\ dev' = NoDevice /\ UNCHANGED <<file, temp, writes>>
  BY DEF LoadFails, AddCdevFails, Unload
<1>2. \A p \in Proc : file[p] = "closed" /\ temp[p] = Nothing
  BY DEF Memory, InStage, LoadFails, AddCdevFails, Unload, Unwound
<1>3. \A s \in 0 .. N - 1 : Strings(s)' = {}
  <2>1. CASE LoadFails \/ AddCdevFails
    BY <2>1 DEF Memory, InStage, LoadFails, AddCdevFails, Unwound, Strings
  <2>2. CASE Unload BY <2>2, EmptyStrings DEF Unload, Strings
  <2> QED BY <2>1, <2>2
<1>4. \A f \in Field : dev'[f] = Nothing BY <1>1 DEF NoDevice
<1>5. \A b : ~PointsTo(b)' BY <1>1, <1>2, <1>3, <1>4 DEF PointsTo
<1>6. \A b : b \in heap' <=> b \in heap /\ ~PointsTo(b)
  <2>0. heap \subseteq Block /\ Nothing \notin Block BY BlockAssumption DEF Memory, TypeOK, Nothing
  <2>1. CASE LoadFails \/ AddCdevFails
    <3>1. \A s \in 0 .. N - 1 : Strings(s) = {}
      BY <2>1 DEF Memory, InStage, LoadFails, AddCdevFails, Unwound
    <3>2. \A b : PointsTo(b) <=> b # Nothing /\ \E f \in Field : dev[f] = b
      BY <1>2, <3>1 DEF PointsTo
    <3>3. CASE AddCdevFails BY <2>0, <3>2, <3>3 DEF AddCdevFails
    <3>4. CASE LoadFails
      <4>1. \A b : b \in heap' <=> b \in heap /\ ~ \E f \in Unwound[module] : dev[f] = b
        BY <3>4 DEF LoadFails
      <4>2. \A f \in Field : dev[f] # Nothing => f \in Unwound[module]
        BY <3>4 DEF Memory, InStage, LoadFails, Unwound
      <4>3. Unwound[module] \subseteq Field BY <3>4 DEF LoadFails, Unwound, Field
      <4> QED BY <2>0, <3>2, <4>1, <4>2, <4>3
    <3> QED BY <2>1, <3>3, <3>4
  <2>2. CASE Unload
    <3>1. \A b : PointsTo(b) <=> \/ b # Nothing /\ \E f \in Field : dev[f] = b
                                \/ \E s \in 0 .. N - 1 : b \in Strings(s)
      BY <1>2 DEF PointsTo
    <3>2. \A b : b \in RingBlocks <=> \E s \in 0 .. N - 1 : b \in Strings(s)
      BY DEF RingBlocks, Strings
    <3> QED BY <2>0, <2>2, <3>1, <3>2 DEF Unload
  <2> QED BY <2>1, <2>2
<1>7. InStage' /\ PointsToHeap' /\ NoSharing'
  BY <1>1, <1>2, <1>3, <1>4 DEF InStage, PointsToHeap, NoSharing
<1>8. IsFiniteSet(heap')
  <2>1. heap' \in SUBSET heap BY <1>6
  <2> QED BY <2>1, FS_Subset DEF Memory, LeaksCounted
<1>9. Leaked' = Leaked BY <1>5, <1>6, LeakedBlocks
<1>10. Writers' = Writers BY <1>1 DEF Writers
<1> QED BY <1>1, <1>7, <1>8, <1>9, <1>10, NoneLost DEF Memory

LEMMA StepWriteCopies ==
    ASSUME Memory, NEW p \in Proc, WriteCopies(p)
    PROVE  (InStage /\ PointsToHeap /\ NoSharing /\ LeaksCounted)'
<1>1. PICK b \in Fresh : heap' = heap \cup {b} /\ temp' = [temp EXCEPT ![p] = b]
  BY DEF WriteCopies
<1>2. /\ file[p] = "open" /\ file' = [file EXCEPT ![p] = "write"] /\ writes' = writes + 1
      /\ UNCHANGED <<module, dev, ring>>
  BY DEF WriteCopies, devVars
<1>3. b \notin heap /\ b # Nothing BY <1>1, FreshBlocks
<1>4. \A s \in 0 .. N - 1 : Strings(s)' = Strings(s) BY <1>2 DEF Strings
<1>5. temp[p] = Nothing BY <1>2 DEF Memory, InStage
<1>6. /\ \A q \in Proc : temp'[q] = IF q = p THEN b ELSE temp[q]
      /\ \A q \in Proc : file'[q] = IF q = p THEN "write" ELSE file[q]
  BY <1>1, <1>2 DEF Memory, TypeOK
<1>7. module = "live" BY <1>2 DEF Memory, InStage
<1>8. InStage' BY <1>2, <1>3, <1>4, <1>6, <1>7 DEF Memory, InStage
<1>9. PointsToHeap' BY <1>1, <1>2, <1>4, <1>6 DEF Memory, PointsToHeap
<1>10. NoSharing' BY <1>2, <1>3, <1>4, <1>6 DEF Memory, PointsToHeap, NoSharing
<1>11. Leaked' = Leaked
  <2>1. \A c : PointsTo(c)' <=> PointsTo(c) \/ c = b BY <1>2, <1>3, <1>4, <1>5, <1>6 DEF PointsTo
  <2> QED BY <1>1, <1>3, <2>1, LeakedBlocks
<1>12. IsFiniteSet(heap') BY <1>1, FS_AddElement DEF Memory, LeaksCounted
<1>13. p \notin Writers /\ Writers' = Writers \cup {p} BY <1>2, <1>6 DEF Writers
<1>14. LeaksCounted' BY <1>2, <1>11, <1>12, <1>13, WriteBegun DEF Memory
<1> QED BY <1>8, <1>9, <1>10, <1>14

(* EFAULT: the copy is lost at once.                                       *)
LEMMA StepWriteFaults ==
    ASSUME Memory, NEW p \in Proc, WriteFaults(p)
    PROVE  (InStage /\ PointsToHeap /\ NoSharing /\ LeaksCounted)'
<1>1. PICK b \in Fresh : heap' = heap \cup {b} BY DEF WriteFaults
<1>2. writes' = writes + 1 /\ UNCHANGED <<module, dev, ring, file, temp>>
  BY DEF WriteFaults, devVars
<1>3. b \notin heap /\ b # Nothing BY <1>1, FreshBlocks
<1>4. \A s \in 0 .. N - 1 : Strings(s)' = Strings(s) BY <1>2 DEF Strings
<1>5. InStage' /\ PointsToHeap' /\ NoSharing'
  BY <1>1, <1>2, <1>4 DEF Memory, InStage, PointsToHeap, NoSharing
<1>6. b \notin Leaked /\ Leaked' = Leaked \cup {b}
  <2>1. \A c : PointsTo(c)' <=> PointsTo(c) BY <1>2, <1>4 DEF PointsTo
  <2>2. ~PointsTo(b) BY <1>3 DEF Memory, PointsToHeap, PointsTo
  <2> QED BY <1>1, <1>3, <2>1, <2>2, LeakedBlocks
<1>7. IsFiniteSet(heap') BY <1>1, FS_AddElement DEF Memory, LeaksCounted
<1>8. Writers' = Writers BY <1>2 DEF Writers
<1>9. LeaksCounted' BY <1>2, <1>6, <1>7, <1>8, OneLost DEF Memory
<1> QED BY <1>5, <1>9

(***************************************************************************)
(* A write returns: its copy is lost, and no other block with it, provided *)
(* the rest of the step frees just what it takes out of the pointers.      *)
(***************************************************************************)
LEMMA CopyIsLost ==
    ASSUME Memory, NEW p \in Proc, WriteReturns(p), IsFiniteSet(heap'),
           NEW copy, copy = temp[p], copy \in heap', ~PointsTo(copy)',
           \A b : b # copy =>
             (b \in heap' /\ ~PointsTo(b)' <=> b \in heap /\ ~PointsTo(b))
    PROVE  LeaksCounted'
<1>1. /\ file[p] = "write" /\ file' = [file EXCEPT ![p] = "open"] /\ writes' = writes
  BY DEF WriteReturns
<1>2. copy \notin Leaked
  <2>1. temp[p] # Nothing BY <1>1 DEF Memory, InStage
  <2> QED BY <2>1, LeakedBlocks DEF PointsTo
<1>3. Leaked' = Leaked \cup {copy} BY <1>2, LeakedBlocks
<1>4. p \in Writers /\ Writers' = Writers \ {p} BY <1>1 DEF Memory, TypeOK, Writers
<1> QED BY <1>1, <1>2, <1>3, <1>4, OneLost DEF Memory

(* What a return does to the state of its process.                         *)
LEMMA ReturnsForget ==
    ASSUME Memory, NEW p \in Proc, WriteReturns(p)
    PROVE  /\ file[p] = "write" /\ temp[p] # Nothing /\ module = "live"
           /\ UNCHANGED <<module, writes>>
           /\ \A q \in Proc : temp'[q] = IF q = p THEN Nothing ELSE temp[q]
           /\ \A q \in Proc : file'[q] = IF q = p THEN "open" ELSE file[q]
BY DEF Memory, InStage, TypeOK, WriteReturns, devVars

LEMMA StepWriteNoMemory ==
    ASSUME Memory, NEW p \in Proc, WriteNoMemory(p)
    PROVE  (InStage /\ PointsToHeap /\ NoSharing /\ LeaksCounted)'
<1>1. WriteReturns(p) /\ UNCHANGED <<heap, dev, ring>> BY DEF WriteNoMemory
<1>2. /\ file[p] = "write" /\ temp[p] # Nothing /\ module = "live"
      /\ UNCHANGED <<module, writes>>
      /\ \A q \in Proc : temp'[q] = IF q = p THEN Nothing ELSE temp[q]
      /\ \A q \in Proc : file'[q] = IF q = p THEN "open" ELSE file[q]
  BY <1>1, ReturnsForget
<1>3. \A s \in 0 .. N - 1 : Strings(s)' = Strings(s) BY <1>1 DEF Strings
<1>4. InStage' BY <1>1, <1>2, <1>3 DEF Memory, InStage
<1>5. PointsToHeap' /\ NoSharing'
  BY <1>1, <1>2, <1>3 DEF Memory, PointsToHeap, NoSharing
<1>6. PICK copy : copy = temp[p] OBVIOUS
<1>7. copy \in heap' /\ ~PointsTo(copy)'
  BY <1>1, <1>2, <1>3, <1>6 DEF Memory, PointsToHeap, NoSharing, PointsTo
<1>8. \A b : b # copy => (PointsTo(b)' <=> PointsTo(b))
  BY <1>1, <1>2, <1>3, <1>6 DEF PointsTo
<1>9. LeaksCounted' BY <1>1, <1>6, <1>7, <1>8, CopyIsLost DEF Memory, LeaksCounted
<1> QED BY <1>4, <1>5, <1>9

(* The block that krealloc returns is the old one, or no pointer's yet.    *)
LEMMA KreallocBlock ==
    ASSUME Memory, NEW s \in Block, Krealloc(s)
    PROVE  /\ s # Nothing
           /\ s = dev["buffptr"] \/ s \notin heap
BY FreshBlocks DEF Krealloc

LEMMA StepWriteAppends ==
    ASSUME Memory, NEW p \in Proc, WriteAppends(p)
    PROVE  (InStage /\ PointsToHeap /\ NoSharing /\ LeaksCounted)'
<1>1. PICK s \in Block :
        /\ Krealloc(s) /\ heap' = HeapWith(s) /\ dev' = [dev EXCEPT !["buffptr"] = s]
        /\ WriteReturns(p) /\ ring' = ring
  BY DEF WriteAppends
<1>2. /\ file[p] = "write" /\ temp[p] # Nothing /\ module = "live"
      /\ UNCHANGED <<module, writes>>
      /\ \A q \in Proc : temp'[q] = IF q = p THEN Nothing ELSE temp[q]
      /\ \A q \in Proc : file'[q] = IF q = p THEN "open" ELSE file[q]
  BY <1>1, ReturnsForget
<1>3. \A t \in 0 .. N - 1 : Strings(t)' = Strings(t) BY <1>1 DEF Strings
<1> DEFINE old == dev["buffptr"]
<1>4. s # Nothing /\ (s = old \/ s \notin heap) BY <1>1, KreallocBlock
<1>5. /\ "buffptr" \in Field
      /\ \A f \in Field : dev'[f] = IF f = "buffptr" THEN s ELSE dev[f]
  BY <1>1 DEF Memory, TypeOK, Field
<1>6. \A b : b \in heap' <=> b = s \/ (b \in heap /\ b # old) BY <1>1 DEF HeapWith
<1>7. InStage' BY <1>2, <1>3 DEF Memory, InStage
<1>8. PointsToHeap'
  <2>1. Nothing \notin heap BY BlockAssumption DEF Memory, TypeOK, Nothing
  <2> QED BY <1>2, <1>3, <1>4, <1>5, <1>6, <2>1 DEF Memory, PointsToHeap, NoSharing
<1>9. NoSharing' BY <1>2, <1>3, <1>4, <1>5 DEF Memory, PointsToHeap, NoSharing
<1>10. PICK copy : copy = temp[p] OBVIOUS
<1>11. copy \in heap' /\ copy # s /\ ~PointsTo(copy)'
  BY <1>2, <1>3, <1>4, <1>5, <1>6, <1>10 DEF Memory, PointsToHeap, NoSharing, PointsTo
<1>12. ASSUME NEW b, b # copy
       PROVE  b \in heap' /\ ~PointsTo(b)' <=> b \in heap /\ ~PointsTo(b)
  <2>1. CASE b = s BY <1>4, <1>5, <2>1 DEF PointsTo
  <2>2. CASE b # s /\ b = old
    <3>1. b \notin heap' BY <1>6, <2>2
    <3>2. b \in heap => PointsTo(b) BY <1>5, <2>2, BlockAssumption DEF Memory, TypeOK, PointsTo, Nothing
    <3> QED BY <3>1, <3>2
  <2>3. CASE b # s /\ b # old BY <1>2, <1>3, <1>5, <1>6, <1>10, <1>12, <2>3 DEF PointsTo
  <2> QED BY <2>1, <2>2, <2>3
<1>13. IsFiniteSet(heap')
  <2>1. heap \ {old} \in SUBSET heap OBVIOUS
  <2>2. heap' = (heap \ {old}) \cup {s} BY <1>1 DEF HeapWith
  <2>3. IsFiniteSet((heap \ {old}) \cup {s})
    BY <2>1, FS_Subset, FS_AddElement DEF Memory, LeaksCounted
  <2> QED BY <2>2, <2>3
<1>14. LeaksCounted' BY <1>1, <1>10, <1>11, <1>12, <1>13, CopyIsLost
<1> QED BY <1>7, <1>8, <1>9, <1>14

(* The string goes into the ring, and the one it replaces is freed.        *)
LEMMA StepWriteCommits ==
    ASSUME Memory, Buffer!RingInv(ring), NEW p \in Proc, WriteCommits(p)
    PROVE  (InStage /\ PointsToHeap /\ NoSharing /\ LeaksCounted)'
<1>1. PICK s \in Block :
        /\ Krealloc(s) /\ heap' = HeapWith(s) \ Overwritten
        /\ dev' = [dev EXCEPT !["buffptr"] = Nothing]
        /\ WriteReturns(p) /\ ring' = Buffer!AddEntry(ring, <<s>>)
  BY DEF WriteCommits
<1>2. /\ file[p] = "write" /\ temp[p] # Nothing /\ module = "live"
      /\ UNCHANGED <<module, writes>>
      /\ \A q \in Proc : temp'[q] = IF q = p THEN Nothing ELSE temp[q]
      /\ \A q \in Proc : file'[q] = IF q = p THEN "open" ELSE file[q]
  BY <1>1, ReturnsForget
<1>0. PICK k : k = ring.in_offs OBVIOUS
<1>3. /\ k \in 0 .. N - 1 /\ Strings(k)' = {s} /\ Overwritten = Strings(k)
      /\ \A t \in 0 .. N - 1 : t # k => Strings(t)' = Strings(t)
  BY <1>0, <1>1, EntryReplaced DEF Memory, TypeOK
<1> DEFINE old == dev["buffptr"]
<1>4. s # Nothing /\ (s = old \/ s \notin heap) BY <1>1, KreallocBlock
<1>5. /\ "buffptr" \in Field
      /\ \A f \in Field : dev'[f] = IF f = "buffptr" THEN Nothing ELSE dev[f]
  BY <1>1 DEF Memory, TypeOK, Field
<1>6. \A t \in 0 .. N - 1 : s \notin Strings(t)
  BY <1>4, <1>5 DEF Memory, PointsToHeap, NoSharing
<1>7. \A b : b \in heap' <=> b = s \/ (b \in heap /\ b # old /\ b \notin Strings(k))
  BY <1>1, <1>3, <1>6 DEF HeapWith
<1>8. InStage' BY <1>2 DEF Memory, InStage
<1>9. PointsToHeap'
  <2>1. Nothing \notin heap BY BlockAssumption DEF Memory, TypeOK, Nothing
  <2> QED BY <1>2, <1>3, <1>4, <1>5, <1>7, <2>1 DEF Memory, PointsToHeap, NoSharing
<1>10. NoSharing' BY <1>2, <1>3, <1>4, <1>5, <1>6 DEF Memory, PointsToHeap, NoSharing
<1>11. PICK copy : copy = temp[p] OBVIOUS
<1>12. copy \in heap' /\ copy # s /\ ~PointsTo(copy)'
  BY <1>2, <1>3, <1>4, <1>5, <1>7, <1>11 DEF Memory, PointsToHeap, NoSharing, PointsTo
<1>13. ASSUME NEW b, b # copy
       PROVE  b \in heap' /\ ~PointsTo(b)' <=> b \in heap /\ ~PointsTo(b)
  <2>1. CASE b = s BY <1>3, <1>4, <1>5, <2>1 DEF PointsTo
  <2>2. CASE b # s /\ b = old
    <3>1. b \notin heap' BY <1>7, <2>2
    <3>2. b \in heap => PointsTo(b) BY <1>5, <2>2, BlockAssumption DEF Memory, TypeOK, PointsTo, Nothing
    <3> QED BY <3>1, <3>2
  <2>3. CASE b # s /\ b \in Strings(k)
    <3>1. b \notin heap' /\ PointsTo(b) BY <1>3, <1>7, <2>3 DEF PointsTo
    <3> QED BY <3>1
  <2>4. CASE b # s /\ b # old /\ b \notin Strings(k)
    BY <1>2, <1>3, <1>5, <1>7, <1>11, <1>13, <2>4 DEF PointsTo
  <2> QED BY <2>1, <2>2, <2>3, <2>4
<1>14. IsFiniteSet(heap')
  <2>1. heap \ {old} \in SUBSET heap OBVIOUS
  <2>2. heap' \in SUBSET ((heap \ {old}) \cup {s}) BY <1>1 DEF HeapWith
  <2>3. IsFiniteSet((heap \ {old}) \cup {s})
    BY <2>1, FS_Subset, FS_AddElement DEF Memory, LeaksCounted
  <2> QED BY <2>2, <2>3, FS_Subset
<1>15. LeaksCounted' BY <1>1, <1>11, <1>12, <1>13, <1>14, CopyIsLost
<1> QED BY <1>8, <1>9, <1>10, <1>15

-------------------------------------------------------------------------------
LEMMA StepLoadsCounted ==
    ASSUME TypeOK, LoadsCounted, Next
    PROVE  LoadsCounted' /\ loads' \in 0 .. MaxLoads
<1> USE DEF LoadsCounted, RegionsLeftBehind, devVars
<1>1. regions \in Int /\ noMemory \in Int /\ loads \in 0 .. MaxLoads /\ MaxLoads \in Nat
  BY BoundsAssumption DEF TypeOK
<1>2. CASE LoadRegion BY <1>1, <1>2 DEF LoadRegion
<1>3. CASE LoadAllocates BY <1>1, <1>3 DEF LoadAllocates, NextAllocation
<1>4. CASE LoadFails BY <1>1, <1>4 DEF LoadFails, Unwound
<1>5. CASE AddCdev BY <1>1, <1>5 DEF AddCdev
<1>6. CASE AddCdevFails \/ Unload BY <1>1, <1>6 DEF AddCdevFails, Unload
<1>7. ASSUME NEW p \in Proc, Process(p) PROVE LoadsCounted' /\ loads' \in 0 .. MaxLoads
  BY <1>1, <1>7 DEF Process, Open, Release, WriteCopies, WriteFaults, WriteNoMemory, WriteAppends,
                    WriteCommits, WriteReturns
<1> QED BY <1>2, <1>3, <1>4, <1>5, <1>6, <1>7 DEF Next, Module

LEMMA SmallSum ==
    ASSUME NEW sum, NEW n \in Nat, NEW x \in 0 .. 1, NEW k \in Nat, NEW max \in Nat,
           sum = n + x, n + x <= k, k <= max
    PROVE  sum \in 0 .. max /\ n \in 0 .. k
OBVIOUS

LEMMA StepType ==
    ASSUME TypeOK, Buffer!RingInv(ring), LoadsCounted, Next
    PROVE  TypeOK' /\ Buffer!RingInv(ring')
<1>1. /\ regions' \in 0 .. MaxLoads /\ loads' \in 0 .. MaxLoads /\ noMemory' \in 0 .. loads'
  <2>1. LoadsCounted' /\ loads' \in 0 .. MaxLoads BY StepLoadsCounted
  <2>2. noMemory \in Nat /\ MaxLoads \in Nat BY BoundsAssumption DEF TypeOK
  <2>3. noMemory' = noMemory \/ noMemory' = noMemory + 1
    <3>1. CASE Module
      BY <3>1 DEF Module, LoadRegion, LoadAllocates, LoadFails, AddCdev, AddCdevFails, Unload
    <3>2. ASSUME NEW p \in Proc, Process(p) PROVE noMemory' = noMemory
      BY <3>2 DEF Process, Open, Release, WriteCopies, WriteFaults, WriteNoMemory, WriteAppends,
                  WriteCommits, WriteReturns, devVars
    <3> QED BY <3>1, <3>2 DEF Next
  <2>4. noMemory' \in Nat BY <2>2, <2>3
  <2> DEFINE last == IF module' = "out" THEN 0 ELSE 1
  <2>5. regions' = noMemory' + last /\ noMemory' + last <= loads'
    BY <2>1 DEF LoadsCounted, RegionsLeftBehind
  <2>6. last \in 0 .. 1 /\ loads' \in Nat /\ loads' <= MaxLoads BY <2>1, <2>2
  <2> HIDE DEF last
  <2> QED BY <2>1, <2>2, <2>4, <2>5, <2>6, SmallSum
<1> USE DEF devVars
<1>2. /\ heap \subseteq Block /\ dev \in [Field -> Block \cup {Nothing}]
      /\ module \in {"out", "circularBuffer", "tempEntry", "lock", "cdev", "live"}
      /\ ring \in Buffer!Ring /\ file \in [Proc -> {"closed", "open", "write"}]
      /\ temp \in [Proc -> Block \cup {Nothing}] /\ writes \in 0 .. MaxWrites
  BY DEF TypeOK
<1> DEFINE OK == /\ heap' \subseteq Block /\ dev' \in [Field -> Block \cup {Nothing}]
                 /\ module' \in {"out", "circularBuffer", "tempEntry", "lock", "cdev", "live"}
                 /\ ring' \in Buffer!Ring /\ file' \in [Proc -> {"closed", "open", "write"}]
                 /\ temp' \in [Proc -> Block \cup {Nothing}] /\ writes' \in 0 .. MaxWrites
                 /\ Buffer!RingInv(ring')
<1>3. NoDevice \in [Field -> Block \cup {Nothing}] BY DEF NoDevice
<1>4. ASSUME LoadRegion \/ AddCdev PROVE OK BY <1>2, <1>4 DEF LoadRegion, AddCdev
<1>5. ASSUME LoadAllocates PROVE OK
  BY <1>2, <1>5, FreshBlocks DEF LoadAllocates, NextAllocation, Field
<1>6. ASSUME LoadFails \/ AddCdevFails PROVE OK
  BY <1>2, <1>3, <1>6 DEF LoadFails, AddCdevFails
<1>7. ASSUME Unload PROVE OK BY <1>2, <1>3, <1>7, EmptyStrings DEF Unload
<1>8. ASSUME NEW p \in Proc, Open(p) \/ Release(p) PROVE OK BY <1>2, <1>8 DEF Open, Release
<1>9. ASSUME NEW p \in Proc, WriteCopies(p) \/ WriteFaults(p) PROVE OK
  <2>1. writes' \in 0 .. MaxWrites
    BY <1>2, <1>9, BoundsAssumption DEF WriteCopies, WriteFaults
  <2> QED BY <1>2, <1>9, <2>1, FreshBlocks DEF WriteCopies, WriteFaults
<1>10. ASSUME NEW p \in Proc, WriteReturns(p)
       PROVE  /\ file' \in [Proc -> {"closed", "open", "write"}]
              /\ temp' \in [Proc -> Block \cup {Nothing}]
              /\ UNCHANGED <<module, writes>>
  BY <1>2, <1>10 DEF WriteReturns
<1>11. ASSUME NEW p \in Proc, WriteNoMemory(p) PROVE OK BY <1>2, <1>10, <1>11 DEF WriteNoMemory
<1>12. ASSUME NEW p \in Proc, WriteAppends(p) PROVE OK
  BY <1>2, <1>10, <1>12 DEF WriteAppends, HeapWith
<1>13. ASSUME NEW p \in Proc, WriteCommits(p) PROVE OK
  <2>1. PICK s \in Block :
          /\ heap' = HeapWith(s) \ Overwritten /\ ring' = Buffer!AddEntry(ring, <<s>>)
          /\ dev' = [dev EXCEPT !["buffptr"] = Nothing] /\ WriteReturns(p)
    BY <1>13 DEF WriteCommits
  <2>2. ring' \in Buffer!Ring /\ Buffer!RingInv(ring') BY <1>2, <2>1, EntryReplaced
  <2>3. heap' \subseteq Block BY <1>2, <2>1 DEF HeapWith
  <2>4. dev' \in [Field -> Block \cup {Nothing}] BY <1>2, <2>1
  <2> QED BY <1>2, <1>10, <2>1, <2>2, <2>3, <2>4
<1>14. OK
  BY <1>4, <1>5, <1>6, <1>7, <1>8, <1>9, <1>11, <1>12, <1>13 DEF Next, Module, Process
<1> QED BY <1>1, <1>14 DEF TypeOK

LEMMA NextInv == Inv /\ [Next]_vars => Inv'
<1>1. ASSUME Inv, Next PROVE Inv'
  <2>1. TypeOK' /\ Buffer!RingInv(ring') /\ LoadsCounted'
    BY <1>1, StepType, StepLoadsCounted DEF Inv
  <2>2. Memory /\ Buffer!RingInv(ring) BY <1>1 DEF Inv, Memory
  <2>3. (InStage /\ PointsToHeap /\ NoSharing /\ LeaksCounted)'
    BY <1>1, <2>2, QuietSteps, StepLoadAllocates, StepModuleGoes, StepWriteCopies,
       StepWriteFaults, StepWriteNoMemory, StepWriteAppends, StepWriteCommits
    DEF Next, Module, Process
  <2> QED BY <2>1, <2>3 DEF Inv
<1>2. ASSUME Inv, UNCHANGED vars PROVE Inv'
  <2> USE DEF vars
  <2>1. TypeOK' /\ Buffer!RingInv(ring') /\ LoadsCounted'
    BY <1>2 DEF Inv, TypeOK, LoadsCounted, RegionsLeftBehind
  <2>2. /\ \A s \in 0 .. N - 1 : Strings(s)' = Strings(s)
        /\ \A b : PointsTo(b)' <=> PointsTo(b)
    BY <1>2 DEF Strings, PointsTo
  <2>3. InStage' /\ PointsToHeap' /\ NoSharing'
    BY <1>2, <2>2 DEF Inv, InStage, PointsToHeap, NoSharing
  <2>4. Leaked' = Leaked BY <1>2, <2>2, LeakedBlocks
  <2>5. LeaksCounted' BY <1>2, <2>4 DEF Inv, LeaksCounted, Writers
  <2> QED BY <2>1, <2>3, <2>5 DEF Inv
<1> QED BY <1>1, <1>2

LEMMA Invariance == Spec => []Inv
<1> QED BY InitInv, NextInv, PTL DEF Spec

(* The state has its types in every reachable state.                       *)
THEOREM TypeCorrect == Spec => []TypeOK
<1>1. Inv => TypeOK BY DEF Inv
<1> QED BY <1>1, Invariance, PTL

(***************************************************************************)
(* A load that fails for want of memory leaves its region registered, and  *)
(* nothing else does.                                                      *)
(***************************************************************************)
THEOREM RegionsAreCounted == Spec => []RegionsLeftBehind
<1>1. Inv => RegionsLeftBehind BY DEF Inv, LoadsCounted
<1> QED BY <1>1, Invariance, PTL

(***************************************************************************)
(* The driver loses one temp_buffer for each write that has returned, and  *)
(* no other block, whatever fails.                                         *)
(***************************************************************************)
THEOREM CopiesAreWhatLeaks == Spec => []OnlyCopiesLeak
<1>1. Inv => OnlyCopiesLeak BY DEF Inv, LeaksCounted, OnlyCopiesLeak, Leaked, Writers
<1> QED BY <1>1, Invariance, PTL

(***************************************************************************)
(* What the driver points to is allocated, and pointed to once: the map    *)
(* from pointers to their blocks is a bijection.                           *)
(***************************************************************************)
THEOREM PointersAreSound == Spec => []NoDanglingPointers
<1>1. ASSUME Inv PROVE NoDanglingPointers
  <2> DEFINE block == [q \in Pointers |-> q[3]]
  <2>1. Owned \subseteq heap
    BY <1>1, OwnedBlocks DEF Inv, PointsToHeap, PointsTo
  <2>2. IsFiniteSet(Owned)
    <3>1. Owned \in SUBSET heap BY <2>1
    <3> QED BY <1>1, <3>1, FS_Subset DEF Inv, LeaksCounted
  <2>3. ASSUME NEW q \in Pointers, NEW r \in Pointers, q[3] = r[3] PROVE q = r
    <3>1. NoSharing BY <1>1 DEF Inv
    <3> DEFINE Device(x) == \E f \in Field : dev[f] # Nothing /\ x = <<"device", f, dev[f]>>
               Entry(x) == \E s \in 0 .. N - 1 : \E b \in Strings(s) : x = <<"entry", s, b>>
               Copy(x) == \E p \in Proc : temp[p] # Nothing /\ x = <<"copy", p, temp[p]>>
    <3>2. (Device(q) \/ Entry(q) \/ Copy(q)) /\ (Device(r) \/ Entry(r) \/ Copy(r))
      BY PointersListed
    <3>3. CASE Device(q) BY <2>3, <3>1, <3>2, <3>3 DEF NoSharing
    <3>4. CASE Entry(q) BY <2>3, <3>1, <3>2, <3>4 DEF NoSharing
    <3>5. CASE Copy(q) BY <2>3, <3>1, <3>2, <3>5 DEF NoSharing
    <3> QED BY <3>2, <3>3, <3>4, <3>5
  <2>4. block \in Surjection(Pointers, Owned) /\ block \in Injection(Pointers, Owned)
    <3>1. block \in [Pointers -> Owned] BY DEF Owned
    <3>2. \A b \in Owned : \E q \in Pointers : block[q] = b BY DEF Owned
    <3>3. \A q, r \in Pointers : block[q] = block[r] => q = r BY <2>3
    <3> HIDE DEF block
    <3> QED BY <3>1, <3>2, <3>3, Fun_IsSurj, Fun_IsInj
  <2>5. Cardinality(Pointers) = Cardinality(Owned) BY <2>2, <2>4, FS_Injection
  <2> QED BY <2>1, <2>5 DEF NoDanglingPointers
<1> QED BY <1>1, Invariance, PTL
===============================================================================
