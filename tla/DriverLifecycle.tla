--------------------------- MODULE DriverLifecycle ---------------------------
(***************************************************************************)
(* The kernel memory of the driver (aesd-char-driver/main.c): what loading *)
(* the module allocates and what each error path of it gives back, what    *)
(* writes allocate, hand over and free, and what unloading frees.          *)
(*                                                                         *)
(* Only the pointers are modelled.  An entry of the ring is the sequence   *)
(* of its one block, or <<>> when its buffptr is NULL; AesdChar has the    *)
(* bytes.  The allocator, the module loader and the callers are external.  *)
(***************************************************************************)
EXTENDS Integers, Sequences, FiniteSetsExt, SequencesExt

CONSTANTS
    N,          \* entries of the ring
    Block,      \* the memory kmalloc can hand out, as numbers
    Proc,       \* processes that write to the device
    MaxLoads,   \* bound on the times the module is loaded
    MaxWrites   \* bound on the writes

ASSUME NAssumption == N \in Nat \ {0}
ASSUME BlockAssumption == Block \subseteq Nat \ {0}
ASSUME BoundsAssumption == MaxLoads \in Nat /\ MaxWrites \in Nat

Buffer == INSTANCE CircularBuffer WITH Byte <- Block

VARIABLES
    heap,       \* the blocks that are allocated
    regions,    \* the device number regions that are registered
    module,     \* how far loading has come
    dev,        \* the pointers in aesd_device and in its tempEntry
    ring,       \* the entries of the circular buffer
    file,       \* what each process does with the device
    temp,       \* temp_buffer of each process
    writes,     \* writes that got their temp_buffer
    loads,      \* times the module was loaded
    noMemory    \* history: loads that failed for want of memory

vars == <<heap, regions, module, dev, ring, file, temp, writes, loads, noMemory>>
devVars == <<regions, module, loads, noMemory>>

(* NULL, or the ZERO_SIZE_PTR of kmalloc(0): kfree ignores both.           *)
Nothing == 0

Field == {"circularBuffer", "tempEntry", "buffptr", "lock"}

NoDevice == [f \in Field |-> Nothing]

Init ==
    /\ heap = {} /\ regions = 0
    /\ module = "out" /\ dev = NoDevice /\ ring = Buffer!EmptyRing
    /\ file = [p \in Proc |-> "closed"] /\ temp = [p \in Proc |-> Nothing]
    /\ writes = 0 /\ loads = 0 /\ noMemory = 0

(* The code does not tell free blocks apart: kmalloc takes the lowest.     *)
Fresh == {b \in Block \ heap : \A c \in Block \ heap : b <= c}

-------------------------------------------------------------------------------
(* insmod: alloc_chrdev_region and memset.  If it fails nothing is held.   *)
LoadRegion ==
    /\ module = "out" /\ loads < MaxLoads
    /\ module' = "circularBuffer"
    /\ regions' = regions + 1 /\ loads' = loads + 1
    /\ UNCHANGED <<heap, dev, ring, file, temp, writes, noMemory>>

NextAllocation ==
    [circularBuffer |-> "tempEntry", tempEntry |-> "lock", lock |-> "cdev"]

(* kmalloc of the part of the device that loading has come to; the empty   *)
(* string of tempEntry follows, and kmalloc(0) does not fail.              *)
LoadAllocates ==
    /\ module \in DOMAIN NextAllocation
    /\ \E b \in Fresh :
         /\ heap' = heap \cup {b}
         /\ dev' = [dev EXCEPT ![module] = b]
    /\ module' = NextAllocation[module]
    /\ UNCHANGED <<regions, ring, file, temp, writes, loads, noMemory>>

(* Fault: the labels for a missing lock pass over the ring.                *)
UnwoundShort ==
    [circularBuffer |-> {}, tempEntry |-> {"circularBuffer"}, lock |-> {"buffptr", "tempEntry"}]

(* The fields freed from the label a failed allocation goes to on down.    *)
Unwound ==
    [circularBuffer |-> {},
     tempEntry      |-> {"circularBuffer"},
     lock           |-> {"buffptr", "tempEntry", "circularBuffer"}]

(* The labels lie behind unregister_chrdev_region: the region stays.       *)
LoadFails ==
    /\ module \in DOMAIN Unwound
    /\ heap' = heap \ {dev[f] : f \in Unwound[module]}
    /\ module' = "out" /\ dev' = NoDevice
    /\ noMemory' = noMemory + 1
    /\ UNCHANGED <<regions, ring, file, temp, writes, loads>>

AddCdev ==
    /\ module = "cdev" /\ module' = "live"
    /\ UNCHANGED <<heap, regions, dev, ring, file, temp, writes, loads, noMemory>>

AddCdevFails ==
    /\ module = "cdev" /\ module' = "out"
    /\ heap' = heap \ {dev[f] : f \in Field} /\ dev' = NoDevice
    /\ regions' = regions - 1
    /\ UNCHANGED <<ring, file, temp, writes, loads, noMemory>>

(* The strings AESD_CIRCULAR_BUFFER_FOREACH frees.                         *)
RingBlocks == UNION {ToSet(ring.entry[s]) : s \in 0 .. N - 1}

(* Fault: the region is not given back.                                    *)
UnloadKeepingRegion ==
    /\ module = "live" /\ \A p \in Proc : file[p] = "closed"
    /\ heap' = heap \ (RingBlocks \cup {dev[f] : f \in Field})
    /\ module' = "out" /\ dev' = NoDevice /\ ring' = Buffer!EmptyRing
    /\ UNCHANGED <<regions, file, temp, writes, loads, noMemory>>

(* rmmod, which an open file keeps out (the owner of cdev and aesd_fops).  *)
Unload ==
    /\ module = "live" /\ \A p \in Proc : file[p] = "closed"
    /\ heap' = heap \ (RingBlocks \cup {dev[f] : f \in Field})
    /\ module' = "out" /\ dev' = NoDevice /\ ring' = Buffer!EmptyRing
    /\ regions' = regions - 1
    /\ UNCHANGED <<file, temp, writes, loads, noMemory>>

-------------------------------------------------------------------------------
Open(p) ==
    /\ module = "live" /\ file[p] = "closed"
    /\ file' = [file EXCEPT ![p] = "open"]
    /\ UNCHANGED <<heap, devVars, dev, ring, temp, writes>>

Release(p) ==
    /\ file[p] = "open"
    /\ file' = [file EXCEPT ![p] = "closed"]
    /\ UNCHANGED <<heap, devVars, dev, ring, temp, writes>>

(* kmalloc of temp_buffer and copy_from_user.                              *)
WriteCopies(p) ==
    /\ file[p] = "open" /\ writes < MaxWrites
    /\ \E b \in Fresh :
         /\ heap' = heap \cup {b}
         /\ temp' = [temp EXCEPT ![p] = b]
    /\ file' = [file EXCEPT ![p] = "write"]
    /\ writes' = writes + 1
    /\ UNCHANGED <<devVars, dev, ring>>

(* EFAULT: returns at once, without temp_buffer.                           *)
WriteFaults(p) ==
    /\ file[p] = "open" /\ writes < MaxWrites
    /\ \E b \in Fresh : heap' = heap \cup {b}
    /\ writes' = writes + 1
    /\ UNCHANGED <<devVars, dev, ring, file, temp>>

(* What every return does with temp_buffer: it is forgotten, not freed.    *)
WriteReturns(p) ==
    /\ file[p] = "write"
    /\ file' = [file EXCEPT ![p] = "open"]
    /\ temp' = [temp EXCEPT ![p] = Nothing]
    /\ UNCHANGED <<devVars, writes>>

WriteNoMemory(p) ==
    /\ WriteReturns(p)
    /\ UNCHANGED <<heap, dev, ring>>

(* krealloc of the unfinished command to the block s: in place, or in a    *)
(* fresh block and the old one is freed.  An empty string has no block.    *)
Krealloc(s) ==
    s \in ({dev.buffptr} \ {Nothing}) \cup Fresh

HeapWith(s) == (heap \ {dev.buffptr}) \cup {s}

(* Under the semaphore: the bytes are added and end in no newline.         *)
WriteAppends(p) ==
    \E s \in Block :
      /\ Krealloc(s)
      /\ heap' = HeapWith(s)
      /\ dev' = [dev EXCEPT !.buffptr = s]
      /\ WriteReturns(p)
      /\ UNCHANGED ring

(* What add_entry returns: the string of the entry it replaced.            *)
Overwritten == IF ring.full THEN ToSet(ring.entry[ring.in_offs]) ELSE {}

(* Fault: tempEntry keeps the string that the ring now owns.               *)
WriteCommitsShared(p) ==
    \E s \in Block :
      /\ Krealloc(s)
      /\ heap' = HeapWith(s) \ Overwritten
      /\ ring' = Buffer!AddEntry(ring, <<s>>)
      /\ dev' = [dev EXCEPT !.buffptr = s]
      /\ WriteReturns(p)

(* Under the semaphore: they end in one, and the ring owns the string.     *)
WriteCommits(p) ==
    \E s \in Block :
      /\ Krealloc(s)
      /\ heap' = HeapWith(s) \ Overwritten
      /\ ring' = Buffer!AddEntry(ring, <<s>>)
      /\ dev' = [dev EXCEPT !.buffptr = Nothing]
      /\ WriteReturns(p)

-------------------------------------------------------------------------------
Module ==
    LoadRegion \/ LoadAllocates \/ LoadFails \/ AddCdev \/ AddCdevFails \/ Unload

Process(p) ==
    \/ Open(p) \/ Release(p) \/ WriteCopies(p) \/ WriteFaults(p)
    \/ WriteNoMemory(p) \/ WriteAppends(p) \/ WriteCommits(p)

Next == Module \/ \E p \in Proc : Process(p)

Spec == Init /\ [][Next]_vars

-------------------------------------------------------------------------------
(* Types of the state.                                                     *)
TypeOK ==
    /\ heap \subseteq Block
    /\ regions \in 0 .. MaxLoads
    /\ module \in {"out", "circularBuffer", "tempEntry", "lock", "cdev", "live"}
    /\ dev \in [Field -> Block \cup {Nothing}]
    /\ ring \in Buffer!Ring
    /\ file \in [Proc -> {"closed", "open", "write"}]
    /\ temp \in [Proc -> Block \cup {Nothing}]
    /\ writes \in 0 .. MaxWrites /\ loads \in 0 .. MaxLoads /\ noMemory \in 0 .. loads

(* Every place that holds a pointer, with the blocks it points to.         *)
Pointers ==
    {<<"device", f, dev[f]>> : f \in {g \in Field : dev[g] # Nothing}}
      \cup (UNION {{<<"entry", s, b>> : b \in ToSet(ring.entry[s])} : s \in 0 .. N - 1})
      \cup {<<"copy", p, temp[p]>> : p \in {q \in Proc : temp[q] # Nothing}}

Owned == {q[3] : q \in Pointers}

(***************************************************************************)
(* Whatever the driver points to is allocated, and no two of its pointers  *)
(* share a block: strings move from tempEntry to the ring and out of it    *)
(* again, krealloc moves them, and loading fails half way, but nothing is  *)
(* used after it is freed or freed twice.                                  *)
(***************************************************************************)
NoDanglingPointers ==
    /\ Owned \subseteq heap
    /\ Cardinality(Owned) = Cardinality(Pointers)

(***************************************************************************)
(* The memory that nothing points to any more is one temp_buffer for each  *)
(* write that has returned (line 123), whether it failed or not, and no    *)
(* more: load, each of its error paths, and unload leave no other block.   *)
(***************************************************************************)
OnlyCopiesLeak ==
    Cardinality(heap \ Owned) = writes - Cardinality({p \in Proc : file[p] = "write"})

(***************************************************************************)
(* Each load that fails for want of memory leaves its region registered,   *)
(* for ever (lines 315-341 go to labels behind line 353); a load that      *)
(* fails at cdev_add, and an unload, give theirs back.                     *)
(***************************************************************************)
RegionsLeftBehind == regions = noMemory + (IF module = "out" THEN 0 ELSE 1)
===============================================================================
