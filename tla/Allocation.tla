------------------------------ MODULE Allocation ------------------------------
(***************************************************************************)
(* The superpage allocation of the Rowhammer PoC (poc/src/allocation.cpp,  *)
(* poc/include/hammer/allocation.hpp): an object owns one mmap'ed, locked  *)
(* region of 1 GiB huge pages and keeps a table virt_phys_mappings of      *)
(* (virtual superpage, physical superpage) pairs for translation.          *)
(*                                                                         *)
(* Any sequence of calls a client can make is modelled: default           *)
(* construction, allocate, the move constructor, the move assignment,      *)
(* get_rand_addr and destruction, on a small set of object slots.  The     *)
(* kernel is part of the state: which virtual superpages are mapped, to    *)
(* which physical huge page, and the pool of free huge pages.              *)
(*                                                                         *)
(* Addresses are abstracted to a superpage number and one of Offsets       *)
(* positions inside it (the bits under SUPERPAGE_MASK); a virtual page is   *)
(* a number in VPages, a physical huge page a number in HugePages.         *)
(***************************************************************************)
EXTENDS Integers, Sequences, SequencesExt, FiniteSets

CONSTANTS
  Objs,           \* object slots (model values)
  VPages,         \* virtual superpage numbers the kernel can hand out
  HugePages,      \* physical 1 GiB huge pages reserved at boot
  Offsets,        \* positions inside a superpage
  PageCounts,     \* num_superpages arguments of allocate
  MlockOk,        \* possible outcomes of mlock
  MaxCalls        \* bound on the number of calls

ASSUME /\ VPages \subseteq Nat \ {0} /\ HugePages \subseteq Nat \ {0}
       /\ PageCounts \subseteq Nat \ {0} /\ MlockOk \subseteq BOOLEAN

NULL       == 0               \* nullptr
MAP_FAILED == -1              \* (void*)-1
Zero       == <<0, 0>>        \* the 0 virt_to_phys returns when not found
K          == Cardinality(Offsets)
NotBuilt   == -2
Whole      == -1              \* 0 - 1 as uint64_t: the whole address space

VARIABLES
  life,           \* per slot: "unborn", "live" or "dead"
  ptr,            \* allocation_ptr: NULL, MAP_FAILED or a first virtual page
  size,           \* allocation_size, in superpages
  maps,           \* virt_phys_mappings, a sequence of <<vpage, ppage>>
  vm,             \* kernel: virtual page -> physical page, 0 when unmapped
  badUnmap,       \* history: munmap was called on MAP_FAILED
  randHi,         \* the static distribution's upper bound: NotBuilt, or
                  \* Whole when built from a size of 0
  randAddr,       \* history: the last address get_rand_addr returned
  ok,             \* history: the object holds a region allocate returned true for
  calls

vars == <<life, ptr, size, maps, vm, badUnmap, randHi, randAddr, ok, calls>>

-----------------------------------------------------------------------------
(* Helpers. *)

Pages(o)     == IF ptr[o] > 0 THEN ptr[o] .. ptr[o] + size[o] - 1 ELSE {}
FreeHuge     == HugePages \ {vm[v] : v \in VPages}
FreeRun(b, n) == \A v \in b .. b + n - 1 : v \in VPages /\ vm[v] = 0

(* allocation::virt_to_phys: the first table entry for the address's      *)
(* superpage, or 0.                                                        *)
VirtToPhys(o, a) ==
  LET i == SelectInSeq(maps[o], LAMBDA p : p[1] = a[1])
  IN  IF i = 0 THEN Zero ELSE <<maps[o][i][2], a[2]>>

(* allocation::phys_to_virt: the first entry for the physical superpage,  *)
(* or nullptr.                                                             *)
PhysToVirt(o, a) ==
  LET i == SelectInSeq(maps[o], LAMBDA p : p[2] = a[1])
  IN  IF i = 0 THEN <<NULL, 0>> ELSE <<maps[o][i][1], a[2]>>

(* The table rows allocate appends: one per GB step from the region's     *)
(* start, with vaddr2paddr of that superpage.  The variant that starts one *)
(* superpage late is for the mutation check.                               *)
PopulateOffByOne(b, phys, n) == [i \in 1 .. n |-> <<b + i, phys[i - 1]>>]

Populate(b, phys, n) == [i \in 1 .. n |-> <<b + i - 1, phys[i - 1]>>]

(* munmap(allocation_ptr, allocation_size): EINVAL for MAP_FAILED. *)
Munmap(o) ==
  IF ptr[o] = MAP_FAILED
  THEN /\ badUnmap' = TRUE /\ UNCHANGED vm
  ELSE /\ vm' = [v \in VPages |-> IF v \in Pages(o) THEN 0 ELSE vm[v]]
       /\ UNCHANGED badUnmap

-----------------------------------------------------------------------------
Init ==
  /\ life = [o \in Objs |-> "unborn"]
  /\ ptr = [o \in Objs |-> NULL] /\ size = [o \in Objs |-> 0]
  /\ maps = [o \in Objs |-> <<>>] /\ ok = [o \in Objs |-> FALSE]
  /\ vm = [v \in VPages |-> 0]
  /\ badUnmap = FALSE /\ randHi = NotBuilt /\ randAddr = Zero
  /\ calls = 0

Call == calls < MaxCalls /\ calls' = calls + 1

(* allocation() = default. *)
Construct(o) ==
  /\ Call /\ life[o] = "unborn"
  /\ life' = [life EXCEPT ![o] = "live"]
  /\ UNCHANGED <<ptr, size, maps, vm, badUnmap, randHi, randAddr, ok>>

(* allocation::allocate(n): mmap of n huge pages fails when fewer are free; *)
(* a failed mlock returns false with the region kept; on success the       *)
(* table gets one entry per superpage, appended to what it holds.  A       *)
(* region the object already owned is neither unmapped nor forgotten.      *)
Allocate(o) ==
  /\ Call /\ life[o] = "live"
  /\ \E n \in PageCounts :
       /\ size' = [size EXCEPT ![o] = n]
       /\ IF Cardinality(FreeHuge) < n
          THEN /\ ptr' = [ptr EXCEPT ![o] = MAP_FAILED]
               /\ ok' = [ok EXCEPT ![o] = FALSE]
               /\ UNCHANGED <<vm, maps>>
          ELSE \E b \in VPages, phys \in [0 .. n - 1 -> FreeHuge], locked \in MlockOk :
                 /\ FreeRun(b, n)
                 /\ \A i, j \in 0 .. n - 1 : i # j => phys[i] # phys[j]
                 /\ ptr' = [ptr EXCEPT ![o] = b]
                 /\ vm' = [v \in VPages |-> IF v \in b .. b + n - 1 THEN phys[v - b] ELSE vm[v]]
                 /\ ok' = [ok EXCEPT ![o] = locked]
                 /\ maps' = IF locked
                            THEN [maps EXCEPT ![o] = @ \o Populate(b, phys, n)]
                            ELSE maps
  /\ UNCHANGED <<life, badUnmap, randHi, randAddr>>

(* A move constructor that forgets to clear the source (mutation check). *)
MoveConstructNoReset(d, s) ==
  /\ Call /\ life[d] = "unborn" /\ life[s] = "live"
  /\ life' = [life EXCEPT ![d] = "live"]
  /\ ptr' = [ptr EXCEPT ![d] = ptr[s]]
  /\ size' = [size EXCEPT ![d] = size[s]]
  /\ ok' = [ok EXCEPT ![d] = ok[s], ![s] = FALSE]
  /\ UNCHANGED <<maps, vm, badUnmap, randHi, randAddr>>

(* allocation(allocation&&): pointer and size are taken over and cleared  *)
(* in the source; the table is not part of the member initialiser list.   *)
MoveConstruct(d, s) ==
  /\ Call /\ life[d] = "unborn" /\ life[s] = "live"
  /\ life' = [life EXCEPT ![d] = "live"]
  /\ ptr' = [ptr EXCEPT ![d] = ptr[s], ![s] = NULL]
  /\ size' = [size EXCEPT ![d] = size[s], ![s] = 0]
  /\ ok' = [ok EXCEPT ![d] = ok[s], ![s] = FALSE]
  /\ UNCHANGED <<maps, vm, badUnmap, randHi, randAddr>>

(* operator=(allocation&&): pointer and size are swapped, the tables stay. *)
MoveAssign(d, s) ==
  /\ Call /\ life[d] = "live" /\ life[s] = "live"
  /\ ptr' = [ptr EXCEPT ![d] = ptr[s], ![s] = ptr[d]]
  /\ size' = [size EXCEPT ![d] = size[s], ![s] = size[d]]
  /\ ok' = [ok EXCEPT ![d] = ok[s], ![s] = ok[d]]
  /\ UNCHANGED <<life, maps, vm, badUnmap, randHi, randAddr>>

(* allocation::get_rand_addr: the distribution is a function-local static, *)
(* built on the first call from that object's allocation_size - 1 (all of  *)
(* uint64_t when the size is 0) and reused by every later call.            *)
GetRandAddr(o) ==
  /\ Call /\ life[o] = "live"
  /\ randHi' = IF randHi = NotBuilt THEN size[o] * K - 1 ELSE randHi
  /\ \E d \in IF randHi' = Whole THEN 0 .. (Max(VPages) + 1) * K ELSE 0 .. randHi' :
       randAddr' = <<ptr[o] + d \div K, d % K>>
  /\ UNCHANGED <<life, ptr, size, maps, vm, badUnmap, ok>>

(* ~allocation: munmap when allocation_ptr is non-null. *)
Destroy(o) ==
  /\ Call /\ life[o] = "live"
  /\ life' = [life EXCEPT ![o] = "dead"]
  /\ IF ptr[o] # NULL THEN Munmap(o) ELSE UNCHANGED <<vm, badUnmap>>
  /\ UNCHANGED <<ptr, size, maps, randHi, randAddr, ok>>

(* The client has made its calls, or every object is gone. *)
Done ==
  /\ calls = MaxCalls \/ \A o \in Objs : life[o] = "dead"
  /\ UNCHANGED vars

Next ==
  \/ \E o \in Objs : Construct(o) \/ Allocate(o) \/ GetRandAddr(o) \/ Destroy(o)
  \/ \E d, s \in Objs : (d # s /\ MoveConstruct(d, s)) \/ MoveAssign(d, s)
  \/ Done

Spec == Init /\ [][Next]_vars

-----------------------------------------------------------------------------
TypeOK ==
  /\ life \in [Objs -> {"unborn", "live", "dead"}]
  /\ ptr \in [Objs -> {NULL, MAP_FAILED} \cup VPages]
  /\ size \in [Objs -> {0} \cup PageCounts]
  /\ \A o \in Objs : maps[o] \in Seq(VPages \X HugePages)
  /\ vm \in [VPages -> {0} \cup HugePages]
  /\ ok \in [Objs -> BOOLEAN] /\ badUnmap \in BOOLEAN

(* Ownership through moves and destruction: the region a live object      *)
(* holds is still mapped, and no other live object holds it, so no region  *)
(* is unmapped while in use or unmapped twice by two destructors.          *)
OwnedRegionsMapped ==
  \A o \in Objs : life[o] = "live" =>
    /\ \A v \in Pages(o) : vm[v] # 0
    /\ \A o2 \in Objs \ {o} : life[o2] = "live" => Pages(o) \cap Pages(o2) = {}

(* The header's contract for virt_to_phys: an object whose allocate        *)
(* succeeded translates every address of its region to the physical page  *)
(* the kernel mapped there (0 only for addresses outside it).              *)
TranslationMatchesKernel ==
  \A o \in Objs : life[o] = "live" /\ ok[o] =>
    \A v \in Pages(o), off \in Offsets : VirtToPhys(o, <<v, off>>) = <<vm[v], off>>
=============================================================================
