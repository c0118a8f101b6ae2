--------------------------- MODULE MCHammerCampaign ---------------------------
(***************************************************************************)
(* A campaign over two aggressor base rows and three memory rows, with     *)
(* 5-bit ints so that a range near INT_MAX is a small number.  Row 3 is an *)
(* aggressor and a victim of the same pattern at base row 1.               *)
(***************************************************************************)
EXTENDS HammerCampaign, TLC

RangeArg(s, e, st) == [kind |-> "range", start |-> s, end |-> e, step |-> st]
Single(v)       == [kind |-> "single", start |-> v, end |-> v, step |-> 1]
Malformed       == [kind |-> "bad", start |-> 0, end |-> 0, step |-> 1]

MCReadsArgs == {Single(3), RangeArg(1, 3, 2), RangeArg(3, 1, 1), RangeArg(1, 2, 0)}
MCSyncArgs  == {Single(5), Malformed}
MCOverflowReadsArgs == {RangeArg(13, 15, 2)}
MCOverflowSyncArgs  == {Single(5)}

(* dmidecode devices: an empty slot, a 16 GiB module given in MB with two *)
(* ranks, an 8 GiB single-rank module, and slots with no usable rank or  *)
(* size.  A 512 MB module floors to 0 GiB and is skipped.                *)
Dev(sz, u, rk, r) == [size |-> sz, unit |-> u, rankKind |-> rk, rank |-> r]
EmptySlot == Dev(0, "NoModule", "unknown", 0)
MixedDmi  == <<EmptySlot, Dev(16384, "MB", "number", 2), Dev(8, "GB", "number", 1)>>

(* A host: popen works, euid 0, SCHED_FIFO allowed, the dmidecode        *)
(* devices, the huge page allocates, the CSV file opens, SUDO_UID and     *)
(* SUDO_GID (numbers, unset, or text std::stoi rejects), --cpu-core names *)
(* a CPU the thread may run on, and the two names main resolves.          *)
GoodHost == [popen |-> TRUE, root |-> TRUE, fifo |-> TRUE, dmi |-> MixedDmi,
             alloc |-> TRUE, csvOpens |-> TRUE, sudo |-> "ids",
             coreUsable |-> TRUE, hammerFn |-> "self_sync", pattern |-> "skh_mod128"]
MCHosts ==
  {GoodHost}
  \cup {[GoodHost EXCEPT ![f] = FALSE] :
          f \in {"popen", "root", "fifo", "alloc", "csvOpens", "coreUsable"}}
  \cup {[GoodHost EXCEPT !.sudo = "unset"], [GoodHost EXCEPT !.sudo = "bad"]}
  \cup {[GoodHost EXCEPT !.dmi = <<EmptySlot, Dev(8, "GB", "unknown", 0)>>],
        [GoodHost EXCEPT !.dmi = <<Dev(8, "GB", "text", 0)>>],
        [GoodHost EXCEPT !.dmi = <<EmptySlot, Dev(512, "MB", "number", 1)>>]}
  \cup {[GoodHost EXCEPT !.hammerFn = "hammer"], [GoodHost EXCEPT !.pattern = "mod64"]}

MCCsvFiles == {<<>>, <<Header>>, <<Text("header+")>>, <<Text("other")>>}
MCPatAggs    == (0 :> {1}) @@ (1 :> {2, 3})
MCPatVictims == (0 :> {2}) @@ (1 :> {1, 3})
MCTargetOne  == <<0>>
MCTargetBg   == <<0, 1>>
MCSyncRowsArgs == {-1, 3}
MCFlipSites  == {<<2, 0, 1>>, <<2, 0, 6>>, <<3, 1, 0>>, <<1, 7, 7>>, <<1, 0, 4>>}
=============================================================================
