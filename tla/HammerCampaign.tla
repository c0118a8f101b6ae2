---------------------------- MODULE HammerCampaign ----------------------------
(***************************************************************************)
(* The Rowhammer fuzzing campaign of the PoC (poc/tools/phoenix.cpp main,  *)
(* the range parser of phoenix_cli.hpp, poc/src/bit_flips.cpp and the      *)
(* three observers of poc/include/hammer).  main checks its environment,   *)
(* allocates the superpage and opens the CSV file; then, for every         *)
(* aggressor base row, reads-per-tREFI value and self-sync threshold, it   *)
(* writes the aggressor and victim fills, hammers, collects the bytes of   *)
(* the victim rows that differ from the fill, restores them, and hands the *)
(* flips to the progress bar and the CSV writer through the fan-out.       *)
(*                                                                         *)
(* Not in the repository, and so inputs here: the pattern builder (which   *)
(* rows a pattern hammers and which it checks, PatAggs / PatVictims), the  *)
(* hammer function (which bits it flips, from FlipSites) and the host      *)
(* (Hosts: what each system call or external command answers).  A memory   *)
(* row is one 8-byte word; bytes are kept in memory order.                 *)
(***************************************************************************)
EXTENDS Integers, Sequences, SequencesExt, FiniteSets, Bitwise

CONSTANTS
  ReadsArgs,      \* possible --reads-per-trefi arguments
  SyncArgs,       \* possible --self-sync-cycles arguments
  AggRowStart,    \* --aggressor-row-start
  AggRowEnd,      \* --aggressor-row-end
  SyncRowsArgs,   \* possible --sync-rows values
  SyncRowStart,   \* --sync-row-start
  TargetSubch, TargetRanks, TargetBg, TargetBanks,  \* -S, -R, -G, -B lists
  Hosts,          \* possible host answers (records, see Setup)
  CsvFiles,       \* possible contents of the CSV file before the run
  MemRows,        \* memory rows the patterns touch
  PatAggs,        \* aggressor base row -> rows the pattern hammers
  PatVictims,     \* aggressor base row -> rows the pattern checks
  FlipSites,      \* <<row, byte, bit>> the hammering may flip
  MaxFlips,       \* bound on flips per iteration
  IntBits,        \* width of int
  SizeBits,       \* width of size_t (wider than int)
  MaxRangeLen     \* values a range vector can hold before bad_alloc

(* The fills of main, as the bytes x86 stores them (little-endian):       *)
(* 0x0068'0005'5555'5FD3 and 0x0068'000A'AAAA'AFD3.                       *)
AggressorFill == <<211, 95, 85, 85, 5, 0, 104, 0>>
VictimFill    == <<211, 175, 170, 170, 10, 0, 104, 0>>
Zeroes        == [i \in 1 .. 8 |-> 0]

(* The CSV lines: kHeader, a line that starts with kHeader, any other     *)
(* line, and the flip records a run appends.                               *)
NoFlip == [row |-> 0, byte |-> 0, expected |-> 0, actual |-> 0]
Text(k) == [kind |-> k, reads |-> 0, sync |-> 0, base |-> 0, flip |-> NoFlip]
Header == Text("header")

(* int: IntBits wide, two's complement; the int -> size_t conversion of *)
(* the ProgressBarObserver constructor takes it modulo 2^SizeBits.       *)
Wrap(x) == ((x + 2 ^ (IntBits - 1)) % 2 ^ IntBits) - 2 ^ (IntBits - 1)
ToSize(x) == x % (2 ^ SizeBits)

VARIABLES
  pc,             \* "parse", "main", "loop", or where the process ended:
                  \* "exit_parse" (exit(1) in parse_cli), "exit" (EXIT_FAILURE),
                  \* "abort" (uncaught exception), "crash", "done" (return 0)
  host,           \* the host's answers, fixed at start
  readsArg,       \* the --reads-per-trefi string
  syncArg,        \* the --self-sync-cycles string
  reads, syncs,   \* p.reads_per_trefi and p.self_sync_cycles
  syncRowsArg,    \* p.sync_row_count
  geometry,       \* dimm_ranks and dimm_size_gib as main detected them
  syncRows,       \* sync_rows, the addresses get_sync_rows returned
  row, ri, si,    \* the three loop indices (ri and si 1-based)
  mem,            \* memory row -> its 8 bytes
  csv,            \* the CSV file's lines, as they are on disk
  csvBuf,         \* lines written to CsvWriterObserver::csv_ and not flushed
  csvOwner,       \* "root", or "user" once chowned to SUDO_UID:SUDO_GID
  realtime,       \* the process runs SCHED_FIFO at maximum priority
  pinned,         \* the thread's affinity is the --cpu-core CPU
  bar,            \* the ProgressBarObserver: "none", "running", "completed"
  itersDone,      \* ProgressBarObserver::iterations_done_
  totalIters,     \* ProgressBarObserver::total_iterations_
  lastFlips,      \* last_flips_
  totalFlips,     \* total_flips_
  injected        \* history: the victim bytes the hammering flipped

vars == <<pc, host, readsArg, syncArg, reads, syncs, syncRowsArg, geometry,
          syncRows, row, ri, si, mem, csv, csvBuf, csvOwner, realtime, pinned,
          bar, itersDone, totalIters, lastFlips, totalFlips, injected>>

-----------------------------------------------------------------------------
(* parse_range: "v" gives <<v>>; "start:end:step" with a positive step is  *)
(* expanded by `for (int val = start; val <= end; val += step)`, in which  *)
(* val wraps past INT_MAX.  The vector holds at most MaxRangeLen values:   *)
(* one more is the std::bad_alloc of push_back.  A missing second colon,   *)
(* a non-number (kind "bad") or a step <= 0 throws.                        *)
RECURSIVE Expand(_, _, _, _)
Expand(val, end, step, acc) ==
  IF val > end \/ Len(acc) > MaxRangeLen THEN acc
  ELSE Expand(Wrap(val + step), end, step, Append(acc, val))

ParseRange(a) ==
  IF a.kind = "single" THEN <<a.start>> ELSE Expand(a.start, a.end, a.step, <<>>)

RangeOk(a) ==
  /\ a.kind = "single" \/ (a.kind = "range" /\ a.step > 0)
  /\ Len(ParseRange(a)) <= MaxRangeLen

(* initialize_data_pattern: every row of the list gets the fill. *)
InitializeDataPattern(m, rows, fill) ==
  [r \in MemRows |-> IF r \in rows THEN fill ELSE m[r]]

(* The two fills of an iteration: aggressors first, then victims, so a row *)
(* that is both holds the victim fill.  The swapped order is for the       *)
(* mutation check.                                                          *)
WriteFillsSwapped(m, A, V) ==
  InitializeDataPattern(InitializeDataPattern(m, V, VictimFill), A, AggressorFill)

WriteFills(m, A, V) ==
  InitializeDataPattern(InitializeDataPattern(m, A, AggressorFill), V, VictimFill)

(* The bits the hammer function flips, at most one per byte (see Flips). *)
Hammered(m, F) ==
  [r \in MemRows |->
     [i \in 1 .. 8 |->
        IF \E s \in F : s[1] = r /\ s[2] = i - 1
        THEN m[r][i] ^^ (2 ^ (CHOOSE s \in F : s[1] = r /\ s[2] = i - 1)[3])
        ELSE m[r][i]]]

(* collect_bit_flips: each victim word once (the unordered_set), each byte *)
(* that differs from the fill's byte recorded with both values, and the    *)
(* word written back with the fill.  The variant that numbers bytes from 1 *)
(* is for the mutation check.                                              *)
CollectBitFlipsOffByOne(m, victims, fill) ==
  UNION {{[row |-> r, byte |-> i, expected |-> fill[i], actual |-> m[r][i]] :
            i \in {j \in 1 .. 8 : m[r][j] # fill[j]}} : r \in victims}

CollectBitFlips(m, victims, fill) ==
  UNION {{[row |-> r, byte |-> i - 1, expected |-> fill[i], actual |-> m[r][i]] :
            i \in {j \in 1 .. 8 : m[r][j] # fill[j]}} : r \in victims}

Restored(m, victims, fill) == InitializeDataPattern(m, victims, fill)

(* The records CsvWriterObserver::on_post_iteration writes: the flips      *)
(* sorted by address (one bank: row, then column), one line each with the *)
(* fuzz point.                                                             *)
AddrBefore(a, b) == a.row < b.row \/ (a.row = b.row /\ a.byte < b.byte)

CsvRecords(fp, flips) ==
  LET sorted == SetToSortSeq(flips, AddrBefore)
  IN  [k \in 1 .. Len(sorted) |-> [fp EXCEPT !.flip = sorted[k]]]

(* kHammerFnRegistry and kPatternRegistry: the names resolve_hammer_fn   *)
(* and resolve_pattern_builder accept; any other throws invalid_argument. *)
HammerFnRegistry == {"self_sync", "seq_sync"}
PatternRegistry  == {"skh_mod128", "skh_mod2608"}

(* detect_ranks over the devices dmidecode lists: the first "Rank:" value *)
(* that is neither empty nor "Unknown" goes through std::stoi, which      *)
(* throws on text; no such line throws.                                   *)
RankLine(dmi)      == SelectInSeq(dmi, LAMBDA e : e.rankKind # "unknown")
RanksDetected(dmi) == RankLine(dmi) # 0 /\ dmi[RankLine(dmi)].rankKind = "number"
DetectRanks(dmi)   == dmi[RankLine(dmi)].rank

(* detect_dimm_gib: the "Size:" lines of installed modules with a non-zero *)
(* size, in GiB (a size in MB divided by 1024, truncating; any other unit *)
(* taken as GiB); the smallest positive one, or a throw if there is none. *)
Gib(e) == IF e.unit = "MB" THEN e.size \div 1024 ELSE e.size
DimmGibs(dmi) ==
  {g \in {Gib(dmi[k]) : k \in {k \in DOMAIN dmi : dmi[k].unit # "NoModule" /\ dmi[k].size # 0}} :
     g > 0}
DimmSizeFound(dmi) == DimmGibs(dmi) # {}
DetectDimmGib(dmi) == Min(DimmGibs(dmi))

(* get_sync_rows: for row = sync_row_start, ... while fewer than           *)
(* sync_row_count addresses are collected, the addresses of the row over  *)
(* target_subch, target_ranks, target_bg and target_banks (innermost);    *)
(* then resize to sync_row_count.  An address is <<sc, rk, bg, bk, row>>. *)
(* The variant without the resize is for the mutation check.              *)
RowSyncAddrs(r) ==
  FlattenSeq([a \in DOMAIN TargetSubch |-> FlattenSeq([b \in DOMAIN TargetRanks |->
    FlattenSeq([c \in DOMAIN TargetBg |-> [d \in DOMAIN TargetBanks |->
      <<TargetSubch[a], TargetRanks[b], TargetBg[c], TargetBanks[d], r>>]])])])

RECURSIVE SyncRowLoop(_, _, _)
SyncRowLoop(r, count, addrs) ==
  IF Len(addrs) >= count THEN addrs
  ELSE SyncRowLoop(r + 1, count, addrs \o RowSyncAddrs(r))

GetSyncRowsUntruncated(count) == SyncRowLoop(SyncRowStart, count, <<>>)

GetSyncRows(count) == SubSeq(SyncRowLoop(SyncRowStart, count, <<>>), 1, count)

-----------------------------------------------------------------------------
Init ==
  /\ pc = "parse"
  /\ host \in Hosts
  /\ readsArg \in ReadsArgs /\ syncArg \in SyncArgs
  /\ reads = <<>> /\ syncs = <<>>
  /\ syncRowsArg \in SyncRowsArgs
  /\ geometry = [ranks |-> 0, gib |-> 0] /\ syncRows = <<>>
  /\ row = AggRowStart /\ ri = 1 /\ si = 1
  /\ mem = [r \in MemRows |-> Zeroes]   \* MAP_POPULATE'd huge page
  /\ csv \in CsvFiles /\ csvBuf = <<>> /\ csvOwner = "root"
  /\ realtime = FALSE /\ pinned = FALSE /\ bar = "none"
  /\ itersDone = 0 /\ totalIters = 0 /\ lastFlips = 0 /\ totalFlips = 0
  /\ injected = {}

(* parse_cli: both ranges are parsed, --self-sync-cycles first; whatever  *)
(* either throws is caught and ends the process with exit(1).             *)
ParseCli ==
  /\ pc = "parse"
  /\ IF RangeOk(syncArg) /\ RangeOk(readsArg)
     THEN /\ syncs' = ParseRange(syncArg) /\ reads' = ParseRange(readsArg)
          /\ pc' = "main"
     ELSE pc' = "exit_parse" /\ UNCHANGED <<reads, syncs>>
  /\ UNCHANGED <<host, readsArg, syncArg, syncRowsArg, geometry, syncRows, row,
                 ri, si, mem, csv, itersDone, totalIters, lastFlips, totalFlips,
                 injected, csvBuf, csvOwner, realtime, pinned, bar>>

(* run_command: popen fails -> runtime_error.  The host answers it once   *)
(* for both commands main runs; main catches it for the CPU model and     *)
(* returns EXIT_FAILURE, so detect_ranks never meets it.                  *)
RunCommandThrows(h) == ~h.popen

(* elevate_to_max_priority: SCHED_FIFO at sched_get_priority_max; false   *)
(* (and only a warning in main) if either call fails.                      *)
ElevateToMaxPriority(h) == h.fifo

(* set_thread_affinity: a cpu_set_t with the one core; the result of      *)
(* pthread_setaffinity_np is not looked at, so a core the thread may not  *)
(* run on (offline, outside the cpuset, or past CPU_SETSIZE, where CPU_SET *)
(* sets nothing) leaves the thread unpinned.                               *)
SetThreadAffinity(h) == h.coreUsable

(* The CSV constructor's header check: kHeader is written unless the file *)
(* is non-empty and its first line starts with kHeader.  The variant that *)
(* only asks whether the file is empty is for the mutation check.         *)
NeedsHeaderIfEmpty(f) == Len(f) = 0

NeedsHeader(f) == ~(Len(f) > 0 /\ f[1].kind \in {"header", "header+"})

(* CsvWriterObserver's constructor once csv_ is open in append mode: the   *)
(* header goes to the ofstream's buffer (no flush), then, as root, the    *)
(* file is chowned to SUDO_UID:SUDO_GID; unset variables or a failed chown *)
(* are a warning, a value std::stoi cannot read throws.                    *)
CsvConstruct(h) ==
  /\ csvBuf' = IF NeedsHeader(csv) THEN <<Header>> ELSE <<>>
  /\ csvOwner' = IF h.sudo = "ids" THEN "user" ELSE csvOwner

(* main up to the loop, as the stages it gets past.  It returns           *)
(* EXIT_FAILURE when the CPU model cannot be read or it is not root; a     *)
(* failed priority raise is only a warning.  detect_ranks and             *)
(* detect_dimm_gib throw when dmidecode shows no usable DIMM; the         *)
(* superpage is then allocated (its result is not looked at);             *)
(* resolve_hammer_fn and resolve_pattern_builder throw on an unknown name; *)
(* the progress bar is constructed with total_iterations, the int product *)
(* of the two range sizes and the row span; the CSV writer's constructor  *)
(* throws on a file it cannot open or an unreadable SUDO_UID; the thread   *)
(* is pinned; get_sync_rows' reserve throws length_error for a negative   *)
(* --sync-rows.  Nothing catches these throws: std::terminate aborts      *)
(* without unwinding, so no destructor runs and the ofstream buffer is    *)
(* lost with the process.                                                  *)
MainSetup ==
  /\ pc = "main"
  /\ LET dmi    == host.dmi
         iters  == Len(reads) * Len(syncs) * (AggRowEnd - AggRowStart)
         asRoot == ~RunCommandThrows(host) /\ host.root            \* 218-229
         dimm   == asRoot /\ RanksDetected(dmi) /\ DimmSizeFound(dmi) \* 241-243
         ui     == dimm /\ host.hammerFn \in HammerFnRegistry
                        /\ host.pattern \in PatternRegistry         \* 245-251
         opened == ui /\ host.csvOpens                               \* 252
         csvOk  == opened /\ host.sudo # "bad"                       \* 252-255
         rowsOk == csvOk /\ syncRowsArg >= 0                         \* 260
     IN /\ pc' = CASE ~asRoot -> "exit" [] ~rowsOk -> "abort" [] OTHER -> "loop"
        /\ realtime' = (asRoot /\ ElevateToMaxPriority(host))
        /\ geometry' = IF dimm THEN [ranks |-> DetectRanks(dmi), gib |-> DetectDimmGib(dmi)]
                       ELSE geometry
        /\ bar' = IF ui THEN "running" ELSE bar
        /\ totalIters' = IF ui THEN ToSize(Wrap(iters)) ELSE totalIters
        /\ IF opened THEN CsvConstruct(host) ELSE UNCHANGED <<csvBuf, csvOwner>>
        /\ pinned' = (csvOk /\ SetThreadAffinity(host))
        /\ syncRows' = IF rowsOk THEN GetSyncRows(syncRowsArg) ELSE syncRows
  /\ UNCHANGED <<host, readsArg, syncArg, reads, syncs, syncRowsArg, row, ri, si,
                 mem, csv, itersDone, lastFlips, totalFlips, injected>>

(* The flips one hammer call makes: at most MaxFlips, one bit per byte. *)
Flips ==
  {F \in SUBSET FlipSites :
     /\ Cardinality(F) <= MaxFlips
     /\ \A s, t \in F : s[1] = t[1] /\ s[2] = t[2] => s = t}

(* ProgressBarObserver::on_post_iteration: one more iteration, and the   *)
(* flip counts.                                                            *)
ProgressOnPost(flips) ==
  /\ itersDone' = itersDone + 1
  /\ lastFlips' = Cardinality(flips)
  /\ totalFlips' = totalFlips + Cardinality(flips)

(* CsvWriterObserver::on_post_iteration: nothing for no flips; else the   *)
(* records go to the ofstream after what it holds, and the flush puts     *)
(* all of it in the file.                                                  *)
CsvOnPost(fp, flips) ==
  IF flips = {} THEN UNCHANGED <<csv, csvBuf>>
  ELSE csv' = csv \o csvBuf \o CsvRecords(fp, flips) /\ csvBuf' = <<>>

(* FanOutObserver::on_post_iteration: the sinks in the order main gives    *)
(* them, the progress bar and then the CSV writer.                          *)
FanOutOnPost(fp, flips) == ProgressOnPost(flips) /\ CsvOnPost(fp, flips)

(* The loop indices after one iteration: the sync threshold innermost,    *)
(* then reads per tREFI, then the aggressor row.  The variant that does   *)
(* not reset the reads index is for the mutation check.                   *)
AdvanceNoReset(r, i, j) ==
  IF j < Len(syncs) THEN <<r, i, j + 1>>
  ELSE IF i < Len(reads) THEN <<r, i + 1, 1>>
  ELSE <<r + 1, i, 1>>

Advance(r, i, j) ==
  IF j < Len(syncs) THEN <<r, i, j + 1>>
  ELSE IF i < Len(reads) THEN <<r, i + 1, 1>>
  ELSE <<r + 1, 1, 1>>

(* The loop of main has run out: past the last row, or a range is empty *)
(* (start > end) so no row has an iteration.                             *)
LoopDone(r) == r >= AggRowEnd \/ reads = <<>> \/ syncs = <<>>

(* allocate_single_superpage: a local allocation asks for one huge page  *)
(* and is moved into dram_address whatever allocate returned; the region  *)
(* the iterations write through is mapped only if that allocate worked.   *)
SuperpageMapped(h) == h.alloc

(* The FuzzPoint main builds for an iteration, { row, reads, pat,          *)
(* sync_cycles, row }: the pattern index and the aggressor base row are    *)
(* both the row.  As a CSV line it carries no flip yet.                    *)
FuzzPointOf(r, rd, sc) ==
  [kind |-> "flip", reads |-> rd, sync |-> sc, base |-> r, flip |-> NoFlip]

(* One iteration of the loop of main: fills, on_pre_iteration (only the   *)
(* progress bar's text; the CSV writer's is empty), the hammer function,  *)
(* collect_bit_flips, and on_post_iteration through the fan-out to the    *)
(* progress bar and then the CSV writer.  With the allocation failed, the *)
(* fills are written through a region that is not mapped and the process  *)
(* takes a fault.                                                          *)
Iteration ==
  /\ pc = "loop" /\ ~LoopDone(row)
  /\ IF ~SuperpageMapped(host)
     THEN pc' = "crash"
          /\ UNCHANGED <<row, ri, si, mem, csv, csvBuf, itersDone, lastFlips,
                         totalFlips, injected>>
     ELSE \E F \in Flips :
       LET V     == PatVictims[row]
           fp    == FuzzPointOf(row, reads[ri], syncs[si])
           m2    == Hammered(WriteFills(mem, PatAggs[row], V), F)
           flips == CollectBitFlips(m2, V, VictimFill)
           nxt   == Advance(row, ri, si)
       IN  /\ mem' = Restored(m2, V, VictimFill)
           /\ FanOutOnPost(fp, flips)
           /\ injected' = injected \cup
                {[fp EXCEPT !.flip = [row |-> s[1], byte |-> s[2],
                                      expected |-> VictimFill[s[2] + 1],
                                      actual |-> VictimFill[s[2] + 1] ^^ (2 ^ s[3])]] :
                   s \in {s \in F : s[1] \in V}}
           /\ row' = nxt[1] /\ ri' = nxt[2] /\ si' = nxt[3]
           /\ UNCHANGED pc
  /\ UNCHANGED <<host, readsArg, syncArg, reads, syncs, syncRowsArg, geometry,
                 syncRows, totalIters, csvOwner, realtime, pinned, bar>>

(* ~ProgressBarObserver marks the bar completed. *)
ProgressDestructor == bar' = "completed"

(* return 0: the locals are destroyed in reverse order, the fan-out, the  *)
(* CSV writer (its ofstream flushes what it holds into the file) and the  *)
(* progress bar.                                                           *)
Return ==
  /\ pc = "loop" /\ LoopDone(row)
  /\ pc' = "done"
  /\ csv' = csv \o csvBuf /\ csvBuf' = <<>>
  /\ ProgressDestructor
  /\ UNCHANGED <<host, readsArg, syncArg, reads, syncs, syncRowsArg, geometry,
                 syncRows, row, ri, si, mem, itersDone, totalIters, lastFlips,
                 totalFlips, injected, csvOwner, realtime, pinned>>

(* The campaign is stopped from outside (SIGINT from the terminal, or any *)
(* fatal signal) between two steps of its loop: main installs no handler, *)
(* so the process ends without destructors and the ofstream buffer is    *)
(* lost.                                                                    *)
Killed ==
  /\ pc = "loop"
  /\ pc' = "killed"
  /\ UNCHANGED <<host, readsArg, syncArg, reads, syncs, syncRowsArg, geometry,
                 syncRows, row, ri, si, mem, csv, csvBuf, csvOwner, realtime,
                 pinned, bar, itersDone, totalIters, lastFlips, totalFlips, injected>>

(* The process has ended. *)
Ended == pc \in {"exit_parse", "exit", "abort", "crash", "killed", "done"} /\ UNCHANGED vars

Next == ParseCli \/ MainSetup \/ Iteration \/ Return \/ Killed \/ Ended

Spec == Init /\ [][Next]_vars

-----------------------------------------------------------------------------
IntRange == -(2 ^ (IntBits - 1)) .. 2 ^ (IntBits - 1) - 1
Line == [kind : {"header", "header+", "other", "flip"}, reads : IntRange,
         sync : IntRange, base : Int,
         flip : [row : {0} \cup MemRows, byte : 0 .. 7, expected : 0 .. 255,
                 actual : 0 .. 255]]

TypeOK ==
  /\ pc \in {"parse", "main", "loop", "exit_parse", "exit", "abort", "crash", "killed",
            "done"}
  /\ reads \in Seq(IntRange) /\ syncs \in Seq(IntRange)
  /\ mem \in [MemRows -> [1 .. 8 -> 0 .. 255]]
  /\ csv \in Seq(Line) /\ csvBuf \in Seq(Line) /\ injected \subseteq Line
  /\ csvOwner \in {"root", "user"} /\ bar \in {"none", "running", "completed"}
  /\ realtime \in BOOLEAN /\ pinned \in BOOLEAN
  /\ totalIters \in 0 .. 2 ^ SizeBits - 1 /\ itersDone \in Nat /\ lastFlips \in Nat /\ totalFlips \in Nat
  /\ geometry \in [ranks : Nat, gib : Nat] /\ syncRows \in Seq(Seq(Int))

FlipLines == {k \in DOMAIN csv : csv[k].kind = "flip"}

(* Every bit the hammering flips in a victim row of an iteration is in the *)
(* CSV file once as soon as the iteration is over (the flush of           *)
(* on_post_iteration), so a campaign killed or crashed later keeps it: one *)
(* line with that iteration's fuzz point, the byte's fill value and its   *)
(* flipped value.  The file holds no other flip: no flip is lost to the   *)
(* fills or the restore of collect_bit_flips, none is reported twice, and *)
(* a row that is both aggressor and victim does not turn its aggressor    *)
(* fill into reported flips.                                               *)
FlipsReportedOnce ==
  /\ {csv[k] : k \in FlipLines} = injected
  /\ Cardinality(FlipLines) = Cardinality(injected)

(* Every flip record in the CSV file is under a header line: the          *)
(* constructor's first-line check appends kHeader to a file that lacks    *)
(* it, and the header, held in the ofstream, reaches the file before the  *)
(* first records, on every path including a kill or a crash.              *)
CsvRecordsUnderHeader ==
  \A k \in FlipLines : \E j \in 1 .. k - 1 : csv[j].kind \in {"header", "header+"}

(* The progress bar agrees with the CSV: its flip total is the number of   *)
(* flip lines written, and when the loop of main has run out it has       *)
(* counted exactly the total_iterations main computed.                    *)
ProgressAccounting ==
  /\ totalFlips = Cardinality(FlipLines)
  /\ pc = "done" => itersDone = totalIters

(* parse_cli rejects only the arguments parse_range is written to reject: *)
(* a well-formed "start:end:step" (step > 0) whose values fit in the       *)
(* vector is accepted, wherever in int it lies.                            *)
WellFormed(a) ==
  \/ a.kind = "single"
  \/ a.kind = "range" /\ a.step > 0
       /\ (a.end - a.start) \div a.step + 1 <= MaxRangeLen

ParseAcceptsWellFormedRanges ==
  pc = "exit_parse" => ~(WellFormed(readsArg) /\ WellFormed(syncArg))

(* The n-th sync address (from 0) in (row, subchannel, rank, bank group,  *)
(* bank) order from --sync-row-start, as a mixed-radix number.            *)
SyncAddr(n) ==
  LET nS == Len(TargetSubch)  nR == Len(TargetRanks)
      nG == Len(TargetBg)     nB == Len(TargetBanks)
  IN  <<TargetSubch[((n \div (nR * nG * nB)) % nS) + 1],
        TargetRanks[((n \div (nG * nB)) % nR) + 1],
        TargetBg[((n \div nB) % nG) + 1], TargetBanks[(n % nB) + 1],
        SyncRowStart + n \div (nS * nR * nG * nB)>>

(* The hammer loop runs with exactly --sync-rows sync addresses, the first *)
(* ones in that order: the row loop of get_sync_rows stops only after a   *)
(* whole row, and the resize must cut the overshoot off.                  *)
SyncRowsMatchReference ==
  pc \in {"loop", "done"} => syncRows = [k \in 1 .. syncRowsArg |-> SyncAddr(k - 1)]

=============================================================================
