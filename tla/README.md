# TLA+ models of the Phoenix DDR5 calibration engine and Rowhammer PoC

This directory holds TLA+ models of the DRAM calibration code the Phoenix
FPGA experiments run in the LiteX BIOS. The code lives in
`src/fpga-experiments/third_party/litex/litex/soc/software/liblitedram/`
(below, `liblitedram/`). Every module is translated from that C source. The
runs are checked with TLC, and `PROJECT.json` maps each definition to the
lines it models.

The second part of the project models the host-side Rowhammer
proof-of-concept under `src/poc/`: the huge-page allocation class and the
fuzzing campaign of `tools/phoenix.cpp` with its range parser, bit-flip
collection and observers (modules `Allocation` and `HammerCampaign`).

## 1. The system

The calibration is one single-threaded C program on the soft CPU of the
FPGA. It drives a DRAM PHY through delay registers and asks the DRAM
(or the RCD of an RDIMM) whether a command or data pattern got through.
Nothing runs concurrently. The hard behaviour is in the closed-loop
searches:

- sweeps over delay taps whose results feed later sweeps;
- state kept in file-level statics between calls;
- C integer arithmetic on sentinel values;
- the way the stages hand their results (or failures) to each other.

| Part | Source | State | Operations |
|---|---|---|---|
| Eye detection helper | `liblitedram/utils/eye_detection_helper.c` | `helper_arr[2*MAX(64,DELAYS)]`, cursor `helper_arr_it` | clear, record-and-advance, `one_in`, `one_stride`, `find_eye` |
| CS training | `ddr5_training.c` 57-236 | statics `helper_modules_without_shift`, `helper_modules_seen`, `seen_working`; `ctx->cs.{invert,delays,coarse_delays}`; CS delay register | `CS_scan_single`, `CS_scan` (sweep sequence, polarity inversion, case -1/1/0 switch), `CS_training` (per-rank eye, coarse delay, CA line 0 check) |
| CA training | `ddr5_training.c` 243-340 | `ctx->ca.{delays,line_count}`; CA delay registers | `CA_setup_array`, `CA_check_lines`, `CA_scan_single`, `CA_scan`, `CA_training` (per-line envelope over ranks) |
| CK finalisation | `ddr5_training.c` 351-544 | `final_delays`, CK/CS/CA delay registers | midpoints, clock shift `(N-min)%N`, adjusted delays, verification re-scan |
| CS/CA entry points | `ddr5_training.c` 546-610, 2036-2058 | `CS_CA_successful` | channel training with fail-fast; host path latches the result; RDIMM path does not (modelled in `Ddr5Flow`) |
| Read training | `ddr5_training.c` 785-1115 | per-module read cycle and DQ delay | preamble search, data-eye scan, centre, check |
| Write leveling / training | `ddr5_training.c` 1166-1886 | write DQS cycle/delay, WICA, DQ delay, Vref, DM delay | external and internal leveling, data-eye scan, Vref scans, DM scan |
| RCD bring-up, flow | `ddr5_training.c` 1898-2139 | RDIMM flag, contexts, quirk strategy | `rcd_init`, `sdram_ddr5_flow` (stage order, enumeration) |
| SPD parse | `liblitedram/ddr5/ddr5_spd_parse.c` | none | I2C reads with defaults |
| LPDDR5 training | `lpddr5_training.c`, `lpddr5_helpers.c` | WCK, read/write delays, bitslips | WCK leveling, read/write data scans, Vref scan |
| BIOS shell | `bios/cmds/cmd_litedram.c` | none | argument parsing and calls |
| PoC allocation | `src/poc/src/allocation.cpp`, `include/hammer/allocation.hpp` | `allocation_ptr`, `allocation_size`, `virt_phys_mappings`; the kernel's huge pages | construct, `allocate`, moves, `virt_to_phys`, `phys_to_virt`, `get_rand_addr`, destroy |
| PoC campaign | `src/poc/tools/phoenix.cpp`, `phoenix_cli.hpp`, `src/bit_flips.cpp`, `include/hammer/observer_*.hpp` | parsed ranges, loop indices, victim/aggressor memory, CSV file, progress counters | `parse_cli`/`parse_range`, host checks, fills, hammer, `collect_bit_flips`, observers |
| Address mapping | `src/plots/.../DRAMAddr.c` | the static `config` | `init_lib`, `to_dram`, `linearize`, `to_addr` |
| Simulator glue | `litex/build/sim/core/veril.cpp` | host-side | Verilator wrapper |

### How the parts interact

- Every scan records one sample per tap into the shared helper buffer.
- The caller classifies the buffer with `one_in` and `one_stride`, or
  extracts the first run of working taps with `find_eye`.
- CS training programs a coarse CS delay and then checks it through a CA
  line 0 scan.
- CA training runs after CS.
- CK finalisation takes every CS and CA eye and shifts the clock so that
  the smallest midpoint lands at tap 0. It moves every signal by the same
  amount and re-scans everything.
- On an RDIMM, the same CS/CA code first trains Host->RCD (`HOST_RCD`
  context) and then RCD->DRAM (`RCD_DRAM` context).

On the host, `main` of the PoC allocates one superpage with `allocation`
and moves it into `dram_address` (not in the repository), which
translates pattern rows to virtual addresses; each iteration fills the
rows, hammers, and hands the bit flips `collect_bit_flips` finds to the
progress bar and the CSV writer through the fan-out observer.

### Hazards

`PROJECT.json` lists each hazard at its line. In short:

- **Helper buffer:** the write into the helper buffer is unchecked.
- **CS_scan control flow:**
  - the case -1 fall-through;
  - the polarity path, which needs at least 16 taps;
  - the statics that are reset only conditionally.
- **Arithmetic on edges and midpoints:**
  - UNSET arithmetic in the CS check;
  - C truncating division;
  - the running minimum that starts at `max_delay_taps`.
- **Results dropped or not checked:**
  - an empty CA envelope;
  - the RDIMM path ignoring the CS/CA result;
  - the discarded DM check;
  - silent exhaustion of the WICA and edge searches;
  - enumeration failures returning without status;
  - SPD read failures defaulting instead of failing;
  - a failed read-back ending read training for the remaining ranks.
- **Counters at limits and off-by-one:**
  - the Vref width array index;
  - the preamble-cycle off-by-one;
  - negative start cycles and bitslips, including the write transition
    cycle pulled back to -1.
- **Choices that assume a shape:** the Vref midpoint assumes that the
  widest eyes are adjacent, and a final data scan that fails leaves DQ at
  0 while the module still succeeds.
- **Address mapping:** `to_addr` must mask each field before
  `linearize` ORs the fields together.
- **LPDDR5:**
  - each Vref's write scan restarts one cycle before the previous eye,
    at label -1 after an eye in the first cycle;
  - MR14 is written by a broadcast, so each module's Vref scan moves the
    Vref of the modules trained before it.

## 2. Modules

### `EyeScanner`: `utils/eye_detection_helper.c`

- **State:**
  - `helperArr` is `helper_arr`. A sample is zero or non-zero, so it is
    a Boolean.
  - `helperIt` is the cursor.
- **Actions:**
  - `Clear` is `clear_helper_arr`.
  - `Record(v)` is `set_helper_arr_value_and_advance`, unchecked. A write
    past the end leaves the slots alone, but the cursor still advances,
    so a composing module can see the overrun.
- **Extraction functions:**
  - `OneIn`, `OneStride` and `FindEye` translate the C loops as
    `RECURSIVE` operators over the loop index.
  - `RefOneIn`, `RefOneStride` and `RefEye` restate them over sets of
    indices.
  - `FindEye` is specialised to callers that pass both outputs as
    `UNSET_DELAY`, which every caller in the repository does.

### `DramAddr`: `plots/.../dramtrans/src/DRAMAddr.c`

- **State:** `config` is the file-level static `MemConfiguration`. It
  starts zeroed (`ZeroConfig`), as C initialises a static.
- **Action:** `InitLib(sel)` is `init_lib`, the copy of
  `Configurations[config_sel]`.
- **Functions:**
  - `Parity` is `__builtin_parityl`.
  - `MtxProduct` is the loop shared by `to_dram` and `to_addr`. For each
    matrix row in order it shifts the result left and ORs in the parity
    of the input under that row, so row 0 ends up in the most
    significant bit.
  - `ToDram` is `to_dram`, with `Field` as the `(res >> shift) & mask`
    extraction. `Linearize` is `linearize`. `ToAddr` is `to_addr`, masks
    included.
- **Constants:** `DRAMAddr.h` is not in the repository. It defines
  `MTX_SIZE`, `MemConfiguration` and the `Configurations` table, so
  these are the constants `MtxSize` and `Configurations`. A
  configuration is a record of the header's fields.
- **Properties:**
  - `ToAddrInvertsToDram` says that, once a configuration is selected,
    `to_addr(to_dram(a)) = a` for every address.
  - `ToDramInvertsToAddr` says that `to_dram(to_addr(d))` returns `d`
    with each field masked.
  - Both hold only when the loop order, the shift directions and the
    masking agree with each other and with the table. The table
    supplies that `ADDR_MTX` inverts `DRAM_MTX`.

### `CsCaTraining`: `ddr5_training.c` 57-610, for one subchannel

It `INSTANCE`s `EyeScanner`, sharing `helperArr` and `helperIt`.

- **Hardware as environment.** `csHw[r][s][t]` is the set of modules
  `ctx->cs.check` reports at tap `t` under shift `s`. `caHw[r][l]` is the
  set of points of the 2N scan domain where `ctx->ca.check` passes: the
  shift_back=1 sweep is `0..N-1`, the shift_back=0 sweep is `N..2N-1`.
  `has13` is the CA13 probe. All three are chosen in `Init` from sets
  the MC module gives, and are fixed from then on, as a physical channel
  is.
- **Control.**
  - `pc` is the program location.
  - `rank`, `line` and `tap` are the loop indices.
  - `pass` names the sweep of `CS_scan` (A, P, B1/B2, C, D1/D2) or of
    `CA_scan` (sb1, sb0).
  - `ret` is the caller a scan returns to: training, the CS check
    through CA line 0, CA training, or the re-scan.
- **Steps.** Every iteration of a scan loop is one step
  (`CsScanTap`, `CaScanTap`). Each end of a sweep (`CsSweepEnd`,
  `CaSweepEnd`) does the `rst_dly` and takes the branch `CS_scan` or
  `CA_scan` takes next.
- **Per-rank and per-line work.** `CsRankStep`, `CsTrainEye`, `CsProbe`,
  `CaStart` and `CaTrainEye` are the loop bodies of `CS_training`,
  `CA_check_lines` and `CA_training`. They include the early returns on
  a missing eye.
- **Channel result.** `ChanDone` is how each entry point consumes the
  channel result:
  - `sdram_ddr5_cs_ca_training` latches it into `CS_CA_successful` and
    returns before finalising, in a fail-fast build;
  - the RDIMM loop of `sdram_ddr5_flow` (`RCD_DRAM` context) ignores it.
- **Finalisation.** `Finalize` is the whole of midpoints, new clock delay
  and adjusted delays. `RescanCs`, `RestoreCs`, `RescanCa` and
  `RestoreCa` are `CS_CA_rescan`.
- **Delay registers.** `csDly`, `caDly` and `ckDly` count increments
  since the last reset. "Reset, then increment n times" is `Programmed(n)`,
  which is `max(0, n)`.
- **Data abstraction.**
  - Module bitmasks are sets of module indices.
  - `reduce_cs` is "all modules present".
  - The 14 or 13 CA lines become `LinesWith13` and `LinesWithout13`.
  - Printing and the enter/exit training-mode commands are left out.
    They change no state the calibration reads back.

### `ReadTraining`: `ddr5_training.c` 840-1115, for one subchannel

- **Hardware as environment.** `preHw[m]` is the set of (cycle register,
  DQ delay) points where `captured_preamble` reads 4. `dataHw[m]` is the
  set where `rd_cycle_dly_idly_check_if_works` returns 3. Both are chosen
  in `Init` and then fixed. The same answers serve every rank.
- **Scans as operators.** `find_read_preamble_cycle` and the scan loop of
  `read_training_data_scan` share one loop shape, so they are one pair of
  `RECURSIVE` operators, `OuterScan` and `InnerScan`. `kind` selects what
  is recorded: the cycle for the preamble, the flattened `cycle * taps +
  idly` for data. The loop label and the cycle register are kept apart.
  The register is `Programmed(pre - 1)` plus one per label, and the label
  starts at `pre - 1`. That distinction is what line 904 gets wrong for
  preamble cycle 0. No other actor runs during a scan, so each module's
  two scans and the centre programming make up one step, `TrainModule`.
  (`\E x \in {e}` binds each scan result so TLC evaluates it once, also
  inside `ENABLED`.)
- **Steps.** `TrainModule` is one iteration of the module loop of
  `rank_read_training`, `continue` on a missing preamble included.
  `RankTrained` is the first fail-fast test of `sdram_ddr5_read_training`.
  `RankChecked` is `rank_read_check`, the second fail-fast test, and the
  next rank.
- **Registers.** `rdDly` and `idlyDly` hold what the loops leave:
  - after a found eye, the centre;
  - after a failed data scan, the position where it stopped;
  - after a missing preamble, the position where the preamble scan
    stopped.
- **Read-back.** `simple_read_check` passes exactly when the programmed
  point is in `dataHw[m]`. `readBack` is the argument
  `training_type == HOST_DRAM && !RDIMM` (line 1104), chosen in `Init`
  from `ReadBackChecks`, so that one run covers both contexts. The serial-number read and the register dumps
  are diagnostics and are left out.

### `WriteTraining`: `ddr5_training.c` 1133-1886, for one subchannel

- **Hardware as environment.** For each module, `wl[m]` holds the points
  where `wr_dqs_check_if_works` answers 1 before (`ext`) and after (`int`)
  the WICA search, and the WICA values that work. `data[m][v]` holds, for
  each Vref offset `v`, the points where `write_serial_check` passes
  (`ser`) and where the LFSR check passes as well (`both`). `dm[m]` holds
  whether MR5 enables DM and the delays where the DM check would pass. The
  pattern bytes and `lfsr_next` are abstracted to these answers.
- **Write leveling as operators.**
  - `ExternalAlign` is `wltm_align_external_cycle`.
  - `EdgeLoop`/`EdgeScan` is `wltm_align_to_eye_edge`, including the
    pull-back of the transition cycle by one.
  - `WicaSearch` is `wltm_align_internal_cycle`.
  - `AddQuarter` is the carry of the +-N/4 adjustments.
  - `WriteLeveling` puts them together with `write_leveling`'s -0.75 and
    +1.25 tCK moves. It returns the register values and whether both
    searches found something (`ok`).
  - `wleveling_scan` (first working delay) is not in this repository and is
    modelled from spec 4.7.
- **Data, Vref and DM scans.**
  - `DataOuter`/`DataInner` translate `write_data_scan`, from cycle
    `wsc - 3`. The label and the register are kept apart as in read
    training.
  - `BestVrefOf` is the width-array choice of `moduel_dq_vref_scan`:
    the midpoint of the first and last Vref with the largest width.
  - `DmLoop` is `moduel_dm_scan`. The code discards the check's result, so
    `DmWorks` is `TRUE`.
  - `ModuleVrefScan` is `module_vref_scan`: Vref scan, MR10, final data scan,
    DQ reset and centre programming when the eye closed, and the DM scan.
- **Steps.**
  - `LevelModule` is one module iteration of the leveling loop of
    `sdram_ddr5_write_training`, including its fail-fast `break`/`return`.
  - `LevelingDone` ends the rank's leveling loop.
  - `TrainDq` is one module iteration of the DQ loop.
  - `DqDone` moves on to the next rank or returns.
  - The scan results are looked up in constant tables (`LevelingOf`,
    `VrefScanOf`), so TLC computes each recursive scan once per hardware
    answer instead of once per state and per `ENABLED` test.
- **Left out.** `enter_wltm`/`exit_wltm`, the MR traffic, the register
  dumps and printing. They change no state the training reads back.

### `Ddr5Flow` and `FlowOrchestrator`: `ddr5_training.c` 559-678 and 1888-2139, `ddr5/ddr5_spd_parse.c`

- **Environment.** `spd` holds the bytes the SPD EEPROM returns at offsets
  3, 234, 235 and 240-242, with `NoAck` for a failed `sdram_read_spd`.
  `hw` holds the answer of each training stage: host->RCD and host->DRAM
  CS/CA, each RCD->DRAM channel, enumeration per rank, read, and write.
  Both are fixed in `Init`. The stage modules above model how each answer
  arises, so here a stage is its answer.
- **State.** `ctx` holds the three `training_ctx_t`s, restricted to the
  fields the flow reads or writes (`CS_CA_successful`, rate, ranks,
  channels, modules, the CS and CA check strategies, manufacturer and
  device type). `base` is `base_ctx`, `isRdimm` is `is_rdimm`, and
  `enumerated` is the static. `oneN` records that `disable_dram_2n_mode`
  was issued. `dramTrained` is history: DRAM CS/CA found every eye.
- **Actions.** The actions follow the flow's blocks in order: `Detect`,
  `RcdInit`, `RcdCsCa` (the rest of `rcd_init` and the hand-over to
  `rcd_dram_ctx`), `Mrs`, then either `DramCsCaChannel` (the RDIMM loop,
  result dropped) or `DramCsCaHost`, and then `CsCaChecked`, `Legacy`,
  `EnumerateRank`, `EnumDone`, `ReadStage` and `WriteStage`. The SPD
  decoders are operators: the little-endian manufacturer word, and the
  defaults on a failed read.
- **Refinement.** `FlowOrchestrator` is the orchestrator of spec 4.9, and
  the only spec-modelled module. Its stage order depends on the topology,
  each stage either works or not, and there are two policies. `Ddr5Flow`
  maps `pc` to the stage (`StageOf`), the SPD module type to the topology,
  and `hw` to the per-stage `works` (`StageWorks`). The property
  `FlowImplementsOrchestrator` is `Orchestrator!Spec`.
- **Bounds.** One host rank and one channel by default, so the refinement
  run stays under a minute. The SPD can give 1 or 2 RDIMM ranks and 1 or
  2 channels. With 16 modules, enumeration is refused (the limit is 15).
  - In the pass run, RDIMM DRAM CS/CA answers are all "works", because on
    the other answers the code breaks the refinement (finding 1). The
    violation run admits them.
  - `MCDefaultRates` fixes the RCD->DRAM default at DDR. It is
    overwritten by the host->RCD rate anyway.
- **Left out.** I2C, PMIC and RCD register writes, MRS and MPC commands,
  QRST sequencing, and the 1N/2N init sequences. They are commands that
  no later step reads back.

### `Allocation`: `src/poc/src/allocation.cpp`, `include/hammer/allocation.hpp`

State: per object slot (`Objs`, model values under symmetry) its life,
`allocation_ptr` (`NULL`, `MAP_FAILED` or a first virtual superpage),
`allocation_size` in superpages, `virt_phys_mappings` as a sequence of
`<<vpage, ppage>>`; and the kernel's map `vm` from virtual superpages to
physical huge pages. Addresses are a superpage number and an offset.
A client makes up to `MaxCalls` calls in any order: `Construct`,
`Allocate` (mmap fails when too few huge pages are free; mlock may fail,
leaving the region mapped and the table unfilled; success appends one
entry per superpage), `MoveConstruct` and `MoveAssign` (pointer and size
move, the table does not), `GetRandAddr` (the function-local static
distribution is built on the first call from that object's size) and
`Destroy` (munmap when the pointer is non-null, `MAP_FAILED` included).

### `HammerCampaign`: `src/poc/tools/phoenix.cpp` `main`, `phoenix_cli.hpp`, `src/bit_flips.cpp`, the observers

`main` as a program counter: `ParseCli` (both ranges through
`parse_range`; any exception is `exit(1)`), `MainSetup` (the stages of
`main` up to the loop, each a conjunct that names the lines it stands
for: `run_command`'s popen failure and a non-root euid give
`EXIT_FAILURE`; `elevate_to_max_priority` sets `realtime` or only warns;
`detect_ranks`, `detect_dimm_gib` and the two registries throw uncaught;
the `ProgressBarObserver` is constructed (`bar`, and `totalIters`, the
`int` product converted to `size_t` by `ToSize`); the CSV writer's
constructor (`CsvConstruct`) throws if the file does not open, puts the
header into the ofstream's buffer `csvBuf` unless the first line starts
with it, and chowns the file to `SUDO_UID`, where text `stoi` rejects
throws; `set_thread_affinity` sets `pinned` only for a usable core, its
result unread; `get_sync_rows` throws `length_error` from `reserve` for
a negative `--sync-rows`). An uncaught throw is `std::terminate` without
unwinding, so no destructor runs and `csvBuf` is lost with the process.
Then one `Iteration` per (aggressor row, reads, sync threshold):
aggressor fill, victim fill, hammer, `collect_bit_flips` (bytes
differing from the victim fill, then the restore), and
`on_post_iteration` through the fan-out to the progress bar and the CSV
writer (`CsvOnPost`: flips sorted by address after what the buffer
holds, then the flush). `Return` is `return 0`: the CSV writer's
ofstream flushes its buffer on destruction and `~ProgressBarObserver`
completes the bar. `Killed` is the environment: a signal (Ctrl-C on a
campaign that runs for hours) ends the process between two steps of the
loop with no handler, so nothing is flushed. `parse_range`'s loop is
`Expand`, with `int` of `IntBits` bits wrapping and at most `MaxRangeLen`
values before `push_back` fails. A memory row is one 8-byte word, kept
as bytes in memory order (the fills are little-endian). What the code
takes from headers that are not in the repository is input: which rows a
pattern hammers and checks (`PatAggs`, `PatVictims`), which bits the
hammer function flips (`FlipSites`, at most `MaxFlips` per call, one bit
per byte), and what the host answers (`Hosts`). With the allocation
failed (its result is ignored), the first fill faults (`pc = "crash"`).
The ghost `injected` records every flip made in a victim row with its
fuzz point.

A host's `dmi` is the device list `dmidecode -t memory` prints: per slot,
the `Size:` value and unit (or "No Module Installed") and the `Rank:`
value (a number, `Unknown`, or text `stoi` rejects). `DetectRanks` takes
the first usable `Rank:` line and `DetectDimmGib` the smallest positive
size in GiB, so on mixed modules the pair stored in `geometry` can
describe two different modules (in `MixedDmi`, 2 ranks and 8 GiB). What
`dram_address` makes of that is not in the repository.
`HammerFnRegistry` and `PatternRegistry` are the two registries of
`phoenix.cpp`. `GetSyncRows` is `get_sync_rows`: it takes whole rows of
(subchannel, rank, bank group, bank) addresses and then truncates.

### `Lpddr5Training`: `liblitedram/lpddr5_training.c`

- **State:**
  - the eye helper's statics, shared with `EyeScanner`, because
    `sdram_lpddr5_flow` begins with `clear_helper_arr`;
  - the DRAM's answers (`wckHw`, `readHw`, `writeHw`), fixed in `Init`;
  - `pc`, `module` and `good`, the position in the flow;
  - `cadly` and `wdly`, the CA and WCK delay increments;
  - per module the read bitslip and input delay (`rdReg`, `idlyReg`) and
    the write bitslip and output delay (`wrReg`, `odlyReg`);
  - `mr14`, one register for all modules, because `send_mrw` has no
    module argument;
  - `bestVref`, what `module_vref_scan` returned for each module.
- **Actions:** one per step of `sdram_lpddr5_flow`:
  - `FlowStart` is the clear and the PHY reset;
  - `WckStep` is `sdram_lpddr5_wck_training`;
  - `ReadModule` is one iteration of `read_training`'s module loop;
  - `ReadEnd` is the return of `sdram_lpddr5_read_training`;
  - `WriteModule` is one iteration of `sdram_lpddr5_write_training`'s
    loop, which is the whole of `module_vref_scan`;
  - `WriteEnd` is the end of the flow.
  Each failure returns at once (`pc = "stopped"`) unless
  `KEEP_GOING_ON_DRAM_ERROR`.
- **Scans:** the scans are loops over fixed answers with no other
  actor, so they are `RECURSIVE` operators: `WckLoop`, `ReadScan`,
  `WriteDataScan` (which returns the registers it leaves behind) and
  `VrefLoop` (which records `eye_width_range`).
- **Build:** the non-simulation build. Under `LPDDR5_TRAINING_SIM`,
  `moduel_dq_vref_scan` returns 0x30 at once.
- **Properties:**
  - `Lp5ReadCentresWork`: after read training, each module's centre is
    a working point, also when the eye crosses a bitslip boundary.
  - `Lp5WriteCentresWork`: at the end, each module's write registers
    work at the Vref its own scan chose.
  - `Lp5SweepMatchesFullScan`: the shortened scans (each one starting a
    cycle before the previous eye) choose the Vref that full scans would
    choose.

## 3. Runs

| Run | Config | Expect | What it shows |
|---|---|---|---|
| `pure_algorithms` | `MCPureAlgorithms.cfg` | pass | `MCPureAlgorithms` interleaves `EyeScanner`, `DramAddr` (instantiated as `DA`) and `Lpddr5Training` (as `Lp`); each step leaves the others' state unchanged, and helper steps stop once the LPDDR5 flow has started. LPDDR5 is checked for two modules with 3 bitslips of 4 taps and Vrefs 0xA-0xC, over every combination of three WCK, four read and four write answers. The write answers include an eye moving into the first cycle (scan from label -1), one moving back a whole cycle per Vref, and two modules choosing different Vrefs. The round trips are evaluated once per configuration. The eye-detection loops agree with the reference definitions on every buffer two 4-tap sweeps leave. After `init_lib` has selected either of two 6-bit configurations, `to_addr` and `to_dram` undo each other on all 64 addresses and on DRAM addresses whose fields go up to twice their masks. The first configuration is bank\|row\|col with XOR-ed bank bits; the second puts the column in the middle and uses a self-inverse matrix. 1,187,448 states, about 75 s. |
| `csca_host_dram` | `MCCsCaTraining.cfg` | pass | Host->DRAM training of one rank with 4 taps. CS eyes: inside the sweep, wrapping round tap 0, only under the shift, or none. CA eyes: four shapes per line, including none, one straddling the CS edge, and one left of the clock. Combined with CA13 present or absent this gives 128 hardware configurations and 7,165 states. |
| `csca_host_rcd` | `MCCsCaRcd.cfg` | pass | Host->RCD training with 16 taps and 2 ranks: the polarity inversion (`one_stride < 16/8`), the odd-rank copy and the rank-1 skip of the CA re-scan. 512 configurations, 105,944 states. |
| `csca_both_shifts` | `MCCsCaBothShifts.cfg` | violation | `CsTapRejectsBothShifts` fails: a module passing under both shifts is recorded as working. |
| `read_training` | `MCReadTraining.cfg` | pass | Read training of two ranks of two modules with 2 taps and 3 read cycles, with and without the read-back check (it is skipped for RDIMM / HOST_RCD). There are 400 hardware configurations, covering no preamble, the preamble in cycle 0, 1 or 2, a data eye in the first or a later cycle, an eye with a negative centre, an eye still open at the last cycle, and no eye (3,530 states). |
| `write_training` | `MCWriteTraining.cfg` | pass | Write leveling and write training of two ranks of two modules with 4 taps, 7 write cycles and 3 Vrefs. Leveling responses: aligned, aligned with a carry through the +N/4 move, and no external transition. Data responses: a centred eye, an eye open at the last cycle, a narrow eye, and no eye. DM off or on. 3,248 states. |
| `flow` | `MCDdr5Flow.cfg` | pass | `sdram_ddr5_flow` over every SPD answer the model offers (UDIMM, RDIMM, type unreadable; Rambus, Montage or other RCD; ranks and channels readable or not), SDR or DDR defaults, 2 or 16 modules, and every stage answer. The Rambus quirk follows the SPD ID, and the flow refines the fail-fast orchestrator of spec 4.9 (361,056 states, 42 s). |
| `alloc_api` | `MCAllocation.cfg` | pass | Any 6 calls on two objects, 3 virtual superpages, 2 huge pages, sizes 1 and 2, mlock succeeding or failing (51,175 states under symmetry): every live object's region stays mapped and owned by it alone. |
| `alloc_move_translation` | `MCAllocationMove.cfg` | violation | `TranslationMatchesKernel` fails after construct, allocate, move-construct: the new owner's table is empty. |
| `campaign` | `MCHammerCampaign.cfg` | pass | Every exit of `main`, a failed allocation, an empty range and full campaigns over 2 aggressor rows x up to 2 reads values, with flips in victim rows, aggressor rows and a row that is both, from four kinds of existing CSV file, and a kill at every point of the loop. The hosts include dmidecode lists without a usable rank or size, a refused SCHED_FIFO, an unusable core, and unset or unreadable `SUDO_UID`; `--sync-rows` is -1 or 3 with two addresses per sync row (43,499 states). |
| `parse_overflow` | `MCHammerOverflow.cfg` | violation | `ParseAcceptsWellFormedRanges` fails: with 5-bit ints, `13:15:2` wraps after 15 and the vector overflows, so `parse_cli` exits. |
| `flow_rdimm_csca_unchecked` | `MCDdr5FlowRdimm.cfg` | violation | `OneNOnlyAfterCsCa` fails: an RDIMM whose RCD->DRAM CS/CA training fails still leaves 2N mode (line 2042). |

Properties of the passing runs:

- **`FindEyeMatchesReference`, `ClassifiersMatchReference`:** the C loops
  compute what their comments and spec 8 say.
- **`SamplesFreshAtExtraction`:**
  - the helper buffer is never written past two sweeps;
  - every `find_eye` reads exactly the two sweeps since the last clear.

  This covers the case -1 fall-through and the polarity path.
- **`CkNormalized`:** after finalisation the smallest final delay is 0
  (spec 4.5 and 8).
- **`DelaysRestoredAfterRescan`:** when training returns, every CS and CA
  register the re-scan swept holds its final delay, and the clock holds
  `new_ckdly`.
- **`FinalisedFromFoundEyes`:** `CK_CS_CA_finalize_timings` runs only on
  eyes this channel's training found: every rank's CS eye and every
  trained CA line's eye on every rank `CA_training` visits. The ghost
  sets `csFound` and `caFound` record them. A rank `CS_training` returned
  before, or a line `CA_training` failed on, still holds an earlier run's
  delays, so all three fail-fast returns must keep finalisation away. It
  breaks if the channel result drops the CA outcome. The
  `KEEP_GOING_ON_DRAM_ERROR` build, in which the stale delays are used,
  is not a run.
- **`SuccessMeansTrained`:** success in a fail-fast build means every
  module of every rank found its preamble and a data eye.
- **`WlFindsTransition`:** after successful write training, each DQS sits
  1.25 tCK after a rising edge of the internal leveling response. The
  point one cycle and N/4 taps back works, and the one before it does not.
- **`WriteCentersWork`:** after successful write training, every module's
  DQ cycle and delay pass both write checks at the programmed Vref.
- **`VrefMaximisesWindow`:** the programmed Vref has the widest write eye.
  It holds for the width profiles of the passing run, where the widest
  Vrefs are adjacent. A profile with a gap breaks it (section 4).
- **`RambusQuirkSelected`:** RCD->DRAM CS/CA training of an RDIMM runs
  with the Rambus CS check exactly when the SPD's RCD manufacturer ID is
  0x9D86. The ID reaches the RCD->DRAM context only through the copy at
  line 2013.
- **`FlowImplementsOrchestrator`:** the flow refines `FlowOrchestrator`
  (spec 4.9). Stages run in order, with the RCD stages exactly on an
  RDIMM. A stage whose hardware fails sends the fail-fast flow to
  `Failed`, and the flow always ends.
- **`Termination`:** every training returns.
- **`OwnedRegionsMapped`** (`Allocation`): through any sequence of
  allocates, moves and destructions, every live object's pages are mapped
  and no two live objects hold the same page, so no region is unmapped in
  use or twice.
- **`FlipsReportedOnce`** (`HammerCampaign`): the CSV file's flip lines
  are exactly the flips injected into victim rows so far, each once, with
  its iteration's fuzz point, expected and actual byte; so a kill or a
  crash after an iteration loses none of its flips. It breaks if the fills
  are swapped (a row that is both aggressor and victim), or if the
  collection, restore or sort drops or repeats a flip.
- **`ProgressAccounting`** (`HammerCampaign`): the progress bar's flip
  total equals the CSV's flip lines, and when `main` returns it has
  counted exactly `total_iterations`.
- **`CsvRecordsUnderHeader`** (`HammerCampaign`): every flip record in
  the CSV file has a header line before it, whatever the file held and
  however the process ends. The header sits unflushed in the ofstream
  until the first flush, so this needs the flush to carry the buffer
  before the records; it breaks if the header check only asks whether
  the file is empty (a file whose first line is something else).
- **`SyncRowsMatchReference`** (`HammerCampaign`): the hammer loop runs
  with exactly `--sync-rows` sync addresses. They are the first ones in
  (row, subchannel, rank, bank group, bank) order from
  `--sync-row-start`, computed as a mixed-radix number. This breaks if
  the resize no longer cuts off the row loop's overshoot.

Every property of a passing run has a mutant in `PROJECT.json`: a variant
of one mapped definition, such as a dropped clear, a minimum starting at 0,
a missing `% N`, a restore of the coarse delay, a missing `address++`, or a
result that forgets `CA_success`. TLC must find the property violated once
the mutant is in place.

### Bounds and why they are enough

- **Taps:**
  - Every path of `CS_scan` except the polarity inversion is reachable
    with 4 taps.
  - The polarity inversion needs `one_stride >= 1` and `< N/8`, so
    N >= 16. `csca_host_rcd` uses 16 taps.
- **Modules:** one module, because `reduce_cs` ANDs the modules, and a
  single module already exercises the both-shift filter.
- **Ranks:** two ranks are needed for the copy, the CA envelope and the
  rank-1 skip.
- **CA lines:** two CA lines, one with CA13, cover the `line_count`
  choice.
- **Hardware responses:** limited to eye shapes that reach each branch:
  `one_in` = -1, 0 and 1; subtract; the CA line 0 check moving CS; and no
  eye. Every action and every disjunct fires in the two passing
  CsCaTraining runs (checked with TLC coverage).
- **Read training:**
  - 2 taps and 3 read cycles are enough for a preamble in cycle 0, a
    data eye crossing a cycle boundary and an eye still open at the
    last cycle.
  - Two ranks reach the next-rank branch of `RankChecked`.
  - Two modules show one module's failure ending the rank while the
    other still trains.
- **Write training:**
  - 4 taps make N/4 = 1, so the -0.75 and +1.25 tCK moves carry across
    a cycle (`WlCarry`).
  - 7 write cycles leave room for the external alignment window and the
    data scan's `w - 3 .. w + 5` cycles.
  - 3 Vrefs give a widest Vref in the middle, one at the end, and ties.
  - The minimal DQS cycle is 4, so `wsc - 3` is never negative in the pass
    run (see the 1629 hazard). Eye widths stay below `PhyDelays`, because
    the overflow at 1717 is undefined behaviour.

- **LPDDR5:** 4 taps and 3 bitslips let an eye cross a bitslip boundary,
  start in the first cycle (`initial_bitslip` = -1) and stay open at the
  last point. Three Vrefs give a widest Vref in the middle and one at the
  end. Two modules show MR14 being moved by the second module. Write eyes
  are at most 4 wide, the length of `eye_width_range` (line 419 overflows
  otherwise, as at DDR5 line 1717). The widest Vrefs are adjacent, as in
  `write_training`.

- **Allocation:** two objects are enough for a move and for two owners
  of one region; 3 virtual superpages and 2 huge pages let an mmap fail
  for want of huge pages, and 6 calls cover construct, allocate, move,
  and destroy of both objects.
- **Campaign:** two aggressor rows and two reads values reach every
  branch of the loop advance; one pattern makes row 3 both aggressor and
  victim; the flip sites put two candidate bits in one byte, flips in
  aggressor-only rows and two flips per call. Ranges cover a single
  value, a two-value range, an empty range, a zero step and a malformed
  argument. `IntBits = 5` puts `INT_MAX` at 15, so the overflow needs
  only small numbers; `SizeBits = 8` keeps `size_t` wider than `int`.

### Fairness

The code is one thread that is never blocked. Every wait is a fixed busy
wait, so it always takes its next step. `Spec` therefore has weak fairness
on `Next`. The terminal state `pc = "done"` is modelled by the stuttering
action `Terminated`, so deadlock checking stays on and catches a
location with no enabled step.

In `WriteTraining`, `Termination` is stated as a progress measure: every
step before the return increases `(rank, stage, module)`
lexicographically. With deadlock checking this gives termination without
asking TLC to evaluate `ENABLED` of the scan-heavy actions.

`Lpddr5Training` has the same weak fairness, but its run states safety
properties only: the flow is a fixed sequence of bounded loops.

`Allocation` and `HammerCampaign` have no fairness: they are checked for
safety only, and deadlock checking is on, with their terminal states
(`Done`, `Ended`) as stuttering steps.

## 4. Findings

Each finding is a violation run above. Details are in `PROJECT.json`.

1. **RDIMM path ignores the CS/CA result (line 2042).** CS_CA_successful
   stays true, and the flow takes the DRAM out of 2N mode after a failed
   RCD->DRAM training (`flow_rdimm_csca_unchecked`).
2. **The both-shift filter of `CS_scan_single` never rejects a tap (line
   93).** `works_` is dropped whenever it overlaps the without-shift set,
   which already holds the primary answer, so `works & works_` is always
   0. Spec 8 requires the tap to be rejected (`csca_both_shifts`).
3. **Moving an `allocation` loses its translation table
   (`allocation.hpp` 17-26).** The move constructor and move assignment
   move the pointer and size but not `virt_phys_mappings`, so the owner's
   `virt_to_phys` answers 0 for its own region. `phoenix.cpp:42` moves
   the freshly allocated object into `dram_address` (`alloc_move_translation`).
4. **`parse_range` overflows near `INT_MAX` (`phoenix_cli.hpp:112`).**
   `val += step` wraps, the loop never ends and the vector grows until
   allocation fails; the campaign exits on a well-formed argument
   (`parse_overflow`).

Eight more disagreements came up while modelling. They are listed as hazards
in `PROJECT.json` with the scenario, and are not kept as runs:

- **Line 333:** the CA envelope across ranks is never checked for being
  empty.
- **Line 904:** a read preamble in cycle 0 shifts the data eye by one
  cycle; without the read-back, training reports success one read cycle
  early.
- **Line 1294:** an exhausted WICA search counts as success, against
  spec 7 (NoWindowFound).
- **Line 1751:** the DM check result is discarded; the DM scan never
  fails.

- **Line 531:** final CS/CA delays can exceed one period (8 with 4 taps),
  contrary to the comment at 505-508.
- **Line 1106:** a failed read-back ends read training before the next
  rank, while spec 4.6(c) says it is recorded and does not abort. The
  code's choice is the conservative one.
- **`lpddr5_training.c` line 433:** each module's best Vref is
  broadcast to MR14, so after training the earlier modules sit at the
  last module's Vref (the code's TODO at 492 asks for a joint scan).
- **Line 1726:** with widths (3, 0, 3) over three Vrefs, the Vref midpoint
  picks Vref 1, which has no eye. DQ stays at 0 and the module still
  succeeds.

## 5. Not modelled, and why

- **Not covered by the stage modules:** the loop over several
  subchannels in the stage modules. Read and write training use the same
  DRAM answers for every rank.
- **Carried over unchanged:** the CS check through CA line 0 uses the CA
  line 0 answers of the same rank. The hardware answers of the
  verification re-scan are the ones training saw. The re-scan's results
  are discarded by the code; only their side effects (registers,
  `cs.invert`) matter.
- **Spec-only defaults:** the `training_ctx_t` defaults (`DEFAULT_*`
  macros, `ddr5_training.h`) are not under `src/`. `Init` uses the values
  the spec and C static initialisation give: zero delays, `invert = 0`,
  `CS_CA_successful = 1`, and `line_count` as the constant
  `InitLineCount`.
- **Out of scope:**
  - BIOS shell commands: pure argument parsing.
  - Rowhammer PoC: the jitted hammer functions, the pattern builders
    and `dram_address` are not in the repository, so what they do is
    input to `HammerCampaign`; `time_utils.hpp` (timestamps in CSV
    records: text only), `configure_unbuffered_output`, `trim` and
    `get_cpu_model_string` (the model string is only printed), the
    progress bar's text and printing change nothing a property can tell
    apart. `jitted.hpp` and `bit_flips.hpp` hold declarations only.
  - DRAM address mapping (`DRAMAddr.c`): the code is modelled, but its
    data is not. The real matrices, shifts and masks live in
    `DRAMAddr.h`, which is not in the repository. The checked
    configurations are two tables built to be invertible, so the run
    shows that the code's loops and field handling are right for such
    a table. It does not show that a real table is invertible.
  - Verilator glue: no logic.
  - LPDDR5 register helpers (`lpddr5_helpers.c`) only write CSRs, so a
    register is the count of increments since its reset. The serial
    patterns, the MRR read-back and `read_check` are the DRAM's answer
    at a point, or printing.
