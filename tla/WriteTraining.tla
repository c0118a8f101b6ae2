---------------------------- MODULE WriteTraining ----------------------------
(***************************************************************************)
(* DDR5 write leveling and write training of one subchannel               *)
(* (ddr5_training.c, sdram_ddr5_write_training and the functions it       *)
(* calls).  Per rank: write leveling of every module (external cycle      *)
(* alignment, edge search, -0.75 tCK, WICA search, edge search, +1.25     *)
(* tCK), then per module the DQ Vref scan, a final data scan at the       *)
(* chosen Vref, and the DM scan when DM is enabled.                       *)
(*                                                                         *)
(* What the DRAM answers is the environment, fixed in the initial state.  *)
(* Positions are (cycle register, delay register) pairs.  For module m:   *)
(*   wl[m].ext   points where wr_dqs_check_if_works answers 1 before the  *)
(*               internal write timing is enabled,                        *)
(*   wl[m].wica  the WICA values (0..6) for which it answers 1,           *)
(*   wl[m].int   points where it answers 1 after the WICA search,         *)
(*   data[m][v]  for each Vref v: .ser, the points where                  *)
(*               write_serial_check passes, and .both, those where the    *)
(*               LFSR check passes too,                                   *)
(*   dm[m]       .on: MR5 reports DM enabled; .pts: DM delays at which    *)
(*               write_dm_lfsr_check would pass.                          *)
(* Each scan is a loop over fixed answers with no other actor, so it is   *)
(* an operator (a recursive translation of the loop) evaluated inside the *)
(* step that calls it.                                                     *)
(***************************************************************************)
EXTENDS Integers, FiniteSets, FiniteSetsExt

CONSTANTS
  MaxDelayTaps,     \* ctx->max_delay_taps
  MaxWriteCycle,    \* MAX_WRITE_CYCLE_DELAY
  MinWrDqsCycle,    \* SDRAM_PHY_CWL/2 - SDRAM_PHY_MIN_WR_LATENCY
  NumVrefs,         \* the Vref sweep 0x32..0x45, as offsets from 0x32
  PhyDelays,        \* SDRAM_PHY_DELAYS, the width array's length
  NumRanks,         \* ctx->ranks
  NumModules,       \* ctx->modules
  WideDie,          \* ctx->die_width > 4
  KeepGoing,        \* KEEP_GOING_ON_DRAM_ERROR is defined
  WlResponses,      \* possible wl[m]
  DataResponses,    \* possible data[m]
  DmResponses       \* possible dm[m]

N       == MaxDelayTaps
Taps    == 0 .. N - 1
Ranks   == 0 .. NumRanks - 1
Modules == 0 .. NumModules - 1
Vrefs   == 0 .. NumVrefs - 1
Wicas   == 0 .. 6

ASSUME N \in Nat \ {0} /\ MaxWriteCycle \in Nat \ {0} /\ MinWrDqsCycle \in Int
ASSUME NumVrefs \in Nat \ {0} /\ PhyDelays \in Nat \ {0}
ASSUME {WideDie, KeepGoing} \subseteq BOOLEAN

VARIABLES
  wl, data, dm,      \* DRAM answers per module
  pc,                \* "level", "dq", "done"
  rank, module,      \* loop indices
  good, result,      \* sdram_ddr5_write_training's good and return value
  wsc,               \* write_strobe_cycle[module]
  wlOk,              \* per module: WICA found and internal edge found (history)
  dqsCycle, dqsDly,  \* write DQS cycle and output delay registers
  wicaReg,           \* MR3 (WICA)
  vrefReg,           \* MR10 (DQ Vref), as an offset from 0x32
  dqCycle, dqDly,    \* write DQ cycle and output delay registers
  dmDly              \* DM output delay register

vars == <<wl, data, dm, pc, rank, module, good, result, wsc, wlOk, dqsCycle,
          dqsDly, wicaReg, vrefReg, dqCycle, dqDly, dmDly>>

CDiv(a, b) == IF a >= 0 THEN a \div b ELSE -((-a) \div b)
CMod(a, b) == a - b * CDiv(a, b)

(* Reset a delay register, then increment it n times: a negative n        *)
(* programs 0.                                                             *)
Programmed(n) == IF n > 0 THEN n ELSE 0

(* The eye the write scans start from, eye_t eye = DEFAULT_EYE, as in     *)
(* write_training_data_scan; the macro is in ddr5_helpers.h, which is not *)
(* in the repository, and has the value lpddr5_helpers.h gives it.        *)
DefaultEye == [state |-> "BEFORE", start |-> -1, center |-> -1, end |-> -1]

(* The flattened position of a (cycle, delay) point. *)
Pos(c, d) == c * N + d

-----------------------------------------------------------------------------
(***************************************************************************)
(* Write leveling (write_leveling and the wltm_* helpers).                 *)
(***************************************************************************)

(* wltm_align_external_cycle: from the minimal cycle, the first cycle     *)
(* whose check answers 1 with output delay 0, or -1.                      *)
ExternalAlign(hw) ==
  LET S == {c \in Programmed(MinWrDqsCycle) .. MaxWriteCycle - 1 : <<c, 0>> \in hw}
  IN  IF S = {} THEN -1 ELSE Min(S)

(* wleveling_scan (helper outside this repository, from spec 4.7): scan   *)
(* the output delays of the current cycle and record the first that       *)
(* answers 1 as the eye start; -1 when none does.                         *)
FirstWorkingDelay(hw, reg) ==
  LET D == {d \in Taps : <<reg, d>> \in hw}
  IN  IF D = {} THEN -1 ELSE Min(D)

(* wltm_align_to_eye_edge's loop: label t, cycle register reg; scan, and  *)
(* go to the next cycle while t < MAX_WRITE_CYCLE_DELAY and none worked.  *)
RECURSIVE EdgeLoop(_, _, _)
EdgeLoop(hw, t, reg) ==
  LET d == FirstWorkingDelay(hw, reg)
  IN  IF d # -1 \/ t >= MaxWriteCycle
      THEN [cycle |-> t, delay |-> d]
      ELSE EdgeLoop(hw, t + 1, reg + 1)

(* wltm_align_to_eye_edge: *transition_cycle -= 1, program it, scan.     *)
(* The variant without the pull-back is for the mutation check.           *)
EdgeScanNoPullback(hw, tc) == EdgeLoop(hw, tc, Programmed(tc))

EdgeScan(hw, tc) == EdgeLoop(hw, tc - 1, Programmed(tc - 1))

(* Adding max_delay_taps/4 to the delay, carrying into the cycle. *)
AddQuarter(c, d) ==
  IF d + N \div 4 >= N THEN [cycle |-> c + 1, delay |-> d + N \div 4 - N]
                       ELSE [cycle |-> c, delay |-> d + N \div 4]

(* wltm_align_internal_cycle: WICA 0, 1, ... until one answers 1 or WICA  *)
(* 6 was tried; MR3 keeps the last value written.  Nothing is returned.   *)
WicaSearch(ws) ==
  IF ws = {} THEN [found |-> FALSE, reg |-> 6] ELSE [found |-> TRUE, reg |-> Min(ws)]

(* write_leveling for one module: the returned transition cycle, the      *)
(* registers it leaves, and whether the WICA and the final edge searches  *)
(* succeeded (which the code does not report).                            *)
WriteLeveling(r) ==
  LET x  == ExternalAlign(r.ext)
      e1 == EdgeScan(r.ext, x)
      a1 == AddQuarter(e1.cycle - 1, e1.delay)
      w  == WicaSearch(r.wica)
      e2 == EdgeScan(r.int, a1.cycle)
      a2 == AddQuarter(e2.cycle + 1, e2.delay)
  IN  IF x = -1
      THEN [ret |-> -1, cycle |-> Max({Programmed(MinWrDqsCycle), MaxWriteCycle}),
            delay |-> 0, wica |-> -1, ok |-> FALSE]
      ELSE [ret |-> a2.cycle, cycle |-> Programmed(a2.cycle),
            delay |-> Programmed(a2.delay), wica |-> w.reg,
            ok |-> w.found /\ e2.delay # -1]

-----------------------------------------------------------------------------
(***************************************************************************)
(* DQ write training (write_data_scan, moduel_dq_vref_scan,              *)
(* moduel_dm_scan, module_vref_scan).                                     *)
(***************************************************************************)

(* write_serial_check and write_lfsr_check (with the pattern setup and    *)
(* comparison they call): the DRAM's answer at a point.                    *)
SerialCheck(hw, reg, d) == <<reg, d>> \in hw.ser
LfsrCheck(hw, reg, d) == <<reg, d>> \in hw.both

(* One cycle of write_data_scan: every output delay, updating the eye of  *)
(* points where both checks pass and the serial-only eye.  Positions use  *)
(* the loop label c, the checks the cycle register reg.                   *)
RECURSIVE DataInner(_, _, _, _, _)
DataInner(hw, reg, c, st, d) ==
  IF d >= N THEN st
  ELSE LET ser   == SerialCheck(hw, reg, d)
           works == ser /\ LfsrCheck(hw, reg, d)
           eye   == st.eye
           eye2  == CASE works /\ eye.state = "BEFORE" ->
                           [eye EXCEPT !.state = "INSIDE", !.start = Pos(c, d)]
                      [] ~works /\ eye.state = "INSIDE" ->
                           [eye EXCEPT !.state = "AFTER", !.end = Pos(c, d)]
                      [] OTHER -> eye
           ser2  == CASE ser /\ st.ser = "BEFORE" -> "INSIDE"
                      [] ~ser /\ st.ser = "INSIDE" -> "AFTER"
                      [] OTHER -> st.ser
       IN  DataInner(hw, reg, c, [eye |-> eye2, ser |-> ser2], d + 1)

(* The cycle loop: from write_strobe_cycle - 3 while neither eye closed,  *)
(* cycle < 65 and cycle < write_strobe_cycle + 5.                         *)
RECURSIVE DataOuter(_, _, _, _, _)
DataOuter(hw, w, c, reg, st) ==
  IF st.eye.state = "AFTER" \/ st.ser = "AFTER" \/ c >= 65 \/ c >= w + 5
  THEN st.eye
  ELSE DataOuter(hw, w, c + 1, reg + 1, DataInner(hw, reg, c, st, 0))

(* write_data_scan: the DQ cycle register is reset and raised to         *)
(* write_strobe_cycle - 3 (not below 0), the labels start there.          *)
WriteDataScan(hw, w) ==
  DataOuter(hw, w, w - 3, Programmed(w - 3), [eye |-> DefaultEye, ser |-> "BEFORE"])

(* eye.center = eye.end - eye.start: the width moduel_dq_vref_scan uses. *)
EyeWidth(eye) == eye.end - eye.start

(* moduel_dq_vref_scan's choice.  eye_width_range[0][w] is the first and *)
(* eye_width_range[1][w] - 1 the last Vref whose width exceeds w; the     *)
(* last w < SDRAM_PHY_DELAYS that some Vref exceeds picks the midpoint of *)
(* its two entries, or -1.  (0x32 is even, so the midpoint of offsets is  *)
(* the offset of the midpoint.)  The first definition, taking the first   *)
(* width instead of the last, is a variant for the mutation check.        *)
BestVrefOfFirstWidth(width) ==
  LET Ws == {w \in 0 .. PhyDelays - 1 : \E v \in Vrefs : width[v] > w}
      V  == {v \in Vrefs : width[v] > Min(Ws)}
  IN  IF Ws = {} THEN -1 ELSE (Min(V) + Max(V) + 1) \div 2

BestVrefOf(width) ==
  LET Ws == {w \in 0 .. PhyDelays - 1 : \E v \in Vrefs : width[v] > w}
      top == Max(Ws)
      V   == {v \in Vrefs : width[v] > top}
  IN  IF Ws = {} THEN -1 ELSE (Min(V) + Max(V) + 1) \div 2

BestVref(d, w) == BestVrefOf([v \in Vrefs |-> EyeWidth(WriteDataScan(d[v], w))])

(* The DM check the scan performs; moduel_dm_scan discards its result,   *)
(* so a delay "works" whatever the DRAM answers.                           *)
DmWorks(dmr, delay) == TRUE

(* moduel_dm_scan's loop over the DM output delays. *)
RECURSIVE DmLoop(_, _, _)
DmLoop(dmr, d, eye) ==
  IF d >= N \/ eye.state = "AFTER" THEN eye
  ELSE LET w    == DmWorks(dmr, d)
           eye1 == IF w /\ eye.state = "BEFORE"
                   THEN [eye EXCEPT !.state = "INSIDE", !.start = d] ELSE eye
           eye2 == CASE ~w /\ eye1.state = "INSIDE" ->
                          [eye1 EXCEPT !.state = "AFTER", !.end = d]
                     [] d = N - 1 /\ eye1.state = "INSIDE" ->
                          [eye1 EXCEPT !.state = "AFTER", !.end = d + 1]
                     [] OTHER -> eye1
       IN  DmLoop(dmr, d + 1, eye2)

(* moduel_dm_scan: success when the eye closed; DM goes to the midpoint. *)
DmScan(dmr) ==
  LET eye == DmLoop(dmr, 0, DefaultEye)
  IN  [good |-> eye.state = "AFTER", dly |-> Programmed(CDiv(eye.start + eye.end, 2))]

(* ((eye.start + eye.end) / 2), the centre module_vref_scan programs, and *)
(* a variant rounding up (mutation check).                                *)
EyeMiddleRoundUp(eye) == CDiv(eye.start + eye.end + 1, 2)

EyeMiddle(eye) == CDiv(eye.start + eye.end, 2)

(* module_vref_scan for one module with write_strobe_cycle w: the return  *)
(* value and the registers it leaves.  In a fail-fast build a failed      *)
(* Vref scan returns at once, leaving MR10 at the last Vref and the DQ    *)
(* registers where the last data scan left them (abstracted to 0, 0: no  *)
(* later step reads them).                                                *)
ModuleVrefScan(d, dmr, w) ==
  LET best  == BestVref(d, w)
      vref  == IF best > -1 THEN best ELSE NumVrefs - 1
      eye   == WriteDataScan(d[vref], w)
      mid   == EyeMiddle(eye)
      after == eye.state = "AFTER"
      dms   == DmScan(dmr)
      runDm == dmr.on /\ WideDie
  IN  IF best = -1 /\ ~KeepGoing
      THEN [ret |-> -1, vref |-> vref, cycle |-> 0, delay |-> 0, dm |-> -1]
      ELSE [ret   |-> IF runDm /\ ~dms.good THEN -1 ELSE best,
            vref  |-> vref,
            cycle |-> IF after THEN Programmed(CDiv(mid, N)) ELSE 0,
            delay |-> IF after THEN Programmed(CMod(mid, N)) ELSE 0,
            dm    |-> IF runDm THEN dms.dly ELSE -1]

-----------------------------------------------------------------------------
(***************************************************************************)
(* sdram_ddr5_write_training, one subchannel.                             *)
(***************************************************************************)

(* Both scans depend only on the DRAM answers (and the strobe cycle), so   *)
(* they are tabulated once over the possible answers: TLC evaluates each   *)
(* scan once instead of in every state and every ENABLED test; each      *)
(* result is bound with \E over a singleton for the same reason.          *)
LevelingOf   == [r \in WlResponses |-> WriteLeveling(r)]
StrobeCycles == {LevelingOf[r].ret : r \in WlResponses}
VrefScanOf   == [x \in DataResponses \X DmResponses \X StrobeCycles |->
                   ModuleVrefScan(x[1], x[2], x[3])]

(* One iteration of the write leveling module loop: write_leveling, good  *)
(* &= (cycle != -1), and in a fail-fast build break, exit_wltm, return.   *)
LevelModule ==
  /\ pc = "level"
  /\ module < NumModules
  /\ \E r \in {LevelingOf[wl[module]]} :
       /\ wsc' = [wsc EXCEPT ![module] = r.ret]
       /\ wlOk' = [wlOk EXCEPT ![module] = r.ok]
       /\ dqsCycle' = [dqsCycle EXCEPT ![module] = r.cycle]
       /\ dqsDly' = [dqsDly EXCEPT ![module] = r.delay]
       /\ wicaReg' = IF r.wica = -1 THEN wicaReg ELSE [wicaReg EXCEPT ![module] = r.wica]
       /\ good' = (good /\ r.ret # -1)
       /\ IF ~KeepGoing /\ r.ret = -1
          THEN pc' = "done" /\ result' = FALSE /\ UNCHANGED module
          ELSE module' = module + 1 /\ UNCHANGED <<pc, result>>
  /\ UNCHANGED <<wl, data, dm, rank, vrefReg, dqCycle, dqDly, dmDly>>

(* exit_wltm after the last module; DQ write training starts. *)
LevelingDone ==
  /\ pc = "level"
  /\ module = NumModules
  /\ pc' = "dq" /\ module' = 0
  /\ UNCHANGED <<wl, data, dm, rank, good, result, wsc, wlOk, dqsCycle, dqsDly,
                 wicaReg, vrefReg, dqCycle, dqDly, dmDly>>

(* One iteration of the DQ write training loop: module_vref_scan, good &= *)
(* (result != -1), and in a fail-fast build return on failure.            *)
TrainDq ==
  /\ pc = "dq"
  /\ module < NumModules
  /\ \E r \in {VrefScanOf[<<data[module], dm[module], wsc[module]>>]} :
       /\ vrefReg' = [vrefReg EXCEPT ![module] = r.vref]
       /\ dqCycle' = [dqCycle EXCEPT ![module] = r.cycle]
       /\ dqDly' = [dqDly EXCEPT ![module] = r.delay]
       /\ dmDly' = IF r.dm = -1 THEN dmDly ELSE [dmDly EXCEPT ![module] = r.dm]
       /\ good' = (good /\ r.ret # -1)
       /\ IF ~KeepGoing /\ r.ret = -1
          THEN pc' = "done" /\ result' = FALSE /\ UNCHANGED module
          ELSE module' = module + 1 /\ UNCHANGED <<pc, result>>
  /\ UNCHANGED <<wl, data, dm, rank, wsc, wlOk, dqsCycle, dqsDly, wicaReg>>

(* The rank loop's bound (rank < ctx->ranks), and an off-by-one variant    *)
(* (mutation check).                                                       *)
IsLastRankOffByOne(r) == r = NumRanks

IsLastRank(r) == r + 1 = NumRanks

(* A variant of DqDone that repeats the same rank (mutation check). *)
DqDoneNoAdvance ==
  /\ pc = "dq"
  /\ module = NumModules
  /\ IF IsLastRank(rank)
     THEN pc' = "done" /\ result' = (KeepGoing \/ good) /\ UNCHANGED <<rank, module>>
     ELSE pc' = "level" /\ module' = 0 /\ UNCHANGED <<rank, result>>
  /\ UNCHANGED <<wl, data, dm, good, wsc, wlOk, dqsCycle, dqsDly, wicaReg, vrefReg,
                 dqCycle, dqDly, dmDly>>

(* The end of the rank loop body: the next rank, or the return. *)
DqDone ==
  /\ pc = "dq"
  /\ module = NumModules
  /\ IF IsLastRank(rank)
     THEN pc' = "done" /\ result' = (KeepGoing \/ good) /\ UNCHANGED <<rank, module>>
     ELSE pc' = "level" /\ rank' = rank + 1 /\ module' = 0 /\ UNCHANGED result
  /\ UNCHANGED <<wl, data, dm, good, wsc, wlOk, dqsCycle, dqsDly, wicaReg, vrefReg,
                 dqCycle, dqDly, dmDly>>

Init ==
  /\ wl \in [Modules -> WlResponses]
  /\ data \in [Modules -> DataResponses]
  /\ dm \in [Modules -> DmResponses]
  /\ pc = "level"
  /\ rank = 0 /\ module = 0
  /\ good = TRUE /\ result = FALSE
  /\ wsc = [m \in Modules |-> 0] /\ wlOk = [m \in Modules |-> FALSE]
  /\ dqsCycle = [m \in Modules |-> 0] /\ dqsDly = [m \in Modules |-> 0]
  /\ wicaReg = [m \in Modules |-> 0] /\ vrefReg = [m \in Modules |-> 0]
  /\ dqCycle = [m \in Modules |-> 0] /\ dqDly = [m \in Modules |-> 0]
  /\ dmDly = [m \in Modules |-> 0]

(* sdram_ddr5_write_training has returned. *)
Terminated == pc = "done" /\ UNCHANGED vars

Next == LevelModule \/ LevelingDone \/ TrainDq \/ DqDone \/ Terminated

(* One CPU runs the training to completion. *)
Spec == Init /\ [][Next]_vars /\ WF_vars(Next)

-----------------------------------------------------------------------------
TypeOK ==
  /\ pc \in {"level", "dq", "done"}
  /\ rank \in Ranks /\ module \in 0 .. NumModules
  /\ {good, result} \subseteq BOOLEAN
  /\ wsc \in [Modules -> Int] /\ wlOk \in [Modules -> BOOLEAN]
  /\ \A f \in {dqsCycle, dqsDly, dqCycle, dqDly, dmDly} : f \in [Modules -> Nat]
  /\ wicaReg \in [Modules -> Wicas] /\ vrefReg \in [Modules -> Vrefs]

(* Training reported success in a fail-fast build. *)
Succeeded == pc = "done" /\ result /\ ~KeepGoing

(* The flattened positions where the internal write leveling check answers 1. *)
IntPos(m) == {Pos(p[1], p[2]) : p \in wl[m].int}

(* Spec 4.7: write leveling leaves each DQS 1.25 tCK (one cycle and a      *)
(* quarter of the taps) after a rising edge of the internal write         *)
(* leveling response: a point that answers 1 while the one before it does *)
(* not.  The pull-back of wltm_align_to_eye_edge is what makes the found  *)
(* point an edge.                                                          *)
WlFindsTransition ==
  Succeeded =>
    \A m \in Modules :
      LET p == Pos(dqsCycle[m], dqsDly[m]) - N - N \div 4
      IN  p \in IntPos(m) /\ p - 1 \notin IntPos(m)

(* Spec 4.7: when write training reports success, every module's DQ cycle *)
(* and output delay registers hold a point where both the serial and the  *)
(* LFSR checks pass at the Vref programmed in MR10.                        *)
WriteCentersWork ==
  Succeeded =>
    \A m \in Modules : <<dqCycle[m], dqDly[m]>> \in data[m][vrefReg[m]].both

(* The width write_data_scan measures for module m at Vref v. *)
WidthAt(m, v) == EyeWidth(WriteDataScan(data[m][v], wsc[m]))

(* Spec 4.7: the Vref chosen maximises the surviving tap window. *)
VrefMaximisesWindow ==
  Succeeded =>
    \A m \in Modules : \A v \in Vrefs : WidthAt(m, vrefReg[m]) >= WidthAt(m, v)

(* Write training returns: every step before the return moves            *)
(* (rank, stage, module) strictly forward (a missing rank++ or module++    *)
(* breaks this).  These are bounded (TypeOK) and deadlock checking shows  *)
(* that some step is always possible, so the loops end.                    *)
Stage == CASE pc = "level" -> 0 [] pc = "dq" -> 1 [] OTHER -> 2
Progress == (rank * 3 + Stage) * (NumModules + 1) + module
Termination == [][pc # "done" => Progress' > Progress]_vars

=============================================================================
