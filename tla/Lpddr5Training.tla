--------------------------- MODULE Lpddr5Training ---------------------------
(***************************************************************************)
(* LPDDR5 training (liblitedram lpddr5_training.c, sdram_lpddr5_flow and   *)
(* the functions it calls) for the host_dram_ctx context: clear the eye    *)
(* helper and reset the PHY, align CK and WCK, then per module a read scan *)
(* over (read bitslip, DQ input delay) and a write Vref sweep of scans     *)
(* over (write bitslip, DQ output delay), programming the centre of the    *)
(* first working run.                                                      *)
(*                                                                         *)
(* What the DRAM answers is the environment, fixed in the initial state:   *)
(* wckHw holds the (CA delay, WCK delay) counts where sample_CK2WCK_shift  *)
(* reads 1, readHw[m] the (bitslip, delay) points where                    *)
(* rd_bitslip_idly_check_if_works returns 1, and writeHw[m][v] those where *)
(* write_serial_check returns 1 at Vref v.  A point the sets do not list   *)
(* fails, also past the last bitslip.  Each scan is a loop over fixed      *)
(* answers with no other actor, so it is an operator (a recursive          *)
(* translation of the C loops) evaluated inside the action that calls it.  *)
(***************************************************************************)
EXTENDS Integers, FiniteSets, FiniteSetsExt

CONSTANTS
  MaxDelayTaps,     \* ctx->max_delay_taps
  HelperCap,        \* slots of the eye helper's helper_arr
  Bitslips,         \* SDRAM_PHY_BITSLIPS
  NumVrefs,         \* Vrefs swept from 0xA (0x76 in the code: 0xA..0x7F)
  NumModules,       \* ctx->modules
  KeepGoing,        \* KEEP_GOING_ON_DRAM_ERROR is defined
  WckResponses,     \* possible wckHw
  ReadResponses,    \* possible readHw[m]
  WriteResponses    \* possible writeHw[m]

(* max_delay_taps is SDRAM_PHY_DELAYS in DEFAULT_HOST_DRAM, so it is also *)
(* the length of eye_width_range.                                          *)
N       == MaxDelayTaps
Modules == 0 .. NumModules - 1
MinVref == 10
MaxVref == MinVref + NumVrefs - 1
Vrefs   == MinVref .. MaxVref

ASSUME N \in Nat \ {0} /\ Bitslips \in Nat \ {0}
ASSUME NumVrefs \in Nat \ {0} /\ NumModules \in Nat \ {0} /\ KeepGoing \in BOOLEAN

VARIABLES
  helperArr, helperIt,      \* the eye helper's statics (EyeScanner)
  wckHw, readHw, writeHw,   \* DRAM answers
  pc,                       \* "start", "wck", "read", "write", "done", "stopped"
  module,                   \* module loop index
  good,                     \* the good of read_training / sdram_lpddr5_write_training
  cadly, wdly,              \* CA delay and WCK (DQS) delay increments
  rdReg, idlyReg,           \* read bitslip and DQ input delay per module
  mr14,                     \* MR14 (DQ Vref), one for all modules: send_mrw broadcasts
  bestVref,                 \* module_vref_scan's result per module
  wrReg, odlyReg            \* write bitslip and DQ output delay per module

vars == <<helperArr, helperIt, wckHw, readHw, writeHw, pc, module, good, cadly,
          wdly, rdReg, idlyReg, mr14, bestVref, wrReg, odlyReg>>

Eye == INSTANCE EyeScanner

helperVars == <<helperArr, helperIt>>

CDiv(a, b) == IF a >= 0 THEN a \div b ELSE -((-a) \div b)
CMod(a, b) == a - b * CDiv(a, b)
Programmed(n) == IF n > 0 THEN n ELSE 0

(* DEFAULT_EYE of lpddr5_helpers.h. *)
DefaultEye == [state |-> "BEFORE", start |-> -1, center |-> -1, end |-> -1]

(* The eye update both scans make at flattened position p. *)
EyeStep(eye, works, p) ==
  CASE works /\ eye.state = "BEFORE" -> [eye EXCEPT !.state = "INSIDE", !.start = p]
    [] ~works /\ eye.state = "INSIDE" -> [eye EXCEPT !.state = "AFTER", !.end = p]
    [] OTHER -> eye

-----------------------------------------------------------------------------
(* sdram_lpddr5_wck_training: from the reset, sample; while the sample     *)
(* keeps its value (at most max_delay_taps times) move the CA delay when   *)
(* it reads 1 and the WCK delay when it reads 0, and sample again.         *)
(* Success is a change of the sample.                                      *)
RECURSIVE WckLoop(_, _, _, _, _, _)
WckLoop(hw, count, cad, wd, prev, phase) ==
  IF count >= N \/ phase # prev
  THEN [ok |-> phase # prev, cad |-> cad, wd |-> wd]
  ELSE LET c2 == IF phase THEN cad + 1 ELSE cad
           w2 == IF phase THEN wd ELSE wd + 1
       IN  WckLoop(hw, count + 1, c2, w2, phase, <<c2, w2>> \in hw)

WckTraining(hw) == WckLoop(hw, 0, 0, 0, <<0, 0>> \in hw, <<0, 0>> \in hw)

(* read_training_data_scan: every bitslip and every input delay, no early *)
(* exit; the first run of working points is the eye.                      *)
RECURSIVE ReadInner(_, _, _, _)
ReadInner(hw, b, i, eye) ==
  IF i >= N THEN eye
  ELSE ReadInner(hw, b, i + 1, EyeStep(eye, <<b, i>> \in hw, b * N + i))

RECURSIVE ReadOuter(_, _, _)
ReadOuter(hw, b, eye) ==
  IF b >= Bitslips THEN eye ELSE ReadOuter(hw, b + 1, ReadInner(hw, b, 0, eye))

ReadScan(hw) == ReadOuter(hw, 0, DefaultEye)

(* read_training's centre, start + width / 2, and a variant that takes the *)
(* end of the eye (mutation check).                                        *)
ReadCenterAtEnd(eye) == eye.end

ReadCenter(eye) == eye.start + (eye.end - eye.start) \div 2

(* write_data_scan(initial_bitslip): wr_rst and initial_bitslip increments *)
(* (none when it is negative), then labels b from initial_bitslip while    *)
(* b < SDRAM_PHY_BITSLIPS and the eye is not AFTER; the inner loop stops   *)
(* too once the eye closes.  Positions use the label, the check the        *)
(* bitslip register wr, one increment per label.  The result is the eye    *)
(* and the (wr, odly) the scan leaves behind.                              *)
RECURSIVE WriteInner(_, _, _, _, _)
WriteInner(hw, b, wr, d, eye) ==
  IF d >= N \/ eye.state = "AFTER" THEN [eye |-> eye, odly |-> d]
  ELSE WriteInner(hw, b, wr, d + 1, EyeStep(eye, <<wr, d>> \in hw, b * N + d))

RECURSIVE WriteOuter(_, _, _, _, _)
WriteOuter(hw, b, wr, odly, eye) ==
  IF b >= Bitslips \/ eye.state = "AFTER"
  THEN [eye |-> eye, wr |-> wr, odly |-> odly]
  ELSE LET r == WriteInner(hw, b, wr, 0, eye)
       IN  WriteOuter(hw, b + 1, wr + 1, r.odly, r.eye)

WriteDataScan(hw, ib, odly) == WriteOuter(hw, ib, Programmed(ib), odly, DefaultEye)

(* moduel_dq_vref_scan: for each Vref in turn, a data scan starting one    *)
(* cycle before the previous eye (at 0 after an eye that never opened);    *)
(* each width w below the eye's end - start records the first Vref and     *)
(* one past the last Vref that reached it.  ranges[w] is                   *)
(* <<eye_width_range[0][w], eye_width_range[1][w]>>.                       *)
NoRange == [w \in 0 .. N - 1 |-> <<-1, -1>>]

InitialBitslipSameCycle(last) ==
  IF last.state = "BEFORE" THEN 0 ELSE CDiv(last.start, N)

InitialBitslip(last) ==
  IF last.state = "BEFORE" THEN 0 ELSE CDiv(last.start, N) - 1

RecordWidth(ranges, v, width) ==
  [w \in 0 .. N - 1 |->
     IF w < width
     THEN <<IF ranges[w][1] = -1 THEN v ELSE ranges[w][1], v + 1>>
     ELSE ranges[w]]

RECURSIVE VrefLoop(_, _, _, _, _)
VrefLoop(hws, v, last, ranges, regs) ==
  IF v > MaxVref THEN [ranges |-> ranges, regs |-> regs]
  ELSE LET r == WriteDataScan(hws[v], InitialBitslip(last), regs[2])
       IN  VrefLoop(hws, v + 1, r.eye,
                    RecordWidth(ranges, v, r.eye.end - r.eye.start), <<r.wr, r.odly>>)

(* best_vref: the midpoint of the range of the widest width recorded,      *)
(* -1 if no scan found a closed eye; and a variant taking the first Vref   *)
(* of that range (mutation check).                                          *)
Widest(ranges) == {w \in 0 .. N - 1 : ranges[w][1] # -1}

BestVrefLow(ranges) ==
  IF Widest(ranges) = {} THEN -1 ELSE ranges[Max(Widest(ranges))][1]

BestVref(ranges) ==
  IF Widest(ranges) = {} THEN -1
  ELSE LET r == ranges[Max(Widest(ranges))] IN (r[1] + r[2]) \div 2

(* The middle of module_vref_scan's final eye, as (cycle, delay), and a   *)
(* variant taking its end (mutation check).                               *)
MiddleAtEnd(eye) == <<CDiv(eye.end, N), CMod(eye.end, N)>>

Middle(eye) ==
  LET c == CDiv(eye.start + eye.end, 2) IN <<CDiv(c, N), CMod(c, N)>>

-----------------------------------------------------------------------------
AllModules(v) == [m \in Modules |-> v]

(* mr14 is -1 until training writes it: its power-up value is not used. *)
Init ==
  /\ Eye!Init
  /\ wckHw \in WckResponses
  /\ readHw \in [Modules -> ReadResponses]
  /\ writeHw \in [Modules -> WriteResponses]
  /\ pc = "start"
  /\ module = 0
  /\ good = TRUE
  /\ cadly = 0 /\ wdly = 0
  /\ rdReg = AllModules(0) /\ idlyReg = AllModules(0)
  /\ wrReg = AllModules(0) /\ odlyReg = AllModules(0)
  /\ mr14 = -1
  /\ bestVref = AllModules(-1)

Hw == <<wckHw, readHw, writeHw>>

(* sdram_lpddr5_flow up to the WCK training: clear_helper_arr,            *)
(* init_structs, then reset CA and WCK delays and every module's read and  *)
(* write bitslips and delays.                                              *)
FlowStart ==
  /\ pc = "start"
  /\ Eye!Clear
  /\ cadly' = 0 /\ wdly' = 0
  /\ rdReg' = AllModules(0) /\ idlyReg' = AllModules(0)
  /\ wrReg' = AllModules(0) /\ odlyReg' = AllModules(0)
  /\ pc' = "wck"
  /\ UNCHANGED <<Hw, module, good, mr14, bestVref>>

(* sdram_lpddr5_wck_training; on failure the flow returns. *)
WckStep ==
  /\ pc = "wck"
  /\ LET r == WckTraining(wckHw)
     IN  /\ cadly' = r.cad /\ wdly' = r.wd
         /\ pc' = IF r.ok THEN "read" ELSE "stopped"
  /\ module' = 0 /\ good' = TRUE
  /\ UNCHANGED <<helperVars, Hw, rdReg, idlyReg, wrReg, odlyReg, mr14, bestVref>>

(* One iteration of read_training's module loop: the data scan, then,     *)
(* when it closed an eye, the read bitslip and input delay of its centre.  *)
(* A failed scan leaves both where the scan left them and clears good      *)
(* unless KEEP_GOING_ON_DRAM_ERROR.                                        *)
ReadModule ==
  /\ pc = "read" /\ module < NumModules
  /\ LET eye == ReadScan(readHw[module])
         c   == ReadCenter(eye)
         ok  == eye.state = "AFTER"
     IN  /\ rdReg' = [rdReg EXCEPT ![module] = IF ok THEN CDiv(c, N) ELSE Bitslips]
         /\ idlyReg' = [idlyReg EXCEPT ![module] = IF ok THEN CMod(c, N) ELSE N]
         /\ good' = (good /\ (ok \/ KeepGoing))
  /\ module' = module + 1
  /\ UNCHANGED <<helperVars, Hw, pc, cadly, wdly, wrReg, odlyReg, mr14, bestVref>>

(* sdram_lpddr5_read_training's return (read_check only reads and prints); *)
(* on failure the flow returns.                                            *)
ReadEnd ==
  /\ pc = "read" /\ module = NumModules
  /\ pc' = IF good THEN "write" ELSE "stopped"
  /\ module' = 0 /\ good' = TRUE
  /\ UNCHANGED <<helperVars, Hw, cadly, wdly, rdReg, idlyReg, wrReg, odlyReg, mr14, bestVref>>

(* One iteration of sdram_lpddr5_write_training's module loop:           *)
(* module_vref_scan (reset wr and odly, the Vref sweep, MR14 set to the    *)
(* best Vref when there is one, else left at the last Vref swept; on -1    *)
(* return at once unless KEEP_GOING_ON_DRAM_ERROR; then a data scan from   *)
(* bitslip 0 at that MR14 and, when it closed an eye, wr and odly of its   *)
(* middle, else both reset), then good &= (best != -1) and the fail-fast   *)
(* return.                                                                  *)
WriteModule ==
  /\ pc = "write" /\ module < NumModules
  /\ LET sweep == VrefLoop(writeHw[module], MinVref, DefaultEye, NoRange, <<0, 0>>)
         best  == BestVref(sweep.ranges)
         vref  == IF best > -1 THEN best ELSE MaxVref
         final == WriteDataScan(writeHw[module][vref], 0, 0).eye
         early == best = -1 /\ ~KeepGoing
         regs  == CASE early                  -> sweep.regs
                    [] final.state = "AFTER" -> Middle(final)
                    [] OTHER                 -> <<0, 0>>
     IN  /\ mr14' = vref
         /\ bestVref' = [bestVref EXCEPT ![module] = best]
         /\ wrReg' = [wrReg EXCEPT ![module] = regs[1]]
         /\ odlyReg' = [odlyReg EXCEPT ![module] = regs[2]]
         /\ good' = (good /\ best # -1)
         /\ pc' = IF early THEN "stopped" ELSE pc
  /\ module' = module + 1
  /\ UNCHANGED <<helperVars, Hw, cadly, wdly, rdReg, idlyReg>>

(* The write training returns true once every module is trained (good   *)
(* can only be false here under KEEP_GOING_ON_DRAM_ERROR, which returns    *)
(* true), and the flow ends.                                               *)
WriteEnd ==
  /\ pc = "write" /\ module = NumModules
  /\ pc' = "done"
  /\ UNCHANGED <<helperVars, Hw, module, good, cadly, wdly, rdReg, idlyReg, mr14,
                 bestVref, wrReg, odlyReg>>

Next == FlowStart \/ WckStep \/ ReadModule \/ ReadEnd \/ WriteModule \/ WriteEnd

(* The flow runs on the one BIOS thread to its end. *)
Spec == Init /\ [][Next]_vars /\ WF_vars(Next)

-----------------------------------------------------------------------------
TypeOK ==
  /\ Eye!TypeOK
  /\ pc \in {"start", "wck", "read", "write", "done", "stopped"}
  /\ module \in 0 .. NumModules /\ good \in BOOLEAN
  /\ cadly \in 0 .. N /\ wdly \in 0 .. N
  /\ rdReg \in [Modules -> 0 .. Bitslips] /\ idlyReg \in [Modules -> 0 .. N]
  /\ wrReg \in [Modules -> 0 .. Bitslips] /\ odlyReg \in [Modules -> 0 .. N]
  /\ mr14 \in Vrefs \cup {-1} /\ bestVref \in [Modules -> Vrefs \cup {-1}]

-----------------------------------------------------------------------------
(* Once read training has returned true, every module's read bitslip and *)
(* input delay (the centre read_training programs, start + width / 2 of    *)
(* the first run of working points across all bitslips) is a point where   *)
(* the serial readout works, also for an eye crossing a bitslip boundary.  *)
Lp5ReadCentresWork ==
  pc \in {"write", "done"} =>
    \A m \in Modules : <<rdReg[m], idlyReg[m]>> \in readHw[m]

(* When the flow finishes, every module's write bitslip and output delay  *)
(* (the middle of module_vref_scan's final scan) work at the Vref the      *)
(* module's own Vref scan chose.                                           *)
Lp5WriteCentresWork ==
  pc = "done" =>
    \A m \in Modules : <<wrReg[m], odlyReg[m]>> \in writeHw[m][bestVref[m]]

(* The width of a full data scan from bitslip 0 at Vref v, and the best   *)
(* Vref as eye_width_range defines it, from those widths: the midpoint of  *)
(* the first and one past the last Vref reaching the widest width.         *)
FullWidth(hws, v) ==
  LET e == WriteDataScan(hws[v], 0, 0).eye IN e.end - e.start

RefBestVref(hws) ==
  LET reach(w) == {v \in Vrefs : FullWidth(hws, v) > w}
      ws == {w \in 0 .. N - 1 : reach(w) # {}}
  IN  IF ws = {} THEN -1
      ELSE (Min(reach(Max(ws))) + Max(reach(Max(ws))) + 1) \div 2

(* Starting each Vref's scan one bitslip before the previous eye (instead *)
(* of at 0) loses nothing: every Vref scan returns the best Vref full      *)
(* scans would give, including after an eye in the first cycle, where the  *)
(* scan starts at label -1.                                                *)
Lp5SweepMatchesFullScan ==
  \A m \in Modules :
    (pc = "done" \/ (pc = "write" /\ module > m)) =>
      bestVref[m] = RefBestVref(writeHw[m])
====
