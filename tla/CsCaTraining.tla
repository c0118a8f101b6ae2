---------------------------- MODULE CsCaTraining ----------------------------
(***************************************************************************)
(* DDR5 chip-select (CS) and command/address (CA) training of one          *)
(* subchannel and the clock (CK) finalisation that follows it, as          *)
(* ddr5_training.c runs them: CS_scan_single / CS_scan / CS_training,      *)
(* CA_check_lines / CA_scan / CA_training, sdram_ddr5_cs_ca_training or    *)
(* the per-channel RDIMM path, and CK_CS_CA_finalize_timings with its      *)
(* re-scan.                                                                *)
(*                                                                         *)
(* The hardware is the environment: what ctx->cs.check and ctx->ca.check   *)
(* answer at each tap is fixed in the initial state (csHw, caHw), chosen   *)
(* from the response sets the MC module enumerates, and never changes.     *)
(* Every scan loop iteration is one step, so a training run is the exact   *)
(* sequence of probes the C code makes.  The PHY delay registers are       *)
(* counters of increments since the last reset.                            *)
(***************************************************************************)
EXTENDS Integers, FiniteSets, FiniteSetsExt

CONSTANTS
  MaxDelayTaps,    \* ctx->max_delay_taps
  HelperCap,       \* slots of helper_arr
  NumRanks,        \* ctx->ranks
  NumModules,      \* ctx->modules, dies sharing the CS line
  TrainingType,    \* ctx->training_type
  KeepGoing,       \* KEEP_GOING_ON_DRAM_ERROR is defined
  LinesWith13,     \* CA line count when CA13 is present (14 in the code)
  LinesWithout13,  \* CA line count without CA13 (13 in the code)
  InitLineCount,   \* ctx->ca.line_count of the default context
  CsResponses,     \* possible answers of ctx->cs.check for one rank
  CaResponses      \* possible answers of ctx->ca.check for one line and rank

TrainingTypes == {"HOST_DRAM", "HOST_RCD", "RCD_DRAM"}

ASSUME MaxDelayTaps \in Nat \ {0}
ASSUME NumRanks \in Nat \ {0} /\ NumModules \in Nat \ {0}
ASSUME TrainingType \in TrainingTypes /\ KeepGoing \in BOOLEAN
ASSUME {LinesWithout13, InitLineCount} \subseteq 1 .. LinesWith13

N       == MaxDelayTaps
Taps    == 0 .. N - 1
Ranks   == 0 .. NumRanks - 1
Modules == 0 .. NumModules - 1
Lines   == 0 .. LinesWith13 - 1
Shifts  == {0, 1}

ASSUME CsResponses \subseteq [Shifts -> [Taps -> SUBSET Modules]]
ASSUME CaResponses \subseteq SUBSET (0 .. 2 * N - 1)

VARIABLES
  csHw,          \* csHw[r][s][t]: modules ctx->cs.check reports at tap t, shift s
  caHw,          \* caHw[r][l]: taps of the 2N domain where ctx->ca.check works
  has13,         \* ctx->ca.has_line13 answer
  pc,            \* program location
  rank, line,    \* rank and CA address loop indices of the running stage
  tap,           \* csdly / cadly of the running scan loop
  pass,          \* which sweep of CS_scan or CA_scan is running
  scanShift,     \* shift_0101 / shift_back argument of the running sweep
  shift,         \* CS_scan's local shift
  subtract,      \* CS_scan's result
  ret,           \* where CS_scan / CA_scan return to
  helperArr, helperIt,                   \* eye_detection_helper.c statics
  withoutShift, seenMods, seenWorking,   \* helper_modules_without_shift,
                                         \* helper_modules_seen, seen_working
  invert,        \* ctx->cs.invert[channel]
  csDelays,      \* ctx->cs.delays[channel][rank]: [right |-> .., left |-> ..]
  csCoarse,      \* ctx->cs.coarse_delays[channel][rank]
  csFinal,       \* ctx->cs.final_delays[channel][rank]
  caDelays,      \* ctx->ca.delays[channel][address]
  caFinal,       \* ctx->ca.final_delays[channel][address]
  lineCount,     \* ctx->ca.line_count
  csDly, caDly, ckDly,                   \* PHY delay counters
  csOk, caOk,    \* CS_success, CA_success
  csCaOk,        \* ctx->CS_CA_successful
  finalized,     \* CK_CS_CA_finalize_timings has run (history)
  csFound,       \* history: ranks given an eye by this channel's CS_training
  caFound        \* history: <<rank, line>> eyes found by this CA_training

hwVars   == <<csHw, caHw, has13>>
ctlVars  == <<pc, rank, line, tap, pass, scanShift, shift, subtract, ret>>
scanVars == <<helperArr, helperIt, withoutShift, seenMods, seenWorking, invert>>
resVars  == <<csDelays, csCoarse, csFinal, caDelays, caFinal, lineCount,
             csFound, caFound>>
phyVars  == <<csDly, caDly, ckDly>>
okVars   == <<csOk, caOk, csCaOk, finalized>>
vars == <<hwVars, ctlVars, scanVars, resVars, phyVars, okVars>>

Eye == INSTANCE EyeScanner

UNSET == Eye!UNSET

(* C integer division and the MAX/MIN macros. *)
CDiv(a, b) == IF a >= 0 THEN a \div b ELSE -((-a) \div b)
MaxOf(a, b) == IF a > b THEN a ELSE b
MinOf(a, b) == IF a < b THEN a ELSE b

(* reset-then-increment n times: a negative n leaves the counter at 0. *)
Programmed(n) == MaxOf(0, n)

(* reduce_cs: AND of the bits of all modules. *)
ReduceCs(cs) == Modules \subseteq cs

(* ctx->ca.check(channel, rank, address, shift_back) at tap t: the        *)
(* shift_back sweep covers the first half of the 2N scanning domain.      *)
CaWorks(r, l, sb, t) == (IF sb = 1 THEN t ELSE N + t) \in caHw[r][l]

-----------------------------------------------------------------------------
(***************************************************************************)
(* CS_scan: the sequence of sweeps and the clears between them.            *)
(***************************************************************************)

(* Start one sweep of CS_scan_single with shift_0101 = s. *)
StartCsSweep(p, s) ==
  /\ pass' = p
  /\ scanShift' = s
  /\ tap' = 0
  /\ pc' = "cs_tap"

(* CS_scan entry: reset the statics, the buffer and the CS delay. *)
BeginCsScan(r, back) ==
  /\ shift' = invert
  /\ subtract' = FALSE
  /\ Eye!Clear
  /\ withoutShift' = {}
  /\ seenMods' = {}
  /\ seenWorking' = FALSE
  /\ csDly' = [csDly EXCEPT ![r] = 0]
  /\ ret' = back
  /\ StartCsSweep("A", invert)

(* One iteration of CS_scan_single's loop at csdly = tap. *)
CsScanTap ==
  /\ pc = "cs_tap"
  /\ tap < N
  /\ LET raw    == csHw[rank][scanShift][tap]
         wos0   == IF seenWorking THEN withoutShift ELSE {}
         seen0  == IF seenWorking THEN seenMods ELSE {}
         w1     == IF raw \cap wos0 = wos0 THEN raw ELSE {}
         w2     == IF (w1 \ wos0) \cap seen0 = {} THEN w1 ELSE {}
         wos1   == wos0 \cup w2
         seen1  == seen0 \cup w2
         raw_   == csHw[rank][1 - scanShift][tap]
         probe  == TrainingType # "HOST_RCD"
         w_     == IF probe /\ raw_ \cap wos1 = {} THEN raw_ ELSE {}
         works  == IF w2 \cap w_ # {} THEN {} ELSE w2 \cup w_
         bit    == ReduceCs(works)
     IN  /\ withoutShift' = wos1
         /\ seenMods' = seen1 \cup w_
         /\ Eye!Record(bit)
         /\ seenWorking' = (seenWorking \/ bit)
         /\ csDly' = [csDly EXCEPT ![rank] = @ + 1]
  /\ tap' = tap + 1
  /\ UNCHANGED <<hwVars, pc, rank, line, pass, scanShift, shift, subtract, ret,
                 invert, resVars, caDly, ckDly, okVars>>

(* Return from CS_scan to the caller recorded in ret. *)
CsScanReturn(sub) ==
  /\ subtract' = sub
  /\ pc' = IF ret = "train" THEN "cs_eye" ELSE "rs_cs_restore"

(* The switch on one_in_helper_arr after the initial (or re-polarised)    *)
(* sweep; case -1 falls through into case 1.                             *)
CsSwitch(arr, s) ==
  CASE Eye!OneIn(arr, N) = -1 ->
         /\ Eye!Clear /\ shift' = 1 - s /\ StartCsSweep("B1", 1 - s)
         /\ UNCHANGED <<withoutShift, seenMods>>
    [] Eye!OneIn(arr, N) = 1 ->
         /\ shift' = 1 - s /\ StartCsSweep("C", 1 - s)
         /\ UNCHANGED <<helperArr, helperIt, withoutShift, seenMods>>
    [] OTHER ->
         /\ Eye!Clear /\ withoutShift' = {} /\ seenMods' = {}
         /\ shift' = s /\ StartCsSweep("D1", 1 - s)

(* CS_scan's condition for inverting the CS polarity after the initial     *)
(* sweep: HOST_RCD, sample 0 set and a leading run shorter than N/8.        *)
NeedsRepolarise(arr) ==
  /\ TrainingType = "HOST_RCD"
  /\ Eye!OneIn(arr, N) = -1
  /\ Eye!OneStride(arr, N) < N \div 8

(* The re-polarisation: invert[channel] = 1, shift = 1, clear the buffer   *)
(* and the module sets (seen_working is kept), sweep again.                 *)
Repolarise ==
  /\ invert' = 1 /\ shift' = 1
  /\ Eye!Clear
  /\ withoutShift' = {} /\ seenMods' = {}
  /\ StartCsSweep("P", 1)

(* End of a sweep: ctx->cs.rst_dly, then the next step of CS_scan. *)
CsSweepEnd ==
  /\ pc = "cs_tap"
  /\ tap = N
  /\ csDly' = [csDly EXCEPT ![rank] = 0]
  /\ \/ /\ pass = "A" /\ NeedsRepolarise(helperArr)
        /\ Repolarise
        /\ UNCHANGED <<subtract, ret>>
     \/ /\ pass = "P" \/ (pass = "A" /\ ~NeedsRepolarise(helperArr))
        /\ CsSwitch(helperArr, shift)
        /\ UNCHANGED <<invert, subtract, ret>>
     \/ /\ pass = "B1"
        /\ shift' = 1 - shift
        /\ StartCsSweep("B2", 1 - shift)
        /\ subtract' = TRUE
        /\ UNCHANGED <<helperArr, helperIt, withoutShift, seenMods, invert, ret>>
     \/ /\ pass = "D1"
        /\ StartCsSweep("D2", shift)
        /\ UNCHANGED <<shift, helperArr, helperIt, withoutShift, seenMods,
                       invert, subtract, ret>>
     \/ /\ pass \in {"B2", "C", "D2"}
        /\ CsScanReturn(subtract)
        /\ UNCHANGED <<tap, pass, scanShift, shift, helperArr, helperIt,
                       withoutShift, seenMods, invert, ret>>
  /\ UNCHANGED <<hwVars, rank, line, seenWorking, resVars, caDly, ckDly, okVars>>

-----------------------------------------------------------------------------
(***************************************************************************)
(* CA_scan: two sweeps of CA_scan_single, shift_back = 1 then 0.           *)
(***************************************************************************)

(* A CA_scan that forgets clear_helper_arr, for the mutation check of     *)
(* SamplesFreshAtExtraction.                                               *)
BeginCaScanNoClear(l, back) ==
  /\ UNCHANGED <<helperArr, helperIt>>
  /\ caDly' = [caDly EXCEPT ![l] = 0]
  /\ line' = l /\ ret' = back
  /\ pass' = "sb1" /\ scanShift' = 1 /\ tap' = 0
  /\ pc' = "ca_tap"

(* clear_helper_arr, ctx->ca.rst_dly and the first sweep. *)
BeginCaScan(l, back) ==
  /\ Eye!Clear
  /\ caDly' = [caDly EXCEPT ![l] = 0]
  /\ line' = l
  /\ ret' = back
  /\ pass' = "sb1"
  /\ scanShift' = 1
  /\ tap' = 0
  /\ pc' = "ca_tap"

(* One iteration of CA_scan_single's loop at cadly = tap. *)
CaScanTap ==
  /\ pc = "ca_tap"
  /\ tap < N
  /\ Eye!Record(CaWorks(rank, line, scanShift, tap))
  /\ caDly' = [caDly EXCEPT ![line] = @ + 1]
  /\ tap' = tap + 1
  /\ UNCHANGED <<hwVars, pc, rank, line, pass, scanShift, shift, subtract, ret,
                 withoutShift, seenMods, seenWorking, invert, resVars,
                 csDly, ckDly, okVars>>

(* End of a CA sweep: rst_dly, then the second sweep or the return. *)
CaSweepEnd ==
  /\ pc = "ca_tap"
  /\ tap = N
  /\ caDly' = [caDly EXCEPT ![line] = 0]
  /\ \/ /\ pass = "sb1"
        /\ pass' = "sb0" /\ scanShift' = 0 /\ tap' = 0
        /\ UNCHANGED pc
     \/ /\ pass = "sb0"
        /\ pc' = CASE ret = "probe"   -> "cs_probe"
                   [] ret = "catrain" -> "ca_eye"
                   [] OTHER           -> "rs_ca_restore"
        /\ UNCHANGED <<pass, scanShift, tap>>
  /\ UNCHANGED <<hwVars, rank, line, shift, subtract, ret, scanVars, resVars,
                 csDly, ckDly, okVars>>

-----------------------------------------------------------------------------
(***************************************************************************)
(* CS_training.                                                            *)
(***************************************************************************)

(* Store an eye for rank r, program the coarse delay (rst + inc) and start *)
(* the CS check through CA line 0.                                         *)
SetCsEye(r, right, left) ==
  LET coarse == MaxOf(0, CDiv(right + left, 2))
  IN  /\ csCoarse' = [csCoarse EXCEPT ![r] = coarse]
      /\ csDelays' = [csDelays EXCEPT ![r] = [right |-> right, left |-> left]]
      /\ csFound' = csFound \cup {r}
      /\ BeginCaScan(0, "probe")

(* Top of the rank loop: scan even ranks (every rank off HOST_RCD), copy   *)
(* the even neighbour's eye for odd HOST_RCD ranks; leave after the last.  *)
CsRankStep ==
  /\ pc = "cs_rank"
  /\ \/ /\ rank < NumRanks
        /\ TrainingType # "HOST_RCD" \/ rank % 2 = 0
        /\ BeginCsScan(rank, "train")
        /\ UNCHANGED <<line, invert, resVars, caDly>>
     \/ /\ rank < NumRanks
        /\ TrainingType = "HOST_RCD" /\ rank % 2 = 1
        /\ SetCsEye(rank, csDelays[rank - 1].right, csDelays[rank - 1].left)
        /\ csDly' = [csDly EXCEPT ![rank] = csCoarse'[rank]]
        /\ UNCHANGED <<shift, subtract, withoutShift, seenMods, seenWorking,
                       invert, csFinal, caDelays, caFinal, lineCount, caFound>>
     \/ /\ rank = NumRanks
        /\ pc' = "cs_done"
        /\ UNCHANGED <<line, tap, pass, scanShift, shift, subtract, ret,
                       scanVars, resVars, csDly, caDly>>
  /\ UNCHANGED <<hwVars, rank, ckDly, okVars>>

(* After CS_scan: find_eye_in_helper_arr, fail on no eye, subtract a       *)
(* period if CS_scan asked for it.                                         *)
CsTrainEye ==
  /\ pc = "cs_eye"
  /\ LET eye == Eye!FindEye(helperArr, N)
         off == IF subtract THEN N ELSE 0
     IN  \/ /\ UNSET \in {eye.left, eye.right}
            /\ csOk' = FALSE
            /\ pc' = "cs_done"
            /\ UNCHANGED <<line, tap, pass, scanShift, ret, helperArr, helperIt,
                           resVars, csDly, caDly>>
         \/ /\ UNSET \notin {eye.left, eye.right}
            /\ SetCsEye(rank, eye.right - off, eye.left - off)
            /\ csDly' = [csDly EXCEPT ![rank] = csCoarse'[rank]]
            /\ UNCHANGED <<csOk, csFinal, caDelays, caFinal, lineCount, caFound>>
  /\ UNCHANGED <<hwVars, rank, shift, subtract, withoutShift, seenMods,
                 seenWorking, invert, ckDly, caOk, csCaOk, finalized>>

(* After the CA line 0 scan: an eye whose left edge, less one period, is   *)
(* negative captured the previous clock: move both edges one period right *)
(* and re-program the coarse delay.  An UNSET left edge is not negative.   *)
CsProbe ==
  /\ pc = "cs_probe"
  /\ LET eye == Eye!FindEye(helperArr, N)
         d   == csDelays[rank]
         coarse == MaxOf(0, CDiv(d.right + N + d.left + N, 2))
     IN  IF eye.left - N < 0
         THEN /\ csDelays' = [csDelays EXCEPT ![rank] =
                                [right |-> d.right + N, left |-> d.left + N]]
              /\ csCoarse' = [csCoarse EXCEPT ![rank] = coarse]
              /\ csDly' = [csDly EXCEPT ![rank] = coarse]
         ELSE UNCHANGED <<csDelays, csCoarse, csDly>>
  /\ rank' = rank + 1
  /\ pc' = "cs_rank"
  /\ UNCHANGED <<hwVars, line, tap, pass, scanShift, shift, subtract, ret,
                 scanVars, csFinal, caDelays, caFinal, lineCount, csFound, caFound,
                 caDly, ckDly,
                 okVars>>

-----------------------------------------------------------------------------
(***************************************************************************)
(* CA_check_lines and CA_training.                                         *)
(***************************************************************************)

(* Ranks CA_training visits: only rank 0 for HOST_RCD. *)
CaMaxRank == IF TrainingType = "HOST_RCD" THEN 1 ELSE NumRanks

(* sdram_ddr5_cs_ca_channel_training after CS_training: fail fast unless   *)
(* KEEP_GOING_ON_DRAM_ERROR, then CA_check_lines (HOST_DRAM only probes    *)
(* has_line13) and the first CA scan of CA_training.                       *)
CaStart ==
  /\ pc = "cs_done"
  /\ \/ /\ ~csOk /\ ~KeepGoing
        /\ pc' = "chan_done"
        /\ UNCHANGED <<line, tap, pass, scanShift, ret, helperArr, helperIt,
                       lineCount, caDly>>
     \/ /\ csOk \/ KeepGoing
        /\ lineCount' = IF TrainingType = "HOST_DRAM"
                        THEN IF has13 THEN LinesWith13 ELSE LinesWithout13
                        ELSE lineCount
        /\ BeginCaScan(0, "catrain")
  /\ rank' = 0
  /\ UNCHANGED <<hwVars, shift, subtract, withoutShift, seenMods, seenWorking,
                 invert, csDelays, csCoarse, csFinal, caDelays, caFinal, csFound,
                 caFound,
                 csDly, ckDly, okVars>>

(* After a CA line scan: fail on no eye; otherwise subtract a period and   *)
(* narrow the line's [right, left] envelope, then scan the next line, the *)
(* next rank, or leave.                                                    *)
CaTrainEye ==
  /\ pc = "ca_eye"
  /\ LET eye   == Eye!FindEye(helperArr, N)
         d     == caDelays[line]
         nextL == IF line + 1 < lineCount THEN line + 1 ELSE 0
         nextR == IF line + 1 < lineCount THEN rank ELSE rank + 1
     IN  \/ /\ UNSET \in {eye.left, eye.right}
            /\ caOk' = FALSE
            /\ pc' = "chan_done"
            /\ UNCHANGED <<rank, line, tap, pass, scanShift, ret, helperArr,
                           helperIt, caDelays, caFound, caDly>>
         \/ /\ UNSET \notin {eye.left, eye.right}
            /\ caDelays' = [caDelays EXCEPT ![line] =
                              [right |-> MaxOf(d.right, eye.right - N),
                               left  |-> MinOf(d.left, eye.left - N)]]
            /\ caFound' = caFound \cup {<<rank, line>>}
            /\ rank' = nextR
            /\ IF nextR < CaMaxRank
               THEN BeginCaScan(nextL, "catrain")
               ELSE /\ pc' = "chan_done"
                    /\ UNCHANGED <<line, tap, pass, scanShift, ret, helperArr,
                                   helperIt, caDly>>
            /\ UNCHANGED caOk
  /\ UNCHANGED <<hwVars, shift, subtract, withoutShift, seenMods, seenWorking,
                 invert, csDelays, csCoarse, csFinal, caFinal, lineCount, csFound,
                 csDly, ckDly, csOk, csCaOk, finalized>>

-----------------------------------------------------------------------------
(***************************************************************************)
(* Channel training entry and result, CK_CS_CA_finalize_timings and        *)
(* CS_CA_rescan.                                                           *)
(***************************************************************************)

(* sdram_ddr5_ca_cs_prep (CA_setup_array) and the start of                 *)
(* sdram_ddr5_cs_ca_channel_training: ck rst_dly, then CS_training.        *)
Start ==
  /\ pc = "init"
  /\ caDelays' = [l \in Lines |-> [right |-> -N, left |-> N]]
  /\ ckDly' = 0
  /\ csOk' = TRUE /\ caOk' = TRUE
  /\ csFound' = {} /\ caFound' = {}
  /\ rank' = 0
  /\ pc' = "cs_rank"
  /\ UNCHANGED <<hwVars, line, tap, pass, scanShift, shift, subtract, ret,
                 scanVars, csDelays, csCoarse, csFinal, caFinal, lineCount,
                 csDly, caDly, csCaOk, finalized>>

(* The channel's result, taken by its caller: sdram_ddr5_cs_ca_training   *)
(* latches it into CS_CA_successful and returns before finalising on a    *)
(* failure (fail-fast build); the RDIMM path of sdram_ddr5_flow discards   *)
(* it and always finalises.                                                *)
ChannelResultCsOnly == IF KeepGoing THEN TRUE ELSE csOk

ChannelResult == IF KeepGoing THEN TRUE ELSE csOk /\ caOk

ChanDone ==
  /\ pc = "chan_done"
  /\ IF TrainingType = "RCD_DRAM" \/ KeepGoing
     THEN UNCHANGED csCaOk
     ELSE csCaOk' = (csCaOk /\ ChannelResult)
  /\ pc' = IF csCaOk' THEN "finalize" ELSE "done"
  /\ UNCHANGED <<hwVars, rank, line, tap, pass, scanShift, shift, subtract, ret,
                 scanVars, resVars, phyVars, csOk, caOk, finalized>>

(* CS_CA_calculate_midpoints: C-truncated centres of every CS rank and of  *)
(* the trained CA lines.                                                   *)
CsMid(r) == CDiv(csDelays[r].right + csDelays[r].left, 2)
CaMid(l) == CDiv(caDelays[l].right + caDelays[l].left, 2)
TrainedLines == 0 .. lineCount - 1
Mids == {CsMid(r) : r \in Ranks} \cup {CaMid(l) : l \in TrainedLines}

(* The running minimum starts at ctx->max_delay_taps (MidMinFromZero is  *)
(* the variant starting at 0, for the mutation check).                    *)
MidMinFromZero == Min({0} \cup Mids)

MidMin == Min({N} \cup Mids)

(* new_ckdly = (max_delay_taps - min) % max_delay_taps; the variant      *)
(* without the wrap is for the mutation check.                            *)
NewCkDlyNoWrap == N - MidMin

NewCkDly == (N - MidMin) % N

(* CK_CS_CA_finalize_timings: midpoints, new_ckdly = (N - min) % N, ck    *)
(* rst + inc, CS_CA_set_adjusted_delays(min); the re-scan follows.        *)
Finalize ==
  /\ pc = "finalize"
  /\ LET newCk == NewCkDly
     IN  /\ ckDly' = newCk
         /\ csFinal' = [r \in Ranks |-> CsMid(r) - MidMin]
         /\ csDly' = [r \in Ranks |-> Programmed(CsMid(r) - MidMin)]
         /\ caFinal' = [l \in Lines |-> IF l \in TrainedLines
                                        THEN CaMid(l) - MidMin ELSE caFinal[l]]
         /\ caDly' = [l \in Lines |-> IF l \in TrainedLines
                                      THEN Programmed(CaMid(l) - MidMin)
                                      ELSE caDly[l]]
  /\ finalized' = TRUE
  /\ rank' = 0
  /\ pc' = "rs_cs"
  /\ UNCHANGED <<hwVars, line, tap, pass, scanShift, shift, subtract, ret,
                 scanVars, csDelays, csCoarse, caDelays, lineCount, csFound, caFound,
                 csOk, caOk, csCaOk>>

(* CS re-scan: CS_scan of every rank, then the rank's final delay is      *)
(* programmed again.                                                       *)
RescanCs ==
  /\ pc = "rs_cs"
  /\ \/ /\ rank < NumRanks
        /\ BeginCsScan(rank, "rescan")
        /\ UNCHANGED <<rank, line, invert, caDly>>
     \/ /\ rank = NumRanks
        /\ rank' = 0 /\ line' = 0
        /\ pc' = "rs_ca"
        /\ UNCHANGED <<tap, pass, scanShift, shift, subtract, ret, scanVars,
                       csDly, caDly>>
  /\ UNCHANGED <<hwVars, resVars, ckDly, okVars>>

(* Variants restoring the coarse delay, or not advancing the line, for   *)
(* the mutation check.                                                    *)
RestoreCsCoarse ==
  /\ pc = "rs_cs_restore"
  /\ csDly' = [csDly EXCEPT ![rank] = csCoarse[rank]]
  /\ rank' = rank + 1
  /\ pc' = "rs_cs"
  /\ UNCHANGED <<hwVars, line, tap, pass, scanShift, shift, subtract, ret,
                 scanVars, resVars, caDly, ckDly, okVars>>

RestoreCaNoAdvance ==
  /\ pc = "rs_ca_restore"
  /\ caDly' = [caDly EXCEPT ![line] = Programmed(caFinal[line])]
  /\ pc' = "rs_ca"
  /\ UNCHANGED <<hwVars, rank, line, tap, pass, scanShift, shift, subtract, ret,
                 scanVars, resVars, csDly, ckDly, okVars>>

RestoreCs ==
  /\ pc = "rs_cs_restore"
  /\ csDly' = [csDly EXCEPT ![rank] = Programmed(csFinal[rank])]
  /\ rank' = rank + 1
  /\ pc' = "rs_cs"
  /\ UNCHANGED <<hwVars, line, tap, pass, scanShift, shift, subtract, ret,
                 scanVars, resVars, caDly, ckDly, okVars>>

(* CA re-scan: every trained line of every rank but rank 1 of HOST_RCD,   *)
(* each followed by programming the line's final delay again.             *)
RescanCa ==
  /\ pc = "rs_ca"
  /\ \/ /\ rank < NumRanks
        /\ ~(TrainingType = "HOST_RCD" /\ rank = 1)
        /\ line < lineCount
        /\ BeginCaScan(line, "rescan")
        /\ UNCHANGED rank
     \/ /\ rank < NumRanks
        /\ (TrainingType = "HOST_RCD" /\ rank = 1) \/ line = lineCount
        /\ rank' = rank + 1 /\ line' = 0
        /\ UNCHANGED <<pc, tap, pass, scanShift, ret, helperArr, helperIt, caDly>>
     \/ /\ rank = NumRanks
        /\ pc' = "done"
        /\ UNCHANGED <<rank, line, tap, pass, scanShift, ret, helperArr,
                       helperIt, caDly>>
  /\ UNCHANGED <<hwVars, shift, subtract, withoutShift, seenMods, seenWorking,
                 invert, resVars, csDly, ckDly, okVars>>

RestoreCa ==
  /\ pc = "rs_ca_restore"
  /\ caDly' = [caDly EXCEPT ![line] = Programmed(caFinal[line])]
  /\ line' = line + 1
  /\ pc' = "rs_ca"
  /\ UNCHANGED <<hwVars, rank, tap, pass, scanShift, shift, subtract, ret,
                 scanVars, resVars, csDly, ckDly, okVars>>

-----------------------------------------------------------------------------
Init ==
  /\ csHw \in [Ranks -> CsResponses]
  /\ caHw \in [Ranks -> [Lines -> CaResponses]]
  /\ has13 \in BOOLEAN
  /\ pc = "init"
  /\ rank = 0 /\ line = 0 /\ tap = 0
  /\ pass = "none" /\ scanShift = 0 /\ shift = 0
  /\ subtract = FALSE /\ ret = "none"
  /\ helperArr = Eye!ClearArr /\ helperIt = 0
  /\ withoutShift = {} /\ seenMods = {} /\ seenWorking = FALSE
  /\ invert = 0
  /\ csDelays = [r \in Ranks |-> [right |-> 0, left |-> 0]]
  /\ csCoarse = [r \in Ranks |-> 0]
  /\ csFinal = [r \in Ranks |-> 0]
  /\ caDelays = [l \in Lines |-> [right |-> 0, left |-> 0]]
  /\ caFinal = [l \in Lines |-> 0]
  /\ lineCount = InitLineCount
  /\ csDly = [r \in Ranks |-> 0] /\ caDly = [l \in Lines |-> 0] /\ ckDly = 0
  /\ csOk = TRUE /\ caOk = TRUE /\ csCaOk = TRUE /\ finalized = FALSE
  /\ csFound = {} /\ caFound = {}

(* The calibration has returned; the program stays there. *)
Terminated ==
  /\ pc = "done"
  /\ UNCHANGED vars

Next ==
  \/ Start \/ CsRankStep \/ CsScanTap \/ CsSweepEnd \/ CsTrainEye
  \/ CaScanTap \/ CaSweepEnd \/ CsProbe \/ CaStart \/ CaTrainEye
  \/ ChanDone \/ Finalize \/ RescanCs \/ RestoreCs \/ RescanCa \/ RestoreCa
  \/ Terminated

(* One CPU runs the calibration to completion: weak fairness on Next. *)
Spec == Init /\ [][Next]_vars /\ WF_vars(Next)

-----------------------------------------------------------------------------
TypeOK ==
  /\ pc \in {"init", "cs_rank", "cs_tap", "cs_eye", "cs_probe", "cs_done",
             "ca_tap", "ca_eye", "chan_done", "finalize", "rs_cs",
             "rs_cs_restore", "rs_ca", "rs_ca_restore", "done"}
  /\ rank \in 0 .. NumRanks /\ line \in 0 .. LinesWith13 /\ tap \in 0 .. N
  /\ scanShift \in Shifts /\ shift \in Shifts /\ invert \in Shifts
  /\ subtract \in BOOLEAN /\ seenWorking \in BOOLEAN
  /\ withoutShift \subseteq Modules /\ seenMods \subseteq Modules
  /\ helperIt \in Nat /\ helperArr \in [Eye!Slots -> BOOLEAN]
  /\ csDelays \in [Ranks -> [right : Int, left : Int]]
  /\ caDelays \in [Lines -> [right : Int, left : Int]]
  /\ csDly \in [Ranks -> Nat] /\ caDly \in [Lines -> Nat] /\ ckDly \in 0 .. N - 1
  /\ lineCount \in 1 .. LinesWith13
  /\ {csOk, caOk, csCaOk, finalized} \subseteq BOOLEAN
  /\ csFound \subseteq Ranks /\ caFound \subseteq Ranks \X Lines

(* helper_arr is never written past its end, and every find_eye_in_helper_arr *)
(* of CS_training, CA_training and the CS check through CA line 0 reads       *)
(* exactly the two sweeps recorded since the last clear_helper_arr: the       *)
(* CS_scan switch (with its case -1 fall-through and the re-polarisation)     *)
(* and CA_scan must clear and sweep in the right order.                       *)
SamplesFreshAtExtraction ==
  /\ helperIt <= 2 * N
  /\ pc \in {"cs_eye", "ca_eye", "cs_probe"} => helperIt = 2 * N

(* Spec 4.5 / 8: once CK_CS_CA_finalize_timings has run, the smallest CS/CA *)
(* final delay is 0 and none is negative.                                    *)
FinalDelays == {csFinal[r] : r \in Ranks} \cup {caFinal[l] : l \in TrainedLines}

CkNormalized ==
  finalized => Min(FinalDelays) = 0

(* When the calibration returns after finalising, the CS_CA_rescan has put  *)
(* back every CS and CA delay register it swept: each holds its final delay *)
(* and the clock holds new_ckdly.                                            *)
DelaysRestoredAfterRescan ==
  pc = "done" /\ finalized =>
    /\ \A r \in Ranks : csDly[r] = csFinal[r]
    /\ \A l \in TrainedLines : caDly[l] = caFinal[l]
    /\ ckDly = (N - MidMin) % N

(* The delays CK_CS_CA_finalize_timings computes come only from eyes this *)
(* channel's training found: every rank's CS eye (scanned, or copied from *)
(* the even rank on HOST_RCD) and the eye of every trained CA line on      *)
(* every rank CA_training visits.  A rank CS_training returned before, or *)
(* a line CA_training failed on, still holds the delays of an earlier run, *)
(* so the fail-fast returns of CS_training, of the channel training and of *)
(* sdram_ddr5_cs_ca_training must all keep finalisation away from it.     *)
FinalisedFromFoundEyes ==
  finalized =>
    /\ csFound = Ranks
    /\ \A r \in 0 .. CaMaxRank - 1, l \in TrainedLines : <<r, l>> \in caFound

(* Every training run returns: all scan loops are bounded. *)
Termination == <>(pc = "done")

(* Spec 8: a tap where some module answers under both the primary and the  *)
(* opposite shift is rejected by CS_scan_single (its sample is 0).          *)
CsTapRejectsBothShifts ==
  [][ /\ pc = "cs_tap" /\ tap < N /\ TrainingType # "HOST_RCD"
      /\ csHw[rank][0][tap] \cap csHw[rank][1][tap] # {}
      => ~helperArr'[helperIt] ]_vars

=============================================================================
