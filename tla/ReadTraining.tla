---------------------------- MODULE ReadTraining ----------------------------
(***************************************************************************)
(* DDR5 read training of one subchannel (ddr5_training.c,                  *)
(* sdram_ddr5_read_training and the functions it calls): per rank and      *)
(* module, find the read preamble cycle, scan (read cycle, DQ delay) from  *)
(* one cycle before it, program the centre of the first working run, and  *)
(* after the rank check each module by a scratch-pad read-back.            *)
(*                                                                         *)
(* What the DRAM answers is the environment, fixed in the initial state:   *)
(* preHw[m] holds the (cycle register, DQ delay) points where              *)
(* captured_preamble reads 4, dataHw[m] those where                        *)
(* rd_cycle_dly_idly_check_if_works returns 3.  Both scans are loops over  *)
(* fixed answers with no other actor, so each is an operator (a recursive  *)
(* translation of the C loops) evaluated inside the action that calls it.  *)
(***************************************************************************)
EXTENDS Integers

CONSTANTS
  MaxDelayTaps,     \* max_delay_taps
  MaxReadCycle,     \* MAX_READ_CYCLE_DELAY
  NumRanks,         \* ctx->ranks
  NumModules,       \* ctx->modules
  KeepGoing,        \* KEEP_GOING_ON_DRAM_ERROR is defined
  ReadBackChecks,   \* possible values of training_type == HOST_DRAM && !RDIMM
  PreambleResponses,\* possible preHw[m]
  DataResponses     \* possible dataHw[m]

N         == MaxDelayTaps
Taps      == 0 .. N - 1
Ranks     == 0 .. NumRanks - 1
Modules   == 0 .. NumModules - 1
(* The cycle register can be one past the last loop label (see DataScan). *)
RegCycles == 0 .. MaxReadCycle
Points    == RegCycles \X Taps

ASSUME N \in Nat \ {0} /\ MaxReadCycle \in Nat \ {0}
ASSUME KeepGoing \in BOOLEAN /\ ReadBackChecks \subseteq BOOLEAN
ASSUME PreambleResponses \subseteq SUBSET Points
ASSUME DataResponses \subseteq SUBSET Points

VARIABLES
  preHw, dataHw,   \* DRAM answers per module
  readBack,        \* the read_back_check argument: ctx->RDIMM is set by the flow
  pc,              \* "rank_train", "rank_check", "done"
  rank, module,    \* loop indices
  rankGood,        \* rank_read_training's good
  good,            \* sdram_ddr5_read_training's good
  result,          \* its return value
  trained,         \* per module: preamble and data eye found (history)
  rdDly, idlyDly   \* read cycle and DQ input delay registers per module

vars == <<preHw, dataHw, readBack, pc, rank, module, rankGood, good, result,
          trained, rdDly, idlyDly>>

CDiv(a, b) == IF a >= 0 THEN a \div b ELSE -((-a) \div b)
CMod(a, b) == a - b * CDiv(a, b)
(* Writing n to a delay register is a reset and n increments: a negative   *)
(* n programs 0.                                                            *)
Programmed(n) == IF n > 0 THEN n ELSE 0

(* The eye read_training_data_scan starts from, eye_t eye = DEFAULT_EYE.   *)
(* ddr5_training.c takes the macro from ddr5_helpers.h, which is not in    *)
(* the repository; the value is the one lpddr5_helpers.h gives it.        *)
DefaultEye == [state |-> "BEFORE", start |-> -1, center |-> -1, end |-> -1]

-----------------------------------------------------------------------------
(***************************************************************************)
(* The scan shared by find_read_preamble_cycle and read_training_data_scan *)
(* (kind "pre" or "data").  The loop label c runs from c0 while            *)
(* c < MAX_READ_CYCLE_DELAY and the eye is not AFTER; the cycle register   *)
(* was programmed to reg0 and is incremented once per label.  The inner    *)
(* loop visits every DQ delay, even after the eye closed: a preamble scan  *)
(* records the cycle as start and never an end, a data scan records the    *)
(* flattened position c * taps + idly for both.                            *)
(***************************************************************************)
Position(kind, c, i) == IF kind = "pre" THEN c ELSE c * N + i

RECURSIVE InnerScan(_, _, _, _, _, _)
InnerScan(hit, reg, c, eye, i, kind) ==
  IF i >= N THEN eye
  ELSE LET h  == <<reg, i>> \in hit
           e2 == CASE h /\ eye.state = "BEFORE" ->
                        [eye EXCEPT !.state = "INSIDE", !.start = Position(kind, c, i)]
                   [] ~h /\ eye.state = "INSIDE" ->
                        [eye EXCEPT !.state = "AFTER",
                                    !.end = IF kind = "data" THEN Position(kind, c, i)
                                            ELSE eye.end]
                   [] OTHER -> eye
       IN  InnerScan(hit, reg, c, e2, i + 1, kind)

(* The outer loop; returns the eye and the label the loop stopped at. *)
RECURSIVE OuterScan(_, _, _, _, _, _)
OuterScan(hit, c0, reg0, c, eye, kind) ==
  IF c >= MaxReadCycle \/ eye.state = "AFTER"
  THEN [eye |-> eye, stop |-> c]
  ELSE OuterScan(hit, c0, reg0, c + 1,
                 InnerScan(hit, reg0 + (c - c0), c, eye, 0, kind), kind)

(* find_read_preamble_cycle: rd_rst, scan from cycle 0, return eye.start. *)
PreambleScan(m) == OuterScan(preHw[m], 0, 0, 0, DefaultEye, "pre")

(* read_training_data_scan's scan: preamble_cycle -= 1, rd_rst and        *)
(* preamble_cycle increments (none when it is -1), then labels from        *)
(* preamble_cycle.                                                          *)
DataScan(m, pre) ==
  OuterScan(dataHw[m], pre - 1, Programmed(pre - 1), pre - 1, DefaultEye, "data")

(* The eye centre in (cycle, delay), with C division and remainder. *)
EyeCenter(eye) == eye.start + CDiv(eye.end - eye.start, 2)
CenterCycle(eye) == CDiv(EyeCenter(eye), N)
CenterDelay(eye) == CMod(EyeCenter(eye), N)

-----------------------------------------------------------------------------
(* A module's contribution to rank_read_training's good, and the variant  *)
(* that forgets good &= false on a missing preamble (mutation check).      *)
ModuleOkIgnoringPreamble(pre, ds) == ds.eye.state = "AFTER" \/ KeepGoing

ModuleOk(pre, ds) == pre # -1 /\ (ds.eye.state = "AFTER" \/ KeepGoing)

(* One iteration of rank_read_training's module loop: the preamble scan,  *)
(* then (unless it found none) the data scan and the centre programming.  *)
(* A failed data scan leaves the registers where the loops left them.     *)
(* (The scans are bound by \E over a singleton so that TLC evaluates each  *)
(* once, also when it computes ENABLED for fairness.)                      *)
TrainModule ==
  /\ pc = "rank_train"
  /\ module < NumModules
  /\ \E ps \in {PreambleScan(module)} :
     \E ds \in {DataScan(module, ps.eye.start)} :
     LET pre == ps.eye.start
         ok  == ds.eye.state = "AFTER"
     IN  /\ rankGood' = (rankGood /\ ModuleOk(pre, ds))
         /\ trained' = [trained EXCEPT ![module] = (pre # -1 /\ ok)]
         /\ rdDly' = [rdDly EXCEPT ![module] =
                        CASE pre = -1 -> ps.stop
                          [] ok       -> Programmed(CenterCycle(ds.eye))
                          [] OTHER    -> Programmed(pre - 1) + (ds.stop - (pre - 1))]
         /\ idlyDly' = [idlyDly EXCEPT ![module] =
                          IF pre # -1 /\ ok THEN Programmed(CenterDelay(ds.eye)) ELSE N]
  /\ module' = module + 1
  /\ UNCHANGED <<preHw, dataHw, readBack, pc, rank, good, result>>

(* sdram_ddr5_read_training after rank_read_training: latch and fail fast. *)
RankTrained ==
  /\ pc = "rank_train"
  /\ module = NumModules
  /\ good' = (good /\ rankGood)
  /\ IF ~KeepGoing /\ ~good'
     THEN pc' = "done" /\ result' = FALSE
     ELSE pc' = "rank_check" /\ UNCHANGED result
  /\ UNCHANGED <<preHw, dataHw, readBack, rank, module, rankGood, trained, rdDly, idlyDly>>

(* simple_read_check: writing and reading back the scratch pad works when *)
(* the programmed read delays lie in the module's working region.          *)
ReadBackOk(m) == <<rdDly[m], idlyDly[m]>> \in dataHw[m]

(* The rank loop's bound (rank < ctx->ranks), and an off-by-one variant    *)
(* (mutation check).                                                       *)
IsLastRankOffByOne(r) == r = NumRanks

IsLastRank(r) == r + 1 = NumRanks

(* A variant of RankChecked that retrains the same rank (mutation check). *)
RankCheckedNoAdvance ==
  /\ pc = "rank_check"
  /\ LET ok == \A m \in Modules : ~readBack \/ ReadBackOk(m)
         g  == good /\ ok
     IN  /\ good' = g
         /\ CASE ~KeepGoing /\ ~g ->
                   pc' = "done" /\ result' = FALSE /\ UNCHANGED <<rank, module, rankGood>>
              [] IsLastRank(rank) ->
                   pc' = "done" /\ result' = (KeepGoing \/ g)
                   /\ UNCHANGED <<rank, module, rankGood>>
              [] OTHER ->
                   /\ pc' = "rank_train" /\ UNCHANGED rank
                   /\ module' = 0 /\ rankGood' = TRUE /\ UNCHANGED result
  /\ UNCHANGED <<preHw, dataHw, readBack, trained, rdDly, idlyDly>>

(* rank_read_check, the fail-fast test after it, and the next rank. *)
RankChecked ==
  /\ pc = "rank_check"
  /\ LET ok == \A m \in Modules : ~readBack \/ ReadBackOk(m)
         g  == good /\ ok
     IN  /\ good' = g
         /\ CASE ~KeepGoing /\ ~g ->
                   pc' = "done" /\ result' = FALSE /\ UNCHANGED <<rank, module, rankGood>>
              [] IsLastRank(rank) ->
                   pc' = "done" /\ result' = (KeepGoing \/ g)
                   /\ UNCHANGED <<rank, module, rankGood>>
              [] OTHER ->
                   /\ pc' = "rank_train" /\ rank' = rank + 1
                   /\ module' = 0 /\ rankGood' = TRUE /\ UNCHANGED result
  /\ UNCHANGED <<preHw, dataHw, readBack, trained, rdDly, idlyDly>>

Init ==
  /\ preHw \in [Modules -> PreambleResponses]
  /\ dataHw \in [Modules -> DataResponses]
  /\ readBack \in ReadBackChecks
  /\ pc = "rank_train"
  /\ rank = 0 /\ module = 0
  /\ rankGood = TRUE /\ good = TRUE /\ result = FALSE
  /\ trained = [m \in Modules |-> FALSE]
  /\ rdDly = [m \in Modules |-> 0] /\ idlyDly = [m \in Modules |-> 0]

(* sdram_ddr5_read_training has returned. *)
Terminated == pc = "done" /\ UNCHANGED vars

Next == TrainModule \/ RankTrained \/ RankChecked \/ Terminated

(* One CPU runs the training to completion. *)
Spec == Init /\ [][Next]_vars /\ WF_vars(Next)

-----------------------------------------------------------------------------
TypeOK ==
  /\ pc \in {"rank_train", "rank_check", "done"}
  /\ rank \in Ranks /\ module \in 0 .. NumModules
  /\ {readBack, rankGood, good, result} \subseteq BOOLEAN
  /\ trained \in [Modules -> BOOLEAN]
  /\ rdDly \in [Modules -> Nat] /\ idlyDly \in [Modules -> Nat]

(* Spec 4.6 / 7: in a fail-fast build, success means every module of every *)
(* rank found its read preamble and a data eye.                            *)
SuccessMeansTrained ==
  pc = "done" /\ result /\ ~KeepGoing => \A m \in Modules : trained[m]

(* Read training returns. *)
Termination == <>(pc = "done")

=============================================================================
