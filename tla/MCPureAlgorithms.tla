--------------------------- MODULE MCPureAlgorithms ---------------------------
(***************************************************************************)
(* Model-checking instance of the two pure components, checked side by    *)
(* side: the LPDDR5 training flow, the eye-detection helper (a four-tap delay line, so a pass of two *)
(* sweeps records eight samples, and helper_arr sized as the C declaration *)
(* sizes it, 2 * MAX(64, SDRAM_PHY_DELAYS) slots) and the DRAMAddr library *)
(* with MTX_SIZE 6 and two configurations.  Each step is a step of one of  *)
(* them, the others' state unchanged.  sdram_lpddr5_flow starts with       *)
(* clear_helper_arr and uses the helper no further, so helper steps are    *)
(* taken only before the flow starts (the helper's own callers are the     *)
(* DDR5 training, which does not run in the same boot).                    *)
(***************************************************************************)
EXTENDS EyeScanner, Sequences

MCMaxDelayTaps == 4
MCHelperCap == 2 * Max({64, MCMaxDelayTaps})

(* Two MemConfiguration entries over 6 address bits.  Matrix rows are      *)
(* given first row first; each ADDR_MTX is the GF(2) inverse of its        *)
(* DRAM_MTX under the configuration's field layout.  The first lays the    *)
(* result out as bank|row|col with XOR-ed bank bits, the second puts the   *)
(* column in the middle and the bank at the bottom.                        *)
Rows(s) == [i \in 0 .. Len(s) - 1 |-> s[i + 1]]

MCConfigurations ==
  << [bkShift |-> 4, bkMask |-> 3, rowShift |-> 2, rowMask |-> 3,
      colShift |-> 0, colMask |-> 3,
      dramMtx |-> Rows(<<40, 20, 32, 16, 2, 1>>),
      addrMtx |-> Rows(<<8, 4, 40, 20, 2, 1>>)],
     [bkShift |-> 0, bkMask |-> 3, rowShift |-> 4, rowMask |-> 3,
      colShift |-> 2, colMask |-> 3,
      dramMtx |-> Rows(<<32, 16, 8, 4, 10, 37>>),
      addrMtx |-> Rows(<<32, 16, 8, 4, 10, 37>>)] >>

VARIABLE libConfig

DA == INSTANCE DramAddr WITH config <- libConfig, MtxSize <- 6,
                             Configurations <- MCConfigurations

(* The library with a given configuration, to evaluate each round trip   *)
(* once per configuration rather than once per state.                    *)
DAc(c) == INSTANCE DramAddr WITH config <- c, MtxSize <- 6,
                                 Configurations <- MCConfigurations

Configs == DOMAIN MCConfigurations

AddrRoundTrip == [i \in Configs |-> DAc(MCConfigurations[i])!ToAddrInvertsToDram]
DramRoundTrip == [i \in Configs |-> DAc(MCConfigurations[i])!ToDramInvertsToAddr]

-----------------------------------------------------------------------------
(* LPDDR5: two modules, 3 bitslips of 4 taps, Vrefs 0xA..0xC.  Answers    *)
(* are windows of flattened positions [a, b) (bitslip * 4 + delay).       *)
Win(a, b) == {<<p \div 4, p % 4>> : p \in a .. b - 1}

(* WCK sampling: flips to 1 on the third WCK step; starts at 1 and flips  *)
(* after two CA steps; never flips.                                       *)
MCWckResponses == { {<<0, 2>>}, {<<0, 0>>, <<1, 0>>}, {} }

(* Read: an eye crossing bitslip 0/1, one in bitslip 1/2, one still open  *)
(* at the last point, none.                                               *)
MCReadResponses == { Win(2, 5), Win(5, 8), Win(9, 12), {} }

(* Write, per Vref 10, 11, 12 (widths at most 4, the eye_width_range      *)
(* length, with the widest Vrefs adjacent): an eye widening then moving   *)
(* into the first cycle, so the third scan starts at label -1; an eye     *)
(* moving back a whole cycle at each step (both best at Vref 11); an eye  *)
(* widest at Vref 12; none.                                               *)
WrFirstCycle == [v \in 10 .. 12 |-> CASE v = 10 -> Win(5, 8)
                                     [] v = 11 -> Win(3, 7)
                                     [] OTHER  -> Win(1, 4)]
WrMovingBack == [v \in 10 .. 12 |-> CASE v = 10 -> Win(9, 11)
                                     [] v = 11 -> Win(4, 7)
                                     [] OTHER  -> Win(2, 3)]
WrWidening   == [v \in 10 .. 12 |-> CASE v = 10 -> Win(6, 7)
                                     [] v = 11 -> Win(6, 8)
                                     [] OTHER  -> Win(5, 8)]
WrNone       == [v \in 10 .. 12 |-> {}]

MCWriteResponses == { WrFirstCycle, WrMovingBack, WrWidening, WrNone }

VARIABLES wckHw, readHw, writeHw, pc, module, good, cadly, wdly, rdReg, idlyReg,
          mr14, bestVref, wrReg, odlyReg

lpVars == <<wckHw, readHw, writeHw, pc, module, good, cadly, wdly, rdReg, idlyReg,
            mr14, bestVref, wrReg, odlyReg>>

Lp == INSTANCE Lpddr5Training WITH Bitslips <- 3, NumVrefs <- 3, NumModules <- 2,
        KeepGoing <- FALSE, WckResponses <- MCWckResponses,
        ReadResponses <- MCReadResponses, WriteResponses <- MCWriteResponses

-----------------------------------------------------------------------------
PureInit == Init /\ DA!Init /\ Lp!Init

PureNext ==
  \/ Next /\ pc = "start" /\ UNCHANGED <<libConfig, lpVars>>
  \/ DA!Next /\ UNCHANGED <<vars, lpVars>>
  \/ Lp!Next /\ UNCHANGED libConfig

PureSpec == PureInit /\ [][PureNext]_<<vars, libConfig, lpVars>>

PureTypeOK == TypeOK /\ Lp!TypeOK

(* The DRAMAddr round trips hold for whichever configuration init_lib    *)
(* has selected.                                                         *)
DramToAddrInvertsToDram ==
  \A i \in Configs : libConfig = MCConfigurations[i] => AddrRoundTrip[i]

DramToDramInvertsToAddr ==
  \A i \in Configs : libConfig = MCConfigurations[i] => DramRoundTrip[i]

(* The LPDDR5 training properties, as invariants of this instance. *)
Lp5ReadCentresWork == Lp!Lp5ReadCentresWork
Lp5WriteCentresWork == Lp!Lp5WriteCentresWork
Lp5SweepMatchesFullScan == Lp!Lp5SweepMatchesFullScan
=============================================================================
