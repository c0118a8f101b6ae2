------------------------------ MODULE MCCsCaRcd ------------------------------
(* Model-checking instance of CsCaTraining for Host->RCD training of an   *)
(* RDIMM: two ranks (rank 1 copies rank 0's CS eye, CA trains rank 0      *)
(* only) and sixteen taps, the fewest for which one_stride < taps/8 can   *)
(* hold and CS_scan can take its polarity-inversion path.                 *)
EXTENDS CsCaTraining

MCMaxDelayTaps == 16
MCHelperCap == 2 * Max({64, MCMaxDelayTaps})

(* ctx->cs.check from the taps that pass under shift 0 and under shift 1. *)
CsResp(T0, T1) ==
  [s \in Shifts |-> [t \in Taps |->
     IF t \in (IF s = 0 THEN T0 ELSE T1) THEN Modules ELSE {}]]

MCCsResponses ==
  { CsResp({0}, 3 .. 6),       \* a one-tap run at tap 0: invert polarity
    CsResp(5 .. 9, {}),        \* eye inside the sweep
    CsResp(0 .. 5, {}),        \* eye starting at tap 0
    CsResp({}, {}) }           \* no eye

(* ctx->ca.check over the 2N domain (shift_back sweep first). *)
MCCaResponses == { 20 .. 24, 10 .. 18, 4 .. 8, {} }
==============================================================================
