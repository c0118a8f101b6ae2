--------------------------- MODULE MCCsCaTraining ---------------------------
(* Model-checking instance of CsCaTraining: one subchannel, four taps, CA  *)
(* lines abstracted to two (with CA13) or one (without).  The hardware     *)
(* answers are a handful of eye shapes: a clean eye, an eye wrapping round *)
(* tap 0, an eye only under the opposite shift, none at all.               *)
EXTENDS CsCaTraining

MCMaxDelayTaps == 4
MCHelperCap == 2 * Max({64, MCMaxDelayTaps})

(* ctx->cs.check for one module set, from the (shift, tap) pairs it passes. *)
CsResp(S) == [s \in Shifts |-> [t \in Taps |-> IF <<s, t>> \in S THEN Modules ELSE {}]]

MCCsResponses ==
  { CsResp({<<0, 1>>, <<0, 2>>}),          \* eye inside the sweep
    CsResp({<<0, 0>>, <<0, 1>>}),          \* eye starting at tap 0
    CsResp({<<1, 1>>, <<1, 2>>}),          \* eye only with the shift
    CsResp({}) }                           \* no eye

(* ctx->ca.check over the 2N domain (shift_back sweep first). *)
MCCaResponses == { {5, 6}, {3, 4, 5}, {1, 2}, {} }
====
