---------------------------- MODULE MCCsCaFindings ----------------------------
(* Instance of CsCaTraining for the runs that exhibit where the code and   *)
(* its documentation disagree: four taps, CS answers that include a module *)
(* passing under both shifts, CA answers that differ between ranks.        *)
EXTENDS CsCaTraining

MCMaxDelayTaps == 4
MCHelperCap == 2 * Max({64, MCMaxDelayTaps})

CsResp(S) == [s \in Shifts |-> [t \in Taps |-> IF <<s, t>> \in S THEN Modules ELSE {}]]

MCCsResponses ==
  { CsResp({<<0, 1>>, <<0, 2>>}),                  \* eye inside the sweep
    CsResp({<<0, 1>>, <<0, 2>>, <<1, 2>>}) }       \* tap 2 passes either way

MCCaResponses == { {5, 6}, {1, 2}, {} }
===============================================================================
