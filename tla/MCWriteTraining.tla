--------------------------- MODULE MCWriteTraining ---------------------------
(* Model-checking instance of WriteTraining: 4 taps, write cycles up to 7, *)
(* a minimal DQS cycle of 4, three Vrefs.  A response is given as windows *)
(* of flattened positions [a, b).                                         *)
EXTENDS WriteTraining

(* The (cycle, delay) points of the positions a .. b - 1. *)
Win(a, b) == {<<p \div N, p % N>> : p \in a .. b - 1}

(* Write leveling answers: external window [18, 26) and internal edge at  *)
(* 12; the same with both edges on the last tap of a cycle (the +N/4      *)
(* carries); no external response; no working WICA value.                 *)
WlGood   == [ext |-> Win(18, 26), wica |-> {2}, int |-> Win(12, 20)]
WlCarry  == [ext |-> Win(19, 27), wica |-> {0}, int |-> Win(15, 23)]
WlNoExt  == [ext |-> {}, wica |-> {0}, int |-> Win(12, 20)]
WlNoWica == [ext |-> Win(18, 26), wica |-> {}, int |-> Win(12, 20)]

(* A data eye [a, b) where both checks pass, the serial check one tap     *)
(* wider on each side; and no working point.                              *)
Eye(a, b) == [ser |-> Win(a - 1, b + 1), both |-> Win(a, b)]
NoEye     == [ser |-> {}, both |-> {}]

(* Per Vref: widest in the middle; widest at the last Vref; width 1       *)
(* everywhere; nothing.                                                    *)
DataCentred == [v \in Vrefs |-> IF v = 1 THEN Eye(17, 21) ELSE Eye(18, 20)]
DataLast    == [v \in Vrefs |-> IF v = 2 THEN Eye(19, 22) ELSE Eye(20, 21)]
DataNarrow  == [v \in Vrefs |-> Eye(21, 22)]
DataNone    == [v \in Vrefs |-> NoEye]

DmOff  == [on |-> FALSE, pts |-> {}]
DmOk   == [on |-> TRUE, pts |-> {1, 2, 3}]
DmDead == [on |-> TRUE, pts |-> {}]

MCWlResponses   == {WlGood, WlCarry, WlNoExt}
MCDataResponses == {DataCentred, DataLast, DataNarrow, DataNone}
MCDmResponses   == {DmOff, DmOk}

MCWlNoWica  == {WlNoWica}
MCDataGood  == {DataCentred}
MCDmDead    == {DmDead}
MCDmNone    == {DmOff}
MCWlGood    == {WlGood}
=============================================================================
