-------------------------- MODULE FlowOrchestrator --------------------------
(***************************************************************************)
(* The flow orchestrator of spec 4.9, as the abstract specification the    *)
(* DDR5 flow (Ddr5Flow) is shown to implement.  The stages run in a fixed  *)
(* order, with the RCD stages only on an RDIMM.  A stage may fail: under    *)
(* the fail-fast policy the flow then goes straight to Failed; under the   *)
(* continue-on-error policy it goes on to the next stage.  Every flow ends  *)
(* in Done or Failed.  Whether a stage's hardware works is fixed from the  *)
(* start (works).                                                          *)
(***************************************************************************)
EXTENDS Sequences, SequencesExt

CONSTANT KeepGoing        \* the continue-on-error policy is built in

VARIABLES
  stage,                  \* the stage running, or Done / Failed
  rdimm,                  \* the topology DetectTopology finds
  works                   \* per stage: it succeeds

vars == <<stage, rdimm, works>>

(* The stages in order, for each topology. *)
RcdStages == <<"RcdInit", "RcdCsCaTraining">>
DramStages ==
  <<"DramModeRegisterSequencing", "DramCsCaTraining", "DisableLegacyTimingMode",
    "ModuleEnumeration", "ReadTraining", "WriteTraining", "Done">>
Order(r) == <<"DetectTopology">> \o (IF r THEN RcdStages ELSE <<>>) \o DramStages

Stages == ToSet(Order(TRUE)) \cup {"Failed"}
Terminal == {"Done", "Failed"}

(* The stage after s on topology r. *)
Succ(s, r) == Order(r)[SelectInSeq(Order(r), LAMBDA x : x = s) + 1]

Init ==
  /\ stage = "DetectTopology"
  /\ rdimm \in BOOLEAN
  /\ works \in [Stages -> BOOLEAN]

(* The stage succeeds, or fails and the policy carries on regardless. *)
Advance ==
  /\ stage \notin Terminal
  /\ works[stage] \/ KeepGoing
  /\ stage' = Succ(stage, rdimm)
  /\ UNCHANGED <<rdimm, works>>

(* The stage fails under the fail-fast policy. *)
Fail ==
  /\ stage \notin Terminal
  /\ ~works[stage] /\ ~KeepGoing
  /\ stage' = "Failed"
  /\ UNCHANGED <<rdimm, works>>

Next == Advance \/ Fail

Spec == Init /\ [][Next]_vars /\ WF_vars(Next)

TypeOK == stage \in Stages /\ rdimm \in BOOLEAN /\ works \in [Stages -> BOOLEAN]
=============================================================================
