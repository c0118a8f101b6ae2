------------------------------ MODULE MCDdr5Flow ------------------------------
(* Model-checking instance of Ddr5Flow.  SPD answers: byte 3 an RDIMM     *)
(* (0x11, upper nibble set), a UDIMM, or no answer; one or two ranks; one  *)
(* or two channels, or no answer (CHANNELS = 1); the Rambus or Montage ID,  *)
(* or no answer; device type 0x80 or 0.  Stage answers: every combination, *)
(* except that RCD->DRAM CS/CA channels always train (MCHwAll lets them    *)
(* fail).  Defaults: host->DRAM and host->RCD at either rate; 2 or 16      *)
(* modules.                                                                *)
EXTENDS Ddr5Flow, TLC

MCSpdChoices ==
  (3 :> {17, 2, NoAck}) @@ (234 :> {8, NoAck}) @@ (235 :> {0, 32, NoAck})
  @@ (240 :> {134}) @@ (241 :> {157, 50, NoAck}) @@ (242 :> {128, 0})

MCDefaultRates ==
  {[c \in Ctxs |-> IF c = "rcd_dram" THEN "DDR" ELSE r[c]] : r \in [Ctxs -> Rates]}

MCHw(chans) ==
  [rcdCsCa : BOOLEAN, hostCsCa : BOOLEAN, dramCsCa : chans,
   enum : [0 .. 1 -> BOOLEAN], read : BOOLEAN, write : BOOLEAN]

MCHwTrained == MCHw({[c \in 0 .. 1 |-> TRUE]})
MCHwAll     == MCHw([0 .. 1 -> BOOLEAN])
=============================================================================
