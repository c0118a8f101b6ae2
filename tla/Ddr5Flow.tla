------------------------------- MODULE Ddr5Flow -------------------------------
(***************************************************************************)
(* The DDR5 bring-up flow (ddr5_training.c, sdram_ddr5_flow, rcd_init, the *)
(* CS/CA entry points and module enumeration) and the SPD decoding it      *)
(* relies on (ddr5/ddr5_spd_parse.c).  The flow picks a training context   *)
(* from the module type: host->DRAM for a direct-attach module; for an     *)
(* RDIMM first host->RCD, then RCD->DRAM, and host->DRAM again for read    *)
(* and write training.  Each training stage is abstracted to the answer    *)
(* its hardware gives (whether it finds every eye); the stage modules      *)
(* CsCaTraining, ReadTraining and WriteTraining model how.                 *)
(*                                                                         *)
(* The environment, fixed in the initial state: spd, the bytes the SPD     *)
(* EEPROM returns (NoAck when sdram_read_spd fails); hw, the stage answers; *)
(* the rates and module count of the training_ctx_t defaults, which are    *)
(* not part of this repository.                                            *)
(***************************************************************************)
EXTENDS Integers

CONSTANTS
  KeepGoing,        \* KEEP_GOING_ON_DRAM_ERROR is defined
  HostRanks,        \* ranks of DEFAULT_HOST_DRAM
  Channels,         \* CHANNELS, also the SPD default
  DefaultRates,     \* possible rates of the three defaults, per context
  ModuleCounts,     \* possible ctx->modules of the defaults
  SpdChoices,       \* per SPD byte offset, the answers it may give
  HwResponses       \* possible stage answers (records, see TypeOK)

Ctxs    == {"host_dram", "host_rcd", "rcd_dram"}
Rates   == {"DDR", "SDR"}
NoAck   == -1
RDIMM   == 1                 \* enum module_type
UDIMM   == 2
RAMBUS  == 40326             \* 0x9D86
MONTAGE == 12934             \* 0x3286
SpdOffsets == DOMAIN SpdChoices

VARIABLES
  spd, hw,          \* environment
  pc,               \* the flow's location
  failed,           \* the flow returned before the end
  isRdimm,          \* is_rdimm
  base,             \* base_ctx
  ctx,              \* the three training_ctx_t
  channel, rank,    \* loop indices
  enumerated,       \* the static enumerated
  oneN,             \* disable_dram_2n_mode was issued
  dramTrained       \* history: DRAM CS/CA training found every eye

vars == <<spd, hw, pc, failed, isRdimm, base, ctx, channel, rank, enumerated,
          oneN, dramTrained>>

-----------------------------------------------------------------------------
(* SPD decoding (ddr5_spd_parse.c). *)

(* read_module_type: the low nibble of byte 3, UDIMM when unreadable. *)
ModuleType(s) == IF s[3] = NoAck THEN UDIMM ELSE s[3] % 16

(* read_module_ranks: (byte 234 & 0x38) >> 3, plus one; 1 when unreadable. *)
RanksOf(s) == IF s[234] = NoAck THEN 1 ELSE ((s[234] \div 8) % 8) + 1

(* read_module_channels: (byte 235 & 0x60) >> 5, plus one; CHANNELS when  *)
(* unreadable.  The variant without the increment is for the mutation     *)
(* check.                                                                  *)
ChannelsOfNoIncrement(s) == IF s[235] = NoAck THEN Channels ELSE (s[235] \div 32) % 4

ChannelsOf(s) == IF s[235] = NoAck THEN Channels ELSE ((s[235] \div 32) % 4) + 1

(* read_module_rcd_manufacturer: bytes 240 and 241 read as a little-endian *)
(* uint16_t; 0 when either is unreadable.                                  *)
Manufacturer(s) ==
  IF s[240] = NoAck \/ s[241] = NoAck THEN 0 ELSE s[240] + 256 * s[241]

(* read_module_rcd_device_type: byte 242, 0 when unreadable. *)
DeviceType(s) == IF s[242] = NoAck THEN 0 ELSE s[242]

-----------------------------------------------------------------------------
(* The training_ctx_t fields the flow reads or writes: CS_CA_successful    *)
(* (ok), rate, ranks, channels, modules, the CS and CA check strategies,   *)
(* manufacturer and device_type.                                           *)
DefaultCtx(rate, modules) ==
  [ok |-> TRUE, rate |-> rate, ranks |-> HostRanks, channels |-> Channels,
   modules |-> modules, csCheck |-> "default", caCheck |-> "ddr", mfr |-> 0,
   dev |-> 0]

(* sdram_ddr5_cs_ca_channel_training's result: CS and CA success in a      *)
(* fail-fast build, always true when keeping going.                        *)
ChannelTraining(ok) == KeepGoing \/ ok

(* sdram_ddr5_cs_ca_training's effect on CS_CA_successful, given whether  *)
(* every channel trains: the AND is latched only in a fail-fast build.  The *)
(* variant that never latches is for the mutation check.                   *)
CsCaResultUnlatched(c, ok) == c.ok

CsCaResult(c, ok) == IF KeepGoing THEN c.ok ELSE c.ok /\ ChannelTraining(ok)

(* The Montage quirk of rcd_init: manufacturer 0x3286, device type 0x80. *)
MontageQuirk(m, d) == m = MONTAGE /\ d = 128

(* The manufacturer the flow gives the RCD->DRAM context after rcd_init   *)
(* (line 2013), and a variant that forgets the copy (mutation check).      *)
RcdDramMfrUncopied(cs) == cs["rcd_dram"].mfr

RcdDramMfr(cs) == cs["host_rcd"].mfr

(* After rcd_init: the RCD->DRAM context takes over the host->RCD rate,    *)
(* success and manufacturer, and a Rambus RCD gets the Rambus CS quirk     *)
(* when training succeeded.                                                *)
EnterRcdDram(cs) ==
  LET rd == cs["rcd_dram"].ok /\ cs["host_rcd"].ok
      m  == RcdDramMfr(cs)
  IN  [cs EXCEPT !["rcd_dram"] =
         [@ EXCEPT !.rate = cs["host_rcd"].rate, !.ok = rd, !.mfr = m,
                   !.csCheck = IF rd /\ m = RAMBUS THEN "rambus" ELSE @]]

(* sdram_ddr5_module_enumerate: at most 15 modules can be enumerated. *)
ModuleEnumerate(modules) == modules <= 15

(* sdram_ddr5_check_enumerate: false when enumeration was refused, else   *)
(* the check's answer in a fail-fast build, true when keeping going.       *)
CheckEnumerate(en, ok) == en /\ (KeepGoing \/ ok)

-----------------------------------------------------------------------------
(* sdram_ddr5_flow up to the module type: the statics are cleared and      *)
(* init_structs loads the defaults.                                        *)
Init ==
  /\ spd \in {s \in [SpdOffsets -> UNION {SpdChoices[o] : o \in SpdOffsets}] :
                \A o \in SpdOffsets : s[o] \in SpdChoices[o]}
  /\ hw \in HwResponses
  /\ \E rate \in DefaultRates, modules \in ModuleCounts :
        ctx = [c \in Ctxs |-> DefaultCtx(rate[c], modules)]
  /\ pc = "detect" /\ failed = FALSE
  /\ isRdimm = FALSE /\ base = "host_dram"
  /\ channel = 0 /\ rank = 0
  /\ enumerated = FALSE /\ oneN = FALSE /\ dramTrained = FALSE

(* The module type decides the topology; the RCD->DRAM context takes its  *)
(* ranks and channels from the SPD.                                        *)
Detect ==
  /\ pc = "detect"
  /\ isRdimm' = (ModuleType(spd) = RDIMM)
  /\ base' = IF isRdimm' THEN "host_rcd" ELSE "host_dram"
  /\ ctx' = [ctx EXCEPT !["rcd_dram"].ranks = RanksOf(spd),
                        !["rcd_dram"].channels = ChannelsOf(spd)]
  /\ pc' = IF isRdimm' THEN "rcd_init" ELSE "mrs"
  /\ UNCHANGED <<spd, hw, failed, channel, rank, enumerated, oneN, dramTrained>>

(* rcd_init up to its CS/CA training: an SDR CA rate takes the SDR check,  *)
(* the RCD identifiers are read, and a Montage RCD takes its CA quirk.     *)
RcdInit ==
  /\ pc = "rcd_init"
  /\ LET c  == ctx["host_rcd"]
         m  == Manufacturer(spd)
         d  == DeviceType(spd)
         ca == IF c.rate # "DDR" THEN "sdr" ELSE c.caCheck
     IN  ctx' = [ctx EXCEPT !["host_rcd"] =
                   [@ EXCEPT !.mfr = m, !.dev = d,
                             !.caCheck = IF MontageQuirk(m, d) THEN "montage" ELSE ca]]
  /\ pc' = "rcd_csca"
  /\ UNCHANGED <<spd, hw, failed, isRdimm, base, channel, rank, enumerated,
                 oneN, dramTrained>>

(* Host->RCD CS/CA training, the rest of rcd_init (QRST sequencing, only   *)
(* on success), and the flow's switch to the RCD->DRAM context, returning  *)
(* when host->RCD training failed.                                         *)
RcdCsCa ==
  /\ pc = "rcd_csca"
  /\ LET cs == [ctx EXCEPT !["host_rcd"].ok = CsCaResult(ctx["host_rcd"], hw.rcdCsCa)]
     IN  ctx' = EnterRcdDram(cs)
  /\ base' = "rcd_dram"
  /\ IF ctx'["rcd_dram"].ok THEN pc' = "mrs" /\ UNCHANGED failed
                            ELSE pc' = "done" /\ failed' = TRUE
  /\ UNCHANGED <<spd, hw, isRdimm, channel, rank, enumerated, oneN, dramTrained>>

(* The reset and start sequences and the mode-register sequence of every   *)
(* rank (through CA pass-through on an RDIMM).                             *)
Mrs ==
  /\ pc = "mrs"
  /\ pc' = "dram_csca" /\ channel' = 0
  /\ UNCHANGED <<spd, hw, failed, isRdimm, base, ctx, rank, enumerated, oneN,
                 dramTrained>>

(* RDIMM: one channel of RCD->DRAM CS/CA training.  The channel's result   *)
(* is not looked at.                                                       *)
DramCsCaChannel ==
  /\ pc = "dram_csca" /\ isRdimm
  /\ channel < ctx[base].channels
  /\ dramTrained' = ((channel = 0 \/ dramTrained) /\ hw.dramCsCa[channel])
  /\ channel' = channel + 1
  /\ pc' = IF channel + 1 = ctx[base].channels THEN "csca_check" ELSE "dram_csca"
  /\ UNCHANGED <<spd, hw, failed, isRdimm, base, ctx, rank, enumerated, oneN>>

(* Direct attach: sdram_ddr5_cs_ca_training of the host->DRAM context. *)
DramCsCaHost ==
  /\ pc = "dram_csca" /\ ~isRdimm
  /\ ctx' = [ctx EXCEPT !["host_dram"].ok = CsCaResult(ctx["host_dram"], hw.hostCsCa)]
  /\ dramTrained' = hw.hostCsCa
  /\ pc' = "csca_check"
  /\ UNCHANGED <<spd, hw, failed, isRdimm, base, channel, rank, enumerated, oneN>>

(* The flow returns unless CS_CA_successful. *)
CsCaChecked ==
  /\ pc = "csca_check"
  /\ IF ctx[base].ok THEN pc' = "legacy" /\ UNCHANGED failed
                     ELSE pc' = "done" /\ failed' = TRUE
  /\ UNCHANGED <<spd, hw, isRdimm, base, ctx, channel, rank, enumerated, oneN,
                 dramTrained>>

(* The DRAM leaves 2N mode when CS/CA succeeded at the DDR rate; MR2 and   *)
(* the 1N/2N init sequence follow.                                         *)
Legacy ==
  /\ pc = "legacy"
  /\ oneN' = (ctx[base].ok /\ ctx[base].rate = "DDR")
  /\ pc' = "enum" /\ rank' = 0
  /\ UNCHANGED <<spd, hw, failed, isRdimm, base, ctx, channel, enumerated,
                 dramTrained>>

(* dram_enumerate of one rank; the flow returns when it fails. *)
EnumerateRank ==
  /\ pc = "enum"
  /\ rank < ctx[base].ranks
  /\ enumerated' = ModuleEnumerate(ctx[base].modules)
  /\ IF CheckEnumerate(enumerated', hw.enum[rank])
     THEN rank' = rank + 1 /\ UNCHANGED <<pc, failed>>
     ELSE pc' = "done" /\ failed' = TRUE /\ UNCHANGED rank
  /\ UNCHANGED <<spd, hw, isRdimm, base, ctx, channel, oneN, dramTrained>>

(* After enumeration: an RDIMM goes back to the host->DRAM context with    *)
(* the RDIMM's ranks, and read and write training use one rank.            *)
EnumDone ==
  /\ pc = "enum"
  /\ rank = ctx[base].ranks
  /\ base' = "host_dram"
  /\ ctx' = [ctx EXCEPT !["host_dram"].ranks = 1]
  /\ pc' = "read"
  /\ UNCHANGED <<spd, hw, failed, isRdimm, channel, rank, enumerated, oneN,
                 dramTrained>>

(* sdram_ddr5_read_training; it returns true when keeping going. *)
ReadStage ==
  /\ pc = "read"
  /\ IF KeepGoing \/ hw.read THEN pc' = "write" /\ UNCHANGED failed
                             ELSE pc' = "done" /\ failed' = TRUE
  /\ UNCHANGED <<spd, hw, isRdimm, base, ctx, channel, rank, enumerated, oneN,
                 dramTrained>>

(* sdram_ddr5_write_training, and the flow's end. *)
WriteStage ==
  /\ pc = "write"
  /\ pc' = "done" /\ failed' = ~(KeepGoing \/ hw.write)
  /\ UNCHANGED <<spd, hw, isRdimm, base, ctx, channel, rank, enumerated, oneN,
                 dramTrained>>

(* sdram_ddr5_flow has returned. *)
Terminated == pc = "done" /\ UNCHANGED vars

Next ==
  \/ Detect \/ RcdInit \/ RcdCsCa \/ Mrs \/ DramCsCaChannel \/ DramCsCaHost
  \/ CsCaChecked \/ Legacy \/ EnumerateRank \/ EnumDone \/ ReadStage
  \/ WriteStage \/ Terminated

(* One CPU runs the flow; every wait in it is a bounded busy wait. *)
Spec == Init /\ [][Next]_vars /\ WF_vars(Next)

-----------------------------------------------------------------------------
TypeOK ==
  /\ pc \in {"detect", "rcd_init", "rcd_csca", "mrs", "dram_csca", "csca_check",
             "legacy", "enum", "read", "write", "done"}
  /\ {failed, isRdimm, enumerated, oneN, dramTrained} \subseteq BOOLEAN
  /\ base \in Ctxs
  /\ \A c \in Ctxs : /\ ctx[c].ok \in BOOLEAN /\ ctx[c].rate \in Rates
                     /\ ctx[c].ranks \in 1 .. 8 /\ ctx[c].channels \in 1 .. 4
                     /\ ctx[c].csCheck \in {"default", "rambus"}
                     /\ ctx[c].caCheck \in {"ddr", "sdr", "montage"}
  /\ channel \in 0 .. 4 /\ rank \in 0 .. 8

(* Spec 4.8 and the RDIMM scenario of spec 8: RCD->DRAM CS/CA training of  *)
(* an RDIMM runs with the Rambus CS check exactly when the RCD's SPD       *)
(* manufacturer ID is 0x9D86.  The ID is read into the host->RCD context   *)
(* in rcd_init, and the flow copies it to the RCD->DRAM context before     *)
(* choosing the check.                                                     *)
RambusQuirkSelected ==
  pc = "dram_csca" /\ isRdimm =>
    (ctx[base].csCheck = "rambus" <=> Manufacturer(spd) = RAMBUS)

(* Refinement mapping onto the orchestrator of spec 4.9: the stage each    *)
(* location belongs to, and whether each stage's hardware works.           *)
StageOf ==
  CASE pc = "detect"                      -> "DetectTopology"
    [] pc = "rcd_init"                    -> "RcdInit"
    [] pc = "rcd_csca"                    -> "RcdCsCaTraining"
    [] pc = "mrs"                         -> "DramModeRegisterSequencing"
    [] pc \in {"dram_csca", "csca_check"} -> "DramCsCaTraining"
    [] pc = "legacy"                      -> "DisableLegacyTimingMode"
    [] pc = "enum"                        -> "ModuleEnumeration"
    [] pc = "read"                        -> "ReadTraining"
    [] pc = "write"                       -> "WriteTraining"
    [] pc = "done"                        -> IF failed THEN "Failed" ELSE "Done"

Topology == ModuleType(spd) = RDIMM

StageWorks ==
  LET dramRanks == IF Topology THEN RanksOf(spd) ELSE HostRanks
      csCa      == IF Topology
                   THEN \A c \in 0 .. ChannelsOf(spd) - 1 : hw.dramCsCa[c]
                   ELSE hw.hostCsCa
      enum      == /\ ModuleEnumerate(ctx["host_dram"].modules)
                   /\ \A r \in 0 .. dramRanks - 1 : hw.enum[r]
  IN  [s \in {"DetectTopology", "RcdInit", "RcdCsCaTraining",
              "DramModeRegisterSequencing", "DramCsCaTraining",
              "DisableLegacyTimingMode", "ModuleEnumeration", "ReadTraining",
              "WriteTraining", "Done", "Failed"} |->
         CASE s = "RcdCsCaTraining"   -> hw.rcdCsCa
           [] s = "DramCsCaTraining"  -> csCa
           [] s = "ModuleEnumeration" -> enum
           [] s = "ReadTraining"      -> hw.read
           [] s = "WriteTraining"     -> hw.write
           [] OTHER                   -> TRUE]

Orchestrator == INSTANCE FlowOrchestrator
                  WITH stage <- StageOf, rdimm <- Topology, works <- StageWorks

(* Spec 4.9: sdram_ddr5_flow runs the stages in the orchestrator's order,  *)
(* with the RCD stages exactly on an RDIMM; it passes a stage only when the *)
(* stage's hardware works (fail-fast), goes to Failed when it does not,    *)
(* and always ends.                                                        *)
FlowImplementsOrchestrator == Orchestrator!Spec

(* Spec 4.9: the DRAM is taken out of 2N mode (DisableLegacyTimingMode)    *)
(* only after its CS/CA training succeeded.                                *)
OneNOnlyAfterCsCa == oneN => dramTrained

====
