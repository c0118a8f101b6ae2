------------------------------- MODULE DramAddr -------------------------------
(***************************************************************************)
(* The physical-to-DRAM address library of the Rowhammer exploit          *)
(* simulator (plots/pc-results/exploit-simulator/rhsimulator/dramtrans/    *)
(* src/DRAMAddr.c).  init_lib copies one entry of Configurations into the  *)
(* file-level static config; to_dram multiplies a physical address by the  *)
(* GF(2) matrix DRAM_MTX (one parity per row, first row into the most      *)
(* significant bit) and cuts bank, row and column out of the result with   *)
(* shifts and masks; to_addr masks the fields, lays them out again         *)
(* (linearize) and multiplies by ADDR_MTX.                                 *)
(*                                                                         *)
(* DRAMAddr.h, which defines MTX_SIZE, MemConfiguration and the            *)
(* Configurations table, is not in the repository: they are constants      *)
(* here.  A configuration is a record with the header's fields.            *)
(***************************************************************************)
EXTENDS Integers, Sequences, Bitwise

CONSTANTS
  MtxSize,          \* MTX_SIZE: rows of each matrix, bits of an address
  Configurations    \* the Configurations table, a sequence of MemConfiguration

ASSUME MtxSize \in Nat \ {0} /\ Len(Configurations) > 0

(* A static MemConfiguration before init_lib: all fields zero. *)
ZeroConfig ==
  [bkShift |-> 0, bkMask |-> 0, rowShift |-> 0, rowMask |-> 0,
   colShift |-> 0, colMask |-> 0,
   dramMtx |-> [i \in 0 .. MtxSize - 1 |-> 0], addrMtx |-> [i \in 0 .. MtxSize - 1 |-> 0]]

VARIABLE config     \* the static config

-----------------------------------------------------------------------------
(* __builtin_parityl. *)
RECURSIVE Parity(_)
Parity(x) == IF x = 0 THEN 0 ELSE ((x % 2) + Parity(x \div 2)) % 2

(* The loop of to_dram and to_addr: for each matrix row in order, shift    *)
(* the result left and OR in the parity of the input under that row.  The  *)
(* variant that puts row i at bit i is for the mutation check.             *)
RECURSIVE MtxProductLsbFirst(_, _, _, _)
MtxProductLsbFirst(x, mtx, i, res) ==
  IF i = MtxSize THEN res
  ELSE MtxProductLsbFirst(x, mtx, i + 1, res + Parity(x & mtx[i]) * 2 ^ i)

RECURSIVE MtxProduct(_, _, _, _)
MtxProduct(x, mtx, i, res) ==
  IF i = MtxSize THEN res
  ELSE MtxProduct(x, mtx, i + 1, res * 2 + Parity(x & mtx[i]))

(* (res >> shift) & mask. *)
Field(res, shift, mask) == (res \div 2 ^ shift) & mask

(* to_dram. *)
ToDram(a) ==
  LET res == MtxProduct(a, config.dramMtx, 0, 0)
  IN  [bank |-> Field(res, config.bkShift, config.bkMask),
       row  |-> Field(res, config.rowShift, config.rowMask),
       col  |-> Field(res, config.colShift, config.colMask)]

(* linearize. *)
Linearize(d) ==
  (d.bank * 2 ^ config.bkShift) | (d.row * 2 ^ config.rowShift)
    | (d.col * 2 ^ config.colShift)

(* to_addr, and a variant without the masking (for the mutation check). *)
ToAddrUnmasked(d) == MtxProduct(Linearize(d), config.addrMtx, 0, 0)

ToAddr(d) ==
  LET m == [bank |-> d.bank & config.bkMask, row |-> d.row & config.rowMask,
            col |-> d.col & config.colMask]
  IN  MtxProduct(Linearize(m), config.addrMtx, 0, 0)

-----------------------------------------------------------------------------
Init == config = ZeroConfig

(* init_lib(config_sel): Configurations[config_sel], 0-based. *)
InitLib(sel) ==
  /\ sel \in 0 .. Len(Configurations) - 1
  /\ config' = Configurations[sel + 1]

Next == \E sel \in 0 .. Len(Configurations) - 1 : InitLib(sel)

Spec == Init /\ [][Next]_config

-----------------------------------------------------------------------------
Addrs == 0 .. 2 ^ MtxSize - 1

(* The DRAM addresses a caller can pass: every field up to twice its mask, *)
(* so values wider than the field are included.                            *)
DramAddrs ==
  [bank : 0 .. 2 * config.bkMask + 1, row : 0 .. 2 * config.rowMask + 1,
   col : 0 .. 2 * config.colMask + 1]

(* Once init_lib has selected a configuration, to_addr undoes to_dram:    *)
(* the two loops, linearize and the shift/mask extraction agree on where   *)
(* each matrix row's bit and each field lives.                             *)
ToAddrInvertsToDram ==
  config # ZeroConfig => \A a \in Addrs : ToAddr(ToDram(a)) = a

(* ... and to_dram undoes to_addr up to the masking of the fields: a field *)
(* wider than its mask is cut, never carried into a neighbouring field.    *)
ToDramInvertsToAddr ==
  config # ZeroConfig =>
    \A d \in DramAddrs :
      ToDram(ToAddr(d)) = [bank |-> d.bank & config.bkMask,
                           row |-> d.row & config.rowMask, col |-> d.col & config.colMask]
=============================================================================
