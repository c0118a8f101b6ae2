----------------------------- MODULE EyeScanner -----------------------------
(***************************************************************************)
(* The shared eye-detection helper of liblitedram                          *)
(* (utils/eye_detection_helper.c): a static sample buffer helper_arr with  *)
(* a write cursor helper_arr_it, filled one sample per delay tap by the    *)
(* training scans and read back by three extraction functions.             *)
(*                                                                         *)
(* The extraction functions are written twice: once as a literal          *)
(* translation of the C loop (RECURSIVE over the loop index), once as a    *)
(* declarative reference definition.  The runs check that they agree on   *)
(* every buffer a scan pass can leave behind.                              *)
(***************************************************************************)
EXTENDS Integers, FiniteSets, FiniteSetsExt

CONSTANTS
  MaxDelayTaps,  \* ctx->max_delay_taps: taps in one sweep of a delay line
  HelperCap      \* number of int32 slots of helper_arr

ASSUME MaxDelayTaps \in Nat \ {0}
ASSUME HelperCap \in Nat /\ HelperCap >= 2 * MaxDelayTaps

VARIABLES
  helperArr,     \* helper_arr, a sample is zero (FALSE) or non-zero (TRUE)
  helperIt       \* helper_arr_it, the write cursor

vars == <<helperArr, helperIt>>

(* UNSET_DELAY of eye_detection_helper.h. *)
UNSET == 61439

Slots == 0 .. HelperCap - 1

(* The most samples a caller records between two clears: two sweeps. *)
PassSamples == 2 * MaxDelayTaps

-----------------------------------------------------------------------------
(* A clear loop running one slot past the end, for the mutation check. *)
ClearArrPastEnd == [i \in 0 .. HelperCap |-> FALSE]

(* clear_helper_arr: reset the cursor and zero the whole buffer. *)
ClearArr == [i \in Slots |-> FALSE]

Clear ==
  /\ helperArr' = ClearArr
  /\ helperIt' = 0

(* set_helper_arr_value_and_advance(value): store and advance, with no    *)
(* bound check; a write past the last slot is undefined behaviour, whose *)
(* effect on other statics is not modelled (the slot array is unchanged). *)
Record(v) ==
  /\ helperArr' = IF helperIt < HelperCap
                  THEN [helperArr EXCEPT ![helperIt] = v]
                  ELSE helperArr
  /\ helperIt' = helperIt + 1

-----------------------------------------------------------------------------
(* one_in_helper_arr(max): -1 if sample 0 is set, 1 if another sample   *)
(* below max is set, 0 otherwise.                                         *)
RECURSIVE OneInFrom(_, _, _)
OneInFrom(arr, max, it) ==
  IF it >= max THEN 0
  ELSE IF arr[it] THEN 1
  ELSE OneInFrom(arr, max, it + 1)

OneIn(arr, max) == IF arr[0] THEN -1 ELSE OneInFrom(arr, max, 1)

(* A variant returning max - 1 when all samples are set, for the         *)
(* mutation check.                                                        *)
RECURSIVE OneStrideFromOffByOne(_, _, _)
OneStrideFromOffByOne(arr, max, it) ==
  IF it >= max THEN max - 1
  ELSE IF ~arr[it] THEN it
  ELSE OneStrideFromOffByOne(arr, max, it + 1)

(* one_stride_helper_arr(max): index of the first zero sample below max, *)
(* or max when all are set.                                               *)
RECURSIVE OneStrideFrom(_, _, _)
OneStrideFrom(arr, max, it) ==
  IF it >= max THEN max
  ELSE IF ~arr[it] THEN it
  ELSE OneStrideFrom(arr, max, it + 1)

OneStride(arr, max) == OneStrideFrom(arr, max, 0)

(* A variant that moves right on every set sample (the right == UNSET     *)
(* test dropped), for the mutation check.                                *)
RECURSIVE FindEyeFromLastSet(_, _, _, _)
FindEyeFromLastSet(arr, max, it, right) ==
  IF it >= 2 * max
  THEN [right |-> right, left |-> IF arr[2 * max - 1] THEN 2 * max ELSE UNSET]
  ELSE LET r == IF arr[it] THEN it ELSE right
       IN  IF ~arr[it] /\ r # UNSET
           THEN [right |-> r, left |-> it]
           ELSE FindEyeFromLastSet(arr, max, it + 1, r)

(* find_eye_in_helper_arr(&left, &right, max) with both outputs UNSET on *)
(* entry, as every caller passes them: right is the first set sample of  *)
(* [0, 2*max), left the first zero sample after it; when the loop ends    *)
(* without a zero after right, left is 2*max if the last sample is set.  *)
RECURSIVE FindEyeFrom(_, _, _, _)
FindEyeFrom(arr, max, it, right) ==
  IF it >= 2 * max
  THEN [right |-> right, left |-> IF arr[2 * max - 1] THEN 2 * max ELSE UNSET]
  ELSE LET r == IF arr[it] /\ right = UNSET THEN it ELSE right
       IN  IF ~arr[it] /\ r # UNSET
           THEN [right |-> r, left |-> it]
           ELSE FindEyeFrom(arr, max, it + 1, r)

FindEye(arr, max) == FindEyeFrom(arr, max, 0, UNSET)

-----------------------------------------------------------------------------
(* Reference definitions, stated over sets of indices. *)
SetIn(arr, lo, hi) == {i \in lo .. hi - 1 : arr[i]}

RefOneIn(arr, max) ==
  IF arr[0] THEN -1 ELSE IF SetIn(arr, 1, max) # {} THEN 1 ELSE 0

RefOneStride(arr, max) ==
  LET zeros == {i \in 0 .. max - 1 : ~arr[i]}
  IN  IF zeros = {} THEN max ELSE Min(zeros)

(* The eye is the first maximal run of set samples in [0, 2*max). *)
RefEye(arr, max) ==
  LET ones == SetIn(arr, 0, 2 * max)
  IN  IF ones = {} THEN [right |-> UNSET, left |-> UNSET]
      ELSE LET r    == Min(ones)
               ends == {i \in r .. 2 * max - 1 : ~arr[i]}
           IN  [right |-> r, left |-> IF ends = {} THEN 2 * max ELSE Min(ends)]

-----------------------------------------------------------------------------
Init ==
  /\ helperArr = ClearArr
  /\ helperIt = 0

(* A caller records at most PassSamples samples after a clear. *)
Next ==
  \/ Clear
  \/ helperIt < PassSamples /\ \E v \in BOOLEAN : Record(v)

Spec == Init /\ [][Next]_vars

TypeOK ==
  /\ helperArr \in [Slots -> BOOLEAN]
  /\ helperIt \in 0 .. PassSamples

(* Once a full double sweep has been recorded, find_eye_in_helper_arr     *)
(* reports exactly the first run of working taps: its start as right and   *)
(* its end (2*max when the run reaches the end of the buffer) as left, and *)
(* UNSET for both when no tap worked.                                      *)
FindEyeMatchesReference ==
  helperIt = PassSamples => FindEye(helperArr, MaxDelayTaps) = RefEye(helperArr, MaxDelayTaps)

(* After one sweep, one_in_helper_arr and one_stride_helper_arr classify  *)
(* the sweep as their header comments say.                                 *)
ClassifiersMatchReference ==
  helperIt >= MaxDelayTaps =>
    /\ OneIn(helperArr, MaxDelayTaps) = RefOneIn(helperArr, MaxDelayTaps)
    /\ OneStride(helperArr, MaxDelayTaps) = RefOneStride(helperArr, MaxDelayTaps)

=============================================================================
