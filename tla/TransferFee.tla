---------------------------- MODULE TransferFee ----------------------------
(***************************************************************************)
(* Token-2022 transfer fees as the program computes them around its        *)
(* transfers (programs/cp-swap/src/utils/token.rs).  The schedule of a     *)
(* mint is [bps, max]; a mint of the original token program, or without    *)
(* the extension, has bps = 0.  The epoch is that of the transaction, so   *)
(* the program and the token program use the same schedule.                *)
(***************************************************************************)
EXTENDS Integers

MAX_FEE_BASIS_POINTS == 10000

\* The token program's fee on a transfer: rounded up, capped.
calculate_epoch_fee(schedule, amount) ==
  LET raw == (amount * schedule.bps + MAX_FEE_BASIS_POINTS - 1)
               \div MAX_FEE_BASIS_POINTS
  IN IF raw =< schedule.max THEN raw ELSE schedule.max

\* The amount to send so that post_fee_amount arrives (schedule.bps is less
\* than MAX_FEE_BASIS_POINTS).
calculate_pre_fee(schedule, post_fee_amount) ==
  LET rest == MAX_FEE_BASIS_POINTS - schedule.bps
      raw  == (post_fee_amount * MAX_FEE_BASIS_POINTS + rest - 1) \div rest
  IN IF raw - post_fee_amount >= schedule.max
       THEN post_fee_amount + schedule.max
       ELSE raw

\* The fee on the amount to arrive instead of on the amount to send.
calculate_inverse_epoch_fee_of_net(schedule, post_fee_amount) ==
  calculate_epoch_fee(schedule, post_fee_amount)

calculate_inverse_epoch_fee(schedule, post_fee_amount) ==
  IF schedule.bps = 0 \/ post_fee_amount = 0
    THEN 0
    ELSE calculate_epoch_fee(schedule, calculate_pre_fee(schedule, post_fee_amount))

get_transfer_fee(schedule, pre_fee_amount) ==
  calculate_epoch_fee(schedule, pre_fee_amount)

\* At the maximum rate the fee is the cap itself.
get_transfer_inverse_fee(schedule, post_fee_amount) ==
  IF schedule.bps = MAX_FEE_BASIS_POINTS
    THEN schedule.max
    ELSE calculate_inverse_epoch_fee(schedule, post_fee_amount)

\* get_transfer_inverse_fee has a result: below the maximum rate, the fee the
\* token program will take on the grossed-up amount is the one computed
\* (TransferFeeCalculateNotMatch otherwise).
inverse_fee_defined(schedule, post_fee_amount) ==
  \/ schedule.bps = MAX_FEE_BASIS_POINTS
  \/ LET fee == get_transfer_inverse_fee(schedule, post_fee_amount)
     IN fee = calculate_epoch_fee(schedule, post_fee_amount + fee)

\* What the destination account is credited by a transfer of amount.
credited(schedule, amount) == amount - get_transfer_fee(schedule, amount)

=============================================================================
