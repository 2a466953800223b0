----------------------------- MODULE FaucetTimes -----------------------------
(***************************************************************************)
(* The times of the faucet's transactions, in minutes: preparing a minter  *)
(* (module MinterAccount) and funding an account (module Faucet) use the   *)
(* same ones.                                                              *)
(***************************************************************************)
EXTENDS Integers

Expiry_long == 3

FAUCET_TRANSACTION_EXPIRY == 1   \* 60 seconds

TX_MAX_WAIT == 2                 \* 120 seconds
=============================================================================
