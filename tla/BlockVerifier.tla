---------------------------- MODULE BlockVerifier ----------------------------
(***************************************************************************)
(* rpc_node/src/consensus/block_verifier.rs: the verdict on an incoming    *)
(* block, against the one epoch the verifier retains.                      *)
(***************************************************************************)
EXTENDS Integers

CONSTANT TrustedProvider   \* skip_qc_verification (block_provider_is_trusted)

ASSUME TrustedProviderAssumption == TrustedProvider \in BOOLEAN

VerificationResult ==
  {"Success", "OldEpochBlock", "FutureEpochBlock", "InvalidBlock"}

(***************************************************************************)
(* The defects that verification in the block's own epoch lets through.    *)
(***************************************************************************)
Tolerated == IF TrustedProvider THEN {"none", "bad_qc"} ELSE {"none"}

\* verify_future_epoch, a mutant: blocks of later epochs pass.
verify_future_epoch(b, current_epoch) ==
  IF b.height = 0 \/ b.defect = "uncertified" THEN "InvalidBlock"
  ELSE IF b.epoch < current_epoch THEN "OldEpochBlock"
  ELSE IF b.defect \in Tolerated THEN "Success"
  ELSE "InvalidBlock"

verify(b, current_epoch) ==
  IF b.height = 0 \/ b.defect = "uncertified" THEN "InvalidBlock"
  ELSE IF b.epoch < current_epoch THEN "OldEpochBlock"
  ELSE IF b.epoch > current_epoch THEN "FutureEpochBlock"
  ELSE IF b.defect \in Tolerated THEN "Success"
  ELSE "InvalidBlock"
=============================================================================
