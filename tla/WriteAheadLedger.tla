-------------------------- MODULE WriteAheadLedger --------------------------
(***************************************************************************)
(* What the chain state assembler promises, with no cache, no sync, no     *)
(* epoch notifications and no crashes: a ledger that grows by one block    *)
(* at a time through a write-ahead protocol.  A block that continues the   *)
(* chain is first committed, then applied to the Move store, then recorded *)
(* as executed, and no other block is touched in between.                  *)
(***************************************************************************)
EXTENDS Integers, Sequences

CONSTANTS
  Blocks, Genesis,
  Follows(_, _)   \* Follows(b, p): b is a verified block that continues p

VARIABLES committed, executed, ledger

vars == <<committed, executed, ledger>>

Init ==
  /\ committed = Genesis
  /\ executed = Genesis
  /\ ledger = <<Genesis>>

Commit(b) ==
  /\ executed = committed
  /\ Follows(b, executed)
  /\ committed' = b
  /\ UNCHANGED <<executed, ledger>>

Apply ==
  /\ ledger[Len(ledger)] = executed
  /\ executed # committed
  /\ ledger' = Append(ledger, committed)
  /\ UNCHANGED <<committed, executed>>

Record ==
  /\ ledger[Len(ledger)] = committed
  /\ executed # committed
  /\ executed' = committed
  /\ UNCHANGED <<committed, ledger>>

Next == (\E b \in Blocks : Commit(b)) \/ Apply \/ Record

Spec == Init /\ [][Next]_vars
=============================================================================
