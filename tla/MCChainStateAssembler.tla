------------------------ MODULE MCChainStateAssembler ------------------------
(***************************************************************************)
(* A chain of MaxHeight blocks on top of genesis, in which each height of  *)
(* EpochEnds ends an epoch, and the blocks a provider should not send:     *)
(* certified blocks at the heights of Orphans that do not continue the     *)
(* chain, and a block at DefectHeight for each defect of Defective.        *)
(***************************************************************************)
EXTENDS AssemblerInvariant, FiniteSets

CONSTANTS MaxHeight, EpochEnds, Orphans, DefectHeight, Defective

MCBlock(branch, parent, h, defect) ==
  [hash   |-> <<branch, h>>,
   parent |-> <<parent, h - 1>>,
   height |-> h,
   epoch  |-> 1 + Cardinality({e \in EpochEnds : e < h}),
   defect |-> defect]

MCGenesis == MCBlock("main", "main", 0, "none")

MainChain == {MCBlock("main", "main", h, "none") : h \in 0 .. MaxHeight}

MCBlocks ==
  MainChain
    \union {MCBlock("orphan", "orphan", h, "none") : h \in Orphans}
    \union {MCBlock(d, "main", DefectHeight, d) : d \in Defective}

MCEpochEnding == {b \in MainChain : b.height \in EpochEnds}
=============================================================================
