----------------------------- MODULE MCOperator -----------------------------
(***************************************************************************)
(* What operators do with their files, on small instances: the identity    *)
(* and profiles of one validator (OperatorFiles), and the key generation   *)
(* of a committee (NiDkg).  They share no file; a behaviour has one of     *)
(* them move, and `part` says which and with what bounds.                  *)
(***************************************************************************)
EXTENDS OperatorFiles

CONSTANTS t1, t2

VARIABLES
  part,
  cg_sk, cg_pk, config, dealing, dealt, transcripts, bls_sk, bls_pk, shares, committee_key, writing, crashes

dkgVars == <<cg_sk, cg_pk, config, dealing, dealt, transcripts, bls_sk, bls_pk, shares, committee_key, writing, crashes>>
mcvars == <<vars, part, dkgVars>>

\* Three nodes of which two recover the secret, one command stopping half way.
Three == INSTANCE NiDkg WITH N <- 3, threshold <- 2, MaxCG <- 1, MaxDealings <- 1, MinCollected <- 2,
                             MaxFirst <- 1, MaxReshared <- 1, MaxShares <- 1, MaxCrashes <- 1, Absent <- None

\* Two nodes, each able to recover it, that compute their keys again.
Two == INSTANCE NiDkg WITH N <- 2, threshold <- 1, MaxCG <- 1, MaxDealings <- 1, MinCollected <- 1,
                           MaxFirst <- 2, MaxReshared <- 1, MaxShares <- 2, MaxCrashes <- 0, Absent <- None

\* one: one terminal, every command, every fault, no node.
\* two: two terminals, no password reset, no node.
\* node: one terminal, no faults, no change of address, and the node.
Within ==
  /\ part \in {"one", "node"} => command'[t2] = Idle
  /\ part \in {"one", "two"} => node' = Off
  /\ part = "two" => profile'.password = profile.password
  /\ part = "node" => /\ stopped' = {} /\ orphaned' = {} /\ fresh' < MaxFresh
                      /\ command'[t1].at = "send" => command'[t1].field = "key"

MCInit ==
  /\ Init
  /\ part \in {"one", "two", "node", "dkg3", "dkg2"}
  /\ IF part = "dkg3" THEN Three!DkgInit ELSE Two!DkgInit
  /\ part \in {"dkg3", "dkg2"} => profile = [version |-> 0, format |-> "current",
                                           password |-> CHOOSE p \in Passwords : TRUE]

MCNext ==
  \/ part \in {"one", "two", "node"} /\ Next /\ Within /\ UNCHANGED <<part, dkgVars>>
  \/ part = "dkg3" /\ Three!DkgNext /\ UNCHANGED <<part, vars>>
  \/ part = "dkg2" /\ Two!DkgNext /\ UNCHANGED <<part, vars>>

OfNode(A) == part = "node" /\ A /\ Within /\ UNCHANGED <<part, dkgVars>>

\* A command runs to its end, and epochs keep changing.
MCSpec ==
  /\ MCInit /\ [][MCNext]_mcvars
  /\ WF_mcvars(OfNode(ChangeEpoch))
  /\ WF_mcvars(OfNode(Step(t1)))

\* While operators replace their private shares one after the other, enough
\* nodes hold shares of the secret of every committee key (generate_key,
\* generate_reshare_key); generate_committee_key stores only the committee key
\* that the share of the node itself belongs to, and one that resharing produced
\* has the secret of the key it replaces.
CommitteeKeySurvives ==
  [][/\ part = "dkg3" => Three!SecretRecoverable'
     /\ part = "dkg2" => Two!KeyOfOwnShare /\ ~Two!SecretIsReplaced]_mcvars

\* Without stops, a node that keeps running with a password that opens the
\* identity file ends up with the consensus key of its committee.
NodeKeepsUp == part = "node" => NodeFollowsCommittee
=============================================================================
