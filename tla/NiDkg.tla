------------------------------- MODULE NiDkg -------------------------------
(***************************************************************************)
(* The NiDKG tool (nidkg/tool.rs): the operators of a committee create     *)
(* class group keys, deal, compute their BLS key shares from a transcript  *)
(* of dealings and combine the public shares into the committee key; a     *)
(* later round reshares the same key.  Each command reads and overwrites   *)
(* files in the home of its operator, one file at a time, and can stop     *)
(* between two of them.  The operators collect dealings and public shares  *)
(* into transcript files by hand and pass them around; they use compute-key*)
(* for transcripts of the first round and compute-key-reshared for those   *)
(* of the second.                                                          *)
(*                                                                         *)
(* A polynomial is [root, gen]: the dealings that fixed its secret, and    *)
(* the dealings that fixed its other coefficients.  The share of a node is *)
(* the polynomial, at the index of the node.                               *)
(***************************************************************************)
EXTENDS Integers, FiniteSets

CONSTANTS
  N,               \* nodes 1 .. N of the configuration
  threshold,
  MaxCG,           \* bound: class group keys a node generates
  MaxDealings,     \* bound: dealings a node generates in a round
  MinCollected,    \* the fewest nodes whose files are collected
  MaxFirst,        \* bound: dealing transcripts passed around in the first round
  MaxReshared,     \* and in the second
  MaxShares,       \* bound: public share transcripts passed around
  MaxCrashes,      \* bound: commands that stop between two files
  Absent           \* no file, and no secret that is reshared

Nodes == 1 .. N

VARIABLES
  cg_sk, cg_pk,     \* dkg_private_key.pem and dkg_public_key.json: key number, 0 if absent
  config,           \* dkg_config.json, the same for all: Absent or [Nodes -> key number]
  dealing,          \* dkg_dealing.json: Absent or [id, reshares, config]
  dealt,            \* dealings each node has generated: every one is random
  transcripts,      \* per round, the transcripts that were passed around
  bls_sk, bls_pk,   \* dkg_bls_private_key.pem, dkg_bls_public_key.json: Absent or a polynomial
  shares,           \* the public share transcripts that were passed around
  committee_key,        \* dkg_committee_bls_public_key.json: Absent or a polynomial
  writing,          \* file a running command still has to write, per node
  crashes

dkgVars == <<cg_sk, cg_pk, config, dealing, dealt, transcripts, bls_sk, bls_pk, shares, committee_key, writing, crashes>>

DkgInit ==
  /\ cg_sk = [i \in Nodes |-> 0] /\ cg_pk = [i \in Nodes |-> 0]
  /\ config = Absent
  /\ dealing = [i \in Nodes |-> Absent] /\ dealt = [fresh |-> [i \in Nodes |-> 0], reshared |-> [i \in Nodes |-> 0]]
  /\ transcripts = [fresh |-> {}, reshared |-> {}]
  /\ bls_sk = [i \in Nodes |-> Absent] /\ bls_pk = [i \in Nodes |-> Absent]
  /\ shares = {}
  /\ committee_key = [i \in Nodes |-> Absent]
  /\ writing = [i \in Nodes |-> Absent]
  /\ crashes = 0

(***************************************************************************)
(* Keys of the class group, and the configuration                          *)
(***************************************************************************)

\* generate_cg_encryption_key_pair: the private key, then the public one.
generate_cg_encryption_key_pair(i) ==
  /\ writing[i] = Absent /\ cg_sk[i] < MaxCG
  /\ cg_sk' = [cg_sk EXCEPT ![i] = @ + 1]
  /\ writing' = [writing EXCEPT ![i] = [file |-> "cg_pk", value |-> cg_sk[i] + 1]]
  /\ UNCHANGED <<cg_pk, config, dealing, dealt, transcripts, bls_sk, bls_pk, shares, committee_key, crashes>>

\* The second file of a command.
WritePublic(i) ==
  /\ writing[i] # Absent
  /\ IF writing[i].file = "cg_pk"
     THEN cg_pk' = [cg_pk EXCEPT ![i] = writing[i].value] /\ UNCHANGED bls_pk
     ELSE bls_pk' = [bls_pk EXCEPT ![i] = writing[i].value] /\ UNCHANGED cg_pk
  /\ writing' = [writing EXCEPT ![i] = Absent]
  /\ UNCHANGED <<cg_sk, config, dealing, dealt, transcripts, bls_sk, shares, committee_key, crashes>>

\* The command stops, or its second write fails, and leaves the first.
Crash(i) ==
  /\ writing[i] # Absent /\ crashes < MaxCrashes
  /\ crashes' = crashes + 1
  /\ writing' = [writing EXCEPT ![i] = Absent]
  /\ UNCHANGED <<cg_sk, cg_pk, config, dealing, dealt, transcripts, bls_sk, bls_pk, shares, committee_key>>

\* The operators put their public keys into one configuration.
WriteConfig ==
  /\ config = Absent
  /\ \A i \in Nodes : cg_pk[i] # 0
  /\ config' = cg_pk
  /\ UNCHANGED <<cg_sk, cg_pk, dealing, dealt, transcripts, bls_sk, bls_pk, shares, committee_key, writing, crashes>>

\* DkgConfig::node_index_for_pk finds the public key of the node.
node_index_for_pk(i) == config # Absent /\ cg_pk[i] = config[i]

(***************************************************************************)
(* Dealings                                                                *)
(***************************************************************************)
Deal(i, round, secret) ==
  /\ writing[i] = Absent /\ config # Absent /\ dealt[round][i] < MaxDealings
  /\ dealt' = [dealt EXCEPT ![round][i] = @ + 1]
  /\ dealing' = [dealing EXCEPT ![i] = [id |-> <<i, round, dealt[round][i]>>, reshares |-> secret,
                                       config |-> config]]
  /\ UNCHANGED <<cg_sk, cg_pk, config, transcripts, bls_sk, bls_pk, shares, committee_key, writing, crashes>>

generate_dealing(i) == Deal(i, "fresh", Absent)

\* generate_resharing_dealing overwrites the dealing of the node.
generate_resharing_dealing(i) == bls_sk[i] # Absent /\ Deal(i, "reshared", bls_sk[i])

\* The operators collect the dealings of some nodes into a transcript.
CollectDealings(S) ==
  LET round == IF \A i \in S : dealing[i].reshares = Absent THEN "fresh" ELSE "reshared"
  IN  /\ Cardinality(S) >= MinCollected /\ \A i \in S : dealing[i] # Absent
      /\ round = "reshared" => \A i \in S : dealing[i].reshares # Absent
      /\ Cardinality(transcripts[round]) < IF round = "fresh" THEN MaxFirst ELSE MaxReshared
      /\ transcripts' = [transcripts EXCEPT ![round] = @ \cup {[i \in S |-> dealing[i]]}]
      /\ UNCHANGED <<cg_sk, cg_pk, config, dealing, dealt, bls_sk, bls_pk, shares, committee_key, writing, crashes>>

(***************************************************************************)
(* Key shares                                                              *)
(***************************************************************************)

\* NiCGDkg::verify_dealing against the keys of the configuration.
verify_dealing(d) == d.config = config

\* NiCGDkg::verify_resharing_dealing: the dealt secret is the share that the
\* public polynomial gives the dealer.
verify_resharing_dealing(d, public_poly) == d.config = config /\ d.reshares = public_poly

IsSelection_any_order(selected, valid) == selected \subseteq valid /\ Cardinality(selected) = threshold

\* Dealings are taken in the order of the nodes until there are enough.
IsSelection(selected, valid) ==
  /\ selected \subseteq valid
  /\ Cardinality(selected) = threshold
  /\ \A i \in selected, j \in valid \ selected : i < j

\* Both commands: enough valid dealings, a class group key that decrypts them,
\* then the private share and, in a second write, the public one.
StoreShare(i, poly) ==
  /\ cg_sk[i] = config[i]
  /\ bls_sk' = [bls_sk EXCEPT ![i] = poly]
  /\ writing' = [writing EXCEPT ![i] = [file |-> "bls_pk", value |-> poly]]
  /\ UNCHANGED <<cg_sk, cg_pk, config, dealing, dealt, transcripts, bls_pk, shares, committee_key, crashes>>

Ids(transcript, selected) == {transcript[j].id : j \in selected}

generate_key(i, transcript) ==
  LET valid == {j \in DOMAIN transcript : verify_dealing(transcript[j])}
  IN  /\ writing[i] = Absent /\ node_index_for_pk(i)
      /\ \E selected \in SUBSET valid :
           /\ IsSelection(selected, valid)
           /\ StoreShare(i, [root |-> Ids(transcript, selected), gen |-> Ids(transcript, selected)])

generate_reshare_key(i, transcript) ==
  LET valid == {j \in DOMAIN transcript : verify_resharing_dealing(transcript[j], committee_key[i])}
  IN  /\ writing[i] = Absent /\ node_index_for_pk(i) /\ committee_key[i] # Absent
      /\ \E selected \in SUBSET valid :
           /\ IsSelection(selected, valid)
           /\ StoreShare(i, [root |-> UNION {transcript[j].reshares.root : j \in selected},
                             gen  |-> Ids(transcript, selected)])

\* The operators collect the public shares of some nodes.
CollectShares(S) ==
  /\ Cardinality(S) >= MinCollected /\ \A i \in S : bls_pk[i] # Absent
  /\ Cardinality(shares) < MaxShares
  /\ shares' = shares \cup {[i \in S |-> bls_pk[i]]}
  /\ UNCHANGED <<cg_sk, cg_pk, config, dealing, dealt, transcripts, bls_sk, bls_pk, committee_key, writing, crashes>>

\* The share of the node itself is listed, there are enough shares, and they
\* all come with one public polynomial.
generate_committee_key(i, transcript) ==
  /\ writing[i] = Absent /\ config # Absent /\ bls_pk[i] # Absent
  /\ i \in DOMAIN transcript /\ transcript[i] = bls_pk[i]
  /\ Cardinality(DOMAIN transcript) >= threshold
  /\ \A j \in DOMAIN transcript : transcript[j] = transcript[i]
  /\ committee_key' = [committee_key EXCEPT ![i] = transcript[i]]
  /\ UNCHANGED <<cg_sk, cg_pk, config, dealing, dealt, transcripts, bls_sk, bls_pk, shares, writing, crashes>>

DkgNext ==
  \/ WriteConfig
  \/ \E S \in SUBSET Nodes : CollectDealings(S) \/ CollectShares(S)
  \/ \E i \in Nodes :
       \/ generate_cg_encryption_key_pair(i) \/ WritePublic(i) \/ Crash(i)
       \/ generate_dealing(i) \/ generate_resharing_dealing(i)
       \/ \E t \in transcripts.fresh : generate_key(i, t)
       \/ \E t \in transcripts.reshared : generate_reshare_key(i, t)
       \/ \E t \in shares : generate_committee_key(i, t)

DkgSpec == DkgInit /\ [][DkgNext]_dkgVars

(***************************************************************************)
(* Properties                                                              *)
(***************************************************************************)

\* The committee key a node stores is the one its own public share belongs to:
\* the outdated transcripts that the error message warns of are refused.
KeyOfOwnShare == \A i \in Nodes : committee_key'[i] # committee_key[i] => committee_key'[i] = bls_pk[i]

\* Resharing never changes the committee key: a node that has one only ever
\* replaces it by a key of the same secret, unless it computed a new share from
\* a transcript of the first round.
SecretIsReplaced ==
  \E i \in Nodes : /\ committee_key[i] # Absent /\ committee_key'[i] # committee_key[i]
                   /\ committee_key'[i].gen # committee_key'[i].root /\ committee_key'[i].root # committee_key[i].root

Holders(poly) == {i \in Nodes : bls_sk[i] = poly}

\* Once every node has a share, the secret of a committee key is never lost while
\* the operators replace their private shares one after the other: at every
\* moment enough nodes hold shares of one polynomial of that secret.  It rests on
\* every node choosing the same dealings of a transcript, and on N being at
\* least 2 * threshold - 1.
SecretRecoverable ==
  (\A j \in Nodes : bls_sk[j] # Absent) =>
    \A i \in Nodes : committee_key[i] # Absent =>
      \E j \in Nodes : /\ bls_sk[j].root = committee_key[i].root
                       /\ Cardinality(Holders(bls_sk[j])) >= threshold
=============================================================================
