--------------------------- MODULE CeremonyProofs ---------------------------
(***************************************************************************)
(* The two ceremonies of the validators, for any number of them.           *)
(*                                                                         *)
(* The genesis ceremony: BlobsAgree and VerifiedIsGenuine for any number   *)
(* of operators, changes and signatures.  The inductive invariant follows  *)
(* a signature on its way from the disk of the signer through the          *)
(* repository into the copies: at each place it is one that was made, so a *)
(* complete set of them proves that every member signed.                   *)
(*                                                                         *)
(* The key generation: SecretRecoverable, KeyOfOwnShare and that resharing *)
(* keeps the secret, for any number of nodes and any threshold.  The       *)
(* invariants say of which dealings each share is made, and that no third  *)
(* polynomial is about while the second replaces the first.                *)
(***************************************************************************)
EXTENDS GenesisCeremony, NiDkg, FiniteSetTheorems, TLAPS

Keys == Validators \X Nat
Configs == [params : Params, members : SUBSET Keys]
Blobs == [config : Configs, transaction : Configs \cup {None}]
Copies == [operators : [Validators -> Nat], signatures : [Validators -> (Keys \X Configs) \cup {None}]]

TypeOK ==
  /\ settings \in [Validators -> Params]
  /\ identity \in [Validators -> Nat]
  /\ operators \in [Validators -> Nat]
  /\ signature \in [Validators -> (Keys \X Configs) \cup {None}]
  /\ signatures \in [Validators -> (Keys \X Configs) \cup {None}]
  /\ copy \in [Validators -> Copies]
  /\ committee \in [Validators -> Configs \cup {None}]
  /\ blob \in [Validators -> Blobs \cup {None}]
  /\ signed \in SUBSET (Keys \X Configs)
  /\ changes \in Int

\* Every signature file, wherever it is, holds a signature that was made.
FilesAreSigned ==
  \A v \in Validators :
    /\ signature[v] \in signed \cup {None}
    /\ signatures[v] \in signed \cup {None}
    /\ \A w \in Validators : copy[v].signatures[w] \in signed \cup {None}

\* All members of a configuration signed it.
AllSigned(c) == \A k \in c.members : <<k, c>> \in signed

IInv ==
  /\ TypeOK /\ IsFiniteSet(signed)
  /\ FilesAreSigned
  /\ \A v \in Validators : blob[v] # None => AllSigned(blob[v].config)

\* The n-of-n check of generate_genesis_blob_from_supra_home: with signature
\* files that were really signed, the check of an operator passes only for a
\* configuration that every member signed.
LEMMA CompleteIsSigned ==
  ASSUME IInv, NEW v \in Validators, Complete(v)
  PROVE  committee[v] \in Configs /\ AllSigned(committee[v])
<1> DEFINE found == {copy[v].signatures[w] : w \in Validators} \ {None}
<1>1. committee[v] # None /\ {f[1] : f \in found} = committee[v].members /\ \A f \in found : f[2] = committee[v]
  BY DEF Complete
<1>2. committee[v] \in Configs
  BY <1>1 DEF IInv, TypeOK
<1>3. ASSUME NEW k \in committee[v].members PROVE <<k, committee[v]>> \in signed
  <2>1. PICK f \in found : f[1] = k
    BY <1>1, <1>3
  <2>2. f \in signed
    BY <2>1 DEF IInv, FilesAreSigned
  <2>3. f = <<f[1], f[2]>>
    BY <2>2 DEF IInv, TypeOK
  <2> QED BY <1>1, <2>1, <2>2, <2>3
<1> QED BY <1>2, <1>3 DEF AllSigned

LEMMA InitHolds == Init => IInv
<1> SUFFICES ASSUME Init PROVE IInv OBVIOUS
<1>1. TypeOK BY DEF Init, TypeOK, Copies
<1>2. IsFiniteSet(signed) BY FS_EmptySet DEF Init
<1>3. FilesAreSigned BY DEF Init, FilesAreSigned
<1> QED BY <1>1, <1>2, <1>3 DEF IInv, Init

\* download_directory gives a copy of the right type, whose signatures are
\* those of the repository or of the copy before.
LEMMA DownloadedHolds ==
  ASSUME IInv, NEW v \in Validators
  PROVE  /\ Downloaded(v) \in Copies
         /\ \A w \in Validators : Downloaded(v).signatures[w] \in signed \cup {None}
<1>1. copy[v] \in Copies BY DEF IInv, TypeOK
<1>2. [w \in Validators |-> IF operators[w] = 0 THEN copy[v].operators[w] ELSE operators[w]] \in [Validators -> Nat]
  BY <1>1 DEF IInv, TypeOK, Copies
<1>3. [w \in Validators |-> IF signatures[w] = None THEN copy[v].signatures[w] ELSE signatures[w]]
        \in [Validators -> (Keys \X Configs) \cup {None}]
  BY <1>1 DEF IInv, TypeOK, Copies
<1>4. Downloaded(v) \in Copies
  BY <1>2, <1>3 DEF Downloaded, Copies
<1>5. \A w \in Validators : Downloaded(v).signatures[w] \in signed \cup {None}
  BY DEF Downloaded, IInv, FilesAreSigned
<1> QED BY <1>4, <1>5

LEMMA StepHolds == IInv /\ [Next]_vars => IInv'
<1> SUFFICES ASSUME IInv, [Next]_vars PROVE IInv' OBVIOUS
<1> USE DEF AllSigned
<1>1. ASSUME NEW v \in Validators, NewIdentity(v) PROVE IInv'
  BY <1>1 DEF NewIdentity, IInv, TypeOK, FilesAreSigned
<1>2. ASSUME NEW v \in Validators, UploadIdentity(v) PROVE IInv'
  BY <1>2 DEF UploadIdentity, IInv, TypeOK, FilesAreSigned
<1>3. ASSUME NEW v \in Validators, UploadSignature(v) PROVE IInv'
  <2>1. TypeOK' BY <1>3 DEF UploadSignature, IInv, TypeOK
  <2>2. FilesAreSigned' BY <1>3 DEF UploadSignature, IInv, TypeOK, FilesAreSigned
  <2> QED BY <1>3, <2>1, <2>2 DEF UploadSignature, IInv
<1>4. ASSUME NEW v \in Validators, RefreshRepo(v) PROVE IInv'
  <2>1. TypeOK' BY <1>4, DownloadedHolds DEF RefreshRepo, IInv, TypeOK
  <2>2. FilesAreSigned' BY <1>4, DownloadedHolds DEF RefreshRepo, IInv, TypeOK, FilesAreSigned
  <2> QED BY <1>4, <2>1, <2>2 DEF RefreshRepo, IInv
<1>5. ASSUME NEW v \in Validators, NEW url \in BOOLEAN, BuildSupraCommittee(v, url) PROVE IInv'
  <2> DEFINE c == IF url THEN Downloaded(v) ELSE copy[v]
             members == {Key(w, c.operators[w]) : w \in {u \in Validators : c.operators[u] # 0}}
  <2>1. c \in Copies /\ \A w \in Validators : c.signatures[w] \in signed \cup {None}
    BY DownloadedHolds DEF IInv, TypeOK, FilesAreSigned
  <2>2. members \in SUBSET Keys
    BY <2>1 DEF Copies, Keys, Key
  <2>3. /\ copy' = [copy EXCEPT ![v] = c]
        /\ committee' = [committee EXCEPT ![v] = [params |-> settings[v], members |-> members]]
        /\ UNCHANGED <<settings, identity, operators, signature, signatures, blob, signed, changes>>
    BY <1>5 DEF BuildSupraCommittee
  <2>4. TypeOK'
    <3>1. [params |-> settings[v], members |-> members] \in Configs
      BY <2>2 DEF Configs, IInv, TypeOK
    <3> HIDE DEF c, members
    <3> QED BY <2>1, <2>3, <3>1 DEF IInv, TypeOK
  <2>5. FilesAreSigned'
    <3> HIDE DEF c
    <3> QED BY <2>1, <2>3 DEF IInv, TypeOK, FilesAreSigned
  <2> QED BY <2>3, <2>4, <2>5 DEF IInv
<1>6. ASSUME NEW v \in Validators, SignSupraCommittee(v) PROVE IInv'
  <2> DEFINE s == <<Key(v, identity[v]), committee[v]>>
  <2>1. s \in Keys \X Configs
    BY <1>6 DEF SignSupraCommittee, IInv, TypeOK, Keys, Key
  <2>2. /\ signed' = signed \cup {s}
        /\ signature' = [signature EXCEPT ![v] = s]
        /\ UNCHANGED <<settings, identity, operators, signatures, copy, committee, blob, changes>>
    BY <1>6 DEF SignSupraCommittee
  <2> HIDE DEF s
  <2>3. TypeOK' BY <2>1, <2>2 DEF IInv, TypeOK
  <2>4. IsFiniteSet(signed') BY <2>2, FS_AddElement DEF IInv
  <2>5. FilesAreSigned' BY <2>1, <2>2 DEF IInv, TypeOK, FilesAreSigned
  <2> QED BY <2>2, <2>3, <2>4, <2>5 DEF IInv
<1>7. ASSUME NEW v \in Validators, NEW path \in BOOLEAN, GenerateGenesisBlob(v, path) PROVE IInv'
  <2>1. PICK tx \in {Generated(committee[v]), None} :
          blob' = [blob EXCEPT ![v] = [config |-> committee[v], transaction |-> tx]]
    BY <1>7, Zenon DEF GenerateGenesisBlob
  <2>2. committee[v] \in Configs /\ AllSigned(committee[v])
    BY <1>7, CompleteIsSigned DEF GenerateGenesisBlob
  <2>3. UNCHANGED <<settings, identity, operators, signature, signatures, copy, committee, signed, changes>>
    BY <1>7, Zenon DEF GenerateGenesisBlob
  <2>4. TypeOK' BY <2>1, <2>2, <2>3 DEF IInv, TypeOK, Blobs, Generated
  <2>5. FilesAreSigned' BY <2>3 DEF IInv, FilesAreSigned
  <2> QED BY <2>1, <2>2, <2>3, <2>4, <2>5 DEF IInv, TypeOK
<1>8. CASE UNCHANGED vars
  BY <1>8 DEF vars, IInv, TypeOK, FilesAreSigned
<1> QED BY <1>1, <1>2, <1>3, <1>4, <1>5, <1>6, <1>7, <1>8 DEF Next

\* The configurations that an operator signed are finitely many.
LEMMA SignedByFinite ==
  ASSUME IInv, NEW m PROVE IsFiniteSet(SignedBy(m))
<1> DEFINE S == {t \in signed : t[1][1] = m}
           f == [t \in S |-> t[2]]
<1>1. IsFiniteSet(S) BY FS_Subset DEF IInv
<1>2. f \in Surjection(S, SignedBy(m)) BY DEF Surjection, SignedBy
<1> QED BY <1>1, <1>2, FS_Surjection

LEMMA AgreeHolds == IInv => BlobsAgree
<1> SUFFICES ASSUME IInv, NEW v \in Validators, NEW w \in Validators,
                    blob[v] # None, blob[w] # None, blob[v].config # blob[w].config,
                    NEW m \in MembersOf(blob[v].config) \cap MembersOf(blob[w].config)
             PROVE  Cardinality(SignedBy(m)) > 1
  BY DEF BlobsAgree
<1>1. ASSUME NEW u \in {v, w} PROVE blob[u].config \in SignedBy(m)
  <2>1. PICK k \in blob[u].config.members : k[1] = m BY <1>1 DEF MembersOf
  <2>2. <<k, blob[u].config>> \in signed BY <1>1 DEF IInv, AllSigned
  <2> QED BY <2>1, <2>2 DEF SignedBy
<1>2. {blob[v].config, blob[w].config} \subseteq SignedBy(m) BY <1>1
<1>3. Cardinality({blob[v].config, blob[w].config}) = 2
  <2>1. IsFiniteSet({blob[v].config}) /\ Cardinality({blob[v].config}) = 1 BY FS_Singleton, Zenon
  <2>2. blob[w].config \notin {blob[v].config} OBVIOUS
  <2>3. Cardinality({blob[v].config} \cup {blob[w].config}) = Cardinality({blob[v].config}) + 1
    BY <2>1, <2>2, FS_AddElement, Zenon
  <2>4. {blob[v].config} \cup {blob[w].config} = {blob[v].config, blob[w].config} OBVIOUS
  <2> QED BY <2>1, <2>3, <2>4
<1>4. Cardinality(SignedBy(m)) \in Nat /\ 2 <= Cardinality(SignedBy(m))
  BY <1>2, <1>3, SignedByFinite, FS_Subset, FS_CardinalityType
<1> QED BY <1>4

LEMMA GenuineHolds == IInv => VerifiedIsGenuine
<1> SUFFICES ASSUME IInv, NEW v \in Validators, NEW w \in Validators, VerifyGenesisBlob(v, w, FALSE)
             PROVE  /\ blob[w].transaction = Generated(blob[w].config)
                    /\ AllSigned(blob[w].config)
  BY Zenon DEF VerifiedIsGenuine, AllSigned
<1>1. blob[w] # None /\ committee[v] = blob[w].config /\ blob[w].transaction = Generated(committee[v])
  BY DEF VerifyGenesisBlob, SameBlob
<1> QED BY <1>1 DEF IInv

\* The ceremony keeps its promise for any number of operators: two operators
\* with blobs of different configurations share no member that signed only one
\* configuration, whatever was uploaded, refreshed or generated again in between.
THEOREM BlobsAlwaysAgree == Spec => []BlobsAgree
BY InitHolds, StepHolds, AgreeHolds, PTL DEF Spec

\* verify-genesis-blob with regeneration accepts only blobs with the transaction
\* of their configuration, all of whose members signed it.
THEOREM VerifiedIsAlwaysGenuine == Spec => []VerifiedIsGenuine
BY InitHolds, StepHolds, GenuineHolds, PTL DEF Spec

(***************************************************************************)
(* The key generation, for any number of nodes                             *)
(***************************************************************************)

\* The share p that a node holds or is about to write belongs to the secret of its
\* committee key, if resharing made it.
OfCommittee(i, p) == p # Absent /\ p.gen # p.root => committee_key[i] # Absent /\ p.root = committee_key[i].root

SharesInv ==
  /\ committee_key = [i \in Nodes |-> committee_key[i]]
  /\ bls_pk = [i \in Nodes |-> bls_pk[i]]
  /\ writing = [i \in Nodes |-> writing[i]]
  /\ \A i \in Nodes : /\ OfCommittee(i, bls_pk[i])
                      /\ writing[i] # Absent /\ writing[i].file = "bls_pk" => OfCommittee(i, writing[i].value)
                      /\ writing[i] # Absent => writing[i].file \in {"cg_pk", "bls_pk"}

LEMMA SharesInitHolds == DkgInit => SharesInv
BY DEF DkgInit, SharesInv, OfCommittee

\* The dealings that generate_reshare_key selects all share the committee key out.
LEMMA ReshareOfCommittee ==
  ASSUME threshold \in Nat \ {0}, NEW i \in Nodes, NEW t, NEW selected,
         selected \subseteq {j \in DOMAIN t : verify_resharing_dealing(t[j], committee_key[i])},
         Cardinality(selected) = threshold
  PROVE  UNION {t[j].reshares.root : j \in selected} = committee_key[i].root
<1>1. \A j \in selected : t[j].reshares = committee_key[i]
  BY DEF verify_resharing_dealing
<1>2. selected # {}
  BY FS_EmptySet
<1> QED BY <1>1, <1>2

LEMMA SharesStepHolds ==
  ASSUME threshold \in Nat \ {0}, SharesInv, [DkgNext]_dkgVars
  PROVE  SharesInv'
<1>1. CASE UNCHANGED <<bls_pk, committee_key, writing>>
  BY <1>1 DEF SharesInv, OfCommittee
<1>2. ASSUME NEW i \in Nodes, generate_cg_encryption_key_pair(i) PROVE SharesInv'
  BY <1>2 DEF generate_cg_encryption_key_pair, SharesInv, OfCommittee
<1>3. ASSUME NEW i \in Nodes, WritePublic(i) PROVE SharesInv'
  BY <1>3 DEF WritePublic, SharesInv, OfCommittee
<1>4. ASSUME NEW i \in Nodes, Crash(i) PROVE SharesInv'
  BY <1>4 DEF Crash, SharesInv, OfCommittee
<1>5. ASSUME NEW i \in Nodes, NEW p, StoreShare(i, p), OfCommittee(i, p) PROVE SharesInv'
  BY <1>5 DEF StoreShare, SharesInv, OfCommittee
<1>6. ASSUME NEW i \in Nodes, NEW t \in transcripts.fresh, generate_key(i, t) PROVE SharesInv'
  <2>1. PICK selected : StoreShare(i, [root |-> Ids(t, selected), gen |-> Ids(t, selected)])
    BY <1>6 DEF generate_key
  <2> QED BY <1>5, <2>1 DEF OfCommittee
<1>7. ASSUME NEW i \in Nodes, NEW t \in transcripts.reshared, generate_reshare_key(i, t) PROVE SharesInv'
  <2> DEFINE valid == {j \in DOMAIN t : verify_resharing_dealing(t[j], committee_key[i])}
             poly(selected) == [root |-> UNION {t[j].reshares.root : j \in selected}, gen |-> Ids(t, selected)]
  <2>1. PICK selected : IsSelection(selected, valid) /\ StoreShare(i, poly(selected))
    BY <1>7 DEF generate_reshare_key
  <2>2. poly(selected).root = committee_key[i].root /\ committee_key[i] # Absent
    BY <1>7, <2>1, ReshareOfCommittee DEF IsSelection, generate_reshare_key
  <2> QED BY <1>5, <2>1, <2>2 DEF OfCommittee
<1>8. ASSUME NEW i \in Nodes, NEW t \in shares, generate_committee_key(i, t) PROVE SharesInv'
  BY <1>8 DEF generate_committee_key, SharesInv, OfCommittee
<1>9. CASE UNCHANGED dkgVars
  BY <1>1, <1>9 DEF dkgVars
<1>10. CASE WriteConfig
  BY <1>1, <1>10 DEF WriteConfig
<1>11. ASSUME NEW S \in SUBSET Nodes, CollectDealings(S) \/ CollectShares(S) PROVE SharesInv'
  BY <1>1, <1>11 DEF CollectDealings, CollectShares
<1>12. ASSUME NEW i \in Nodes, generate_dealing(i) \/ generate_resharing_dealing(i) PROVE SharesInv'
  BY <1>1, <1>12 DEF generate_dealing, generate_resharing_dealing, Deal
<1> QED
  BY <1>2, <1>3, <1>4, <1>6, <1>7, <1>8, <1>9, <1>10, <1>11, <1>12 DEF DkgNext

\* Only generate_committee_key writes a committee key.
LEMMA CommitteeChanges ==
  ASSUME [DkgNext]_dkgVars, committee_key' # committee_key
  PROVE  \E i \in Nodes, t \in shares : generate_committee_key(i, t)
<1>1. ASSUME NEW i \in Nodes, generate_cg_encryption_key_pair(i) \/ WritePublic(i) \/ Crash(i) PROVE FALSE
  BY <1>1 DEF generate_cg_encryption_key_pair, WritePublic, Crash
<1>2. ASSUME NEW i \in Nodes, generate_dealing(i) \/ generate_resharing_dealing(i) PROVE FALSE
  BY <1>2 DEF generate_dealing, generate_resharing_dealing, Deal
<1>3. ASSUME NEW i \in Nodes, NEW t, generate_key(i, t) \/ generate_reshare_key(i, t) PROVE FALSE
  BY <1>3 DEF generate_key, generate_reshare_key, StoreShare
<1>4. ASSUME NEW S \in SUBSET Nodes, CollectDealings(S) \/ CollectShares(S) PROVE FALSE
  BY <1>4 DEF CollectDealings, CollectShares
<1>5. CASE WriteConfig \/ UNCHANGED dkgVars
  BY <1>5 DEF WriteConfig, dkgVars
<1> QED
  BY <1>1, <1>2, <1>3, <1>4, <1>5 DEF DkgNext

LEMMA KeyHolds ==
  ASSUME SharesInv, [DkgNext]_dkgVars
  PROVE  KeyOfOwnShare /\ ~SecretIsReplaced
<1>1. CASE committee_key' = committee_key
  BY <1>1 DEF KeyOfOwnShare, SecretIsReplaced
<1>2. CASE committee_key' # committee_key
  <2>1. PICK i \in Nodes, t \in shares : generate_committee_key(i, t)
    BY <1>2, CommitteeChanges
  <2>2. committee_key' = [committee_key EXCEPT ![i] = bls_pk[i]]
    BY <2>1 DEF generate_committee_key
  <2>3. /\ committee_key'[i] = bls_pk[i] /\ bls_pk[i] # Absent
        /\ \A j \in Nodes : j # i => committee_key'[j] = committee_key[j]
    BY <2>1, <2>2 DEF SharesInv, generate_committee_key
  <2> QED BY <2>3 DEF KeyOfOwnShare, SecretIsReplaced, SharesInv, OfCommittee
<1> QED BY <1>1, <1>2

\* generate_committee_key stores only the committee key that the share of the node
\* itself belongs to; one made by resharing has the secret of the key it replaces,
\* whatever transcripts were passed around and whichever commands stopped half way.
THEOREM ResharingKeepsTheSecret ==
  ASSUME threshold \in Nat \ {0}
  PROVE  DkgSpec => [][KeyOfOwnShare /\ ~SecretIsReplaced]_dkgVars
<1>1. SharesInv /\ [DkgNext]_dkgVars => SharesInv'
  BY SharesStepHolds
<1>2. SharesInv /\ [DkgNext]_dkgVars => [KeyOfOwnShare /\ ~SecretIsReplaced]_dkgVars
  BY KeyHolds
<1> QED BY <1>1, <1>2, SharesInitHolds, PTL DEF DkgSpec

(***************************************************************************)
(* The secret is never lost: one transcript in each round                  *)
(***************************************************************************)

\* The sets of dealings that may be taken from a transcript.
Selections(t) == {selected \in SUBSET DOMAIN t : IsSelection(selected, DOMAIN t)}

FirstIds == UNION {{Ids(t, selected) : selected \in Selections(t)} : t \in transcripts.fresh}
SecondIds == UNION {{Ids(t, selected) : selected \in Selections(t)} : t \in transcripts.reshared}

\* The polynomials of the first round, and those that reshare one of them.
FirstPolys == {[root |-> r, gen |-> r] : r \in FirstIds}
SecondPolys == {[root |-> r, gen |-> g] : r \in FirstIds, g \in SecondIds}
Polys == FirstPolys \cup SecondPolys

IsTranscript(t) == DOMAIN t \in SUBSET Nodes /\ \A j \in DOMAIN t : config # Absent /\ t[j].config = config

RoundsTypeOK ==
  /\ dealing = [i \in Nodes |-> dealing[i]]
  /\ bls_sk = [i \in Nodes |-> bls_sk[i]] /\ bls_pk = [i \in Nodes |-> bls_pk[i]]
  /\ writing = [i \in Nodes |-> writing[i]] /\ committee_key = [i \in Nodes |-> committee_key[i]]
  /\ transcripts = [fresh |-> transcripts.fresh, reshared |-> transcripts.reshared]
  /\ \A round \in {"fresh", "reshared"} :
       transcripts[round] = {} \/ \E t \in transcripts[round] : transcripts[round] = {t}

TranscriptsInv ==
  /\ \A t \in transcripts.fresh \cup transcripts.reshared : IsTranscript(t)
  /\ \A t \in transcripts.reshared : \A j \in DOMAIN t : t[j].reshares \in FirstPolys

DealingsInv ==
  \A i \in Nodes : dealing[i] # Absent =>
    /\ config # Absent /\ dealing[i].config = config
    /\ dealing[i].reshares # Absent /\ transcripts.reshared = {} => dealing[i].reshares \in FirstPolys

PolysInv ==
  \A i \in Nodes :
    /\ {bls_sk[i], bls_pk[i], committee_key[i]} \subseteq Polys \cup {Absent}
    /\ writing[i] # Absent /\ writing[i].file # "cg_pk" => writing[i].value \in Polys

RoundsInv == RoundsTypeOK /\ TranscriptsInv /\ DealingsInv /\ PolysInv

\* One transcript in each round, and enough nodes for a quorum of one of two
\* polynomials.
OneTranscript ==
  /\ N \in Nat /\ threshold \in Nat \ {0} /\ N >= 2 * threshold - 1
  /\ MaxFirst = 1 /\ MaxReshared = 1

LEMMA NodesFinite ==
  ASSUME OneTranscript, NEW S \in SUBSET Nodes
  PROVE  IsFiniteSet(S) /\ Cardinality(S) \in Nat /\ Cardinality(Nodes) = N /\ IsFiniteSet(Nodes)
<1>1. IsFiniteSet(Nodes) /\ Cardinality(Nodes) = N
  BY FS_Interval DEF OneTranscript, Nodes
<1> QED BY <1>1, FS_Subset, FS_CardinalityType

\* Every node that goes through a transcript selects the same dealings.
LEMMA SelectionIsUnique ==
  ASSUME OneTranscript, NEW V \in SUBSET Nodes, NEW s \in SUBSET V, NEW u \in SUBSET V,
         IsSelection(s, V), IsSelection(u, V)
  PROVE  s = u
<1>1. IsFiniteSet(s) /\ IsFiniteSet(u) /\ Cardinality(s) = Cardinality(u)
  BY NodesFinite DEF IsSelection
<1>2. CASE s \subseteq u
  BY <1>1, <1>2, FS_Subset
<1>3. CASE u \subseteq s
  BY <1>1, <1>3, FS_Subset
<1>4. ASSUME ~(s \subseteq u), ~(u \subseteq s) PROVE FALSE
  <2>1. PICK a \in s, b \in u : a \notin u /\ b \notin s
    BY <1>4
  <2>2. a < b /\ b < a /\ a \in Int /\ b \in Int
    BY <2>1 DEF IsSelection, Nodes
  <2> QED BY <2>2
<1> QED BY <1>2, <1>3, <1>4

LEMMA ChosenIsUnique ==
  ASSUME OneTranscript, RoundsInv
  PROVE  /\ \A r, s \in FirstIds : r = s
         /\ \A r, s \in SecondIds : r = s
<1>1. ASSUME NEW round \in {"fresh", "reshared"}, NEW t \in transcripts[round], NEW u \in transcripts[round],
             NEW r \in Selections(t), NEW s \in Selections(u)
      PROVE  Ids(t, r) = Ids(u, s)
  <2>1. t = u /\ DOMAIN t \in SUBSET Nodes
    BY <1>1 DEF RoundsInv, RoundsTypeOK, TranscriptsInv, IsTranscript
  <2>2. r = s
    BY <2>1, SelectionIsUnique DEF Selections
  <2> QED BY <2>1, <2>2
<1> QED BY <1>1 DEF FirstIds, SecondIds

LEMMA PolysAreUnique ==
  ASSUME OneTranscript, RoundsInv
  PROVE  /\ \A p, q \in FirstPolys : p = q
         /\ \A p, q \in SecondPolys : p = q
         /\ \A p, q \in Polys : p.root = q.root
BY ChosenIsUnique DEF FirstPolys, SecondPolys, Polys

LEMMA RoundsInitHolds == DkgInit => RoundsInv
BY DEF DkgInit, RoundsInv, RoundsTypeOK, TranscriptsInv, DealingsInv, PolysInv

\* A transcript more leaves more polynomials.
LEMMA PolysGrow ==
  ASSUME transcripts.fresh \subseteq transcripts'.fresh, transcripts.reshared \subseteq transcripts'.reshared
  PROVE  FirstPolys \subseteq FirstPolys' /\ Polys \subseteq Polys'
<1>1. FirstIds \subseteq FirstIds' /\ SecondIds \subseteq SecondIds'
  BY DEF FirstIds, SecondIds, Selections, IsSelection, Ids
<1> QED BY <1>1 DEF FirstPolys, SecondPolys, Polys

LEMMA PolysStay ==
  ASSUME transcripts' = transcripts
  PROVE  FirstPolys' = FirstPolys /\ Polys' = Polys
<1>1. FirstIds' = FirstIds /\ SecondIds' = SecondIds
  BY DEF FirstIds, SecondIds, Selections, IsSelection, Ids
<1> QED BY <1>1 DEF FirstPolys, SecondPolys, Polys

LEMMA CollectDealingsHolds ==
  ASSUME OneTranscript, RoundsInv, NEW S \in SUBSET Nodes, CollectDealings(S)
  PROVE  RoundsInv'
<1> DEFINE round == IF \A i \in S : dealing[i].reshares = Absent THEN "fresh" ELSE "reshared"
           t == [i \in S |-> dealing[i]]
<1>1. /\ \A i \in S : dealing[i] # Absent
      /\ round = "reshared" => \A i \in S : dealing[i].reshares # Absent
      /\ Cardinality(transcripts[round]) < 1
      /\ transcripts' = [transcripts EXCEPT ![round] = @ \cup {t}]
      /\ UNCHANGED <<config, dealing, bls_sk, bls_pk, committee_key, writing>>
  BY DEF CollectDealings, OneTranscript
<1>2. round \in {"fresh", "reshared"}
  OBVIOUS
<1> HIDE DEF round
<1>3. transcripts[round] = {}
  <2>1. ASSUME NEW u, transcripts[round] = {u} PROVE FALSE
    <3>1. Cardinality(transcripts[round]) = 1
      BY <2>1, FS_Singleton, Zenon
    <3> QED BY <1>1, <3>1
  <2> QED BY <1>2, <2>1 DEF RoundsInv, RoundsTypeOK
<1>4. /\ transcripts' = [fresh |-> transcripts'.fresh, reshared |-> transcripts'.reshared]
      /\ round = "fresh" => transcripts'.fresh = {t} /\ transcripts'.reshared = transcripts.reshared
      /\ round = "reshared" => transcripts'.fresh = transcripts.fresh /\ transcripts'.reshared = {t}
  BY <1>1, <1>2, <1>3 DEF RoundsInv, RoundsTypeOK
<1>5. transcripts.fresh \subseteq transcripts'.fresh /\ transcripts.reshared \subseteq transcripts'.reshared
  BY <1>2, <1>3, <1>4
<1>6. FirstPolys \subseteq FirstPolys' /\ Polys \subseteq Polys'
  BY <1>5, PolysGrow
<1>7. IsTranscript(t)'
  BY <1>1 DEF IsTranscript, RoundsInv, DealingsInv
<1>8. RoundsTypeOK'
  BY <1>1, <1>2, <1>4 DEF RoundsInv, RoundsTypeOK
<1>9. TranscriptsInv'
  <2>1. \A u \in transcripts'.fresh \cup transcripts'.reshared : IsTranscript(u)'
    BY <1>1, <1>2, <1>4, <1>7 DEF RoundsInv, TranscriptsInv, IsTranscript
  <2>2. ASSUME NEW u \in transcripts'.reshared, NEW j \in DOMAIN u PROVE u[j].reshares \in FirstPolys'
    <3>1. CASE round = "fresh"
      BY <1>4, <1>6, <2>2, <3>1 DEF RoundsInv, TranscriptsInv
    <3>2. CASE round = "reshared"
      <4>1. u = t /\ j \in S /\ u[j] = dealing[j]
        BY <1>4, <2>2, <3>2
      <4>2. dealing[j].reshares \in FirstPolys
        BY <1>1, <1>3, <3>2, <4>1 DEF RoundsInv, DealingsInv
      <4> QED BY <1>6, <4>1, <4>2
    <3> QED BY <1>2, <3>1, <3>2
  <2> QED BY <2>1, <2>2 DEF TranscriptsInv
<1>10. DealingsInv'
  BY <1>1, <1>5, <1>6 DEF RoundsInv, DealingsInv
<1>11. PolysInv'
  BY <1>1, <1>6 DEF RoundsInv, PolysInv
<1> QED BY <1>8, <1>9, <1>10, <1>11 DEF RoundsInv

LEMMA DealHolds ==
  ASSUME RoundsInv, NEW i \in Nodes, NEW round, NEW secret, Deal(i, round, secret),
         secret # Absent /\ transcripts.reshared = {} => secret \in FirstPolys
  PROVE  RoundsInv'
<1>1. /\ config # Absent
      /\ dealing' = [dealing EXCEPT ![i] = [id |-> <<i, round, dealt[round][i]>>, reshares |-> secret,
                                            config |-> config]]
      /\ UNCHANGED <<config, transcripts, bls_sk, bls_pk, committee_key, writing>>
  BY DEF Deal
<1>2. FirstPolys' = FirstPolys /\ Polys' = Polys
  BY <1>1, PolysStay
<1>3. RoundsTypeOK'
  BY <1>1 DEF RoundsInv, RoundsTypeOK
<1>4. /\ dealing'[i].config = config /\ dealing'[i].reshares = secret
      /\ \A j \in Nodes : j # i => dealing'[j] = dealing[j]
  BY <1>1 DEF RoundsInv, RoundsTypeOK
<1>5. DealingsInv'
  BY <1>1, <1>2, <1>4 DEF RoundsInv, DealingsInv
<1> QED BY <1>1, <1>2, <1>3, <1>5 DEF RoundsInv, TranscriptsInv, IsTranscript, PolysInv

LEMMA StoreShareHolds ==
  ASSUME RoundsInv, NEW i \in Nodes, NEW p \in Polys, StoreShare(i, p)
  PROVE  RoundsInv'
<1>1. /\ bls_sk' = [bls_sk EXCEPT ![i] = p]
      /\ writing' = [writing EXCEPT ![i] = [file |-> "bls_pk", value |-> p]]
      /\ UNCHANGED <<config, transcripts, dealing, bls_pk, committee_key>>
  BY DEF StoreShare
<1>2. FirstPolys' = FirstPolys /\ Polys' = Polys
  BY <1>1, PolysStay
<1>3. RoundsTypeOK'
  BY <1>1 DEF RoundsInv, RoundsTypeOK
<1>4. PolysInv'
  BY <1>1, <1>2 DEF RoundsInv, RoundsTypeOK, PolysInv
<1> QED BY <1>1, <1>2, <1>3, <1>4 DEF RoundsInv, TranscriptsInv, IsTranscript, DealingsInv

LEMMA FirstShareIsPoly ==
  ASSUME RoundsInv, NEW i \in Nodes, NEW t \in transcripts.fresh, generate_key(i, t)
  PROVE  RoundsInv'
<1> DEFINE valid == {j \in DOMAIN t : verify_dealing(t[j])}
<1>1. valid = DOMAIN t
  BY DEF verify_dealing, RoundsInv, TranscriptsInv, IsTranscript
<1>2. PICK selected \in SUBSET valid :
        IsSelection(selected, valid) /\ StoreShare(i, [root |-> Ids(t, selected), gen |-> Ids(t, selected)])
  BY DEF generate_key
<1>3. Ids(t, selected) \in FirstIds
  BY <1>1, <1>2 DEF FirstIds, Selections
<1>4. [root |-> Ids(t, selected), gen |-> Ids(t, selected)] \in Polys
  BY <1>3 DEF FirstPolys, Polys
<1> QED BY <1>2, <1>4, StoreShareHolds

LEMMA FirstPolyRoot ==
  ASSUME NEW p \in FirstPolys
  PROVE  p.root \in FirstIds
<1>1. PICK r \in FirstIds : p = [root |-> r, gen |-> r]
  BY DEF FirstPolys
<1>2. p.root = r
  BY <1>1
<1> QED BY <1>2

LEMMA ReshareIsSecond ==
  ASSUME NEW r \in FirstIds, NEW g \in SecondIds
  PROVE  [root |-> r, gen |-> g] \in SecondPolys
BY DEF SecondPolys

LEMMA SecondShareIsPoly ==
  ASSUME OneTranscript, RoundsInv, NEW i \in Nodes, NEW t \in transcripts.reshared, generate_reshare_key(i, t)
  PROVE  RoundsInv'
<1> DEFINE valid == {j \in DOMAIN t : verify_resharing_dealing(t[j], committee_key[i])}
           poly(selected) == [root |-> UNION {t[j].reshares.root : j \in selected}, gen |-> Ids(t, selected)]
<1>1. PICK selected \in SUBSET valid : IsSelection(selected, valid) /\ StoreShare(i, poly(selected))
  BY DEF generate_reshare_key
<1>2. selected # {}
  BY <1>1, FS_EmptySet DEF IsSelection, OneTranscript
<1>3. PICK k \in DOMAIN t : t[k].reshares = committee_key[i]
  BY <1>2 DEF verify_resharing_dealing
<1>4. \A j \in DOMAIN t : t[j].reshares \in FirstPolys
  BY DEF RoundsInv, TranscriptsInv
<1>5. committee_key[i] \in FirstPolys /\ \A j \in DOMAIN t : t[j].reshares = committee_key[i]
  BY <1>3, <1>4, PolysAreUnique
<1>6. valid = DOMAIN t
  BY <1>5 DEF verify_resharing_dealing, RoundsInv, TranscriptsInv, IsTranscript
<1>7. Ids(t, selected) \in SecondIds
  BY <1>1, <1>6 DEF SecondIds, Selections
<1>8. committee_key[i].root \in FirstIds
  BY <1>5, FirstPolyRoot
<1>9. UNION {t[j].reshares.root : j \in selected} = committee_key[i].root
  BY <1>2, <1>5
<1>10. poly(selected) = [root |-> committee_key[i].root, gen |-> Ids(t, selected)]
  BY <1>9
<1>11. poly(selected) \in Polys
  <2>1. [root |-> committee_key[i].root, gen |-> Ids(t, selected)] \in SecondPolys
    BY <1>7, <1>8, ReshareIsSecond, Zenon
  <2> QED BY <1>10, <2>1, Zenon DEF Polys
<1> QED BY <1>1, <1>11, StoreShareHolds

LEMMA RoundsStepHolds ==
  ASSUME OneTranscript, RoundsInv, [DkgNext]_dkgVars
  PROVE  RoundsInv'
<1>1. CASE UNCHANGED dkgVars
  <2>1. FirstPolys' = FirstPolys /\ Polys' = Polys
    BY <1>1, PolysStay DEF dkgVars
  <2> QED BY <1>1, <2>1 DEF dkgVars, RoundsInv, RoundsTypeOK, TranscriptsInv, IsTranscript, DealingsInv, PolysInv
<1>2. CASE WriteConfig
  <2>1. FirstPolys' = FirstPolys /\ Polys' = Polys
    BY <1>2, PolysStay DEF WriteConfig
  <2> QED BY <1>2, <2>1 DEF WriteConfig, RoundsInv, RoundsTypeOK, TranscriptsInv, IsTranscript, DealingsInv, PolysInv
<1>3. ASSUME NEW S \in SUBSET Nodes, CollectShares(S) PROVE RoundsInv'
  <2>1. FirstPolys' = FirstPolys /\ Polys' = Polys
    BY <1>3, PolysStay DEF CollectShares
  <2> QED BY <1>3, <2>1
             DEF CollectShares, RoundsInv, RoundsTypeOK, TranscriptsInv, IsTranscript, DealingsInv, PolysInv
<1>4. ASSUME NEW i \in Nodes, generate_cg_encryption_key_pair(i) PROVE RoundsInv'
  <2>1. FirstPolys' = FirstPolys /\ Polys' = Polys
    BY <1>4, PolysStay DEF generate_cg_encryption_key_pair
  <2>2. PolysInv'
    BY <1>4, <2>1 DEF generate_cg_encryption_key_pair, RoundsInv, RoundsTypeOK, PolysInv
  <2> QED BY <1>4, <2>1, <2>2
             DEF generate_cg_encryption_key_pair, RoundsInv, RoundsTypeOK, TranscriptsInv, IsTranscript, DealingsInv
<1>5. ASSUME NEW i \in Nodes, WritePublic(i) PROVE RoundsInv'
  <2>1. FirstPolys' = FirstPolys /\ Polys' = Polys
    BY <1>5, PolysStay DEF WritePublic
  <2>2. PolysInv'
    BY <1>5, <2>1 DEF WritePublic, RoundsInv, RoundsTypeOK, PolysInv
  <2> QED BY <1>5, <2>1, <2>2 DEF WritePublic, RoundsInv, RoundsTypeOK, TranscriptsInv, IsTranscript, DealingsInv
<1>6. ASSUME NEW i \in Nodes, Crash(i) PROVE RoundsInv'
  <2>1. FirstPolys' = FirstPolys /\ Polys' = Polys
    BY <1>6, PolysStay DEF Crash
  <2>2. PolysInv'
    BY <1>6, <2>1 DEF Crash, RoundsInv, RoundsTypeOK, PolysInv
  <2> QED BY <1>6, <2>1, <2>2 DEF Crash, RoundsInv, RoundsTypeOK, TranscriptsInv, IsTranscript, DealingsInv
<1>7. ASSUME NEW i \in Nodes, generate_dealing(i) PROVE RoundsInv'
  BY <1>7, DealHolds DEF generate_dealing
<1>8. ASSUME NEW i \in Nodes, generate_resharing_dealing(i) PROVE RoundsInv'
  <2>1. transcripts.reshared = {} => bls_sk[i] \in FirstPolys
    <3>1. bls_sk[i] \in Polys
      BY <1>8 DEF generate_resharing_dealing, RoundsInv, PolysInv
    <3>2. transcripts.reshared = {} => SecondIds = {}
      BY DEF SecondIds
    <3>3. SecondIds = {} => SecondPolys = {}
      BY DEF SecondPolys
    <3> QED BY <3>1, <3>2, <3>3 DEF Polys
  <2> QED BY <1>8, <2>1, DealHolds DEF generate_resharing_dealing
<1>9. ASSUME NEW i \in Nodes, NEW t \in shares, generate_committee_key(i, t) PROVE RoundsInv'
  <2>1. FirstPolys' = FirstPolys /\ Polys' = Polys
    BY <1>9, PolysStay DEF generate_committee_key
  <2>2. PolysInv'
    BY <1>9, <2>1 DEF generate_committee_key, RoundsInv, RoundsTypeOK, PolysInv
  <2> QED BY <1>9, <2>1, <2>2
             DEF generate_committee_key, RoundsInv, RoundsTypeOK, TranscriptsInv, IsTranscript, DealingsInv
<1> QED
  BY <1>1, <1>2, <1>3, <1>4, <1>5, <1>6, <1>7, <1>8, <1>9, CollectDealingsHolds, FirstShareIsPoly,
     SecondShareIsPoly DEF DkgNext

LEMMA RecoverableHolds == ASSUME OneTranscript, RoundsInv PROVE SecretRecoverable
<1> SUFFICES ASSUME \A j \in Nodes : bls_sk[j] # Absent, NEW i \in Nodes, committee_key[i] # Absent
             PROVE  \E j \in Nodes : /\ bls_sk[j].root = committee_key[i].root
                                     /\ Cardinality(Holders(bls_sk[j])) >= threshold
  BY DEF SecretRecoverable
<1>1. committee_key[i] \in Polys /\ \A j \in Nodes : bls_sk[j] \in Polys
  BY DEF RoundsInv, PolysInv
<1>2. \A j \in Nodes : bls_sk[j].root = committee_key[i].root
  BY <1>1, PolysAreUnique
<1> DEFINE A == {j \in Nodes : bls_sk[j] \in FirstPolys}
           B == {j \in Nodes : bls_sk[j] \in SecondPolys}
<1>3. Nodes = A \cup B
  BY <1>1 DEF Polys
<1>4. A \in SUBSET Nodes /\ B \in SUBSET Nodes /\ A \cap B \in SUBSET Nodes
  OBVIOUS
<1> HIDE DEF A, B
<1>5. /\ IsFiniteSet(A) /\ IsFiniteSet(B) /\ Cardinality(Nodes) = N
      /\ Cardinality(A) \in Nat /\ Cardinality(B) \in Nat /\ Cardinality(A \cap B) \in Nat
  BY <1>4, NodesFinite
<1>6. N = Cardinality(A) + Cardinality(B) - Cardinality(A \cap B)
  BY <1>3, <1>5, FS_Union
<1>7. Cardinality(A) >= threshold \/ Cardinality(B) >= threshold
  BY <1>5, <1>6 DEF OneTranscript
<1>8. ASSUME NEW C \in SUBSET Nodes, Cardinality(C) >= threshold, \A j, k \in C : bls_sk[j] = bls_sk[k]
      PROVE  \E j \in Nodes : Cardinality(Holders(bls_sk[j])) >= threshold
  <2>1. C # {}
    BY <1>8, FS_EmptySet DEF OneTranscript
  <2>2. PICK j \in C : TRUE
    BY <2>1
  <2>3. C \subseteq Holders(bls_sk[j]) /\ Holders(bls_sk[j]) \in SUBSET Nodes
    BY <1>8, <2>2 DEF Holders
  <2>4. Cardinality(C) <= Cardinality(Holders(bls_sk[j])) /\ Cardinality(C) \in Nat
        /\ Cardinality(Holders(bls_sk[j])) \in Nat
    BY <2>3, NodesFinite, FS_Subset
  <2>5. Cardinality(Holders(bls_sk[j])) >= threshold
    BY <1>8, <2>4 DEF OneTranscript
  <2> QED BY <2>2, <2>5
<1>9. (\A j, k \in A : bls_sk[j] = bls_sk[k]) /\ (\A j, k \in B : bls_sk[j] = bls_sk[k])
  BY PolysAreUnique DEF A, B
<1> QED BY <1>2, <1>4, <1>7, <1>8, <1>9

\* The secret of a committee key outlives the replacement of the private shares
\* (generate_key, generate_reshare_key): with one transcript of dealings and one of
\* resharing dealings, and at least 2 * threshold - 1 nodes, at every moment after
\* all have a share enough of them hold shares of one polynomial of that secret.
THEOREM SecretIsNeverLost ==
  ASSUME OneTranscript
  PROVE  DkgSpec => []SecretRecoverable
<1>1. RoundsInv /\ [DkgNext]_dkgVars => RoundsInv'
  BY RoundsStepHolds
<1>2. RoundsInv => SecretRecoverable
  BY RecoverableHolds
<1> QED BY <1>1, <1>2, RoundsInitHolds, PTL DEF DkgSpec
=============================================================================
