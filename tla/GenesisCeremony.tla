-------------------------- MODULE GenesisCeremony --------------------------
(***************************************************************************)
(* The genesis ceremony (genesis/mod.rs).  The operators of the validators *)
(* share a repository: each uploads its public identity, refreshes its     *)
(* copy, builds the committee file from the identities in the copy, signs  *)
(* the configuration and uploads the signature; with the signatures of all *)
(* members each generates the genesis blob, or verifies one it was given.  *)
(* Nobody waits for anybody: copies, committee files and signatures can be *)
(* of different times, and identities can be generated again in between.   *)
(***************************************************************************)
EXTENDS Integers, FiniteSets

CONSTANTS
  Validators,
  Params,          \* genesis parameters in the settings file of a validator
  MaxChanges,      \* bound: identities generated again
  MaxSignatures,   \* bound: signatures made
  None

VARIABLES
  settings,     \* the genesis parameters of each operator
  identity,     \* the number of the identity of each operator
  operators,    \* repository: the identity each operator uploaded, 0 if none
  signature,    \* the signature file of each operator, on its own disk
  signatures,   \* repository: the signature file of each operator
  copy,         \* the copy of each operator: [operators, signatures]
  committee,    \* supra_committees.json of each operator: None or a configuration
  blob,         \* genesis.blob of each operator: None or [config, transaction]
  signed,       \* history: the signatures made, <<key, configuration>>
  changes

vars == <<settings, identity, operators, signature, signatures, copy, committee, blob, signed, changes>>

\* The consensus key of the n-th identity of an operator.
Key(v, n) == <<v, n>>

Init ==
  /\ settings \in [Validators -> Params]
  /\ identity = [v \in Validators |-> 1]
  /\ operators = [v \in Validators |-> 0]
  /\ signature = [v \in Validators |-> None] /\ signatures = signature
  /\ copy = [v \in Validators |-> [operators |-> operators, signatures |-> signatures]]
  /\ committee = [v \in Validators |-> None]
  /\ blob = [v \in Validators |-> None]
  /\ signed = {} /\ changes = 0

(***************************************************************************)
(* What the operators do outside the tool                                  *)
(***************************************************************************)

\* generate-validator-identity once more; the network address stays.
NewIdentity(v) ==
  /\ changes < MaxChanges /\ changes' = changes + 1
  /\ identity' = [identity EXCEPT ![v] = @ + 1]
  /\ UNCHANGED <<settings, operators, signature, signatures, copy, committee, blob, signed>>

\* The public profile and identity, and after step 3 the signature, go to the
\* repository.
UploadIdentity(v) ==
  /\ operators' = [operators EXCEPT ![v] = identity[v]]
  /\ UNCHANGED <<settings, identity, signature, signatures, copy, committee, blob, signed, changes>>

UploadSignature(v) ==
  /\ signature[v] # None
  /\ signatures' = [signatures EXCEPT ![v] = signature[v]]
  /\ UNCHANGED <<settings, identity, operators, signature, copy, committee, blob, signed, changes>>

(***************************************************************************)
(* The commands                                                            *)
(***************************************************************************)

\* download_directory: after a download, at first or at a retry, the files of
\* the repository overwrite those of the copy; what the repository no longer
\* has, stays.
Downloaded(v) ==
  [operators  |-> [w \in Validators |-> IF operators[w] = 0 THEN copy[v].operators[w] ELSE operators[w]],
   signatures |-> [w \in Validators |-> IF signatures[w] = None THEN copy[v].signatures[w] ELSE signatures[w]]]

\* RefreshRepo::execute; a failed download leaves the copy.
RefreshRepo(v) ==
  /\ copy' = [copy EXCEPT ![v] = Downloaded(v)]
  /\ UNCHANGED <<settings, identity, operators, signature, signatures, committee, blob, signed, changes>>

\* BuildSupraCommittee::execute: the members are the operators in the copy,
\* none when the directory cannot be read; with a url the copy is refreshed
\* first.
BuildSupraCommittee(v, url) ==
  LET c == IF url THEN Downloaded(v) ELSE copy[v]
      members == { Key(w, c.operators[w]) : w \in {u \in Validators : c.operators[u] # 0} }
  IN /\ copy' = [copy EXCEPT ![v] = c]
     /\ committee' = [committee EXCEPT ![v] = [params |-> settings[v], members |-> members]]
     /\ UNCHANGED <<settings, identity, operators, signature, signatures, blob, signed, changes>>

\* SignSupraCommittee::execute: the configuration of the operator, signed with
\* its identity, in the file named by its network address.
SignSupraCommittee(v) ==
  /\ committee[v] # None
  /\ Cardinality(signed) < MaxSignatures
  /\ signed' = signed \cup {<<Key(v, identity[v]), committee[v]>>}
  /\ signature' = [signature EXCEPT ![v] = <<Key(v, identity[v]), committee[v]>>]
  /\ UNCHANGED <<settings, identity, operators, signatures, copy, committee, blob, changes>>

\* generate_genesis_blob_from_supra_home: every signature file must have the
\* key of a member, or the tool panics; every member must have one; all must
\* verify against the digest of the configuration.
Complete(v) ==
  /\ committee[v] # None
  /\ LET files == {copy[v].signatures[w] : w \in Validators} \ {None}
     IN /\ {f[1] : f \in files} = committee[v].members
        /\ \A f \in files : f[2] = committee[v]

\* The transaction that GenesisTransactionGenerator makes of a configuration.
Generated(config) == config

\* Bug: with a path the signatures are not verified.
GenerateGenesisBlob_path(v, path) ==
  /\ IF path THEN committee[v] # None ELSE Complete(v)
  /\ \E tx \in IF path THEN {Generated(committee[v]), None} ELSE {Generated(committee[v])} :
       blob' = [blob EXCEPT ![v] = [config |-> committee[v], transaction |-> tx]]
  /\ UNCHANGED <<settings, identity, operators, signature, signatures, copy, committee, signed, changes>>

\* GenerateGenesisBlob::execute; with a path the transaction is taken as it is.
GenerateGenesisBlob(v, path) ==
  /\ Complete(v)
  /\ \E tx \in IF path THEN {Generated(committee[v]), None} ELSE {Generated(committee[v])} :
       blob' = [blob EXCEPT ![v] = [config |-> committee[v], transaction |-> tx]]
  /\ UNCHANGED <<settings, identity, operators, signature, signatures, copy, committee, signed, changes>>

\* config_digest and transaction_digest
SameBlob(a, b) == a.config = b.config /\ a.transaction = b.transaction

\* VerifyGenesisBlob::execute succeeds on the blob of w: it is the local blob,
\* or one generated from the files.  The command changes no file of the ceremony.
VerifyGenesisBlob(v, w, skip_regeneration) ==
  /\ blob[w] # None
  /\ IF skip_regeneration
     THEN blob[v] # None /\ SameBlob(blob[v], blob[w])
     ELSE /\ Complete(v)
          /\ SameBlob([config |-> committee[v], transaction |-> Generated(committee[v])], blob[w])

Next ==
  \E v \in Validators :
    \/ NewIdentity(v) \/ UploadIdentity(v) \/ UploadSignature(v)
    \/ RefreshRepo(v)
    \/ \E url \in BOOLEAN : BuildSupraCommittee(v, url)
    \/ SignSupraCommittee(v)
    \/ \E path \in BOOLEAN : GenerateGenesisBlob(v, path)

Spec == Init /\ [][Next]_vars

(***************************************************************************)
(* Properties                                                              *)
(***************************************************************************)

\* The configurations signed with a key of an operator.
SignedBy(w) == {s[2] : s \in {t \in signed : t[1][1] = w}}
MembersOf(config) == {k[1] : k \in config.members}

\* "This is a strict n-of-n verification": two operators with different blobs,
\* whenever they were generated and whatever was uploaded in between, share no
\* validator that signed only one configuration.
BlobsAgree ==
  \A v, w \in Validators :
    blob[v] # None /\ blob[w] # None /\ blob[v].config # blob[w].config =>
      \A m \in MembersOf(blob[v].config) \cap MembersOf(blob[w].config) : Cardinality(SignedBy(m)) > 1

\* A blob that an operator can verify by regeneration has the transaction of
\* its configuration, also when it was generated from a transaction taken as it
\* is, and every member of it signed the configuration.
VerifiedIsGenuine ==
  \A v, w \in Validators :
    VerifyGenesisBlob(v, w, FALSE) =>
      /\ blob[w].transaction = Generated(blob[w].config)
      /\ \A k \in blob[w].config.members : <<k, blob[w].config>> \in signed

============================================================================
