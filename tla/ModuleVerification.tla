-------------------------- MODULE ModuleVerification --------------------------
(***************************************************************************)
(* Module verification files: a manifest promises the digest of a module   *)
(* behind a URI, a receipt tells what was downloaded from there, a run     *)
(* receipt tells that the download was run, and a claim of community work  *)
(* lists hashes of such files.  The audit decides whether the files handed *)
(* to it support the claim.  All that a file says is typed by its maker.   *)
(*                                                                         *)
(* A file is [body, hash]: its hash is the body it was computed from, and  *)
(* other files refer to it by that hash.                                   *)
(***************************************************************************)
EXTENDS Integers, FiniteSets

CONSTANTS Digests,
          MaxFiles  \* bound on files

VARIABLES manifests, receipts, runs  \* the files
workVars == <<manifests, receipts, runs>>

WorkInit == manifests = {} /\ receipts = {} /\ runs = {}

File(body) == [body |-> body, hash |-> body]

Intact(f) == f.hash = f.body

Room == Cardinality(manifests) + Cardinality(receipts) + Cardinality(runs) < MaxFiles

-----------------------------------------------------------------------------
(* Making files, and editing them by hand.                                 *)

CreateModuleManifest(digest) ==
  /\ Room
  /\ manifests' = manifests \cup {File([digest |-> digest])}
  /\ UNCHANGED <<receipts, runs>>

\* Both digests and hash_matched are flags of the command.  They are checked for their
\* form, and compared neither with the manifest nor with each other.
CreateModuleAcquisitionReceipt(m, downloaded, expected, matched) ==
  /\ Room
  /\ receipts' = receipts \cup {File([manifest |-> m.hash, downloaded |-> downloaded,
                                      expected |-> expected, matched |-> matched])}
  /\ UNCHANGED <<manifests, runs>>

\* A run may be filed under another manifest than its download was.
CreateVerificationRunReceipt(m, r) ==
  /\ Room
  /\ runs' = runs \cup {File([manifest |-> m.hash, receipt |-> r.hash])}
  /\ UNCHANGED <<manifests, receipts>>

EditReceipt(r) ==
  /\ receipts' = (receipts \ {r}) \cup {[r EXCEPT !.body.matched = ~r.body.matched]}
  /\ UNCHANGED <<manifests, runs>>

EditRun(f, r) ==
  /\ runs' = (runs \ {f}) \cup {[f EXCEPT !.body.receipt = r.hash]}
  /\ UNCHANGED <<manifests, receipts>>

WorkNext ==
  \/ \E digest \in Digests : CreateModuleManifest(digest)
  \/ \E m \in manifests, downloaded, expected \in Digests, matched \in BOOLEAN :
       CreateModuleAcquisitionReceipt(m, downloaded, expected, matched)
  \/ \E m \in manifests, r \in receipts : CreateVerificationRunReceipt(m, r)
  \/ \E r \in receipts : EditReceipt(r)
  \/ \E f \in runs, r \in receipts : EditRun(f, r)

WorkSpec == WorkInit /\ [][WorkNext]_workVars

-----------------------------------------------------------------------------
(* The audit of a claim, [manifests, receipts, runs] being the hashes it   *)
(* lists, with a bundle of files of the same three kinds.                  *)

Hashes(fs) == {f.hash : f \in fs}

Linked(fs, hashes) == {f \in fs : f.hash \in hashes}

Empty == [manifests |-> {}, receipts |-> {}, runs |-> {}]

ValidClaim(claim) == claim # Empty

\* Every file is valid, and what a run refers to is in the bundle.
ValidSets(bundle) ==
  /\ \A f \in bundle.manifests \cup bundle.receipts \cup bundle.runs : Intact(f)
  /\ \A run \in bundle.runs : /\ run.body.manifest \in Hashes(bundle.manifests)
                              /\ run.body.receipt \in Hashes(bundle.receipts)

NothingMissing(claim, bundle) == /\ claim.manifests \subseteq Hashes(bundle.manifests)
                                 /\ claim.receipts \subseteq Hashes(bundle.receipts)
                                 /\ claim.runs \subseteq Hashes(bundle.runs)

DeviatingReceiptsMatched(claim, bundle) == \A r \in bundle.receipts : r.body.matched

ReceiptsMatched(claim, bundle) ==
  \A r \in Linked(bundle.receipts, claim.receipts) : r.body.matched

DeviatingRunsMatched(claim, bundle) ==
  \A run \in Linked(bundle.runs, claim.runs) : run.body.receipt \in Hashes(bundle.receipts)

\* The receipt of a linked run counts whether the claim lists it or not.
RunsMatched(claim, bundle) ==
  \A run \in Linked(bundle.runs, claim.runs) :
    /\ run.body.manifest \in Hashes(bundle.manifests)
    /\ \E r \in bundle.receipts : r.hash = run.body.receipt
    /\ \A r \in bundle.receipts : r.hash = run.body.receipt => r.body.matched

ClaimLinked(claim, bundle) ==
  /\ ValidClaim(claim) /\ ValidSets(bundle)
  /\ NothingMissing(claim, bundle)
  /\ claim.manifests # {} /\ claim.receipts # {} /\ claim.runs # {}
  /\ ReceiptsMatched(claim, bundle)
  /\ RunsMatched(claim, bundle)

-----------------------------------------------------------------------------
Bundles == [manifests : SUBSET manifests, receipts : SUBSET receipts, runs : SUBSET runs]

Claims == [manifests : SUBSET Hashes(manifests), receipts : SUBSET Hashes(receipts),
           runs : SUBSET Hashes(runs)]

\* The files of the work a claim is about: the receipts it lists and those of its runs.
Relied(claim, bundle) ==
  {r.body : r \in Linked(bundle.receipts, claim.receipts)}
    \cup {run.body.receipt : run \in Linked(bundle.runs, claim.runs)}

\* Its maker copied the promised digest and compared it with what was downloaded.
Compared(r) == r.expected = r.manifest.digest /\ r.matched = (r.downloaded = r.expected)

\* A claim passes only if every receipt it relies on, listed or behind one of its runs,
\* was made as one of a match: mixing up the files, dropping some or editing a failed
\* receipt does not get a claim through.  So what was downloaded is what the manifest
\* promised as far as the makers of these receipts compared; nothing else compares.
ClaimedWorkWasVerified ==
  \A bundle \in Bundles : ValidSets(bundle) =>
    \A claim \in Claims : ClaimLinked(claim, bundle) =>
      \A r \in Relied(claim, bundle) :
        r.matched /\ (Compared(r) => r.downloaded = r.manifest.digest)

\* More files never spoil a claim: if it passes with some of them, it passes with any
\* valid bundle that contains these, failed receipts of other people included.
OthersDoNotSpoil ==
  LET valid == {b \in Bundles : ValidSets(b)}
  IN  \A claim \in Claims : \A b \in valid : ClaimLinked(claim, b) =>
        \A more \in valid :
          /\ b.manifests \subseteq more.manifests
          /\ b.receipts \subseteq more.receipts /\ b.runs \subseteq more.runs
          => ClaimLinked(claim, more)

\* A claim of work passes for its own downloads: because they were told to be right, and
\* whatever else lies beside them.
ClaimsAreSound == ClaimedWorkWasVerified /\ OthersDoNotSpoil

=============================================================================
