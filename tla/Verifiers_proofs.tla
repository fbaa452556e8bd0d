--------------------------- MODULE Verifiers_proofs ---------------------------
(***************************************************************************)
(* Proofs about the programs that look at something once and give one      *)
(* verdict: the receipt verifier, the release gate, the Go chain verifier  *)
(* and the Azure CLI signer.                                               *)
(***************************************************************************)
EXTENDS ReceiptVerifier, ReleaseGate, GoChain, AzureCliSigner,
        FiniteSetTheorems, SequenceTheorems, TLAPS

----------------------------------------------------------------------------
(* ReceiptVerifier, for any receipts and registries *)

(* The checks of one entry are those that single out the signature of its key. *)

LEMMA EntryIsCanonical ==
    ASSUME NEW r \in ReceiptSpace, NEW reg, IsRegistry(reg), r.body.created # NoTime,
           NEW e \in Entries, EntryOK(e, r, reg)
    PROVE  e.kid \in Trusted(reg, r.body) /\ e = SignatureOf(e.kid, reg, r.body)
<1>1. reg[e.kid] \in TrustKeys /\ e.kid \in DOMAIN reg
  BY DEF EntryOK, IsRegistry
<1>2. r.body \in Bodies /\ r.body.created \in Nat
  BY DEF ReceiptSpace, Bodies
<1>3. e.kid \in Trusted(reg, r.body)
  BY <1>1, <1>2 DEF EntryOK, InWindow, Trusted, TrustKeys
<1>4. /\ e.parsed = TRUE /\ e.role = reg[e.kid].role /\ e.header = e.kid
      /\ e.payload = r.body /\ e.by = reg[e.kid].jwk /\ e.over = <<e.kid, r.body>>
  BY DEF EntryOK, SignatureVerifies, Entries
<1>5. e = [parsed |-> e.parsed, kid |-> e.kid, role |-> e.role, header |-> e.header,
           payload |-> e.payload, by |-> e.by, over |-> e.over]
  BY DEF Entries
<1> QED BY <1>3, <1>4, <1>5 DEF SignatureOf

LEMMA CanonicalPasses ==
    ASSUME NEW r \in ReceiptSpace, NEW reg, IsRegistry(reg), NEW k \in Trusted(reg, r.body)
    PROVE  EntryOK(SignatureOf(k, reg, r.body), r, reg)
<1>1. reg[k] \in TrustKeys /\ k \in DOMAIN reg
  BY DEF Trusted, IsRegistry
<1>2. r.body.created \in Nat \cup {NoTime}
  BY DEF ReceiptSpace, Bodies
<1> QED BY <1>1, <1>2
        DEF EntryOK, SignatureOf, SignatureVerifies, InWindow, Trusted, TrustKeys, NoTime

LEMMA EnteredTyped ==
    ASSUME NEW r \in ReceiptSpace
    PROVE  Entered(r) \subseteq Entries /\ (r.signatures # <<>> <=> Entered(r) # {})
<1>1. r.signatures \in Seq(Entries)
  BY DEF ReceiptSpace
<1>2. /\ DOMAIN r.signatures = 1 .. Len(r.signatures) /\ Len(r.signatures) \in Nat
      /\ \A i \in 1 .. Len(r.signatures) : r.signatures[i] \in Entries
  BY <1>1
<1>3. r.signatures # <<>> <=> Len(r.signatures) # 0
  BY <1>1, EmptySeq
<1>4. Len(r.signatures) # 0 <=> \E i \in 1 .. Len(r.signatures) : TRUE
  BY <1>2
<1> QED BY <1>2, <1>3, <1>4 DEF Entered

\* Checks and policy together accept what the production gate describes, no more
\* and no less.
THEOREM PassesIsAccepted ==
    ASSUME NEW r \in ReceiptSpace, NEW reg, IsRegistry(reg)
    PROVE  Passes(r, reg) <=> Accepted(r, reg)
<1> DEFINE kids == {e.kid : e \in Entered(r)}
           roles == {e.role : e \in Entered(r)}
<1>0. r.body \in Bodies /\ r.body.min \in Int /\ r.body.created \in Nat \cup {NoTime}
  BY DEF ReceiptSpace, Bodies
<1>1. ASSUME \A e \in Entered(r) : EntryOK(e, r, reg), r.body.created # NoTime
      PROVE  /\ \A e \in Entered(r) : \E k \in Trusted(reg, r.body) :
                   e = SignatureOf(k, reg, r.body)
             /\ Signers(r, reg) = kids
             /\ roles = {reg[k].role : k \in kids}
  <2>1. \A e \in Entered(r) : e.kid \in Trusted(reg, r.body) /\ e = SignatureOf(e.kid, reg, r.body)
    BY <1>1, EnteredTyped, EntryIsCanonical
  <2>2. Signers(r, reg) \subseteq kids
    BY DEF Signers, SignatureOf
  <2>3. kids \subseteq Signers(r, reg)
    BY <2>1 DEF Signers
  <2>4. \A e \in Entered(r) : e.role = reg[e.kid].role
    BY <1>1 DEF EntryOK
  <2> QED BY <2>1, <2>2, <2>3, <2>4
<1>2. ASSUME \A e \in Entered(r) : \E k \in Trusted(reg, r.body) :
                e = SignatureOf(k, reg, r.body)
      PROVE  \A e \in Entered(r) : EntryOK(e, r, reg)
  BY <1>2, CanonicalPasses
<1>3. /\ r.body.class \in {"A", "B", "C", "other"}
      /\ r.body.class # "other" =>
           (r.body.min >= Floor(r.body.class) <=>
              PolicyOK(r.body) /\ (r.body.class = "A" => MinSignatures(r.body) >= 2))
      /\ PolicyOK(r.body) => MinSignatures(r.body) = r.body.min
  BY <1>0 DEF Bodies, Floor, PolicyOK, MinSignatures
<1>4. ASSUME Passes(r, reg) PROVE Accepted(r, reg)
  <2>1. HeaderOK(r) /\ PolicyOK(r.body) /\ QuorumOK(r.body, Cardinality(kids), roles)
    BY <1>4 DEF Passes
  <2>2. r.body.created # NoTime /\ \A e \in Entered(r) : EntryOK(e, r, reg)
    BY <1>4, <2>1 DEF Passes, HeaderOK
  <2>3. r.body.min >= Floor(r.body.class) /\ Cardinality(kids) >= r.body.min
    BY <2>1, <1>3 DEF QuorumOK, HeaderOK
  <2>4. \A role \in r.body.roles : \E k \in Signers(r, reg) : reg[k].role = role
    BY <2>1, <1>1, <2>2 DEF QuorumOK
  <2> QED BY <2>1, <2>2, <2>3, <2>4, <1>0, <1>1, <1>3, EnteredTyped DEF Accepted, HeaderOK
<1>5. ASSUME Accepted(r, reg) PROVE Passes(r, reg)
  <2>1. /\ \A e \in Entered(r) : EntryOK(e, r, reg)
        /\ r.body.created \in Nat /\ r.body.created # NoTime
        /\ r.body.class # "other" /\ Entered(r) # {}
    BY <1>5, <1>2 DEF Accepted, NoTime
  <2>2. HeaderOK(r)
    BY <1>5, <2>1, EnteredTyped DEF Accepted, HeaderOK
  <2>3. PolicyOK(r.body) /\ (r.body.class = "A" => MinSignatures(r.body) >= 2)
    BY <1>5, <2>1, <1>3 DEF Accepted
  <2>4. Signers(r, reg) = kids /\ roles = {reg[k].role : k \in kids}
    BY <2>1, <1>1
  <2>5. Cardinality(kids) >= r.body.min /\ r.body.roles \subseteq roles
    BY <1>5, <2>4, <1>0 DEF Accepted, Bodies
  <2>6. QuorumOK(r.body, Cardinality(kids), roles)
    BY <2>3, <2>5, <1>3 DEF QuorumOK
  <2>7. DOMAIN reg # {}
    BY <2>1 DEF EntryOK
  <2> QED BY <2>1, <2>2, <2>3, <2>6, <2>7 DEF Passes
<1> QED BY <1>4, <1>5

----------------------------------------------------------------------------
(* The loop.  What makes the verdict right is what each stage has established: *)
(* the issues are those of the checks made so far, and the keys seen those of  *)
(* the entries without one.                                                    *)

OKs == {i \in 1 .. next - 1 : EntryOK(receipt.signatures[i], receipt, registry)}

Counted ==
    /\ seen = {receipt.signatures[i].kid : i \in OKs}
    /\ matched = {receipt.signatures[i].role : i \in OKs}
    /\ IsFiniteSet(seen) /\ valid = Cardinality(seen)

SoFar == /\ PolicyOK(receipt.body) /\ HeaderOK(receipt)
         /\ \A i \in 1 .. next - 1 : EntryOK(receipt.signatures[i], receipt, registry)

Stages ==
    /\ pc = "policy" => ~errors /\ next = 1
    /\ pc = "header" =>
         next = 1 /\ DOMAIN registry # {} /\ (errors <=> ~PolicyOK(receipt.body))
    /\ pc = "signatures" => DOMAIN registry # {} /\ (errors <=> ~SoFar)
    /\ pc = "done" =>
         IF DOMAIN registry = {} THEN status = "CONFIG_ERROR"
         ELSE /\ next = Len(receipt.signatures) + 1
              /\ status = "RC_VERIFIED" <=>
                   SoFar /\ QuorumOK(receipt.body, valid, matched)

Inv == TypeOK /\ Counted /\ Stages

LEMMA EntryTyped ==
    ASSUME TypeOK, Looking PROVE Entry \in Entries /\ next \in 1 .. Len(receipt.signatures)
<1>1. receipt.signatures \in Seq(Entries)
  BY DEF TypeOK, ReceiptSpace
<1>2. next \in 1 .. Len(receipt.signatures)
  BY <1>1 DEF TypeOK, Looking
<1> QED BY <1>1, <1>2, ElementOfSeq DEF Entry

LEMMA InitInv == Init => Inv
<1> SUFFICES ASSUME Init PROVE Inv
  OBVIOUS
<1>1. receipt \in ReceiptSpace /\ IsRegistry(registry)
  BY InputsAssumption DEF Init
<1>2. Len(receipt.signatures) \in Nat
  BY <1>1 DEF ReceiptSpace
<1>3. OKs = {}
  BY DEF Init, OKs
<1>4. TypeOK
  <2>1. next \in 1 .. Len(receipt.signatures) + 1
    BY <1>2 DEF Init
  <2>2. /\ pc = "policy" /\ errors = FALSE /\ seen = {} /\ valid = 0
        /\ matched = {} /\ status = "none"
    BY DEF Init
  <2> QED BY <1>1, <2>1, <2>2 DEF TypeOK
<1>5. Counted
  <2>1. seen = {} /\ matched = {} /\ valid = 0
    BY DEF Init
  <2>2. IsFiniteSet(seen) /\ valid = Cardinality(seen)
    BY <2>1, FS_EmptySet
  <2>3. /\ seen = {receipt.signatures[i].kid : i \in OKs}
        /\ matched = {receipt.signatures[i].role : i \in OKs}
    BY <1>3, <2>1
  <2> QED BY <2>2, <2>3 DEF Counted
<1>6. Stages
  BY DEF Init, Stages
<1> QED BY <1>4, <1>5, <1>6 DEF Inv

\* A step of the loop: the entry looked at joins those behind it.
LEMMA Advance ==
    ASSUME TypeOK, Looking, next' = next + 1, UNCHANGED arguments
    PROVE  /\ next' \in 1 .. Len(receipt'.signatures) + 1
           /\ OKs' = IF EntryOK(Entry, receipt, registry) THEN OKs \cup {next} ELSE OKs
           /\ SoFar' <=> SoFar /\ EntryOK(Entry, receipt, registry)
<1>1. next \in Nat \ {0} /\ next' - 1 = next /\ next <= Len(receipt.signatures)
      /\ Len(receipt.signatures) \in Nat
  BY EntryTyped DEF TypeOK, Looking, ReceiptSpace
<1>2. 1 .. next' - 1 = (1 .. next - 1) \cup {next} /\ next \notin 1 .. next - 1
  BY <1>1
<1>3. receipt' = receipt /\ registry' = registry
  BY DEF arguments
<1> QED BY <1>1, <1>2, <1>3 DEF OKs, SoFar, Entry

LEMMA StepInv == Inv /\ [Next]_vars => Inv'
<1> SUFFICES ASSUME Inv, [Next]_vars PROVE Inv'
  OBVIOUS
<1> USE DEF arguments
<1>0. receipt \in ReceiptSpace /\ Len(receipt.signatures) \in Nat
  BY DEF Inv, TypeOK, ReceiptSpace
<1>1. CASE CheckPolicy
  <2>1. OKs' = OKs
    BY <1>1 DEF CheckPolicy, OKs
  <2> QED BY <1>0, <1>1, <2>1 DEF CheckPolicy, Inv, TypeOK, Counted, Stages
<1>2. CASE CheckHeader
  <2>1. OKs' = OKs /\ (SoFar' <=> PolicyOK(receipt.body) /\ HeaderOK(receipt))
    BY <1>2 DEF CheckHeader, OKs, SoFar, Inv, Stages
  <2> QED BY <1>0, <1>2, <2>1 DEF CheckHeader, Inv, TypeOK, Counted, Stages
<1>3. CASE SkipSignature
  <2>1. /\ next' \in 1 .. Len(receipt'.signatures) + 1 /\ OKs' = OKs /\ ~SoFar'
    BY <1>3, Advance DEF SkipSignature, Inv
  <2> QED BY <1>3, <2>1 DEF SkipSignature, Looking, Inv, TypeOK, Counted, Stages
<1>4. CASE IgnoreDuplicate
  <2>1. /\ next' \in 1 .. Len(receipt'.signatures) + 1 /\ OKs' = OKs \cup {next}
        /\ SoFar' <=> SoFar
    BY <1>4, Advance DEF IgnoreDuplicate, Inv
  <2>2. PICK i \in OKs : receipt.signatures[i].kid = Entry.kid
    BY <1>4 DEF IgnoreDuplicate, Inv, Counted
  <2>3. receipt.signatures[i].role = Entry.role
    BY <1>4, <2>2 DEF IgnoreDuplicate, OKs, EntryOK
  <2>4. Counted'
    BY <1>4, <2>1, <2>2, <2>3 DEF IgnoreDuplicate, Inv, Counted, Entry
  <2> QED BY <1>4, <2>1, <2>4 DEF IgnoreDuplicate, Looking, Inv, TypeOK, Stages
<1>5. CASE CountSignature
  <2>1. /\ next' \in 1 .. Len(receipt'.signatures) + 1 /\ OKs' = OKs \cup {next}
        /\ SoFar' <=> SoFar
    BY <1>5, Advance DEF CountSignature, Inv
  <2>2. Entry \in Entries /\ Entry.kid \in DOMAIN registry
    BY <1>5, EntryTyped DEF CountSignature, Inv, EntryOK
  <2>3. IsFiniteSet(seen') /\ valid' = Cardinality(seen')
    BY <1>5, FS_AddElement DEF CountSignature, Inv, Counted
  <2>4. Counted'
    BY <1>5, <2>1, <2>3 DEF CountSignature, Inv, Counted, Entry
  <2>5. TypeOK'
    BY <1>5, <2>1, <2>2 DEF CountSignature, Looking, Inv, TypeOK, Entries
  <2> QED BY <1>5, <2>1, <2>4, <2>5 DEF CountSignature, Looking, Inv, Stages
<1>6. CASE Conclude
  <2>1. OKs' = OKs /\ (SoFar' <=> SoFar)
    BY <1>6 DEF Conclude, OKs, SoFar
  <2>2. next = Len(receipt.signatures) + 1
    BY <1>0, <1>6 DEF Conclude, Inv, TypeOK
  <2>3. TypeOK'
    BY <1>6 DEF Conclude, Inv, TypeOK
  <2>4. Counted'
    BY <1>6, <2>1 DEF Conclude, Inv, Counted
  <2>5. Stages'
    BY <1>6, <2>1, <2>2 DEF Conclude, Inv, Stages
  <2> QED BY <2>3, <2>4, <2>5 DEF Inv
<1>7. CASE UNCHANGED vars
  BY <1>7 DEF vars, Inv, TypeOK, Counted, Stages, OKs, SoFar
<1> QED BY <1>1, <1>2, <1>3, <1>4, <1>5, <1>6, <1>7 DEF Next

\* The variables keep their types, and no result says verified with an error.
THEOREM TypeCorrect == Spec => []TypeOK
BY InitInv, StepInv, PTL DEF Spec, Inv

\* Each key counts once towards the quorum, whatever the order and the number of
\* its signatures.
THEOREM CountsDistinctKeys == Spec => []QuorumIsDistinct
<1>1. Inv => QuorumIsDistinct
  <2> SUFFICES ASSUME Inv PROVE matched = {registry[k].role : k \in seen}
    BY DEF Inv, Counted, QuorumIsDistinct
  <2>1. \A i \in OKs : receipt.signatures[i].role = registry[receipt.signatures[i].kid].role
    BY DEF OKs, EntryOK
  <2> QED BY <2>1 DEF Inv, Counted
<1> QED BY <1>1, InitInv, StepInv, PTL DEF Spec

\* The status is RC_VERIFIED exactly for the receipts the production gate describes.
THEOREM VerdictCorrect == Spec => []VerdictIsAccepted
<1>1. Inv => VerdictIsAccepted
  <2> SUFFICES ASSUME Inv, pc = "done"
               PROVE  status = "RC_VERIFIED" <=> Passes(receipt, registry)
    BY PassesIsAccepted DEF Inv, TypeOK, VerdictIsAccepted
  <2>1. CASE DOMAIN registry = {}
    BY <2>1 DEF Inv, Stages, Passes
  <2>2. CASE DOMAIN registry # {}
    <3>1. /\ next = Len(receipt.signatures) + 1
          /\ status = "RC_VERIFIED" <=> SoFar /\ QuorumOK(receipt.body, valid, matched)
      BY <2>2 DEF Inv, Stages
    <3>2. DOMAIN receipt.signatures = 1 .. next - 1
      BY <3>1 DEF Inv, TypeOK, ReceiptSpace
    <3>3. SoFar <=> /\ PolicyOK(receipt.body) /\ HeaderOK(receipt)
                    /\ \A e \in Entered(receipt) : EntryOK(e, receipt, registry)
      BY <3>2 DEF SoFar, Entered
    <3>4. ASSUME SoFar
          PROVE  /\ seen = {e.kid : e \in Entered(receipt)}
                 /\ matched = {e.role : e \in Entered(receipt)}
      <4>1. OKs = DOMAIN receipt.signatures
        BY <3>2, <3>4 DEF OKs, SoFar
      <4> QED BY <4>1 DEF Inv, Counted, Entered
    <3> QED BY <2>2, <3>1, <3>3, <3>4 DEF Inv, Counted, Passes
  <2> QED BY <2>1, <2>2
<1> QED BY <1>1, InitInv, StepInv, PTL DEF Spec

----------------------------------------------------------------------------
(* ReleaseGate.  What the job has read of a path is either what the commit     *)
(* has or the path is dirty, and a dirty path stays dirty; so a path that git  *)
(* status finds clean was clean whenever it was read.                          *)

\* The checkout differs from the commit at p, and in the index.
Dirty(p) == tree[p] # CommitTree[p]
IndexDirty == index # Committed

\* What was read of p is what the commit has.
Genuine(p) == /\ \A b \in built : b[1] = p => b[2] = CommitTree[p]
              /\ \A r \in records : r[1] = p => r[2] = 0 /\ r[3] = 0

Before == step \in {"workflows", "tests", "build"} =>
             records = {} /\ opened = {} /\ toHash = {}
NothingBuilt == step \in {"workflows", "tests"} => built = {}
AllBuilt == /\ step = "build" => \A p \in Paths \ toCompare : \E b \in built : b[1] = p
            /\ step \in {"hash", "status", "validated"} => \A p \in Paths : \E b \in built : b[1] = p
BuiltInv == \A b \in built : b[2] = CommitTree[b[1]] \/ Dirty(b[1])

FromCommit(p, content) == p \in Committed /\ (content = 0 \/ Dirty(p))
ListedInv == step = "hash" /\ ~IndexDirty => toHash \subseteq Committed
OpenedInv == \A o \in opened : IndexDirty \/ FromCommit(o[1], o[2])
RecordsInv == \A r \in records : \/ IndexDirty /\ step \notin {"status", "validated"}
                                 \/ FromCommit(r[1], r[2]) /\ FromCommit(r[1], r[3])
AllRecorded ==
    /\ step = "hash" /\ ~IndexDirty =>
          \A p \in Committed : \/ p \in toHash
                               \/ \E o \in opened : o[1] = p
                               \/ \E r \in records : r[1] = p
    /\ step \in {"status", "validated"} => \A p \in Committed : \E r \in records : r[1] = p
Compared == /\ step = "status" => \A p \in Paths \ toCompare : Genuine(p)
            /\ step = "validated" => \A p \in Paths : Genuine(p)

GateInv == /\ GateTypeOK /\ Before /\ NothingBuilt /\ AllBuilt /\ BuiltInv
           /\ ListedInv /\ OpenedInv /\ RecordsInv /\ AllRecorded /\ Compared

----------------------------------------------------------------------------
(* Type correctness *)

LEMMA CommitTreeType ==
    /\ CommitTree \in [Paths -> Int]
    /\ \A p \in Committed : p \in Paths /\ CommitTree[p] = 0
    /\ \A p \in Paths \ Committed : CommitTree[p] = Gone
  BY PathsAssumption DEF CommitTree, Gone

LEMMA TypeInit == GateInit => GateTypeOK
  BY CommitTreeType, PathsAssumption DEF GateInit, GateTypeOK

LEMMA TypeStep == GateTypeOK /\ GateStep => GateTypeOK'
  <1> SUFFICES ASSUME GateTypeOK, GateStep PROVE GateTypeOK'
    OBVIOUS
  <1> USE DEF GateTypeOK
  <1>a. ASSUME Abort PROVE GateTypeOK'
    BY <1>a DEF Abort, ReadsOnly
  <1>1. CASE ValidateWorkflows
    BY <1>1, <1>a DEF ValidateWorkflows, ReadsOnly
  <1>2. CASE RunTests
    BY <1>2, <1>a DEF RunTests, ReadsOnly
  <1>3. CASE ListTracked
    BY <1>3 DEF ListTracked, ReadsOnly
  <1>4. CASE HashRest
    <2>1. PICK o \in opened : records' = records \cup {<<o[1], o[2], Rest(o[1], o[2])>>}
      BY <1>4 DEF HashRest
    <2>2. o[1] \in Paths /\ o[2] \in Int /\ Rest(o[1], o[2]) \in Int
      BY DEF Rest
    <2> QED
      BY <1>4, <2>1, <2>2 DEF HashRest, ReadsOnly
  <1>5. CASE WriteManifest
    BY <1>5 DEF WriteManifest, ReadsOnly
  <1>6. CASE FinalResult
    BY <1>6 DEF FinalResult, ReadsOnly
  <1>7. ASSUME NEW p \in Paths, Build(p) PROVE GateTypeOK'
    BY <1>7 DEF Build, ReadsOnly
  <1>8. ASSUME NEW p \in Paths, HashFirst(p) PROVE GateTypeOK'
    BY <1>8, <1>a DEF HashFirst, ReadsOnly
  <1>9. ASSUME NEW p \in Paths, Compare(p) PROVE GateTypeOK'
    BY <1>9, <1>a DEF Compare, ReadsOnly
  <1>10. ASSUME NEW p \in Paths, Meddle(p) PROVE GateTypeOK'
    <2>1. changes' \in 0 .. MaxChanges
      BY <1>10, PathsAssumption DEF Meddle
    <2>2. tree' \in [Paths -> Int] /\ index' \subseteq Paths
      BY <1>10, PathsAssumption DEF Meddle, Gone
    <2> QED
      BY <1>10, <2>1, <2>2 DEF Meddle, Running
  <1> QED
    BY <1>1, <1>2, <1>3, <1>4, <1>5, <1>6, <1>7, <1>8, <1>9, <1>10 DEF GateStep

\* The variables keep their types; one file is open at a time, while hashing.
THEOREM GateTypeCorrect == GateSpec => []GateTypeOK
  <1>1. WorkflowInit /\ GateInit => GateTypeOK
    BY TypeInit
  <1>2. GateTypeOK /\ [GateNext]_<<gateVars, workflowVars>> => GateTypeOK'
    <2> SUFFICES ASSUME GateTypeOK, [GateNext]_<<gateVars, workflowVars>> PROVE GateTypeOK'
      OBVIOUS
    <2>1. CASE GateStep
      BY <2>1, TypeStep
    <2>2. CASE UNCHANGED gateVars
      BY <2>2 DEF gateVars, GateTypeOK
    <2> QED
      BY <2>1, <2>2 DEF GateNext
  <1> QED
    BY <1>1, <1>2, PTL DEF GateSpec

----------------------------------------------------------------------------
(* The evidence *)

\* A change is never undone.
LEMMA DirtyStays ==
    ASSUME GateTypeOK, NEW p \in Paths, Meddle(p)
    PROVE  /\ \A q \in Paths : Dirty(q) => Dirty(q)'
           /\ IndexDirty => IndexDirty'
           /\ UNCHANGED <<step, built, toHash, opened, records, toCompare>>
  <1>1. \A q \in Paths : Dirty(q) => Dirty(q)'
    <2> SUFFICES ASSUME NEW q \in Paths, Dirty(q) PROVE Dirty(q)'
      OBVIOUS
    <2>1. changes \in Nat /\ tree \in [Paths -> Int]
      BY PathsAssumption DEF GateTypeOK
    <2>2. CASE tree' = [tree EXCEPT ![p] = changes + 1]
      BY <2>1, <2>2, CommitTreeType DEF Dirty, Gone, CommitTree
    <2>3. CASE p \in Committed /\ tree' = [tree EXCEPT ![p] = Gone]
      BY <2>1, <2>3, CommitTreeType DEF Dirty, Gone, CommitTree
    <2>4. CASE UNCHANGED tree
      BY <2>4 DEF Dirty, CommitTree
    <2> QED
      BY <2>2, <2>3, <2>4 DEF Meddle
  <1>2. IndexDirty => IndexDirty'
    BY DEF Meddle, IndexDirty
  <1> QED
    BY <1>1, <1>2 DEF Meddle

LEMMA EvidenceInit == GateInit => GateInv
  BY TypeInit DEF GateInit, GateInv, Before, NothingBuilt, AllBuilt, BuiltInv, ListedInv,
                  OpenedInv, RecordsInv, AllRecorded, Compared

\* A step that ends the job leaves the evidence alone.
LEMMA AbortKeeps == ASSUME GateInv, Abort, GateTypeOK' PROVE GateInv'
  <1>1. BuiltInv' /\ OpenedInv' /\ RecordsInv'
    BY DEF GateInv, Abort, ReadsOnly, BuiltInv, OpenedInv, RecordsInv, FromCommit,
           Dirty, IndexDirty, CommitTree
  <1> QED
    BY <1>1 DEF GateInv, Abort, Before, NothingBuilt, AllBuilt, ListedInv, AllRecorded, Compared

LEMMA BuildKeeps == ASSUME GateInv, NEW p \in Paths, Build(p), GateTypeOK' PROVE GateInv'
  <1> USE DEF GateInv, Build, ReadsOnly, GateTypeOK
  <1>1. AllBuilt'
    <2> DEFINE e == <<p, tree[p]>>
    <2>1. e \in built' /\ e[1] = p
      OBVIOUS
    <2> QED
      BY <2>1 DEF AllBuilt
  <1>2. BuiltInv'
    BY DEF BuiltInv, Dirty, CommitTree
  <1>3. Before' /\ NothingBuilt' /\ ListedInv' /\ AllRecorded' /\ Compared'
    BY DEF Before, NothingBuilt, ListedInv, AllRecorded, Compared
  <1>4. OpenedInv' /\ RecordsInv'
    BY DEF Before, OpenedInv, RecordsInv
  <1> QED
    BY <1>1, <1>2, <1>3, <1>4

LEMMA ListKeeps == ASSUME GateInv, ListTracked, GateTypeOK' PROVE GateInv'
  <1> USE DEF GateInv, ListTracked, ReadsOnly, GateTypeOK
  <1>1. AllBuilt' /\ NothingBuilt'
    BY DEF AllBuilt, NothingBuilt
  <1>2. BuiltInv'
    BY DEF BuiltInv, Dirty, CommitTree
  <1>3. OpenedInv' /\ RecordsInv'
    BY DEF Before, OpenedInv, RecordsInv
  <1>4. Before' /\ ListedInv' /\ AllRecorded' /\ Compared'
    BY DEF Before, ListedInv, AllRecorded, Compared, IndexDirty
  <1> QED
    BY <1>1, <1>2, <1>3, <1>4

LEMMA OpenKeeps == ASSUME GateInv, NEW p \in Paths, HashFirst(p), GateTypeOK' PROVE GateInv'
  <1>0. CASE Abort
    BY <1>0, AbortKeeps
  <1>1. CASE ~Abort
    <2>0. /\ step = "hash" /\ p \in toHash /\ opened = {} /\ tree[p] # Gone
          /\ opened' = {<<p, tree[p]>>} /\ toHash' = toHash \ {p}
          /\ UNCHANGED <<tree, index, changes, step, built, records, toCompare>>
      BY <1>1 DEF HashFirst, ReadsOnly
    <2>1. BuiltInv' /\ RecordsInv'
      BY <2>0 DEF GateInv, BuiltInv, RecordsInv, FromCommit, Dirty, IndexDirty, CommitTree
    <2>2. OpenedInv'
      BY <2>0, CommitTreeType
      DEF GateInv, ListedInv, OpenedInv, FromCommit, Dirty, IndexDirty, CommitTree
    <2>3. AllRecorded'
      <3>1. \E o \in opened' : o[1] = p
        BY <2>0
      <3> QED
        BY <2>0, <3>1 DEF GateInv, AllRecorded, IndexDirty
    <2>4. Before' /\ NothingBuilt' /\ AllBuilt' /\ ListedInv' /\ Compared'
      BY <2>0 DEF GateInv, Before, NothingBuilt, AllBuilt, ListedInv, Compared, IndexDirty
    <2> QED
      BY <2>1, <2>2, <2>3, <2>4 DEF GateInv
  <1> QED
    BY <1>0, <1>1

LEMMA RecordKeeps == ASSUME GateInv, HashRest, GateTypeOK' PROVE GateInv'
  <1>0. PICK o \in opened : records' = records \cup {<<o[1], o[2], Rest(o[1], o[2])>>}
    BY DEF HashRest
  <1> USE DEF HashRest, ReadsOnly
  <1>1. BuiltInv' /\ OpenedInv'
    BY DEF GateInv, BuiltInv, OpenedInv, Dirty, CommitTree
  <1>2. IndexDirty \/ (FromCommit(o[1], o[2]) /\ FromCommit(o[1], Rest(o[1], o[2])))
    <2>1. IndexDirty \/ FromCommit(o[1], o[2])
      BY DEF GateInv, OpenedInv
    <2>2. FromCommit(o[1], o[2]) => FromCommit(o[1], Rest(o[1], o[2]))
      BY CommitTreeType DEF FromCommit, Rest, Dirty
    <2> QED
      BY <2>1, <2>2
  <1>3. RecordsInv'
    BY <1>0, <1>2 DEF GateInv, RecordsInv, FromCommit, Dirty, IndexDirty, CommitTree
  <1>4. AllRecorded'
    <2>1. \A q \in opened : q = o
      BY DEF GateInv, GateTypeOK
    <2>2. \E r \in records' : r[1] = o[1]
      <3> DEFINE e == <<o[1], o[2], Rest(o[1], o[2])>>
      <3>1. e \in records' /\ e[1] = o[1]
        BY <1>0
      <3> QED
        BY <3>1
    <2> QED
      BY <1>0, <2>1, <2>2 DEF GateInv, AllRecorded, IndexDirty
  <1>5. Before' /\ NothingBuilt' /\ AllBuilt' /\ ListedInv' /\ Compared'
    BY DEF GateInv, Before, NothingBuilt, AllBuilt, ListedInv, Compared, IndexDirty
  <1> QED
    BY <1>1, <1>3, <1>4, <1>5 DEF GateInv

LEMMA ManifestKeeps == ASSUME GateInv, WriteManifest, GateTypeOK' PROVE GateInv'
  <1> USE DEF WriteManifest, ReadsOnly
  <1>1. BuiltInv' /\ OpenedInv'
    BY DEF GateInv, BuiltInv, OpenedInv, Dirty, CommitTree
  <1>2. RecordsInv'
    BY DEF GateInv, RecordsInv, FromCommit, Dirty, IndexDirty, CommitTree
  <1>3. Before' /\ NothingBuilt' /\ AllBuilt' /\ ListedInv'
    BY DEF GateInv, Before, NothingBuilt, AllBuilt, ListedInv
  <1>4. AllRecorded'
    BY DEF GateInv, AllRecorded, IndexDirty
  <1>5. Compared'
    BY DEF Compared
  <1> QED
    BY <1>1, <1>2, <1>3, <1>4, <1>5 DEF GateInv

\* The path git status finds clean is one nothing but the commit was read of.
LEMMA CompareKeeps == ASSUME GateInv, NEW p \in Paths, Compare(p), GateTypeOK' PROVE GateInv'
  <1>0. CASE Abort
    BY <1>0, AbortKeeps
  <1>1. CASE ~Abort
    <2>0. /\ step = "status" /\ ~Dirty(p) /\ toCompare' = toCompare \ {p}
          /\ UNCHANGED <<tree, index, changes, step, built, toHash, opened, records>>
      BY <1>1 DEF Compare, ReadsOnly, Dirty
    <2>1. BuiltInv' /\ OpenedInv' /\ RecordsInv'
      BY <2>0 DEF GateInv, BuiltInv, OpenedInv, RecordsInv, FromCommit, Dirty, IndexDirty, CommitTree
    <2>2. Genuine(p)
      BY <2>0 DEF GateInv, BuiltInv, RecordsInv, FromCommit, Genuine
    <2>3. \A q \in Paths : Genuine(q)' <=> Genuine(q)
      BY <2>0 DEF Genuine, CommitTree
    <2>4. Compared'
      BY <2>0, <2>2, <2>3 DEF GateInv, Compared
    <2>5. Before' /\ NothingBuilt' /\ AllBuilt' /\ ListedInv' /\ AllRecorded'
      BY <2>0 DEF GateInv, Before, NothingBuilt, AllBuilt, ListedInv, AllRecorded
    <2> QED
      BY <2>1, <2>4, <2>5 DEF GateInv
  <1> QED
    BY <1>0, <1>1

LEMMA FinalKeeps == ASSUME GateInv, FinalResult, GateTypeOK' PROVE GateInv'
  <1> USE DEF FinalResult, ReadsOnly
  <1>1. BuiltInv' /\ OpenedInv' /\ RecordsInv'
    BY DEF GateInv, BuiltInv, OpenedInv, RecordsInv, FromCommit, Dirty, IndexDirty, CommitTree
  <1>2. Compared'
    BY DEF GateInv, Compared, Genuine, CommitTree
  <1>3. Before' /\ NothingBuilt' /\ AllBuilt' /\ ListedInv' /\ AllRecorded'
    BY DEF GateInv, Before, NothingBuilt, AllBuilt, ListedInv, AllRecorded
  <1> QED
    BY <1>1, <1>2, <1>3 DEF GateInv

LEMMA MeddleKeeps == ASSUME GateInv, NEW p \in Paths, Meddle(p), GateTypeOK' PROVE GateInv'
  <1>0. /\ \A q \in Paths : Dirty(q) => Dirty(q)'
        /\ IndexDirty => IndexDirty'
        /\ UNCHANGED <<step, built, toHash, opened, records, toCompare>>
    BY DirtyStays DEF GateInv
  <1>t. /\ \A b \in built : b[1] \in Paths
        /\ \A o \in opened : o[1] \in Paths
        /\ \A r \in records : r[1] \in Paths
    BY DEF GateInv, GateTypeOK
  <1>c. CommitTree' = CommitTree
    BY DEF CommitTree
  <1>1. BuiltInv'
    BY <1>0, <1>t, <1>c DEF GateInv, BuiltInv
  <1>2. OpenedInv'
    BY <1>0, <1>t DEF GateInv, OpenedInv, FromCommit
  <1>3. RecordsInv'
    BY <1>0, <1>t DEF GateInv, RecordsInv, FromCommit
  <1>4. Compared'
    BY <1>0, <1>c DEF GateInv, Compared, Genuine
  <1>5. Before' /\ NothingBuilt' /\ AllBuilt' /\ ListedInv' /\ AllRecorded'
    BY <1>0 DEF GateInv, Before, NothingBuilt, AllBuilt, ListedInv, AllRecorded
  <1> QED
    BY <1>1, <1>2, <1>3, <1>4, <1>5 DEF GateInv

LEMMA EvidenceStep == GateInv /\ GateStep => GateInv'
  <1> SUFFICES ASSUME GateInv, GateStep PROVE GateInv'
    OBVIOUS
  <1>0. GateTypeOK'
    BY TypeStep DEF GateInv
  <1>1. CASE ValidateWorkflows
    <2>1. CASE Abort
      BY <1>0, <2>1, AbortKeeps
    <2>2. CASE ~Abort
      <3>1. /\ step = "workflows" /\ step' = "tests"
            /\ UNCHANGED <<tree, index, changes, built, toHash, opened, records, toCompare>>
        BY <1>1, <2>2 DEF ValidateWorkflows, ReadsOnly
      <3> QED
        BY <1>0, <3>1 DEF GateInv, Before, NothingBuilt, AllBuilt, BuiltInv, ListedInv,
                          OpenedInv, RecordsInv, AllRecorded, Compared
    <2> QED
      BY <2>1, <2>2
  <1>2. CASE RunTests
    <2>1. CASE Abort
      BY <1>0, <2>1, AbortKeeps
    <2>2. CASE ~Abort
      <3>1. /\ step = "tests" /\ step' = "build" /\ toCompare' = Paths
            /\ UNCHANGED <<tree, index, changes, built, toHash, opened, records>>
        BY <1>2, <2>2 DEF RunTests, ReadsOnly
      <3> QED
        BY <1>0, <3>1 DEF GateInv, Before, NothingBuilt, AllBuilt, BuiltInv, ListedInv,
                          OpenedInv, RecordsInv, AllRecorded, Compared
    <2> QED
      BY <2>1, <2>2
  <1>3. CASE ListTracked
    BY <1>0, <1>3, ListKeeps
  <1>4. CASE HashRest
    BY <1>0, <1>4, RecordKeeps
  <1>5. CASE WriteManifest
    BY <1>0, <1>5, ManifestKeeps
  <1>6. CASE FinalResult
    BY <1>0, <1>6, FinalKeeps
  <1>7. ASSUME NEW p \in Paths, Build(p) PROVE GateInv'
    BY <1>0, <1>7, BuildKeeps
  <1>8. ASSUME NEW p \in Paths, HashFirst(p) PROVE GateInv'
    BY <1>0, <1>8, OpenKeeps
  <1>9. ASSUME NEW p \in Paths, Compare(p) PROVE GateInv'
    BY <1>0, <1>9, CompareKeeps
  <1>10. ASSUME NEW p \in Paths, Meddle(p) PROVE GateInv'
    BY <1>0, <1>10, MeddleKeeps
  <1> QED
    BY <1>1, <1>2, <1>3, <1>4, <1>5, <1>6, <1>7, <1>8, <1>9, <1>10 DEF GateStep

LEMMA GenuineEvidence == GateInv => EvidenceIsOfTheCommit
  <1> SUFFICES ASSUME GateInv, step = "validated"
               PROVE  /\ built = {<<p, CommitTree[p]>> : p \in Paths}
                      /\ records = {<<p, 0, 0>> : p \in Committed}
    BY DEF EvidenceIsOfTheCommit
  <1>1. \A p \in Paths : Genuine(p)
    BY DEF GateInv, Compared
  <1>2. \A b \in built : b[1] \in Paths /\ b = <<b[1], CommitTree[b[1]]>>
    BY <1>1 DEF GateInv, GateTypeOK, Genuine
  <1>3. \A p \in Paths : <<p, CommitTree[p]>> \in built
    BY <1>2 DEF GateInv, AllBuilt
  <1>4. \A r \in records : r[1] \in Committed /\ r = <<r[1], 0, 0>>
    BY <1>1 DEF GateInv, GateTypeOK, Genuine, RecordsInv, FromCommit
  <1>5. \A p \in Committed : <<p, 0, 0>> \in records
    BY <1>4 DEF GateInv, AllRecorded
  <1>6. built = {<<p, CommitTree[p]>> : p \in Paths}
    BY <1>2, <1>3
  <1>7. records = {<<p, 0, 0>> : p \in Committed}
    BY <1>4, <1>5
  <1> QED
    BY <1>6, <1>7

\* The job ends in CANDIDATE_VALIDATED only with evidence of the commit itself, for
\* every checkout and every number of changes made to it while the steps were reading.
THEOREM EvidenceCorrect == GateSpec => []EvidenceIsOfTheCommit
  <1>1. WorkflowInit /\ GateInit => GateInv
    BY EvidenceInit
  <1>2. GateInv /\ [GateNext]_<<gateVars, workflowVars>> => GateInv'
    <2> SUFFICES ASSUME GateInv, [GateNext]_<<gateVars, workflowVars>> PROVE GateInv'
      OBVIOUS
    <2>1. CASE GateStep
      BY <2>1, EvidenceStep
    <2>2. CASE UNCHANGED gateVars
      BY <2>2 DEF gateVars, GateInv, GateTypeOK, Before, NothingBuilt, AllBuilt, BuiltInv,
                  ListedInv, OpenedInv, RecordsInv, AllRecorded, Compared, FromCommit,
                  Genuine, Dirty, IndexDirty, CommitTree
    <2> QED
      BY <2>1, <2>2 DEF GateNext
  <1> QED
    BY <1>1, <1>2, GenuineEvidence, PTL DEF GateSpec

----------------------------------------------------------------------------
(* GoChain, for logs of every length.  While nothing is found fault with, what *)
(* was read is linked and previousHash is the hash of its last record; from    *)
(* the first fault on, the log is known not to be linked up to it.             *)

HashBefore(n) == IF n = 1 THEN Genesis ELSE log[n - 1]

ChainTypeOK == log \in GoLogs /\ Len(log) \in Nat /\ at \in 1 .. Len(log) + 1 /\ faults \subseteq 1 .. at - 1

CleanInv == faults = {} => LinkedUpTo(log, at - 1) /\ previousHash = HashBefore(at)

\* The least record named, if any.
FirstInv == \A f \in faults :
               (\A g \in faults : f <= g) => LinkedUpTo(log, f - 1) /\ ~LinkedUpTo(log, f)

HasLeast == faults = {} \/ \E f \in faults : \A g \in faults : f <= g

ChainInv == ChainTypeOK /\ CleanInv /\ FirstInv /\ HasLeast

LEMMA ChainInvInit == ChainInit => ChainInv
  BY GoLogsAssumption
  DEF ChainInit, ChainInv, ChainTypeOK, CleanInv, FirstInv, HasLeast, LinkedUpTo, HashBefore

\* A record that is in place extends the linked part; one that is not, or is not sound,
\* breaks it.
LEMMA LinkExtends ==
    ASSUME ChainInv, Reading, faults = {}
    PROVE  LinkedUpTo(log, at) <=> Sound(log[at]) /\ InPlace(log[at])
  <1>1. at \in Nat /\ at >= 1
    BY DEF ChainInv, ChainTypeOK
  <1>2. LinkedUpTo(log, at) <=> /\ LinkedUpTo(log, at - 1)
                                /\ Sound(log[at]) /\ log[at].sequence = at
                                /\ log[at].previous = HashBefore(at)
    BY <1>1 DEF LinkedUpTo, HashBefore
  <1> QED
    BY <1>2 DEF ChainInv, CleanInv, InPlace

\* Naming the record read, on top of what was named.
LEMMA FaultKeepsFirst ==
    ASSUME ChainInv, Reading, faults # {} \/ ~LinkedUpTo(log, at),
           faults' = faults \cup {at}, at' = at + 1, log' = log
    PROVE  ChainInv'
  <1>1. ChainTypeOK'
    BY DEF ChainInv, ChainTypeOK, Reading
  <1>2. CleanInv'
    BY DEF CleanInv
  <1>3. FirstInv'
    <2> SUFFICES ASSUME NEW f \in faults', \A g \in faults' : f <= g
                 PROVE  LinkedUpTo(log, f - 1) /\ ~LinkedUpTo(log, f)
      BY DEF FirstInv, LinkedUpTo
    <2>1. CASE faults = {}
      BY <2>1 DEF ChainInv, CleanInv
    <2>2. CASE faults # {}
      <3>1. PICK g \in faults : TRUE
        BY <2>2
      <3>2. f <= g /\ g < at /\ at \in Nat /\ g \in Nat /\ f \in Nat
        BY DEF ChainInv, ChainTypeOK
      <3>3. f \in faults
        BY <3>2
      <3> QED
        BY <3>3 DEF ChainInv, FirstInv
    <2> QED
      BY <2>1, <2>2
  <1>4. HasLeast'
    <2>1. CASE faults = {}
      BY <2>1 DEF ChainInv, ChainTypeOK, HasLeast
    <2>2. CASE faults # {}
      <3>1. PICK f \in faults : \A g \in faults : f <= g
        BY <2>2 DEF ChainInv, HasLeast
      <3>2. f <= at
        BY DEF ChainInv, ChainTypeOK
      <3> QED
        BY <3>1, <3>2 DEF HasLeast
    <2> QED
      BY <2>1, <2>2
  <1> QED
    BY <1>1, <1>2, <1>3, <1>4 DEF ChainInv

LEMMA ChainInvStep == ChainInv /\ [ChainNext]_chainVars => ChainInv'
  <1> SUFFICES ASSUME ChainInv, [ChainNext]_chainVars PROVE ChainInv'
    OBVIOUS
  <1>1. CASE PassOver \/ HashFails
    <2>1. faults # {} \/ ~LinkedUpTo(log, at)
      BY <1>1, LinkExtends DEF PassOver, HashFails, Valid, Sound
    <2> QED
      BY <1>1, <2>1, FaultKeepsFirst DEF PassOver, HashFails
  <1>2. CASE Link /\ InPlace(log[at])
    <2>0. /\ Reading /\ Sound(log[at]) /\ InPlace(log[at]) /\ faults' = faults
          /\ previousHash' = log[at] /\ at' = at + 1 /\ log' = log
      BY <1>2 DEF Link, Hash
    <2>1. ChainTypeOK'
      BY <2>0 DEF ChainInv, ChainTypeOK, Reading
    <2>2. CleanInv'
      <3> SUFFICES ASSUME faults = {} PROVE LinkedUpTo(log, at) /\ previousHash' = HashBefore(at)'
        BY <2>0, <2>1 DEF CleanInv, LinkedUpTo, ChainInv, ChainTypeOK
      <3>1. LinkedUpTo(log, at)
        BY <2>0, LinkExtends
      <3>2. previousHash' = HashBefore(at)'
        BY <2>0 DEF HashBefore, ChainInv, ChainTypeOK
      <3> QED
        BY <3>1, <3>2
    <2>3. FirstInv' /\ HasLeast'
      BY <2>0 DEF ChainInv, FirstInv, HasLeast, LinkedUpTo
    <2> QED
      BY <2>1, <2>2, <2>3 DEF ChainInv
  <1>3. CASE Link /\ ~InPlace(log[at])
    <2>1. faults # {} \/ ~LinkedUpTo(log, at)
      BY <1>3, LinkExtends DEF Link
    <2> QED
      BY <1>3, <2>1, FaultKeepsFirst DEF Link
  <1>4. CASE UNCHANGED chainVars
    BY <1>4 DEF chainVars, ChainInv, ChainTypeOK, CleanInv, FirstInv,
                HasLeast, LinkedUpTo, HashBefore
  <1> QED
    BY <1>1, <1>2, <1>3, <1>4 DEF ChainNext

\* A log with a fault is not linked: it is not linked up to its least one.
LEMMA FirstFault == ChainInv => FirstFaultIsFirstBreak
  <1> SUFFICES ASSUME ChainInv, ChainRead
               PROVE  /\ faults = {} <=> LinkedUpTo(log, Len(log))
                      /\ FirstInv
    BY DEF FirstFaultIsFirstBreak, FirstInv
  <1>1. faults = {} => LinkedUpTo(log, Len(log))
    BY DEF ChainInv, CleanInv, ChainTypeOK, ChainRead
  <1>2. faults # {} => ~LinkedUpTo(log, Len(log))
    <2> SUFFICES ASSUME faults # {} PROVE ~LinkedUpTo(log, Len(log))
      OBVIOUS
    <2>1. PICK f \in faults : \A g \in faults : f <= g
      BY DEF ChainInv, HasLeast
    <2>2. ~LinkedUpTo(log, f)
      BY <2>1 DEF ChainInv, FirstInv
    <2>3. f \in Nat /\ Len(log) \in Nat /\ f <= Len(log)
      BY DEF ChainInv, ChainTypeOK, ChainRead
    <2> QED
      BY <2>2, <2>3 DEF LinkedUpTo
  <1> QED
    BY <1>1, <1>2 DEF ChainInv

\* result.OK exactly when the log is linked, and the first record named is where it
\* stops being so, for logs of every length.
THEOREM ChainCorrect == ChainSpec => []FirstFaultIsFirstBreak
  BY ChainInvInit, ChainInvStep, FirstFault, PTL DEF ChainSpec

\* The chain stands at the last sound record read, whatever was passed over since; the
\* records before it are named as that demands.
Passed(i, j) == Sound(log[i]) /\ \A k \in i + 1 .. j - 1 : ~Sound(log[k])
Named(i, j) == j \notin faults <=> (log[j].sequence = j /\ log[j].previous = log[i])

PassInv ==
    /\ \A i \in 1 .. at - 1 : Passed(i, at) => previousHash = log[i]
    /\ \A i, j \in 1 .. at - 1 : i < j /\ Sound(log[j]) /\ Passed(i, j) => Named(i, j)

LEMMA PassInvStep == ChainInv /\ PassInv /\ [ChainNext]_chainVars => PassInv'
  <1> SUFFICES ASSUME ChainInv, PassInv, [ChainNext]_chainVars PROVE PassInv'
    OBVIOUS
  <1>0. at \in Nat /\ at >= 1 /\ faults \subseteq 1 .. at - 1
    BY DEF ChainInv, ChainTypeOK
  <1>1. CASE PassOver \/ HashFails
    <2>0. ~Sound(log[at]) /\ faults' = faults \cup {at} /\ at' = at + 1 /\ UNCHANGED <<log, previousHash>>
      BY <1>1 DEF PassOver, HashFails, Valid, Sound
    <2>1. ASSUME NEW i \in 1 .. at' - 1, Passed(i, at + 1) PROVE previousHash' = log[i]
      <3>1. i # at
        BY <2>0, <2>1 DEF Passed
      <3>2. i \in 1 .. at - 1 /\ Passed(i, at)
        BY <1>0, <2>0, <2>1, <3>1 DEF Passed
      <3> QED
        BY <2>0, <3>2 DEF PassInv
    <2>2. ASSUME NEW i \in 1 .. at' - 1, NEW j \in 1 .. at' - 1, i < j, Sound(log[j]), Passed(i, j)
          PROVE  Named(i, j)'
      <3>1. j # at /\ i \in 1 .. at - 1 /\ j \in 1 .. at - 1
        BY <1>0, <2>0, <2>2
      <3>2. Named(i, j)
        BY <2>2, <3>1 DEF PassInv
      <3> QED
        BY <2>0, <3>1, <3>2 DEF Named
    <2> QED
      BY <2>0, <2>1, <2>2 DEF PassInv, Passed
  <1>2. CASE Link
    <2>0. /\ Sound(log[at]) /\ previousHash' = log[at] /\ at' = at + 1 /\ log' = log
          /\ faults' = IF InPlace(log[at]) THEN faults ELSE faults \cup {at}
      BY <1>2 DEF Link, Hash
    <2>1. ASSUME NEW i \in 1 .. at' - 1, Passed(i, at + 1) PROVE previousHash' = log[i]
      <3>1. i = at
        BY <1>0, <2>0, <2>1 DEF Passed
      <3> QED
        BY <2>0, <3>1
    <2>2. ASSUME NEW i \in 1 .. at' - 1, NEW j \in 1 .. at' - 1, i < j, Sound(log[j]), Passed(i, j)
          PROVE  Named(i, j)'
      <3>1. i \in 1 .. at - 1
        BY <1>0, <2>0, <2>2
      <3>2. CASE j \in 1 .. at - 1
        <4>1. Named(i, j)
          BY <2>2, <3>1, <3>2 DEF PassInv
        <4> QED
          BY <1>0, <2>0, <3>2, <4>1 DEF Named
      <3>3. CASE j = at
        <4>1. previousHash = log[i]
          BY <2>2, <3>1, <3>3 DEF PassInv
        <4>2. at \notin faults
          BY <1>0
        <4> QED
          BY <2>0, <3>3, <4>1, <4>2 DEF Named, InPlace
      <3> QED
        BY <1>0, <2>0, <3>2, <3>3
    <2> QED
      BY <2>0, <2>1, <2>2 DEF PassInv, Passed
  <1>3. CASE UNCHANGED chainVars
    BY <1>3 DEF chainVars, PassInv, Passed, Named
  <1> QED
    BY <1>1, <1>2, <1>3 DEF ChainNext

\* A record without a hash is no link: the next sound record is named unless it is chained
\* to the last sound one before it, in logs of every length.
THEOREM PassingOverCorrect == ChainSpec => []PassedOverIsNoLink
  <1>1. ChainInit => PassInv
    BY DEF ChainInit, PassInv
  <1>2. ChainInv /\ PassInv => PassedOverIsNoLink
    <2> SUFFICES ASSUME ChainInv, PassInv, ChainRead, NEW i \in 1 .. Len(log), NEW j \in 1 .. Len(log),
                        i < j, Sound(log[i]), Sound(log[j]), \A k \in i + 1 .. j - 1 : ~Sound(log[k])
                 PROVE  j \notin faults <=> (log[j].sequence = j /\ log[j].previous = log[i])
      BY DEF PassedOverIsNoLink
    <2>1. at - 1 = Len(log)
      BY DEF ChainRead, ChainInv, ChainTypeOK
    <2> QED
      BY <2>1 DEF PassInv, Passed, Named
  <1> QED
    BY <1>1, <1>2, ChainInvInit, ChainInvStep, PassInvStep, PTL DEF ChainSpec

----------------------------------------------------------------------------
(* AzureCliSigner *)

\* What the call under way may still send to the vault.
Unsent == IF az = "running" \/ (az = "none" /\ Calling) THEN 1 ELSE 0

\* What was sent is a request that was checked, and every call sends one at most: what
\* the key has signed, what the vault has yet to sign and what may still be sent are no
\* more than the calls, however many of them timed out.
AzureInv == /\ request \in Contract!Requests /\ az \in {"none", "running", "sent"}
            /\ calls \in Nat /\ keySigned \in Nat /\ vault \in Nat
            /\ az # "none" => Calling
            /\ az # "none" \/ vault > 0 => RequestOK(request)
            /\ keySigned + vault + Unsent <= calls

LEMMA AzureInvInit == AzureInit => AzureInv /\ Contract!SignerInit
  BY CallsAssumption DEF AzureInit, AzureInv, Unsent, Calling, Contract!SignerInit

\* What sign_digest returns is a result that finalize_receipt_signature attaches.
LEMMA ExitAnswers ==
    ASSUME Exits, reply' # Raised
    PROVE  reply' \in Contract!Results /\ Contract!Attachable(reply')
  <1>1. PICK out \in Printed :
            Parses(out) /\ reply' = [alg |-> "ES256", key |-> out.kid, value |-> Given(out)]
    BY DEF Exits
  <1>2. out.kid = "own" /\ Given(out) = "raw64"
    BY <1>1 DEF Parses, DecodesStrict
  <1> QED
    BY <1>1, <1>2 DEF Contract!Results, Contract!Attachable, Contract!Decodes

LEMMA AzureInvStep == AzureInv /\ [AzureNext]_azureVars => AzureInv'
  <1> SUFFICES ASSUME AzureInv, [AzureNext]_azureVars PROVE AzureInv'
    OBVIOUS
  <1>1. CASE Run
    BY <1>1, CallsAssumption DEF Run, AzureInv, Unsent, Calling
  <1>2. CASE Send
    BY <1>2 DEF Send, AzureInv, Unsent, Calling
  <1>3. CASE VaultSigns
    BY <1>3 DEF VaultSigns, AzureInv, Unsent, Calling
  <1>4. CASE TimesOut
    BY <1>4, CallsAssumption DEF TimesOut, AzureInv, Unsent, Calling
  <1>5. CASE CallAgain
    BY <1>5, CallsAssumption DEF CallAgain, AzureInv, Unsent, Calling
  <1>6. CASE Exits
    <2>1. reply' # Waiting
      BY <1>6, ExitAnswers, CallsAssumption
    <2> QED
      BY <1>6, <2>1 DEF Exits, AzureInv, Unsent, Calling
  <1>7. CASE UNCHANGED azureVars
    BY <1>7 DEF azureVars, AzureInv, Unsent, Calling
  <1> QED
    BY <1>1, <1>2, <1>3, <1>4, <1>5, <1>6, <1>7 DEF AzureNext

LEMMA AzureStepImplements ==
    AzureInv /\ [AzureNext]_azureVars => [Contract!SignerNext]_(Contract!signerVars)
  <1> SUFFICES ASSUME AzureInv, [AzureNext]_azureVars
               PROVE  [Contract!SignerNext]_(Contract!signerVars)
    OBVIOUS
  <1>1. CASE Run \/ TimesOut
    BY <1>1 DEF Run, TimesOut, Calling, Contract!Raises, Contract!SignerNext, Contract!signerVars
  <1>2. CASE Send \/ UNCHANGED azureVars
    BY <1>2 DEF Send, azureVars, Contract!signerVars
  <1>3. CASE VaultSigns
    <2>1. RequestOK(request) /\ keySigned < calls
      BY <1>3 DEF VaultSigns, AzureInv, Unsent
    <2> QED
      BY <1>3, <2>1 DEF VaultSigns, RequestOK, Contract!KeySigns, Contract!WellFormed, Contract!SignerNext
  <1>4. CASE CallAgain
    BY <1>4 DEF CallAgain, Contract!CalledAgain, Contract!SignerNext
  <1>5. CASE Exits
    <2>1. reply = Waiting /\ UNCHANGED <<request, calls, keySigned>> /\ RequestOK(request)
      BY <1>5 DEF Exits, Calling, AzureInv
    <2>2. CASE reply' = Raised
      BY <2>1, <2>2 DEF Contract!Raises, Contract!SignerNext
    <2>3. CASE reply' # Raised
      <3>1. reply' \in Contract!Results /\ Contract!Attachable(reply')
        BY <1>5, <2>3, ExitAnswers
      <3> QED
        BY <2>1, <3>1 DEF Contract!Answers, Contract!WellFormed, Contract!SignerNext, RequestOK
    <2> QED
      BY <2>2, <2>3
  <1> QED
    BY <1>1, <1>2, <1>3, <1>4, <1>5 DEF AzureNext

\* ImplementsDigestSigner: the Azure CLI signer is what the receipt side expects of a digest
\* signer, for any number of calls: only a checked request reaches the key, once a call at
\* most, and an answer that sign_digest returns is attachable.
THEOREM AzureImplementsSigner == AzureSpec => ImplementsDigestSigner
  BY AzureInvInit, AzureInvStep, AzureStepImplements, PTL
  DEF AzureSpec, ImplementsDigestSigner, Contract!SignerSpec
=============================================================================
