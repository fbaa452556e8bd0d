------------------------ MODULE ReceiptSigning_proofs ------------------------
(***************************************************************************)
(* Theorems about ReceiptSigning, for any jobs, keys, drafts and mishaps.  *)
(***************************************************************************)
EXTENDS ReceiptSigning, FiniteSetTheorems, SequenceTheorems, TLAPS

\* The entry a job would attach is one, of a draft.
LEMMA NewEntryTyped ==
    ASSUME TypeOK, NEW j \in Jobs, pc[j] = "answered"
    PROVE  NewEntry(j) \in Entries /\ prepared[j] \in Drafts /\ answer[j] \in Answers
<1>1. prepared[j] \in Drafts /\ answer[j] \in Answers
  BY DEF TypeOK, JobTypeOK
<1>2. prepared[j] \in Bodies /\ KeyOf[j] \in Kids /\ RoleOf[j] \in Roles
  BY <1>1, JobsAssumption
<1>3. answer[j].by \in Kids \cup {Nobody} /\ answer[j].over \in Kids \X Bodies
  BY <1>1, JobsAssumption DEF Answers
<1> QED BY <1>1, <1>2, <1>3 DEF NewEntry, Entries

LEMMA FinalizeTyped ==
    ASSUME TypeOK, NEW j \in Jobs, pc[j] = "answered", receipt' = Signed(j)
    PROVE  ReceiptTypeOK'
<1>1. NewEntry(j) \in Entries /\ prepared[j] \in Drafts /\ prepared[j] # None
  BY NewEntryTyped, JobsAssumption
<1>2. receipt.body \in Drafts /\ receipt.signatures \in Seq(Entries)
  BY DEF TypeOK, ReceiptTypeOK
<1> QED BY <1>1, <1>2 DEF Signed, ReceiptTypeOK

\* What a job does to its own variables, and leaves of those of the others.
LEMMA JobTyped ==
    ASSUME TypeOK, NEW j \in Jobs,
           \/ Prepare(j) \/ SignerAnswers(j) \/ SignerFails(j)
           \/ SignerMisanswers(j) \/ Finalize(j)
    PROVE  /\ DOMAIN pc' = Jobs /\ DOMAIN prepared' = Jobs /\ DOMAIN answer' = Jobs
           /\ \A i \in Jobs : JobTypeOK(i)'
           /\ approved' \subseteq Kids \X Drafts
<1> USE DEF Goto, End
<1>0. KeyOf[j] \in Kids /\ receipt.body \in Drafts
  BY JobsAssumption DEF TypeOK, ReceiptTypeOK
<1>1. CASE Prepare(j)
  BY <1>0, <1>1 DEF Prepare, TypeOK, JobTypeOK
<1>2. CASE SignerAnswers(j)
  <2>1. Input(j) \in Kids \X Drafts
    BY <1>0, <1>2 DEF SignerAnswers, Input, TypeOK, JobTypeOK
  <2>2. [kid |-> KeyOf[j], raw |-> TRUE, by |-> KeyOf[j], over |-> Input(j)] \in Answers
    BY <1>0, <2>1 DEF Answers
  <2> QED BY <1>2, <2>1, <2>2 DEF SignerAnswers, TypeOK, JobTypeOK
<1>3. CASE SignerFails(j)
  <2>1. Input(j) \in Kids \X Drafts
    BY <1>0, <1>3 DEF SignerFails, Input, TypeOK, JobTypeOK
  <2> QED BY <1>3, <2>1 DEF SignerFails, TypeOK, JobTypeOK
<1>4. CASE SignerMisanswers(j)
  <2>1. PICK a \in Answers : answer' = [answer EXCEPT ![j] = a]
    BY <1>4 DEF SignerMisanswers, Misanswers
  <2> QED BY <1>4, <2>1 DEF SignerMisanswers, TypeOK, JobTypeOK
<1>5. CASE Finalize(j)
  BY <1>5 DEF Finalize, TypeOK, JobTypeOK
<1> QED BY <1>1, <1>2, <1>3, <1>4, <1>5

LEMMA RevisedReceipt ==
    ASSUME ReceiptTypeOK, Revise
    PROVE  /\ ReceiptTypeOK'
           /\ receipt'.signatures \in {receipt.signatures, <<>>}
<1>1. PICK b \in Drafts :
        receipt' \in {[receipt EXCEPT !.body = b],
                     [receipt EXCEPT !.body = b, !.hash = b],
                     [body |-> b, hash |-> None, signatures |-> <<>>]}
  BY DEF Revise
<1>2. CASE receipt' = [receipt EXCEPT !.body = b]
  BY <1>2 DEF ReceiptTypeOK
<1>3. CASE receipt' = [receipt EXCEPT !.body = b, !.hash = b]
  BY <1>3, JobsAssumption DEF ReceiptTypeOK
<1>4. CASE receipt' = [body |-> b, hash |-> None, signatures |-> <<>>]
  BY <1>4 DEF ReceiptTypeOK
<1> QED BY <1>1, <1>2, <1>3, <1>4

LEMMA StepTyped == TypeOK /\ [Next]_vars => TypeOK'
<1> SUFFICES ASSUME TypeOK, [Next]_vars PROVE TypeOK'
  OBVIOUS
<1>1. ASSUME NEW j \in Jobs,
             Prepare(j) \/ SignerAnswers(j) \/ SignerFails(j) \/ SignerMisanswers(j)
      PROVE  TypeOK'
  <2>1. UNCHANGED <<receipt, registry>>
    BY <1>1 DEF Prepare, SignerAnswers, SignerFails, SignerMisanswers
  <2> QED BY <1>1, <2>1, JobTyped DEF TypeOK, ReceiptTypeOK
<1>2. ASSUME NEW j \in Jobs, Finalize(j) PROVE TypeOK'
  <2>1. ReceiptTypeOK'
    BY <1>2, FinalizeTyped DEF Finalize, TypeOK, ReceiptTypeOK
  <2> QED BY <1>2, <2>1, JobTyped DEF Finalize, TypeOK
<1>3. CASE Revise
  BY <1>3, RevisedReceipt DEF Revise, TypeOK, JobTypeOK
<1>4. ASSUME NEW k \in Kids, Revoke(k) PROVE TypeOK'
  <2>1. IsRegistry(registry') /\ DOMAIN registry' = DOMAIN registry
    BY <1>4 DEF Revoke, TypeOK, IsRegistry, TrustKeys
  <2> QED BY <1>4, <2>1 DEF Revoke, TypeOK, ReceiptTypeOK, JobTypeOK
<1>5. CASE UNCHANGED vars
  BY <1>5 DEF vars, TypeOK, ReceiptTypeOK, JobTypeOK
<1> QED BY <1>1, <1>2, <1>3, <1>4, <1>5 DEF Next

\* The receipt, the jobs and the registry keep their types.
THEOREM TypeCorrect == Spec => []TypeOK
<1>1. ASSUME Init PROVE TypeOK
  <2>1. PICK b \in Drafts : receipt = [body |-> b, hash |-> None, signatures |-> <<>>]
    BY <1>1 DEF Init
  <2>2. ReceiptTypeOK
    BY <2>1 DEF ReceiptTypeOK
  <2> QED BY <1>1, <2>2, JobsAssumption DEF Init, TypeOK, JobTypeOK
<1> QED BY <1>1, StepTyped, PTL DEF Spec

----------------------------------------------------------------------------
\* The entries of the receipt after a step: as before, none, or one more.
LEMMA EntriesChange ==
    ASSUME TypeOK, [Next]_vars
    PROVE  \/ receipt'.signatures \in {receipt.signatures, <<>>}
           \/ \E j \in Jobs :
                 /\ pc[j] = "answered" /\ Finalizable(j)
                 /\ receipt' = [body |-> receipt.body, hash |-> prepared[j],
                                signatures |-> Append(receipt.signatures, NewEntry(j))]
                 /\ UNCHANGED approved
<1>1. ASSUME NEW j \in Jobs, Finalize(j), Finalizable(j)
      PROVE  /\ receipt' = [body |-> receipt.body, hash |-> prepared[j],
                            signatures |-> Append(receipt.signatures, NewEntry(j))]
             /\ pc[j] = "answered" /\ UNCHANGED approved
  BY <1>1 DEF Finalize, Signed
<1>2. CASE Revise
  BY <1>2, RevisedReceipt DEF TypeOK
<1>3. ASSUME NEW j \in Jobs, Finalize(j), ~Finalizable(j) PROVE receipt' = receipt
  BY <1>3 DEF Finalize
<1>4. CASE UNCHANGED receipt
  BY <1>4
<1> QED BY <1>1, <1>2, <1>3, <1>4
        DEF Next, vars, Prepare, SignerAnswers, SignerFails, SignerMisanswers, Revoke

\* Finalization attaches a signature only to the body it was prepared for.
THEOREM BindsCurrent == Spec => SigningBindsCurrent
<1>1. ASSUME TypeOK, [Next]_vars, Len(receipt'.signatures) > Len(receipt.signatures)
      PROVE  /\ receipt'.body = receipt.body /\ receipt'.hash = receipt.body
             /\ receipt'.signatures[Len(receipt'.signatures)].payload = receipt.body
  <2>1. receipt.signatures \in Seq(Entries) /\ Len(receipt.signatures) \in Nat
    BY <1>1 DEF TypeOK, ReceiptTypeOK
  <2>2. PICK j \in Jobs :
          /\ pc[j] = "answered" /\ Finalizable(j)
          /\ receipt' = [body |-> receipt.body, hash |-> prepared[j],
                         signatures |-> Append(receipt.signatures, NewEntry(j))]
    BY <1>1, <2>1, EntriesChange
  <2>3. receipt'.signatures[Len(receipt'.signatures)] = NewEntry(j)
    BY <1>1, <2>1, <2>2, NewEntryTyped
  <2> QED BY <2>2, <2>3 DEF Finalizable, NewEntry
<1>2. ASSUME TypeOK, [Next]_vars
      PROVE  [Len(receipt'.signatures) > Len(receipt.signatures) =>
                /\ receipt'.body = receipt.body
                /\ receipt'.hash = receipt.body
                /\ receipt'.signatures[Len(receipt'.signatures)].payload = receipt.body]_vars
  BY <1>1, <1>2
<1> QED BY <1>2, TypeCorrect, PTL DEF SigningBindsCurrent, Spec

----------------------------------------------------------------------------
\* A receipt never carries two entries of one key, however many jobs sign with it.
THEOREM KeysDistinct == Spec => []NoKeyTwice
<1>1. Init => NoKeyTwice
  BY DEF Init, NoKeyTwice
<1>2. ASSUME TypeOK, NoKeyTwice, [Next]_vars PROVE NoKeyTwice'
  <2>0. receipt.signatures \in Seq(Entries)
    BY <1>2 DEF TypeOK, ReceiptTypeOK
  <2>1. CASE receipt'.signatures \in {receipt.signatures, <<>>}
    BY <1>2, <2>1 DEF NoKeyTwice
  <2>2. ASSUME NEW j \in Jobs, pc[j] = "answered", Finalizable(j),
               receipt' = [body |-> receipt.body, hash |-> prepared[j],
                           signatures |-> Append(receipt.signatures, NewEntry(j))]
        PROVE  NoKeyTwice'
    <3> DEFINE old == receipt.signatures
               new == receipt'.signatures
    <3>1. /\ Len(old) \in Nat /\ DOMAIN old = 1 .. Len(old)
          /\ DOMAIN new = 1 .. Len(old) + 1
          /\ \A i \in DOMAIN old : new[i] = old[i]
          /\ new[Len(old) + 1].kid = KeyOf[j]
      BY <1>2, <2>0, <2>2, NewEntryTyped DEF NewEntry
    <3>2. \A i \in DOMAIN old : old[i].kid # KeyOf[j]
      BY <2>2 DEF Finalizable, SignedBy
    <3>3. \A m, n \in DOMAIN old : old[m].kid = old[n].kid => m = n
      BY <1>2 DEF NoKeyTwice
    <3>4. \A m, n \in DOMAIN new : new[m].kid = new[n].kid => m = n
      <4> HIDE DEF old, new
      <4> QED BY <3>1, <3>2, <3>3
    <3> QED BY <3>4 DEF NoKeyTwice
  <2> QED BY <1>2, <2>1, <2>2, EntriesChange
<1> QED BY <1>1, <1>2, TypeCorrect, PTL DEF Spec

----------------------------------------------------------------------------
(* VerifiedIsApproved.  A signature value in an answer or an entry is of       *)
(* something its key was asked to sign; the checks of verify_receipt leave     *)
(* that something no choice but the body of the receipt.                       *)

AnswersApproved ==
    \A j \in Jobs : pc[j] = "answered" /\ answer[j].by # Nobody => answer[j].over \in approved

EntriesApproved ==
    \A i \in DOMAIN receipt.signatures :
       receipt.signatures[i].by # Nobody => receipt.signatures[i].over \in approved

LEMMA StepApproved ==
    TypeOK /\ AnswersApproved /\ EntriesApproved /\ [Next]_vars
      => (AnswersApproved /\ EntriesApproved)'
<1> SUFFICES ASSUME TypeOK, AnswersApproved, EntriesApproved, [Next]_vars
             PROVE  AnswersApproved' /\ EntriesApproved'
  OBVIOUS
<1>1. approved \subseteq approved'
  BY DEF Next, Prepare, SignerAnswers, SignerFails, SignerMisanswers, Finalize, Revise,
         Revoke, vars
<1>2. AnswersApproved'
  <2> SUFFICES ASSUME NEW i \in Jobs, pc'[i] = "answered", answer'[i].by # Nobody
               PROVE  answer'[i].over \in approved'
    BY DEF AnswersApproved
  <2> USE DEF Goto, End
  <2>1. CASE pc'[i] = pc[i] /\ answer'[i] = answer[i]
    BY <1>1, <2>1 DEF AnswersApproved
  <2>2. ASSUME NEW j \in Jobs, SignerAnswers(j) PROVE answer'[i].over \in approved'
    <3>1. CASE i = j
      BY <2>2, <3>1 DEF SignerAnswers, TypeOK
    <3>2. CASE i # j
      BY <2>1, <2>2, <3>2 DEF SignerAnswers, TypeOK
    <3> QED BY <3>1, <3>2
  <2>3. ASSUME NEW j \in Jobs, SignerMisanswers(j) PROVE answer'[i].over \in approved'
    <3>1. CASE i = j
      <4>1. PICK a \in Misanswers(j) : answer' = [answer EXCEPT ![j] = a]
        BY <2>3 DEF SignerMisanswers
      <4>2. answer'[i] = a
        BY <3>1, <4>1 DEF TypeOK
      <4>3. a.by # Nobody => a.over \in approved
        BY <4>1 DEF Misanswers
      <4> QED BY <1>1, <4>2, <4>3
    <3>2. CASE i # j
      BY <2>1, <2>3, <3>2 DEF SignerMisanswers, TypeOK
    <3> QED BY <3>1, <3>2
  <2>4. ASSUME NEW j \in Jobs, Prepare(j) \/ SignerFails(j) \/ Finalize(j)
        PROVE  pc'[i] = pc[i] /\ answer'[i] = answer[i]
    BY <2>4 DEF Prepare, SignerFails, Finalize, TypeOK
  <2>5. CASE Revise \/ (\E k \in Kids : Revoke(k)) \/ UNCHANGED vars
    BY <2>1, <2>5 DEF Revise, Revoke, vars
  <2> QED BY <2>1, <2>2, <2>3, <2>4, <2>5 DEF Next
<1>3. EntriesApproved'
  <2>1. CASE receipt'.signatures \in {receipt.signatures, <<>>}
    BY <1>1, <2>1 DEF EntriesApproved
  <2>2. ASSUME NEW j \in Jobs, pc[j] = "answered",
               receipt' = [body |-> receipt.body, hash |-> prepared[j],
                           signatures |-> Append(receipt.signatures, NewEntry(j))],
               UNCHANGED approved
        PROVE  EntriesApproved'
    <3>1. receipt.signatures \in Seq(Entries) /\ NewEntry(j) \in Entries
      BY <2>2, NewEntryTyped DEF TypeOK, ReceiptTypeOK
    <3>2. \A i \in DOMAIN receipt'.signatures :
             \/ i \in DOMAIN receipt.signatures
                /\ receipt'.signatures[i] = receipt.signatures[i]
             \/ receipt'.signatures[i] = NewEntry(j)
      BY <2>2, <3>1
    <3>3. NewEntry(j).by # Nobody => NewEntry(j).over \in approved
      BY <2>2 DEF NewEntry, AnswersApproved
    <3> QED BY <2>2, <3>2, <3>3 DEF EntriesApproved
  <2> QED BY <2>1, <2>2, EntriesChange
<1> QED BY <1>2, <1>3

\* A receipt that verifies was approved by enough keys, active and in the required
\* roles, each of which signed this very body: for every mishap.
THEOREM VerifiedApproved == Spec => []VerifiedIsApproved
<1>1. Init => AnswersApproved /\ EntriesApproved
  BY DEF Init, AnswersApproved, EntriesApproved
<1>2. ASSUME TypeOK, EntriesApproved PROVE VerifiedIsApproved
  <2> SUFFICES ASSUME Passes(receipt, registry)
               PROVE  LET approvers == {k \in DOMAIN registry :
                               registry[k].active /\ <<k, receipt.body>> \in approved}
                      IN  /\ Cardinality(approvers) >= receipt.body.min
                          /\ Cardinality(approvers) >= Floor(receipt.body.class)
                          /\ receipt.body.roles \subseteq {registry[k].role : k \in approvers}
    BY DEF VerifiedIsApproved
  <2> DEFINE approvers == {k \in DOMAIN registry :
                             registry[k].active /\ <<k, receipt.body>> \in approved}
             kids == {e.kid : e \in Entered(receipt)}
             roles == {e.role : e \in Entered(receipt)}
  <2>1. \A e \in Entered(receipt) :
           e.kid \in approvers /\ e.role = registry[e.kid].role
    <3> TAKE e \in Entered(receipt)
    <3>1. EntryOK(e, receipt, registry) /\ (e.by # Nobody => e.over \in approved)
      BY <1>2 DEF Passes, Entered, EntriesApproved
    <3>2. registry[e.kid] \in TrustKeys
      BY <1>2, <3>1 DEF EntryOK, TypeOK, IsRegistry
    <3>3. e.by # Nobody /\ e.over = <<e.kid, receipt.body>>
      BY <3>1, <3>2, ValuesAssumption DEF EntryOK, SignatureVerifies, TrustKeys
    <3> QED BY <3>1, <3>3 DEF EntryOK
  <2>2. kids \subseteq approvers /\ IsFiniteSet(approvers)
    <3>1. kids \subseteq approvers
      BY <2>1
    <3>2. approvers \subseteq DOMAIN TrustRegistry /\ IsFiniteSet(DOMAIN TrustRegistry)
      BY <1>2, JobsAssumption DEF TypeOK
    <3> HIDE DEF approvers
    <3> QED BY <3>1, <3>2, FS_Subset
  <2>3. Cardinality(kids) \in Nat /\ Cardinality(approvers) \in Nat
        /\ Cardinality(kids) <= Cardinality(approvers)
    BY <2>2, FS_Subset, FS_CardinalityType
  <2>4. receipt.body \in Bodies
    BY <1>2, JobsAssumption DEF TypeOK, ReceiptTypeOK
  <2>5. PolicyOK(receipt.body) /\ HeaderOK(receipt) /\ QuorumOK(receipt.body, Cardinality(kids), roles)
    BY DEF Passes
  <2>6. Cardinality(kids) >= receipt.body.min /\ Cardinality(kids) >= Floor(receipt.body.class)
    BY <2>3, <2>4, <2>5 DEF PolicyOK, HeaderOK, QuorumOK, MinSignatures, Floor, Bodies
  <2>7. receipt.body.roles \subseteq {registry[k].role : k \in approvers}
    <3>1. ASSUME NEW role \in receipt.body.roles
          PROVE  role \in {registry[k].role : k \in approvers}
      <4>1. role \in roles
        BY <2>5 DEF QuorumOK
      <4>2. PICK e \in Entered(receipt) : role = e.role
        BY <4>1
      <4>3. e.kid \in approvers /\ role = registry[e.kid].role
        BY <2>1, <4>2
      <4> HIDE DEF approvers
      <4> QED BY <4>3
    <3> QED BY <3>1
  <2>8. /\ Cardinality(approvers) >= receipt.body.min
        /\ Cardinality(approvers) >= Floor(receipt.body.class)
    <3>1. receipt.body.min \in Int /\ Floor(receipt.body.class) \in Int
      BY <2>4 DEF Bodies, Floor
    <3> HIDE DEF approvers, kids
    <3> QED BY <2>3, <2>6, <3>1
  <2> QED BY <2>7, <2>8
<1> QED BY <1>1, <1>2, StepApproved, TypeCorrect, PTL DEF Spec
----------------------------------------------------------------------------
(* SignedEnoughPasses.  The verifier asks more of a receipt than signatures:   *)
(* form, times, roles and headers.  Where drafts and jobs are set up as the    *)
(* registry has it, finalization gets all of that right.                       *)

\* A revocation changes nothing about a key but that it is active.
Unrevised ==
    \A k \in DOMAIN TrustRegistry :
       /\ registry[k].jwk = TrustRegistry[k].jwk /\ registry[k].role = TrustRegistry[k].role
       /\ registry[k].dated = TrustRegistry[k].dated
       /\ registry[k].from = TrustRegistry[k].from /\ registry[k].until = TrustRegistry[k].until

\* The parts of an entry that name its key agree with each other and the registry.
Named(e) == /\ e.parsed /\ e.header = e.kid
            /\ e.kid \in DOMAIN TrustRegistry /\ e.role = TrustRegistry[e.kid].role
EntriesNamed == \A i \in DOMAIN receipt.signatures : Named(receipt.signatures[i])

LEMMA StepUnrevised == TypeOK /\ Unrevised /\ [Next]_vars => Unrevised'
<1> SUFFICES ASSUME TypeOK, Unrevised, [Next]_vars PROVE Unrevised'
  OBVIOUS
<1>1. ASSUME NEW k \in Kids, Revoke(k) PROVE Unrevised'
  BY <1>1 DEF Revoke, Unrevised, TypeOK, IsRegistry, TrustKeys
<1>2. CASE UNCHANGED registry
  BY <1>2 DEF Unrevised
<1> QED BY <1>1, <1>2 DEF Next, vars, Prepare, SignerAnswers, SignerFails, SignerMisanswers,
                         Finalize, Revise

LEMMA StepNamed ==
    ASSUME SetUp, TypeOK, EntriesNamed, [Next]_vars
    PROVE  EntriesNamed'
<1>1. CASE receipt'.signatures \in {receipt.signatures, <<>>}
  BY <1>1 DEF EntriesNamed
<1>2. ASSUME NEW j \in Jobs, pc[j] = "answered",
             receipt' = [body |-> receipt.body, hash |-> prepared[j],
                         signatures |-> Append(receipt.signatures, NewEntry(j))]
      PROVE  EntriesNamed'
  <2>1. receipt.signatures \in Seq(Entries) /\ NewEntry(j) \in Entries
    BY <1>2, NewEntryTyped DEF TypeOK, ReceiptTypeOK
  <2>2. \A i \in DOMAIN receipt'.signatures :
           \/ i \in DOMAIN receipt.signatures
              /\ receipt'.signatures[i] = receipt.signatures[i]
           \/ receipt'.signatures[i] = NewEntry(j)
    BY <1>2, <2>1
  <2>3. Named(NewEntry(j))
    BY DEF Named, NewEntry, SetUp
  <2> QED BY <2>2, <2>3 DEF EntriesNamed
<1> QED BY <1>1, <1>2, EntriesChange

\* Where drafts, keys and jobs are set up to fit each other, a receipt with the
\* signatures its policy asks for passes, whatever happened while it was signed.
THEOREM SignedEnough ==
    ASSUME SetUp
    PROVE  Spec => []SignedEnoughPasses
<1>1. Init => Unrevised /\ EntriesNamed
  BY DEF Init, Unrevised, EntriesNamed
<1>2. ASSUME TypeOK, Unrevised, EntriesNamed PROVE SignedEnoughPasses
  <2> DEFINE signers == {e.kid : e \in Entered(receipt)}
             roles == {e.role : e \in Entered(receipt)}
             genuine(e) == /\ e.by = e.kid /\ e.over = <<e.kid, receipt.body>>
                           /\ e.payload = receipt.body /\ registry[e.kid].active
  <2> SUFFICES ASSUME receipt.hash \in {None, receipt.body},
                      \A e \in Entered(receipt) : genuine(e),
                      receipt.body.min >= Floor(receipt.body.class),
                      Cardinality(signers) >= receipt.body.min,
                      receipt.body.roles \subseteq {registry[k].role : k \in signers}
               PROVE  Passes(receipt, registry)
    BY DEF SignedEnoughPasses
  <2> USE <1>2
  <2>1. /\ receipt.body \in Drafts /\ receipt.body \in Bodies
        /\ receipt.signatures \in Seq(Entries)
        /\ receipt.signatures # <<>> => receipt.hash # None
    BY JobsAssumption DEF TypeOK, ReceiptTypeOK
  <2>2. receipt.body.min \in Int /\ receipt.body.class \in {"A", "B", "C"}
    BY <2>1 DEF SetUp, Bodies
  <2>3. receipt.body.min >= 1 /\ (receipt.body.class = "A" => receipt.body.min >= 2)
    BY <2>2 DEF Floor
  <2>4. receipt.signatures # <<>>
    <3> SUFFICES ASSUME receipt.signatures = <<>> PROVE FALSE
      OBVIOUS
    <3>1. signers = {}
      BY DEF Entered
    <3> HIDE DEF signers
    <3> QED BY <2>2, <2>3, <3>1, FS_EmptySet
  <2>5. PolicyOK(receipt.body) /\ HeaderOK(receipt)
    BY <2>1, <2>2, <2>3, <2>4 DEF PolicyOK, HeaderOK, SetUp, MinSignatures
  <2>6. ASSUME NEW e \in Entered(receipt)
        PROVE  /\ EntryOK(e, receipt, registry) /\ e.kid \in DOMAIN registry
               /\ registry[e.kid].role = e.role
    <3>1. Named(e) /\ genuine(e)
      BY DEF Entered, EntriesNamed
    <3>2. e.kid \in DOMAIN registry /\ e.kid \in DOMAIN TrustRegistry
      BY <3>1 DEF Named, TypeOK
    <3>3. registry[e.kid].jwk = e.kid /\ registry[e.kid].role = e.role
      BY <3>1, <3>2 DEF Unrevised, SetUp, Named
    <3>4. InWindow(registry[e.kid], receipt.body.created)
      BY <2>1, <3>2 DEF Unrevised, SetUp, InWindow
    <3> QED BY <3>1, <3>2, <3>3, <3>4 DEF EntryOK, SignatureVerifies, Named
  <2>7. QuorumOK(receipt.body, Cardinality(signers), roles)
    <3>1. receipt.body.roles \subseteq roles
      <4>1. ASSUME NEW role \in receipt.body.roles PROVE role \in roles
        <5>1. PICK k \in signers : role = registry[k].role
          OBVIOUS
        <5>2. PICK e \in Entered(receipt) : k = e.kid
          BY <5>1
        <5> QED BY <2>6, <5>1, <5>2
      <4> QED BY <4>1
    <3> HIDE DEF signers, roles
    <3> QED BY <2>2, <2>3, <3>1 DEF QuorumOK, MinSignatures
  <2>8. DOMAIN registry # {}
    <3>1. 1 \in DOMAIN receipt.signatures
      BY <2>1, <2>4
    <3> QED BY <2>6, <3>1 DEF Entered
  <2> QED BY <2>5, <2>6, <2>7, <2>8 DEF Passes
<1>3. TypeOK /\ EntriesNamed /\ [Next]_vars => EntriesNamed'
  BY StepNamed
<1> QED BY <1>1, <1>2, <1>3, StepUnrevised, TypeCorrect, PTL DEF Spec
=============================================================================
