--------------------------- MODULE ReceiptSigning ---------------------------
(***************************************************************************)
(* external_signing.py with the signer of azure_cli_signing.py             *)
(* (src/src/sentinel_core/): jobs that each add the signature of one key   *)
(* to a shared receipt.  A job prepares a digest request, an external      *)
(* signer answers it, and the answer is finalized into the receipt as it   *)
(* is by then.  The author may revise the receipt, other jobs may finalize *)
(* and a key may be revoked in between.                                    *)
(*                                                                         *)
(* finalize_receipt_signature returns a changed copy; here the caller puts *)
(* it in place of the receipt in the same step.                            *)
(***************************************************************************)
EXTENDS Receipts

CONSTANTS Jobs,         \* calls of sign_receipt_with_external_digest_signer
          KeyOf,        \* key_id of each job
          RoleOf,       \* signer_role of each job
          Drafts,       \* bodies the author may write
          TrustRegistry,\* the public registry, before any key is revoked
          Mishaps       \* "misanswer", "revise", "revoke": what may happen

ASSUME JobsAssumption ==
    /\ KeyOf \in [Jobs -> Kids] /\ RoleOf \in [Jobs -> Roles]
    /\ Drafts \subseteq Bodies /\ None \notin Drafts
    /\ IsRegistry(TrustRegistry) /\ IsFiniteSet(DOMAIN TrustRegistry)
    /\ Mishaps \subseteq {"misanswer", "revise", "revoke"}

VARIABLES receipt,    \* the receipt the jobs share
          registry,   \* the trust registry the verifier reads
          pc,         \* per job: "idle", "prepared" or "answered"
          prepared,   \* per job: canonical_payload of its PreparedReceiptSignature
          answer,     \* per job: the ExternalSignatureResult
          approved    \* signing inputs each private key was given to sign

vars == <<receipt, registry, pc, prepared, answer, approved>>

\* A signature value as the external signer returns it.  raw: it is canonical
\* base64url of 64 bytes whose scalars are in range.
Answers == [kid : Kids, raw : BOOLEAN, by : Kids \cup {Nobody}, over : Kids \X Drafts]

Init == /\ \E b \in Drafts :
             receipt = [body |-> b, hash |-> None, signatures |-> <<>>]
        /\ prepared = [j \in Jobs |-> None]
        /\ answer = [j \in Jobs |-> None]
        /\ registry = TrustRegistry
        /\ pc = [j \in Jobs |-> "idle"]
        /\ approved = {}

Goto(j, label) == pc' = [pc EXCEPT ![j] = label]

\* The call ends, and its local values with it.
End(j) == /\ Goto(j, "idle")
          /\ prepared' = [prepared EXCEPT ![j] = None]
          /\ answer' = [answer EXCEPT ![j] = None]
SignedBy(r, k) == \E i \in DOMAIN r.signatures : r.signatures[i].kid = k

----------------------------------------------------------------------------
\* prepare_receipt_signature; when it raises nothing changes.
Prepare(j) ==
    /\ pc[j] = "idle"
    /\ ~SignedBy(receipt, KeyOf[j])
    /\ receipt.hash \in {None, receipt.body}
    /\ prepared' = [prepared EXCEPT ![j] = receipt.body]
    /\ Goto(j, "prepared")
    /\ UNCHANGED <<receipt, registry, answer, approved>>

\* The signing input whose digest crosses the boundary.
Input(j) == <<KeyOf[j], prepared[j]>>

SignerAnswers(j) ==
    /\ pc[j] = "prepared"
    /\ approved' = approved \cup {Input(j)}
    /\ answer' = [answer EXCEPT ![j] = [kid |-> KeyOf[j], raw |-> TRUE,
                                        by |-> KeyOf[j], over |-> Input(j)]]
    /\ Goto(j, "answered")
    /\ UNCHANGED <<receipt, registry, prepared>>

\* sign_digest raises, on a timeout of the CLI or an answer it refuses; the key
\* may have signed all the same.  The caller may start over.
SignerFails(j) ==
    /\ pc[j] = "prepared"
    /\ approved' \in {approved, approved \cup {Input(j)}}
    /\ End(j)
    /\ UNCHANGED <<receipt, registry>>

\* A wrong answer: for another key or with no raw signature in it, a signature
\* no key made, or one that a key made over some other signing input.
Misanswers(j) ==
    {a \in Answers :
        \/ /\ a.kid # KeyOf[j] \/ ~a.raw
           /\ a.by = Nobody /\ a.over = Input(j)
        \/ /\ a.kid = KeyOf[j] /\ a.raw
           /\ \/ a.by = Nobody /\ a.over = Input(j)
              \/ a.by = a.over[1] /\ a.over \in approved}

SignerMisanswers(j) ==
    /\ "misanswer" \in Mishaps /\ pc[j] = "prepared"
    /\ \E a \in Misanswers(j) : answer' = [answer EXCEPT ![j] = a]
    /\ Goto(j, "answered")
    /\ UNCHANGED <<receipt, registry, prepared, approved>>

\* What finalize_receipt_signature requires of the answer and of the receipt as
\* it is by now.
AnswerOK(j) == answer[j].kid = KeyOf[j] /\ answer[j].raw
Mut_FinalizableTwice(j) == /\ AnswerOK(j)
                           /\ receipt.body = prepared[j]
                           /\ receipt.hash \in {None, prepared[j]}
Mut_FinalizableStale(j) == AnswerOK(j) /\ ~SignedBy(receipt, KeyOf[j])
Finalizable(j) == /\ AnswerOK(j)
                  /\ receipt.body = prepared[j]
                  /\ receipt.hash \in {None, prepared[j]}
                  /\ ~SignedBy(receipt, KeyOf[j])

NewEntry(j) == [parsed |-> TRUE, kid |-> KeyOf[j], role |-> RoleOf[j],
                header |-> KeyOf[j], payload |-> prepared[j],
                by |-> answer[j].by, over |-> answer[j].over]

\* A bug: the hash is left for the caller to set.
Mut_Signed(j) == [receipt EXCEPT !.signatures = Append(@, NewEntry(j))]
Signed(j) == [body |-> receipt.body, hash |-> prepared[j],
              signatures |-> Append(receipt.signatures, NewEntry(j))]

Finalize(j) ==
    /\ pc[j] = "answered"
    /\ \/ Finalizable(j) /\ receipt' = Signed(j)
       \/ ~Finalizable(j) /\ UNCHANGED receipt
    /\ End(j)
    /\ UNCHANGED <<registry, approved>>

----------------------------------------------------------------------------
(* The author and the registry *)

\* The author rewrites the body, leaving hash and signatures behind, setting the
\* new hash under the old signatures, or starting a draft without either.
Revise ==
    /\ "revise" \in Mishaps
    /\ \E b \in Drafts \ {receipt.body} :
          receipt' \in {[receipt EXCEPT !.body = b],
                        [receipt EXCEPT !.body = b, !.hash = b],
                        [body |-> b, hash |-> None, signatures |-> <<>>]}
    /\ UNCHANGED <<registry, pc, prepared, answer, approved>>

Revoke(k) ==
    /\ "revoke" \in Mishaps
    /\ k \in DOMAIN registry /\ registry[k].active
    /\ registry' = [registry EXCEPT ![k].active = FALSE]
    /\ UNCHANGED <<receipt, pc, prepared, answer, approved>>

Next == \/ \E j \in Jobs : \/ Prepare(j) \/ SignerAnswers(j) \/ SignerFails(j)
                           \/ SignerMisanswers(j) \/ Finalize(j)
        \/ Revise
        \/ \E k \in Kids : Revoke(k)

Spec == Init /\ [][Next]_vars

----------------------------------------------------------------------------
(* Properties *)

\* A receipt never carries more than one entry per key.
NoKeyTwice ==
    \A m, n \in DOMAIN receipt.signatures :
       receipt.signatures[m].kid = receipt.signatures[n].kid => m = n

ReceiptTypeOK ==
    /\ receipt \in [body : Drafts, hash : Drafts \cup {None}, signatures : Seq(Entries)]
    /\ receipt.signatures # <<>> => receipt.hash # None
JobTypeOK(j) ==
    /\ pc[j] \in {"idle", "prepared", "answered"}
    /\ pc[j] # "idle" => prepared[j] \in Drafts
    /\ pc[j] = "answered" => answer[j] \in Answers

\* The variables keep their types; a job has prepared what it sends, and a receipt
\* that carries signatures carries a hash.
TypeOK ==
    /\ ReceiptTypeOK
    /\ IsRegistry(registry) /\ DOMAIN registry = DOMAIN TrustRegistry
    /\ DOMAIN pc = Jobs /\ DOMAIN prepared = Jobs /\ DOMAIN answer = Jobs
    /\ \A j \in Jobs : JobTypeOK(j)
    /\ approved \subseteq Kids \X Drafts

\* Finalization attaches a signature to nothing but the body it was prepared for,
\* whatever happened to the receipt while the signer was at work: afterwards the
\* hash is the body's and the new entry signs that body.
SigningBindsCurrent ==
    [][Len(receipt'.signatures) > Len(receipt.signatures) =>
          /\ receipt'.body = receipt.body
          /\ receipt'.hash = receipt.body
          /\ receipt'.signatures[Len(receipt'.signatures)].payload = receipt.body]_vars

\* A receipt that passes was approved: enough keys, active now and covering the
\* required roles, each signed this very body - whatever was revised, revoked,
\* answered wrongly, finalized twice or lost on the way.
VerifiedIsApproved ==
    Passes(receipt, registry) =>
       LET approvers == {k \in DOMAIN registry :
                            registry[k].active /\ <<k, receipt.body>> \in approved}
       IN  /\ Cardinality(approvers) >= receipt.body.min
           /\ Cardinality(approvers) >= Floor(receipt.body.class)
           /\ receipt.body.roles \subseteq {registry[k].role : k \in approvers}

\* What signing takes as given and does not check, but the verifier does: drafts of the
\* right form, dated within the life of the keys, and jobs whose key is registered, under
\* its own thumbprint and in the role they sign in.
SetUp ==
    /\ \A b \in Drafts : b.sound /\ b.created # NoTime /\ b.class # "other"
    /\ \A k \in DOMAIN TrustRegistry :
          /\ TrustRegistry[k].jwk = k
          /\ \A b \in Drafts : InWindow(TrustRegistry[k], b.created)
    /\ \A j \in Jobs : /\ KeyOf[j] \in DOMAIN TrustRegistry
                       /\ RoleOf[j] = TrustRegistry[KeyOf[j]].role

\* What the signing side builds the verifier accepts: a receipt with a good policy
\* that holds the signatures of enough active keys with the required roles, each
\* over this body, passes - the hash, headers, roles and payloads that finalization
\* wrote are those the verifier looks for.
SignedEnoughPasses ==
    LET signers == {e.kid : e \in Entered(receipt)}
        genuine(e) == /\ e.by = e.kid /\ e.over = <<e.kid, receipt.body>>
                      /\ e.payload = receipt.body /\ registry[e.kid].active
    IN
    /\ receipt.hash \in {None, receipt.body}
    /\ \A e \in Entered(receipt) : genuine(e)
    /\ receipt.body.min >= Floor(receipt.body.class)
    /\ Cardinality(signers) >= receipt.body.min
    /\ receipt.body.roles \subseteq {registry[k].role : k \in signers}
    => Passes(receipt, registry)
=============================================================================
