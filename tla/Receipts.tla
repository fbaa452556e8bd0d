------------------------------ MODULE Receipts ------------------------------
(***************************************************************************)
(* SENTINEL release receipts and what makes one verify: the data and the   *)
(* checks of src/src/sentinel_core/receipt.py.  The canonical payload of a *)
(* receipt is its body, and SHA-256 tells bodies apart, so that the hash   *)
(* and the base64url payload of a body are the body itself.                *)
(***************************************************************************)
EXTENDS Integers, FiniteSets, Sequences

CONSTANTS Kids,      \* key identifiers; each also names a private key
          Roles,     \* signer roles
          Contents,  \* what is signed and no check looks at
          None,      \* no value: a receipt_hash not set yet
          Nobody     \* maker of a signature value that no key made

ASSUME ValuesAssumption == Nobody \notin Kids /\ None \notin Contents

NoTime == -1         \* a created_at that is not RFC3339 UTC

\* The signed fields.  sound: schema version, sequence, previous hash, policy and
\* roles have their form.  min < 0: policy.min_signatures is missing or no
\* non-negative integer.  class "other": any but A, B and C.
Bodies == [content : Contents, sound : BOOLEAN, class : {"A", "B", "C", "other"},
           min : Int, roles : SUBSET Roles, created : Nat \cup {NoTime}]

\* A signature entry.  parsed: every part is there and decodes.  header: the kid
\* in the protected header.  The value was made by the private key `by` over the
\* signing input `over`, a pair of a header and a payload.
Entries == [parsed : BOOLEAN, kid : Kids, role : Roles, header : Kids,
            payload : Bodies, by : Kids \cup {Nobody}, over : Kids \X Bodies]

ReceiptSpace == [body : Bodies, hash : Bodies \cup {None}, signatures : Seq(Entries)]

\* A trust key.  active: its status is active and its alg ES256.  dated: its
\* not_before and not_after parse; an absent one is a bound that is never passed.
TrustKeys == [role : Roles, active : BOOLEAN, dated : BOOLEAN,
              from : Nat, until : Nat, jwk : Kids]

IsRegistry(registry) == /\ DOMAIN registry \subseteq Kids
                        /\ registry \in [DOMAIN registry -> TrustKeys]

----------------------------------------------------------------------------
(* The checks of verify_receipt, in the order in which it makes them *)

\* min_signatures as the verifier goes on with it.
MinSignatures(body) == IF body.min < 0 THEN 0 ELSE body.min

PolicyOK(body) == /\ body.min >= 0
                  /\ body.class \in {"B", "C"} => MinSignatures(body) >= 1

HeaderOK(r) == /\ r.body.sound
               /\ r.body.created # NoTime
               /\ r.body.class # "other"
               /\ r.hash = r.body
               /\ r.signatures # <<>>

\* Only a created_at that parsed is compared with the window of the key.
InWindow(key, created) ==
    created # NoTime => key.dated /\ key.from <= created /\ created <= key.until

SignatureVerifies(e, key) == e.by = key.jwk /\ e.over = <<e.header, e.payload>>

\* A bug: a signature over another payload passes.
Mut_EntryAnyPayload(e, r, registry) ==
    /\ e.parsed /\ e.kid \in DOMAIN registry
    /\ LET key == registry[e.kid] IN
       /\ key.active /\ key.role = e.role /\ InWindow(key, r.body.created)
       /\ e.header = e.kid /\ SignatureVerifies(e, key)

\* A signature entry without an error.
EntryOK(e, r, registry) ==
    /\ e.parsed
    /\ e.kid \in DOMAIN registry
    /\ LET key == registry[e.kid] IN
       /\ key.active
       /\ key.role = e.role
       /\ InWindow(key, r.body.created)
       /\ e.header = e.kid
       /\ e.payload = r.body
       /\ SignatureVerifies(e, key)

\* The counts the signature loop ends with, and the checks made on them.
QuorumOK(body, valid, matched) ==
    /\ body.roles \subseteq matched
    /\ valid >= MinSignatures(body)
    /\ body.class = "A" => MinSignatures(body) >= 2

Entered(r) == {r.signatures[i] : i \in DOMAIN r.signatures}

\* Whether verify_receipt finds no error, all its checks taken together;
\* ReceiptVerifier takes them one by one.
Passes(r, registry) ==
    /\ DOMAIN registry # {}
    /\ PolicyOK(r.body) /\ HeaderOK(r)
    /\ \A e \in Entered(r) : EntryOK(e, r, registry)
    /\ QuorumOK(r.body, Cardinality({e.kid : e \in Entered(r)}),
                {e.role : e \in Entered(r)})

----------------------------------------------------------------------------
(* What a verified receipt is, without a verifier: the 15 conditions of    *)
(* docs/receipt-verifier-production-gate.md.                               *)

\* The one entry by which key k may sign a body.
SignatureOf(k, registry, body) ==
    [parsed |-> TRUE, kid |-> k, role |-> registry[k].role, header |-> k,
     payload |-> body, by |-> registry[k].jwk, over |-> <<k, body>>]

Trusted(registry, body) ==
    {k \in DOMAIN registry : /\ registry[k].active /\ registry[k].dated
                             /\ body.created \in registry[k].from .. registry[k].until}

Signers(r, registry) ==
    {k \in Trusted(registry, r.body) : SignatureOf(k, registry, r.body) \in Entered(r)}

\* The least min_signatures of a release class.
Floor(class) == IF class = "A" THEN 2 ELSE 1

Accepted(r, registry) ==
    /\ r.body.sound /\ r.hash = r.body
    /\ r.body.class \in {"A", "B", "C"} /\ r.body.created \in Nat
    /\ Entered(r) # {}
    /\ \A e \in Entered(r) : \E k \in Trusted(registry, r.body) :
          e = SignatureOf(k, registry, r.body)
    /\ r.body.min >= Floor(r.body.class)
    /\ Cardinality(Signers(r, registry)) >= r.body.min
    /\ \A role \in r.body.roles : \E k \in Signers(r, registry) : registry[k].role = role
=============================================================================
