---------------------------- MODULE DigestSigner ----------------------------
(***************************************************************************)
(* What src/src/sentinel_core/external_signing.py asks of an external      *)
(* digest signer (ExternalDigestSigner): a call answers the prepared       *)
(* request, with a result finalize_receipt_signature does not refuse for   *)
(* its form, or raises, and after that may be made again.  Only a request  *)
(* of the right form reaches the key, once a call at most, and whoever     *)
(* gave up on a call may be told nothing: the key may still sign after it  *)
(* raised, during a later call or after the last.                          *)
(***************************************************************************)
EXTENDS Naturals

CONSTANTS Waiting, Raised  \* a call without a reply yet, and one that raised

\* A request and a result as far as a check looks at them.
Requests == [alg : {"ES256", "other"}, key : {"vault", "port", "unversioned"},
             digest : {"raw32", "short", "garbled"}]
\* key "own": the one of the request.
Results == [alg : {"ES256", "other"}, key : {"own", "other"},
            value : {"raw64", "short", "padded", "loose", "number"}]

VARIABLES request,  \* the DigestSigningRequest
          calls,    \* how often the signer was called with it
          keySigned,\* how often the key signed it
          reply     \* to the last call: Waiting, Raised or a result

signerVars == <<request, calls, keySigned, reply>>

\* _b64url_decode_strict of external_signing.py: unpadded alphabet, canonical bits.
Decodes(value) == value \in {"raw64", "short"}

\* finalize_receipt_signature, as far as it looks at the result alone and but for the
\* range of the scalars.
Attachable(result) == /\ result.alg = "ES256" /\ result.key = "own"
                      /\ Decodes(result.value) /\ result.value # "short"

\* What prepare_receipt_signature asks for: ES256 over a SHA-256 with a versioned key,
\* a port in its identifier or not.
WellFormed(r) == r.alg = "ES256" /\ r.key # "unversioned" /\ r.digest = "raw32"

SignerInit == request \in Requests /\ calls = 1 /\ keySigned = 0 /\ reply = Waiting

KeySigns == /\ WellFormed(request) /\ keySigned < calls /\ keySigned' = keySigned + 1
            /\ UNCHANGED <<request, calls, reply>>

Answers == /\ reply = Waiting /\ WellFormed(request)
           /\ \E r \in Results : Attachable(r) /\ reply' = r
           /\ UNCHANGED <<request, calls, keySigned>>

Raises == /\ reply = Waiting /\ reply' = Raised
          /\ UNCHANGED <<request, calls, keySigned>>

CalledAgain == /\ reply = Raised /\ reply' = Waiting /\ calls' = calls + 1
               /\ UNCHANGED <<request, keySigned>>

SignerNext == KeySigns \/ Answers \/ Raises \/ CalledAgain

SignerSpec == SignerInit /\ [][SignerNext]_signerVars
=============================================================================
