--------------------------- MODULE AzureCliSigner ---------------------------
(***************************************************************************)
(* AzureCliKeyVaultDigestSigner.sign_digest                                *)
(* (src/src/sentinel_core/azure_cli_signing.py): one run of                *)
(* `az keyvault key sign` under a timeout, again if the caller calls again *)
(* after an error.  The process and the vault behind it go on by           *)
(* themselves: the vault signs whatever was sent to it, whether or not the *)
(* process that sent it was killed meanwhile, and what a process prints is *)
(* checked as if anything could be printed.                                *)
(***************************************************************************)
EXTENDS Naturals

CONSTANTS CallRequests, \* requests sign_digest may be called with
          Printed,      \* what the process may print
          MaxCalls,     \* bound: how often a caller calls with one request
          Waiting, Raised

VARIABLES request, calls, keySigned, reply,
          az,      \* the process: "none", "running", "sent" (it has asked the vault)
          vault    \* requests the vault has and has not signed

azureVars == <<request, calls, keySigned, reply, az, vault>>

Contract == INSTANCE DigestSigner

\* The output of a process.  text: "empty", "huge", "object", or something else.  kid:
\* the versioned key it names.  value, result: the signature under that name.
Outputs == [text : {"empty", "huge", "object", "junk"}, kid : {"own", "other", "absent"},
            value : {"raw64", "short", "padded", "loose", "number", "absent"},
            result : {"raw64", "short", "padded", "loose", "number", "absent"}]

ASSUME CallsAssumption == /\ CallRequests \subseteq Contract!Requests
                          /\ Printed \subseteq Outputs /\ MaxCalls \in Nat
                          /\ Waiting # Raised /\ Waiting \notin Contract!Results

AzureInit == /\ request \in CallRequests /\ calls = 1 /\ keySigned = 0 /\ reply = Waiting
             /\ az = "none" /\ vault = 0

Calling == reply = Waiting

----------------------------------------------------------------------------
\* A bug: the length of the digest is not looked at.
Mut_RequestOK(r) == r.alg = "ES256" /\ r.key = "vault" /\ r.digest # "garbled"
\* The algorithm, _validate_azure_key_id (no port, an exact version) and the digest.
RequestOK(r) == r.alg = "ES256" /\ r.key = "vault" /\ r.digest = "raw32"

\* sign_digest up to the run of the process; the executable may be missing.
Run ==
    /\ Calling /\ az = "none"
    /\ \/ RequestOK(request) /\ az' = "running" /\ UNCHANGED reply
       \/ reply' = Raised /\ UNCHANGED az
    /\ UNCHANGED <<request, calls, keySigned, vault>>

\* The process asks the vault, once; the vault signs what it was sent, in time or not.
Send == /\ az = "running" /\ az' = "sent" /\ vault' = vault + 1
        /\ UNCHANGED <<request, calls, keySigned, reply>>

VaultSigns == /\ vault > 0 /\ vault' = vault - 1 /\ keySigned' = keySigned + 1
              /\ UNCHANGED <<request, calls, reply, az>>

\* subprocess.run kills the process; its output is thrown away.
TimesOut == /\ Calling /\ az # "none"
            /\ reply' = Raised /\ az' = "none"
            /\ UNCHANGED <<request, calls, keySigned, vault>>

\* The caller of sign_digest tries once more.
CallAgain == /\ reply = Raised /\ calls < MaxCalls
             /\ reply' = Waiting /\ calls' = calls + 1
             /\ UNCHANGED <<request, keySigned, az, vault>>

----------------------------------------------------------------------------
(* _parse_operation_result *)

DecodesStrict(value) == value \in {"raw64", "short"}

Given(out) == IF out.value # "absent" THEN out.value ELSE out.result

Parses(out) == /\ out.text = "object"
               /\ out.kid = "own"
               /\ out.value = "absent" <=> out.result # "absent"
               /\ DecodesStrict(Given(out)) /\ Given(out) # "short"

\* The process ends by itself, with an exit code and what it printed.
Exits ==
    /\ Calling /\ az # "none" /\ az' = "none"
    /\ \/ reply' = Raised
       \/ \E out \in Printed :
             reply' = IF Parses(out)
                      THEN [alg |-> "ES256", key |-> out.kid, value |-> Given(out)]
                      ELSE Raised
    /\ UNCHANGED <<request, calls, keySigned, vault>>

AzureNext == Run \/ Send \/ VaultSigns \/ TimesOut \/ CallAgain \/ Exits

AzureSpec == AzureInit /\ [][AzureNext]_azureVars

----------------------------------------------------------------------------
\* The adapter is the signer the receipt side expects: a request that is refused never
\* reaches the key, the key signs once a call at most, those that timed out included,
\* and what the adapter returns after its own checks is never refused for its form by
\* the checks of the other file.
ImplementsDigestSigner == Contract!SignerSpec
=============================================================================
