-------------------------- MODULE ReceiptVerifier --------------------------
(***************************************************************************)
(* verify_receipt (src/src/sentinel_core/receipt.py), one step per stage   *)
(* and one per signature.  It never stops at an error: each check adds its *)
(* issue and goes on, a signature with an issue is skipped, and the status *)
(* is read off the issues at the end.                                      *)
(***************************************************************************)
EXTENDS Receipts

CONSTANTS Receipts, Registries   \* what the verifier may be given

ASSUME InputsAssumption ==
    /\ Receipts \subseteq ReceiptSpace
    /\ \A reg \in Registries : IsRegistry(reg)

VARIABLES receipt, registry,  \* the arguments
          pc,                 \* the stage
          errors,             \* whether an issue of severity error was added
          next,               \* the signature looked at next
          seen,               \* seen_valid_kids
          valid,              \* valid_signatures
          matched,            \* matched_roles
          status              \* of the result, "none" before it

vars == <<receipt, registry, pc, errors, next, seen, valid, matched, status>>
arguments == <<receipt, registry>>

Init == /\ receipt \in Receipts /\ registry \in Registries
        /\ pc = "policy" /\ errors = FALSE /\ next = 1
        /\ seen = {} /\ valid = 0 /\ matched = {} /\ status = "none"

\* The policy comes first, and an empty registry ends the verification there.
CheckPolicy ==
    /\ pc = "policy"
    /\ IF DOMAIN registry = {}
       THEN pc' = "done" /\ status' = "CONFIG_ERROR" /\ errors' = TRUE
       ELSE pc' = "header" /\ errors' = ~PolicyOK(receipt.body) /\ UNCHANGED status
    /\ UNCHANGED <<arguments, next, seen, valid, matched>>

CheckHeader ==
    /\ pc = "header" /\ pc' = "signatures"
    /\ errors' = (errors \/ ~HeaderOK(receipt))
    /\ UNCHANGED <<arguments, next, seen, valid, matched, status>>

Looking == pc = "signatures" /\ next <= Len(receipt.signatures)
Entry == receipt.signatures[next]

\* Bugs: a signature of a key that has one already counts again; the second of a
\* key is skipped unread, valid or not.
Mut_IgnoreDuplicate ==
    /\ Looking /\ EntryOK(Entry, receipt, registry) /\ Entry.kid \in seen
    /\ valid' = valid + 1 /\ next' = next + 1
    /\ UNCHANGED <<arguments, pc, errors, seen, matched, status>>

Mut_SkipSignature ==
    /\ Looking /\ ~EntryOK(Entry, receipt, registry)
    /\ errors' = (errors \/ Entry.kid \notin seen) /\ next' = next + 1
    /\ UNCHANGED <<arguments, pc, seen, valid, matched, status>>

SkipSignature ==
    /\ Looking /\ ~EntryOK(Entry, receipt, registry)
    /\ errors' = TRUE /\ next' = next + 1
    /\ UNCHANGED <<arguments, pc, seen, valid, matched, status>>

\* A warning, no error.
IgnoreDuplicate ==
    /\ Looking /\ EntryOK(Entry, receipt, registry) /\ Entry.kid \in seen
    /\ next' = next + 1
    /\ UNCHANGED <<arguments, pc, errors, seen, valid, matched, status>>

CountSignature ==
    /\ Looking /\ EntryOK(Entry, receipt, registry) /\ Entry.kid \notin seen
    /\ seen' = seen \cup {Entry.kid} /\ valid' = valid + 1
    /\ matched' = matched \cup {Entry.role}
    /\ next' = next + 1
    /\ UNCHANGED <<arguments, pc, errors, status>>

Conclude ==
    /\ pc = "signatures" /\ next > Len(receipt.signatures)
    /\ pc' = "done"
    /\ errors' = (errors \/ ~QuorumOK(receipt.body, valid, matched))
    /\ status' = IF errors' THEN "NOT_VERIFIED" ELSE "RC_VERIFIED"
    /\ UNCHANGED <<arguments, next, seen, valid, matched>>

Next == CheckPolicy \/ CheckHeader \/ SkipSignature \/ IgnoreDuplicate
        \/ CountSignature \/ Conclude

Spec == Init /\ [][Next]_vars

----------------------------------------------------------------------------
(* Properties *)

\* The variables keep their types; a result says verified without an error only.
TypeOK == /\ receipt \in ReceiptSpace /\ IsRegistry(registry)
          /\ pc \in {"policy", "header", "signatures", "done"}
          /\ errors \in BOOLEAN
          /\ next \in 1 .. Len(receipt.signatures) + 1
          /\ seen \subseteq DOMAIN registry /\ valid \in Nat /\ matched \subseteq Roles
          /\ status \in {"none", "CONFIG_ERROR", "NOT_VERIFIED", "RC_VERIFIED"}
          /\ status # "none" <=> pc = "done"
          /\ status = "RC_VERIFIED" => ~errors

\* The verdict is RC_VERIFIED exactly when the receipt is Accepted: hash and
\* policy hold, every signature on it is the one its trusted key makes over this
\* body, and enough distinct keys and all required roles are among the signers.
VerdictIsAccepted ==
    pc = "done" => (status = "RC_VERIFIED" <=> Accepted(receipt, registry))

\* Each key counts once, whatever the order and number of its signatures: the
\* quorum is one of distinct keys and the roles are theirs.
QuorumIsDistinct ==
    /\ valid = Cardinality(seen)
    /\ matched = {registry[k].role : k \in seen}
=============================================================================
