---------------------------- MODULE EvidenceLog ----------------------------
(***************************************************************************)
(* verify_evidence_record (src/src/sentinel_core/verifier.py) over a log   *)
(* of signed, hash-chained records: holders of keys issue records, the log *)
(* that stores them may lose, repeat, swap or alter some, the registries   *)
(* change, and a caller verifies record after record, each against the     *)
(* digest of the one before it.                                            *)
(*                                                                         *)
(* A digest stands for what was hashed: the contents of a record and of    *)
(* all records before it, in their order.  The content of a record is      *)
(* everything but previous_hash and signature.value.                       *)
(***************************************************************************)
EXTENDS EvidenceRegistries

CONSTANTS Contents,      \* contents of records that may be issued
          Malformed,     \* those that break the JSON schema
          Materials,     \* key pairs
          TrustFiles, PolicyFiles,   \* registry files, as sequences of entries
          KeyChanges, PolicyChanges, \* entries passed to add()
          Modes,         \* the options a caller may verify with
          MaxRecords, MaxMishaps     \* bounds: records issued, mishaps

\* A registry file is a sequence of entries.
IsFile(entries) == entries \in Seq({entries[i] : i \in DOMAIN entries})

ASSUME LogAssumption ==
    /\ None \notin TrustRoles
    /\ \A f \in TrustFiles \cup PolicyFiles : IsFile(f)
    /\ Malformed \subseteq Contents /\ None \notin Seq(Contents)
    /\ None \notin [by : Materials, over : Seq(Contents)]
    /\ \A c \in Contents : c.key_id \in KeyIds /\ c.policy_id \in PolicyIds
    /\ \A f \in TrustFiles : \A i \in DOMAIN f : f[i].key_id \in KeyIds
    /\ \A f \in PolicyFiles : \A i \in DOMAIN f : f[i].policy_id \in PolicyIds
    /\ \A k \in KeyChanges : k.key_id \in KeyIds
    /\ \A p \in PolicyChanges : p.policy_id \in PolicyIds
    /\ MaxRecords \in Nat /\ MaxMishaps \in Nat

VARIABLES keys, policies,   \* TrustRegistry._keys, PolicyRegistry._policies
          log,        \* the stored records
          head,       \* digest of the record issued last
          signed,     \* history: which key pair signed which digest
          mode,       \* options of the caller
          target,     \* digest the walk has to arrive at: expected_digest
          walked,     \* digest of the record verified last: expected_previous_hash
          accepted,   \* history: contents verified with ok
          used,       \* history: the TrustKey each was verified with, or None
          verdict,    \* where the walk stands
          mishaps     \* what happened to log and registries so far

vars == <<keys, policies, log, head, signed, mode, target, walked, accepted, used,
          verdict, mishaps>>
registries == <<keys, policies>>
walk == <<mode, target, walked, accepted, used, verdict>>

ZeroHash == << >>

\* compute_chain_link, and what a record's signature is made over.
DigestOf(record) == Append(record.previous_hash, record.content)

Init == /\ \E f \in TrustFiles : TrustFileLoads(f) /\ keys = TrustRegistryOf(f)
        /\ \E f \in PolicyFiles : PolicyFileLoads(f) /\ policies = PolicyRegistryOf(f)
        /\ log = << >> /\ head = ZeroHash /\ signed = {}
        /\ mode \in Modes
        /\ target = ZeroHash /\ walked = ZeroHash
        /\ accepted = << >> /\ used = << >>
        /\ verdict = "idle" /\ mishaps = 0

----------------------------------------------------------------------------
(* Issuing: build_signed_synthetic_record, with the chain continued *)

SignedBy(m, record) == [by |-> m, over |-> DigestOf(record)]

\* The holder of a key pair appends a record to the chain.
Issue(m, c) ==
    /\ Len(head) < MaxRecords
    /\ LET record == [previous_hash |-> head, content |-> c] IN
       /\ head' = DigestOf(record)
       /\ signed' = signed \cup {SignedBy(m, record)}
       /\ log' = Append(log, [previous_hash |-> head, content |-> c,
                              signature |-> SignedBy(m, record)])
    /\ UNCHANGED <<registries, walk, mishaps>>

----------------------------------------------------------------------------
(* What may happen to the stored log and to the registries *)

Mishap == mishaps < MaxMishaps /\ mishaps' = mishaps + 1

RemoveAt(i) == SubSeq(log, 1, i - 1) \o SubSeq(log, i + 1, Len(log))

LogMishap ==
    /\ Mishap
    /\ \E i \in 1 .. Len(log) :
          \/ log' = RemoveAt(i)
          \/ log' = Append(log, log[i])
          \/ i < Len(log) /\ log' = [log EXCEPT ![i] = log[i + 1], ![i + 1] = log[i]]
          \/ \E c \in Contents : log' = [log EXCEPT ![i].content = c]
          \/ log' = [log EXCEPT ![i].signature = None]
    /\ UNCHANGED <<registries, head, signed, walk>>

\* add() and the loader; a file that does not load raises and changes nothing.
TrustChange ==
    /\ Mishap
    /\ \/ \E k \in KeyChanges : keys' = [keys EXCEPT ![k.key_id] = k]
       \/ \E f \in TrustFiles : TrustFileLoads(f) /\ keys' = TrustRegistryOf(f)
    /\ UNCHANGED <<policies, log, head, signed, walk>>

PolicyChange ==
    /\ Mishap
    /\ \/ \E p \in PolicyChanges : policies' = [policies EXCEPT ![p.policy_id] = p]
       \/ \E f \in PolicyFiles : PolicyFileLoads(f) /\ policies' = PolicyRegistryOf(f)
    /\ UNCHANGED <<keys, log, head, signed, walk>>

----------------------------------------------------------------------------
(* verify_evidence_record: all checks are made, and errors is empty when they   *)
(* all pass                                                                     *)

SchemaOK(record) == record.content \notin Malformed /\ record.signature # None

\* A bug: a record is taken from anywhere in the chain.
Mut_ChainOK(record, previous, expected) == expected # None => DigestOf(record) = expected
ChainOK(record, previous, expected) ==
    /\ record.previous_hash = previous
    /\ expected # None => DigestOf(record) = expected

\* resolved_trust_key
TrustKeyOf(record) ==
    IF mode.trust /\ Resolves(keys, record.content) THEN keys[record.content.key_id] ELSE None

\* verify_eddsa_record
SignatureVerifies(record, material) == record.signature = SignedBy(material, record)

\* A bug: an unresolved key is a warning only.
Mut_SignatureOK(record) ==
    LET key == TrustKeyOf(record) IN
    IF key # None
    THEN key.alg = "EdDSA" /\ SignatureVerifies(record, key.material)
    ELSE mode.trust \/ ~mode.requireTrust

\* ES256 keys are not supported.
SignatureOK(record) ==
    LET key == TrustKeyOf(record) IN
    IF mode.trust
    THEN key # None /\ key.alg = "EdDSA" /\ SignatureVerifies(record, key.material)
    ELSE ~mode.requireTrust

\* A bug: the role the caller claims overrides the role of the key.
Mut_RoleFor(record) ==
    IF mode.actorRole # None THEN mode.actorRole
    ELSE IF TrustKeyOf(record) # None THEN TrustKeyOf(record).role ELSE None

\* policy_role
RoleFor(record) ==
    IF TrustKeyOf(record) # None THEN TrustKeyOf(record).role ELSE mode.actorRole

PolicyOK(record) ==
    IF mode.policy
    THEN RoleFor(record) # None /\ Authorizes(policies, RoleFor(record), record.content)
    ELSE ~mode.requirePolicy

Verifies(record, previous, expected) ==
    /\ SchemaOK(record) /\ ChainOK(record, previous, expected)
    /\ SignatureOK(record) /\ PolicyOK(record)

----------------------------------------------------------------------------
(* The caller: record after record, the last one against the digest it expects *)

Begin == /\ verdict = "idle" /\ head # ZeroHash
         /\ target' = head /\ verdict' = "walking"
         /\ UNCHANGED <<registries, log, head, signed, mode, walked, accepted, used, mishaps>>

Expected(i) == IF i = Len(target) THEN target ELSE None

VerifyNext ==
    LET i == Len(accepted) + 1 IN
    /\ verdict = "walking" /\ i <= Len(log)
    /\ \/ /\ Verifies(log[i], walked, Expected(i))
          /\ walked' = DigestOf(log[i])
          /\ accepted' = Append(accepted, log[i].content)
          /\ used' = Append(used, TrustKeyOf(log[i]))
          /\ verdict' = IF i = Len(target) THEN "whole" ELSE "walking"
       \/ /\ ~Verifies(log[i], walked, Expected(i))
          /\ verdict' = "rejected"
          /\ UNCHANGED <<walked, accepted, used>>
    /\ UNCHANGED <<registries, log, head, signed, mode, target, mishaps>>

\* The log ends before the expected digest is reached.
CutShort == /\ verdict = "walking" /\ Len(accepted) >= Len(log)
            /\ verdict' = "short"
            /\ UNCHANGED <<registries, log, head, signed, mode, target, walked, accepted,
                           used, mishaps>>

Next == \/ \E m \in Materials, c \in Contents : Issue(m, c)
        \/ LogMishap \/ TrustChange \/ PolicyChange
        \/ Begin \/ VerifyNext \/ CutShort

Spec == Init /\ [][Next]_vars

----------------------------------------------------------------------------
(* Properties *)

TypeOK ==
    /\ log \in Seq([previous_hash : Seq(Contents), content : Contents,
                    signature : [by : Materials, over : Seq(Contents)] \cup {None}])
    /\ head \in Seq(Contents) /\ target \in Seq(Contents)
    /\ walked \in Seq(Contents) /\ accepted \in Seq(Contents)
    /\ signed \subseteq [by : Materials, over : Seq(Contents)]
    /\ mode \in Modes
    /\ DOMAIN keys = KeyIds /\ DOMAIN policies = PolicyIds
    /\ Len(used) = Len(accepted) /\ Len(accepted) <= Len(target)
    /\ verdict = "idle" => accepted = << >>
    /\ verdict = "walking" => Len(accepted) < Len(target)
    /\ verdict \in {"idle", "walking", "whole", "rejected", "short"}
    /\ mishaps \in 0 .. MaxMishaps

\* A walk that ends well has seen exactly the records that were issued up to the
\* digest it expected, in their order: whatever the log lost, repeated, swapped or
\* altered meanwhile, and even where no signature was asked for.
WholeLogIsIssuedLog == verdict = "whole" => accepted = target

\* Where trusted signatures are required, each record that verified, together with
\* all records accepted before it, was signed by the key pair that the registry
\* named for it at that moment.
AcceptedWasSigned ==
    mode.requireTrust =>
       \A i \in 1 .. Len(accepted) :
          /\ used[i] # None
          /\ [by |-> used[i].material, over |-> SubSeq(accepted, 1, i)] \in signed

\* "Authorization follows the verified key, not a caller-supplied claim": when both
\* are required, a record is accepted only if its key is active, was valid when the
\* record says it was issued, and has a role to which the declared policy, by its
\* first rule for that role, allows the decision.
AcceptsByVerifiedRole ==
    [][/\ mode.requireTrust /\ mode.requirePolicy
       /\ accepted' # accepted
       => LET c == accepted'[Len(accepted')]
              key == keys[c.key_id]
              policy == policies[c.policy_id] IN
          /\ key # None /\ key.status = "active"
          /\ key.not_before # None => key.not_before <= c.issued_at
          /\ key.not_after # None => c.issued_at <= key.not_after
          /\ policy # None
          /\ \E i \in DOMAIN policy.rules :
                /\ IsRuleFor(policy.rules, i, key.role)
                /\ c.decision \in policy.rules[i].allowed_decisions]_vars

\* What may stand in the log: a well-formed content, signed with EdDSA by the key
\* that is registered for it and valid then, for a decision open to its role.
Permitted(record) ==
    LET c == record.content
        key == keys[c.key_id]
        policy == policies[c.policy_id] IN
    /\ c \notin Malformed
    /\ key # None /\ key.status = "active" /\ c.alg = "EdDSA" /\ key.alg = "EdDSA"
    /\ c.issued_at # Unparsable
    /\ Unparsable \notin {key.not_before, key.not_after}
    /\ key.not_before # None => key.not_before <= c.issued_at
    /\ key.not_after # None => c.issued_at <= key.not_after
    /\ record.signature.by = key.material
    /\ policy # None
    /\ \E i \in DOMAIN policy.rules :
          /\ IsRuleFor(policy.rules, i, key.role)
          /\ c.decision \in policy.rules[i].allowed_decisions
          /\ \/ policy.rules[i].allowed_sources = {}
             \/ c.source \in policy.rules[i].allowed_sources

\* Nothing is refused without a cause: while log and registries are as they were,
\* a walk with both registries stops only at a record that should not be there.
IntactLogPasses ==
    /\ mishaps = 0 /\ mode.trust /\ mode.policy
    => /\ verdict # "short"
       /\ verdict = "rejected" => ~Permitted(log[Len(accepted) + 1])

\* "This keeps old records verifiable against the policy version that was active
\* when the record was created" (docs/stage-3-policy-authorization.md): what was
\* accepted stays authorized as long as its key stands.
HistoryStands ==
    mode.trust /\ mode.policy =>
       \A i \in 1 .. Len(accepted) :
          keys[accepted[i].key_id] = used[i] =>
             Authorizes(policies, used[i].role, accepted[i])
=============================================================================
