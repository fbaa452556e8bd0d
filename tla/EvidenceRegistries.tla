------------------------- MODULE EvidenceRegistries -------------------------
(***************************************************************************)
(* The trust and policy registries of the evidence verifier (trust.py,     *)
(* policy.py) and their JSON loader (registry_loader.py), as operators     *)
(* over their contents: a registry is a function from ids to an entry or   *)
(* None.  Timestamps are numbers.                                          *)
(***************************************************************************)
EXTENDS Naturals, Sequences

CONSTANTS KeyIds,      \* signature.key_id
          PolicyIds,   \* record.policy_id
          None,        \* Python's None, and an id that is not registered
          Unparsable   \* a string that is no RFC 3339 time with a zone

TrustRoles == {"sensor", "auditor", "authority", "admin"}
Decisions == {"allow", "deny", "review", "quarantine"}
KeyStatuses == {"active", "revoked", "expired"}

----------------------------------------------------------------------------
(* trust.py *)

\* Later entries of one id replace earlier ones, as in a dict comprehension.
Registered(entries, id, field) ==
    IF \E i \in DOMAIN entries : entries[i][field] = id
    THEN entries[CHOOSE i \in DOMAIN entries :
                    /\ entries[i][field] = id
                    /\ \A j \in DOMAIN entries : entries[j][field] = id => j <= i]
    ELSE None

TrustRegistryOf(entries) == [k \in KeyIds |-> Registered(entries, k, "key_id")]

\* A bug: the key expires at not_after, not after it.
Mut_Within(key, time) ==
    /\ time # Unparsable
    /\ key.not_before # None => key.not_before # Unparsable /\ key.not_before <= time
    /\ key.not_after # None => key.not_after # Unparsable /\ time < key.not_after

\* issued_at lies in the key's window; both ends belong to it.
Within(key, time) ==
    /\ time # Unparsable
    /\ key.not_before # None => key.not_before # Unparsable /\ key.not_before <= time
    /\ key.not_after # None => key.not_after # Unparsable /\ time <= key.not_after

\* resolve_active_key_at returns the key instead of raising.
Resolves(keys, content) ==
    LET key == keys[content.key_id] IN
    /\ key # None
    /\ key.alg = content.alg
    /\ key.status = "active"
    /\ Within(key, content.issued_at)

----------------------------------------------------------------------------
(* policy.py *)

PolicyRegistryOf(entries) == [p \in PolicyIds |-> Registered(entries, p, "policy_id")]

Allows(rule, content) ==
    /\ content.decision \in rule.allowed_decisions
    /\ rule.allowed_sources = {} \/ content.source \in rule.allowed_sources

\* The first rule of the role counts.
IsRuleFor(rules, i, role) ==
    /\ rules[i].role = role
    /\ \A j \in DOMAIN rules : j < i => rules[j].role # role

\* authorize_record, by the policy the record declares.
Authorizes(policies, role, content) ==
    LET policy == policies[content.policy_id] IN
    /\ policy # None
    /\ \E i \in DOMAIN policy.rules :
          IsRuleFor(policy.rules, i, role) /\ Allows(policy.rules[i], content)

----------------------------------------------------------------------------
(* registry_loader.py: files that load instead of raising RegistryLoaderError *)

TrustFileLoads(entries) ==
    \A i \in DOMAIN entries :
       /\ entries[i].alg = "EdDSA"
       /\ entries[i].role \in TrustRoles /\ entries[i].status \in KeyStatuses
       /\ Unparsable \notin {entries[i].not_before, entries[i].not_after}

PolicyFileLoads(entries) ==
    \A i \in DOMAIN entries : \A j \in DOMAIN entries[i].rules :
       LET rule == entries[i].rules[j] IN
       /\ rule.role \in TrustRoles
       /\ rule.allowed_decisions # {} /\ rule.allowed_decisions \subseteq Decisions
=============================================================================
