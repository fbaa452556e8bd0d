--------------------------- MODULE MCEvidenceLog ---------------------------
(* The small instance on which TLC checks EvidenceLog. *)
EXTENDS EvidenceLog

CONSTANTS k1, k2, p1, p2, m1, m2

Key(id, alg, m, role, status, from, until) ==
    [key_id |-> id, alg |-> alg, material |-> m, role |-> role, status |-> status,
     not_before |-> from, not_after |-> until]
Rule(role, decisions, sources) ==
    [role |-> role, allowed_decisions |-> decisions, allowed_sources |-> sources]
Policy(id, version, rules) == [policy_id |-> id, version |-> version, rules |-> rules]
Content(k, alg, time, p, decision) ==
    [key_id |-> k, alg |-> alg, issued_at |-> time, policy_id |-> p, decision |-> decision,
     source |-> "gate"]

Auditor == Key(k1, "EdDSA", m1, "auditor", "active", 2, 2)
Sensor == Key(k2, "EdDSA", m2, "sensor", "active", None, None)

MCTrustFiles == {
    <<Auditor, Sensor>>,
    <<Key(k1, "EdDSA", m2, "sensor", "active", None, None), Auditor>>,   \* a duplicate
    <<Key(k1, "ES256", m1, "auditor", "active", None, None)>> }          \* refused
MCKeyChanges == {
    Key(k1, "EdDSA", m1, "auditor", "revoked", 2, 2),
    Key(k1, "EdDSA", m2, "sensor", "active", Unparsable, None),
    Key(k1, "ES256", m1, "auditor", "active", None, None) }

Bootstrap == Policy(p1, "0.1.0", << Rule("sensor", {"review"}, {}),
                                    Rule("auditor", {"review", "allow"}, {"gate"}),
                                    Rule("sensor", {"allow"}, {}) >>)
Stricter == Policy(p1, "0.2.0", << Rule("sensor", {"review"}, {}),
                                   Rule("auditor", {"review"}, {}) >>)
MCPolicyFiles == { <<Bootstrap>>,
                   <<Policy(p1, "0.1.0", << Rule("guest", {"allow"}, {}) >>)>> }  \* refused
MCPolicyChanges == { Stricter, Policy(p1, "0.1.1", << Rule("auditor", {"allow"}, {"lab"}) >>) }

MCContents == {
    Content(k1, "EdDSA", 2, p1, "allow"),
    Content(k2, "EdDSA", 1, p1, "allow"),      \* allowed by a second rule only
    Content(k2, "EdDSA", 3, p1, "review"),
    Content(k1, "ES256", Unparsable, p2, "later") }
MCMalformed == { Content(k1, "ES256", Unparsable, p2, "later") }

Mode(trust, requireTrust, policy, requirePolicy, role) ==
    [trust |-> trust, requireTrust |-> requireTrust, policy |-> policy,
     requirePolicy |-> requirePolicy, actorRole |-> role]
MCModes == {
    Mode(TRUE, TRUE, TRUE, TRUE, None),
    Mode(TRUE, TRUE, TRUE, TRUE, "auditor"),
    Mode(FALSE, TRUE, FALSE, TRUE, None),
    Mode(FALSE, FALSE, TRUE, TRUE, "auditor"),
    Mode(FALSE, FALSE, FALSE, FALSE, None) }
=============================================================================
