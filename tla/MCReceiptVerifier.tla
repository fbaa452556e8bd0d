------------------------- MODULE MCReceiptVerifier -------------------------
(* Receipts and registries for TLC: canonical signatures, entries that differ *)
(* from one in a single field, and bodies at the edges of the policy.         *)
EXTENDS ReceiptVerifier, TLC

CONSTANTS k1, k2, k3, legal, tech, this, that

MCKids == {k1, k2, k3}
MCRoles == {legal, tech}

Key(role, active, dated, from, until, jwk) ==
    [role |-> role, active |-> active, dated |-> dated,
     from |-> from, until |-> until, jwk |-> jwk]

Open(role, jwk) == Key(role, TRUE, TRUE, 0, 9, jwk)
Base == k1 :> Open(legal, k1) @@ k2 :> Open(tech, k2)

MCRegistries ==
    {Base,
     <<>>,
     k1 :> Open(legal, k1) @@ k2 :> Key(tech, FALSE, TRUE, 0, 9, k2),
     k1 :> Open(legal, k1) @@ k2 :> Key(tech, TRUE, TRUE, 4, 5, k2),
     k1 :> Open(legal, k1) @@ k2 :> Key(tech, TRUE, FALSE, 0, 9, k2)}

Body(content, sound, class, min, roles, created) ==
    [content |-> content, sound |-> sound, class |-> class, min |-> min,
     roles |-> roles, created |-> created]

MCBodies ==
    {Body(this, TRUE, class, min, {legal, tech}, 4)
        : class \in {"A", "B", "other"}, min \in -1 .. 3}
    \cup {Body(this, TRUE, "B", 1, {legal}, created) : created \in {NoTime, 3, 5, 6}}
    \cup {Body(this, FALSE, "B", 1, {}, 4), Body(this, TRUE, "C", 0, {}, 4)}

Canonical(b) == {SignatureOf(k, Base, b) : k \in {k1, k2}}

Deviant(b) ==
    LET s == SignatureOf(k2, Base, b)
        other == [b EXCEPT !.content = that]
    IN  {[s EXCEPT !.parsed = FALSE], [s EXCEPT !.role = legal],
         [s EXCEPT !.kid = k3], [s EXCEPT !.header = k1],
         [s EXCEPT !.by = k1], [s EXCEPT !.by = Nobody],
         [s EXCEPT !.over = <<k2, other>>], SignatureOf(k2, Base, other)}

\* Up to three canonical signatures, with at most one deviant in any place.
Sequences(b) ==
    LET C == Canonical(b)
        D == C \cup Deviant(b)
    IN  {<<>>} \cup {<<x>> : x \in D} \cup (D \X C) \cup (C \X D)
        \cup (C \X C \X D) \cup (D \X C \X C)

MCReceipts ==
    UNION {[body : {b}, hash : {b}, signatures : Sequences(b)] : b \in MCBodies}
    \cup {[body |-> b, hash |-> h, signatures |-> s]
            : b \in {Body(this, TRUE, "B", 1, {}, 4)}, h \in {None, Body(that, TRUE, "B", 1, {}, 4)},
              s \in Sequences(Body(this, TRUE, "B", 1, {}, 4))}
=============================================================================
