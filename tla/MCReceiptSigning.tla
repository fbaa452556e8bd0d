-------------------------- MODULE MCReceiptSigning --------------------------
(* The small instances on which TLC checks ReceiptSigning. *)
EXTENDS ReceiptSigning, TLC

CONSTANTS k1, k2, legal, tech, this, that, j1, j2, j3

MCKids == {k1, k2}
MCRoles == {legal, tech}

Open(role, jwk) == [role |-> role, active |-> TRUE, dated |-> TRUE,
                    from |-> 0, until |-> 9, jwk |-> jwk]
MCRegistry == k1 :> Open(legal, k1) @@ k2 :> Open(tech, k2)

Draft(content, class, min, roles) ==
    [content |-> content, sound |-> TRUE, class |-> class, min |-> min,
     roles |-> roles, created |-> 4]

\* The author wavers between a class A release and one that needs the legal role.
TwoDrafts == {Draft(this, "A", 2, {tech}), Draft(that, "B", 1, {legal})}

\* j1 and j2 sign with the same key.
TwiceKeyOf == j1 :> k1 @@ j2 :> k1 @@ j3 :> k2
TwiceRoleOf == j1 :> legal @@ j2 :> legal @@ j3 :> tech

\* j1 and j2 are interchangeable.
Symmetry == Permutations({j1, j2})

ASSUME MCAssumption == SetUp

AllMishaps == {"misanswer", "revise", "revoke"}
=============================================================================
