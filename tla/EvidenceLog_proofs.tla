------------------------ MODULE EvidenceLog_proofs ------------------------
(***************************************************************************)
(* Theorems about EvidenceLog, for any contents, keys, policies, registry  *)
(* files, options of the caller and numbers of mishaps.                    *)
(***************************************************************************)
EXTENDS EvidenceLog, SequenceTheorems, WellFoundedInduction, TLAPS

Digests == Seq(Contents)
Signatures == [by : Materials, over : Digests]
Records == [previous_hash : Digests, content : Contents, signature : Signatures \cup {None}]

\* Digests of records are digests, and signatures over them signatures.
LEMMA DigestTyped ==
    ASSUME NEW r, r.previous_hash \in Digests, r.content \in Contents, NEW m \in Materials
    PROVE  DigestOf(r) \in Digests /\ SignedBy(m, r) \in Signatures
BY DEF DigestOf, SignedBy, Digests, Signatures

LEMMA LogTyped == TypeOK => /\ log \in Seq(Records)
                            /\ \A i \in 1 .. Len(log) : log[i] \in Records
<1>1. TypeOK => log \in Seq(Records)
  BY DEF TypeOK, Records, Signatures, Digests
<1> QED BY <1>1, ElementOfSeq

\* Whatever happens to the stored log leaves it a log of records that were there
\* before, up to an altered content and a missing signature.
LEMMA StoredLog ==
    ASSUME log \in Seq(Records), LogMishap
    PROVE  /\ log' \in Seq(Records)
           /\ \A i \in 1 .. Len(log') :
                 log'[i].signature = None \/
                 \E j \in 1 .. Len(log) : log'[i].signature = log[j].signature
<1>1. PICK i \in 1 .. Len(log) :
          \/ log' = RemoveAt(i)
          \/ log' = Append(log, log[i])
          \/ i < Len(log) /\ log' = [log EXCEPT ![i] = log[i + 1], ![i + 1] = log[i]]
          \/ \E c \in Contents : log' = [log EXCEPT ![i].content = c]
          \/ log' = [log EXCEPT ![i].signature = None]
  BY DEF LogMishap
<1>2. CASE log' = RemoveAt(i)
  <2>1. /\ SubSeq(log, 1, i - 1) \in Seq(Records)
        /\ SubSeq(log, i + 1, Len(log)) \in Seq(Records)
        /\ Len(SubSeq(log, 1, i - 1)) = i - 1
        /\ Len(SubSeq(log, i + 1, Len(log))) = Len(log) - i
        /\ \A j \in 1 .. i - 1 : SubSeq(log, 1, i - 1)[j] = log[j]
        /\ \A j \in 1 .. Len(log) - i : SubSeq(log, i + 1, Len(log))[j] = log[i + j]
    OBVIOUS
  <2>2. log' = SubSeq(log, 1, i - 1) \o SubSeq(log, i + 1, Len(log))
    BY <1>2 DEF RemoveAt
  <2>3. /\ log' \in Seq(Records) /\ Len(log') = (i - 1) + (Len(log) - i)
        /\ \A j \in 1 .. Len(log') :
              log'[j] = IF j <= i - 1 THEN SubSeq(log, 1, i - 1)[j]
                        ELSE SubSeq(log, i + 1, Len(log))[j - (i - 1)]
    <3> DEFINE s == SubSeq(log, 1, i - 1)
               t == SubSeq(log, i + 1, Len(log))
    <3>1. /\ s \in Seq(Records) /\ t \in Seq(Records)
          /\ Len(s) = i - 1 /\ Len(t) = Len(log) - i /\ log' = s \o t
      BY <2>1, <2>2
    <3> HIDE DEF s, t
    <3>2. /\ s \o t \in Seq(Records) /\ Len(s \o t) = Len(s) + Len(t)
          /\ \A j \in 1 .. Len(s) + Len(t) :
                (s \o t)[j] = IF j <= Len(s) THEN s[j] ELSE t[j - Len(s)]
      BY <3>1, ConcatProperties
    <3>3. /\ log' \in Seq(Records) /\ Len(log') = (i - 1) + (Len(log) - i)
          /\ \A j \in 1 .. Len(log') : log'[j] = IF j <= i - 1 THEN s[j] ELSE t[j - (i - 1)]
      BY <3>1, <3>2
    <3> QED BY <3>3 DEF s, t
  <2>4. ASSUME NEW j \in 1 .. Len(log')
        PROVE  \E k \in 1 .. Len(log) : log'[j] = log[k]
    <3>1. CASE j <= i - 1
      <4>1. j \in 1 .. i - 1 /\ j \in 1 .. Len(log)
        BY <2>3, <3>1
      <4> QED BY <2>1, <2>3, <3>1, <4>1
    <3>2. CASE ~(j <= i - 1)
      <4>1. /\ j - (i - 1) \in 1 .. Len(log) - i /\ i + (j - (i - 1)) \in 1 .. Len(log)
        BY <2>3, <3>2
      <4> QED BY <2>1, <2>3, <3>2, <4>1
    <3> QED BY <3>1, <3>2
  <2> QED BY <2>3, <2>4
<1>3. CASE log' = Append(log, log[i])
  BY <1>3
<1>4. CASE i < Len(log) /\ log' = [log EXCEPT ![i] = log[i + 1], ![i + 1] = log[i]]
  BY <1>4
<1>5. ASSUME NEW c \in Contents, log' = [log EXCEPT ![i].content = c]
      PROVE  /\ log' \in Seq(Records)
             /\ \A j \in 1 .. Len(log') : log'[j].signature = log[j].signature
  <2> DEFINE new == [log[i] EXCEPT !.content = c]
  <2>1. log[i] \in Records /\ log' = [log EXCEPT ![i] = new]
    BY <1>5, ElementOfSeq
  <2>2. new \in Records /\ new.signature = log[i].signature
    BY <2>1 DEF Records
  <2>3. log' \in Seq(Records) /\ Len(log') = Len(log)
    BY <2>1, <2>2, ExceptSeq
  <2> QED BY <2>1, <2>2, <2>3, LenProperties
<1>6. CASE log' = [log EXCEPT ![i].signature = None]
  <2> DEFINE new == [log[i] EXCEPT !.signature = None]
  <2>1. log[i] \in Records /\ log' = [log EXCEPT ![i] = new]
    BY <1>6, ElementOfSeq
  <2>2. new \in Records /\ new.signature = None
    BY <2>1 DEF Records
  <2>3. log' \in Seq(Records) /\ Len(log') = Len(log)
    BY <2>1, <2>2, ExceptSeq
  <2> QED BY <2>1, <2>2, <2>3, LenProperties
<1> QED BY <1>1, <1>2, <1>3, <1>4, <1>5, <1>6

----------------------------------------------------------------------------
LEMMA StepTyped == TypeOK /\ [Next]_vars => TypeOK'
<1> SUFFICES ASSUME TypeOK, [Next]_vars PROVE TypeOK'
  OBVIOUS
<1> USE DEF Digests, Signatures, Records
<1>1. ASSUME NEW m \in Materials, NEW c \in Contents, Issue(m, c) PROVE TypeOK'
  <2> DEFINE r == [previous_hash |-> head, content |-> c]
  <2>1. DigestOf(r) \in Digests /\ SignedBy(m, r) \in Signatures
    BY DigestTyped DEF TypeOK
  <2>2. /\ head' = DigestOf(r) /\ signed' = signed \cup {SignedBy(m, r)}
        /\ log' = Append(log, [previous_hash |-> head, content |-> c,
                               signature |-> SignedBy(m, r)])
        /\ UNCHANGED <<registries, walk, mishaps>>
    BY <1>1 DEF Issue
  <2> QED BY <2>1, <2>2 DEF TypeOK, registries, walk
<1>2. CASE LogMishap
  <2>1. log' \in Seq(Records)
    BY <1>2, StoredLog, LogTyped
  <2>2. /\ UNCHANGED <<registries, head, signed, walk>>
        /\ mishaps < MaxMishaps /\ mishaps' = mishaps + 1
    BY <1>2 DEF LogMishap, Mishap
  <2> QED BY <2>1, <2>2, LogAssumption DEF TypeOK, registries, walk
<1>3. CASE TrustChange
  BY <1>3, LogAssumption DEF TrustChange, Mishap, TypeOK, TrustRegistryOf, walk
<1>4. CASE PolicyChange
  BY <1>4, LogAssumption DEF PolicyChange, Mishap, TypeOK, PolicyRegistryOf, walk
<1>5. CASE Begin
  BY <1>5 DEF Begin, TypeOK, registries, ZeroHash
<1>6. CASE VerifyNext
  <2> DEFINE i == Len(accepted) + 1
  <2>1. /\ log[i] \in Records /\ i \in 1 .. Len(target) /\ verdict = "walking"
        /\ UNCHANGED <<registries, log, head, signed, mode, target, mishaps>>
    <3>1. i <= Len(log) /\ i \in 1 .. Len(log) /\ verdict = "walking" /\ i \in 1 .. Len(target)
      BY <1>6 DEF VerifyNext, TypeOK
    <3> QED BY <1>6, <3>1, LogTyped DEF VerifyNext
  <2>2. DigestOf(log[i]) \in Digests
    BY <2>1 DEF DigestOf
  <2>3. CASE /\ walked' = DigestOf(log[i])
             /\ accepted' = Append(accepted, log[i].content)
             /\ used' = Append(used, TrustKeyOf(log[i]))
             /\ verdict' = IF i = Len(target) THEN "whole" ELSE "walking"
    <3>1. accepted' \in Digests /\ Len(accepted') = i /\ accepted' # << >>
      <4>1. accepted \in Seq(Contents) /\ log[i].content \in Contents
        BY <2>1 DEF TypeOK
      <4> QED BY <2>3, <4>1
    <3>2. Len(used') = i
      BY <2>3 DEF TypeOK
    <3> QED BY <2>1, <2>2, <2>3, <3>1, <3>2 DEF TypeOK, registries
  <2>4. CASE verdict' = "rejected" /\ UNCHANGED <<walked, accepted, used>>
    BY <2>1, <2>4 DEF TypeOK, registries
  <2> QED BY <1>6, <2>3, <2>4 DEF VerifyNext
<1>7. CASE CutShort
  BY <1>7 DEF CutShort, TypeOK, registries
<1>8. CASE UNCHANGED vars
  BY <1>8 DEF vars, TypeOK
<1> QED BY <1>1, <1>2, <1>3, <1>4, <1>5, <1>6, <1>7, <1>8 DEF Next

LEMMA InitTyped == Init => TypeOK
BY LogAssumption DEF Init, TypeOK, ZeroHash, TrustRegistryOf, PolicyRegistryOf

\* Log, registries and walk keep their types; a walk never passes its target.
THEOREM TypeCorrect == Spec => []TypeOK
BY InitTyped, StepTyped, PTL DEF Spec

----------------------------------------------------------------------------
(* The chain.  expected_previous_hash is all that ties a record to those before *)
(* it: the digest verified last stands for exactly the contents accepted.       *)

ChainInv == /\ walked = accepted
            /\ verdict = "whole" => accepted = target

\* A record that verifies extends the accepted contents by its own.
LEMMA VerifiedExtends ==
    ASSUME TypeOK, ChainInv, verdict = "walking", Len(accepted) + 1 <= Len(log),
           Verifies(log[Len(accepted) + 1], walked, Expected(Len(accepted) + 1))
    PROVE  /\ DigestOf(log[Len(accepted) + 1]) = Append(accepted, log[Len(accepted) + 1].content)
           /\ Len(accepted) + 1 = Len(target)
                 => DigestOf(log[Len(accepted) + 1]) = target
BY LogAssumption DEF Verifies, ChainOK, Expected, DigestOf, ChainInv, TypeOK

\* Only the caller's own steps change the walk.
LEMMA StepWalk == Next => VerifyNext \/ Begin \/ CutShort \/ UNCHANGED walk
BY DEF Next, Issue, LogMishap, TrustChange, PolicyChange

LEMMA ModeFixed == [Next]_vars => mode' = mode
<1>1. VerifyNext \/ Begin \/ CutShort => mode' = mode
  BY DEF VerifyNext, Begin, CutShort
<1>2. UNCHANGED walk \/ UNCHANGED vars => mode' = mode
  BY DEF walk, vars
<1> QED BY <1>1, <1>2, StepWalk

LEMMA StepChain == TypeOK /\ ChainInv /\ [Next]_vars => ChainInv'
<1> SUFFICES ASSUME TypeOK, ChainInv, [Next]_vars PROVE ChainInv'
  OBVIOUS
<1>1. CASE VerifyNext
  BY <1>1, VerifiedExtends DEF VerifyNext, ChainInv
<1>2. CASE Begin \/ CutShort
  BY <1>2 DEF Begin, CutShort, ChainInv
<1>3. CASE UNCHANGED walk
  BY <1>3 DEF walk, ChainInv
<1>4. CASE UNCHANGED vars
  BY <1>4 DEF vars, ChainInv
<1> QED BY <1>1, <1>2, <1>3, <1>4, StepWalk

LEMMA InitChain == Init => ChainInv
BY DEF Init, ChainInv, ZeroHash

\* A walk that ends well has seen the issued records, all of them and in order,
\* whatever happened to the stored log.
THEOREM WholeLog == Spec => []WholeLogIsIssuedLog
<1>1. ChainInv => WholeLogIsIssuedLog
  BY DEF ChainInv, WholeLogIsIssuedLog
<1> QED BY <1>1, InitTyped, StepTyped, InitChain, StepChain, PTL DEF Spec

----------------------------------------------------------------------------
(* Signatures.  A stored signature was made by the holder of its key pair, for   *)
(* the digest it names; the verifier asks for the digest of the record at hand.  *)

StoredSigned ==
    \A i \in 1 .. Len(log) : log[i].signature # None => log[i].signature \in signed

LEMMA StepStored == TypeOK /\ StoredSigned /\ [Next]_vars => StoredSigned' /\ signed \subseteq signed'
<1> SUFFICES ASSUME TypeOK, StoredSigned, [Next]_vars
             PROVE  StoredSigned' /\ signed \subseteq signed'
  OBVIOUS
<1>1. ASSUME NEW m \in Materials, NEW c \in Contents, Issue(m, c)
      PROVE  StoredSigned' /\ signed \subseteq signed'
  <2> DEFINE s == SignedBy(m, [previous_hash |-> head, content |-> c])
  <2>1. /\ signed' = signed \cup {s}
        /\ log' = Append(log, [previous_hash |-> head, content |-> c, signature |-> s])
    BY <1>1 DEF Issue
  <2> QED BY <2>1 DEF StoredSigned, TypeOK
<1>2. CASE LogMishap
  <2>1. log \in Seq(Records)
    BY DEF TypeOK, Records, Signatures, Digests
  <2> QED BY <1>2, <2>1, StoredLog DEF StoredSigned, LogMishap
<1>3. CASE UNCHANGED <<log, signed>>
  BY <1>3 DEF StoredSigned
<1>4. Next => (\E m \in Materials, c \in Contents : Issue(m, c)) \/ LogMishap
                 \/ UNCHANGED <<log, signed>>
  BY DEF Next, TrustChange, PolicyChange, Begin, VerifyNext, CutShort
<1>5. CASE UNCHANGED vars
  BY <1>3, <1>5 DEF vars
<1> QED BY <1>1, <1>2, <1>3, <1>4, <1>5

LEMMA StepAccepted ==
    TypeOK /\ ChainInv /\ StoredSigned /\ AcceptedWasSigned /\ [Next]_vars
       => AcceptedWasSigned'
<1> SUFFICES ASSUME TypeOK, ChainInv, StoredSigned, AcceptedWasSigned, [Next]_vars,
                    mode.requireTrust, mode' = mode
             PROVE  \A i \in 1 .. Len(accepted') :
                       /\ used'[i] # None
                       /\ [by |-> used'[i].material, over |-> SubSeq(accepted', 1, i)] \in signed'
  BY ModeFixed DEF AcceptedWasSigned
<1>1. signed \subseteq signed'
  BY StepStored
<1>2. CASE UNCHANGED <<accepted, used>>
  BY <1>1, <1>2 DEF AcceptedWasSigned
<1>3. CASE VerifyNext /\ ~UNCHANGED <<accepted, used>>
  <2> DEFINE n == Len(accepted) + 1
             r == log[n]
  <2>1. /\ n <= Len(log) /\ Verifies(r, walked, Expected(n)) /\ verdict = "walking"
        /\ accepted' = Append(accepted, r.content)
        /\ used' = Append(used, TrustKeyOf(r)) /\ signed' = signed
    BY <1>3 DEF VerifyNext
  <2>2. /\ accepted \in Seq(Contents) /\ n \in 1 .. Len(log) /\ r.content \in Contents
        /\ Len(used) = Len(accepted)
    <3>1. /\ accepted \in Seq(Contents) /\ n \in 1 .. Len(log) /\ Len(used) = Len(accepted)
      BY <2>1 DEF TypeOK
    <3> QED BY <3>1, LogTyped DEF Records
  <2>3. TrustKeyOf(r) # None /\ r.signature = SignedBy(TrustKeyOf(r).material, r)
    BY <2>1 DEF Verifies, SignatureOK, SignatureVerifies
  <2>4. [by |-> TrustKeyOf(r).material, over |-> accepted'] \in signed
    <3>1. DigestOf(r) = accepted'
      BY <2>1, VerifiedExtends
    <3>2. r.signature \in signed
      BY <2>1, <2>2 DEF Verifies, SchemaOK, StoredSigned
    <3> QED BY <2>3, <3>1, <3>2 DEF SignedBy
  <2>5. /\ Len(accepted') = n /\ SubSeq(accepted', 1, n) = accepted'
        /\ \A i \in 1 .. Len(accepted) : SubSeq(accepted', 1, i) = SubSeq(accepted, 1, i)
    BY <2>1, <2>2
  <2>6. used'[n] = TrustKeyOf(r) /\ \A i \in 1 .. Len(accepted) : used'[i] = used[i]
    BY <2>1, <2>2 DEF TypeOK
  <2>7. ASSUME NEW i \in 1 .. Len(accepted')
        PROVE  /\ used'[i] # None
               /\ [by |-> used'[i].material, over |-> SubSeq(accepted', 1, i)] \in signed'
    <3>1. CASE i = n
      BY <2>1, <2>3, <2>4, <2>5, <2>6, <3>1
    <3>2. CASE i \in 1 .. Len(accepted)
      BY <2>1, <2>5, <2>6, <3>2 DEF AcceptedWasSigned
    <3> QED BY <2>2, <2>5, <3>1, <3>2
  <2> QED BY <2>7
<1> QED BY <1>2, <1>3 DEF Next, vars, Issue, LogMishap, TrustChange, PolicyChange, Begin,
                         VerifyNext, CutShort, walk

\* Every accepted record was signed, with all that precedes it, by the key pair the
\* registry named when it was verified.
THEOREM AcceptedSigned == Spec => []AcceptedWasSigned
<1>1. Init => StoredSigned /\ AcceptedWasSigned
  BY DEF Init, StoredSigned, AcceptedWasSigned
<1> QED BY <1>1, InitTyped, StepTyped, InitChain, StepChain, StepStored, StepAccepted, PTL
        DEF Spec

----------------------------------------------------------------------------
(* Authorization *)

\* The role that is authorized is that of a verified key, never the caller's claim.
THEOREM VerifiedRole == Spec => AcceptsByVerifiedRole
<1> DEFINE Authorized ==
       mode.requireTrust /\ mode.requirePolicy /\ accepted' # accepted
       => LET c == accepted'[Len(accepted')]
              key == keys[c.key_id]
              policy == policies[c.policy_id] IN
          /\ key # None /\ key.status = "active"
          /\ key.not_before # None => key.not_before <= c.issued_at
          /\ key.not_after # None => c.issued_at <= key.not_after
          /\ policy # None
          /\ \E i \in DOMAIN policy.rules :
                /\ IsRuleFor(policy.rules, i, key.role)
                /\ c.decision \in policy.rules[i].allowed_decisions
<1>1. TypeOK /\ [Next]_vars => [Authorized]_vars
  <2> SUFFICES ASSUME TypeOK, Next, mode.requireTrust, mode.requirePolicy,
                      accepted' # accepted
               PROVE  Authorized
    OBVIOUS
  <2> DEFINE r == log[Len(accepted) + 1]
  <2>1. /\ Len(accepted) + 1 <= Len(log)
        /\ SignatureOK(r) /\ PolicyOK(r) /\ accepted' = Append(accepted, r.content)
    BY DEF Next, Issue, LogMishap, TrustChange, PolicyChange, Begin, VerifyNext, CutShort,
           walk, Verifies
  <2>2. accepted'[Len(accepted')] = r.content
    BY <2>1 DEF TypeOK
  <2>3. /\ TrustKeyOf(r) = keys[r.content.key_id] /\ TrustKeyOf(r) # None
        /\ Resolves(keys, r.content)
    BY <2>1 DEF SignatureOK, TrustKeyOf
  <2>4. Authorizes(policies, keys[r.content.key_id].role, r.content)
    BY <2>1, <2>3 DEF PolicyOK, RoleFor
  <2> QED BY <2>2, <2>3, <2>4 DEF Resolves, Within, Authorizes, Allows
<1> QED BY <1>1, InitTyped, StepTyped, PTL DEF Spec, AcceptsByVerifiedRole
----------------------------------------------------------------------------
(* IntactLogPasses.  As long as nothing happened to it, the log holds the     *)
(* issued records, the walk stands at a prefix of them, and every registered  *)
(* key came from a file that loaded.                                          *)

\* A set of numbers has a least one.
LEMMA LeastNumber ==
    ASSUME NEW T, T \subseteq Nat, T # {}
    PROVE  \E x \in T : \A y \in T : x <= y
<1> DEFINE R == OpToRel(<, Nat)
<1>1. IsWellFoundedOn(R, Nat)
  BY NatLessThanWellFounded
<1>2. \A x, y \in Nat : x < y => <<x, y>> \in R
  BY DEF OpToRel
<1> HIDE DEF R
<1>3. PICK x \in T : \A y \in T : ~ (<<y, x>> \in R)
  BY <1>1, WFMin
<1>4. ASSUME NEW y \in T PROVE x <= y
  <2>1. x \in Nat /\ y \in Nat /\ ~ (y < x)
    BY <1>2, <1>3
  <2> QED BY <2>1
<1> QED BY <1>4

\* The entry registered for an id is the last one of the file with that id.
LEMMA LastRegistered ==
    ASSUME NEW f, IsFile(f), NEW id, NEW field, Registered(f, id, field) # None
    PROVE  \E i \in DOMAIN f : Registered(f, id, field) = f[i]
<1> DEFINE T == {i \in DOMAIN f : f[i][field] = id}
           IsLast(i) == f[i][field] = id /\ \A j \in DOMAIN f : f[j][field] = id => j <= i
<1>1. T # {}
  BY DEF Registered
<1>2. Len(f) \in Nat /\ DOMAIN f = 1 .. Len(f)
  BY DEF IsFile
<1>3. \E i \in DOMAIN f : IsLast(i)
  <2> DEFINE U == {Len(f) - i : i \in T}
  <2>1. U \subseteq Nat /\ U # {}
    BY <1>1, <1>2
  <2>2. PICK u \in U : \A v \in U : u <= v
    <3> HIDE DEF U
    <3> QED BY <2>1, LeastNumber
  <2>3. PICK i \in T : u = Len(f) - i
    OBVIOUS
  <2>4. ASSUME NEW j \in T PROVE j <= i
    <3>1. Len(f) - i <= Len(f) - j
      BY <2>2, <2>3
    <3> QED BY <1>2, <3>1
  <2> QED BY <2>4
<1>4. (CHOOSE i \in DOMAIN f : IsLast(i)) \in DOMAIN f
  <2> HIDE DEF IsLast
  <2> QED BY <1>3
<1>5. Registered(f, id, field) = f[CHOOSE i \in DOMAIN f : IsLast(i)]
  BY <1>1 DEF Registered
<1> HIDE DEF IsLast
<1> QED BY <1>4, <1>5

LoadedKeys == \A k \in KeyIds : keys[k] # None => keys[k].role \in TrustRoles

LEMMA LoadedRoles ==
    ASSUME NEW f \in TrustFiles, TrustFileLoads(f), NEW k \in KeyIds, TrustRegistryOf(f)[k] # None
    PROVE  TrustRegistryOf(f)[k].role \in TrustRoles
<1>1. TrustRegistryOf(f)[k] = Registered(f, k, "key_id") /\ IsFile(f)
  BY LogAssumption DEF TrustRegistryOf
<1>2. PICK i \in DOMAIN f : TrustRegistryOf(f)[k] = f[i]
  BY <1>1, LastRegistered
<1> QED BY <1>2 DEF TrustFileLoads

\* The record at place i of the log is the i-th one issued, signed as such.
IssuedAt(i) ==
    /\ log[i].previous_hash = SubSeq(head, 1, i - 1)
    /\ DigestOf(log[i]) = SubSeq(head, 1, i)
    /\ log[i].signature # None /\ log[i].signature.over = SubSeq(head, 1, i)

IntactInv ==
    mishaps = 0 =>
       /\ Len(log) = Len(head) /\ \A i \in 1 .. Len(log) : IssuedAt(i)
       /\ LoadedKeys
       /\ Len(target) <= Len(head) /\ target = SubSeq(head, 1, Len(target))
       /\ accepted = SubSeq(head, 1, Len(accepted))
       /\ verdict # "short"
       /\ verdict = "rejected" /\ mode.trust /\ mode.policy =>
             /\ Len(accepted) < Len(log)
             /\ ~Permitted(log[Len(accepted) + 1])

\* Longer digests have the same beginnings.
LEMMA Beginnings ==
    ASSUME NEW s \in Digests, NEW c \in Contents
    PROVE  /\ Append(s, c) \in Digests /\ Len(Append(s, c)) = Len(s) + 1
           /\ \A i \in 0 .. Len(s) : SubSeq(Append(s, c), 1, i) = SubSeq(s, 1, i)
           /\ SubSeq(s, 1, Len(s)) = s /\ SubSeq(Append(s, c), 1, Len(s) + 1) = Append(s, c)
           /\ SubSeq(s, 1, 0) = << >>
BY DEF Digests

\* What should be in the log verifies, at its place.
LEMMA PermittedVerifies ==
    ASSUME TypeOK, ChainInv, IntactInv, mishaps = 0, mode.trust, mode.policy,
           verdict = "walking", Permitted(log[Len(accepted) + 1])
    PROVE  Len(accepted) + 1 <= Len(log) /\
           Verifies(log[Len(accepted) + 1], walked, Expected(Len(accepted) + 1))
<1> DEFINE i == Len(accepted) + 1
           r == log[i]
<1>1. i \in 1 .. Len(log) /\ Len(accepted) \in Nat /\ i - 1 = Len(accepted)
      /\ r \in Records /\ r.content.key_id \in KeyIds
  <2>1. i \in 1 .. Len(log) /\ Len(accepted) \in Nat /\ i - 1 = Len(accepted)
    BY DEF TypeOK, IntactInv
  <2> QED BY <2>1, LogTyped, LogAssumption DEF Records
<1>2. IssuedAt(i) /\ walked = SubSeq(head, 1, i - 1)
  BY <1>1 DEF IntactInv, ChainInv
<1> HIDE DEF i, r
<1>3. SchemaOK(r)
  BY <1>2 DEF SchemaOK, Permitted, IssuedAt, r, i
<1>4. ChainOK(r, walked, Expected(i))
  BY <1>2 DEF ChainOK, Expected, IssuedAt, IntactInv, r
<1>5. /\ TrustKeyOf(r) = keys[r.content.key_id] /\ TrustKeyOf(r) # None
      /\ TrustKeyOf(r).alg = "EdDSA"
  BY DEF TrustKeyOf, Resolves, Within, Permitted, r, i
<1>6. r.signature = SignedBy(TrustKeyOf(r).material, r)
  <2>1. r.signature \in Signatures /\ r.signature.over = DigestOf(r)
    BY <1>1, <1>2 DEF Records, IssuedAt, r
  <2>2. r.signature.by = TrustKeyOf(r).material
    BY <1>5 DEF Permitted, r, i
  <2> QED BY <2>1, <2>2 DEF Signatures, SignedBy
<1>7. TrustKeyOf(r).role # None
  BY <1>1, <1>5, LogAssumption DEF IntactInv, LoadedKeys
<1>8. PolicyOK(r)
  BY <1>5, <1>7 DEF PolicyOK, RoleFor, Authorizes, Allows, Permitted, r, i
<1>9. Verifies(r, walked, Expected(i)) /\ i <= Len(log)
  BY <1>1, <1>3, <1>4, <1>5, <1>6, <1>8 DEF Verifies, SignatureOK, SignatureVerifies
<1> QED BY <1>9 DEF r, i

LEMMA StepIntact == TypeOK /\ ChainInv /\ IntactInv /\ [Next]_vars => IntactInv'
<1> SUFFICES ASSUME TypeOK, ChainInv, IntactInv, [Next]_vars, mishaps' = 0 PROVE IntactInv'
  BY DEF IntactInv
<1>0. mishaps \in Nat /\ head \in Digests /\ target \in Digests /\ accepted \in Digests
      /\ log \in Seq(Records)
  BY LogTyped, LogAssumption DEF TypeOK, Digests
<1>1. ASSUME NEW m \in Materials, NEW c \in Contents, Issue(m, c) PROVE IntactInv'
  <2> DEFINE r == [previous_hash |-> head, content |-> c, signature |->
                      SignedBy(m, [previous_hash |-> head, content |-> c])]
             n == Len(log)
  <2>1. /\ head' = Append(head, c) /\ log' = Append(log, r) /\ mishaps = 0
        /\ UNCHANGED <<registries, walk>>
        /\ DigestOf(r) = Append(head, c) /\ r.signature.over = Append(head, c)
    BY <1>1 DEF Issue, DigestOf, SignedBy
  <2>2. r \in Records
    <3>1. r.signature \in Signatures
      BY <1>0, DigestTyped
    <3> QED BY <1>0, <3>1 DEF Records
  <2>3. n = Len(head) /\ n \in Nat
    BY <1>0, <2>1 DEF IntactInv
  <2>4. r.signature # None
    <3>1. r.signature \in Signatures
      BY <1>0, DigestTyped
    <3>2. None \notin Signatures
      BY LogAssumption DEF Signatures, Digests
    <3> QED BY <3>1, <3>2
  <2> HIDE DEF r
  <2>5. /\ Len(log') = n + 1 /\ log'[n + 1] = r
        /\ \A i \in 1 .. n : log'[i] = log[i]
    BY <1>0, <2>1, <2>2
  <2>6. /\ Len(head') = n + 1 /\ SubSeq(head', 1, n + 1) = head' /\ SubSeq(head', 1, n) = head
        /\ \A i \in 0 .. n : SubSeq(head', 1, i) = SubSeq(head, 1, i)
    <3>1. /\ Len(Append(head, c)) = Len(head) + 1
          /\ \A i \in 0 .. Len(head) : SubSeq(Append(head, c), 1, i) = SubSeq(head, 1, i)
          /\ SubSeq(head, 1, Len(head)) = head
          /\ SubSeq(Append(head, c), 1, Len(head) + 1) = Append(head, c)
      BY <1>0, Beginnings
    <3>2. n \in 0 .. n
      BY <2>3
    <3> HIDE DEF n
    <3> QED BY <2>1, <2>3, <3>1, <3>2
  <2>7. ASSUME NEW i \in 1 .. Len(log') PROVE IssuedAt(i)'
    <3>1. CASE i = n + 1
      <4>1. i - 1 = n
        BY <2>3, <3>1
      <4>2. log'[i] = r /\ SubSeq(head', 1, i) = head' /\ SubSeq(head', 1, i - 1) = head
        BY <2>5, <2>6, <3>1, <4>1
      <4>3. r.previous_hash = head
        BY DEF r
      <4>4. DigestOf(r) = head' /\ r.signature.over = head'
        BY <2>1
      <4> QED BY <2>4, <4>2, <4>3, <4>4 DEF IssuedAt, DigestOf
    <3>2. CASE i # n + 1
      <4>1. i \in 1 .. n /\ i \in 0 .. n /\ i - 1 \in 0 .. n
        BY <2>3, <2>5, <3>2
      <4>2. IssuedAt(i)
        BY <2>1, <4>1 DEF IntactInv
      <4> QED BY <2>5, <2>6, <4>1, <4>2 DEF IssuedAt, DigestOf
    <3> QED BY <3>1, <3>2
  <2>8. /\ Len(target') <= Len(head') /\ target' = SubSeq(head', 1, Len(target'))
        /\ accepted' = SubSeq(head', 1, Len(accepted'))
    <3>1. /\ Len(target) \in 0 .. n /\ Len(accepted) \in 0 .. n
          /\ target' = target /\ accepted' = accepted
      BY <1>0, <2>1, <2>3 DEF IntactInv, TypeOK, walk, Digests
    <3> QED BY <2>1, <2>3, <2>6, <3>1 DEF IntactInv
  <2>9. ASSUME verdict' = "rejected", mode'.trust, mode'.policy
        PROVE  Len(accepted') < Len(log') /\ ~Permitted(log[Len(accepted) + 1])'
    <3>1. /\ Len(accepted) < n /\ ~Permitted(log[Len(accepted) + 1])
          /\ Len(accepted) + 1 \in 1 .. n
      <4>1. verdict = "rejected" /\ mode.trust /\ mode.policy /\ Len(accepted) \in Nat
        BY <1>0, <2>1, <2>9 DEF walk, Digests
      <4> QED BY <2>1, <2>3, <4>1 DEF IntactInv
    <3>2. log'[Len(accepted) + 1] = log[Len(accepted) + 1] /\ Len(log') = n + 1
          /\ UNCHANGED <<keys, policies, accepted>>
      BY <2>1, <2>5, <3>1 DEF registries, walk
    <3>3. Len(accepted') < Len(log')
      BY <2>3, <3>1, <3>2
    <3>4. ~Permitted(log[Len(accepted) + 1])'
      BY <3>1, <3>2 DEF Permitted
    <3> QED BY <3>3, <3>4
  <2> QED BY <2>1, <2>3, <2>5, <2>6, <2>7, <2>8, <2>9 DEF IntactInv, LoadedKeys, registries, walk
<1>2. CASE LogMishap \/ TrustChange \/ PolicyChange
  BY <1>0, <1>2 DEF LogMishap, TrustChange, PolicyChange, Mishap
<1>3. CASE Begin
  <2>1. UNCHANGED <<registries, log, head, accepted, mode, mishaps>> /\ target' = head
        /\ verdict' = "walking"
    BY <1>3 DEF Begin
  <2> QED BY <1>0, <2>1, Beginnings DEF IntactInv, IssuedAt, LoadedKeys, registries, DigestOf, Digests
<1>4. CASE VerifyNext
  <2> DEFINE n == Len(accepted) + 1
  <2>1. /\ UNCHANGED <<registries, log, head, mode, target, mishaps>> /\ mishaps = 0
        /\ n \in 1 .. Len(log) /\ verdict = "walking"
    BY <1>0, <1>4 DEF VerifyNext, Digests
  <2>2. CASE Verifies(log[n], walked, Expected(n)) /\ accepted' = Append(accepted, log[n].content)
             /\ verdict' \in {"whole", "walking"}
    <3>1. accepted' = DigestOf(log[n])
      BY <2>1, <2>2, VerifiedExtends
    <3>2. accepted' = SubSeq(head, 1, n) /\ Len(accepted') = n
      <4>1. log[n].content \in Contents
        BY <2>1, LogTyped DEF Records
      <4> QED BY <1>0, <2>1, <2>2, <3>1, <4>1 DEF IntactInv, IssuedAt, Digests
    <3> QED BY <2>1, <2>2, <3>2 DEF IntactInv, IssuedAt, LoadedKeys, registries, DigestOf
  <2>3. CASE ~Verifies(log[n], walked, Expected(n)) /\ accepted' = accepted
             /\ verdict' = "rejected"
    <3>1. mode.trust /\ mode.policy => ~Permitted(log[n])
      BY <2>1, <2>3, PermittedVerifies
    <3>2. Len(accepted) < Len(log)
      BY <1>0, <2>1 DEF Digests
    <3> QED BY <2>1, <2>3, <3>1, <3>2 DEF IntactInv, IssuedAt, LoadedKeys, registries, DigestOf,
                                          Permitted
  <2> QED BY <1>4, <2>2, <2>3 DEF VerifyNext
<1>5. CASE CutShort
  BY <1>0, <1>5 DEF CutShort, IntactInv, TypeOK
<1>6. CASE UNCHANGED vars
  BY <1>6 DEF vars, IntactInv, IssuedAt, LoadedKeys, DigestOf, Permitted
<1> QED BY <1>1, <1>2, <1>3, <1>4, <1>5, <1>6 DEF Next

\* While nothing happened to log and registries, a caller that verifies with both stops
\* only at a record that should not be there.
THEOREM IntactPasses == Spec => []IntactLogPasses
<1>1. Init => IntactInv
  <2> SUFFICES ASSUME Init PROVE IntactInv
    OBVIOUS
  <2>1. LoadedKeys
    BY LoadedRoles DEF Init, LoadedKeys
  <2>2. /\ log = << >> /\ head = << >> /\ target = << >> /\ accepted = << >> /\ verdict = "idle"
    BY DEF Init, ZeroHash
  <2> QED BY <2>1, <2>2 DEF IntactInv
<1>2. IntactInv => IntactLogPasses
  BY DEF IntactInv, IntactLogPasses
<1> QED BY <1>1, <1>2, InitTyped, StepTyped, InitChain, StepChain, StepIntact, PTL DEF Spec
=============================================================================
