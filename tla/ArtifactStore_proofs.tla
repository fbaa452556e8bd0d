------------------------ MODULE ArtifactStore_proofs ------------------------
(***************************************************************************)
(* Theorems about ArtifactStore, for any number of calls and names.        *)
(***************************************************************************)
EXTENDS ArtifactStore, TLAPS

\* The paths of a call are distinct, and the manifest is the last of them.
LEMMA PathsProperties ==
    ASSUME NEW c \in Calls
    PROVE  /\ Len(Paths(c)) \in 1 .. 3
           /\ \A i \in 1 .. Len(Paths(c)) : Paths(c)[i] \in Wants[c] \cup {"manifest"}
           /\ \A k \in Wants[c] \cup {"manifest"} :
                 \E i \in 1 .. Len(Paths(c)) : Paths(c)[i] = k
           /\ \A i, j \in 1 .. Len(Paths(c)) : Paths(c)[i] = Paths(c)[j] => i = j
           /\ Paths(c)[Len(Paths(c))] = "manifest"
<1>1. Wants[c] \subseteq {"wav", "txt"}
  BY CallsAssumption
<1>2. CASE "wav" \in Wants[c] /\ "txt" \in Wants[c]
  <2>1. Paths(c) = <<"wav", "txt", "manifest">>
    BY <1>1, <1>2 DEF Paths
  <2> QED BY <1>1, <1>2, <2>1
<1>3. CASE "wav" \in Wants[c] /\ "txt" \notin Wants[c]
  <2>1. Paths(c) = <<"wav", "manifest">>
    BY <1>1, <1>3 DEF Paths
  <2> QED BY <1>1, <1>3, <2>1
<1>4. CASE "wav" \notin Wants[c] /\ "txt" \in Wants[c]
  <2>1. Paths(c) = <<"txt", "manifest">>
    BY <1>1, <1>4 DEF Paths
  <2> QED BY <1>1, <1>4, <2>1
<1>5. CASE "wav" \notin Wants[c] /\ "txt" \notin Wants[c]
  <2>1. Paths(c) = <<"manifest">>
    BY <1>1, <1>5 DEF Paths
  <2> QED BY <1>1, <1>5, <2>1
<1> QED BY <1>2, <1>3, <1>4, <1>5

LEMMA FileTyped ==
    ASSUME NEW c \in Calls, NEW i \in 1 .. Len(Paths(c))
    PROVE  File(c, i) \in Files /\ Paths(c)[i] \in Kinds
BY PathsProperties, CallsAssumption DEF File, Files, Kinds

\* Files are typed and stay so.
LEMMA StepTyped == TypeOK /\ [Next]_vars => TypeOK'
<1> SUFFICES ASSUME TypeOK, [Next]_vars PROVE TypeOK'
  OBVIOUS
<1>1. ASSUME NEW c \in Calls, Step(c) PROVE TypeOK'
  <2> USE DEF Goto, Raise, CreateFails, Running, Ended
  <2>0. /\ Len(Paths(c)) \in 1 .. 3
        /\ at[c] \in 0 .. 3 /\ pc[c] \in {"start"} \cup Running \cup Ended
        /\ at[c] < Len(Paths(c)) => File(c, at[c] + 1) \in Files /\ Paths(c)[at[c] + 1] \in Kinds
    BY PathsProperties, FileTyped DEF TypeOK
  <2>1. CASE Refuse(c)
    <3>1. /\ dir' \in [Files -> Calls \cup {Earlier, Nobody}] /\ temps' \subseteq Calls \X Kinds
          /\ spoiled' \subseteq Calls
      BY <2>0, <2>1 DEF Refuse, TypeOK, Counted
    <3>2. /\ pc' \in [Calls -> {"start"} \cup Running \cup Ended]
          /\ at' \in [Calls -> 0 .. 3]
          /\ failing' \in [Calls -> {"none", "exists", "error"}]
      BY <2>0, <2>1 DEF Refuse, TypeOK
    <3>3. Counted'
      BY <2>0, <2>1 DEF Refuse, TypeOK, Counted
    <3> QED BY <3>1, <3>2, <3>3 DEF TypeOK
  <2>2. CASE Start(c)
    <3>1. /\ dir' \in [Files -> Calls \cup {Earlier, Nobody}] /\ temps' \subseteq Calls \X Kinds
          /\ spoiled' \subseteq Calls
      BY <2>0, <2>2 DEF Start, TypeOK, Counted
    <3>2. /\ pc' \in [Calls -> {"start"} \cup Running \cup Ended]
          /\ at' \in [Calls -> 0 .. 3]
          /\ failing' \in [Calls -> {"none", "exists", "error"}]
      BY <2>0, <2>2 DEF Start, TypeOK
    <3>3. Counted'
      BY <2>0, <2>2 DEF Start, TypeOK, Counted
    <3> QED BY <3>1, <3>2, <3>3 DEF TypeOK
  <2>3. CASE Preflight(c)
    <3>1. /\ dir' \in [Files -> Calls \cup {Earlier, Nobody}] /\ temps' \subseteq Calls \X Kinds
          /\ spoiled' \subseteq Calls
      BY <2>0, <2>3 DEF Preflight, TypeOK, Counted
    <3>2. /\ pc' \in [Calls -> {"start"} \cup Running \cup Ended]
          /\ at' \in [Calls -> 0 .. 3]
          /\ failing' \in [Calls -> {"none", "exists", "error"}]
      BY <2>0, <2>3 DEF Preflight, TypeOK
    <3>3. Counted'
      BY <2>0, <2>3 DEF Preflight, TypeOK, Counted
    <3> QED BY <3>1, <3>2, <3>3 DEF TypeOK
  <2>4. CASE Build(c)
    <3>1. /\ dir' \in [Files -> Calls \cup {Earlier, Nobody}] /\ temps' \subseteq Calls \X Kinds
          /\ spoiled' \subseteq Calls
      BY <2>0, <2>4 DEF Build, TypeOK, Counted
    <3>2. /\ pc' \in [Calls -> {"start"} \cup Running \cup Ended]
          /\ at' \in [Calls -> 0 .. 3]
          /\ failing' \in [Calls -> {"none", "exists", "error"}]
      <4>1. CASE Goto(c, "create") /\ UNCHANGED failing
        BY <2>0, <2>4, <4>1 DEF Build, TypeOK
      <4>2. CASE Raise(c, "error", "raised")
        BY <2>0, <2>4, <4>2 DEF Build, TypeOK
      <4> QED BY <2>4, <4>1, <4>2 DEF Build
    <3>3. Counted'
      BY <2>0, <2>4 DEF Build, TypeOK, Counted
    <3> QED BY <3>1, <3>2, <3>3 DEF TypeOK
  <2>5. CASE Create(c)
    <3>1. /\ dir' \in [Files -> Calls \cup {Earlier, Nobody}] /\ temps' \subseteq Calls \X Kinds
          /\ spoiled' \subseteq Calls
      BY <2>0, <2>5 DEF Create, TypeOK, Counted
    <3>2. /\ pc' \in [Calls -> {"start"} \cup Running \cup Ended]
          /\ at' \in [Calls -> 0 .. 3]
          /\ failing' \in [Calls -> {"none", "exists", "error"}]
      BY <2>0, <2>5 DEF Create, TypeOK
    <3>3. Counted'
      BY <2>0, <2>5 DEF Create, TypeOK, Counted
    <3> QED BY <3>1, <3>2, <3>3 DEF TypeOK
  <2>6. CASE Write(c)
    <3>1. /\ dir' \in [Files -> Calls \cup {Earlier, Nobody}] /\ temps' \subseteq Calls \X Kinds
          /\ spoiled' \subseteq Calls
      BY <2>0, <2>6 DEF Write, TypeOK, Counted
    <3>2. /\ pc' \in [Calls -> {"start"} \cup Running \cup Ended]
          /\ at' \in [Calls -> 0 .. 3]
          /\ failing' \in [Calls -> {"none", "exists", "error"}]
      BY <2>0, <2>6 DEF Write, TypeOK
    <3>3. Counted'
      BY <2>0, <2>6 DEF Write, TypeOK, Counted
    <3> QED BY <3>1, <3>2, <3>3 DEF TypeOK
  <2>7. CASE Link(c)
    <3>1. /\ dir' \in [Files -> Calls \cup {Earlier, Nobody}] /\ temps' \subseteq Calls \X Kinds
          /\ spoiled' \subseteq Calls
      BY <2>0, <2>7 DEF Link, TypeOK, Counted
    <3>2. /\ pc' \in [Calls -> {"start"} \cup Running \cup Ended]
          /\ at' \in [Calls -> 0 .. 3]
          /\ failing' \in [Calls -> {"none", "exists", "error"}]
      BY <2>0, <2>7 DEF Link, TypeOK
    <3>3. Counted'
      BY <2>0, <2>7 DEF Link, TypeOK, Counted
    <3> QED BY <3>1, <3>2, <3>3 DEF TypeOK
  <2>8. CASE Cleanup(c)
    <3>1. /\ dir' \in [Files -> Calls \cup {Earlier, Nobody}] /\ temps' \subseteq Calls \X Kinds
          /\ spoiled' \subseteq Calls
      BY <2>0, <2>8 DEF Cleanup, TypeOK, Counted
    <3>2. /\ pc' \in [Calls -> {"start"} \cup Running \cup Ended]
          /\ at' \in [Calls -> 0 .. 3]
          /\ failing' \in [Calls -> {"none", "exists", "error"}]
      BY <2>0, <2>8 DEF Cleanup, TypeOK, Counted
    <3>3. Counted'
      BY <2>0, <2>8 DEF Cleanup, TypeOK, Counted
    <3> QED BY <3>1, <3>2, <3>3 DEF TypeOK
  <2>9. CASE CleanupFails(c)
    <3>1. /\ dir' \in [Files -> Calls \cup {Earlier, Nobody}] /\ temps' \subseteq Calls \X Kinds
          /\ spoiled' \subseteq Calls
      BY <2>0, <2>9 DEF CleanupFails, TypeOK, Counted
    <3>2. /\ pc' \in [Calls -> {"start"} \cup Running \cup Ended]
          /\ at' \in [Calls -> 0 .. 3]
          /\ failing' \in [Calls -> {"none", "exists", "error"}]
      BY <2>0, <2>9 DEF CleanupFails, TypeOK
    <3>3. Counted'
      BY <2>0, <2>9 DEF CleanupFails, TypeOK, Counted
    <3> QED BY <3>1, <3>2, <3>3 DEF TypeOK
  <2>10. CASE Return(c)
    <3>1. /\ dir' \in [Files -> Calls \cup {Earlier, Nobody}] /\ temps' \subseteq Calls \X Kinds
          /\ spoiled' \subseteq Calls
      BY <2>0, <2>10 DEF Return, TypeOK, Counted
    <3>2. /\ pc' \in [Calls -> {"start"} \cup Running \cup Ended]
          /\ at' \in [Calls -> 0 .. 3]
          /\ failing' \in [Calls -> {"none", "exists", "error"}]
      BY <2>0, <2>10 DEF Return, TypeOK
    <3>3. Counted'
      BY <2>0, <2>10 DEF Return, TypeOK, Counted
    <3> QED BY <3>1, <3>2, <3>3 DEF TypeOK
  <2>11. CASE Rollback(c)
    <3>1. /\ dir' \in [Files -> Calls \cup {Earlier, Nobody}] /\ temps' \subseteq Calls \X Kinds
          /\ spoiled' \subseteq Calls
      BY <2>0, <2>11 DEF Rollback, TypeOK, Counted
    <3>2. /\ pc' \in [Calls -> {"start"} \cup Running \cup Ended]
          /\ at' \in [Calls -> 0 .. 3]
          /\ failing' \in [Calls -> {"none", "exists", "error"}]
      BY <2>0, <2>11 DEF Rollback, TypeOK, RollbackOver
    <3>3. Counted'
      BY <2>0, <2>11 DEF Rollback, TypeOK, Counted
    <3> QED BY <3>1, <3>2, <3>3 DEF TypeOK
  <2>12. CASE RolledBack(c)
    <3>1. /\ dir' \in [Files -> Calls \cup {Earlier, Nobody}] /\ temps' \subseteq Calls \X Kinds
          /\ spoiled' \subseteq Calls
      BY <2>0, <2>12 DEF RolledBack, TypeOK, Counted
    <3>2. /\ pc' \in [Calls -> {"start"} \cup Running \cup Ended]
          /\ at' \in [Calls -> 0 .. 3]
          /\ failing' \in [Calls -> {"none", "exists", "error"}]
      BY <2>0, <2>12 DEF RolledBack, TypeOK
    <3>3. Counted'
      BY <2>0, <2>12 DEF RolledBack, TypeOK, Counted
    <3> QED BY <3>1, <3>2, <3>3 DEF TypeOK
  <2>13. CASE Interrupt(c)
    <3>1. /\ dir' \in [Files -> Calls \cup {Earlier, Nobody}] /\ temps' \subseteq Calls \X Kinds
          /\ spoiled' \subseteq Calls
      BY <2>0, <2>13 DEF Interrupt, TypeOK, Counted
    <3>2. /\ pc' \in [Calls -> {"start"} \cup Running \cup Ended]
          /\ at' \in [Calls -> 0 .. 3]
          /\ failing' \in [Calls -> {"none", "exists", "error"}]
      BY <2>0, <2>13 DEF Interrupt, TypeOK
    <3>3. Counted'
      BY <2>0, <2>13 DEF Interrupt, TypeOK, Counted
    <3> QED BY <3>1, <3>2, <3>3 DEF TypeOK
  <2>14. CASE Crash(c)
    <3>1. /\ dir' \in [Files -> Calls \cup {Earlier, Nobody}] /\ temps' \subseteq Calls \X Kinds
          /\ spoiled' \subseteq Calls
      BY <2>0, <2>14 DEF Crash, TypeOK, Counted
    <3>2. /\ pc' \in [Calls -> {"start"} \cup Running \cup Ended]
          /\ at' \in [Calls -> 0 .. 3]
          /\ failing' \in [Calls -> {"none", "exists", "error"}]
      BY <2>0, <2>14 DEF Crash, TypeOK
    <3>3. Counted'
      BY <2>0, <2>14 DEF Crash, TypeOK, Counted
    <3> QED BY <3>1, <3>2, <3>3 DEF TypeOK
  <2> QED BY <1>1, <2>1, <2>2, <2>3, <2>4, <2>5, <2>6, <2>7, <2>8, <2>9, <2>10, <2>11, <2>12, <2>13, <2>14 DEF Step
<1>2. CASE UNCHANGED vars
  BY <1>2 DEF vars, TypeOK, Counted
<1> QED BY <1>1, <1>2 DEF Next

\* The calls, the directory and the temporary files keep their types, and a call
\* never counts more paths than it has.
THEOREM TypeCorrect == Spec => []TypeOK
<1>1. Init => TypeOK
  BY PathsProperties DEF Init, TypeOK, Counted, Running
<1> QED BY <1>1, StepTyped, PTL DEF Spec

----------------------------------------------------------------------------
(* NoClobber.  What makes rollback safe is that every path it will unlink is   *)
(* still the call's own: the paths counted as created, and the path linked but *)
(* not yet counted.                                                            *)

Creating == {"create", "write", "link", "cleanup", "rollback"}

OwnsCreated ==
    \A c \in Calls :
       /\ pc[c] \in Creating => \A i \in 1 .. at[c] : dir[File(c, i)] = c
       /\ pc[c] = "cleanup" /\ failing[c] = "none" => dir[File(c, at[c] + 1)] = c

\* A step of a call leaves every name alone, but for a free name it links and a
\* name of its own it unlinks in rollback.
Respects(c) ==
    \A f \in Files :
       dir'[f] # dir[f] =>
          \/ dir[f] = Nobody /\ dir'[f] = c
          \/ dir[f] = c /\ dir'[f] = Nobody /\ pc[c] = "rollback"

LEMMA StepRespects ==
    ASSUME TypeOK, OwnsCreated, NEW c \in Calls, Step(c)
    PROVE  Respects(c)
<1>1. CASE Link(c)
  <2>1. File(c, at[c] + 1) \in Files
    BY <1>1, PathsProperties, FileTyped DEF Link, TypeOK, Counted
  <2> QED BY <1>1, <2>1 DEF Link, Respects, TypeOK, Exists
<1>2. CASE Rollback(c)
  <2>1. dir[File(c, at[c])] = c /\ File(c, at[c]) \in Files
    BY <1>2, PathsProperties, FileTyped
       DEF Rollback, RollbackOver, TypeOK, Counted, OwnsCreated, Creating, Running
  <2> QED BY <1>2, <2>1 DEF Rollback, RollbackFrom, Respects, TypeOK
<1>3. CASE UNCHANGED dir
  BY <1>3 DEF Respects
<1>4. Step(c) => Link(c) \/ Rollback(c) \/ UNCHANGED dir
  BY DEF Step, Refuse, Start, Preflight, Build, Create, CreateFails, Write, Cleanup, CleanupFails,
         Return, RolledBack, Interrupt, Crash
<1> QED BY <1>1, <1>2, <1>3, <1>4

LEMMA DistinctFiles ==
    ASSUME NEW c \in Calls,
           NEW i \in 1 .. Len(Paths(c)), NEW j \in 1 .. Len(Paths(c)), i # j
    PROVE  File(c, i) # File(c, j)
BY PathsProperties DEF File

LEMMA StepOwns == TypeOK /\ OwnsCreated /\ [Next]_vars => OwnsCreated'
<1> SUFFICES ASSUME TypeOK, OwnsCreated, [Next]_vars PROVE OwnsCreated'
  OBVIOUS
<1>1. ASSUME NEW c \in Calls, Step(c), NEW d \in Calls
      PROVE  /\ pc'[d] \in Creating => \A i \in 1 .. at'[d] : dir'[File(d, i)] = d
             /\ pc'[d] = "cleanup" /\ failing'[d] = "none" => dir'[File(d, at'[d] + 1)] = d
  <2>0. /\ Len(Paths(d)) \in 1 .. 3 /\ at[d] \in 0 .. 3
        /\ pc[d] \in Creating => at[d] <= Len(Paths(d))
        /\ pc[d] \in {"write", "link", "cleanup"} => at[d] < Len(Paths(d))
        /\ \A i \in 1 .. Len(Paths(d)) : File(d, i) \in Files
    BY PathsProperties, FileTyped DEF TypeOK, Counted, Creating, Running
  <2>1. Respects(c)
    BY <1>1, StepRespects
  <2>2. CASE d # c
    <3>1. pc'[d] = pc[d] /\ at'[d] = at[d] /\ failing'[d] = failing[d]
      BY <1>1, <2>2 DEF TypeOK, Goto, Raise, CreateFails, Step, Refuse, Start, Preflight, Build, Create, Write,
         Link, Cleanup, CleanupFails, Return, Rollback, RolledBack, Interrupt, Crash
    <3>2. \A f \in Files : dir[f] = d => dir'[f] = d
      BY <2>1, <2>2, CallsAssumption DEF Respects
    <3> QED BY <2>0, <3>1, <3>2 DEF OwnsCreated, Creating
  <2>3. CASE d = c
    <3> USE <1>1, <2>0, <2>3 DEF Goto, Raise, CreateFails
    <3>1. CASE Link(c)
      <4>1. pc'[c] = "cleanup" /\ at'[c] = at[c]
        BY <3>1 DEF Link, TypeOK
      <4>2. failing'[c] = "none" => dir'[File(c, at[c] + 1)] = c
        BY <3>1 DEF Link, TypeOK
      <4>3. \A i \in 1 .. at[c] : dir'[File(c, i)] = c
        BY <2>1, <3>1, CallsAssumption DEF Link, OwnsCreated, Creating, Respects
      <4> QED BY <4>1, <4>2, <4>3
    <3>2. CASE Rollback(c)
      <4>1. pc'[c] = "rollback" /\ at'[c] = at[c] - 1
        BY <3>2 DEF Rollback, TypeOK
      <4>2. \A i \in 1 .. at[c] - 1 : dir'[File(c, i)] = c
        <5>1. TAKE i \in 1 .. at[c] - 1
        <5>2. File(c, i) # File(c, at[c]) /\ dir[File(c, i)] = c
          BY <3>2, DistinctFiles DEF Rollback, OwnsCreated, Creating
        <5>3. File(c, i) \in Files /\ pc[c] = "rollback"
          BY <3>2, <5>1 DEF Rollback, Creating
        <5>4. \/ dir' = [dir EXCEPT ![File(c, at[c])] = Nobody]
              \/ dir' = dir
          BY <3>2 DEF Rollback, RollbackFrom
        <5> QED BY <5>2, <5>3, <5>4 DEF TypeOK
      <4> QED BY <4>1, <4>2
    <3>3. CASE Cleanup(c)
      BY <3>3 DEF Cleanup, TypeOK, OwnsCreated, Creating
    <3>4. CASE Refuse(c) \/ Start(c) \/ Preflight(c) \/ Build(c)
      BY <3>4 DEF Refuse, Start, Preflight, Build, TypeOK, OwnsCreated, Creating
    <3>5. CASE Create(c) \/ Write(c)
      BY <3>5 DEF Create, Write, TypeOK, OwnsCreated, Creating
    <3>6. CASE CleanupFails(c) \/ Return(c) \/ RolledBack(c) \/ Crash(c)
      BY <3>6 DEF CleanupFails, Return, RolledBack, Crash, TypeOK, OwnsCreated, Creating
    <3>7. CASE Interrupt(c)
      BY <3>7 DEF Interrupt, TypeOK, OwnsCreated, Creating
    <3> QED BY <3>1, <3>2, <3>3, <3>4, <3>5, <3>6, <3>7 DEF Step
  <2> QED BY <2>2, <2>3
<1>2. CASE UNCHANGED vars
  BY <1>2 DEF vars, OwnsCreated
<1>3. CASE Next
  BY <1>1, <1>3 DEF Next, OwnsCreated
<1> QED BY <1>2, <1>3

\* No file is ever overwritten, and only the call that created a file unlinks it,
\* while it rolls back: for any calls, any collisions of names and every fault.
THEOREM NeverClobbers == Spec => NoClobber
<1>1. Init => TypeOK /\ OwnsCreated
  BY PathsProperties DEF Init, TypeOK, Counted, Running, OwnsCreated, Creating
<1>2. TypeOK /\ OwnsCreated /\ [Next]_vars => (TypeOK /\ OwnsCreated)'
  BY StepTyped, StepOwns
<1>3. TypeOK /\ OwnsCreated /\ [Next]_vars =>
        [\A f \in Files :
            Exists(f) /\ dir'[f] # dir[f] =>
               /\ dir'[f] = Nobody
               /\ \E c \in Calls : dir[f] = c /\ pc[c] = "rollback"]_vars
  BY StepRespects DEF Next, Respects, Exists
<1> QED BY <1>1, <1>2, <1>3, PTL DEF Spec, NoClobber

----------------------------------------------------------------------------
(* ManifestVouches.  The manifest is linked last, and once it is there nothing  *)
(* but the death of the process keeps the call from returning.                  *)

Manifest(c) == <<NameOf[c], "manifest">>

ManifestLast ==
    \A c \in Calls :
       dir[Manifest(c)] = c /\ c \notin spoiled =>
          /\ \A i \in 1 .. Len(Paths(c)) : dir[File(c, i)] = c
          /\ pc[c] \in {"cleanup", "create", "returned", "crashed"}
          /\ pc[c] = "cleanup" => failing[c] = "none" /\ at[c] = Len(Paths(c)) - 1
          /\ pc[c] = "create" => at[c] = Len(Paths(c))

LEMMA ManifestFile ==
    ASSUME NEW c \in Calls
    PROVE  /\ Manifest(c) \in Files
           /\ Manifest(c) = File(c, Len(Paths(c)))
           /\ \A i \in 1 .. Len(Paths(c)) : File(c, i) = Manifest(c) => i = Len(Paths(c))
<1>1. Manifest(c) = File(c, Len(Paths(c)))
  BY PathsProperties DEF Manifest, File
<1>2. Len(Paths(c)) \in 1 .. Len(Paths(c))
  BY PathsProperties
<1> QED BY <1>1, <1>2, FileTyped, DistinctFiles

LEMMA StepManifestLast ==
    TypeOK /\ OwnsCreated /\ ManifestLast /\ [Next]_vars => ManifestLast'
<1> SUFFICES ASSUME TypeOK, OwnsCreated, ManifestLast, [Next]_vars PROVE ManifestLast'
  OBVIOUS
<1>1. ASSUME NEW c \in Calls, Step(c), NEW d \in Calls,
             dir'[Manifest(d)] = d, d \notin spoiled'
      PROVE  /\ \A i \in 1 .. Len(Paths(d)) : dir'[File(d, i)] = d
             /\ pc'[d] \in {"cleanup", "create", "returned", "crashed"}
             /\ pc'[d] = "cleanup" => failing'[d] = "none" /\ at'[d] = Len(Paths(d)) - 1
             /\ pc'[d] = "create" => at'[d] = Len(Paths(d))
  <2>0. /\ Len(Paths(d)) \in 1 .. 3 /\ at[d] \in 0 .. 3
        /\ pc[d] \in {"write", "link", "cleanup"} => at[d] < Len(Paths(d))
        /\ \A i \in 1 .. Len(Paths(d)) : File(d, i) \in Files
        /\ Manifest(d) \in Files
    BY PathsProperties, FileTyped, ManifestFile DEF TypeOK, Counted
  <2>1. Respects(c)
    BY <1>1, StepRespects
  <2>1a. d \notin spoiled
    BY <1>1 DEF Step, Refuse, Start, Preflight, Build, Create, Write, Link, Cleanup,
       CleanupFails, Return, Rollback, RolledBack, Interrupt, Crash
  <2>2. CASE d # c
    <3>1. pc'[d] = pc[d] /\ at'[d] = at[d] /\ failing'[d] = failing[d]
      BY <1>1, <2>2 DEF TypeOK, Goto, Raise, CreateFails, Step, Refuse, Start, Preflight, Build, Create, Write,
         Link, Cleanup, CleanupFails, Return, Rollback, RolledBack, Interrupt, Crash
    <3>2. dir[Manifest(d)] = d
      BY <1>1, <2>0, <2>1, <2>2, CallsAssumption DEF Respects
    <3>3. \A f \in Files : dir[f] = d => dir'[f] = d
      BY <2>1, <2>2, CallsAssumption DEF Respects
    <3> QED BY <2>0, <2>1a, <3>1, <3>2, <3>3 DEF ManifestLast
  <2>3. CASE d = c /\ dir[Manifest(c)] # c
    <3>1. Link(c)
      <4>1. dir' # dir
        BY <1>1, <2>3
      <4>2. ~Rollback(c)
        <5> SUFFICES ASSUME Rollback(c) PROVE FALSE
          OBVIOUS
        <5>1. dir' = [dir EXCEPT ![File(c, at[c])] = Nobody] \/ dir' = dir
          BY DEF Rollback, RollbackFrom
        <5> QED BY <1>1, <2>0, <2>3, <5>1, CallsAssumption DEF TypeOK
      <4> QED BY <1>1, <4>1, <4>2
          DEF Step, Refuse, Start, Preflight, Build, Create, CreateFails, Write, Cleanup, CleanupFails,
              Return, RolledBack, Interrupt, Crash
    <3>2. /\ dir' = [dir EXCEPT ![File(c, at[c] + 1)] = c]
          /\ pc' = [pc EXCEPT ![c] = "cleanup"] /\ failing' = failing /\ at' = at
      BY <1>1, <2>3, <3>1 DEF Link, Goto
    <3>3. File(c, at[c] + 1) = Manifest(c)
      BY <1>1, <2>0, <2>3, <3>2 DEF TypeOK
    <3>4. at[c] + 1 = Len(Paths(c))
      BY <2>0, <2>3, <3>1, <3>3, ManifestFile DEF Link
    <3>5. failing[c] = "none"
      BY <3>1 DEF Link, TypeOK, Counted
    <3>6. \A i \in 1 .. Len(Paths(c)) : dir'[File(c, i)] = c
      BY <2>0, <2>1, <2>3, <3>1, <3>2, <3>4, CallsAssumption
         DEF Link, OwnsCreated, Creating, TypeOK
    <3> QED BY <2>3, <3>2, <3>4, <3>5, <3>6 DEF TypeOK
  <2>4. CASE d = c /\ dir[Manifest(c)] = c
    <3>1. /\ \A i \in 1 .. Len(Paths(c)) : dir[File(c, i)] = c
          /\ pc[c] \in {"cleanup", "create", "returned", "crashed"}
          /\ pc[c] = "cleanup" => failing[c] = "none" /\ at[c] = Len(Paths(c)) - 1
          /\ pc[c] = "create" => at[c] = Len(Paths(c))
      BY <2>4, <2>1a DEF ManifestLast
    <3>2. Cleanup(c) \/ Return(c) \/ Crash(c)
      BY <1>1, <2>0, <2>4, <3>1
         DEF Step, Refuse, Start, Preflight, Build, Create, CreateFails, Write, Link, CleanupFails,
             Rollback, RolledBack, Interrupt, Raise
    <3>3. dir' = dir
      BY <3>2 DEF Cleanup, Return, Crash
    <3>4. CASE Cleanup(c)
      BY <2>0, <2>4, <3>1, <3>3, <3>4 DEF Cleanup, Goto, TypeOK
    <3>5. CASE Return(c) \/ Crash(c)
      BY <2>0, <2>4, <3>1, <3>3, <3>5 DEF Return, Crash, Goto, TypeOK
    <3> QED BY <3>2, <3>4, <3>5
  <2> QED BY <2>2, <2>3, <2>4
<1>2. CASE UNCHANGED vars
  BY <1>2 DEF vars, ManifestLast
<1>3. CASE Next
  BY <1>1, <1>3 DEF Next, ManifestLast
<1> QED BY <1>2, <1>3

\* A manifest in the directory stands for a whole set, whatever raises before it
\* is linked, whatever the other calls suffer and whenever the process dies.  What
\* is excluded is an unlink that failed, or an interrupt, in the very call that owns
\* the manifest: the run artifact_unlink shows why.
THEOREM ManifestsVouch == Spec => []ManifestVouches
<1>1. Init => TypeOK /\ OwnsCreated /\ ManifestLast
  <2>1. Init => TypeOK /\ OwnsCreated
    BY PathsProperties DEF Init, TypeOK, Counted, Running, OwnsCreated, Creating
  <2>2. Init => ManifestLast
    BY ManifestFile, CallsAssumption DEF Init, ManifestLast
  <2> QED BY <2>1, <2>2
<1>2. TypeOK /\ OwnsCreated /\ ManifestLast /\ [Next]_vars
         => (TypeOK /\ OwnsCreated /\ ManifestLast)'
  BY StepTyped, StepOwns, StepManifestLast
<1>3. TypeOK /\ ManifestLast => ManifestVouches
  <2> SUFFICES ASSUME TypeOK, ManifestLast, NEW c \in Calls \ spoiled, dir[Manifest(c)] = c,
                      NEW k \in Wants[c] \cup {"manifest"}
               PROVE  <<NameOf[c], k>> \in Owned(c)
    BY DEF ManifestVouches, Wanted, Manifest
  <2>1. PICK i \in 1 .. Len(Paths(c)) : Paths(c)[i] = k
    BY PathsProperties
  <2>2. File(c, i) = <<NameOf[c], k>> /\ dir[File(c, i)] = c
    BY <2>1 DEF File, ManifestLast
  <2> QED BY <2>2, FileTyped DEF Owned
<1> QED BY <1>1, <1>2, <1>3, PTL DEF Spec

----------------------------------------------------------------------------
(* AllOrNothing and NoTempLeft.  OwnsCreated says that a call owns what it has  *)
(* counted; what is missing is that it owns nothing else, and that a temporary  *)
(* file is that of the path being written.                                      *)

\* The paths of a call that are linked: those counted, and in the finally block of
\* a link that succeeded the one about to be.
Linked(c) == IF pc[c] \in {"start", "preflight", "raised"} THEN 0
             ELSE IF pc[c] = "cleanup" /\ failing[c] = "none" THEN at[c] + 1 ELSE at[c]

OwnsNothingElse ==
    \A c \in Calls \ spoiled :
       pc[c] # "crashed" =>
          \A f \in Files : dir[f] = c => \E i \in 1 .. Linked(c) : f = File(c, i)

\* A call that has returned has counted all its paths and owns them; a call that an
\* unlink or an interrupt spoiled has an exception in flight.
ReturnsAll ==
    \A c \in Calls :
       /\ pc[c] = "returned" => /\ at[c] = Len(Paths(c))
                                /\ \A i \in 1 .. Len(Paths(c)) : dir[File(c, i)] = c
       /\ c \in spoiled => failing[c] # "none"

TempInUse ==
    \A t \in temps :
       \/ t[1] \in spoiled \/ pc[t[1]] = "crashed"
       \/ pc[t[1]] \in {"write", "link", "cleanup"} /\ t[2] = Paths(t[1])[at[t[1]] + 1]

\* A step of one call leaves the others where they are, and what they own theirs.
LEMMA OthersKeep ==
    ASSUME TypeOK, OwnsCreated, NEW c \in Calls, Step(c), NEW d \in Calls, d # c
    PROVE  /\ pc'[d] = pc[d] /\ at'[d] = at[d] /\ failing'[d] = failing[d]
           /\ d \in spoiled' <=> d \in spoiled
           /\ \A t \in temps' : t[1] = d => t \in temps
           /\ \A f \in Files : dir'[f] = d <=> dir[f] = d
<1> USE DEF TypeOK, Goto, Raise, CreateFails, Step, Refuse, Start, Preflight, Build, Create, Write,
            Link, Cleanup, CleanupFails, Return, Rollback, RolledBack, Interrupt, Crash
<1>1. pc'[d] = pc[d] /\ at'[d] = at[d] /\ failing'[d] = failing[d]
  OBVIOUS
<1>2. d \in spoiled' <=> d \in spoiled
  OBVIOUS
<1>3. \A t \in temps' : t[1] = d => t \in temps
  <2>1. temps' \subseteq temps \cup {<<c, Paths(c)[at[c] + 1]>>}
    OBVIOUS
  <2> QED BY <2>1
<1>4. \A f \in Files : dir'[f] = d <=> dir[f] = d
  BY StepRespects, CallsAssumption DEF Respects
<1> QED BY <1>1, <1>2, <1>3, <1>4

LEMMA StepOwnsNothingElse ==
    TypeOK /\ OwnsCreated /\ OwnsNothingElse /\ ReturnsAll /\ [Next]_vars => OwnsNothingElse'
<1> SUFFICES ASSUME TypeOK, OwnsCreated, OwnsNothingElse, ReturnsAll, [Next]_vars
             PROVE  OwnsNothingElse'
  OBVIOUS
<1>1. ASSUME NEW c \in Calls, Step(c), NEW d \in Calls, d \notin spoiled', pc'[d] # "crashed",
             NEW f \in Files, dir'[f] = d
      PROVE  \E i \in 1 .. Linked(d)' : f = File(d, i)
  <2>0. /\ Len(Paths(d)) \in 1 .. 3 /\ at[d] \in 0 .. 3
        /\ pc[d] \in {"write", "link", "cleanup"} => at[d] < Len(Paths(d))
    BY PathsProperties DEF TypeOK, Counted
  <2>1. CASE d # c
    <3>1. /\ pc'[d] = pc[d] /\ at'[d] = at[d] /\ failing'[d] = failing[d]
          /\ d \notin spoiled /\ dir[f] = d
      BY <1>1, <2>1, OthersKeep
    <3>2. \E i \in 1 .. Linked(d) : f = File(d, i)
      BY <1>1, <3>1 DEF OwnsNothingElse
    <3> QED BY <3>1, <3>2 DEF Linked
  <2>2. CASE d = c
    <3> USE <1>1, <2>0, <2>2 DEF Goto, Raise, CreateFails
    <3>1. CASE Link(c)
      <4>1. c \notin spoiled /\ pc[c] = "link" /\ pc'[c] = "cleanup" /\ at' = at /\ failing[c] = "none"
        BY <3>1 DEF Link, TypeOK, Counted
      <4>2. dir[f] = c => \E i \in 1 .. at[c] : f = File(c, i)
        BY <4>1 DEF OwnsNothingElse, Linked
      <4>3. CASE dir[f] = c
        BY <4>1, <4>2, <4>3 DEF Linked
      <4>4. CASE dir[f] # c
        <5>1. f = File(c, at[c] + 1) /\ failing'[c] = "none"
          BY <3>1, <4>1, <4>4 DEF Link, TypeOK
        <5> QED BY <4>1, <5>1 DEF Linked
      <4> QED BY <4>3, <4>4
    <3>2. CASE Rollback(c)
      <4>1. /\ c \notin spoiled /\ pc[c] = "rollback" /\ pc'[c] = "rollback"
            /\ dir' = [dir EXCEPT ![File(c, at[c])] = Nobody]
            /\ at'[c] = at[c] - 1 /\ at[c] > 0
        BY <3>2 DEF Rollback, RollbackFrom, RollbackOver, TypeOK
      <4>2. f # File(c, at[c]) /\ dir[f] = c
        BY <4>1, CallsAssumption DEF TypeOK
      <4>3. \E i \in 1 .. at[c] : f = File(c, i)
        BY <4>1, <4>2 DEF OwnsNothingElse, Linked
      <4> QED BY <4>1, <4>2, <4>3 DEF Linked
    <3>3. CASE Cleanup(c)
      <4>1. /\ c \notin spoiled /\ dir[f] = c /\ pc[c] = "cleanup"
            /\ \/ failing[c] # "none" /\ pc'[c] = "rollback" /\ at' = at
               \/ failing[c] = "none" /\ pc'[c] = "create" /\ at'[c] = at[c] + 1
        BY <3>3 DEF Cleanup, TypeOK
      <4>2. \E i \in 1 .. Linked(c) : f = File(c, i)
        BY <4>1 DEF OwnsNothingElse
      <4> QED BY <4>1, <4>2 DEF Linked
    <3>4. CASE Refuse(c) \/ Start(c) \/ Preflight(c)
      <4>1. c \notin spoiled /\ dir[f] = c /\ pc[c] \in {"start", "preflight"}
        BY <3>4 DEF Refuse, Start, Preflight
      <4> QED BY <4>1 DEF OwnsNothingElse, Linked
    <3>5. CASE Build(c)
      <4>1. c \notin spoiled /\ dir[f] = c /\ pc[c] = "preflight"
        BY <3>5 DEF Build
      <4> QED BY <4>1 DEF OwnsNothingElse, Linked
    <3>6. CASE Create(c) \/ Write(c)
      <4>1. /\ c \notin spoiled /\ dir[f] = c /\ at' = at
            /\ pc[c] \in {"create", "write"} /\ pc'[c] \in {"write", "link", "rollback", "cleanup"}
            /\ pc'[c] = "cleanup" => failing'[c] = "error"
        BY <3>6 DEF Create, Write, TypeOK
      <4>2. \E i \in 1 .. at[c] : f = File(c, i)
        BY <4>1 DEF OwnsNothingElse, Linked
      <4> QED BY <4>1, <4>2 DEF Linked
    <3>7. CASE Return(c)
      <4>1. /\ c \notin spoiled /\ dir[f] = c /\ at' = at
            /\ pc[c] = "create" /\ pc'[c] = "returned"
        BY <3>7 DEF Return, TypeOK
      <4> QED BY <4>1 DEF OwnsNothingElse, Linked
    <3>8. CASE RolledBack(c)
      <4>1. /\ c \notin spoiled /\ dir[f] = c /\ at[c] = 0 /\ pc[c] = "rollback"
        BY <3>8 DEF RolledBack, RollbackOver
      <4> QED BY <4>1 DEF OwnsNothingElse, Linked
    <3>9. CASE CleanupFails(c) \/ Interrupt(c)
      BY <3>9 DEF CleanupFails, Interrupt
    <3>10. CASE Crash(c)
      BY <3>10 DEF Crash, TypeOK
    <3> QED BY <3>1, <3>2, <3>3, <3>4, <3>5, <3>6, <3>7, <3>8, <3>9, <3>10 DEF Step
  <2> QED BY <2>1, <2>2
<1>2. CASE UNCHANGED vars
  BY <1>2 DEF vars, OwnsNothingElse, Linked
<1>3. CASE Next
  BY <1>1, <1>3 DEF Next, OwnsNothingElse
<1> QED BY <1>2, <1>3

LEMMA StepReturnsAll == TypeOK /\ OwnsCreated /\ ReturnsAll /\ [Next]_vars => ReturnsAll'
<1> SUFFICES ASSUME TypeOK, OwnsCreated, ReturnsAll, [Next]_vars PROVE ReturnsAll'
  OBVIOUS
<1>1. ASSUME NEW c \in Calls, Step(c), NEW d \in Calls
      PROVE  /\ pc'[d] = "returned" => /\ at'[d] = Len(Paths(d))
                                       /\ \A i \in 1 .. Len(Paths(d)) : dir'[File(d, i)] = d
             /\ d \in spoiled' => failing'[d] # "none"
  <2>1. CASE d # c
    <3>1. \A i \in 1 .. Len(Paths(d)) : File(d, i) \in Files
      BY FileTyped
    <3> QED BY <1>1, <2>1, <3>1, OthersKeep DEF ReturnsAll
  <2>2. CASE d = c
    <3>1. pc'[c] = "returned" => Return(c)
      BY <1>1 DEF TypeOK, Goto, Raise, CreateFails, Step, Refuse, Start, Preflight, Build, Create, Write,
         Link, Cleanup, CleanupFails, Rollback, RolledBack, Interrupt, Crash, Running
    <3>2. Return(c) => /\ at'[c] = Len(Paths(c))
                       /\ \A i \in 1 .. Len(Paths(c)) : dir'[File(c, i)] = c
      BY DEF Return, OwnsCreated, Creating
    <3>3. c \in spoiled' => failing'[c] # "none"
      BY <1>1 DEF TypeOK, ReturnsAll, Counted, Goto, Raise, CreateFails, Step, Refuse, Start, Preflight,
         Build, Create, Write, Link, Cleanup, CleanupFails, Return, Rollback, RolledBack, Interrupt, Crash
    <3> QED BY <2>2, <3>1, <3>2, <3>3
  <2> QED BY <2>1, <2>2
<1>2. CASE UNCHANGED vars
  BY <1>2 DEF vars, ReturnsAll
<1>3. CASE Next
  BY <1>1, <1>3 DEF Next, ReturnsAll
<1> QED BY <1>2, <1>3

LEMMA StepTempInUse == TypeOK /\ OwnsCreated /\ TempInUse /\ [Next]_vars => TempInUse'
<1> SUFFICES ASSUME TypeOK, OwnsCreated, TempInUse, [Next]_vars PROVE TempInUse'
  OBVIOUS
<1>1. ASSUME NEW c \in Calls, Step(c), NEW t \in temps'
      PROVE  \/ t[1] \in spoiled' \/ pc'[t[1]] = "crashed"
             \/ pc'[t[1]] \in {"write", "link", "cleanup"}
                /\ t[2] = Paths(t[1])[at'[t[1]] + 1]
  <2>0. TypeOK'
    BY <1>1, StepTyped DEF Next
  <2>1. t \in Calls \X Kinds
    BY <2>0 DEF TypeOK
  <2>2. CASE t[1] # c
    BY <1>1, <2>1, <2>2, OthersKeep DEF TempInUse
  <2>3. CASE t[1] = c
    <3> USE <1>1, <2>1, <2>3 DEF Goto, Raise, CreateFails, TypeOK
    <3>1. CASE Create(c)
      BY <3>1 DEF Create, TempInUse
    <3>2. CASE Cleanup(c)
      BY <3>2 DEF Cleanup, TempInUse
    <3>3. CASE Write(c) \/ Link(c)
      BY <3>3 DEF Write, Link, TempInUse
    <3>4. CASE CleanupFails(c) \/ Interrupt(c) \/ Crash(c)
      BY <3>4 DEF CleanupFails, Interrupt, Crash
    <3>5. CASE Refuse(c) \/ Start(c) \/ Preflight(c) \/ Build(c)
      BY <3>5 DEF Refuse, Start, Preflight, Build, TempInUse
    <3>6. CASE Return(c) \/ Rollback(c) \/ RolledBack(c)
      BY <3>6 DEF Return, Rollback, RolledBack, TempInUse
    <3> QED BY <3>1, <3>2, <3>3, <3>4, <3>5, <3>6 DEF Step
  <2> QED BY <2>2, <2>3
<1>2. CASE UNCHANGED vars
  BY <1>2 DEF vars, TempInUse
<1>3. CASE Next
  BY <1>1, <1>3 DEF Next, TempInUse
<1> QED BY <1>2, <1>3

\* What the theorems below rest on.
StoreInv == /\ TypeOK /\ OwnsCreated
            /\ OwnsNothingElse /\ ReturnsAll /\ TempInUse

LEMMA StoreInvariant == Spec => []StoreInv
<1>1. Init => StoreInv
  <2>1. Init => TypeOK /\ OwnsCreated
    BY PathsProperties DEF Init, TypeOK, Counted, Running, OwnsCreated, Creating
  <2>2. Init => OwnsNothingElse /\ ReturnsAll /\ TempInUse
    BY CallsAssumption DEF Init, OwnsNothingElse, ReturnsAll, TempInUse
  <2> QED BY <2>1, <2>2 DEF StoreInv
<1>2. StoreInv /\ [Next]_vars => StoreInv'
  BY StepTyped, StepOwns, StepOwnsNothingElse, StepReturnsAll, StepTempInUse DEF StoreInv
<1> QED BY <1>1, <1>2, PTL DEF Spec

\* A call that returns owns the files it was asked for and no other, and one that raises
\* owns none, under every fault but an unlink that fails or an interrupt in that very
\* call: for any calls and names, and whatever the other calls suffer.
THEOREM StoresAllOrNothing == Spec => []AllOrNothing
<1>1. StoreInv => AllOrNothing
  <2> SUFFICES ASSUME StoreInv, NEW c \in Calls \ spoiled
               PROVE  /\ pc[c] = "returned" => Owned(c) = Wanted(c)
                      /\ pc[c] = "raised" => Owned(c) = {}
    BY DEF AllOrNothing
  <2>1. ASSUME pc[c] = "returned" PROVE Owned(c) = Wanted(c)
    <3>1. at[c] = Len(Paths(c)) /\ \A i \in 1 .. Len(Paths(c)) : dir[File(c, i)] = c
      BY <2>1 DEF StoreInv, ReturnsAll
    <3>2. Owned(c) \subseteq Wanted(c)
      <4>1. \A f \in Owned(c) : \E i \in 1 .. Len(Paths(c)) : f = File(c, i)
        BY <2>1, <3>1 DEF StoreInv, OwnsNothingElse, Linked, Owned
      <4> QED BY <4>1, PathsProperties DEF Wanted, File
    <3>3. Wanted(c) \subseteq Owned(c)
      <4> SUFFICES ASSUME NEW k \in Wants[c] \cup {"manifest"}
                   PROVE  <<NameOf[c], k>> \in Owned(c)
        BY DEF Wanted
      <4>1. PICK i \in 1 .. Len(Paths(c)) : Paths(c)[i] = k
        BY PathsProperties
      <4> QED BY <3>1, <4>1, FileTyped DEF File, Owned
    <3> QED BY <3>2, <3>3
  <2>2. ASSUME pc[c] = "raised" PROVE Owned(c) = {}
    BY <2>2 DEF StoreInv, OwnsNothingElse, Linked, Owned
  <2> QED BY <2>1, <2>2
<1> QED BY <1>1, StoreInvariant, PTL

\* No temporary file outlives its call, unless the process died or an unlink failed or
\* an interrupt fell in that call.
THEOREM LeavesNoTemp == Spec => []NoTempLeft
<1>1. StoreInv => NoTempLeft
  BY DEF StoreInv, TempInUse, NoTempLeft, Running
<1> QED BY <1>1, StoreInvariant, PTL

----------------------------------------------------------------------------
(* SomeCallWins.  A call that is refused while it creates has found a name that *)
(* comes later than all it owns, because every call creates its files in the    *)
(* same order.  So the owner of the latest file is not refused by those behind. *)

Rank(k) == IF k = "wav" THEN 1 ELSE IF k = "txt" THEN 2 ELSE 3

\* Only a call that wants files owns any, and under its own name.
OwnersWant ==
    \A c \in Calls :
       /\ pc[c] \in Running => Wants[c] # {}
       /\ \A f \in Files : dir[f] = c => f[1] = NameOf[c] /\ Wants[c] # {}

Rivals(n) == {c \in Calls : NameOf[c] = n /\ Wants[c] # {}}
Refused(n) == {c \in Rivals(n) : failing[c] = "exists"}
NoneEarlier(n) == \A k \in Kinds : dir[<<n, k>>] # Earlier

\* A call ahead of all that were refused: it has ended, or failed for another reason,
\* or owns a file that comes after all that they have left.
Ahead(n, d) ==
    \/ failing[d] = "error" \/ pc[d] \in Ended
    \/ \E k \in Kinds :
          /\ dir[<<n, k>>] = d
          /\ \A c \in Refused(n), j \in Kinds : dir[<<n, j>>] = c => Rank(j) < Rank(k)

SomeoneAhead ==
    \A n \in Names :
       NoneEarlier(n) /\ Refused(n) # {} => \E d \in Rivals(n) \ Refused(n) : Ahead(n, d)

LEMMA PathsRanked ==
    ASSUME NEW c \in Calls, NEW i \in 1 .. Len(Paths(c)), NEW j \in 1 .. Len(Paths(c)), i < j
    PROVE  Rank(Paths(c)[i]) < Rank(Paths(c)[j])
<1>1. Wants[c] \subseteq {"wav", "txt"}
  BY CallsAssumption
<1>2. CASE "wav" \in Wants[c] /\ "txt" \in Wants[c]
  <2>1. Paths(c) = <<"wav", "txt", "manifest">>
    BY <1>1, <1>2 DEF Paths
  <2> QED BY <2>1 DEF Rank
<1>3. CASE "wav" \in Wants[c] /\ "txt" \notin Wants[c]
  <2>1. Paths(c) = <<"wav", "manifest">>
    BY <1>1, <1>3 DEF Paths
  <2> QED BY <2>1 DEF Rank
<1>4. CASE "wav" \notin Wants[c] /\ "txt" \in Wants[c]
  <2>1. Paths(c) = <<"txt", "manifest">>
    BY <1>1, <1>4 DEF Paths
  <2> QED BY <2>1 DEF Rank
<1>5. CASE "wav" \notin Wants[c] /\ "txt" \notin Wants[c]
  <2>1. Paths(c) = <<"manifest">>
    BY <1>1, <1>5 DEF Paths
  <2> QED BY <2>1
<1> QED BY <1>2, <1>3, <1>4, <1>5

LEMMA RankTyped == \A k \in Kinds : Rank(k) \in 1 .. 3
BY DEF Kinds, Rank

LEMMA StepOwnersWant ==
    TypeOK /\ OwnsCreated /\ OwnersWant /\ [Next]_vars => OwnersWant'
<1> SUFFICES ASSUME TypeOK, OwnsCreated, OwnersWant, [Next]_vars PROVE OwnersWant'
  OBVIOUS
<1>1. ASSUME NEW c \in Calls, Step(c), NEW d \in Calls
      PROVE  /\ pc'[d] \in Running => Wants[d] # {}
             /\ \A f \in Files : dir'[f] = d => f[1] = NameOf[d] /\ Wants[d] # {}
  <2>1. CASE d # c
    BY <1>1, <2>1, OthersKeep DEF OwnersWant
  <2>2. CASE d = c
    <3>1. pc'[c] \in Running => pc[c] \in Running \/ Wants[c] # {}
      BY <1>1 DEF TypeOK, Goto, Raise, CreateFails, Step, Refuse, Start, Preflight, Build, Create, Write,
         Link, Cleanup, CleanupFails, Return, Rollback, RolledBack, Interrupt, Crash, Running
    <3>2. ASSUME NEW f \in Files, dir'[f] = c, dir[f] # c
          PROVE  f[1] = NameOf[c] /\ Wants[c] # {}
      <4>1. /\ pc[c] = "link" /\ dir' = [dir EXCEPT ![File(c, at[c] + 1)] = c]
        <5>1. ~Rollback(c)
          <6> SUFFICES ASSUME Rollback(c) PROVE FALSE
            OBVIOUS
          <6>1. dir' = [dir EXCEPT ![File(c, at[c])] = Nobody] \/ dir' = dir
            BY DEF Rollback, RollbackFrom
          <6> QED BY <3>2, <6>1, CallsAssumption DEF TypeOK
        <5> QED BY <1>1, <3>2, <5>1
            DEF Step, Refuse, Start, Preflight, Build, Create, CreateFails, Write, Link, Cleanup,
                CleanupFails, Return, RolledBack, Interrupt, Crash
      <4>2. f = File(c, at[c] + 1)
        BY <3>2, <4>1 DEF TypeOK
      <4> QED BY <4>1, <4>2 DEF File, OwnersWant, Running
    <3> QED BY <2>2, <3>1, <3>2 DEF OwnersWant
  <2> QED BY <2>1, <2>2
<1>2. CASE UNCHANGED vars
  BY <1>2 DEF vars, OwnersWant
<1>3. CASE Next
  BY <1>1, <1>3 DEF Next, OwnersWant
<1> QED BY <1>2, <1>3

\* A call in flight without an exception owns just what it has counted, so the path it
\* is refused at, in the preflight or later, comes after all it owns.
LEMMA OwnsBeforeNext ==
    ASSUME StoreInv, OwnersWant, NEW c \in Calls,
           pc[c] \in {"preflight", "create", "link"}, failing[c] = "none",
           at[c] < Len(Paths(c)),
           NEW j \in Kinds, dir[<<NameOf[c], j>>] = c
    PROVE  pc[c] # "preflight" /\ Rank(j) < Rank(Paths(c)[at[c] + 1])
<1>1. c \notin spoiled /\ at[c] \in 0 .. 3 /\ Len(Paths(c)) \in 1 .. 3
  BY PathsProperties DEF StoreInv, ReturnsAll, TypeOK
<1>2. <<NameOf[c], j>> \in Files
  BY CallsAssumption DEF Files
<1>3. PICK i \in 1 .. Linked(c) : <<NameOf[c], j>> = File(c, i)
  BY <1>1, <1>2 DEF StoreInv, OwnsNothingElse
<1>4. pc[c] # "preflight" /\ i \in 1 .. at[c] /\ j = Paths(c)[i]
  BY <1>3 DEF Linked, File
<1> QED BY <1>1, <1>4, PathsRanked

\* Refusals: where the exception comes from, and who owns the name.
LEMMA RefusedAt ==
    ASSUME StoreInv, OwnersWant, NEW c \in Calls, Step(c),
           failing[c] # "exists", failing'[c] = "exists"
    PROVE  /\ pc[c] \in {"preflight", "create", "link"} /\ failing[c] = "none"
           /\ at[c] < Len(Paths(c)) /\ dir' = dir
           /\ dir[File(c, at[c] + 1)] # Nobody
<1>1. Preflight(c) \/ Create(c) \/ Link(c)
  BY DEF StoreInv, TypeOK, Goto, Raise, CreateFails, Step, Refuse, Start, Build, Write,
         Cleanup, CleanupFails, Return, Rollback, RolledBack, Interrupt, Crash
<1> QED BY <1>1, PathsProperties DEF StoreInv, TypeOK, Counted, Goto, Raise, CreateFails, Preflight, Create, Link, Exists

LEMMA StepSomeoneAhead ==
    StoreInv /\ OwnersWant /\ SomeoneAhead /\ [Next]_vars => SomeoneAhead'
<1> SUFFICES ASSUME StoreInv, OwnersWant, SomeoneAhead, [Next]_vars,
                    NEW n \in Names, NoneEarlier(n)', Refused(n)' # {}
             PROVE  \E d \in Rivals(n) \ Refused(n)' : Ahead(n, d)'
  BY DEF SomeoneAhead, Rivals
<1>1. CASE UNCHANGED vars
  BY <1>1 DEF vars, SomeoneAhead, NoneEarlier, Rivals, Refused, Ahead
<1>2. ASSUME NEW c \in Calls, Step(c)
      PROVE  \E d \in Rivals(n) \ Refused(n)' : Ahead(n, d)'
  <2>a. TypeOK /\ OwnsCreated /\ TypeOK'
    BY <1>2, StepTyped DEF StoreInv, Next
  <2>b. Respects(c)
    BY <1>2, <2>a, StepRespects
  <2>c. \A k \in Kinds : <<n, k>> \in Files
    BY DEF Files
  <2>d. NoneEarlier(n)
    BY <2>b, <2>c, CallsAssumption DEF NoneEarlier, Respects
  <2>e. \A d \in Calls : d # c =>
          /\ pc'[d] = pc[d] /\ failing'[d] = failing[d]
          /\ \A f \in Files : dir'[f] = d <=> dir[f] = d
    BY <1>2, <2>a, OthersKeep
  <2>f. \A k \in Kinds : dir[<<n, k>>] # Nobody => dir[<<n, k>>] \in Rivals(n)
    BY <2>a, <2>c, <2>d DEF NoneEarlier, TypeOK, OwnersWant, Rivals
  \* c is refused.
  <2>1. CASE c \in Rivals(n) /\ failing[c] # "exists" /\ failing'[c] = "exists"
    <3>1. /\ pc[c] \in {"preflight", "create", "link"} /\ failing[c] = "none"
          /\ at[c] < Len(Paths(c)) /\ dir' = dir
          /\ dir[File(c, at[c] + 1)] # Nobody
      BY <1>2, <2>1, RefusedAt
    <3>2. at[c] + 1 \in 1 .. Len(Paths(c))
      <4>1. at[c] \in 0 .. 3 /\ Len(Paths(c)) \in 1 .. 3
        BY <2>a, PathsProperties DEF TypeOK
      <4> QED BY <3>1, <4>1
    <3>3. PICK k \in Kinds : k = Paths(c)[at[c] + 1]
      BY <3>2, FileTyped
    <3>4. PICK e \in Rivals(n) : dir[<<n, k>>] = e
      BY <2>1, <2>f, <3>1, <3>3 DEF File, Rivals
    <3>5. \A j \in Kinds : dir[<<n, j>>] = c => pc[c] # "preflight" /\ Rank(j) < Rank(k)
      BY <2>1, <3>1, <3>3, OwnsBeforeNext DEF Rivals
    <3>6. e # c
      BY <3>4, <3>5, RankTyped
    <3>7. Refused(n)' = Refused(n) \cup {c}
      BY <2>1, <2>e DEF Refused, Rivals
    <3>8. CASE \A d \in Refused(n), j \in Kinds : dir[<<n, j>>] = d => Rank(j) < Rank(k)
      <4>1. e \notin Refused(n)'
        BY <3>4, <3>6, <3>7, <3>8, RankTyped
      <4>2. \A d \in Refused(n)', j \in Kinds : dir'[<<n, j>>] = d => Rank(j) < Rank(k)
        BY <3>1, <3>5, <3>7, <3>8
      <4>3. Ahead(n, e)'
        BY <3>1, <3>4, <4>2 DEF Ahead
      <4> QED BY <3>4, <4>1, <4>3
    <3>9. CASE ~ \A d \in Refused(n), j \in Kinds : dir[<<n, j>>] = d => Rank(j) < Rank(k)
      <4>1. PICK r \in Refused(n), j \in Kinds : dir[<<n, j>>] = r /\ ~(Rank(j) < Rank(k))
        BY <3>9
      <4>2. PICK d \in Rivals(n) \ Refused(n) : Ahead(n, d)
        BY <2>d, <4>1 DEF SomeoneAhead
      <4>3. CASE failing[d] = "error" \/ pc[d] \in Ended
        <5>1. d # c
          BY <3>1, <4>3 DEF Ended
        <5> QED BY <2>e, <3>7, <4>3, <5>1 DEF Ahead, Rivals
      <4>4. CASE ~(failing[d] = "error" \/ pc[d] \in Ended)
        <5>1. PICK m \in Kinds : /\ dir[<<n, m>>] = d
                                 /\ \A b \in Refused(n), i \in Kinds :
                                       dir[<<n, i>>] = b => Rank(i) < Rank(m)
          BY <4>2, <4>4 DEF Ahead
        <5>2. Rank(k) < Rank(m)
          BY <3>3, <4>1, <5>1, RankTyped
        <5>3. d # c
          BY <3>3, <3>5, <5>1, <5>2, RankTyped
        <5>4. d \in Rivals(n) \ Refused(n)'
          BY <3>7, <5>3
        <5>5. \A b \in Refused(n)', i \in Kinds : dir'[<<n, i>>] = b => Rank(i) < Rank(m)
          BY <3>1, <3>3, <3>5, <3>7, <5>1, <5>2, RankTyped
        <5> QED BY <3>1, <5>1, <5>4, <5>5 DEF Ahead
      <4> QED BY <4>3, <4>4
    <3> QED BY <3>8, <3>9
  \* Nobody is refused in this step.
  <2>2. CASE ~(c \in Rivals(n) /\ failing[c] # "exists" /\ failing'[c] = "exists")
    <3>1. Refused(n)' \subseteq Refused(n)
      BY <2>2, <2>e DEF Refused, Rivals
    <3>2. PICK d \in Rivals(n) \ Refused(n) : Ahead(n, d)
      BY <2>d, <3>1 DEF SomeoneAhead
    <3>3. d \in Rivals(n) \ Refused(n)'
      BY <3>1, <3>2
    <3>4. \A b \in Refused(n)', j \in Kinds : dir'[<<n, j>>] = b => dir[<<n, j>>] = b
      <4> SUFFICES ASSUME NEW b \in Refused(n)', NEW j \in Kinds, dir'[<<n, j>>] = b,
                          dir[<<n, j>>] # b
                   PROVE  FALSE
        OBVIOUS
      <4>1. b = c
        BY <2>c, <2>e DEF Refused, Rivals
      <4>2. failing[c] = "exists"
        BY <3>1, <4>1 DEF Refused
      <4>3. pc[c] \in {"cleanup", "rollback", "raised", "crashed"}
        BY <2>a, <4>2 DEF TypeOK, Counted
      <4>4. dir'[<<n, j>>] # dir[<<n, j>>] => dir'[<<n, j>>] # c
        <5>1. \/ dir' = dir
              \/ dir' = [dir EXCEPT ![File(c, at[c])] = Nobody]
          BY <1>2, <4>3
             DEF Step, Refuse, Start, Preflight, Build, Create, CreateFails, Write, Link, Cleanup,
                 CleanupFails, Return, Rollback, RollbackFrom, RolledBack, Interrupt, Crash
        <5> QED BY <2>a, <2>c, <5>1, CallsAssumption DEF TypeOK
      <4> QED BY <4>1, <4>4
    <3>5. CASE failing[d] = "error" \/ pc[d] \in Ended
      <4>1. CASE d # c
        BY <2>e, <3>3, <3>5, <4>1 DEF Ahead, Rivals
      <4>2. CASE d = c
        <5>1. failing'[c] = "error" \/ pc'[c] \in Ended
          BY <1>2, <2>a, <3>5, <4>2
             DEF TypeOK, Counted, Running, Ended, Goto, Raise, CreateFails, Step, Refuse, Start, Preflight,
                 Build, Create, Write, Link, Cleanup, CleanupFails, Return, Rollback, RolledBack,
                 Interrupt, Crash
        <5> QED BY <3>3, <4>2, <5>1 DEF Ahead
      <4> QED BY <4>1, <4>2
    <3>6. CASE ~(failing[d] = "error" \/ pc[d] \in Ended)
      <4>1. PICK k \in Kinds : /\ dir[<<n, k>>] = d
                               /\ \A b \in Refused(n), j \in Kinds :
                                     dir[<<n, j>>] = b => Rank(j) < Rank(k)
        BY <3>2, <3>6 DEF Ahead
      <4>2. failing[d] = "none" /\ pc[d] # "rollback"
        BY <2>a, <3>2, <3>6 DEF Refused, Rivals, TypeOK, Counted, Ended
      <4>3. dir'[<<n, k>>] = d
        BY <2>b, <2>c, <2>e, <4>1, <4>2, CallsAssumption DEF Respects, Rivals
      <4> QED BY <3>1, <3>3, <3>4, <4>1, <4>3 DEF Ahead
    <3> QED BY <3>5, <3>6
  <2> QED BY <2>1, <2>2
<1> QED BY <1>1, <1>2 DEF Next

\* Calls that collide on a name that was free cannot all be turned away by
\* FileExistsError, however many they are, in whatever order they run and whatever
\* else fails.
THEOREM SomeoneWins == Spec => []SomeCallWins
<1>1. Init => OwnersWant /\ SomeoneAhead
  <2>1. Init => OwnersWant
    <3>1. Init => \A c \in Calls : pc[c] \notin Running
      BY DEF Init, Running
    <3>2. Init => \A c \in Calls, f \in Files : dir[f] # c
      BY CallsAssumption DEF Init
    <3> QED BY <3>1, <3>2 DEF OwnersWant
  <2>2. Init => SomeoneAhead
    BY DEF Init, SomeoneAhead, Refused, Rivals
  <2> QED BY <2>1, <2>2
<1>2. StoreInv /\ OwnersWant /\ SomeoneAhead /\ [Next]_vars => (OwnersWant /\ SomeoneAhead)'
  BY StepOwnersWant, StepSomeoneAhead DEF StoreInv
<1>3. SomeoneAhead => SomeCallWins
  <2> SUFFICES ASSUME SomeoneAhead, NEW n \in Names, Rivals(n) # {},
                      \A k \in Kinds : dir[<<n, k>>] # Earlier
               PROVE  \E c \in Rivals(n) : failing[c] # "exists"
    BY DEF SomeCallWins, Rivals
  <2> QED BY DEF SomeoneAhead, NoneEarlier, Refused
<1> QED BY <1>1, <1>2, <1>3, StoreInvariant, PTL DEF Spec

\* What SomeCallWins, AllOrNothing and the type invariant say of a race together:
\* when the calls on a name that was free have ended and nothing failed but that they
\* met, one has stored its whole set, the others were refused and left nothing.
OneCallWins ==
    \A n \in Names :
       /\ Rivals(n) # {} /\ NoneEarlier(n)
       /\ \A c \in Rivals(n) : /\ pc[c] \in {"returned", "raised"}
                               /\ failing[c] # "error" /\ c \notin spoiled
       => \E w \in Rivals(n) :
             /\ Owned(w) = Wanted(w)
             /\ \A c \in Rivals(n) \ {w} : failing[c] = "exists" /\ Owned(c) = {}

\* A race between calls of persist_voice_response on one name has exactly one winner.
THEOREM RaceHasOneWinner == Spec => []OneCallWins
<1>1. TypeOK /\ AllOrNothing /\ SomeCallWins => OneCallWins
  <2> SUFFICES ASSUME TypeOK, AllOrNothing, SomeCallWins, NEW n \in Names,
                      Rivals(n) # {}, NoneEarlier(n),
                      \A c \in Rivals(n) : /\ pc[c] \in {"returned", "raised"}
                                           /\ failing[c] # "error" /\ c \notin spoiled
               PROVE  \E w \in Rivals(n) :
                         /\ Owned(w) = Wanted(w)
                         /\ \A c \in Rivals(n) \ {w} : failing[c] = "exists" /\ Owned(c) = {}
    BY DEF OneCallWins
  <2>1. PICK w \in Rivals(n) : failing[w] # "exists"
    BY DEF SomeCallWins, Rivals, NoneEarlier, Ended
  <2>2. ASSUME NEW c \in Rivals(n)
        PROVE  /\ c \in Calls /\ NameOf[c] = n /\ c \notin spoiled
               /\ \/ failing[c] = "none" /\ pc[c] = "returned"
                  \/ failing[c] = "exists" /\ pc[c] = "raised"
    <3>1. c \in Calls /\ NameOf[c] = n /\ c \notin spoiled
      BY DEF Rivals
    <3>2. pc[c] \in {"returned", "raised"} /\ failing[c] \in {"none", "exists"}
      BY <3>1 DEF TypeOK
    <3>3. (pc[c] = "raised" => failing[c] # "none") /\ (failing[c] # "none" => pc[c] # "returned")
      BY <3>1 DEF TypeOK, Counted
    <3> QED BY <3>1, <3>2, <3>3
  <2>3. \A c \in Rivals(n) : /\ pc[c] = "returned" => Owned(c) = Wanted(c)
                             /\ pc[c] = "raised" => Owned(c) = {}
    BY <2>2 DEF AllOrNothing
  <2>4. pc[w] = "returned"
    BY <2>1, <2>2
\* Two winners would both own the manifest.
  <2>5. ASSUME NEW c \in Rivals(n), pc[c] = "returned" PROVE c = w
    <3>1. NameOf[c] = n /\ NameOf[w] = n
      BY <2>2
    <3>2. <<n, "manifest">> \in Wanted(c) /\ <<n, "manifest">> \in Wanted(w)
      BY <3>1 DEF Wanted
    <3>3. <<n, "manifest">> \in Owned(c) /\ <<n, "manifest">> \in Owned(w)
      <4>1. Owned(c) = Wanted(c) /\ Owned(w) = Wanted(w)
        BY <2>3, <2>4, <2>5
      <4> QED BY <3>2, <4>1
    <3> QED BY <3>3 DEF Owned
  <2>6. ASSUME NEW c \in Rivals(n) \ {w} PROVE failing[c] = "exists" /\ Owned(c) = {}
    <3>1. pc[c] # "returned"
      BY <2>5
    <3>2. failing[c] = "exists" /\ pc[c] = "raised"
      BY <2>2, <3>1
    <3>3. Owned(c) = {}
      BY <2>3, <3>2
    <3> QED BY <3>2, <3>3
  <2> QED BY <2>3, <2>4, <2>6
<1> QED BY <1>1, TypeCorrect, StoresAllOrNothing, SomeoneWins, PTL
=============================================================================
