------------------------ MODULE AzureBootstrap_proofs ------------------------
(***************************************************************************)
(* Theorems about AzureBootstrap, for any number of runs, any set of       *)
(* applications and whatever the first run finds.                          *)
(***************************************************************************)
EXTENDS AzureBootstrap, TLAPS

----------------------------------------------------------------------------
(* The resources under the creates *)

\* A create changes one resource of a world and leaves a world.
LEMMA SharedMade ==
    ASSUME NEW w \in WorldSpace
    PROVE  /\ [w EXCEPT !.group = TRUE] \in WorldSpace
           /\ [w EXCEPT !.role = "exact"] \in WorldSpace
           /\ [w EXCEPT !.vault = "exact"] \in WorldSpace
           /\ [w EXCEPT !.key = "exact", !.version = @ + 1] \in WorldSpace
<1>1. [w EXCEPT !.group = TRUE] \in WorldSpace
  BY DEF WorldSpace
<1>2. [w EXCEPT !.role = "exact"] \in WorldSpace
  BY DEF WorldSpace, States
<1>3. [w EXCEPT !.vault = "exact"] \in WorldSpace
  BY DEF WorldSpace, States
<1>4. [w EXCEPT !.key = "exact", !.version = @ + 1] \in WorldSpace
  <2>1. w.version + 1 \in Nat
    BY DEF WorldSpace
  <2> QED BY <2>1 DEF WorldSpace, States
<1> QED BY <1>1, <1>2, <1>3, <1>4

LEMMA OwnedMade ==
    ASSUME NEW w \in WorldSpace, NEW a \in Apps
    PROVE  /\ [w EXCEPT !.apps[a] = "exact"] \in WorldSpace
           /\ [w EXCEPT !.sps[a] = "exact"] \in WorldSpace
           /\ [w EXCEPT !.credentials[a] = @ \cup {"exact"}] \in WorldSpace
           /\ [w EXCEPT !.grants[a] = @ \cup {"vault"}] \in WorldSpace
BY DEF WorldSpace, States, Credentials, Grants

LEMMA WeakenTyped ==
    ASSUME NEW w \in WorldSpace
    PROVE  /\ WeakenShared(w) \subseteq WorldSpace
           /\ \A a \in Apps : WeakenOwned(w, a) \subseteq WorldSpace
<1>1. [w EXCEPT !.role = "other"] \in WorldSpace
  BY DEF WorldSpace, States
<1>2. [w EXCEPT !.vault = "other"] \in WorldSpace
  BY DEF WorldSpace, States
<1>3. [w EXCEPT !.key = "other", !.version = IF w.key = "absent" THEN @ + 1 ELSE @]
         \in WorldSpace
  <2>1. w.version + 1 \in Nat /\ w.version \in Nat
    BY DEF WorldSpace
  <2> QED BY <2>1 DEF WorldSpace, States
<1>4. ASSUME NEW a \in Apps
      PROVE  WeakenOwned(w, a) \subseteq WorldSpace
  <2>1. /\ [w EXCEPT !.apps[a] = "other"] \in WorldSpace
        /\ [w EXCEPT !.sps[a] = "other"] \in WorldSpace
        /\ [w EXCEPT !.credentials[a] = {"wrong"}] \in WorldSpace
        /\ [w EXCEPT !.credentials[a] = @ \cup {"extra"}] \in WorldSpace
        /\ [w EXCEPT !.grants[a] = @ \cup {"foreign"}] \in WorldSpace
        /\ [w EXCEPT !.grants[a] = {"group"}] \in WorldSpace
    BY DEF WorldSpace, States, Credentials, Grants
  <2> QED BY <2>1 DEF WeakenOwned
<1>5. WeakenShared(w) \subseteq WorldSpace
  BY <1>1, <1>2, <1>3 DEF WeakenShared
<1> QED BY <1>4, <1>5

----------------------------------------------------------------------------
(* What one step of a run may do, whichever it is *)

\* What is as it should be stays so.
Grows(v, w) ==
    /\ v.group => w.group
    /\ v.role = "exact" => w.role = "exact"
    /\ v.vault = "exact" => w.vault = "exact"
    /\ v.key = "exact" => w.key = "exact"
    /\ v.version <= w.version
    /\ \A a \in Apps :
         /\ v.apps[a] # "absent" => w.apps[a] # "absent"
         /\ v.apps[a] = "exact" => w.apps[a] = "exact"
         /\ v.sps[a] = "exact" => w.sps[a] = "exact"
         /\ v.credentials[a] = {"exact"} => w.credentials[a] = {"exact"}

Effect(r) ==
    /\ azure' \in WorldSpace /\ KeyHasVersions(azure') /\ Grows(azure, azure')
    /\ pc[r] # "appCreate" => azure'.apps = azure.apps
    /\ UNCHANGED <<flawed, history>>
    /\ pc[r] \in Calls
    /\ \E to \in Calls \cup {"refused", "done"} : pc' = [pc EXCEPT ![r] = to]
    /\ \E a \in Apps \cup {NoApp} : app' = [app EXCEPT ![r] = a]
    /\ \E n \in Nat : reported' = [reported EXCEPT ![r] = n]

LEMMA ReadsEffect ==
    ASSUME TypeOK, NEW r \in Runs, NEW at \in Calls,
           NEW to \in Calls \cup {"refused", "done"}, Reads(r, at, to)
    PROVE  Effect(r)
<1>1. azure' = azure /\ azure \in WorldSpace /\ app' = app /\ reported' = reported
  BY DEF TypeOK, Reads, world
<1>2. Grows(azure, azure') /\ KeyHasVersions(azure')
  BY <1>1 DEF Grows, WorldSpace, KeyHasVersions, TypeOK
<1>3. app' = [app EXCEPT ![r] = app[r]] /\ app[r] \in Apps \cup {NoApp}
  BY <1>1 DEF TypeOK
<1>4. reported' = [reported EXCEPT ![r] = reported[r]] /\ reported[r] \in Nat
  BY <1>1 DEF TypeOK
<1> QED BY <1>1, <1>2, <1>3, <1>4 DEF Effect, Reads, Goes, world, history

LEMMA CreatesEffect ==
    ASSUME TypeOK, NEW r \in Runs, NEW at \in Calls, at # "appCreate",
           NEW to \in Calls, NEW allowed, NEW made, Creates(r, at, to, allowed, made),
           made \in WorldSpace, KeyHasVersions(made), Grows(azure, made),
           made.apps = azure.apps
    PROVE  Effect(r)
<1>1. azure' = made /\ app' = app /\ reported' = reported
  BY DEF Creates
<1>3. app' = [app EXCEPT ![r] = app[r]] /\ app[r] \in Apps \cup {NoApp}
  BY <1>1 DEF TypeOK
<1>4. reported' = [reported EXCEPT ![r] = reported[r]] /\ reported[r] \in Nat
  BY <1>1 DEF TypeOK
<1> QED BY <1>1, <1>3, <1>4 DEF Effect, Creates, Goes, history

LEMMA StepEffect ==
    ASSUME TypeOK, NEW r \in Runs, Step(r)
    PROVE  Effect(r)
<1> USE ReadsEffect DEF Calls
<1> azure \in WorldSpace
  BY DEF TypeOK
<1>1. CASE Group(r)
  BY <1>1 DEF Group
<1>2. CASE RoleList(r)
  BY <1>2 DEF RoleList
<1>3. CASE RoleCheck(r)
  BY <1>3 DEF RoleCheck
<1>4. CASE AppShow(r)
  BY <1>4 DEF AppShow
<1>5. CASE SpList(r)
  BY <1>5 DEF SpList
<1>6. CASE SpShow(r)
  BY <1>6 DEF SpShow
<1>7. CASE CredentialList(r)
  BY <1>7 DEF CredentialList
<1>8. CASE CredentialCheck(r)
  BY <1>8 DEF CredentialCheck
<1>9. CASE VaultList(r)
  BY <1>9 DEF VaultList
<1>10. CASE VaultShow(r)
  BY <1>10 DEF VaultShow
<1>11. CASE KeyList(r)
  BY <1>11 DEF KeyList
<1>12. CASE GrantList(r)
  BY <1>12 DEF GrantList
<1>13. CASE GrantCheck(r)
  BY <1>13 DEF GrantCheck
<1>14. CASE GroupCreate(r)
  <2> DEFINE made == [azure EXCEPT !.group = TRUE]
  <2>1. made \in WorldSpace
    BY SharedMade
  <2>2. Grows(azure, made) /\ made.apps = azure.apps /\ KeyHasVersions(made)
    BY DEF Grows, WorldSpace, KeyHasVersions, TypeOK
  <2>4. Creates(r, "groupCreate", "roleList", TRUE, made)
    BY <1>14 DEF GroupCreate
  <2> HIDE DEF made
  <2> QED BY <2>1, <2>2, <2>4, CreatesEffect
<1>15. CASE RoleCreate(r)
  <2> DEFINE made == [azure EXCEPT !.role = "exact"]
  <2>1. made \in WorldSpace
    BY SharedMade
  <2>2. Grows(azure, made) /\ made.apps = azure.apps /\ KeyHasVersions(made)
    BY DEF Grows, WorldSpace, KeyHasVersions, TypeOK
  <2>4. Creates(r, "roleCreate", "roleCheck", azure.role = "absent", made)
    BY <1>15 DEF RoleCreate
  <2> HIDE DEF made
  <2> QED BY <2>1, <2>2, <2>4, CreatesEffect
<1>16. CASE VaultCreate(r)
  <2> DEFINE made == [azure EXCEPT !.vault = "exact"]
  <2>1. made \in WorldSpace
    BY SharedMade
  <2>2. Grows(azure, made) /\ made.apps = azure.apps /\ KeyHasVersions(made)
    BY DEF Grows, WorldSpace, KeyHasVersions, TypeOK
  <2>4. Creates(r, "vaultCreate", "keyList", azure.vault = "absent", made)
    BY <1>16 DEF VaultCreate
  <2> HIDE DEF made
  <2> QED BY <2>1, <2>2, <2>4, CreatesEffect
<1>17. CASE KeyCreate(r)
  <2> DEFINE made == [azure EXCEPT !.key = "exact", !.version = @ + 1]
  <2>1. made \in WorldSpace
    BY SharedMade
  <2>2. Grows(azure, made) /\ made.apps = azure.apps /\ KeyHasVersions(made)
    BY DEF Grows, WorldSpace, KeyHasVersions, TypeOK
  <2>4. Creates(r, "keyCreate", "keyShow", TRUE, made)
    BY <1>17 DEF KeyCreate
  <2> HIDE DEF made
  <2> QED BY <2>1, <2>2, <2>4, CreatesEffect
<1>18. CASE SpCreate(r)
  <2> DEFINE made == [azure EXCEPT !.sps[app[r]] = "exact"]
  <2>1. app[r] \in Apps
    BY <1>18 DEF SpCreate, Creates, Goes, TypeOK, Unchosen, Ended, Named
  <2>2. made \in WorldSpace
    BY <2>1, OwnedMade
  <2>3. Grows(azure, made) /\ made.apps = azure.apps /\ KeyHasVersions(made)
    BY <1>18, <2>1 DEF Grows, WorldSpace, KeyHasVersions, TypeOK, SpCreate, Creates, Federated, FrozenName
  <2>4. Creates(r, "spCreate", "spShow", azure.sps[app[r]] = "absent", made)
    BY <1>18 DEF SpCreate
  <2> HIDE DEF made
  <2> QED BY <2>2, <2>3, <2>4, CreatesEffect
<1>19. CASE CredentialCreate(r)
  <2> DEFINE made == [azure EXCEPT !.credentials[app[r]] = @ \cup {"exact"}]
  <2>1. app[r] \in Apps
    BY <1>19 DEF CredentialCreate, Creates, Goes, TypeOK, Unchosen, Ended, Named
  <2>2. made \in WorldSpace
    BY <2>1, OwnedMade
  <2>3. Grows(azure, made) /\ made.apps = azure.apps /\ KeyHasVersions(made)
    BY <1>19, <2>1 DEF Grows, WorldSpace, KeyHasVersions, TypeOK, CredentialCreate, Creates, Federated, FrozenName
  <2>4. Creates(r, "credentialCreate", "credentialCheck", Federated(r) \cap FrozenName = {}, made)
    BY <1>19 DEF CredentialCreate
  <2> HIDE DEF made
  <2> QED BY <2>2, <2>3, <2>4, CreatesEffect
<1>20. CASE GrantCreate(r)
  <2> DEFINE made == [azure EXCEPT !.grants[app[r]] = @ \cup {"vault"}]
  <2>1. app[r] \in Apps
    BY <1>20 DEF GrantCreate, Creates, Goes, TypeOK, Unchosen, Ended, Named
  <2>2. made \in WorldSpace
    BY <2>1, OwnedMade
  <2>3. Grows(azure, made) /\ made.apps = azure.apps /\ KeyHasVersions(made)
    BY <1>20, <2>1 DEF Grows, WorldSpace, KeyHasVersions, TypeOK, GrantCreate, Creates, Federated, FrozenName
  <2>4. Creates(r, "grantCreate", "grantCheck", "vault" \notin azure.grants[app[r]], made)
    BY <1>20 DEF GrantCreate
  <2> HIDE DEF made
  <2> QED BY <2>2, <2>3, <2>4, CreatesEffect
<1>21. CASE AppList(r)
  <2>1. CASE \E a \in Named : /\ Goes(r, "appList", "appShow")
                            /\ app' = [app EXCEPT ![r] = a]
                            /\ UNCHANGED <<world, reported>>
    <3>1. Grows(azure, azure') /\ KeyHasVersions(azure')
      BY <2>1 DEF Grows, WorldSpace, KeyHasVersions, TypeOK, world
    <3>2. reported' = [reported EXCEPT ![r] = reported[r]] /\ reported[r] \in Nat
      BY <2>1 DEF TypeOK
    <3> QED BY <2>1, <3>1, <3>2 DEF Effect, Goes, Named, world, history
  <2> QED BY <1>21, <2>1 DEF AppList
<1>22. CASE AppCreate(r)
  <2>1. PICK a \in Apps \ Named : /\ azure' = [azure EXCEPT !.apps[a] = "exact"]
                                /\ Goes(r, "appCreate", "appShow")
                                /\ app' = [app EXCEPT ![r] = a]
                                /\ UNCHANGED <<flawed, reported>>
    BY <1>22 DEF AppCreate
  <2>2. azure' \in WorldSpace
    BY <2>1, OwnedMade
  <2>3. Grows(azure, azure') /\ KeyHasVersions(azure')
    BY <2>1 DEF Grows, WorldSpace, KeyHasVersions, TypeOK
  <2>4. reported' = [reported EXCEPT ![r] = reported[r]] /\ reported[r] \in Nat
    BY <2>1 DEF TypeOK
  <2> QED BY <2>1, <2>2, <2>3, <2>4 DEF Effect, Goes, history
<1>23. CASE KeyShow(r)
  <2>1. CASE azure.key = "exact"
    <3>1. Grows(azure, azure') /\ KeyHasVersions(azure')
      BY <1>23, <2>1 DEF KeyShow, Grows, WorldSpace, KeyHasVersions, TypeOK, world
    <3>2. app' = [app EXCEPT ![r] = app[r]] /\ app[r] \in Apps \cup {NoApp}
      BY <1>23, <2>1 DEF KeyShow, TypeOK
    <3>3. azure.version \in Nat
      BY DEF WorldSpace
    <3> QED BY <1>23, <2>1, <3>1, <3>2, <3>3 DEF KeyShow, Effect, Goes, world, history
  <2> QED BY <1>23, <2>1 DEF KeyShow
<1> QED BY <1>1, <1>2, <1>3, <1>4, <1>5, <1>6, <1>7, <1>8, <1>9, <1>10, <1>11, <1>12, <1>13, <1>14, <1>15, <1>16, <1>17, <1>18, <1>19, <1>20, <1>21, <1>22, <1>23 DEF Step

----------------------------------------------------------------------------
(* Type correctness *)

\* Where a run stands after its own step: with an application that exists, and with
\* a version of the key that exists.
LEMMA StepChosen ==
    ASSUME TypeOK, NEW r \in Runs, Step(r)
    PROVE  /\ pc'[r] \notin Unchosen => app'[r] \in Named'
           /\ pc'[r] \in Late => reported'[r] \in 1 .. azure'.version
<1> USE DEF Unchosen, Ended, Late
<1>1. Effect(r)
  BY StepEffect
<1>2. /\ pc'[r] # "appShow" /\ pc'[r] \notin Unchosen =>
           pc[r] \notin Unchosen /\ app'[r] = app[r]
      /\ pc'[r] # "grantList" /\ pc'[r] \in Late =>
           pc[r] \in Late /\ reported'[r] = reported[r]
  BY DEF Step, TypeOK, Group, GroupCreate, RoleList, RoleCreate, RoleCheck, AppList,
         AppCreate, AppShow, SpList, SpCreate, SpShow, CredentialList, CredentialCreate,
         CredentialCheck, VaultList, VaultCreate, VaultShow, KeyList, KeyCreate, KeyShow,
         GrantList, GrantCreate, GrantCheck, Reads, Creates, Goes, world
<1>3. pc'[r] = "appShow" => app'[r] \in Named'
  BY DEF Step, TypeOK, Group, GroupCreate, RoleList, RoleCreate, RoleCheck, AppList,
         AppCreate, AppShow, SpList, SpCreate, SpShow, CredentialList, CredentialCreate,
         CredentialCheck, VaultList, VaultCreate, VaultShow, KeyList, KeyCreate, KeyShow,
         GrantList, GrantCreate, GrantCheck, Reads, Creates, Goes, world, Named, WorldSpace
<1>4. pc'[r] = "grantList" => reported'[r] \in 1 .. azure'.version
  BY DEF Step, TypeOK, Group, GroupCreate, RoleList, RoleCreate, RoleCheck, AppList,
         AppCreate, AppShow, SpList, SpCreate, SpShow, CredentialList, CredentialCreate,
         CredentialCheck, VaultList, VaultCreate, VaultShow, KeyList, KeyCreate, KeyShow,
         GrantList, GrantCreate, GrantCheck, Reads, Creates, Goes, world, KeyHasVersions,
         WorldSpace
<1> QED BY <1>1, <1>2, <1>3, <1>4 DEF Effect, Grows, Named, TypeOK, WorldSpace

\* Whoever weakens a resource leaves a world in which every application and every
\* version is still there.
LEMMA TamperEffect ==
    ASSUME TypeOK, Tamper
    PROVE  /\ azure' \in WorldSpace /\ KeyHasVersions(azure')
           /\ Named \subseteq Named' /\ azure.version <= azure'.version
<1> azure \in WorldSpace /\ KeyHasVersions(azure)
  BY DEF TypeOK
<1>1. azure' \in WorldSpace
  BY WeakenTyped DEF Tamper, Named
<1>2. ASSUME azure' \in WeakenShared(azure)
      PROVE  /\ KeyHasVersions(azure')
             /\ Named \subseteq Named' /\ azure.version <= azure'.version
  <2>1. azure.version \in Nat /\ azure.version + 1 \in Nat
    BY DEF WorldSpace
  <2>2. azure'.apps = azure.apps
    BY <1>2 DEF WeakenShared, WorldSpace
  <2>3. CASE azure'.key = azure.key /\ azure'.version = azure.version
    BY <2>1, <2>2, <2>3 DEF KeyHasVersions, Named
  <2>4. CASE azure' = [azure EXCEPT !.key = "other", !.version =
                         IF azure.key = "absent" THEN azure.version + 1 ELSE azure.version]
    <3>1. azure'.key = "other" /\ azure'.version =
             IF azure.key = "absent" THEN azure.version + 1 ELSE azure.version
      BY <2>4 DEF WorldSpace
    <3> QED BY <2>1, <2>2, <3>1 DEF KeyHasVersions, Named
  <2> QED BY <1>2, <2>3, <2>4 DEF WeakenShared, WorldSpace
<1>3. ASSUME NEW a \in Named, azure' \in WeakenOwned(azure, a)
      PROVE  /\ KeyHasVersions(azure')
             /\ Named \subseteq Named' /\ azure.version <= azure'.version
  <2>1. azure'.key = azure.key /\ azure'.version = azure.version /\ azure.version \in Nat
    BY <1>3 DEF WeakenOwned, WorldSpace
  <2>2. azure'.apps = azure.apps \/ azure'.apps = [azure.apps EXCEPT ![a] = "other"]
    BY <1>3 DEF WeakenOwned, WorldSpace
  <2>3. azure.apps \in [Apps -> States]
    BY DEF WorldSpace
  <2>4. Named \subseteq Named'
    BY <2>2, <2>3 DEF Named
  <2> QED BY <2>1, <2>4 DEF KeyHasVersions
<1>4. azure' \in WeakenShared(azure) \/ \E a \in Named : azure' \in WeakenOwned(azure, a)
  BY DEF Tamper
<1> QED BY <1>1, <1>2, <1>3, <1>4

LEMMA InitTyped == Init => TypeOK
<1> SUFFICES ASSUME Init PROVE TypeOK
  OBVIOUS
<1>1. azure \in WorldSpace /\ KeyHasVersions(azure)
  BY WorldsAssumption DEF Init
<1>2. flawed \in BOOLEAN /\ overlapped \in BOOLEAN
  BY DEF Init
<1>3. \A r \in Runs : pc[r] = "idle"
  BY DEF Init
<1>4. /\ pc \in [Runs -> Calls \cup Ended] /\ app \in [Runs -> Apps \cup {NoApp}]
      /\ reported \in [Runs -> Nat]
      /\ undisturbed \in [Runs -> BOOLEAN] /\ alone \in [Runs -> BOOLEAN]
  BY DEF Init, Ended
<1> QED BY <1>1, <1>2, <1>3, <1>4 DEF TypeOK, Unchosen, Ended, Late

LEMMA StartTyped ==
    ASSUME TypeOK, NEW r \in Runs, Start(r)
    PROVE  TypeOK'
<1>1. pc' \in [Runs -> Calls \cup Ended] /\ app' \in [Runs -> Apps \cup {NoApp}]
      /\ reported' \in [Runs -> Nat] /\ undisturbed' \in [Runs -> BOOLEAN]
  BY DEF TypeOK, Start, Calls
<1>2. alone' \in [Runs -> BOOLEAN] /\ overlapped' \in BOOLEAN
  BY DEF TypeOK, Start
<1>3. azure' = azure /\ flawed' = flawed
  BY DEF Start, world
<1>4. ASSUME NEW q \in Runs
      PROVE  /\ pc'[q] \notin Unchosen => app'[q] \in Named'
             /\ pc'[q] \in Late => reported'[q] \in 1 .. azure'.version
  BY <1>3 DEF TypeOK, Start, Unchosen, Late, Named
<1> QED BY <1>1, <1>2, <1>3, <1>4 DEF TypeOK

LEMMA StepTyped ==
    ASSUME TypeOK, NEW r \in Runs, Step(r)
    PROVE  TypeOK'
<1>1. Effect(r)
  BY StepEffect
<1>2. pc' \in [Runs -> Calls \cup Ended] /\ app' \in [Runs -> Apps \cup {NoApp}]
      /\ reported' \in [Runs -> Nat]
  BY <1>1 DEF Effect, TypeOK, Ended
<1>3. azure.version <= azure'.version /\ Named \subseteq Named'
      /\ azure.version \in Nat /\ azure'.version \in Nat
  BY <1>1 DEF Effect, Grows, Named, WorldSpace, TypeOK
<1>4. ASSUME NEW q \in Runs
      PROVE  /\ pc'[q] \notin Unchosen => app'[q] \in Named'
             /\ pc'[q] \in Late => reported'[q] \in 1 .. azure'.version
  <2>1. CASE q = r
    BY <2>1, StepChosen
  <2>2. CASE q # r
    BY <1>1, <1>3, <2>2 DEF Effect, TypeOK
  <2> QED BY <2>1, <2>2
<1> QED BY <1>1, <1>2, <1>4 DEF Effect, history, TypeOK

LEMMA FailTyped ==
    ASSUME TypeOK, NEW r \in Runs, CallFails(r)
    PROVE  TypeOK'
BY DEF TypeOK, CallFails, Active, world, history, Unchosen, Ended, Late, Named

LEMMA TamperTyped == TypeOK /\ Tamper => TypeOK'
<1> SUFFICES ASSUME TypeOK, Tamper PROVE TypeOK'
  OBVIOUS
<1>1. /\ azure' \in WorldSpace /\ KeyHasVersions(azure')
      /\ Named \subseteq Named' /\ azure.version <= azure'.version
  BY TamperEffect
<1>2. azure.version \in Nat /\ azure'.version \in Nat
  BY <1>1 DEF WorldSpace, TypeOK
<1>3. undisturbed' \in [Runs -> BOOLEAN]
  BY DEF Tamper, TypeOK
<1> QED BY <1>1, <1>2, <1>3 DEF Tamper, TypeOK, run

\* The variables keep their types: Spec => []TypeOK.
THEOREM TypeCorrect == Spec => []TypeOK
<1>1. Init => TypeOK
  BY InitTyped
<1>2. TypeOK /\ [Next]_vars => TypeOK'
  <2> SUFFICES ASSUME TypeOK, [Next]_vars PROVE TypeOK'
    OBVIOUS
  <2>1. CASE UNCHANGED vars
    BY <2>1 DEF vars, world, run, history, TypeOK, Named
  <2>2. CASE Tamper
    BY <2>2, TamperTyped
  <2>3. CASE \E r \in Runs : Start(r) \/ Step(r) \/ CallFails(r)
    BY <2>3, StartTyped, StepTyped, FailTyped
  <2> QED BY <2>1, <2>2, <2>3 DEF Next
<1> QED BY <1>1, <1>2, PTL DEF Spec

----------------------------------------------------------------------------
(* A completed run leaves a strict installation *)

\* The az calls that come after a check has been passed.
PastKey == {"grantList", "grantCreate", "grantCheck"}
PastVault == {"keyList", "keyCreate", "keyShow"} \cup PastKey
PastCredential == {"vaultList", "vaultCreate", "vaultShow"} \cup PastVault
PastSp == {"credentialList", "credentialCreate", "credentialCheck"} \cup PastCredential
PastApp == {"spList", "spCreate", "spShow"} \cup PastSp
PastChoice == {"appShow"} \cup PastApp
PastRole == {"appList", "appCreate"} \cup PastChoice
PastGroup == {"roleList", "roleCreate", "roleCheck"} \cup PastRole

\* What a run has checked still holds in world w, its application being a.
Holds(at, a, w) ==
    /\ at \in PastGroup => w.group
    /\ at \in PastRole => w.role = "exact"
    /\ at \in PastApp => w.apps[a] = "exact"
    /\ at \in PastSp => w.sps[a] = "exact"
    /\ at \in PastCredential => w.credentials[a] = {"exact"}
    /\ at \in PastVault => w.vault = "exact"
    /\ at \in PastKey => w.key = "exact"

\* A run that has Azure to itself knows every application of the name.
OnlyOne(r) ==
    /\ \A q \in Runs \ {r} : ~Active(q)
    /\ pc[r] = "appCreate" => Named = {}
    /\ pc[r] \in PastChoice => Named = {app[r]}

Checked(r) ==
    undisturbed[r] => /\ Holds(pc[r], app[r], azure)
                      /\ Active(r) /\ alone[r] => OnlyOne(r)

CheckedInv == \A r \in Runs : Checked(r)

LEMMA HoldsGrows ==
    ASSUME NEW at, NEW a, NEW v, NEW w, Grows(v, w), Holds(at, a, v),
           at \in PastApp => a \in Apps
    PROVE  Holds(at, a, w)
BY DEF Holds, Grows, PastApp, PastSp, PastCredential, PastVault, PastKey

\* A step of a run that goes past a check finds what is checked as it should be.
LEMMA ChecksPassed ==
    ASSUME TypeOK, NEW r \in Runs, Step(r)
    PROVE  /\ pc'[r] \in PastGroup => pc[r] \in PastGroup \/ azure'.group
           /\ pc'[r] \in PastRole => pc[r] \in PastRole \/ azure.role = "exact"
           /\ pc'[r] \in PastApp =>
                /\ app'[r] = app[r] /\ app[r] \in Apps
                /\ pc[r] \in PastApp \/ azure.apps[app[r]] = "exact"
           /\ pc'[r] \in PastSp => pc[r] \in PastSp \/ azure.sps[app[r]] = "exact"
           /\ pc'[r] \in PastCredential =>
                pc[r] \in PastCredential \/ azure.credentials[app[r]] = {"exact"}
           /\ pc'[r] \in PastVault => pc[r] \in PastVault \/ azure'.vault = "exact"
           /\ pc'[r] \in PastKey => pc[r] \in PastKey \/ azure.key = "exact"
<1> USE DEF PastGroup, PastRole, PastChoice, PastApp, PastSp, PastCredential, PastVault, PastKey
<1> azure \in WorldSpace /\ pc \in [Runs -> Calls \cup Ended]
  BY DEF TypeOK
<1>1. pc'[r] \in PastGroup => pc[r] \in PastGroup \/ azure'.group
  BY DEF WorldSpace, Step, Group, GroupCreate, RoleList, RoleCreate, RoleCheck, AppList,
         AppCreate, AppShow, SpList, SpCreate, SpShow, CredentialList, CredentialCreate,
         CredentialCheck, VaultList, VaultCreate, VaultShow, KeyList, KeyCreate, KeyShow,
         GrantList, GrantCreate, GrantCheck, Reads, Creates, Goes, world
<1>2. pc'[r] \in PastRole => pc[r] \in PastRole \/ azure.role = "exact"
  BY DEF Step, Group, GroupCreate, RoleList, RoleCreate, RoleCheck, AppList,
         AppCreate, AppShow, SpList, SpCreate, SpShow, CredentialList, CredentialCreate,
         CredentialCheck, VaultList, VaultCreate, VaultShow, KeyList, KeyCreate, KeyShow,
         GrantList, GrantCreate, GrantCheck, Reads, Creates, Goes, world
<1>3. pc'[r] \in PastApp => pc[r] \in PastApp \/ azure.apps[app[r]] = "exact"
  BY DEF Step, Group, GroupCreate, RoleList, RoleCreate, RoleCheck, AppList,
         AppCreate, AppShow, SpList, SpCreate, SpShow, CredentialList, CredentialCreate,
         CredentialCheck, VaultList, VaultCreate, VaultShow, KeyList, KeyCreate, KeyShow,
         GrantList, GrantCreate, GrantCheck, Reads, Creates, Goes, world
<1>4. pc'[r] \in PastApp => app'[r] = app[r] /\ app[r] \in Apps
  <2>1. pc'[r] \in PastApp => app' = app /\ pc[r] \notin Unchosen
    BY DEF Step, Group, GroupCreate, RoleList, RoleCreate, RoleCheck, AppList,
         AppCreate, AppShow, SpList, SpCreate, SpShow, CredentialList, CredentialCreate,
         CredentialCheck, VaultList, VaultCreate, VaultShow, KeyList, KeyCreate, KeyShow,
         GrantList, GrantCreate, GrantCheck, Reads, Creates, Goes, world, Unchosen, Ended
  <2> QED BY <2>1 DEF TypeOK, Named
<1>5. pc'[r] \in PastSp => pc[r] \in PastSp \/ azure.sps[app[r]] = "exact"
  BY DEF Step, Group, GroupCreate, RoleList, RoleCreate, RoleCheck, AppList,
         AppCreate, AppShow, SpList, SpCreate, SpShow, CredentialList, CredentialCreate,
         CredentialCheck, VaultList, VaultCreate, VaultShow, KeyList, KeyCreate, KeyShow,
         GrantList, GrantCreate, GrantCheck, Reads, Creates, Goes, world
<1>6. pc'[r] \in PastCredential =>
         pc[r] \in PastCredential \/ azure.credentials[app[r]] = {"exact"}
  BY DEF Step, Group, GroupCreate, RoleList, RoleCreate, RoleCheck, AppList,
         AppCreate, AppShow, SpList, SpCreate, SpShow, CredentialList, CredentialCreate,
         CredentialCheck, VaultList, VaultCreate, VaultShow, KeyList, KeyCreate, KeyShow,
         GrantList, GrantCreate, GrantCheck, Reads, Creates, Goes, world, Federated
<1>7. pc'[r] \in PastVault => pc[r] \in PastVault \/ azure'.vault = "exact"
  BY DEF WorldSpace, Step, Group, GroupCreate, RoleList, RoleCreate, RoleCheck, AppList,
         AppCreate, AppShow, SpList, SpCreate, SpShow, CredentialList, CredentialCreate,
         CredentialCheck, VaultList, VaultCreate, VaultShow, KeyList, KeyCreate, KeyShow,
         GrantList, GrantCreate, GrantCheck, Reads, Creates, Goes, world
<1>8. pc'[r] \in PastKey => pc[r] \in PastKey \/ azure.key = "exact"
  BY DEF Step, Group, GroupCreate, RoleList, RoleCreate, RoleCheck, AppList,
         AppCreate, AppShow, SpList, SpCreate, SpShow, CredentialList, CredentialCreate,
         CredentialCheck, VaultList, VaultCreate, VaultShow, KeyList, KeyCreate, KeyShow,
         GrantList, GrantCreate, GrantCheck, Reads, Creates, Goes, world
<1> QED BY <1>1, <1>2, <1>3, <1>4, <1>5, <1>6, <1>7, <1>8

LEMMA StepHolds ==
    ASSUME TypeOK, NEW r \in Runs, Step(r), Holds(pc[r], app[r], azure)
    PROVE  Holds(pc'[r], app'[r], azure')
<1>1. Grows(azure, azure')
  BY StepEffect DEF Effect
<1> USE <1>1, ChecksPassed DEF Holds, Grows
<1>2. pc'[r] \in PastGroup => azure'.group
  OBVIOUS
<1>3. pc'[r] \in PastRole => azure'.role = "exact"
  OBVIOUS
<1>4. pc'[r] \in PastApp => azure'.apps[app'[r]] = "exact"
  OBVIOUS
<1>5. pc'[r] \in PastSp => pc'[r] \in PastApp
  BY DEF PastApp
<1>6. pc'[r] \in PastCredential => pc'[r] \in PastSp
  BY DEF PastSp
<1>7. pc'[r] \in PastSp => azure'.sps[app'[r]] = "exact"
  BY <1>5
<1>8. pc'[r] \in PastCredential => azure'.credentials[app'[r]] = {"exact"}
  BY <1>5, <1>6
<1>9. pc'[r] \in PastVault => azure'.vault = "exact"
  OBVIOUS
<1>10. pc'[r] \in PastKey => azure'.key = "exact"
  OBVIOUS
<1> QED BY <1>2, <1>3, <1>4, <1>7, <1>8, <1>9, <1>10

\* A step of a run that has Azure to itself leaves it the only application.
LEMMA StepOnlyOne ==
    ASSUME TypeOK, NEW r \in Runs, Step(r), OnlyOne(r)
    PROVE  OnlyOne(r)'
<1> azure \in WorldSpace
  BY DEF TypeOK
<1>1. Effect(r)
  BY StepEffect
<1>2. ASSUME NEW q \in Runs \ {r}
      PROVE  ~Active(q)'
  BY <1>1 DEF Effect, OnlyOne, Active, TypeOK
<1>3. pc'[r] = "appCreate" => Named' = {}
  <2>1. pc'[r] = "appCreate" => Named = {} /\ azure' = azure
    BY DEF TypeOK, Step, Group, GroupCreate, RoleList, RoleCreate, RoleCheck, AppList,
         AppCreate, AppShow, SpList, SpCreate, SpShow, CredentialList, CredentialCreate,
         CredentialCheck, VaultList, VaultCreate, VaultShow, KeyList, KeyCreate, KeyShow,
         GrantList, GrantCreate, GrantCheck, Reads, Creates, Goes, world
  <2> QED BY <2>1 DEF Named
<1>4. ASSUME pc'[r] \in PastChoice
      PROVE  Named' = {app'[r]}
  <2> USE DEF PastChoice, PastApp, PastSp, PastCredential, PastVault, PastKey
  <2>1. CASE pc[r] = "appList"
    <3>1. PICK a \in Named : Named = {a} /\ app' = [app EXCEPT ![r] = a] /\ azure' = azure
      BY <1>4, <2>1 DEF TypeOK, Step, Group, GroupCreate, RoleList, RoleCreate, RoleCheck, AppList,
         AppCreate, AppShow, SpList, SpCreate, SpShow, CredentialList, CredentialCreate,
         CredentialCheck, VaultList, VaultCreate, VaultShow, KeyList, KeyCreate, KeyShow,
         GrantList, GrantCreate, GrantCheck, Reads, Creates, Goes, world
    <3>2. app'[r] = a
      BY <3>1 DEF TypeOK
    <3> QED BY <3>1, <3>2 DEF Named
  <2>2. CASE pc[r] = "appCreate"
    <3>1. PICK a \in Apps \ Named : /\ azure' = [azure EXCEPT !.apps[a] = "exact"]
                                    /\ app' = [app EXCEPT ![r] = a]
      BY <2>2 DEF Step, Group, GroupCreate, RoleList, RoleCreate, RoleCheck, AppList,
         AppCreate, AppShow, SpList, SpCreate, SpShow, CredentialList, CredentialCreate,
         CredentialCheck, VaultList, VaultCreate, VaultShow, KeyList, KeyCreate, KeyShow,
         GrantList, GrantCreate, GrantCheck, Reads, Creates, Goes, world
    <3>2. app'[r] = a /\ Named = {}
      BY <2>2, <3>1 DEF TypeOK, OnlyOne
    <3>3. azure'.apps = [azure.apps EXCEPT ![a] = "exact"] /\ azure.apps \in [Apps -> States]
      BY <3>1 DEF WorldSpace
    <3> QED BY <3>2, <3>3 DEF Named
  <2>3. CASE pc[r] \notin {"appList", "appCreate"}
    <3>1. pc[r] \in PastChoice /\ app' = app
      BY <1>4, <2>3 DEF TypeOK, Step, Group, GroupCreate, RoleList, RoleCreate, RoleCheck, AppList,
         AppCreate, AppShow, SpList, SpCreate, SpShow, CredentialList, CredentialCreate,
         CredentialCheck, VaultList, VaultCreate, VaultShow, KeyList, KeyCreate, KeyShow,
         GrantList, GrantCreate, GrantCheck, Reads, Creates, Goes, world
    <3>2. azure'.apps = azure.apps
      BY <1>1, <2>3 DEF Effect
    <3> QED BY <3>1, <3>2 DEF OnlyOne, Named
  <2> QED BY <2>1, <2>2, <2>3
<1> QED BY <1>2, <1>3, <1>4 DEF OnlyOne

\* A run that is under way makes a call; the past of a check is made of calls.
LEMMA PastCalls ==
    /\ PastKey \subseteq PastVault /\ PastVault \subseteq PastCredential
    /\ PastCredential \subseteq PastSp /\ PastSp \subseteq PastApp
    /\ PastApp \subseteq PastChoice /\ PastChoice \subseteq PastRole
    /\ PastRole \subseteq PastGroup /\ PastGroup \subseteq Calls
BY DEF PastGroup, PastRole, PastChoice, PastApp, PastSp, PastCredential, PastVault,
       PastKey, Calls

LEMMA StepChecked ==
    ASSUME TypeOK, TypeOK', CheckedInv, NEW q \in Runs, Step(q)
    PROVE  CheckedInv'
<1>1. Effect(q)
  BY StepEffect
<1>2. ASSUME NEW r \in Runs, undisturbed'[r]
      PROVE  Holds(pc'[r], app'[r], azure') /\ ((Active(r) /\ alone[r]) => OnlyOne(r))'
  <2>1. undisturbed[r] /\ alone'[r] = alone[r] /\ Checked(r)
    BY <1>1, <1>2 DEF Effect, history, CheckedInv
  <2>2. CASE r = q
    <3>1. Active(r)
      BY <1>1, <2>2 DEF Effect, Active
    <3>2. Holds(pc'[r], app'[r], azure')
      BY <2>1, <2>2, StepHolds DEF Checked
    <3>3. alone[r] => OnlyOne(r)'
      BY <2>1, <2>2, <3>1, StepOnlyOne DEF Checked
    <3> QED BY <2>1, <3>2, <3>3
  <2>3. CASE r # q
    <3>1. pc'[r] = pc[r] /\ app'[r] = app[r] /\ pc[q] \in Calls
      BY <1>1, <2>3 DEF Effect, TypeOK
    <3>2. ~(Active(r) /\ alone[r])
      BY <2>1, <2>3, <3>1 DEF Checked, OnlyOne, Active
    <3>3. pc[r] \in PastApp => app[r] \in Apps
      BY DEF TypeOK, Unchosen, Ended, Named, PastApp, PastSp, PastCredential, PastVault,
             PastKey
    <3>4. Holds(pc[r], app[r], azure')
      BY <1>1, <2>1, <3>3, HoldsGrows DEF Effect, Checked
    <3> QED BY <2>1, <3>1, <3>2, <3>4 DEF Active
  <2> QED BY <2>2, <2>3
<1> QED BY <1>2 DEF CheckedInv, Checked

LEMMA OthersChecked ==
    ASSUME TypeOK, CheckedInv,
           Tamper \/ \E q \in Runs : Start(q) \/ CallFails(q)
    PROVE  CheckedInv'
<1>1. CASE Tamper
  <2>1. ASSUME NEW r \in Runs
        PROVE  Checked(r)'
    <3>1. pc' = pc /\ (undisturbed'[r] => pc[r] \notin Calls)
      BY <1>1 DEF Tamper, run, Active
    <3> QED BY <3>1, PastCalls DEF Checked, Holds, Active
  <2> QED BY <2>1 DEF CheckedInv
<1>2. ASSUME NEW q \in Runs, Start(q), NEW r \in Runs
      PROVE  Checked(r)'
  <2>1. azure' = azure
    BY <1>2 DEF Start, world
  <2>2. CASE r = q
    <3>1. pc'[r] = "group" /\ (alone'[r] => \A p \in Runs \ {r} : ~Active(p)')
      BY <1>2, <2>2 DEF Start, TypeOK, Active
    <3> QED BY <3>1 DEF Checked, Holds, OnlyOne, PastGroup, PastRole, PastChoice, PastApp,
                PastSp, PastCredential, PastVault, PastKey
  <2>3. CASE r # q
    <3>1. pc'[r] = pc[r] /\ app'[r] = app[r] /\ undisturbed'[r] = undisturbed[r]
          /\ (alone'[r] => ~Active(r))
      BY <1>2, <2>3 DEF Start, TypeOK
    <3> QED BY <2>1, <3>1 DEF CheckedInv, Checked, Active
  <2> QED BY <2>2, <2>3
<1>3. ASSUME NEW q \in Runs, CallFails(q), NEW r \in Runs
      PROVE  Checked(r)'
  <2>1. azure' = azure /\ undisturbed' = undisturbed /\ alone' = alone
    BY <1>3 DEF CallFails, world, history
  <2>2. CASE r = q
    <3>1. pc'[r] = "failed"
      BY <1>3, <2>2 DEF CallFails, TypeOK
    <3>2. "failed" \notin Calls
      BY DEF Calls
    <3> QED BY <3>1, <3>2, PastCalls DEF Checked, Holds, Active
  <2>3. CASE r # q
    <3>1. pc'[r] = pc[r] /\ app'[r] = app[r]
      BY <1>3, <2>3 DEF CallFails, TypeOK
    <3>2. Active(r) /\ alone[r] /\ undisturbed[r] => FALSE
      BY <1>3, <2>3 DEF CallFails, CheckedInv, Checked, OnlyOne
    <3> QED BY <2>1, <3>1, <3>2 DEF CheckedInv, Checked, Active
  <2> QED BY <2>2, <2>3
<1> QED BY <1>1, <1>2, <1>3 DEF CheckedInv

\* What a run has checked stays so until somebody outside the script acts.
THEOREM ChecksLast == Spec => []CheckedInv
<1>1. Init => CheckedInv
  <2> SUFFICES ASSUME Init PROVE CheckedInv
    OBVIOUS
  <2>1. \A r \in Runs : pc[r] = "idle"
    BY DEF Init
  <2>2. "idle" \notin Calls
    BY DEF Calls
  <2> QED BY <2>1, <2>2, PastCalls DEF CheckedInv, Checked, Holds, Active
<1>2. TypeOK /\ TypeOK' /\ CheckedInv /\ [Next]_vars => CheckedInv'
  <2> SUFFICES ASSUME TypeOK, TypeOK', CheckedInv, [Next]_vars PROVE CheckedInv'
    OBVIOUS
  <2>1. CASE UNCHANGED vars
    BY <2>1 DEF vars, world, run, history, CheckedInv, Checked, Active, OnlyOne, Named
  <2> QED BY <2>1, StepChecked, OthersChecked DEF Next
<1> QED BY <1>1, <1>2, TypeCorrect, PTL DEF Spec

LEMMA DoneIsStrict ==
    ASSUME TypeOK, CheckedInv, Next, NEW r \in Runs,
           pc[r] # "done", pc'[r] = "done", undisturbed[r]
    PROVE  Strict(azure, app[r]) /\ (alone[r] => Named = {app[r]})
<1>1. Step(r)
  <2>1. ~Tamper
    BY DEF Tamper, run
  <2>2. ASSUME NEW q \in Runs, Start(q) \/ CallFails(q)
        PROVE  FALSE
    BY <2>2 DEF Start, CallFails, TypeOK
  <2>3. ASSUME NEW q \in Runs \ {r}, Step(q)
        PROVE  FALSE
    BY <2>3, StepEffect DEF Effect, TypeOK
  <2> QED BY <2>1, <2>2, <2>3 DEF Next
<1>2. pc[r] = "grantCheck" /\ SignerOnly(azure.grants[app[r]])
  BY <1>1 DEF TypeOK, Step, Group, GroupCreate, RoleList, RoleCreate, RoleCheck, AppList,
         AppCreate, AppShow, SpList, SpCreate, SpShow, CredentialList, CredentialCreate,
         CredentialCheck, VaultList, VaultCreate, VaultShow, KeyList, KeyCreate, KeyShow,
         GrantList, GrantCreate, GrantCheck, Reads, Creates, Goes, world
<1>3. pc[r] \in PastKey /\ Active(r)
  BY <1>2 DEF PastKey, Active, Calls
<1>4. Holds(pc[r], app[r], azure) /\ (alone[r] => OnlyOne(r))
  BY <1>3 DEF CheckedInv, Checked
<1> QED BY <1>2, <1>3, <1>4, PastCalls DEF Strict, Holds, OnlyOne

\* A run completes only in a strict installation: Spec => CompletedIsStrict.
THEOREM CompletedStrictly == Spec => CompletedIsStrict
<1>1. TypeOK /\ CheckedInv /\ [Next]_vars =>
        [\A r \in Runs :
           pc[r] # "done" /\ pc'[r] = "done" /\ undisturbed[r] =>
              /\ Strict(azure, app[r])
              /\ alone[r] => Named = {app[r]}]_vars
  BY DoneIsStrict
<1> QED BY <1>1, TypeCorrect, ChecksLast, PTL DEF Spec, CompletedIsStrict

----------------------------------------------------------------------------
(* Runs that follow one another finish what the one before left *)

\* What a run that nobody interferes with has seen or made before its next call.
Seen(at, a, w) ==
    /\ at = "roleCheck" => w.role # "absent"
    /\ at = "spShow" => w.sps[a] # "absent"
    /\ at = "credentialCheck" => w.credentials[a] # {}
    /\ at = "vaultShow" => w.vault # "absent"
    /\ at = "keyCreate" => w.key = "absent"
    /\ at = "keyShow" => w.key # "absent"
    /\ at = "grantCheck" => w.grants[a] # {}

Orderly ==
    ~flawed /\ ~overlapped =>
       /\ Sound(azure)
       /\ \A q, r \in Runs : Active(q) /\ Active(r) => q = r
       /\ \A r \in Runs : /\ undisturbed[r] /\ alone[r]
                          /\ pc[r] # "refused"
                          /\ Seen(pc[r], app[r], azure)

\* An orderly run leaves nothing but what it would accept.
LEMMA StepSound ==
    ASSUME TypeOK, NEW r \in Runs, Step(r), Sound(azure), OnlyOne(r),
           Seen(pc[r], app[r], azure)
    PROVE  Sound(azure')
<1> azure \in WorldSpace /\ pc \in [Runs -> Calls \cup Ended]
  BY DEF TypeOK
<1>1. CASE pc[r] \in {"groupCreate", "roleCreate", "vaultCreate"}
  <2>1. azure' \in {[azure EXCEPT !.group = TRUE], [azure EXCEPT !.role = "exact"],
                    [azure EXCEPT !.vault = "exact"]}
    BY <1>1 DEF Step, Group, GroupCreate, RoleList, RoleCreate, RoleCheck, AppList,
         AppCreate, AppShow, SpList, SpCreate, SpShow, CredentialList, CredentialCreate,
         CredentialCheck, VaultList, VaultCreate, VaultShow, KeyList, KeyCreate, KeyShow,
         GrantList, GrantCreate, GrantCheck, Reads, Creates, Goes, world
  <2>2. CASE azure' = [azure EXCEPT !.group = TRUE]
    BY <2>2 DEF Sound, WorldSpace
  <2>3. CASE azure' = [azure EXCEPT !.role = "exact"]
    BY <2>3 DEF Sound, WorldSpace
  <2>4. CASE azure' = [azure EXCEPT !.vault = "exact"]
    BY <2>4 DEF Sound, WorldSpace
  <2> QED BY <2>1, <2>2, <2>3, <2>4
<1>2. CASE pc[r] = "keyCreate"
  <2>1. azure' = [azure EXCEPT !.key = "exact", !.version = @ + 1]
    BY <1>2 DEF Step, Group, GroupCreate, RoleList, RoleCreate, RoleCheck, AppList,
         AppCreate, AppShow, SpList, SpCreate, SpShow, CredentialList, CredentialCreate,
         CredentialCheck, VaultList, VaultCreate, VaultShow, KeyList, KeyCreate, KeyShow,
         GrantList, GrantCreate, GrantCheck, Reads, Creates, Goes, world
  <2>2. azure.version = 0
    BY <1>2 DEF Seen, TypeOK, KeyHasVersions
  <2> QED BY <2>1, <2>2 DEF Sound, WorldSpace
<1>3. CASE pc[r] = "appCreate"
  <2>1. PICK a \in Apps : azure' = [azure EXCEPT !.apps[a] = "exact"]
    BY <1>3 DEF Step, Group, GroupCreate, RoleList, RoleCreate, RoleCheck, AppList,
         AppCreate, AppShow, SpList, SpCreate, SpShow, CredentialList, CredentialCreate,
         CredentialCheck, VaultList, VaultCreate, VaultShow, KeyList, KeyCreate, KeyShow,
         GrantList, GrantCreate, GrantCheck, Reads, Creates, Goes, world
  <2>2. \A b \in Apps : azure.apps[b] = "absent"
    BY <1>3 DEF OnlyOne, Named
  <2> QED BY <2>1, <2>2 DEF Sound, WorldSpace
<1>4. CASE pc[r] \in {"spCreate", "credentialCreate", "grantCreate"}
  <2> DEFINE a == app[r]
  <2>1. a \in Apps
    BY <1>4 DEF TypeOK, Unchosen, Ended, Named
  <2>2. azure' \in {[azure EXCEPT !.sps[a] = "exact"],
                    [azure EXCEPT !.credentials[a] = @ \cup {"exact"}],
                    [azure EXCEPT !.grants[a] = @ \cup {"vault"}]}
    BY <1>4 DEF Step, Group, GroupCreate, RoleList, RoleCreate, RoleCheck, AppList,
         AppCreate, AppShow, SpList, SpCreate, SpShow, CredentialList, CredentialCreate,
         CredentialCheck, VaultList, VaultCreate, VaultShow, KeyList, KeyCreate, KeyShow,
         GrantList, GrantCreate, GrantCheck, Reads, Creates, Goes, world
  <2> HIDE DEF a
  <2>3. CASE azure' = [azure EXCEPT !.sps[a] = "exact"]
    BY <2>1, <2>3 DEF Sound, WorldSpace
  <2>4. CASE azure' = [azure EXCEPT !.credentials[a] = @ \cup {"exact"}]
    BY <2>1, <2>4 DEF Sound, WorldSpace
  <2>5. CASE azure' = [azure EXCEPT !.grants[a] = @ \cup {"vault"}]
    BY <2>1, <2>5 DEF Sound, WorldSpace
  <2> QED BY <2>2, <2>3, <2>4, <2>5
<1>5. CASE pc[r] \notin {"groupCreate", "roleCreate", "vaultCreate", "keyCreate",
                         "appCreate", "spCreate", "credentialCreate", "grantCreate"}
  <2>1. azure' = azure
    BY <1>5 DEF Step, Group, GroupCreate, RoleList, RoleCreate, RoleCheck, AppList,
         AppCreate, AppShow, SpList, SpCreate, SpShow, CredentialList, CredentialCreate,
         CredentialCheck, VaultList, VaultCreate, VaultShow, KeyList, KeyCreate, KeyShow,
         GrantList, GrantCreate, GrantCheck, Reads, Creates, Goes, world
  <2> QED BY <2>1
<1> QED BY <1>1, <1>2, <1>3, <1>4, <1>5

LEMMA StepSeen ==
    ASSUME TypeOK, NEW r \in Runs, Step(r)
    PROVE  Seen(pc'[r], app'[r], azure')
<1> azure \in WorldSpace /\ pc \in [Runs -> Calls \cup Ended]
  BY DEF TypeOK
<1>0. app[r] \in Apps \/ pc[r] \in Unchosen
  BY DEF TypeOK, Named
<1>1. pc'[r] = "roleCheck" => azure'.role # "absent"
  BY DEF WorldSpace, Step, Group, GroupCreate, RoleList, RoleCreate, RoleCheck, AppList,
         AppCreate, AppShow, SpList, SpCreate, SpShow, CredentialList, CredentialCreate,
         CredentialCheck, VaultList, VaultCreate, VaultShow, KeyList, KeyCreate, KeyShow,
         GrantList, GrantCreate, GrantCheck, Reads, Creates, Goes, world
<1>2. pc'[r] = "spShow" => azure'.sps[app'[r]] # "absent"
  BY <1>0 DEF Unchosen, Ended, WorldSpace, Step, Group, GroupCreate, RoleList, RoleCreate, RoleCheck, AppList,
         AppCreate, AppShow, SpList, SpCreate, SpShow, CredentialList, CredentialCreate,
         CredentialCheck, VaultList, VaultCreate, VaultShow, KeyList, KeyCreate, KeyShow,
         GrantList, GrantCreate, GrantCheck, Reads, Creates, Goes, world
<1>3. ASSUME pc'[r] = "credentialCheck"
      PROVE  azure'.credentials[app'[r]] # {}
  <2>1. app' = app /\ app[r] \in Apps
    BY <1>0, <1>3 DEF Unchosen, Ended, Step, Group, GroupCreate, RoleList, RoleCreate, RoleCheck, AppList,
         AppCreate, AppShow, SpList, SpCreate, SpShow, CredentialList, CredentialCreate,
         CredentialCheck, VaultList, VaultCreate, VaultShow, KeyList, KeyCreate, KeyShow,
         GrantList, GrantCreate, GrantCheck, Reads, Creates, Goes, world
  <2>2. \/ azure' = azure /\ azure.credentials[app[r]] = {"exact"}
        \/ azure' = [azure EXCEPT !.credentials[app[r]] = @ \cup {"exact"}]
    BY <1>3 DEF Federated, Step, Group, GroupCreate, RoleList, RoleCreate, RoleCheck, AppList,
         AppCreate, AppShow, SpList, SpCreate, SpShow, CredentialList, CredentialCreate,
         CredentialCheck, VaultList, VaultCreate, VaultShow, KeyList, KeyCreate, KeyShow,
         GrantList, GrantCreate, GrantCheck, Reads, Creates, Goes, world
  <2>3. "exact" \in azure'.credentials[app[r]]
    BY <2>1, <2>2 DEF WorldSpace
  <2> QED BY <2>1, <2>3
<1>4. pc'[r] = "vaultShow" => azure'.vault # "absent"
  BY DEF WorldSpace, Step, Group, GroupCreate, RoleList, RoleCreate, RoleCheck, AppList,
         AppCreate, AppShow, SpList, SpCreate, SpShow, CredentialList, CredentialCreate,
         CredentialCheck, VaultList, VaultCreate, VaultShow, KeyList, KeyCreate, KeyShow,
         GrantList, GrantCreate, GrantCheck, Reads, Creates, Goes, world
<1>5. pc'[r] = "keyCreate" => azure'.key = "absent"
  BY DEF Step, Group, GroupCreate, RoleList, RoleCreate, RoleCheck, AppList,
         AppCreate, AppShow, SpList, SpCreate, SpShow, CredentialList, CredentialCreate,
         CredentialCheck, VaultList, VaultCreate, VaultShow, KeyList, KeyCreate, KeyShow,
         GrantList, GrantCreate, GrantCheck, Reads, Creates, Goes, world
<1>6. pc'[r] = "keyShow" => azure'.key # "absent"
  BY DEF WorldSpace, Step, Group, GroupCreate, RoleList, RoleCreate, RoleCheck, AppList,
         AppCreate, AppShow, SpList, SpCreate, SpShow, CredentialList, CredentialCreate,
         CredentialCheck, VaultList, VaultCreate, VaultShow, KeyList, KeyCreate, KeyShow,
         GrantList, GrantCreate, GrantCheck, Reads, Creates, Goes, world
<1>7. ASSUME pc'[r] = "grantCheck"
      PROVE  azure'.grants[app'[r]] # {}
  <2>1. app' = app /\ app[r] \in Apps
    BY <1>0, <1>7 DEF Unchosen, Ended, Step, Group, GroupCreate, RoleList, RoleCreate, RoleCheck, AppList,
         AppCreate, AppShow, SpList, SpCreate, SpShow, CredentialList, CredentialCreate,
         CredentialCheck, VaultList, VaultCreate, VaultShow, KeyList, KeyCreate, KeyShow,
         GrantList, GrantCreate, GrantCheck, Reads, Creates, Goes, world
  <2>2. \/ azure' = azure /\ azure.grants[app[r]] \in {{"vault"}, {"group"}}
        \/ azure' = [azure EXCEPT !.grants[app[r]] = @ \cup {"vault"}]
    BY <1>7 DEF SignerOnly, Step, Group, GroupCreate, RoleList, RoleCreate, RoleCheck, AppList,
         AppCreate, AppShow, SpList, SpCreate, SpShow, CredentialList, CredentialCreate,
         CredentialCheck, VaultList, VaultCreate, VaultShow, KeyList, KeyCreate, KeyShow,
         GrantList, GrantCreate, GrantCheck, Reads, Creates, Goes, world
  <2>3. \E g \in Grants : g \in azure'.grants[app[r]]
    BY <2>1, <2>2 DEF WorldSpace, Grants
  <2> QED BY <2>1, <2>3
<1> QED BY <1>1, <1>2, <1>3, <1>4, <1>5, <1>6, <1>7 DEF Seen

\* An orderly run finds nothing to refuse.
LEMMA StepNotRefused ==
    ASSUME TypeOK, NEW r \in Runs, Step(r), Sound(azure), Seen(pc[r], app[r], azure)
    PROVE  pc'[r] # "refused"
<1> azure \in WorldSpace /\ pc \in [Runs -> Calls \cup Ended]
  BY DEF TypeOK
<1> DEFINE a == app[r]
<1>1. pc[r] \notin Unchosen =>
        /\ azure.apps[a] = "exact" /\ azure.sps[a] \in {"absent", "exact"}
        /\ azure.credentials[a] \in {{}, {"exact"}} /\ azure.grants[a] \in {{}, {"vault"}}
  BY DEF TypeOK, Sound, Named
<1>2. ~ \E b, c \in Named : b # c
  BY DEF Sound, Named
<1>3. CASE pc[r] \in Unchosen
  BY <1>2, <1>3 DEF Unchosen, Ended, Sound, Seen, Step, Group, GroupCreate, RoleList, RoleCreate, RoleCheck, AppList,
         AppCreate, AppShow, SpList, SpCreate, SpShow, CredentialList, CredentialCreate,
         CredentialCheck, VaultList, VaultCreate, VaultShow, KeyList, KeyCreate, KeyShow,
         GrantList, GrantCreate, GrantCheck, Reads, Creates, Goes, world
<1>4. CASE pc[r] \notin Unchosen
  <2> HIDE DEF a
  <2>1. pc[r] \in {"vaultShow", "keyShow"} => pc'[r] # "refused"
    BY DEF Sound, Seen, Step, Group, GroupCreate, RoleList, RoleCreate, RoleCheck, AppList,
         AppCreate, AppShow, SpList, SpCreate, SpShow, CredentialList, CredentialCreate,
         CredentialCheck, VaultList, VaultCreate, VaultShow, KeyList, KeyCreate, KeyShow,
         GrantList, GrantCreate, GrantCheck, Reads, Creates, Goes, world
  <2>2. pc[r] \notin {"vaultShow", "keyShow"} => pc'[r] # "refused"
    BY <1>1, <1>4 DEF a, Unchosen, Ended, Seen, Federated, SignerOnly, Step, Group, GroupCreate, RoleList, RoleCreate, RoleCheck, AppList,
         AppCreate, AppShow, SpList, SpCreate, SpShow, CredentialList, CredentialCreate,
         CredentialCheck, VaultList, VaultCreate, VaultShow, KeyList, KeyCreate, KeyShow,
         GrantList, GrantCreate, GrantCheck, Reads, Creates, Goes, world
  <2> QED BY <2>1, <2>2
<1> QED BY <1>3, <1>4

LEMMA StepOrderly ==
    ASSUME TypeOK, CheckedInv, Orderly, NEW r \in Runs, Step(r)
    PROVE  Orderly'
<1> SUFFICES ASSUME ~flawed, ~overlapped
             PROVE  Orderly'
  BY StepEffect DEF Effect, history, Orderly
<1>1. Effect(r) /\ Active(r)
  BY StepEffect DEF Effect, Active
<1>2. OnlyOne(r) /\ Sound(azure) /\ Seen(pc[r], app[r], azure)
  BY <1>1 DEF Orderly, CheckedInv, Checked
<1>3. Sound(azure') /\ Seen(pc'[r], app'[r], azure') /\ pc'[r] # "refused"
  BY <1>2, StepSound, StepSeen, StepNotRefused
<1>4. ASSUME NEW q \in Runs \ {r}
      PROVE  pc'[q] = pc[q] /\ pc[q] \notin Calls /\ pc[q] # "refused"
  BY <1>1, <1>2 DEF Effect, OnlyOne, Active, TypeOK, Orderly
<1>5. \A q \in Runs \ {r} : Seen(pc'[q], app'[q], azure')
  BY <1>4 DEF Seen, Calls
<1> QED BY <1>1, <1>3, <1>4, <1>5 DEF Orderly, Effect, history, Active

LEMMA OthersOrderly ==
    ASSUME TypeOK, Orderly, Tamper \/ \E q \in Runs : Start(q) \/ CallFails(q)
    PROVE  Orderly'
<1>1. CASE Tamper
  BY <1>1 DEF Tamper, Orderly
<1>2. ASSUME NEW q \in Runs, Start(q)
      PROVE  Orderly'
  <2> SUFFICES ASSUME ~flawed, ~overlapped, \A p \in Runs \ {q} : ~Active(p)
               PROVE  Orderly'
    BY <1>2 DEF Start, world, Orderly
  <2>1. azure' = azure /\ Sound(azure)
    BY <1>2 DEF Start, world, Orderly
  <2>2. ASSUME NEW r \in Runs
        PROVE  /\ pc'[r] = (IF r = q THEN "group" ELSE pc[r])
               /\ undisturbed'[r] /\ alone'[r]
    BY <1>2 DEF Start, TypeOK, Orderly
  <2>3. ASSUME NEW r \in Runs
        PROVE  pc'[r] # "refused" /\ Seen(pc'[r], app'[r], azure')
    BY <2>1, <2>2 DEF Orderly, Seen, Active, Calls
  <2>4. \A p, r \in Runs : Active(p)' /\ Active(r)' => p = r
    BY <2>2 DEF Active
  <2> QED BY <2>1, <2>2, <2>3, <2>4 DEF Orderly
<1>3. ASSUME NEW q \in Runs, CallFails(q)
      PROVE  Orderly'
  <2>1. /\ azure' = azure /\ flawed' = flawed /\ overlapped' = overlapped
        /\ undisturbed' = undisturbed /\ alone' = alone
    BY <1>3 DEF CallFails, world, history
  <2>2. ASSUME NEW r \in Runs
        PROVE  /\ pc'[r] = (IF r = q THEN "failed" ELSE pc[r])
               /\ r # q => app'[r] = app[r]
    BY <1>3 DEF CallFails, TypeOK
  <2>3. "failed" \notin Calls
    BY DEF Calls
  <2>4. ASSUME NEW r \in Runs, ~flawed, ~overlapped
        PROVE  pc'[r] # "refused" /\ Seen(pc'[r], app'[r], azure')
    BY <2>1, <2>2, <2>4 DEF Orderly, Seen
  <2> QED BY <2>1, <2>2, <2>3, <2>4 DEF Orderly, Active
<1> QED BY <1>1, <1>2, <1>3

\* While runs follow one another and nothing else interferes, none is refused and
\* nothing is made twice: Spec => []PartialIsFinished.
THEOREM PartialFinished == Spec => []PartialIsFinished
<1>1. Init => Orderly
  <2> SUFFICES ASSUME Init, ~flawed PROVE Orderly
    BY DEF Orderly
  <2>1. "idle" \notin Calls
    BY DEF Calls
  <2> QED BY <2>1 DEF Init, Orderly, Active, Seen
<1>2. TypeOK /\ CheckedInv /\ Orderly /\ [Next]_vars => Orderly'
  <2> SUFFICES ASSUME TypeOK, CheckedInv, Orderly, [Next]_vars PROVE Orderly'
    OBVIOUS
  <2>1. CASE UNCHANGED vars
    BY <2>1 DEF vars, world, run, history, Orderly, Active
  <2> QED BY <2>1, StepOrderly, OthersOrderly DEF Next
<1>3. Orderly => PartialIsFinished
  BY DEF Orderly, PartialIsFinished
<1> QED BY <1>1, <1>2, <1>3, TypeCorrect, ChecksLast, PTL DEF Spec
----------------------------------------------------------------------------
(* Nothing is rewritten *)

\* World w is v with something added.
Adds(v, w) ==
    /\ Keeps(v.role, w.role) /\ Keeps(v.vault, w.vault)
    /\ \A a \in Apps :
         /\ Keeps(v.apps[a], w.apps[a]) /\ Keeps(v.sps[a], w.sps[a])
         /\ v.credentials[a] \subseteq w.credentials[a]
         /\ v.grants[a] \subseteq w.grants[a]

\* A run only adds, and only keyCreate makes a version.
LEMMA StepAdds ==
    ASSUME TypeOK, NEW r \in Runs, Step(r)
    PROVE  /\ Adds(azure, azure')
           /\ azure'.version # azure.version => pc[r] = "keyCreate"
<1> azure \in WorldSpace
  BY DEF TypeOK
<1> USE DEF Adds, Keeps
<1>1. CASE pc[r] \in {"groupCreate", "roleCreate", "vaultCreate", "keyCreate"}
  <2>1. \/ azure' = [azure EXCEPT !.group = TRUE]
        \/ azure' = [azure EXCEPT !.role = "exact"] /\ azure.role = "absent"
        \/ azure' = [azure EXCEPT !.vault = "exact"] /\ azure.vault = "absent"
        \/ azure' = [azure EXCEPT !.key = "exact", !.version = @ + 1] /\ pc[r] = "keyCreate"
    BY <1>1 DEF Step, Group, GroupCreate, RoleList, RoleCreate, RoleCheck, AppList,
         AppCreate, AppShow, SpList, SpCreate, SpShow, CredentialList, CredentialCreate,
         CredentialCheck, VaultList, VaultCreate, VaultShow, KeyList, KeyCreate, KeyShow,
         GrantList, GrantCreate, GrantCheck, Reads, Creates, Goes, world
  <2>2. CASE azure' = [azure EXCEPT !.group = TRUE]
    BY <2>2 DEF WorldSpace
  <2>3. CASE azure' = [azure EXCEPT !.role = "exact"] /\ azure.role = "absent"
    BY <2>3 DEF WorldSpace
  <2>4. CASE azure' = [azure EXCEPT !.vault = "exact"] /\ azure.vault = "absent"
    BY <2>4 DEF WorldSpace
  <2>5. CASE azure' = [azure EXCEPT !.key = "exact", !.version = @ + 1] /\ pc[r] = "keyCreate"
    BY <2>5 DEF WorldSpace
  <2> QED BY <2>1, <2>2, <2>3, <2>4, <2>5
<1>2. CASE pc[r] = "appCreate"
  <2>1. PICK a \in Apps \ Named : azure' = [azure EXCEPT !.apps[a] = "exact"]
    BY <1>2 DEF Step, Group, GroupCreate, RoleList, RoleCreate, RoleCheck, AppList,
         AppCreate, AppShow, SpList, SpCreate, SpShow, CredentialList, CredentialCreate,
         CredentialCheck, VaultList, VaultCreate, VaultShow, KeyList, KeyCreate, KeyShow,
         GrantList, GrantCreate, GrantCheck, Reads, Creates, Goes, world
  <2> QED BY <2>1 DEF Named, WorldSpace
<1>3. CASE pc[r] \in {"spCreate", "credentialCreate", "grantCreate"}
  <2> DEFINE a == app[r]
  <2>1. a \in Apps
    BY <1>3 DEF TypeOK, Unchosen, Ended, Named
  <2>2. \/ azure' = [azure EXCEPT !.sps[a] = "exact"] /\ azure.sps[a] = "absent"
        \/ azure' = [azure EXCEPT !.credentials[a] = @ \cup {"exact"}]
        \/ azure' = [azure EXCEPT !.grants[a] = @ \cup {"vault"}]
    BY <1>3 DEF Step, Group, GroupCreate, RoleList, RoleCreate, RoleCheck, AppList,
         AppCreate, AppShow, SpList, SpCreate, SpShow, CredentialList, CredentialCreate,
         CredentialCheck, VaultList, VaultCreate, VaultShow, KeyList, KeyCreate, KeyShow,
         GrantList, GrantCreate, GrantCheck, Reads, Creates, Goes, world
  <2> HIDE DEF a
  <2>3. CASE azure' = [azure EXCEPT !.sps[a] = "exact"] /\ azure.sps[a] = "absent"
    BY <2>1, <2>3 DEF WorldSpace
  <2>4. CASE azure' = [azure EXCEPT !.credentials[a] = @ \cup {"exact"}]
    BY <2>1, <2>4 DEF WorldSpace
  <2>5. CASE azure' = [azure EXCEPT !.grants[a] = @ \cup {"vault"}]
    BY <2>1, <2>5 DEF WorldSpace
  <2> QED BY <2>2, <2>3, <2>4, <2>5
<1>4. CASE pc[r] \notin {"groupCreate", "roleCreate", "vaultCreate", "keyCreate",
                         "appCreate", "spCreate", "credentialCreate", "grantCreate"}
  <2>1. azure' = azure
    BY <1>4 DEF Step, Group, GroupCreate, RoleList, RoleCreate, RoleCheck, AppList,
         AppCreate, AppShow, SpList, SpCreate, SpShow, CredentialList, CredentialCreate,
         CredentialCheck, VaultList, VaultCreate, VaultShow, KeyList, KeyCreate, KeyShow,
         GrantList, GrantCreate, GrantCheck, Reads, Creates, Goes, world
  <2> QED BY <2>1
<1> QED BY <1>1, <1>2, <1>3, <1>4

\* A run that has Azure to itself creates the key only if there is none.
KeyUnmade ==
    \A r \in Runs : undisturbed[r] /\ alone[r] /\ pc[r] = "keyCreate" => azure.key = "absent"

LEMMA StepKeyUnmade ==
    ASSUME TypeOK, CheckedInv, KeyUnmade, [Next]_vars
    PROVE  KeyUnmade'
<1> SUFFICES ASSUME NEW r \in Runs, undisturbed'[r], alone'[r], pc'[r] = "keyCreate"
             PROVE  azure'.key = "absent"
  BY DEF KeyUnmade
<1>0. "keyCreate" \in Calls
  BY DEF Calls
<1>1. CASE UNCHANGED vars
  BY <1>1 DEF vars, world, run, history, KeyUnmade
<1>2. CASE Tamper
  BY <1>0, <1>2 DEF Tamper, run, Active
<1>3. ASSUME NEW q \in Runs, Start(q) \/ CallFails(q) PROVE azure'.key = "absent"
  <2>1. q # r /\ pc'[r] = pc[r] /\ undisturbed'[r] = undisturbed[r] /\ azure' = azure
    BY <1>3 DEF Start, CallFails, TypeOK, world, history
  <2>2. alone'[r] => alone[r]
    BY <1>3, <2>1 DEF Start, CallFails, TypeOK, history
  <2> QED BY <2>1, <2>2 DEF KeyUnmade
<1>4. ASSUME NEW q \in Runs, Step(q) PROVE azure'.key = "absent"
  <2>1. Effect(q) /\ UNCHANGED history
    BY <1>4, StepEffect DEF Effect
  <2>2. CASE q = r
    BY <1>4, <2>2, StepSeen DEF Seen
  <2>3. CASE q # r
    <3>1. pc[r] = "keyCreate" /\ pc[q] \in Calls /\ undisturbed[r] /\ alone[r]
      BY <2>1, <2>3 DEF Effect, TypeOK, history
    <3> QED BY <1>0, <2>3, <3>1 DEF CheckedInv, Checked, OnlyOne, Active
  <2> QED BY <2>2, <2>3
<1> QED BY <1>1, <1>2, <1>3, <1>4 DEF Next

\* The runs add what is absent and change nothing that is there, whoever made it and
\* however many of them there are; a second key version takes a second maker.
THEOREM AddsOnly == Spec => OnlyAdds
<1>1. Init => KeyUnmade
  BY DEF Init, KeyUnmade
<1>2. ASSUME TypeOK, CheckedInv, KeyUnmade, [Next]_vars, flawed' = flawed
      PROVE  /\ Adds(azure, azure')
             /\ azure'.version # azure.version /\ azure.key # "absent" =>
                  \E r \in Runs : pc[r] = "keyCreate" /\ ~(alone[r] /\ undisturbed[r])
  <2>1. ASSUME NEW r \in Runs, Step(r)
        PROVE  /\ Adds(azure, azure')
               /\ azure'.version # azure.version /\ azure.key # "absent" =>
                    pc[r] = "keyCreate" /\ ~(alone[r] /\ undisturbed[r])
    BY <1>2, <2>1, StepAdds DEF KeyUnmade
  <2>2. CASE azure' = azure
    BY <2>2 DEF Adds, Keeps
  <2>3. ~Tamper
    BY <1>2 DEF Tamper
  <2> QED BY <1>2, <2>1, <2>2, <2>3 DEF Next, Start, CallFails, vars, world
<1>3. TypeOK /\ CheckedInv /\ KeyUnmade /\ [Next]_vars =>
        [flawed' = flawed =>
         /\ Keeps(azure.role, azure'.role) /\ Keeps(azure.vault, azure'.vault)
         /\ azure'.version # azure.version /\ azure.key # "absent" =>
              \E r \in Runs : pc[r] = "keyCreate" /\ ~(alone[r] /\ undisturbed[r])
         /\ \A a \in Apps :
              /\ Keeps(azure.apps[a], azure'.apps[a]) /\ Keeps(azure.sps[a], azure'.sps[a])
              /\ azure.credentials[a] \subseteq azure'.credentials[a]
              /\ azure.grants[a] \subseteq azure'.grants[a]]_vars
  BY <1>2 DEF Adds
<1>4. TypeOK /\ CheckedInv /\ KeyUnmade /\ [Next]_vars => KeyUnmade'
  BY StepKeyUnmade
<1> QED BY <1>1, <1>3, <1>4, TypeCorrect, ChecksLast, PTL DEF Spec, OnlyAdds
=============================================================================
