--------------------------- MODULE AzureBootstrap ---------------------------
(***************************************************************************)
(* src/scripts/azure/bootstrap-sentinel-oidc.ps1 -Apply: runs of the       *)
(* script, repeated after a failure and possibly at the same time, against *)
(* the Azure and Entra resources it looks up, creates and checks.          *)
(*                                                                         *)
(* pc is the az call a run makes next; one step is that call and the       *)
(* script's judgement of its answer.  Between a list and the create that   *)
(* follows it, others may act.  Calls that only read what the next one     *)
(* reads again are part of that next one.                                  *)
(***************************************************************************)
EXTENDS Naturals, FiniteSets

CONSTANTS Runs,     \* invocations of the script, each of which may be repeated
          Apps,     \* application objects Entra may hold under the display name
          NoApp,
          Worlds    \* what the runs may find to begin with

\* A resource is absent, exactly as the script would create it, or otherwise.
States == {"absent", "exact", "other"}

\* Federated credentials: of the frozen name with the frozen subject, issuer and
\* audience, of that name with others, of another name.
Credentials == {"exact", "wrong", "extra"}
\* Roles of the service principal that show at the vault: the signer role assigned
\* there, the signer role inherited from the resource group, any other role.
Grants == {"vault", "group", "foreign"}

WorldSpace ==
    [group : BOOLEAN, role : States \cup {"twice"},
     apps : [Apps -> States], sps : [Apps -> States],
     credentials : [Apps -> SUBSET Credentials],
     vault : States, key : States, version : Nat,
     grants : [Apps -> SUBSET Grants]]

\* A key has versions, the first of which its creation made.
KeyHasVersions(w) == w.key = "absent" <=> w.version = 0

ASSUME WorldsAssumption ==
    /\ Worlds \subseteq WorldSpace /\ NoApp \notin Apps
    /\ \A w \in Worlds : KeyHasVersions(w)

VARIABLES azure,       \* the resources, a member of WorldSpace
          pc,          \* per run: its next az call, or how it ended
          app,         \* per run: $app, the application it works on
          reported,    \* per run: the key version of its result
          undisturbed, \* per run: nobody else changed a resource while it was active
          alone,       \* per run: no other run has been active at the same time
          flawed,      \* something the script refuses was there, or was put there
          overlapped   \* two runs have been active at the same time

world == <<azure, flawed>>
run == <<pc, app, reported>>
history == <<undisturbed, alone, overlapped>>
vars == <<world, run, history>>

Ended == {"idle", "failed", "refused", "done"}
Calls == {"group", "groupCreate", "roleList", "roleCreate", "roleCheck",
          "appList", "appCreate", "appShow", "spList", "spCreate", "spShow",
          "credentialList", "credentialCreate", "credentialCheck",
          "vaultList", "vaultCreate", "vaultShow", "keyList", "keyCreate", "keyShow",
          "grantList", "grantCreate", "grantCheck"}
Active(r) == pc[r] \in Calls

Named == {a \in Apps : azure.apps[a] # "absent"}

----------------------------------------------------------------------------
(* What the script takes for a strict installation. *)

SignerOnly(g) == g \in {{"vault"}, {"group"}}

Strict(w, a) ==
    /\ w.group /\ w.role = "exact"
    /\ w.apps[a] = "exact" /\ w.sps[a] = "exact" /\ w.credentials[a] = {"exact"}
    /\ w.vault = "exact" /\ w.key = "exact"
    /\ SignerOnly(w.grants[a])

\* Nothing in the world is other than the script would make it.
Sound(w) ==
    /\ w.role \in {"absent", "exact"} /\ w.vault \in {"absent", "exact"}
    /\ w.key \in {"absent", "exact"} /\ w.version <= 1
    /\ \A a \in Apps : /\ {w.apps[a], w.sps[a]} \subseteq {"absent", "exact"}
                       /\ w.credentials[a] \subseteq {"exact"}
                       /\ w.grants[a] \subseteq {"vault"}
    /\ \A a, b \in Apps : w.apps[a] # "absent" /\ w.apps[b] # "absent" => a = b

Init == /\ azure \in Worlds
        /\ pc = [r \in Runs |-> "idle"]
        /\ app = [r \in Runs |-> NoApp]
        /\ reported = [r \in Runs |-> 0]
        /\ undisturbed = [r \in Runs |-> TRUE]
        /\ alone = [r \in Runs |-> TRUE]
        /\ flawed = ~Sound(azure) /\ overlapped = FALSE

----------------------------------------------------------------------------
(* A run *)

\* An operator starts the script, for the first time or again.
Start(r) ==
    /\ ~Active(r)
    /\ pc' = [pc EXCEPT ![r] = "group"]
    /\ app' = [app EXCEPT ![r] = NoApp]
    /\ reported' = [reported EXCEPT ![r] = 0]
    /\ undisturbed' = [undisturbed EXCEPT ![r] = TRUE]
    /\ LET others == {q \in Runs \ {r} : Active(q)} IN
       /\ alone' = [q \in Runs |-> IF q = r THEN others = {}
                                   ELSE alone[q] /\ ~Active(q)]
       /\ overlapped' = (overlapped \/ others # {})
    /\ UNCHANGED world

\* The call made at "at" is answered and the script goes on at "to".
Goes(r, at, to) == /\ pc[r] = at
                   /\ pc' = [pc EXCEPT ![r] = to]
                   /\ UNCHANGED history

Reads(r, at, to) == Goes(r, at, to) /\ UNCHANGED <<world, app, reported>>

\* A create takes effect where Azure allows it.  One that takes effect and reports
\* a failure is this step followed by CallFails.
Creates(r, at, to, allowed, made) ==
    /\ Goes(r, at, to) /\ allowed
    /\ azure' = made
    /\ UNCHANGED <<flawed, app, reported>>

\* az fails without an effect - an error, a refusal, a name that is taken - or the
\* script is interrupted; its variables are gone.
CallFails(r) == /\ Active(r)
                /\ pc' = [pc EXCEPT ![r] = "failed"]
                /\ app' = [app EXCEPT ![r] = NoApp]
                /\ reported' = [reported EXCEPT ![r] = 0]
                /\ UNCHANGED <<world, history>>

Group(r) == Reads(r, "group", IF azure.group THEN "roleList" ELSE "groupCreate")
GroupCreate(r) ==
    Creates(r, "groupCreate", "roleList", TRUE, [azure EXCEPT !.group = TRUE])

\* A bug: a role that is there already is refused.
Mut_RoleList(r) ==
    Reads(r, "roleList", IF azure.role = "absent" THEN "roleCreate" ELSE "refused")
RoleList(r) == Reads(r, "roleList", CASE azure.role = "absent" -> "roleCreate"
                                      [] azure.role = "twice" -> "refused"
                                      [] OTHER -> "roleCheck")
RoleCreate(r) == Creates(r, "roleCreate", "roleCheck", azure.role = "absent",
                         [azure EXCEPT !.role = "exact"])
\* A bug: the role found is taken without comparing its permissions.
Mut_RoleCheck(r) ==
    Reads(r, "roleCheck", IF azure.role # "twice" THEN "appList" ELSE "refused")
RoleCheck(r) ==
    Reads(r, "roleCheck", IF azure.role = "exact" THEN "appList" ELSE "refused")

\* More than one application of the name is ambiguous.
AppList(r) ==
    \/ Named = {} /\ Reads(r, "appList", "appCreate")
    \/ \E a \in Named :
          /\ Named = {a} /\ Goes(r, "appList", "appShow")
          /\ app' = [app EXCEPT ![r] = a]
          /\ UNCHANGED <<world, reported>>
    \/ /\ \E a, b \in Named : a # b
       /\ Reads(r, "appList", "refused")

\* Entra lets display names repeat: the create always makes a new application.
AppCreate(r) ==
    \E a \in Apps \ Named :
       /\ azure' = [azure EXCEPT !.apps[a] = "exact"]
       /\ Goes(r, "appCreate", "appShow") /\ app' = [app EXCEPT ![r] = a]
       /\ UNCHANGED <<flawed, reported>>

\* Exact name, single tenant, no passwords or certificates.
AppShow(r) ==
    Reads(r, "appShow", IF azure.apps[app[r]] = "exact" THEN "spList" ELSE "refused")

SpList(r) ==
    Reads(r, "spList", IF azure.sps[app[r]] = "absent" THEN "spCreate" ELSE "spShow")
SpCreate(r) == Creates(r, "spCreate", "spShow", azure.sps[app[r]] = "absent",
                       [azure EXCEPT !.sps[app[r]] = "exact"])
SpShow(r) == Reads(r, "spShow", IF azure.sps[app[r]] = "exact"
                                THEN "credentialList" ELSE "refused")

Federated(r) == azure.credentials[app[r]]
FrozenName == {"exact", "wrong"}

CredentialList(r) ==
    Reads(r, "credentialList",
          CASE Federated(r) = {} -> "credentialCreate"
            [] Federated(r) = {"exact"} -> "credentialCheck"
            [] OTHER -> "refused")
\* A bug: the credential is written whatever stands under its name by now.
Mut_CredentialCreate(r) ==
    Creates(r, "credentialCreate", "credentialCheck", TRUE,
            [azure EXCEPT !.credentials[app[r]] = {"exact"}])
CredentialCreate(r) ==
    Creates(r, "credentialCreate", "credentialCheck", Federated(r) \cap FrozenName = {},
            [azure EXCEPT !.credentials[app[r]] = @ \cup {"exact"}])
CredentialCheck(r) ==
    Reads(r, "credentialCheck", IF Federated(r) = {"exact"} THEN "vaultList" ELSE "refused")

\* A bug: the vault is created without looking for it first.
Mut_VaultList(r) == Reads(r, "vaultList", "vaultCreate")
VaultList(r) ==
    Reads(r, "vaultList", IF azure.vault = "absent" THEN "vaultCreate" ELSE "vaultShow")
VaultCreate(r) == Creates(r, "vaultCreate", "keyList", azure.vault = "absent",
                          [azure EXCEPT !.vault = "exact"])
\* Azure RBAC and purge protection.
VaultShow(r) ==
    Reads(r, "vaultShow", IF azure.vault = "exact" THEN "keyList" ELSE "refused")

KeyList(r) ==
    Reads(r, "keyList", IF azure.key = "absent" THEN "keyCreate" ELSE "keyShow")
\* A bug: the key just created is taken without the final show.
Mut_KeyCreate(r) ==
    Creates(r, "keyCreate", "grantList", TRUE,
            [azure EXCEPT !.key = "exact", !.version = @ + 1])
\* Creating a key that exists adds a version to it.
KeyCreate(r) ==
    Creates(r, "keyCreate", "keyShow", TRUE,
            [azure EXCEPT !.key = "exact", !.version = @ + 1])
KeyShow(r) ==
    IF azure.key = "exact"
    THEN /\ Goes(r, "keyShow", "grantList")
         /\ reported' = [reported EXCEPT ![r] = azure.version]
         /\ UNCHANGED <<world, app>>
    ELSE Reads(r, "keyShow", "refused")

\* The roles are listed at the vault, inherited ones included, and told apart by
\* role definition only.
GrantList(r) ==
    Reads(r, "grantList",
          CASE azure.grants[app[r]] = {} -> "grantCreate"
            [] SignerOnly(azure.grants[app[r]]) -> "grantCheck"
            [] OTHER -> "refused")
GrantCreate(r) ==
    Creates(r, "grantCreate", "grantCheck", "vault" \notin azure.grants[app[r]],
            [azure EXCEPT !.grants[app[r]] = @ \cup {"vault"}])
GrantCheck(r) ==
    Reads(r, "grantCheck", IF SignerOnly(azure.grants[app[r]]) THEN "done" ELSE "refused")

Step(r) ==
    \/ Group(r) \/ GroupCreate(r)
    \/ RoleList(r) \/ RoleCreate(r) \/ RoleCheck(r)
    \/ AppList(r) \/ AppCreate(r) \/ AppShow(r)
    \/ SpList(r) \/ SpCreate(r) \/ SpShow(r)
    \/ CredentialList(r) \/ CredentialCreate(r) \/ CredentialCheck(r)
    \/ VaultList(r) \/ VaultCreate(r) \/ VaultShow(r)
    \/ KeyList(r) \/ KeyCreate(r) \/ KeyShow(r)
    \/ GrantList(r) \/ GrantCreate(r) \/ GrantCheck(r)

----------------------------------------------------------------------------
(* Somebody else changes what is there: a permission more, a credential more,  *)
(* a protection less.                                                          *)

WeakenShared(w) ==
    {[w EXCEPT !.role = "other"], [w EXCEPT !.vault = "other"],
     [w EXCEPT !.key = "other", !.version = IF w.key = "absent" THEN @ + 1 ELSE @]}
WeakenOwned(w, a) ==
    {[w EXCEPT !.apps[a] = "other"], [w EXCEPT !.sps[a] = "other"],
     [w EXCEPT !.credentials[a] = {"wrong"}],
     [w EXCEPT !.credentials[a] = @ \cup {"extra"}],
     [w EXCEPT !.grants[a] = @ \cup {"foreign"}],
     [w EXCEPT !.grants[a] = {"group"}]}

Tamper == /\ ~flawed
          /\ azure' \in WeakenShared(azure) \cup UNION {WeakenOwned(azure, a) : a \in Named}
          /\ flawed' = TRUE
          /\ undisturbed' = [r \in Runs |-> undisturbed[r] /\ ~Active(r)]
          /\ UNCHANGED <<run, alone, overlapped>>

Next == Tamper \/ \E r \in Runs : Start(r) \/ Step(r) \/ CallFails(r)

Spec == Init /\ [][Next]_vars

\* While no run is under way and none is done, an operator starts one.
StartWhenQuiet == /\ \A q \in Runs : pc[q] \in Ended \ {"done"}
                  /\ \E r \in Runs : Start(r)

\* A started script runs on, and is started again until it is done.
FairSpec == /\ Spec
            /\ \A r \in Runs : WF_vars(Step(r))
            /\ WF_vars(StartWhenQuiet)

----------------------------------------------------------------------------
(* Properties *)

Unchosen == {"group", "groupCreate", "roleList", "roleCreate", "roleCheck",
             "appList", "appCreate"} \cup (Ended \ {"done"})
Late == {"grantList", "grantCreate", "grantCheck", "done"}

\* The variables keep their types; a run past the choice of an application has one
\* that exists, and past the final look at the key, a version of it to report.
TypeOK ==
    /\ azure \in WorldSpace /\ KeyHasVersions(azure) /\ flawed \in BOOLEAN
    /\ pc \in [Runs -> Calls \cup Ended]
    /\ app \in [Runs -> Apps \cup {NoApp}]
    /\ reported \in [Runs -> Nat]
    /\ undisturbed \in [Runs -> BOOLEAN] /\ alone \in [Runs -> BOOLEAN]
    /\ overlapped \in BOOLEAN
    /\ \A r \in Runs : /\ pc[r] \notin Unchosen => app[r] \in Named
                       /\ pc[r] \in Late => reported[r] \in 1 .. azure.version

\* "Bootstrap completed" is said of a strict installation only, whatever was there
\* before, whatever failed and whoever ran at the same time: one exact signer role,
\* application, principal, credential, vault and key, and no other role.  A run that
\* had Azure to itself also worked on the only application of the name.
CompletedIsStrict ==
    [][\A r \in Runs :
         pc[r] # "done" /\ pc'[r] = "done" /\ undisturbed[r] =>
            /\ Strict(azure, app[r])
            /\ alone[r] => Named = {app[r]}]_vars

\* What a run that died leaves behind is finished by the next, never refused: while
\* runs follow one another and nothing else interferes, no run finds a resource it
\* objects to, and nothing is made twice.
PartialIsFinished ==
    ~flawed /\ ~overlapped =>
       /\ Sound(azure)
       /\ \A r \in Runs : pc[r] # "refused"

Keeps(old, new) == old \in {"absent", new}

\* The script adds what is absent and rewrites nothing: no resource that somebody
\* made, matching or not, is changed by a run ("It stops instead of silently
\* rewriting resources").  Only a key made by others between list and create gets a
\* second version.
OnlyAdds ==
    [][flawed' = flawed =>
         /\ Keeps(azure.role, azure'.role) /\ Keeps(azure.vault, azure'.vault)
         /\ azure'.version # azure.version /\ azure.key # "absent" =>
              \E r \in Runs : pc[r] = "keyCreate" /\ ~(alone[r] /\ undisturbed[r])
         /\ \A a \in Apps :
              /\ Keeps(azure.apps[a], azure'.apps[a]) /\ Keeps(azure.sps[a], azure'.sps[a])
              /\ azure.credentials[a] \subseteq azure'.credentials[a]
              /\ azure.grants[a] \subseteq azure'.grants[a]]_vars

\* A completed run leaves one assignment of the signer role, at the vault: "one
\* vault-scoped custom signer-role assignment for the workload identity"
\* (docs/entra-oidc-keyvault-bootstrap.md).
OneVaultScopedAssignment ==
    \A r \in Runs : pc[r] = "done" /\ ~overlapped /\ undisturbed[r] =>
                     azure.grants[app[r]] = {"vault"}

\* Rerun until it is done, the script gets there: however many runs died, and
\* wherever, once calls stop failing some run completes - as long as nobody put a
\* flaw there and no two runs overlap.
RerunsComplete ==
    ([](~flawed /\ ~overlapped) /\ <>[][\A r \in Runs : ~CallFails(r)]_vars)
       => <>(\E r \in Runs : pc[r] = "done")
=============================================================================
