----------------------------- MODULE ReleaseGate -----------------------------
(***************************************************************************)
(* The job of .github/workflows/sentinel-release.yml with                  *)
(* src/src/sentinel_core/release_evidence.py: validate the workflows, run  *)
(* the tests, build the binary, hash every tracked file, write the         *)
(* evidence, and let git status say whether the checkout is still the      *)
(* commit.                                                                 *)
(*                                                                         *)
(* From the tests on, a process they leave behind may go on changing the   *)
(* checkout.  It makes every change anew: nothing is put back as it was,   *)
(* nothing is committed.  The listing, the build and git status each read  *)
(* one path at a time.                                                     *)
(***************************************************************************)
EXTENDS WorkflowSecurity

CONSTANTS Paths,      \* of the checkout
          Committed,  \* those in the commit; the others are nowhere at first
          MaxChanges  \* bound: changes of the checkout

ASSUME PathsAssumption == Committed \subseteq Paths /\ MaxChanges \in Nat

\* A content is the number of the change that wrote it, 0 the commit's.
Gone == -1

VARIABLES step,     \* of the job
          tree,     \* content of each path
          index,    \* paths git ls-files knows
          changes,  \* made so far
          built,    \* the contents compiled into the binary
          toHash,   \* set(tracked_paths), what is left of it
          opened,   \* the file sha256_file is reading, if any, and its first chunk
          records,  \* of the manifest: path, first and second chunk
          toCompare \* paths git status has still to look at

gateVars == <<step, tree, index, changes, built, toHash, opened, records, toCompare>>

CommitTree == [p \in Paths |-> IF p \in Committed THEN 0 ELSE Gone]

GateInit == /\ step = "workflows" /\ tree = CommitTree /\ index = Committed
            /\ changes = 0 /\ built = {} /\ toHash = {} /\ opened = {}
            /\ records = {} /\ toCompare = {}

ReadsOnly == UNCHANGED <<tree, index, changes>>

\* A step that exits with an error ends the job.
Abort == /\ step' = "failed" /\ ReadsOnly
         /\ UNCHANGED <<built, toHash, opened, records, toCompare>>

----------------------------------------------------------------------------
\* python -m sentinel_core.workflow_security exits 1 when there are failures.
ValidateWorkflows ==
    /\ step = "workflows" /\ Validated
    /\ \/ failed /\ Abort
       \/ /\ ~failed /\ step' = "tests" /\ ReadsOnly
          /\ UNCHANGED <<built, toHash, opened, records, toCompare>>

\* Lint, tests and red-team suite; what they do to the checkout is Meddle.
RunTests ==
    /\ step = "tests"
    /\ \/ Abort
       \/ /\ step' = "build" /\ toCompare' = Paths /\ ReadsOnly
          /\ UNCHANGED <<built, toHash, opened, records>>

\* go build compiles what it finds, tracked or not.
Build(p) ==
    /\ step = "build" /\ p \in toCompare
    /\ toCompare' = toCompare \ {p}
    /\ built' = built \cup {<<p, tree[p]>>}
    /\ ReadsOnly /\ UNCHANGED <<step, toHash, opened, records>>

\* tracked_paths_from_git.
ListTracked ==
    /\ step = "build" /\ toCompare = {}
    /\ step' = "hash" /\ toHash' = index
    /\ ReadsOnly /\ UNCHANGED <<built, opened, records, toCompare>>

\* is_file, and the first chunk of sha256_file.  The order of the paths decides
\* nothing.
HashFirst(p) ==
    /\ step = "hash" /\ p \in toHash /\ opened = {}
    /\ IF tree[p] = Gone THEN Abort
       ELSE /\ opened' = {<<p, tree[p]>>} /\ toHash' = toHash \ {p}
            /\ ReadsOnly /\ UNCHANGED <<step, built, records, toCompare>>

\* The open handle goes on reading a file that is gone by now.
Rest(p, first) == IF tree[p] = Gone THEN first ELSE tree[p]

HashRest ==
    /\ step = "hash"
    /\ \E o \in opened : records' = records \cup {<<o[1], o[2], Rest(o[1], o[2])>>}
    /\ opened' = {}
    /\ ReadsOnly /\ UNCHANGED <<step, built, toHash, toCompare>>

\* write_tracked_file_manifest and release-evidence.json.  git status reads the index
\* first and then compares path by path.
Mut_WriteManifest ==
    /\ step = "hash" /\ toHash = {} /\ opened = {}
    /\ step' = "validated"
    /\ ReadsOnly /\ UNCHANGED <<built, toHash, opened, records, toCompare>>
WriteManifest ==
    /\ step = "hash" /\ toHash = {} /\ opened = {}
    /\ IF index = Committed THEN step' = "status" /\ toCompare' = Paths
       ELSE step' = "failed" /\ UNCHANGED toCompare
    /\ ReadsOnly /\ UNCHANGED <<built, toHash, opened, records>>

\* A modified, a deleted or an untracked path is a line of output.
Compare(p) ==
    /\ step = "status" /\ p \in toCompare
    /\ IF tree[p] = CommitTree[p]
       THEN /\ toCompare' = toCompare \ {p} /\ ReadsOnly
            /\ UNCHANGED <<step, built, toHash, opened, records>>
       ELSE Abort

FinalResult ==
    /\ step = "status" /\ toCompare = {}
    /\ step' = "validated"
    /\ ReadsOnly /\ UNCHANGED <<built, toHash, opened, records, toCompare>>

----------------------------------------------------------------------------
\* A process the tests started: it writes or deletes a file, or adds one to
\* the index or takes one off.
Running == step \in {"tests", "build", "hash", "status"}

Meddle(p) ==
    /\ Running /\ changes < MaxChanges /\ changes' = changes + 1
    /\ \/ tree' = [tree EXCEPT ![p] = changes + 1] /\ UNCHANGED index
       \/ p \in Committed /\ tree' = [tree EXCEPT ![p] = Gone] /\ UNCHANGED index
       \/ p \notin Committed /\ tree[p] # Gone /\ index' = index \cup {p} /\ UNCHANGED tree
       \/ p \in Committed /\ index' = index \ {p} /\ UNCHANGED tree
    /\ UNCHANGED <<step, built, toHash, opened, records, toCompare>>

GateStep == \/ ValidateWorkflows \/ RunTests \/ ListTracked
            \/ HashRest \/ WriteManifest \/ FinalResult
            \/ \E p \in Paths : Build(p) \/ HashFirst(p) \/ Compare(p) \/ Meddle(p)

GateNext == \/ WorkflowNext /\ step = "workflows" /\ UNCHANGED gateVars
            \/ GateStep /\ UNCHANGED workflowVars

GateSpec == WorkflowInit /\ GateInit /\ [][GateNext]_<<gateVars, workflowVars>>

----------------------------------------------------------------------------
(* Properties *)

\* The variables keep their types; one file is open at a time, while hashing.
GateTypeOK ==
    /\ step \in {"workflows", "tests", "build", "hash", "status", "validated", "failed"}
    /\ tree \in [Paths -> Int] /\ index \subseteq Paths /\ changes \in 0 .. MaxChanges
    /\ built \subseteq Paths \X Int /\ records \subseteq Paths \X Int \X Int
    /\ toHash \subseteq Paths /\ toCompare \subseteq Paths
    /\ opened \subseteq Paths \X Int
    /\ \A o, q \in opened : o = q
    /\ opened # {} => step \in {"hash", "failed"}

\* The job ends in CANDIDATE_VALIDATED only with evidence of the commit itself: every
\* committed file hashed as the commit has it, nothing else hashed, and the binary
\* built from these contents - whatever was written, deleted or added while the
\* steps were reading.
EvidenceIsOfTheCommit ==
    step = "validated" =>
       /\ built = {<<p, CommitTree[p]>> : p \in Paths}
       /\ records = {<<p, 0, 0>> : p \in Committed}
=============================================================================
