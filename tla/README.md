# SENTINEL Core: verification project

TLA+ models of SENTINEL Core (the Python package `src/src/sentinel_core/`, the Go
core, the Azure bootstrap script and the release workflow, with the environment
their code assumes), TLC configurations that check them on small
instances, and theorems about them that TLAPS proves for all values of the
constants. `PROJECT.json` lists, for each module, the lines every definition
models (`map`), the runs, a deliberate bug per property that the run must catch
(`mutants`), the hazards and the findings.

Run `tlc -config X.cfg M` for a row of the table of runs and `tlapm M_proofs.tla`
for the proofs.

## 1. The system

SENTINEL Core signs, chains, verifies and talks about evidence. Its parts share
no process state: they meet in files, in registries and in the caller's hands.

| Part | Source | State | Operations | Interacts with |
|---|---|---|---|---|
| Voice client | `xai_voice.py` 227-394, 445-514, 655-847 | websocket, ready flag, remembered conversation id, per-turn collector | `connect`, `run_turn`, `close`; `ResponseCollector.consume` | the xAI realtime server over a WebSocket; a `transcript_sink` callback; the caller, who may cancel any call |
| Voice artifact store | `xai_voice.py` 517-628, 915-958 | the files of an output directory | `persist_voice_response`, `_atomic_write` | other processes that store into the directory |
| Voice configuration, instruction boundary | `xai_voice.py` 105-225, 397-442, 882-912 | none | validation and composition of strings | voice client |
| Voice command line | `xai_voice.py` 960-1118 | one client, one turn at a time, an exit code | argument parsing, loop, storing | client, artifact store, `asyncio.run` and its handling of Ctrl-C |
| Receipt verification | `receipt.py` | local to one call: issues, keys seen, roles, counts | `verify_receipt` | trust registry, receipts of the signing side |
| External signing | `external_signing.py` | local to one call: the prepared context | `prepare_receipt_signature`, `finalize_receipt_signature`, `sign_receipt_with_external_digest_signer` | an external digest signer; the receipt the caller keeps |
| Azure CLI signer | `azure_cli_signing.py` | none | `sign_digest` by a child process with a timeout | Azure Key Vault; external signing, whose `ExternalDigestSigner` it is |
| Evidence verifier | `verifier.py`, `hashchain.py`, `crypto.py`, `schema.py` | local to one call: errors, resolved key and role | `verify_evidence_record` | registries; the caller who feeds one digest into the next call |
| Registries | `trust.py`, `policy.py`, `registry_loader.py`, `registries/*.json` | keys by id, policies by id | `add`, resolution, loading | evidence verifier |
| Pilot | `pilot.py`, `scripts/run_pilot_evidence.py` | none | builds and verifies one record | evidence verifier |
| Go core | `internal/*`, `cmd/sentinel` | none | `VerifyChain`, `Decide`, `ResolveActiveForAlg`, receipt structure | - |
| Azure bootstrap | `scripts/azure/bootstrap-sentinel-oidc.ps1` | the Azure tenant | list-or-create of role, application, credential, vault, key, assignment | other runs of itself |
| Workflow validator | `workflow_security.py` | none | checks workflow files line by line | workflows |
| Release evidence and gate | `release_evidence.py`, `.github/workflows/sentinel-release.yml` | the checkout, the index, a manifest | manifest; ordered steps of a job | git, the workflow validator, whatever the tests leave running |
| Other workflows | `.github/workflows/*` | none | linear jobs | - |

### Where it is hard

* **Voice client.** One asyncio task, but every `await` hands control to a
  server that may send anything, a network that may lose, delay or cut, a
  timeout, and a caller who may cancel. The code catches `Exception` where
  `asyncio.CancelledError` is none, matches no response to its prompt by id, and
  resumes conversations on later connections. What makes it right: no prompt
  is spoken twice; a prompt is answered by its own response, in full; a failed
  turn leaves neither a connection nor a conversation that a later turn would
  reuse; every turn ends.
* **Artifact store.** Several processes, no locks: check, check again, link. A
  failure at any system call, an interrupt or the death of the process may fall
  between any two of them. What makes it right: nothing that exists is touched;
  a set is stored whole or not at all; a manifest is never without its files.
* **Receipts.** Signers work outside the process and in parallel, while the
  receipt is revised, keys are revoked, and answers are late, wrong or from
  earlier. What makes it right: a receipt that verifies was approved, for this
  body, by enough distinct active keys of the required roles; and what the
  signing side builds the verifier accepts.
* **Evidence.** The verifier sees one record; that a *log* is whole and in order
  follows only from the digest the caller carries along. Registries change
  between two records. What makes it right: a walk that ends well saw what was
  issued, each record signed by the registered key and authorized by its role.
* **Command line.** asyncio turns Ctrl-C into a cancellation that waits for the
  next await that suspends; `input()` and the storing of a response do not. What
  makes it right: no Ctrl-C makes it speak into a line that is not clear, and the
  exit code and the output directory do not claim more than was done.
* **Bootstrap.** Every resource is looked up, created and looked at again, with
  other runs and administrators in between, and a run may die anywhere. What
  makes it right: it completes on a strict installation only, rewrites nothing,
  and the next run finishes what a dead one left.
* **Workflow validator.** It judges YAML line by line. What makes it right: what it
  accepts is safe as GitHub reads it, and what is safe and plainly written passes.
  The first half it keeps for the steps it finds only.
* **Release gate.** Listing, hashing, building and `git status` each read files one
  after the other while something may still write. What makes it right: a
  validated candidate is the commit.
* **Go chain.** It goes on after a fault, and a record may be valid and have no hash.
  What makes it right: the first fault it
  names is where the log breaks, and OK means that it does not.

The hazards, each at its line with the properties that watch it, are in
`PROJECT.json`.

## 2. The modules

| Module | Models | Used by |
|---|---|---|
| `VoiceTurns` | abstract: turns settled one by one on a clear line | `VoiceClient` (refinement) |
| `VoiceClient` | client, collector, server, network, canceller | `MCVoiceClient`, `VoiceClient_proofs` |
| `ArtifactStore` | concurrent calls of `persist_voice_response` with faults | `MCArtifactStore`, `ArtifactStore_proofs` |
| `Receipts` | data and checks of receipts; the documented acceptance condition | `ReceiptVerifier`, `ReceiptSigning` |
| `ReceiptVerifier` | `verify_receipt`, stage by stage, signature by signature | `MCReceiptVerifier`, `Verifiers_proofs` |
| `ReceiptSigning` | signing jobs over one receipt, then `Passes` of `Receipts` | `MCReceiptSigning`, `ReceiptSigning_proofs` |
| `EvidenceRegistries` | trust and policy registries and their loader, as operators | `EvidenceLog` |
| `EvidenceLog` | issuing, storing and walking a chained log; `verify_evidence_record` | `MCEvidenceLog`, `EvidenceLog_proofs` |
| `VoiceCli` | the command line, or any library caller, over `VoiceClient` | `MCVoiceCli`, `VoiceCli_proofs` |
| `AzureBootstrap` | concurrent and repeated runs of the bootstrap script | `MCAzureBootstrap`, `AzureBootstrap_proofs` |
| `WorkflowSecurity` | `validate_workflow_text` over rendered workflow files | `ReleaseGate`, `MCVerifiers`, `WorkflowSecurity_proofs` |
| `ReleaseGate` | the release job, beginning with `WorkflowSecurity` | `MCVerifiers`, `Verifiers_proofs`, `WorkflowSecurity_proofs` |
| `GoChain` | `VerifyChain` | `MCVerifiers`, `Verifiers_proofs` |
| `DigestSigner` | abstract: the signer that `external_signing.py` expects | `AzureCliSigner` (refinement) |
| `AzureCliSigner` | `sign_digest` with its process, timeout and parser | `MCVerifiers`, `Verifiers_proofs` |
| `MCVerifiers` | the programs that give one verdict, one of them per behaviour | - |

### VoiceClient

`pc` is the await at which the task is suspended; everything between two awaits
is one action, because asyncio runs nothing else in between. `websocket`,
`sessionReady`, `conversationId` are the client's attributes (`_websocket is not
None`, `_session_ready`, `_conversation_id`); `collector` is the
`ResponseCollector`. `RunTurn`, `CallConnect`, `CallClose` are the caller's
calls; `OpenOk` to `ReceiveTimeout` resume an await with each of its outcomes;
`CancelUnhandled` and `CancelReceiving` are cancellations, apart because the
receive loop is the one place that catches `BaseException`. `SendDelivered`,
`SendLost`, `SendRaises` separate a send that arrived, one that was swallowed
and one that raised - whether or not the server got the message.

The server (external: what `parse_server_event` and `consume` accept or refuse)
keeps the prompts and requested responses of each conversation and emits
events, well-formed or not, in or out of turn. Texts and audio are amounts; an
event carries the set of prompts it answers, which the client never sees: it is
there to say what the property `AnswersOwnPrompt` is about.

### ArtifactStore

`dir` maps each final name to the call that wrote it, `temps` is the set of
temporary files, `at[c]` counts the checked and later the created paths. The
actions follow the code: the preflight loop (one path a step, since other
processes run in between), building in memory, and per path `Create` (second
check and `mkstemp`), `Write`, `Link` (`os.link`, which refuses a taken name),
`Cleanup` (the `finally` block), then `Rollback`, one `unlink` a step. The
constant `Faults` says what may go wrong. `spoiled` remembers calls in which an
unlink failed or an interrupt fell: for these the code promises less.

### Receipts, ReceiptVerifier, ReceiptSigning

A body is the signed part of a receipt; its canonical bytes, its SHA-256 and its
base64url form are the body itself, since all the code asks is whether two are
equal. A signature value is known by who made it and over which signing input
(protected header and payload). `Passes` is the conjunction of the checks of
`verify_receipt`, `Accepted` the 15 conditions of
`docs/receipt-verifier-production-gate.md`, written without reference to the
code's order, and `ReceiptVerifier` the loop with its counters and its
accumulated errors. `ReceiptSigning` lets jobs prepare, wait for the signer and
finalize against the receipt *as it is by then*. `Misanswers` is what an
external signer may wrongly return and `finalize_receipt_signature` cannot tell.

### EvidenceRegistries, EvidenceLog

A digest stands for what was hashed: the sequence of contents up to and including
the record. That SHA-256 tells inputs apart is the assumption in this choice.
`Issue` follows `build_signed_synthetic_record` and continues the chain.
`LogMishap` loses, repeats, swaps or alters a stored record or blanks its
signature; `TrustChange` and `PolicyChange` are `add()` and the loader.
`VerifyNext` is one call of `verify_evidence_record`, with `walked` (the digest
of the last result) as `expected_previous_hash` and, for the last record, the
target as `expected_digest`. All checks are made and accumulated in the code, so
`Verifies` is their conjunction; `mode` holds the caller's options.

### VoiceCli

`phase` is what `_run_cli` is doing: `entering` and `turn` await `VoiceClient`,
whose steps they are (`CallProceeds`), `prompting` is `input()` or the next
`--prompt`, `storing` is `persist_voice_response`, `leaving` is `__aexit__`. In
phase `library` every caller of the client is allowed instead, with cancellation
at any await. `Interrupt` is Ctrl-C while the task is suspended;
`InterruptBlocking` is Ctrl-C while the event loop is blocked, pending until the
next await that suspends (`Unsuspended` names those that need not, as `websockets`
and `asyncio` implement them); `InterruptAgain` is the second Ctrl-C, a
`KeyboardInterrupt` on the spot. Storing is one step: `ArtifactStore` looks inside.

### AzureBootstrap

`pc[r]` is the `az` call run `r` makes next; a step is that call and the script's
judgement of the answer, so that other runs, and `Tamper` (an administrator),
come between a list and the create that follows it. `azure` has, of each resource,
whether it is absent, exactly as the script would create it, or otherwise; of
credentials and role assignments the sets. `CallFails` ends a run at any call, and
a create that took effect and still reported a failure is the create followed by
`CallFails`. `Start` runs the script again. `undisturbed`, `alone`, `flawed` and
`overlapped` are history: they say which runs a property speaks of.

### WorkflowSecurity and ReleaseGate

A file is the steps it *means*; `Rendered` writes it in YAML block style, and the
validator, which sees only the lines, is compared with the meaning. A line is its
indentation, whether it opens with a dash, and which of the module's regular
expressions it matches once `_without_yaml_comment` has been applied: quoting and
comments *inside* a line are folded into the class (`murky` is a key that is
quoted, in flow style or without a value). `StepFirst`, `EndsStep`, `StepBounds`,
`MappingBounds` and `Direct` are the functions of the source with blocks as sets
of indices; `toCheck` is the set of uses lines still to be looked at, the least of
them first. `FailClosed` says of every step that its `uses` is pinned, and of a step
that the validator finds (`Found`) that it is safe: a step whose dash stands alone on
its line is not found by `_step_bounds` when its `uses` follows, and its lines count as
those of the step before. A checkout in such a step is accepted without a look at its
inputs, against the docstring's "Fail-closed validation": `FailClosed` exempts it, and
the assumption `BareDashIsOverlooked` of `MCVerifiers`, which TLC evaluates, is a
workflow of one such step that is not safe and gives the validator nothing to refuse
or look at. `FailClosed` speaks of files that GitHub would run: a file in which any
step gives `with` twice, or gives it to no action, is refused there (`Readable`).

`ReleaseGate` begins with the validator's verdict on the repository's own files.
`tree` gives each path the number of the change that wrote it, 0 for the commit's
content; a path stands for one that `git status` would report, not for an ignored
one (no Go source matches `.gitignore`). `Meddle` is a process the tests left
behind; it writes, deletes, adds to the index or takes off it, up to `MaxChanges`
times, between any two reads. It never puts a path back as it was and never
commits: with that, no gate that looks once could tell, and the property would be
false of any implementation. `HashFirst` and `HashRest` are the two chunks of
`sha256_file`, between which the file may change. `validated` is the job's final
step and not the field `result` of `release-evidence.json`, which is written before
`git status` has looked.

### GoChain, DigestSigner, AzureCliSigner

`GoChain` reads a log record by record, keeping `previousHash` as the code does over
a record that is not valid (`PassOver`) and over one that `Validate` passes and
`json.Marshal` refuses, its year being beyond 9999 (`HashFails`). The hash of a sound
record is the record itself (SHA-256 over its JSON).

`DigestSigner` states what `external_signing.py` relies on: a request of the wrong
form never reaches the key, the key signs once a call at most - possibly after the
call was given up, or during the next - and an answer is one that
`finalize_receipt_signature` attaches. `AzureCliSigner` has the child process (`az`),
the vault behind it and any output; `CallAgain` is a caller who tries the request
again after an error. The vault signs what it was sent, well-formed or not, in time or
late (`vault` counts what it has yet to sign): that nothing but a checked request
reaches the key, and that a call sends one at most, is up to `sign_digest`. Of the
process it is taken for granted that it asks the vault once; the retries inside the
Azure CLI's own HTTP pipeline are not modelled. `ImplementsDigestSigner` is the
refinement, with the same variables and `az` and `vault` hidden. `RequestOK` is
stricter than `WellFormed`: the adapter refuses a port in the key identifier,
`external_signing.py` does not. The two files decode base64url separately: `Decodes`
and `DecodesStrict` are translated each from its own.

## 3. The runs

| Run | Module, configuration | What it shows |
|---|---|---|
| `voice_cancel` | `MCVoiceCli`, `VoiceCli.cfg` | A library caller who cancels at every await: the attributes stay coherent (`TypeOK`), no prompt is held by two conversations (`NoReplay`), what `run_turn` returns is all the server said (`AnswerIsComplete`), nothing is shown live before it is accepted (`LiveTranscriptIsAccepted`). The command line with Ctrl-C anywhere: it speaks on a clear line only (`CliSpeaksOnClearLine`: since it leaves after a failure, findings 1 and 2 do not reach it), exit code 0 means all answered and recorded, and at most the last answer is missing from the directory |
| `voice_safety` | `MCVoiceClient`, `VoiceClient_safety.cfg` | With cancellation everywhere but in setup and in a send: prompts go into acknowledged sessions only, a failed turn leaves no line a later turn would reuse, each answer is to its own prompt, the client implements `VoiceTurns` (cancellation in setup and in a send breaks this, as findings 1 and 2 show); a spoken turn settles, and `connect()` settles once the server is quiet |
| `voice_cancelled_connect` | `VoiceClient_cancelled_connect.cfg` | finding 1 (violation) |
| `voice_cancelled_send` | `VoiceClient_cancelled_send.cfg` | finding 2 (violation) |
| `artifacts` | `MCArtifactStore`, `ArtifactStore.cfg` | Three racing calls under every fault: no clobbering, whole sets or none, no manifest without its files, no temporary file left, and one of the racers succeeds unless something failed |
| `artifact_unlink` | `ArtifactStore_unlink.cfg` | finding 3 (violation) |
| `verifiers` | `MCVerifiers`, `Verifiers.cfg` | Receipts: the loop with its counters decides the documented acceptance condition; a key counts once. Workflows: what is accepted is pinned, its checkouts in the steps that the validator finds drop their credentials (those under a bare dash are not found and pass unchecked), and the repository's own style is accepted. Release gate: a validated candidate is the commit. Go chain: OK is a linked log, the first error is the first break, a record that is passed over or has no hash is no link. Signer: `AzureCliSigner` implements `DigestSigner`, calls repeated after a timeout included |
| `receipt_signing` | `MCReceiptSigning`, `ReceiptSigning.cfg` | Concurrent jobs, revisions, revocations, wrong answers: signatures bind the body they were made for, what verifies was approved, what was signed enough verifies |
| `evidence_log` | `MCEvidenceLog`, `EvidenceLog.cfg` | A walk that ends well saw the issued chain, signed and authorized by registered keys; an intact log is refused only for a cause |
| `evidence_policy` | `EvidenceLog_policy.cfg` | finding 4 (violation) |
| `bootstrap` | `MCAzureBootstrap`, `AzureBootstrap.cfg` | Runs complete on strict installations only, change nothing that is there, and finish what dead runs left, in the end without fail |
| `bootstrap_inherited` | `AzureBootstrap_inherited.cfg` | finding 5 (violation) |

`CHECK_DEADLOCK FALSE` in every configuration but those of the bootstrap, whose
script may always be started again: turns, calls, jobs, records, receipts and
verdicts are finite in number, and a system whose callers have nothing left to do
stops.

### Bounds

* **Voice client.** `MaxTurn` bounds the turns, `MaxConv` the conversations (two:
  one to leave and one to go to). `voice_safety` has three turns: one that fails,
  one that resumes and one that would hear the wrong answer. `voice_cancel` has two
  turns and larger limits. `MaxEvents`, `MaxText` and `MaxAudio` are the client's
  own limits (`max_response_events`, `max_transcript_chars`, `max_audio_bytes`),
  small enough to be reached and exceeded. `MaxAudio` counts bytes; 2 allows an
  odd number, which `consume` refuses at the end, and `MaxEvents` of 5 the longest
  good response (created, text, audio, audio done, done); `voice_safety`, which
  asks whose answer it is and not what is in it, leaves audio out. `MaxInbox` caps
  the events in flight; two are enough for one to be overtaken by a timeout while
  another waits. A direct `connect()` is a call too.
  `voice_cancel` has 2,091,537 distinct states.
* **Cancellation.** `CancelPoints` is the set of awaits at which a caller
  cancels: all (`Awaits`), those of `connect` (`ConnectCancel`), those of the
  sends (`SendCancel`), or those that leave nothing half done (`CleanCancel`:
  opening, closing, receiving). `voice_cancel` uses all, `voice_safety` uses the last because the
  findings show that its properties fail with the others.
* **Artifacts.** Three calls on one name, two of which want audio and
  transcript and one the transcript only; 790,493 distinct states. Two calls
  race, the third is there for a winner that comes while both roll back. Names are
  what `_safe_component` makes of response ids, so distinct responses may share one.
* **Receipts.** Up to three signatures, at most one of which deviates in one
  field (parsing, role, key, header, signer, input, content, all); quorum from
  missing (-1) to more than there are keys (3); registries with a key inactive,
  undated, out of its window, or empty; `created_at` on and next to each end of
  the window. In `receipt_signing` three jobs, two
  with one key, and two drafts between which the author wavers; j1 and j2 are
  interchangeable (symmetry; the run has no liveness property); 1,644,032 states.
* **Evidence.** `MaxRecords` 3: the shortest log in which a record in the middle
  can be lost, repeated or swapped. `MaxMishaps` 1 change to the log or a
  registry, at any moment of the walk. Four contents, one of them malformed, one
  allowed by a second rule only; trust files with a duplicate key and with a
  refused algorithm; policies replaced by a stricter one; five sets of options of
  the verifier. Of a duplicate the later entry wins, as in the code; nothing in the
  repository promises that, and no property asks for it. 1,408,972 distinct states.
* **Verifiers.** The variable `program` picks one program per behaviour, the others
  stand still: nothing connects them but that they are checked together. Workflows
  have one step of up to three keys in any order, among them the checkout, a
  `with` with ten different contents and every class of line, bare or on its dash,
  alone or before a step in the repository's style, which a step that ends too late
  would borrow from, or before a step under a bare dash, whose lines count as its own.
  The gate has two committed paths and one that is not, and
  three changes: enough to spoil what was read and two other things after that. Go
  logs have up to three records, sound, without a hash or not valid, with a right or
  wrong number, chained to any earlier record, to one that was there before, or to none.
  The signer sees every request and every output of their abstract sets, and
  `MaxCalls` of 2 lets the key sign for a call that timed out while the next is under
  way. 312,632 distinct states.
* **Bootstrap.** Two runs, two applications, and as a start every prefix of an
  installation (what a dead run leaves), three of them with each single flaw. Two
  applications are enough for one too many; two runs for one that creates what the
  other has just listed as absent. 596,205 distinct states.

### Fairness

`VoiceClient`, in `voice_safety`: `FairSpec == Spec /\ WF_vars(ClientStep)`. An
await of the client ends: `websockets` opens within `open_timeout`,
`asyncio.wait_for` bounds every receive, a send succeeds or raises, and the event
loop runs a task that can run. Nothing is assumed of the server, the network,
the caller or the canceller. `SpokenTurnSettles` needs nothing more because
`max_response_events` bounds the events of a response; no such bound holds while
`connect()` waits for `session.updated` (`_wait_for_session_ready` restarts its
timeout at every event), so `ConnectSettlesWhenQuiet` has to assume that the
server falls silent.

`AzureBootstrap`: a started script runs on (`WF_vars(Step(r))`: an `az` call
answers), and while no run is under way or done an operator starts one
(`WF_vars(StartWhenQuiet)`): the script itself starts nothing, so `RerunsComplete`
is a statement about rerunning it. It further assumes that calls stop failing at
some time and that nobody introduces a flaw or a second run; with two runs at once
two applications may come to be, after which every run refuses, as it should.

### Findings

1. `voice_cancelled_connect`. `connect()` cancelled after the socket is open
   leaves `_websocket` set and the session unacknowledged (the handler catches
   `Exception`, which `CancelledError` is not). The next `run_turn` finds a
   websocket, returns from `connect()` at once and speaks into it, although the
   security gate document says that the client waits for `session.updated`.
2. `voice_cancelled_send`. `run_turn` cancelled at one of its two sends leaves
   the connection open with the prompt in the conversation; the next turn speaks
   after it, against the documented rule for a new turn.
3. `artifact_unlink`. If the temporary file cannot be unlinked after the final
   name was linked, the call raises before it has recorded the path, and the
   rollback leaves the file: no set was stored, and no retry can succeed.
4. `evidence_policy`. `PolicyRegistry.add` replaces a policy under its id; a
   record names the id only and is judged by the new rules, although the
   documents say that old records stay verifiable against the old version.
5. `bootstrap_inherited`. The script lists assignments with `--include-inherited`
   and tells them apart by role definition only. A signer-role assignment at the
   resource group, which reaches every vault in it, is taken for the one at the
   vault: none is created, and the result names the vault as the scope, although
   the document promises one vault-scoped assignment.

## 4. The proofs

`tlapm` proves the theorems below for every value of the constants that meets
the named assumptions of the modules (`LimitsAssumption` and `OptionsAssumption`,
`CallsAssumption`, `ValuesAssumption`, `InputsAssumption`, `JobsAssumption`,
`LogAssumption`, `WorldsAssumption`, `PathsAssumption`, `WorkflowsAssumption`,
`GoLogsAssumption`, the `CallsAssumption` of `AzureCliSigner`): limits are natural
numbers, names, calls and registry files are typed, and the values that stand for
"none" differ from real ones. Three hypotheses are stated in the theorems instead,
because the results are false without them:

* `PromptsWaitForReady` assumes that `CancelPoints` contains neither `configuring` nor
  `awaitReady`; finding 1 is what a cancellation there does.
* `IdleLinesAreClear`, `AnswersAreOwn` and `ClientImplementsTurns` assume that it
  contains neither `sendUser` nor `sendCreate`; finding 2 is what a cancellation there
  does. They hold with a cancellation anywhere else, those in `connect` included, which
  is more than `voice_safety` checks.
* `SignedEnough` assumes `SetUp`: the drafts have the right form and a date within the
  life of the keys, and jobs sign with registered keys in the registered role. The
  signing side takes this as given, the verifier checks it. `MCReceiptSigning` assumes
  `SetUp` of its instance, so TLC evaluates it.

| Module | Theorem | States | Argument |
|---|---|---|---|
| `VoiceClient_proofs` | `TypeCorrect` | `[]TypeOK` | One lemma per group of actions. `TypeOK` is inductive because it contains `Coherent`: without "a websocket has a conversation" the server's actions could not be typed, and without "a response being emitted is owed" its end could not. |
| | `NothingReplayed` | `[]NoReplay` | `HeldInv`: a prompt is held by one conversation at most, and by none before the send of its first message. `HeldMeans` says what holding is - in the items, owed, or in an event on the way to a client that would hear it. |
| | `PromptsWaitForReady` | `[]ReadyBeforePrompt` | `AckInv`: a connection that survives its call is an acknowledged one, and `session.updated` is in flight only if the session was. The first half fails exactly where `connect` is cancelled. |
| | `IdleLinesAreClear`, `AnswersAreOwn` | `[]IdleLineIsClear`, `[]AnswersOwnPrompt` | `LineInv`: outside the two places where a turn is spoken the line is `Clear` - nothing owed, nothing held, no event of a response under way; after the first message it is `HalfSpoken`, after the second `Spoken`: all that is owed or in flight belongs to this turn, and its end is the last of it. `TurnInv`: a turn is in flight exactly while its call is. |
| | `ClientImplementsTurns` | `Spec => ImplementsVoiceTurns` | From `LineInv` and `TurnInv`: `RunTurn` begins a turn, its first send speaks it on a line that is clear, `Return` settles it, every other step stutters. |
| | `ShowsOnlyAccepted` | `[]LiveTranscriptIsAccepted` | Inductive with `TurnInv`: a fresh collector has shown nothing. |
| | `AnswersAreComplete` | `[]AnswerIsComplete` | `StreamInv`: there is a sequence `T` along the events in flight such that `T[0]` is where the collector stands, `T[n]` where the server's response stands, and each event leads from one to the next. Nothing weaker relates what is counted at one end to what was counted at the other. Timeouts and losses cut the line, after which only a prefix has to fit; the collector takes the end only if `T` says that nothing is missing. |
| `VoiceCli_proofs` | `CommandSpeaksOnClearLine` | `[]CliSpeaksOnClearLine` | `PhaseInv` says in what phase the client may be at which await, and carries `LineInv` and `AckInv` until the command leaves. The command cancels at any await, the sends too: that does not break them because it never starts another turn after a cancellation. `CliStepsClient`: its steps are steps of the client, so the lemmas of `VoiceClient_proofs` are used again. |
| | `OkIsAllDone`, `AtMostLastIsLost` | `[]OkMeansAllDone`, `[]LosesAtMostLast` | `OutInv`: what is answered and what is stored in each phase, and what a Ctrl-C that is pending may still change. |
| `ArtifactStore_proofs` | `TypeCorrect` | `[]TypeOK` | `Counted`: no call counts more paths than it has. |
| | `NeverClobbers` | `NoClobber` | With `OwnsCreated`: while a call creates or rolls back, the paths it has counted are its own. A rollback therefore removes nothing of another's. |
| | `ManifestsVouch` | `[]ManifestVouches` | With `ManifestLast`: a call that owns a manifest owns all its files and can no longer fail, the manifest being the last path of its list. |
| | `StoresAllOrNothing`, `LeavesNoTemp` | `[]AllOrNothing`, `[]NoTempLeft` | `StoreInv`. `OwnsCreated` says that a call owns what it has counted; `OwnsNothingElse`, with `Linked` for the moment between a link and its count, that it owns nothing more; `ReturnsAll` that a return comes after the last; `TempInUse` that a temporary file belongs to a step under way. |
| | `SomeoneWins` | `[]SomeCallWins` | `SomeoneAhead`: of the calls on a name that was free there is always one that nobody has refused and that is ahead of all that were: paths are created in one order (`Rank`), so a call refused at a path was refused by one that holds a later place. |
| | `RaceHasOneWinner` | `[]OneCallWins` | A corollary: one is not refused, without another failure it has returned, so it owns its set; a second that returned would own the same manifest, and one that raised owns nothing. |
| `ReceiptSigning_proofs` | `TypeCorrect`, `BindsCurrent`, `KeysDistinct` | `TypeOK`, `SigningBindsCurrent`, `NoKeyTwice` | Only `Finalize` adds an entry, and re-checks body and duplicates when it does. |
| | `VerifiedApproved` | `[]VerifiedIsApproved` | `AnswersApproved` and `EntriesApproved`: a value made by a key was made with that key's approval, in the hands of a job and in the receipt, across revisions and revocations. |
| | `SignedEnough` | `SetUp` proves `[]SignedEnoughPasses` | `Unrevised`: a revocation leaves all of a key but its being active; `EntriesNamed`: the parts of an entry that name its key agree with each other and with the registry. Then every entry is a valid one of the verifier, and roles and number are those of the signers. |
| `EvidenceLog_proofs` | `TypeCorrect`, `WholeLog` | `TypeOK`, `WholeLogIsIssuedLog` | `ChainInv`: the digest carried along stands for exactly the contents accepted. |
| | `AcceptedSigned` | `[]AcceptedWasSigned` | `StoredSigned`: whatever happens to the log, signatures in it were made. |
| | `VerifiedRole` | `AcceptsByVerifiedRole` | The error of an unresolved key is accumulated, so that the fallback to the caller's role never decides. |
| | `IntactPasses` | `[]IntactLogPasses` | `IntactInv`: without a mishap the i-th record of the log stands for the first i contents of `head` and is signed as such, the walk is at a prefix, and each registered key came from a file that loaded (`LastRegistered`: the last entry of an id exists, by `LeastNumber`), hence has a role. `PermittedVerifies` goes through the checks one by one. |
| `AzureBootstrap_proofs` | `TypeCorrect` | `[]TypeOK` | Every action of a run is one `Effect`: it grows the world (`Grows`: what is as it should be stays so) and moves on; the rest of the proof speaks of effects instead of 23 actions. |
| | `ChecksLast`, `CompletedStrictly` | `[]CheckedInv`, `CompletedIsStrict` | What a run has checked holds until it ends, unless somebody else changed a resource: other runs only grow the world. At the last check all conjuncts of `Strict` are there. A run alone adds that the application it works on is the only one of the name. |
| | `PartialFinished` | `[]PartialIsFinished` | While runs follow one another, the world is sound and the active run has seen that what it is about to create is absent; so the create leaves the world sound and no check refuses. |
| | `AddsOnly` | `Spec => OnlyAdds` | `Adds`, for each effect; `KeyUnmade` for the key: a run that has Azure to itself is about to create it only if there is none. |
| `Verifiers_proofs` | `PassesIsAccepted` | `Passes <=> Accepted` | The checks of an entry single out the canonical signature of its key. |
| | `TypeCorrect`, `CountsDistinctKeys`, `VerdictCorrect` | `TypeOK`, `QuorumIsDistinct`, `VerdictIsAccepted` | `Inv`: `Counted` says that counters and sets are those of the entries looked at so far, `Stages` what the error flag stands for at each stage; at the end of the loop both speak of all entries. |
| | `GateTypeCorrect` | `[]GateTypeOK` | By action. |
| | `EvidenceCorrect` | `[]EvidenceIsOfTheCommit` | `GateInv`: what was read of a path is the commit's or the path is dirty, and dirty stays dirty. `git status` finds a path clean, hence it was clean whenever it was read. |
| | `ChainCorrect` | `[]FirstFaultIsFirstBreak` | `CleanInv`: without a fault so far, the part read is linked and `previousHash` is its last record's. `FirstInv`, `HasLeast`: the least record named breaks the log, whatever is named after it. |
| | `PassingOverCorrect` | `[]PassedOverIsNoLink` | `PassInv`: `previousHash` is the last sound record read, and of two sound records with none between them the later is named unless it follows the earlier. |
| | `AzureImplementsSigner` | `AzureSpec => ImplementsDigestSigner` | `AzureInv`: what was sent is a request that was checked, and what the key has signed, what the vault has yet to sign and what the call under way may still send are together no more than the calls. Then `VaultSigns` is a signature of the contract, the ends of a call are its answers and refusals, the process's own steps stutter. |
| `WorkflowSecurity_proofs` | `ValidatorFailsClosed` | `WorkflowSpec => []FailClosed` | `FileIsLaid`, `StepIsLaid`, `EntryIsLaid`: where each step, entry and child of a file stands among its lines. `BoundsAre`, `BlockHolds`: the block of a step that is found is its lines, and behind them at most whole steps under bare dashes; `ContentIs`, `DirectIs`: the content of its `with` are the lines of that entry, the direct inputs its children. `RunSound` is the invariant: no failure means that every line read and every block looked at is right, a failure that one is not. So a file that passes is `Accepted`, and `AcceptedStep` reads the step's safety off its block: the `with` of a step behind cannot answer for it, since that step has a `uses` of its own and a block may hold one only. |
| | `ValidatorAcceptsHouseStyle` | `WorkflowSpec => []AcceptsHouseStyle` | The same lemmas the other way: without bare dashes every block is exactly a step (`HouseBlock`), its keys are the step's, its `with` the checkout's own (`HouseCheckout`), so every line and block passes (`HouseAccepted`) and `RunSound` leaves no cause for a failure. |
| | `GateFailsClosed` | `GateSpec => [](FailClosed /\ WorkflowsPassed)` | Every step of the job is one of the validator or leaves its variables alone, so `RunSound` holds of the job too; only `ValidateWorkflows` leads on from its first step, and only without a failure. |

Two assumptions are built into the data rather than stated as `ASSUME`:
signatures name who made them and over what (nobody signs for another), and
digests stand for what was hashed (SHA-256 tells inputs apart).

`FlattenSeq` of the library is a recursive function: that it lays the parts of a
sequence out one after the other is proved by the least length for which it would not
(`LeastNumber`, from the well-foundedness of the natural numbers), once for the lines
of an entry, of a step and of a file (`FlattenLaid`).

Model-checked only:

* Liveness: `SpokenTurnSettles`, `ConnectSettlesWhenQuiet`, `RerunsComplete`.
* The findings: they are counterexamples.

The type invariants of `ArtifactStore`, `ReceiptVerifier`, `EvidenceLog` and
`ReleaseGate` are proved and not run.

## 5. Not modelled

* Voice configuration, instruction boundary, URL and header composition: checks on
  the characters of strings, without state; that a configuration is refused is
  `Misconfigured`.
* `pilot.py` and `run_pilot_evidence.py` beyond how they build a record
  (`EvidenceLog!Issue`): they print a report.
* Of the Go core: `Decide`, `receipt.Validate`, `ResolveActiveForAlg`, the digest
  check and `cmd/sentinel` are tables of constants and field checks; a model could
  only repeat them.
* Of the release job: the ref check, the secret scan, the JSON check, the set-up
  steps and the other fields of `release-evidence.json`. The other workflows are
  linear jobs.
* A temporary file that comes and goes between two steps of the release job; a
  leftover process that restores what it changed.
* Azure's eventual consistency: what a create has made, the next list or show of the
  bootstrap script sees. A resource group is there or not; what becomes of its tags is
  not followed.
* The conversation a prompt is spoken into holds it or does not: `NoReplay` is about a
  prompt in two conversations, not about one spoken into the same twice.
* Workflow files in flow style, with anchors or several documents: the validator
  refuses ambiguous keys line by line, the model has only the classes.
* Inside the modelled parts: the bytes of JSON, base64, WAV and PEM, the schema
  file, SHA-256, ECDSA and Ed25519, wall-clock time (a record's time is a number
  or cannot be parsed), wording of errors and warnings.

## 6. Plan

All parts with a state or a protocol of their own are modelled, and every safety
property and refinement that a passing run checks is proved; liveness is left to TLC.
What could still be added:

1. `Decide`, `receipt.Validate` and `ResolveActiveForAlg` of the Go core, should they
   come to keep a state.
2. The character level of the workflow validator (`_without_yaml_comment` and the
   regular expressions), which the classes of lines take for granted.
