----------------------------- MODULE MCVerifiers -----------------------------
(***************************************************************************)
(* The programs that look at something once and give a verdict, each on    *)
(* inputs of its own: the receipt verifier, the workflow validator, the    *)
(* release gate, the Go chain verifier and the Azure CLI signer.  One      *)
(* program runs in a behaviour; the others stand still at one state.       *)
(***************************************************************************)
EXTENDS MCReceiptVerifier, ReleaseGate, GoChain, AzureCliSigner

VARIABLE program

----------------------------------------------------------------------------
(* Workflows: one step of up to three keys in any order, alone or followed by *)
(* a step in the style of the repository.                                     *)

E(key, value, children) == [key |-> key, value |-> value, children |-> children]
Persist(v) == [key |-> "persist", value |-> v]
Input(key) == [key |-> key, value |-> ""]

WithEntries ==
    {E("with", "", c) : c \in
        {<<>>, <<Persist("false")>>, <<Persist("true")>>, <<Input("murky")>>,
         <<Input("other"), Persist("false")>>, <<Persist("false"), Input("other")>>,
         <<Persist("false"), Persist("true")>>, <<Persist("false"), Persist("false")>>,
         <<Input("nest")>>, <<Input("nest"), Persist("false")>>}}
MCEntries == {E("other", "", <<>>), E("other", "", <<Persist("false")>>), E("murky", "", <<>>)}
             \cup {E("uses", v, <<>>) : v \in UsesValues} \cup WithEntries

Checkout == E("uses", "checkout", <<>>)
MCSteps ==
    [bare : BOOLEAN,
     entries : {<<e>> : e \in MCEntries} \cup (MCEntries \X MCEntries)
               \cup ({Checkout} \X MCEntries \X MCEntries)
               \cup (MCEntries \X {Checkout} \X MCEntries)
               \cup (MCEntries \X MCEntries \X {Checkout})]
House == [bare |-> FALSE, entries |-> <<E("other", "", <<>>), Checkout,
                                        E("with", "", <<Persist("false")>>)>>]

\* Steps that the validator does not tell from what precedes them.
Undashed == {[bare |-> TRUE, entries |-> es] :
                es \in {<<>>, <<E("with", "", <<Persist("false")>>)>>,
                        <<E("with", "", <<Persist("false")>>), E("uses", "action", <<>>)>>}}

Workflow(steps, called, gaps) == [steps |-> steps, called |-> called, gaps |-> gaps]
MCWorkflows == {Workflow(steps, called, gaps) :
                   steps \in {<<s>> : s \in MCSteps} \cup {<<s, House>> : s \in MCSteps}
                             \cup {<<s, t>> : s \in MCSteps, t \in Undashed},
                   called \in {"none", "action"}, gaps \in BOOLEAN}
               \cup {Workflow(<<House>>, "loose", FALSE)}

\* What FailClosed exempts: a checkout under a bare dash, with no inputs at all, has no
\* bounds, and no line of its file is refused.
Overlooked == Workflow(<<[bare |-> TRUE, entries |-> <<Checkout>>]>>, "none", FALSE)
ASSUME BareDashIsOverlooked ==
    LET ls == Rendered(Overlooked) IN
    /\ ~StepSafe(Overlooked.steps[1])
    /\ \A i \in DOMAIN ls : ~LineRefused(ls[i])
                            /\ UsesLine(ls[i]) => StepBounds(ls, i) = NoBlock

\* The gate is given two workflows: one it goes on with, one it ends at.
GateWorkflows == {Workflow(<<House>>, called, FALSE) : called \in {"action", "loose"}}

MCPaths == {"a", "b", "new"}
MCCommitted == {"a", "b"}

----------------------------------------------------------------------------
(* Go logs of up to three records, each chained to a record before it, to one   *)
(* that was there before, or to none.                                         *)

GoRecord(f, n, p, s) ==
    [form |-> f, sequence |-> n, previous |-> p, subject |-> s]
GoRecords(sequences, earlier, subjects) ==
    {GoRecord(f, n, p, s) : f \in {"sound", "unhashable", "invalid"}, n \in sequences,
                            p \in earlier \cup {Genesis}, s \in subjects}
Extended(logs, sequences, subjects) ==
    UNION {{Append(l, r) : r \in GoRecords(sequences, Entered([signatures |-> l]), subjects)}
           : l \in logs}
OneRecord == Extended({<<>>}, {1, 2}, {this, that})
TwoRecords == Extended(OneRecord, {1, 2}, {this, that})
\* One record put in the place of another under its successor.
Replaced == {<<l[1], m[2]>> : l \in OneRecord, m \in TwoRecords}
MCGoLogs == {<<>>} \cup OneRecord \cup Replaced \cup Extended(TwoRecords, {2, 3}, {this})

MCCallRequests == Contract!Requests
MCPrinted == Outputs

----------------------------------------------------------------------------
(* What a program that stands still looks like *)
IdleReceipts == /\ receipt = [body |-> Body(this, TRUE, "B", 1, {}, 4),
                              hash |-> None, signatures |-> <<>>]
                /\ registry = Base
                /\ pc = "policy" /\ errors = FALSE /\ next = 1
                /\ seen = {} /\ valid = 0 /\ matched = {} /\ status = "none"
IdleWorkflows == /\ file = Workflow(<<House>>, "action", FALSE) /\ lines = <<>>
                 /\ failed = FALSE /\ read = FALSE /\ toCheck = {} /\ checked = {}
IdleGate == IdleWorkflows /\ GateInit
IdleChain == /\ log = <<GoRecord("sound", 1, Genesis, this)>> /\ previousHash = Genesis
             /\ at = 1 /\ faults = {}
IdleSigner == /\ request = [alg |-> "ES256", key |-> "vault", digest |-> "raw32"]
              /\ calls = 1 /\ keySigned = 0 /\ reply = Waiting /\ az = "none" /\ vault = 0

VerifiersInit ==
    \/ program = "receipts" /\ Init /\ IdleGate /\ IdleChain /\ IdleSigner
    \/ program = "workflows" /\ WorkflowInit /\ GateInit /\ IdleReceipts /\ IdleChain /\ IdleSigner
    \/ /\ program = "gate" /\ file \in GateWorkflows /\ WorkflowInit /\ GateInit
       /\ IdleReceipts /\ IdleChain /\ IdleSigner
    \/ program = "chain" /\ ChainInit /\ IdleReceipts /\ IdleGate /\ IdleSigner
    \/ program = "signer" /\ AzureInit /\ IdleReceipts /\ IdleGate /\ IdleChain

VerifiersNext ==
    /\ UNCHANGED program
    /\ \/ program = "receipts" /\ Next /\ UNCHANGED <<workflowVars, gateVars, chainVars, azureVars>>
       \/ /\ program = "workflows" /\ WorkflowNext
          /\ UNCHANGED <<vars, gateVars, chainVars, azureVars>>
       \/ program = "gate" /\ GateNext /\ UNCHANGED <<vars, chainVars, azureVars>>
       \/ program = "chain" /\ ChainNext /\ UNCHANGED <<vars, workflowVars, gateVars, azureVars>>
       \/ program = "signer" /\ AzureNext /\ UNCHANGED <<vars, workflowVars, gateVars, chainVars>>

VerifiersSpec ==
    VerifiersInit /\ [][VerifiersNext]_<<program, vars, workflowVars, gateVars, chainVars, azureVars>>
=============================================================================
