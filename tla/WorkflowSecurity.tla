-------------------------- MODULE WorkflowSecurity --------------------------
(***************************************************************************)
(* validate_workflow_text (src/src/sentinel_core/workflow_security.py): a  *)
(* validator that reads a workflow file line by line, without a YAML       *)
(* parser, and has to refuse what GitHub would read otherwise.  It does so *)
(* for the steps it finds; it finds none behind a dash alone on its line.  *)
(*                                                                         *)
(* A line stands for its class under the module's regular expressions once *)
(* its comment is removed.  The workflow a file means is its jobs' steps;  *)
(* Rendered writes it down the way block-style YAML allows.                *)
(***************************************************************************)
EXTENDS Naturals, FiniteSets, SequencesExt

CONSTANT Workflows   \* what the validator may be given, a subset of Files

\* key "blank": nothing but a comment; "none": a dash alone; "murky": a uses or
\* persist-credentials key that is quoted, in flow style or without a value.
Keys == {"uses", "with", "persist", "murky", "other"}
Line(indent, dash, key, value) ==
    [indent |-> indent, dash |-> dash, key |-> key, value |-> value]

\* "checkout" and "action" are pinned to a commit, "local" is a path, "loose" neither.
UsesValues == {"checkout", "action", "local", "loose"}

\* A step is a sequence of entries; the children of an entry are one level deeper,
\* a "nest" has a persist-credentials: false another level down.
Child == [key : {"persist", "murky", "other", "nest"}, value : {"true", "false", ""}]
StepEntry == [key : Keys, value : UsesValues \cup {"true", "false", ""}, children : Seq(Child)]
\* bare: the dash that opens the step is alone on its line.
Step == [bare : BOOLEAN, entries : Seq(StepEntry)]
\* called: the workflow another job of the file calls, if any; gaps: comments
\* between the lines.
Files == [steps : Seq(Step), called : {"none", "action", "loose"}, gaps : BOOLEAN]

ASSUME WorkflowsAssumption == Workflows \subseteq Files

----------------------------------------------------------------------------
(* The lines of a file: steps at one level, their keys at two, and so on.  *)

RenderedChild(c) ==
    IF c.key = "nest" THEN <<Line(3, FALSE, "other", ""), Line(4, FALSE, "persist", "false")>>
    ELSE <<Line(3, FALSE, c.key, c.value)>>

\* The first entry stands on the line of the dash.
RenderedEntry(e, first) ==
    <<IF first THEN Line(1, TRUE, e.key, e.value) ELSE Line(2, FALSE, e.key, e.value)>>
    \o FlattenSeq([i \in DOMAIN e.children |-> RenderedChild(e.children[i])])

RenderedStep(s, gaps) ==
    (IF s.bare THEN <<Line(1, TRUE, "none", "")>> ELSE <<>>)
    \o FlattenSeq([i \in DOMAIN s.entries |->
                      RenderedEntry(s.entries[i], i = 1 /\ ~s.bare)
                      \o (IF gaps THEN <<Line(0, FALSE, "blank", "")>> ELSE <<>>)])

Rendered(f) ==
    (IF f.called = "none" THEN <<>>
     ELSE <<Line(0, FALSE, "other", ""), Line(1, FALSE, "uses", f.called)>>)
    \o <<Line(0, FALSE, "other", "")>>
    \o FlattenSeq([i \in DOMAIN f.steps |-> RenderedStep(f.steps[i], f.gaps)])

----------------------------------------------------------------------------
(* The regular expressions *)

Blank(l) == l.key = "blank"
UsesLine(l) == l.key = "uses"
WithLine(l) == l.key = "with" /\ ~l.dash
PersistLine(l) == l.key = "persist" /\ ~l.dash
StepStart(l) == l.dash /\ l.key # "none"

\* The first loop refuses ambiguous syntax and actions that are not pinned.
LineRefused(l) == \/ l.key = "murky"
                  \/ l.key = "persist" /\ l.dash
                  \/ UsesLine(l) /\ l.value = "loose"

----------------------------------------------------------------------------
(* _step_bounds, _mapping_bounds, _validate_checkout_inputs: a block is the set *)
(* of indices it covers.                                                        *)

NoBlock == {}

\* The indices from start up to the first line that ends the block.
Until(lines, start, last, ends(_)) ==
    {i \in start .. last : \A j \in start + 1 .. i : ends(lines[j]) => Blank(lines[j])}

\* The step's first line: the one with the dash, found upwards from the uses line.
StepFirst(lines, u) ==
    IF lines[u].dash THEN {u}
    ELSE {k \in 1 .. u - 1 :
            /\ ~Blank(lines[k]) /\ StepStart(lines[k]) /\ lines[k].indent < lines[u].indent
            /\ \A j \in k + 1 .. u - 1 : Blank(lines[j]) \/ lines[j].indent >= lines[u].indent}

\* A bug: the next dash at the same level does not end a step.
Mut_EndsStep(l, level) == l.indent < level
EndsStep(l, level) == l.indent < level \/ (StepStart(l) /\ l.indent = level)

StepBounds(lines, u) ==
    IF StepFirst(lines, u) = {} THEN NoBlock
    ELSE LET start == CHOOSE k \in StepFirst(lines, u) : TRUE
             ends(l) == EndsStep(l, lines[start].indent)
         IN  Until(lines, start, Len(lines), ends)

MappingBounds(lines, w, block) ==
    LET ends(l) == l.indent <= lines[w].indent
    IN  Until(lines, w, Max(block), ends) \ {w}

\* A bug: persist-credentials counts at any depth below with.
Mut_Direct(lines, content) == {i \in content : PersistLine(lines[i])}
\* The persist-credentials among the direct inputs of a with mapping.
Direct(lines, content) ==
    {i \in content : /\ PersistLine(lines[i])
                     /\ \A j \in content : Blank(lines[j])
                                           \/ lines[i].indent <= lines[j].indent}

CheckoutInputsOK(lines, u, block) ==
    \E w \in block :
       /\ {i \in block : WithLine(lines[i]) /\ lines[i].indent = lines[u].indent} = {w}
       /\ LET content == MappingBounds(lines, w, block)
              direct == Direct(lines, content)
          IN  /\ {i \in block : PersistLine(lines[i])} \subseteq content
              /\ Cardinality(direct) = 1
              /\ \A i \in direct : lines[i].value = "false"

StepOK(lines, block) ==
    LET uses == {i \in block : UsesLine(lines[i])}
    IN  /\ Cardinality(uses) <= 1
        /\ \A u \in uses : lines[u].value = "checkout" => CheckoutInputsOK(lines, u, block)

----------------------------------------------------------------------------
(* validate_workflow_text *)

VARIABLES file,     \* what the lines mean
          lines,    \* text.splitlines()
          failed,   \* whether failures is non-empty
          read,     \* whether the first loop is over
          toCheck,  \* allowed_uses still to be looked at, in their order
          checked   \* checked_steps

workflowVars == <<file, lines, failed, read, toCheck, checked>>

WorkflowInit == /\ file \in Workflows /\ lines = Rendered(file)
                /\ failed = FALSE /\ read = FALSE /\ toCheck = {} /\ checked = {}

ReadLines ==
    /\ ~read /\ read' = TRUE
    /\ failed' = \E i \in DOMAIN lines : LineRefused(lines[i])
    /\ toCheck' = {i \in DOMAIN lines : UsesLine(lines[i])}
    /\ UNCHANGED <<file, lines, checked>>

\* Job-level uses has no step around it, nor, for _step_bounds, has the uses of a step
\* under a bare dash; a step is looked at once.
Known(block) == block = NoBlock \/ block \in checked

CheckUses ==
    /\ toCheck # {}
    /\ LET block == StepBounds(lines, Min(toCheck)) IN
       IF Known(block) THEN UNCHANGED <<failed, checked>>
       ELSE /\ checked' = checked \cup {block}
            /\ failed' = (failed \/ ~StepOK(lines, block))
    /\ toCheck' = toCheck \ {Min(toCheck)}
    /\ UNCHANGED <<file, lines, read>>

WorkflowNext == ReadLines \/ CheckUses

WorkflowSpec == WorkflowInit /\ [][WorkflowNext]_workflowVars

----------------------------------------------------------------------------
(* Properties *)

Validated == read /\ toCheck = {}

Of(s, key) == {i \in DOMAIN s.entries : s.entries[i].key = key}
\* A dash alone on its line opens no step for _step_bounds: the step is not found, its
\* uses is not looked at again, and its lines count as those of the step before.
Found(s) == ~s.bare
\* GitHub refuses a file in which a step gives with twice, or gives it to no action.
Readable(s) == /\ Cardinality(Of(s, "with")) <= 1
               /\ Of(s, "with") # {} => Of(s, "uses") # {}
PersistIn(e) == {i \in DOMAIN e.children : e.children[i].key = "persist"}

\* What GitHub would do with a step: pinned code, and a checkout that leaves no
\* credentials behind.
StepSafe(s) ==
    /\ Of(s, "murky") = {} /\ Cardinality(Of(s, "uses")) <= 1
    /\ \A u \in Of(s, "uses") :
          /\ s.entries[u].value # "loose"
          /\ s.entries[u].value = "checkout" =>
                \E w \in DOMAIN s.entries :
                   /\ Of(s, "with") = {w}
                   /\ \E p \in PersistIn(s.entries[w]) :
                         /\ PersistIn(s.entries[w]) = {p}
                         /\ s.entries[w].children[p].value = "false"

\* An accepted file runs pinned code only, and every checkout in a step that the validator
\* finds drops its credentials, whatever the order, depth and number of the keys: no line
\* of one step answers for another, and a persist-credentials that is not the checkout's
\* own input answers for nothing.  It is not claimed of a checkout under a bare dash:
\* _step_bounds returns None for it, and the code accepts it unchecked, although the
\* docstring of workflow_security.py speaks of "Fail-closed validation".
FailClosed ==
    Validated /\ ~failed =>
       /\ file.called # "loose"
       /\ \A i \in DOMAIN file.steps : \A u \in Of(file.steps[i], "uses") :
             file.steps[i].entries[u].value # "loose"
       /\ (\A i \in DOMAIN file.steps : Readable(file.steps[i])) =>
             \A i \in DOMAIN file.steps : Found(file.steps[i]) => StepSafe(file.steps[i])

\* The style of the repository's own workflows: a named step, its uses on a line of
\* its own, one with mapping.
HouseStyle(s) ==
    /\ ~s.bare /\ s.entries # <<>> /\ s.entries[1].key = "other"
    /\ \A i \in DOMAIN s.entries :
          /\ s.entries[i].key # "persist"
          /\ s.entries[i].key # "with" => PersistIn(s.entries[i]) = {}
          /\ \A c \in DOMAIN s.entries[i].children :
                s.entries[i].children[c].key \in {"persist", "other"}

\* What is safe and written in that style is accepted: no step is judged by the
\* lines of another.
AcceptsHouseStyle ==
    /\ Validated /\ file.called # "loose"
    /\ \A i \in DOMAIN file.steps : StepSafe(file.steps[i]) /\ HouseStyle(file.steps[i])
    => ~failed
=============================================================================
