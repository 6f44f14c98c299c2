------------------------------ MODULE ChainEditor ------------------------------
(***************************************************************************)
(* The visual builder of a CARL chain (web_ui/components/                  *)
(* create_carl_experiment.py), one browser session, and what becomes of    *)
(* the frozen steps: the experiment it submits, the Master's check, and    *)
(* the program the folder constructor writes (chain_experiment_builder.py),*)
(* which restores them after every mutation of the chain.                  *)
(*                                                                         *)
(* A click runs one handler on the list of steps and the step chosen in    *)
(* the drop-down.  When a handler, or the user, changes the drop-down's    *)
(* value, the browser sends a change event that opens the chosen step in   *)
(* the form; other clicks may come before it.  Events on their way at the  *)
(* same time count as one, the last.                                       *)
(***************************************************************************)
EXTENDS Naturals, Sequences, FiniteSets, SequencesExt

CONSTANTS
    None,
    Loads,    \* the chains that templates and the JSON editor hold
    Limits,   \* the values of the chain size limit, 0 for no limit
    MaxSteps, \* bound on the length of the chain
    MaxIds,   \* bound on the steps added to a chain
    MaxSaves, \* bound on the steps saved
    MaxEvolved \* bound on the length of a mutated chain

ASSUME ChainEditorAssumption ==
    /\ Limits \subseteq Nat /\ MaxIds \in Nat /\ MaxSteps \in 0..MaxIds
    /\ MaxSaves \in Nat /\ MaxEvolved \in Nat
    /\ Loads \subseteq Seq([number : 1..MaxSteps, deps : SUBSET (1..MaxSteps), frozen : BOOLEAN])
    /\ \A load \in Loads : Len(load) \in 1..MaxSteps

VARIABLES
    steps,   \* steps_state
    choice,  \* selected_step_dropdown: the label of the step
    editing, \* current_editing_step, from 1; 0 for None
    form,    \* the step form, None while it is hidden
    pending, \* a change event of the drop-down is on its way
    ids,     \* how many steps have been told apart
    saves,   \* how many steps have been saved
    late,    \* history: the form was saved before that event
    submitted, \* the experiment that was created
    program  \* the chain its program evaluates

vars == <<steps, choice, editing, form, pending, ids, saves, late, submitted, program>>
experiment == <<submitted, program>>

Numbers(chain) == {chain[k].number : k \in DOMAIN chain}
Positions(chain) == \A k \in DOMAIN chain : chain[k].number = k
\* id tells a step from the others; text is what its title and the fields of the form say.
Step == [id : 1..MaxIds, text : 0..MaxIds, number : Nat, deps : SUBSET Nat, frozen : BOOLEAN]
Label == [number : Nat, text : 0..MaxIds, frozen : BOOLEAN]
NoLabel == [number |-> 0, text |-> 0, frozen |-> FALSE]
Evolved == [number : Nat, deps : SUBSET Nat, text : 0..MaxIds]
Modes == {"full_chain", "single_step"}

ASSUME NoneAssumption ==
    /\ None \notin [chain : Seq(Evolved), frozen : SUBSET Nat, mode : Modes]
    /\ None \notin Seq(Evolved)
    /\ None \notin [text : 0..MaxIds, offered : SUBSET Nat]

TypeOK ==
    /\ steps \in Seq(Step) /\ Len(steps) <= MaxSteps
    /\ choice \in Label
    /\ editing \in 0..Len(steps)
    /\ form = None \/ form \in [text : 0..MaxIds, offered : SUBSET Nat]
    /\ (form = None => editing = 0)
    /\ pending \in BOOLEAN /\ late \in BOOLEAN
    /\ ids \in 0..MaxIds /\ saves \in 0..MaxSaves
    /\ submitted = None \/ submitted \in [chain : Seq(Evolved), frozen : SUBSET Numbers(steps),
                                          mode : Modes]
    /\ program = None \/ program \in Seq(Evolved)

Init ==
    /\ steps = <<>> /\ choice = NoLabel /\ editing = 0 /\ form = None
    /\ pending = FALSE /\ ids = 0 /\ saves = 0 /\ late = FALSE
    /\ submitted = None /\ program = None

----------------------------------------------------------------------------
DefaultStep(id, number) ==
    [id |-> id, text |-> id, number |-> number,
     deps |-> IF number = 1 THEN {} ELSE {number - 1}, frozen |-> FALSE]

LabelOf(chain, k) ==
    [number |-> chain[k].number, text |-> chain[k].text, frozen |-> chain[k].frozen]
Choose(label) == choice' = label /\ pending' = (pending \/ label # choice)

\* The drop-down's number is used as a position.
Chosen == choice.number
Valid == Chosen \in DOMAIN steps
At(k) == k = Chosen
Renumber(chain) == [k \in DOMAIN chain |-> [chain[k] EXCEPT !.number = k]]
Within(limit) == limit = 0 \/ Len(steps) < limit

\* The form offers the other steps as dependencies.
FormOf(chain, text, number) == [text |-> text, offered |-> Numbers(chain) \ {number}]

\* Open for no step: nothing is saved from it.
Idle == [text |-> 0, offered |-> {}]

Editing == submitted = None /\ UNCHANGED experiment
Saving == saves < MaxSaves /\ saves' = saves + 1

AddStep ==
    /\ Editing /\ UNCHANGED <<saves, late>>
    /\ \/ /\ \E limit \in Limits : Within(limit)
          /\ Len(steps) < MaxSteps /\ ids < MaxIds
          /\ ids' = ids + 1
          /\ steps' = Append(steps, DefaultStep(ids + 1, Len(steps) + 1))
          /\ Choose(LabelOf(steps', Len(steps'))) /\ editing' = Len(steps')
          /\ form' = FormOf(steps', ids + 1, Len(steps'))
       \/ /\ \E limit \in Limits : ~Within(limit)
          /\ editing' = 0 /\ form' = Idle
          /\ UNCHANGED <<steps, choice, pending, ids>>

\* The user chooses another step, or the edit button or the event opens it.
Select ==
    /\ Editing
    /\ \E k \in DOMAIN steps : Choose(LabelOf(steps, k))
    /\ UNCHANGED <<steps, editing, form, ids, saves, late>>

\* Mutant of EditStep: the number is taken for an index that counts from zero.
EditStepOffByOne ==
    /\ Editing
    /\ pending' \in {pending, FALSE}
    /\ \/ /\ Valid /\ Chosen < Len(steps)
          /\ editing' = Chosen + 1 /\ form' = FormOf(steps, steps[Chosen].text, Chosen)
       \/ ~Valid /\ editing' = 0 /\ form' = None
    /\ UNCHANGED <<steps, choice, ids, saves, late>>

EditStep ==
    /\ Editing
    /\ pending' \in {pending, FALSE}
    /\ \/ /\ Valid
          /\ editing' = Chosen /\ form' = FormOf(steps, steps[Chosen].text, Chosen)
       \/ ~Valid /\ editing' = 0 /\ form' = None
    /\ UNCHANGED <<steps, choice, ids, saves, late>>

ToggleFreeze ==
    /\ Editing /\ Valid
    /\ steps' = [steps EXCEPT ![Chosen].frozen = ~@]
    /\ Choose(LabelOf(steps', Chosen))
    /\ UNCHANGED <<editing, form, ids, saves, late>>

----------------------------------------------------------------------------
\* Numbers after n move down by one.
Shifted(deps, n) == {IF d > n THEN d - 1 ELSE d : d \in deps \ {n}}
LastLabel(chain) == IF chain = <<>> THEN NoLabel ELSE LabelOf(chain, Len(chain))

\* Mutant of RemoveStep: the dependencies stay as they are, as in the other chain editor.
RemoveStepUnshifted ==
    /\ Editing /\ Valid
    /\ steps' = Renumber(RemoveAt(steps, Chosen))
    /\ Choose(LastLabel(steps'))
    /\ editing' = 0 /\ form' = None
    /\ UNCHANGED <<ids, saves, late>>

\* Mutant of RemoveStep: the form stays open.
RemoveStepEditing ==
    /\ Editing /\ Valid
    /\ steps' = LET left == RemoveAt(steps, Chosen)
                IN  [k \in DOMAIN left |-> [left[k] EXCEPT !.number = k, !.deps = Shifted(@, Chosen)]]
    /\ Choose(LastLabel(steps'))
    /\ UNCHANGED <<editing, form, ids, saves, late>>

RemoveStep ==
    /\ Editing
    /\ \/ /\ Valid
          /\ steps' = LET left == Renumber(RemoveAt(steps, Chosen))
                      IN  [k \in DOMAIN left |-> [left[k] EXCEPT !.deps = Shifted(@, Chosen)]]
          /\ Choose(LastLabel(steps'))
       \/ ~Valid /\ UNCHANGED <<steps, choice, pending>>
    /\ editing' = 0 /\ form' = None
    /\ UNCHANGED <<ids, saves, late>>

\* The steps change places, the numbers and with them the dependencies stay in theirs.
Swap(k, l) ==
    /\ Editing
    /\ k \in DOMAIN steps /\ l \in DOMAIN steps
    /\ steps' = Renumber([steps EXCEPT ![k] = steps[l], ![l] = steps[k]])
    /\ Choose(LabelOf(steps', l))
    /\ UNCHANGED <<editing, form, ids, saves, late>>

MoveStepUp == Chosen > 1 /\ Swap(Chosen, Chosen - 1)
MoveStepDown == Swap(Chosen, Chosen + 1)

DuplicateStep ==
    /\ Editing /\ Valid
    /\ \E limit \in Limits : Within(limit)
    /\ Len(steps) < MaxSteps /\ ids < MaxIds
    /\ ids' = ids + 1
    /\ LET copy == [steps[Chosen] EXCEPT !.id = ids + 1, !.text = ids + 1, !.frozen = FALSE]
       IN  steps' = Renumber(InsertAt(steps, Chosen + 1, copy))
    /\ Choose(LabelOf(steps', Chosen + 1))
    /\ UNCHANGED <<editing, form, saves, late>>

SaveStep ==
    /\ Editing /\ form # None
    /\ form' = None /\ editing' = 0
    /\ \/ editing = 0 /\ UNCHANGED <<steps, choice, pending, saves, late>>
       \/ /\ editing # 0 /\ Saving
          /\ \E deps \in SUBSET form.offered, frozen \in BOOLEAN :
                steps' = [steps EXCEPT ![editing].text = form.text, ![editing].deps = deps,
                                       ![editing].frozen = frozen]
          /\ choice' = LabelOf(steps', editing)
          /\ pending' \in {pending \/ choice' # choice, TRUE} \* TRUE when the title has changed
          /\ late' = (late \/ pending)
    /\ UNCHANGED ids

CancelStep ==
    /\ Editing /\ form # None
    /\ form' = None /\ editing' = 0
    /\ UNCHANGED <<steps, choice, pending, ids, saves, late>>

\* A template, or the JSON editor's text with whatever numbers it gives the steps.  A text without
\* steps closes the form; one that is no JSON leaves it open, for no step.
ApplySteps(load) ==
    /\ Editing
    /\ \/ /\ steps' = [k \in DOMAIN load |->
                          [id |-> k, text |-> k, number |-> load[k].number, deps |-> load[k].deps,
                           frozen |-> load[k].frozen]]
          /\ ids' = Len(load)
          /\ Choose(LabelOf(steps', 1))
          /\ form' = None /\ late' = FALSE
       \/ /\ form' = None \/ (form # None /\ form' = Idle)
          /\ UNCHANGED <<steps, ids, choice, pending, late>>
    /\ editing' = 0 /\ UNCHANGED saves

Clean ==
    /\ Editing
    /\ steps' = <<>> /\ ids' = 0
    /\ Choose(NoLabel)
    /\ editing' = 0 /\ form' = None
    /\ late' = FALSE /\ UNCHANGED saves

----------------------------------------------------------------------------
Bare(step) == [number |-> step.number, deps |-> step.deps, text |-> step.text]
FrozenNumbers == {steps[k].number : k \in {k \in DOMAIN steps : steps[k].frozen}}

\* The route's check of the chain.
Accepted(limit) == /\ Len(steps) > 0 /\ (limit = 0 \/ Len(steps) <= limit)
                   /\ FrozenNumbers \subseteq Numbers(steps)

\* The session, which goes on unchanged, is not followed any further.
Create ==
    /\ submitted = None
    /\ \E limit \in Limits : Accepted(limit)
    /\ \E mode \in Modes :
          /\ mode = "single_step" => \E n \in DOMAIN steps : n \notin FrozenNumbers
          /\ submitted' = [chain |-> [k \in DOMAIN steps |-> Bare(steps[k])],
                           frozen |-> FrozenNumbers, mode |-> mode]
    /\ program' = submitted'.chain
    /\ choice' = NoLabel /\ editing' = 0 /\ form' = None
    /\ pending' = FALSE /\ ids' = 0 /\ saves' = 0
    /\ UNCHANGED <<steps, late>>

\* What a mutation makes of the chain: any numbers, other texts.
Mutations == BoundedSeq([number : 1..MaxSteps, deps : {{}}, text : {0}], MaxEvolved)

\* The steps sorted by their numbers, those with the same number as they were.
Precedes(chain, k, l) == \/ chain[k].number < chain[l].number
                         \/ chain[k].number = chain[l].number /\ k <= l
Place(chain, k) == Cardinality({l \in DOMAIN chain : Precedes(chain, l, k)})
InOrder(chain) ==
    [n \in DOMAIN chain |-> chain[CHOOSE k \in DOMAIN chain : Place(chain, k) = n]]

Original(n) == submitted.chain[CHOOSE k \in DOMAIN submitted.chain :
                  /\ submitted.chain[k].number = n
                  /\ \A l \in DOMAIN submitted.chain : submitted.chain[l].number = n => l <= k]

Kept(chain) == [k \in DOMAIN chain |-> IF chain[k].number \in submitted.frozen
                                       THEN Original(chain[k].number) ELSE chain[k]]

\* Mutant of ApplyFrozenSteps: a frozen step the mutation removed is not restored.
ApplyFrozenStepsPresent(chain) == InOrder(Kept(chain))

\* _apply_frozen_steps: a step with the number of a frozen one is replaced by it, and those
\* whose number is missing are added.
ApplyFrozenSteps(chain) ==
    LET missing == SetToSeq(submitted.frozen \ Numbers(chain))
    IN  InOrder(Kept(chain) \o [k \in DOMAIN missing |-> Original(missing[k])])

\* A chain that is no JSON is replaced by the submitted one.  Nothing is restored after the
\* evolution of a single step, or when no step is frozen.
Evolve ==
    /\ submitted # None
    /\ \/ \E chain \in Mutations :
             program' = IF submitted.mode = "full_chain" /\ submitted.frozen # {}
                        THEN ApplyFrozenSteps(chain) ELSE chain
       \/ program' = submitted.chain
    /\ UNCHANGED <<steps, choice, editing, form, pending, ids, saves, late, submitted>>

Next ==
    \/ AddStep \/ Select \/ EditStep \/ ToggleFreeze \/ RemoveStep
    \/ MoveStepUp \/ MoveStepDown \/ DuplicateStep
    \/ SaveStep \/ CancelStep \/ Clean \/ Create \/ Evolve
    \/ \E load \in Loads : ApplySteps(load)

Spec == Init /\ [][Next]_vars

----------------------------------------------------------------------------
\* What the form says of one step is never saved to another, unless it is saved between a
\* move, a copy or another choice and the event that opens the chosen step.
SavesOwn == late \/ \A k \in DOMAIN steps : steps[k].text = steps[k].id

\* The steps a step depends on, 0 for one that does not exist.
IdsOf(chain, k) ==
    {IF d \in DOMAIN chain THEN chain[d].id ELSE 0 : d \in chain[k].deps}
Ids(chain) == {chain[k].id : k \in DOMAIN chain}
Sound(chain) == /\ Positions(chain)
                /\ \A k \in DOMAIN chain : chain[k].deps \subseteq DOMAIN chain

\* As far as they are left, a step goes on depending on the same steps.
Follow(old, new) ==
    \A k \in DOMAIN old, l \in DOMAIN new :
       old[k].id = new[l].id => IdsOf(new, l) = IdsOf(old, k) \cap Ids(new)

\* The chain stays numbered from 1, without gaps, and its dependencies refer to its steps,
\* whatever is added, removed, copied, moved or saved.  Except for copies and moves, a step
\* goes on depending on the same steps, as far as they are left.
Following ==
    /\ Sound(steps) /\ steps' # steps
    /\ \/ AddStep \/ ToggleFreeze \/ RemoveStep \/ MoveStepUp \/ MoveStepDown \/ DuplicateStep
       \/ SaveStep /\ ~pending
    => /\ Sound(steps')
       /\ AddStep \/ ToggleFreeze \/ RemoveStep => Follow(steps, steps')
DependenciesFollow == [][Following]_vars

Distinct == \A k, l \in DOMAIN steps : steps[k].number = steps[l].number => k = l
FullChain == program # None /\ submitted.mode = "full_chain" /\ Distinct

\* A step that was frozen when the experiment was created is in every chain that is evaluated,
\* as it was, and whatever else has its number there is another copy of it, if the numbers told
\* the steps apart.
FrozenKept ==
    FullChain =>
       \A k \in DOMAIN steps : steps[k].frozen =>
          LET same == {j \in DOMAIN program : program[j].number = steps[k].number}
          IN  same # {} /\ \A j \in same : program[j] = Bare(steps[k])

\* "Any evolved step whose number collides with a frozen step number is dropped": a frozen step
\* is evaluated once, however often a mutation uses its number.
CollidingDropped ==
    FullChain =>
       \A j, k \in DOMAIN program :
          program[j].number = program[k].number /\ program[j].number \in submitted.frozen => j = k
=============================================================================
