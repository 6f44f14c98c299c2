--------------------------- MODULE ChainEditorProofs ---------------------------
(***************************************************************************)
(* The editor's properties, and what becomes of the frozen steps of the    *)
(* experiment it submits, for chains of any length and sessions of any     *)
(* number of clicks.                                                       *)
(***************************************************************************)
EXTENDS ChainEditor, SequenceTheorems, FiniteSetTheorems, TLAPS

----------------------------------------------------------------------------
(* Sequences. *)

LEMMA RemoveAtFacts ==
    ASSUME NEW S, NEW s \in Seq(S), NEW i \in 1..Len(s)
    PROVE  /\ RemoveAt(s, i) \in Seq(S)
           /\ Len(RemoveAt(s, i)) = Len(s) - 1
           /\ \A k \in 1..Len(s) - 1 : RemoveAt(s, i)[k] = IF k < i THEN s[k] ELSE s[k + 1]
<1> DEFINE a == SubSeq(s, 1, i - 1)
           b == SubSeq(s, i + 1, Len(s))
<1>1. Len(s) \in Nat /\ i \in Nat /\ i >= 1 /\ i <= Len(s)
  OBVIOUS
<1>2. a \in Seq(S) /\ Len(a) = i - 1 /\ \A k \in 1..i - 1 : a[k] = s[k]
  BY <1>1
<1>3. b \in Seq(S) /\ Len(b) = Len(s) - i /\ \A k \in 1..Len(s) - i : b[k] = s[i + k]
  BY <1>1
<1> HIDE DEF a, b
<1>4. /\ a \o b \in Seq(S) /\ Len(a \o b) = Len(s) - 1
      /\ \A k \in 1..Len(s) - 1 : (a \o b)[k] = IF k < i THEN s[k] ELSE s[k + 1]
  <2>1. a \o b \in Seq(S) /\ Len(a \o b) = Len(a) + Len(b)
    <3>1. a \in Seq(S) /\ b \in Seq(S)
      BY <1>2, <1>3
    <3> QED BY <3>1
  <2>2. ASSUME NEW k \in 1..Len(s) - 1, k < i
        PROVE  (a \o b)[k] = s[k]
    <3>1. k \in 1..i - 1 /\ k \in 1..Len(a) + Len(b) /\ k <= Len(a)
      BY <1>1, <1>2, <1>3, <2>2
    <3> QED BY <1>2, <1>3, <3>1
  <2>3. ASSUME NEW k \in 1..Len(s) - 1, ~(k < i)
        PROVE  (a \o b)[k] = s[k + 1]
    <3>1. k \in 1..Len(a) + Len(b) /\ ~(k <= Len(a)) /\ k - Len(a) \in 1..Len(s) - i
          /\ i + (k - Len(a)) = k + 1
      BY <1>1, <1>2, <1>3, <2>3
    <3>2. (a \o b)[k] = b[k - Len(a)]
      BY <1>2, <1>3, <3>1
    <3> QED BY <1>3, <3>1, <3>2
  <2>4. Len(a) + Len(b) = Len(s) - 1
    BY <1>1, <1>2, <1>3
  <2> QED BY <2>1, <2>2, <2>3, <2>4
<1> QED BY <1>4 DEF RemoveAt, a, b

LEMMA InsertAtFacts ==
    ASSUME NEW S, NEW s \in Seq(S), NEW e \in S, NEW i \in 1..Len(s) + 1
    PROVE  /\ InsertAt(s, i, e) \in Seq(S)
           /\ Len(InsertAt(s, i, e)) = Len(s) + 1
           /\ \A k \in 1..Len(s) + 1 :
                 InsertAt(s, i, e)[k] = IF k < i THEN s[k] ELSE IF k = i THEN e ELSE s[k - 1]
<1> DEFINE a == SubSeq(s, 1, i - 1)
           b == SubSeq(s, i, Len(s))
           c == a \o <<e>>
<1>1. Len(s) \in Nat /\ i \in Nat /\ i >= 1 /\ i <= Len(s) + 1
  OBVIOUS
<1>2. a \in Seq(S) /\ Len(a) = i - 1 /\ \A k \in 1..i - 1 : a[k] = s[k]
  BY <1>1
<1>3. b \in Seq(S) /\ Len(b) = Len(s) + 1 - i /\ \A k \in 1..Len(s) + 1 - i : b[k] = s[i + k - 1]
  BY <1>1
<1>4. <<e>> \in Seq(S) /\ Len(<<e>>) = 1 /\ <<e>>[1] = e
  OBVIOUS
<1> HIDE DEF a, b
<1>5. c \in Seq(S) /\ Len(c) = i /\ c[i] = e /\ \A k \in 1..i - 1 : c[k] = s[k]
  BY <1>1, <1>2, <1>4
<1> HIDE DEF c
<1>6. /\ c \o b \in Seq(S) /\ Len(c \o b) = Len(s) + 1
      /\ \A k \in 1..Len(s) + 1 : (c \o b)[k] = IF k < i THEN s[k] ELSE IF k = i THEN e ELSE s[k - 1]
  <2>1. c \o b \in Seq(S) /\ Len(c \o b) = Len(c) + Len(b)
    <3>1. c \in Seq(S) /\ b \in Seq(S)
      BY <1>3, <1>5
    <3> QED BY <3>1
  <2>2. ASSUME NEW k \in 1..Len(s) + 1, k <= i
        PROVE  (c \o b)[k] = IF k < i THEN s[k] ELSE e
    <3>1. k \in 1..Len(c) + Len(b) /\ k <= Len(c) /\ (k < i => k \in 1..i - 1) /\ (~(k < i) => k = i)
      BY <1>1, <1>3, <1>5, <2>2
    <3>2. (c \o b)[k] = c[k]
      BY <1>3, <1>5, <3>1
    <3> QED BY <1>5, <3>1, <3>2
  <2>3. ASSUME NEW k \in 1..Len(s) + 1, ~(k <= i)
        PROVE  (c \o b)[k] = s[k - 1]
    <3>1. k \in 1..Len(c) + Len(b) /\ ~(k <= Len(c)) /\ k - Len(c) \in 1..Len(s) + 1 - i
          /\ i + (k - Len(c)) - 1 = k - 1
      BY <1>1, <1>3, <1>5, <2>3
    <3>2. (c \o b)[k] = b[k - Len(c)]
      BY <1>3, <1>5, <3>1
    <3> QED BY <1>3, <3>1, <3>2
  <2>4. Len(c) + Len(b) = Len(s) + 1
    BY <1>1, <1>3, <1>5
  <2>5. \A k \in 1..Len(s) + 1 : (k < i => k <= i) /\ (k = i => k <= i /\ ~(k < i))
                                /\ (~(k < i) /\ k # i => ~(k <= i))
    BY <1>1
  <2> QED BY <2>1, <2>2, <2>3, <2>4, <2>5
<1> QED BY <1>6 DEF InsertAt, a, b, c

----------------------------------------------------------------------------
(* The inductive invariant. *)

\* The part of TypeOK that the editor's properties need.
EditorTypes ==
    /\ steps \in Seq(Step)
    /\ choice \in Label
    /\ editing \in 0..Len(steps)
    /\ form = None \/ form \in [text : 0..MaxIds, offered : SUBSET Nat]
    /\ pending \in BOOLEAN /\ late \in BOOLEAN
    /\ ids \in 0..MaxIds

\* No two steps have the same identity, and the next one is new.
ToldApart(chain, n) ==
    /\ \A k \in DOMAIN chain : chain[k].id <= n
    /\ \A k, l \in DOMAIN chain : chain[k].id = chain[l].id => k = l

\* The form shows the step it will be saved to, as long as no event is on its way, and offers
\* numbers that steps have.
FormFits ==
    editing # 0 /\ ~pending =>
       /\ form.text = steps[editing].text
       /\ form.offered \subseteq Numbers(steps)

OwnText(chain) == \A k \in DOMAIN chain : chain[k].text = chain[k].id

IInv ==
    /\ EditorTypes
    /\ submitted = None => ToldApart(steps, ids) /\ FormFits
    /\ SavesOwn

----------------------------------------------------------------------------
(* The steps after each operation. *)

LEMMA Types ==
    ASSUME NEW s \in Seq(Step)
    PROVE  /\ DOMAIN s = 1..Len(s) /\ Len(s) \in Nat /\ Numbers(s) \subseteq Nat
           /\ \A k \in 1..Len(s) :
                 /\ s[k] \in Step /\ s[k].id \in 1..MaxIds /\ s[k].id \in Nat
                 /\ s[k].text \in 0..MaxIds /\ s[k].number \in Nat /\ s[k].deps \in SUBSET Nat
                 /\ s[k].frozen \in BOOLEAN
<1>1. DOMAIN s = 1..Len(s) /\ Len(s) \in Nat
  OBVIOUS
<1>2. \A k \in 1..Len(s) : s[k] \in Step
  OBVIOUS
<1>3. \A step \in Step :
         /\ step.id \in 1..MaxIds /\ step.id \in Nat /\ step.text \in 0..MaxIds
         /\ step.number \in Nat /\ step.deps \in SUBSET Nat /\ step.frozen \in BOOLEAN
  BY DEF Step
<1> QED BY <1>1, <1>2, <1>3 DEF Numbers

LEMMA RenumberFacts ==
    ASSUME NEW s \in Seq(Step)
    PROVE  /\ Renumber(s) \in Seq(Step) /\ Len(Renumber(s)) = Len(s) /\ DOMAIN Renumber(s) = 1..Len(s)
           /\ \A k \in 1..Len(s) :
                 /\ s[k] \in Step
                 /\ Renumber(s)[k].id = s[k].id /\ Renumber(s)[k].text = s[k].text
                 /\ Renumber(s)[k].deps = s[k].deps /\ Renumber(s)[k].frozen = s[k].frozen
                 /\ Renumber(s)[k].number = k
<1>1. \A k \in 1..Len(s) : s[k] \in Step
  OBVIOUS
<1>2. \A k \in 1..Len(s) :
         /\ [s[k] EXCEPT !.number = k] \in Step
         /\ [s[k] EXCEPT !.number = k].id = s[k].id /\ [s[k] EXCEPT !.number = k].text = s[k].text
         /\ [s[k] EXCEPT !.number = k].deps = s[k].deps
         /\ [s[k] EXCEPT !.number = k].frozen = s[k].frozen
         /\ [s[k] EXCEPT !.number = k].number = k
  BY <1>1 DEF Step
<1>3. Renumber(s) = [k \in 1..Len(s) |-> [s[k] EXCEPT !.number = k]] /\ Len(s) \in Nat
  BY DEF Renumber
<1>4. Renumber(s) \in [1..Len(s) -> Step]
  BY <1>2, <1>3
<1>5. Renumber(s) \in Seq(Step) /\ Len(Renumber(s)) = Len(s)
  BY <1>3, <1>4, SeqDef
<1> QED BY <1>1, <1>2, <1>3, <1>5

\* Where the steps come from that a removal of step n leaves.
From(n, k) == IF k < n THEN k ELSE k + 1
Removed(s, n) == LET left == Renumber(RemoveAt(s, n))
                 IN  [k \in DOMAIN left |-> [left[k] EXCEPT !.deps = Shifted(@, n)]]

LEMMA RemoveFacts ==
    ASSUME NEW s \in Seq(Step), NEW n \in 1..Len(s)
    PROVE  LET r == Removed(s, n) IN
           /\ r \in Seq(Step) /\ Len(r) = Len(s) - 1 /\ DOMAIN r = 1..Len(s) - 1
           /\ \A k \in 1..Len(s) - 1 :
                 /\ From(n, k) \in 1..Len(s) /\ From(n, k) # n
                 /\ r[k].id = s[From(n, k)].id /\ r[k].text = s[From(n, k)].text
                 /\ r[k].deps = Shifted(s[From(n, k)].deps, n) /\ r[k].number = k
<1> DEFINE left == Renumber(RemoveAt(s, n))
           r == Removed(s, n)
<1>1. /\ RemoveAt(s, n) \in Seq(Step) /\ Len(RemoveAt(s, n)) = Len(s) - 1
      /\ \A k \in 1..Len(s) - 1 : RemoveAt(s, n)[k] = IF k < n THEN s[k] ELSE s[k + 1]
  BY RemoveAtFacts
<1>2. /\ left \in Seq(Step) /\ DOMAIN left = 1..Len(s) - 1
      /\ \A k \in 1..Len(s) - 1 :
            /\ left[k].id = RemoveAt(s, n)[k].id /\ left[k].text = RemoveAt(s, n)[k].text
            /\ left[k].deps = RemoveAt(s, n)[k].deps /\ left[k].number = k
  BY <1>1, RenumberFacts
<1>3. \A k \in 1..Len(s) - 1 :
         /\ From(n, k) \in 1..Len(s) /\ From(n, k) # n
         /\ RemoveAt(s, n)[k] = s[From(n, k)]
  BY <1>1 DEF From
<1>4. \A k \in 1..Len(s) - 1 : left[k] \in Step
  BY <1>2
<1> HIDE DEF left
<1>5. \A deps \in SUBSET Nat : Shifted(deps, n) \subseteq Nat
  BY DEF Shifted
<1>6. \A k \in 1..Len(s) - 1 :
         LET new == [left[k] EXCEPT !.deps = Shifted(@, n)]
         IN  /\ new \in Step
             /\ new.id = left[k].id /\ new.text = left[k].text /\ new.number = left[k].number
             /\ new.deps = Shifted(left[k].deps, n)
  BY <1>4, <1>5 DEF Step
<1>7. r = [k \in 1..Len(s) - 1 |-> [left[k] EXCEPT !.deps = Shifted(@, n)]]
  BY <1>2 DEF left, Removed
<1> HIDE DEF r
<1>8. Len(s) - 1 \in Nat /\ DOMAIN r = 1..Len(s) - 1
  BY <1>7
<1>9. r \in [1..Len(s) - 1 -> Step]
  BY <1>6, <1>7
<1>10. r \in Seq(Step) /\ Len(r) = Len(s) - 1
  BY <1>8, <1>9, SeqDef
<1>11. \A k \in 1..Len(s) - 1 :
          /\ r[k].id = left[k].id /\ r[k].text = left[k].text /\ r[k].number = left[k].number
          /\ r[k].deps = Shifted(left[k].deps, n)
  BY <1>6, <1>7
<1>12. \A k \in 1..Len(s) - 1 :
          /\ left[k].id = s[From(n, k)].id /\ left[k].text = s[From(n, k)].text
          /\ left[k].deps = s[From(n, k)].deps /\ left[k].number = k
  BY <1>2, <1>3 DEF left
<1> QED BY <1>3, <1>8, <1>10, <1>11, <1>12 DEF r

\* A copy is a new step behind step n; the others stay in order.
Copied(s, n, copy) == Renumber(InsertAt(s, n + 1, copy))
Before(n, k) == IF k < n + 1 THEN k ELSE k - 1

LEMMA DuplicateFacts ==
    ASSUME NEW s \in Seq(Step), NEW n \in 1..Len(s), NEW copy \in Step
    PROVE  LET r == Copied(s, n, copy) IN
           /\ r \in Seq(Step) /\ Len(r) = Len(s) + 1 /\ DOMAIN r = 1..Len(s) + 1
           /\ r[n + 1].id = copy.id /\ r[n + 1].text = copy.text /\ r[n + 1].deps = copy.deps
           /\ \A k \in 1..Len(s) + 1 :
                 /\ r[k].number = k
                 /\ k # n + 1 => /\ Before(n, k) \in 1..Len(s) /\ r[k].id = s[Before(n, k)].id
                                 /\ r[k].text = s[Before(n, k)].text
                                 /\ r[k].deps = s[Before(n, k)].deps
<1> DEFINE t == InsertAt(s, n + 1, copy)
           r == Copied(s, n, copy)
<1>1. n + 1 \in 1..Len(s) + 1
  OBVIOUS
<1>2. /\ t \in Seq(Step) /\ Len(t) = Len(s) + 1
      /\ \A k \in 1..Len(s) + 1 :
            t[k] = IF k < n + 1 THEN s[k] ELSE IF k = n + 1 THEN copy ELSE s[k - 1]
  <2> DEFINE i == n + 1
  <2>1. i \in 1..Len(s) + 1
    BY <1>1
  <2> HIDE DEF i
  <2>2. /\ InsertAt(s, i, copy) \in Seq(Step) /\ Len(InsertAt(s, i, copy)) = Len(s) + 1
        /\ \A k \in 1..Len(s) + 1 :
              InsertAt(s, i, copy)[k] = IF k < i THEN s[k] ELSE IF k = i THEN copy ELSE s[k - 1]
    BY <2>1, InsertAtFacts
  <2> QED BY <2>2 DEF i
<1> HIDE DEF t, r
<1>3. /\ r \in Seq(Step) /\ Len(r) = Len(s) + 1 /\ DOMAIN r = 1..Len(s) + 1
      /\ \A k \in 1..Len(s) + 1 :
            /\ r[k].id = t[k].id /\ r[k].text = t[k].text /\ r[k].deps = t[k].deps
            /\ r[k].number = k
  <2>1. t \in Seq(Step)
    BY <1>2
  <2>2. /\ Renumber(t) \in Seq(Step) /\ Len(Renumber(t)) = Len(t) /\ DOMAIN Renumber(t) = 1..Len(t)
        /\ \A k \in 1..Len(t) :
              /\ Renumber(t)[k].id = t[k].id /\ Renumber(t)[k].text = t[k].text
              /\ Renumber(t)[k].deps = t[k].deps /\ Renumber(t)[k].number = k
    BY <2>1, RenumberFacts
  <2>3. r = Renumber(t)
    BY DEF r, t, Copied
  <2> QED BY <1>2, <2>2, <2>3
<1>4. \A k \in 1..Len(s) + 1 : k # n + 1 => Before(n, k) \in 1..Len(s) /\ t[k] = s[Before(n, k)]
  BY <1>2 DEF Before
<1>5. t[n + 1] = copy
  BY <1>1, <1>2
<1>6. r[n + 1].id = copy.id /\ r[n + 1].text = copy.text /\ r[n + 1].deps = copy.deps
  BY <1>1, <1>3, <1>5
<1>7. \A k \in 1..Len(s) + 1 :
         k # n + 1 => /\ Before(n, k) \in 1..Len(s) /\ r[k].id = s[Before(n, k)].id
                      /\ r[k].text = s[Before(n, k)].text /\ r[k].deps = s[Before(n, k)].deps
  BY <1>3, <1>4
<1> QED BY <1>3, <1>6, <1>7 DEF r

Swapped(k, l, j) == IF j = l THEN k ELSE IF j = k THEN l ELSE j

Exchanged(s, k, l) == Renumber([s EXCEPT ![k] = s[l], ![l] = s[k]])

LEMMA SwapFacts ==
    ASSUME NEW s \in Seq(Step), NEW k \in 1..Len(s), NEW l \in 1..Len(s)
    PROVE  LET r == Exchanged(s, k, l) IN
           /\ r \in Seq(Step) /\ Len(r) = Len(s) /\ DOMAIN r = 1..Len(s)
           /\ \A j \in 1..Len(s) :
                 /\ r[j].number = j /\ Swapped(k, l, j) \in 1..Len(s)
                 /\ r[j].id = s[Swapped(k, l, j)].id /\ r[j].text = s[Swapped(k, l, j)].text
                 /\ r[j].deps = s[Swapped(k, l, j)].deps
<1> DEFINE t == [s EXCEPT ![k] = s[l], ![l] = s[k]]
<1>1. t \in Seq(Step) /\ Len(t) = Len(s)
  OBVIOUS
<1>2. \A j \in 1..Len(s) : Swapped(k, l, j) \in 1..Len(s) /\ t[j] = s[Swapped(k, l, j)]
  BY DEF Swapped
<1>3. Exchanged(s, k, l) = Renumber(t)
  BY DEF Exchanged
<1> HIDE DEF t
<1>4. /\ Renumber(t) \in Seq(Step) /\ Len(Renumber(t)) = Len(t) /\ DOMAIN Renumber(t) = 1..Len(t)
      /\ \A j \in 1..Len(t) :
            /\ Renumber(t)[j].id = t[j].id /\ Renumber(t)[j].text = t[j].text
            /\ Renumber(t)[j].deps = t[j].deps /\ Renumber(t)[j].number = j
  BY <1>1, RenumberFacts
<1> QED BY <1>1, <1>2, <1>3, <1>4

----------------------------------------------------------------------------
(* Each operation preserves the invariant. *)

\* What every operation of the editor keeps or sets.
LEMMA ChooseTypes ==
    ASSUME NEW s \in Seq(Step), NEW k \in 1..Len(s), pending \in BOOLEAN, Choose(LabelOf(s, k))
    PROVE  /\ choice' \in Label /\ pending' \in BOOLEAN /\ (pending => pending')
           /\ (s[k].number # choice.number => pending')
<1>1. s[k] \in Step
  OBVIOUS
<1>2. LabelOf(s, k) \in Label /\ LabelOf(s, k).number = s[k].number
  BY <1>1 DEF LabelOf, Label, Step
<1> QED BY <1>2 DEF Choose

LEMMA AddStepInv ==
    ASSUME IInv, AddStep
    PROVE  IInv'
<1>1. EditorTypes /\ ToldApart(steps, ids) /\ FormFits /\ SavesOwn /\ submitted = None
  BY DEF IInv, AddStep, Editing
<1>2. steps \in Seq(Step) /\ ids \in Nat /\ Len(steps) \in Nat
  BY <1>1 DEF EditorTypes
<1>3. submitted' = None /\ late' = late
  BY <1>1 DEF AddStep, Editing, experiment
<1>4. CASE /\ Len(steps) < MaxSteps /\ ids < MaxIds /\ ids' = ids + 1
           /\ steps' = Append(steps, DefaultStep(ids + 1, Len(steps) + 1))
           /\ Choose(LabelOf(steps', Len(steps'))) /\ editing' = Len(steps')
           /\ form' = FormOf(steps', ids + 1, Len(steps'))
  <2> DEFINE n == Len(steps) + 1
             new == DefaultStep(ids + 1, n)
  <2>1. n \in Nat /\ n >= 1 /\ ids + 1 \in 1..MaxIds
    BY <1>2, <1>4, ChainEditorAssumption
  <2>2. new \in Step /\ new.id = ids + 1 /\ new.text = ids + 1 /\ new.number = n
    BY <1>2, <2>1 DEF DefaultStep, Step
  <2> HIDE DEF new
  <2>3. steps' = Append(steps, new)
    BY <1>4 DEF new
  <2>4. /\ steps' \in Seq(Step) /\ Len(steps') = n /\ steps'[n] = new
        /\ \A k \in 1..Len(steps) : steps'[k] = steps[k]
    BY <1>2, <2>2, <2>3
  <2>5. DOMAIN steps' = 1..n
    BY <2>4
  <2>6. choice' \in Label /\ pending' \in BOOLEAN
    <3>1. n \in 1..Len(steps') /\ pending \in BOOLEAN /\ Choose(LabelOf(steps', n))
      BY <1>1, <1>4, <2>1, <2>4 DEF EditorTypes
    <3> QED BY <2>4, <3>1, ChooseTypes
  <2>7. Numbers(steps') \subseteq Nat
    BY <2>4, Types
  <2>8. form' \in [text : 0..MaxIds, offered : SUBSET Nat] /\ form'.text = ids + 1
        /\ form'.offered \subseteq Numbers(steps')
    BY <1>4, <2>1, <2>7 DEF FormOf
  <2>10. \A k \in 1..n : k \in 1..Len(steps) \/ k = n
    BY <1>2
  <2>11. ToldApart(steps', ids')
    <3>1. \A k \in 1..Len(steps) : steps[k].id <= ids /\ steps[k].id \in Nat
      BY <1>1, <1>2, Types DEF ToldApart
    <3>2. \A k \in 1..Len(steps) : steps[k].id <= ids + 1 /\ steps[k].id # ids + 1
      BY <1>2, <3>1
    <3>3. ids + 1 <= ids + 1
      BY <1>2
    <3> QED BY <1>1, <1>2, <1>4, <2>2, <2>4, <2>5, <2>10, <3>2, <3>3 DEF ToldApart
  <2>12. SavesOwn'
    BY <1>1, <1>2, <1>3, <2>2, <2>4, <2>5, <2>10 DEF SavesOwn
  <2>13. FormFits'
    BY <1>4, <2>2, <2>4, <2>8 DEF FormFits
  <2>14. EditorTypes'
    BY <1>1, <1>3, <1>4, <2>1, <2>4, <2>6, <2>8 DEF EditorTypes
  <2> QED BY <2>11, <2>12, <2>13, <2>14 DEF IInv
<1>5. CASE /\ editing' = 0 /\ form' = Idle
           /\ UNCHANGED <<steps, choice, pending, ids>>
  <2>1. form' \in [text : 0..MaxIds, offered : SUBSET Nat]
    BY <1>5, ChainEditorAssumption DEF Idle
  <2> QED BY <1>1, <1>2, <1>3, <1>5, <2>1 DEF IInv, EditorTypes, ToldApart, FormFits, SavesOwn
<1> QED BY <1>4, <1>5 DEF AddStep

\* What an operation of the editor finds, and leaves to the experiment.
LEMMA Edits ==
    ASSUME IInv, Editing
    PROVE  /\ EditorTypes /\ ToldApart(steps, ids) /\ FormFits /\ SavesOwn
           /\ submitted = None /\ submitted' = None
           /\ steps \in Seq(Step) /\ ids \in Nat /\ pending \in BOOLEAN /\ late \in BOOLEAN
           /\ DOMAIN steps = 1..Len(steps) /\ Len(steps) \in Nat
BY Types DEF IInv, Editing, experiment, EditorTypes

LEMMA SelectInv ==
    ASSUME IInv, Select
    PROVE  IInv'
<1>1. Editing
  BY DEF Select
<1>2. UNCHANGED <<steps, editing, form, ids, late>>
  BY DEF Select
<1>3. choice' \in Label /\ pending' \in BOOLEAN /\ (pending => pending')
  BY <1>1, Edits, ChooseTypes DEF Select
<1> QED BY <1>1, <1>2, <1>3, Edits DEF IInv, EditorTypes, ToldApart, FormFits, SavesOwn

LEMMA EditStepInv ==
    ASSUME IInv, EditStep
    PROVE  IInv'
<1>1. Editing
  BY DEF EditStep
<1>2. UNCHANGED <<steps, choice, ids, late>> /\ pending' \in BOOLEAN
  BY <1>1, Edits DEF EditStep
<1>3. CASE Valid /\ editing' = Chosen /\ form' = FormOf(steps, steps[Chosen].text, Chosen)
  <2>1. Chosen \in 1..Len(steps) /\ steps[Chosen].text \in 0..MaxIds
        /\ Numbers(steps) \subseteq Nat
    BY <1>1, <1>3, Edits, Types DEF Valid
  <2>2. form' \in [text : 0..MaxIds, offered : SUBSET Nat] /\ form'.text = steps[Chosen].text
        /\ form'.offered \subseteq Numbers(steps)
    BY <1>3, <2>1 DEF FormOf
  <2>3. editing' \in 0..Len(steps)
    BY <1>1, <1>3, <2>1, Edits
  <2>4. EditorTypes'
    BY <1>1, <1>2, <2>2, <2>3, Edits DEF EditorTypes
  <2>5. FormFits'
    BY <1>2, <1>3, <2>2 DEF FormFits
  <2> QED BY <1>1, <1>2, <2>4, <2>5, Edits DEF IInv, ToldApart, SavesOwn
<1>4. CASE ~Valid /\ editing' = 0 /\ form' = None
  BY <1>1, <1>2, <1>4, Edits DEF IInv, EditorTypes, ToldApart, FormFits, SavesOwn
<1> QED BY <1>3, <1>4 DEF EditStep

\* A step that only rearranges the chain, and leaves the form closed or the event pending.
LEMMA Rearranged ==
    ASSUME IInv, Editing, steps' \in Seq(Step), choice' \in Label, pending' \in BOOLEAN,
           late' = late, ids' \in 0..MaxIds, editing' \in 0..Len(steps'),
           editing' = 0 \/ pending',
           form' = None \/ form' = form, ToldApart(steps', ids'), OwnText(steps) => OwnText(steps')
    PROVE  IInv'
<1>1. EditorTypes'
  BY Edits DEF EditorTypes
<1>2. FormFits'
  BY DEF FormFits
<1>3. SavesOwn'
  BY Edits DEF SavesOwn, OwnText
<1> QED BY <1>1, <1>2, <1>3 DEF IInv

LEMMA ToggleFreezeInv ==
    ASSUME IInv, ToggleFreeze
    PROVE  IInv'
<1>1. Editing /\ Valid /\ UNCHANGED <<editing, form, ids, late>>
  BY DEF ToggleFreeze
<1>2. Chosen \in 1..Len(steps)
  BY <1>1, Edits DEF Valid
<1>3. steps[Chosen] \in Step
  BY <1>1, <1>2, Edits
<1> DEFINE new == [steps[Chosen] EXCEPT !.frozen = ~@]
<1>4. /\ new \in Step /\ new.id = steps[Chosen].id /\ new.text = steps[Chosen].text
      /\ new.number = steps[Chosen].number
  BY <1>3 DEF Step
<1>5. steps' = [steps EXCEPT ![Chosen] = new]
  BY DEF ToggleFreeze
<1> HIDE DEF new
<1>6. /\ steps' \in Seq(Step) /\ Len(steps') = Len(steps) /\ DOMAIN steps' = DOMAIN steps
      /\ \A k \in DOMAIN steps : steps'[k] = IF k = Chosen THEN new ELSE steps[k]
  BY <1>1, <1>2, <1>4, <1>5, Edits
<1>7. \A k \in DOMAIN steps : /\ steps'[k].id = steps[k].id /\ steps'[k].text = steps[k].text
                             /\ steps'[k].number = steps[k].number
  BY <1>4, <1>6
<1>8. choice' \in Label /\ pending' \in BOOLEAN /\ (pending => pending')
  <2>1. Choose(LabelOf(steps', Chosen)) /\ Chosen \in 1..Len(steps') /\ pending \in BOOLEAN
    BY <1>1, <1>2, <1>6, Edits DEF ToggleFreeze
  <2> QED BY <1>6, <2>1, ChooseTypes
<1>9. ToldApart(steps', ids')
  BY <1>1, <1>6, <1>7, Edits DEF ToldApart
<1>10. EditorTypes'
  BY <1>1, <1>6, <1>8, Edits DEF EditorTypes
<1>11. FormFits'
  <2>1. editing # 0 => editing \in DOMAIN steps
    BY <1>1, Edits DEF EditorTypes
  <2>2. Numbers(steps') = Numbers(steps)
    BY <1>6, <1>7 DEF Numbers
  <2> QED BY <1>1, <1>7, <1>8, <2>1, <2>2, Edits DEF FormFits
<1>12. SavesOwn'
  BY <1>1, <1>6, <1>7, Edits DEF SavesOwn, ToggleFreeze
<1> QED BY <1>1, <1>9, <1>10, <1>11, <1>12 DEF IInv

LEMMA RemoveStepInv ==
    ASSUME IInv, RemoveStep
    PROVE  IInv'
<1>1. Editing /\ editing' = 0 /\ form' = None /\ UNCHANGED <<ids, late>>
  BY DEF RemoveStep
<1>2. CASE ~Valid /\ UNCHANGED <<steps, choice, pending>>
  BY <1>1, <1>2, Edits DEF IInv, EditorTypes, ToldApart, FormFits, SavesOwn
<1>3. CASE Valid /\ Choose(LastLabel(steps'))
           /\ steps' = Removed(steps, Chosen)
  <2>1. Chosen \in 1..Len(steps) /\ steps \in Seq(Step) /\ Len(steps) \in Nat
    BY <1>1, <1>3, Edits DEF Valid
  <2>2. /\ steps' \in Seq(Step) /\ Len(steps') = Len(steps) - 1 /\ DOMAIN steps' = 1..Len(steps) - 1
        /\ \A k \in 1..Len(steps) - 1 :
              /\ From(Chosen, k) \in 1..Len(steps)
              /\ steps'[k].id = steps[From(Chosen, k)].id
              /\ steps'[k].text = steps[From(Chosen, k)].text
    BY <1>3, <2>1, RemoveFacts
  <2>3. choice' \in Label /\ pending' \in BOOLEAN
    <3>1. CASE steps' = <<>>
      BY <1>1, <1>3, <3>1, Edits, ChainEditorAssumption DEF Choose, LastLabel, NoLabel, Label
    <3>2. CASE steps' # <<>>
      <4>1. Len(steps') \in 1..Len(steps')
        BY <2>2, <3>2
      <4>2. Choose(LabelOf(steps', Len(steps'))) /\ pending \in BOOLEAN
        BY <1>1, <1>3, <3>2, Edits DEF LastLabel
      <4> QED BY <2>2, <4>1, <4>2, ChooseTypes
    <3> QED BY <3>1, <3>2
  <2>4. \A k, l \in 1..Len(steps) - 1 : From(Chosen, k) = From(Chosen, l) => k = l
    BY <2>1 DEF From
  <2>5. ToldApart(steps', ids')
    <3>1. \A k \in 1..Len(steps) - 1 : steps'[k].id <= ids
      BY <1>1, <2>2, Edits DEF ToldApart
    <3>2. \A k, l \in 1..Len(steps) - 1 :
             steps'[k].id = steps'[l].id => From(Chosen, k) = From(Chosen, l)
      <4>1. \A m, n \in 1..Len(steps) : steps[m].id = steps[n].id => m = n
        BY <1>1, Edits DEF ToldApart
      <4>2. SUFFICES ASSUME NEW k \in 1..Len(steps) - 1, NEW l \in 1..Len(steps) - 1,
                            steps'[k].id = steps'[l].id
                     PROVE  From(Chosen, k) = From(Chosen, l)
        OBVIOUS
      <4>3. /\ From(Chosen, k) \in 1..Len(steps) /\ steps'[k].id = steps[From(Chosen, k)].id
            /\ From(Chosen, l) \in 1..Len(steps) /\ steps'[l].id = steps[From(Chosen, l)].id
        BY <2>2
      <4> QED BY <4>1, <4>2, <4>3
    <3> QED BY <1>1, <2>2, <2>4, <3>1, <3>2 DEF ToldApart
  <2>6. OwnText(steps) => OwnText(steps')
    BY <1>1, <2>2, Edits DEF OwnText
  <2>7. editing' \in 0..Len(steps') /\ ids' \in 0..MaxIds
    BY <1>1, <2>1, <2>2, Edits DEF EditorTypes
  <2> QED BY <1>1, <2>2, <2>3, <2>5, <2>6, <2>7, Rearranged
<1> QED BY <1>2, <1>3 DEF RemoveStep, Removed

LEMMA SwapInv ==
    ASSUME IInv, NEW k, NEW l, k = Chosen, l # k, Swap(k, l)
    PROVE  IInv'
<1>1. Editing /\ UNCHANGED <<editing, form, ids, late>> /\ Choose(LabelOf(steps', l))
  BY DEF Swap
<1>2. /\ k \in 1..Len(steps) /\ l \in 1..Len(steps) /\ steps \in Seq(Step)
      /\ steps' = Exchanged(steps, k, l)
  BY <1>1, Edits DEF Swap, Exchanged
<1>3. /\ steps' \in Seq(Step) /\ Len(steps') = Len(steps) /\ DOMAIN steps' = 1..Len(steps)
      /\ \A j \in 1..Len(steps) :
            /\ steps'[j].number = j /\ Swapped(k, l, j) \in 1..Len(steps)
            /\ steps'[j].id = steps[Swapped(k, l, j)].id
            /\ steps'[j].text = steps[Swapped(k, l, j)].text
  BY <1>2, SwapFacts
<1>4. choice' \in Label /\ pending' \in BOOLEAN /\ pending'
  <2>1. l \in 1..Len(steps') /\ pending \in BOOLEAN /\ steps'[l].number # choice.number
    BY <1>1, <1>2, <1>3, Edits DEF Chosen
  <2> QED BY <1>1, <1>3, <2>1, ChooseTypes
<1>5. \A i, j \in 1..Len(steps) : Swapped(k, l, i) = Swapped(k, l, j) => i = j
  BY DEF Swapped
<1>6. ToldApart(steps', ids')
  <2>1. \A j \in 1..Len(steps) : steps'[j].id <= ids
    BY <1>1, <1>3, Edits DEF ToldApart
  <2>2. ASSUME NEW i \in 1..Len(steps), NEW j \in 1..Len(steps), steps'[i].id = steps'[j].id
        PROVE  Swapped(k, l, i) = Swapped(k, l, j)
    <3>1. Swapped(k, l, i) \in DOMAIN steps /\ Swapped(k, l, j) \in DOMAIN steps
          /\ steps[Swapped(k, l, i)].id = steps[Swapped(k, l, j)].id
      BY <1>1, <1>3, <2>2, Edits
    <3> QED BY <1>1, <3>1, Edits DEF ToldApart
  <2> QED BY <1>1, <1>3, <1>5, <2>1, <2>2 DEF ToldApart
<1>7. OwnText(steps) => OwnText(steps')
  BY <1>1, <1>3, Edits DEF OwnText
<1>8. editing' \in 0..Len(steps') /\ ids' \in 0..MaxIds
  BY <1>1, <1>3, Edits DEF EditorTypes
<1> QED BY <1>1, <1>3, <1>4, <1>6, <1>7, <1>8, Rearranged

LEMMA DuplicateStepInv ==
    ASSUME IInv, DuplicateStep
    PROVE  IInv'
<1> DEFINE copy == [steps[Chosen] EXCEPT !.id = ids + 1, !.text = ids + 1, !.frozen = FALSE]
           n == Chosen + 1
<1>1. Editing /\ UNCHANGED <<editing, form, late>> /\ Valid /\ ids < MaxIds /\ ids' = ids + 1
      /\ Choose(LabelOf(steps', n)) /\ steps' = Copied(steps, Chosen, copy)
  BY DEF DuplicateStep, Copied
<1>2. Chosen \in 1..Len(steps) /\ steps \in Seq(Step) /\ Len(steps) \in Nat /\ ids \in Nat
      /\ n \in 1..Len(steps) + 1 /\ ids + 1 \in 1..MaxIds /\ ids + 1 \in 0..MaxIds
  BY <1>1, Edits, ChainEditorAssumption DEF Valid
<1>3. copy \in Step /\ copy.id = ids + 1 /\ copy.text = ids + 1
  <2>1. steps[Chosen] \in Step
    BY <1>2
  <2> DEFINE id == ids + 1
  <2>2. id \in 1..MaxIds /\ id \in 0..MaxIds
    BY <1>2
  <2> HIDE DEF id
  <2>3. /\ [steps[Chosen] EXCEPT !.id = id, !.text = id, !.frozen = FALSE] \in Step
        /\ [steps[Chosen] EXCEPT !.id = id, !.text = id, !.frozen = FALSE].id = id
        /\ [steps[Chosen] EXCEPT !.id = id, !.text = id, !.frozen = FALSE].text = id
    BY <2>1, <2>2 DEF Step
  <2> QED BY <2>3 DEF id
<1> HIDE DEF copy
<1>4. /\ steps' \in Seq(Step) /\ Len(steps') = Len(steps) + 1 /\ DOMAIN steps' = 1..Len(steps) + 1
      /\ steps'[n].id = ids + 1 /\ steps'[n].text = ids + 1
      /\ \A k \in 1..Len(steps) + 1 :
            /\ steps'[k].number = k
            /\ k # n => /\ Before(Chosen, k) \in 1..Len(steps)
                        /\ steps'[k].id = steps[Before(Chosen, k)].id
                        /\ steps'[k].text = steps[Before(Chosen, k)].text
  <2>1. Chosen \in 1..Len(steps) /\ steps \in Seq(Step) /\ copy \in Step
    BY <1>2, <1>3
  <2> DEFINE r == Copied(steps, Chosen, copy)
  <2>2. /\ r \in Seq(Step) /\ Len(r) = Len(steps) + 1 /\ DOMAIN r = 1..Len(steps) + 1
        /\ r[Chosen + 1].id = copy.id /\ r[Chosen + 1].text = copy.text
        /\ \A k \in 1..Len(steps) + 1 :
              /\ r[k].number = k
              /\ k # Chosen + 1 => /\ Before(Chosen, k) \in 1..Len(steps)
                                   /\ r[k].id = steps[Before(Chosen, k)].id
                                   /\ r[k].text = steps[Before(Chosen, k)].text
    BY <2>1, DuplicateFacts
  <2> QED BY <1>1, <1>3, <2>2
<1>5. choice' \in Label /\ pending' \in BOOLEAN /\ pending'
  <2>1. n \in 1..Len(steps') /\ pending \in BOOLEAN /\ steps'[n].number = n
    BY <1>1, <1>2, <1>4, Edits
  <2>2. n # choice.number
    BY <1>2 DEF Chosen
  <2> QED BY <1>1, <1>4, <2>1, <2>2, ChooseTypes
<1>6. \A k, l \in 1..Len(steps) + 1 :
         k # n /\ l # n /\ Before(Chosen, k) = Before(Chosen, l) => k = l
  BY <1>2 DEF Before
<1>7. \A k \in 1..Len(steps) : steps[k].id <= ids + 1 /\ steps[k].id # ids + 1
  <2>1. \A k \in 1..Len(steps) : steps[k].id \in Nat /\ steps[k].id <= ids
    BY <1>1, <1>2, Edits, Types DEF ToldApart
  <2> QED BY <1>2, <2>1
<1>8. \A k \in 1..Len(steps) + 1 : steps'[k].id <= ids + 1 /\ (k # n => steps'[k].id # ids + 1)
  <2>1. ids + 1 <= ids + 1
    BY <1>2
  <2> QED BY <1>4, <1>7, <2>1
<1>9. ToldApart(steps', ids')
  <2>1. ASSUME NEW k \in 1..Len(steps) + 1, NEW l \in 1..Len(steps) + 1, steps'[k].id = steps'[l].id
        PROVE  k = l
    <3>1. CASE k = n \/ l = n
      BY <1>4, <1>8, <2>1, <3>1
    <3>2. CASE k # n /\ l # n
      <4>1. Before(Chosen, k) = Before(Chosen, l)
        BY <1>1, <1>4, <2>1, <3>2, Edits DEF ToldApart
      <4> QED BY <1>6, <3>2, <4>1
    <3> QED BY <3>1, <3>2
  <2> QED BY <1>1, <1>4, <1>8, <2>1 DEF ToldApart
<1>10. OwnText(steps) => OwnText(steps')
  <2>1. ASSUME OwnText(steps), NEW k \in 1..Len(steps) + 1
        PROVE  steps'[k].text = steps'[k].id
    <3>1. CASE k = n
      BY <1>4, <3>1
    <3>2. CASE k # n
      BY <1>1, <1>4, <2>1, <3>2, Edits DEF OwnText
    <3> QED BY <3>1, <3>2
  <2> QED BY <1>4, <2>1 DEF OwnText
<1>11. editing' \in 0..Len(steps') /\ ids' \in 0..MaxIds
  BY <1>1, <1>2, <1>4, Edits DEF EditorTypes
<1> QED BY <1>1, <1>4, <1>5, <1>9, <1>10, <1>11, Rearranged

\* The form is saved to the step it was opened with, unless the event is late.
LEMMA SaveStepInv ==
    ASSUME IInv, SaveStep
    PROVE  IInv'
<1>1. Editing /\ form # None /\ form' = None /\ editing' = 0 /\ ids' = ids
  BY DEF SaveStep
<1>2. CASE editing = 0 /\ UNCHANGED <<steps, choice, pending, saves, late>>
  BY <1>1, <1>2, Edits DEF IInv, EditorTypes, ToldApart, FormFits, SavesOwn
<1>3. CASE editing # 0
  <2>1. PICK deps \in SUBSET form.offered, frozen \in BOOLEAN :
           steps' = [steps EXCEPT ![editing].text = form.text, ![editing].deps = deps,
                                  ![editing].frozen = frozen]
    BY <1>3 DEF SaveStep
  <2>2. /\ choice' = LabelOf(steps', editing) /\ late' = (late \/ pending)
        /\ pending' \in {pending \/ choice' # choice, TRUE}
    BY <1>3 DEF SaveStep
  <2>3. editing \in 1..Len(steps) /\ form.text \in 0..MaxIds /\ form.offered \in SUBSET Nat
    BY <1>1, <1>3, Edits DEF EditorTypes
  <2> DEFINE new == [steps[editing] EXCEPT !.text = form.text, !.deps = deps, !.frozen = frozen]
  <2>4. new \in Step /\ new.id = steps[editing].id /\ new.text = form.text
    <3>1. steps[editing] \in Step /\ deps \in SUBSET Nat
      BY <1>1, <2>3, Edits
    <3> QED BY <2>3, <3>1 DEF Step
  <2>5. steps' = [steps EXCEPT ![editing] = new]
    BY <1>1, <2>1, <2>3, Edits
  <2> HIDE DEF new
  <2>6. /\ steps' \in Seq(Step) /\ Len(steps') = Len(steps) /\ DOMAIN steps' = 1..Len(steps)
        /\ \A k \in 1..Len(steps) : steps'[k] = IF k = editing THEN new ELSE steps[k]
    BY <1>1, <2>3, <2>4, <2>5, Edits
  <2>7. \A k \in 1..Len(steps) : steps'[k].id = steps[k].id
    BY <2>4, <2>6
  <2>8. choice' \in Label /\ pending' \in BOOLEAN /\ late' \in BOOLEAN
    <3>1. steps'[editing] \in Step
      BY <2>3, <2>4, <2>6
    <3>2. choice' \in Label
      BY <2>2, <3>1 DEF LabelOf, Label, Step
    <3> QED BY <1>1, <2>2, <3>2, Edits
  <2>9. EditorTypes'
    BY <1>1, <2>6, <2>8, Edits DEF EditorTypes
  <2>10. ToldApart(steps', ids')
    BY <1>1, <2>6, <2>7, Edits DEF ToldApart
  <2>11. SavesOwn'
    <3>1. CASE late \/ pending
      BY <2>2, <3>1 DEF SavesOwn
    <3>2. CASE ~late /\ ~pending
      <4>1. form.text = steps[editing].text /\ \A k \in 1..Len(steps) : steps[k].text = steps[k].id
        BY <1>1, <1>3, <3>2, Edits DEF FormFits, SavesOwn
      <4>2. \A k \in 1..Len(steps) : steps'[k].text = steps'[k].id
        BY <2>3, <2>4, <2>6, <4>1
      <4> QED BY <2>6, <4>2 DEF SavesOwn
    <3> QED BY <3>1, <3>2
  <2> QED BY <1>1, <2>9, <2>10, <2>11 DEF IInv, FormFits
<1> QED BY <1>2, <1>3 DEF SaveStep

LEMMA CancelStepInv ==
    ASSUME IInv, CancelStep
    PROVE  IInv'
<1>1. Editing
  BY DEF CancelStep
<1> QED BY <1>1, Edits DEF CancelStep, IInv, EditorTypes, ToldApart, FormFits, SavesOwn

\* A chain that is loaded tells its steps apart by their positions.
Applied(load) ==
    /\ steps' = [k \in DOMAIN load |->
                    [id |-> k, text |-> k, number |-> load[k].number, deps |-> load[k].deps,
                     frozen |-> load[k].frozen]]
    /\ ids' = Len(load)
    /\ Choose(LabelOf(steps', 1))
    /\ form' = None /\ late' = FALSE

LEMMA AppliedInv ==
    ASSUME IInv, NEW load \in Loads, ApplySteps(load), Applied(load)
    PROVE  IInv'
<1>1. Editing /\ editing' = 0 /\ form' = None /\ late' = FALSE /\ ids' = Len(load)
      /\ Choose(LabelOf(steps', 1))
  BY DEF ApplySteps, Applied
<1>2. Len(load) \in Nat /\ Len(load) >= 1 /\ Len(load) <= MaxIds /\ DOMAIN load = 1..Len(load)
      /\ MaxIds \in Nat
  BY ChainEditorAssumption
<1> DEFINE new(k) == [id |-> k, text |-> k, number |-> load[k].number, deps |-> load[k].deps,
                      frozen |-> load[k].frozen]
<1>3. ASSUME NEW k \in 1..Len(load)
      PROVE  new(k) \in Step /\ new(k).id = k /\ new(k).text = k
  <2> DEFINE Part == [number : 1..MaxSteps, deps : SUBSET (1..MaxSteps), frozen : BOOLEAN]
  <2>1. load[k] \in Part
    <3>1. load \in Seq(Part)
      BY ChainEditorAssumption
    <3> HIDE DEF Part
    <3> QED BY <3>1
  <2>2. load[k].number \in Nat /\ load[k].deps \in SUBSET Nat /\ load[k].frozen \in BOOLEAN
    <3>1. /\ load[k].number \in 1..MaxSteps /\ load[k].deps \in SUBSET (1..MaxSteps)
          /\ load[k].frozen \in BOOLEAN
      BY <2>1
    <3>2. 1..MaxSteps \subseteq Nat
      BY ChainEditorAssumption
    <3> QED BY <3>1, <3>2
  <2>3. k \in 1..MaxIds /\ k \in 0..MaxIds
    BY <1>2
  <2> QED BY <2>2, <2>3 DEF Step
<1>4. steps' = [k \in 1..Len(load) |-> new(k)]
  BY <1>2 DEF Applied
<1> HIDE DEF new
<1>5. steps' \in [1..Len(load) -> Step]
  BY <1>3, <1>4
<1>6. steps' \in Seq(Step) /\ Len(steps') = Len(load) /\ DOMAIN steps' = 1..Len(load)
      /\ \A k \in 1..Len(load) : steps'[k].id = k /\ steps'[k].text = k
  BY <1>2, <1>3, <1>4, <1>5, SeqDef
<1>7. choice' \in Label /\ pending' \in BOOLEAN
  <2>1. 1 \in 1..Len(steps') /\ pending \in BOOLEAN
    BY <1>1, <1>2, <1>6, Edits
  <2> QED BY <1>1, <1>6, <2>1, ChooseTypes
<1>8. editing' \in 0..Len(steps') /\ ids' \in 0..MaxIds
  BY <1>1, <1>2, <1>6
<1>9. ToldApart(steps', ids')
  BY <1>1, <1>2, <1>6 DEF ToldApart
<1>10. SavesOwn'
  BY <1>6 DEF SavesOwn
<1> QED BY <1>1, <1>6, <1>7, <1>8, <1>9, <1>10 DEF IInv, EditorTypes, FormFits

\* A text that cannot be loaded leaves the chain as it is, and the form for no step.
Refused ==
    /\ form' = None \/ (form # None /\ form' = Idle)
    /\ UNCHANGED <<steps, ids, choice, pending, late>>

LEMMA ApplyStepsInv ==
    ASSUME IInv, NEW load \in Loads, ApplySteps(load)
    PROVE  IInv'
<1>1. Editing /\ editing' = 0
  BY DEF ApplySteps
<1>2. CASE Refused
  <2>1. Idle \in [text : 0..MaxIds, offered : SUBSET Nat]
    BY ChainEditorAssumption DEF Idle
  <2>2. form' = None \/ form' \in [text : 0..MaxIds, offered : SUBSET Nat]
    BY <1>2, <2>1 DEF Refused
  <2> QED BY <1>1, <1>2, <2>2, Edits DEF Refused, IInv, EditorTypes, ToldApart, FormFits, SavesOwn
<1>3. CASE Applied(load)
  BY <1>3, AppliedInv
<1> QED BY <1>2, <1>3 DEF ApplySteps, Applied, Refused

LEMMA CleanInv ==
    ASSUME IInv, Clean
    PROVE  IInv'
<1>1. Editing
  BY DEF Clean
<1>2. /\ steps' = <<>> /\ ids' = 0 /\ editing' = 0 /\ form' = None /\ late' = FALSE
      /\ choice' \in Label /\ pending' \in BOOLEAN
  BY <1>1, Edits, ChainEditorAssumption DEF Clean, Choose, NoLabel, Label
<1>3. steps' \in Seq(Step) /\ Len(steps') = 0 /\ DOMAIN steps' = {}
  BY <1>2
<1>4. 0 \in 0..MaxIds /\ 0 \in 0..0
  BY ChainEditorAssumption
<1>5. EditorTypes'
  BY <1>2, <1>3, <1>4 DEF EditorTypes
<1>6. ToldApart(steps', ids')
  BY <1>2, <1>3 DEF ToldApart
<1>7. SavesOwn'
  BY <1>3 DEF SavesOwn
<1> QED BY <1>2, <1>5, <1>6, <1>7 DEF IInv, FormFits

\* Once submitted, the chain is not edited any more.
LEMMA CreateInv ==
    ASSUME IInv, Create
    PROVE  IInv'
<1>1. /\ UNCHANGED <<steps, late>> /\ choice' = NoLabel /\ editing' = 0 /\ form' = None
      /\ pending' = FALSE /\ ids' = 0
      /\ \E mode \in Modes : submitted' = [chain |-> [k \in DOMAIN steps |-> Bare(steps[k])],
                                           frozen |-> FrozenNumbers, mode |-> mode]
  BY DEF Create
<1>2. steps \in Seq(Step) /\ EditorTypes /\ SavesOwn
  BY DEF IInv, EditorTypes
<1>3. [k \in DOMAIN steps |-> Bare(steps[k])] \in Seq(Evolved)
  <2>1. \A k \in 1..Len(steps) : Bare(steps[k]) \in Evolved
    BY <1>2, Types DEF Bare, Evolved
  <2>2. DOMAIN steps = 1..Len(steps) /\ Len(steps) \in Nat
    BY <1>2
  <2>3. [k \in DOMAIN steps |-> Bare(steps[k])] \in [1..Len(steps) -> Evolved]
    BY <2>1, <2>2
  <2> QED BY <2>2, <2>3, SeqDef
<1>4. FrozenNumbers \in SUBSET Nat
  <2>1. \A k \in DOMAIN steps : steps[k].number \in Nat
    BY <1>2, Types
  <2> QED BY <2>1 DEF FrozenNumbers
<1>5. submitted' # None
  <2> DEFINE bare == [k \in DOMAIN steps |-> Bare(steps[k])]
  <2> HIDE DEF bare
  <2>1. PICK mode \in Modes : submitted' = [chain |-> bare, frozen |-> FrozenNumbers, mode |-> mode]
    BY <1>1 DEF bare
  <2>2. bare \in Seq(Evolved)
    BY <1>3 DEF bare
  <2>3. submitted' \in [chain : Seq(Evolved), frozen : SUBSET Nat, mode : Modes]
    BY <2>1, <2>2, <1>4
  <2> QED BY <2>3, NoneAssumption
<1>6. NoLabel \in Label /\ Len(steps) \in Nat
  BY <1>2, ChainEditorAssumption DEF NoLabel, Label
<1>7. 0 \in 0..MaxIds /\ 0 \in 0..Len(steps)
  BY <1>6, ChainEditorAssumption
<1>8. EditorTypes'
  BY <1>1, <1>2, <1>6, <1>7 DEF EditorTypes
<1>9. SavesOwn'
  BY <1>1, <1>2 DEF SavesOwn
<1> QED BY <1>1, <1>5, <1>8, <1>9 DEF IInv, FormFits

LEMMA InitInv == Init => IInv
<1> SUFFICES ASSUME Init PROVE IInv
  OBVIOUS
<1>1. steps = <<>> /\ steps \in Seq(Step) /\ Len(steps) = 0 /\ DOMAIN steps = {}
  BY DEF Init
<1>2. 0 \in 0..MaxIds /\ 0 \in 0..0 /\ NoLabel \in Label
  BY ChainEditorAssumption DEF NoLabel, Label
<1>3. EditorTypes
  BY <1>1, <1>2 DEF Init, EditorTypes
<1>4. ToldApart(steps, ids) /\ SavesOwn
  BY <1>1 DEF Init, ToldApart, SavesOwn
<1> QED BY <1>3, <1>4 DEF Init, IInv, FormFits

LEMMA StepInv ==
    ASSUME IInv, [Next]_vars
    PROVE  IInv'
<1>1. CASE UNCHANGED vars
  BY <1>1 DEF vars, IInv, EditorTypes, ToldApart, FormFits, SavesOwn
<1>2. CASE MoveStepUp \/ MoveStepDown
  <2>1. steps \in Seq(Step) /\ choice.number \in Nat
    BY DEF IInv, EditorTypes, Label
  <2>2. Chosen - 1 # Chosen /\ Chosen + 1 # Chosen
    BY <2>1 DEF Chosen
  <2> QED BY <1>2, <2>2, SwapInv DEF MoveStepUp, MoveStepDown
<1>3. CASE Evolve
  BY <1>3 DEF Evolve, IInv, EditorTypes, ToldApart, FormFits, SavesOwn
<1> QED BY <1>1, <1>2, <1>3, AddStepInv, SelectInv, EditStepInv, ToggleFreezeInv, RemoveStepInv,
           DuplicateStepInv, SaveStepInv, CancelStepInv, ApplyStepsInv, CleanInv, CreateInv
        DEF Next

----------------------------------------------------------------------------
(* Dependencies follow the steps they name. *)

LEMMA SoundFacts ==
    ASSUME NEW s \in Seq(Step), Sound(s)
    PROVE  /\ DOMAIN s = 1..Len(s) /\ Len(s) \in Nat /\ Numbers(s) = 1..Len(s)
           /\ \A k \in 1..Len(s) : s[k].number = k /\ s[k].deps \subseteq 1..Len(s)
<1>1. DOMAIN s = 1..Len(s) /\ Len(s) \in Nat
  OBVIOUS
<1>2. \A k \in 1..Len(s) : s[k].number = k /\ s[k].deps \subseteq 1..Len(s)
  BY <1>1 DEF Sound, Positions
<1>3. Numbers(s) = 1..Len(s)
  BY <1>1, <1>2 DEF Numbers
<1> QED BY <1>1, <1>2, <1>3

\* Steps that stay where they are and depend on steps that do.
LEMMA InPlace ==
    ASSUME NEW old, NEW new, DOMAIN old \subseteq DOMAIN new,
           \A k \in DOMAIN old : /\ new[k].id = old[k].id /\ new[k].deps = old[k].deps
                                 /\ old[k].deps \subseteq DOMAIN old,
           \A k, l \in DOMAIN new : new[k].id = new[l].id => k = l
    PROVE  Follow(old, new)
<1> SUFFICES ASSUME NEW k \in DOMAIN old, NEW l \in DOMAIN new, old[k].id = new[l].id
             PROVE  IdsOf(new, l) = IdsOf(old, k) \cap Ids(new)
  BY DEF Follow
<1>1. k = l
  <2>1. k \in DOMAIN new /\ new[k].id = new[l].id
    OBVIOUS
  <2> QED BY <2>1
<1>2. IdsOf(new, l) = {old[d].id : d \in old[k].deps}
  BY <1>1 DEF IdsOf
<1>3. IdsOf(old, k) = {old[d].id : d \in old[k].deps}
  BY DEF IdsOf
<1>4. {old[d].id : d \in old[k].deps} \subseteq Ids(new)
  <2>1. \A d \in DOMAIN old : old[d].id \in Ids(new)
    BY DEF Ids
  <2> QED BY <2>1
<1> QED BY <1>2, <1>3, <1>4

LEMMA AddStepFollows ==
    ASSUME IInv, AddStep, Sound(steps)
    PROVE  Sound(steps') /\ Follow(steps, steps')
<1>1. Editing
  BY DEF AddStep
<1>2. /\ steps \in Seq(Step) /\ DOMAIN steps = 1..Len(steps) /\ Len(steps) \in Nat
      /\ \A k \in 1..Len(steps) : steps[k].number = k /\ steps[k].deps \subseteq 1..Len(steps)
  BY <1>1, Edits, SoundFacts
<1>3. ToldApart(steps', ids')
  BY <1>1, AddStepInv DEF IInv, Editing, experiment
<1>4. CASE UNCHANGED steps
  BY <1>2, <1>3, <1>4, InPlace DEF ToldApart
<1>5. CASE steps' = Append(steps, DefaultStep(ids + 1, Len(steps) + 1))
  <2> DEFINE n == Len(steps) + 1
             new == DefaultStep(ids + 1, n)
  <2>1. n \in Nat /\ n >= 1 /\ 1..Len(steps) \subseteq 1..n /\ n \in 1..n
        /\ \A k \in 1..n : k \in 1..Len(steps) \/ k = n
    BY <1>2
  <2>2. new.number = n /\ new.deps \subseteq 1..n
    BY <2>1 DEF DefaultStep
  <2> HIDE DEF new
  <2>3. steps' = Append(steps, new)
    BY <1>5 DEF new
  <2>4. /\ DOMAIN steps' = 1..n /\ steps'[n] = new
        /\ \A k \in 1..Len(steps) : steps'[k] = steps[k]
    BY <1>2, <2>3
  <2> HIDE DEF n
  <2>5. \A k \in 1..n : steps'[k].number = k /\ steps'[k].deps \subseteq 1..n
    BY <1>2, <2>1, <2>2, <2>4
  <2>6. Sound(steps')
    BY <2>4, <2>5 DEF Sound, Positions
  <2>7. Follow(steps, steps')
    <3>1. DOMAIN steps \subseteq DOMAIN steps'
      BY <1>2, <2>1, <2>4
    <3>2. \A k \in DOMAIN steps : /\ steps'[k].id = steps[k].id /\ steps'[k].deps = steps[k].deps
                                 /\ steps[k].deps \subseteq DOMAIN steps
      BY <1>2, <2>4
    <3> QED BY <1>3, <3>1, <3>2, InPlace DEF ToldApart
  <2> QED BY <2>6, <2>7
<1> QED BY <1>4, <1>5 DEF AddStep

LEMMA ToggleFreezeFollows ==
    ASSUME IInv, ToggleFreeze, Sound(steps)
    PROVE  Sound(steps') /\ Follow(steps, steps')
<1>1. Editing /\ Valid
  BY DEF ToggleFreeze
<1>2. /\ steps \in Seq(Step) /\ DOMAIN steps = 1..Len(steps) /\ Len(steps) \in Nat
      /\ \A k \in 1..Len(steps) : steps[k].number = k /\ steps[k].deps \subseteq 1..Len(steps)
  BY <1>1, Edits, SoundFacts
<1>3. ToldApart(steps', ids')
  BY <1>1, ToggleFreezeInv DEF IInv, Editing, experiment
<1> DEFINE new == [steps[Chosen] EXCEPT !.frozen = ~@]
<1>4. Chosen \in 1..Len(steps) /\ steps[Chosen] \in Step
  BY <1>1, <1>2 DEF Valid
<1>5. new.id = steps[Chosen].id /\ new.number = steps[Chosen].number /\ new.deps = steps[Chosen].deps
  BY <1>4 DEF Step
<1>6. steps' = [steps EXCEPT ![Chosen] = new]
  BY DEF ToggleFreeze
<1> HIDE DEF new
<1>7. DOMAIN steps' = DOMAIN steps
      /\ \A k \in DOMAIN steps : /\ steps'[k].id = steps[k].id /\ steps'[k].number = steps[k].number
                                 /\ steps'[k].deps = steps[k].deps
  BY <1>2, <1>4, <1>5, <1>6
<1>8. Sound(steps')
  BY <1>2, <1>7 DEF Sound, Positions
<1>9. Follow(steps, steps')
  BY <1>2, <1>3, <1>7, InPlace DEF ToldApart
<1> QED BY <1>8, <1>9

\* Numbers without n, moved down behind it, are numbers of a chain one shorter; From takes
\* them back.
Behind(d, n) == IF d > n THEN d - 1 ELSE d

LEMMA ShiftedFacts ==
    ASSUME NEW len \in Nat, NEW n \in 1..len
    PROVE  /\ \A d \in 1..len : d # n => Behind(d, n) \in 1..len - 1 /\ From(n, Behind(d, n)) = d
           /\ \A deps \in SUBSET (1..len) :
                 Shifted(deps, n) = {Behind(d, n) : d \in deps \ {n}}
<1>1. \A d \in 1..len : d # n => Behind(d, n) \in 1..len - 1 /\ From(n, Behind(d, n)) = d
  BY DEF Behind, From
<1> QED BY <1>1 DEF Shifted, Behind

LEMMA RemoveStepFollows ==
    ASSUME IInv, RemoveStep, Sound(steps)
    PROVE  Sound(steps') /\ Follow(steps, steps')
<1>1. Editing
  BY DEF RemoveStep
<1>2. /\ steps \in Seq(Step) /\ DOMAIN steps = 1..Len(steps) /\ Len(steps) \in Nat
      /\ \A k \in 1..Len(steps) : steps[k].number = k /\ steps[k].deps \subseteq 1..Len(steps)
  BY <1>1, Edits, SoundFacts
<1>3. ToldApart(steps, ids) /\ ToldApart(steps', ids')
  BY <1>1, Edits, RemoveStepInv DEF IInv, Editing, experiment
<1>4. CASE UNCHANGED steps
  BY <1>2, <1>3, <1>4, InPlace DEF ToldApart
<1>5. CASE Valid /\ steps' = Removed(steps, Chosen)
  <2>1. Chosen \in 1..Len(steps)
    BY <1>2, <1>5 DEF Valid
  <2> DEFINE n == Chosen
             m == Len(steps) - 1
             deps(l) == steps[From(n, l)].deps
             r == Removed(steps, n)
  <2> HIDE DEF n
  <2>2. n \in 1..Len(steps) /\ steps' = r
    BY <1>5, <2>1 DEF n
  <2>3. /\ DOMAIN r = 1..m
         /\ \A l \in 1..m : /\ From(n, l) \in 1..Len(steps) /\ From(n, l) # n
                            /\ r[l].id = steps[From(n, l)].id
                            /\ r[l].deps = Shifted(steps[From(n, l)].deps, n) /\ r[l].number = l
    <3>1. n \in 1..Len(steps) /\ steps \in Seq(Step)
      BY <1>2, <2>2
    <3> HIDE DEF m, r
    <3>2. m = Len(steps) - 1 /\ r = Removed(steps, n)
      BY DEF m, r
    <3>3. DOMAIN r = 1..Len(steps) - 1
      BY <3>1, <3>2, RemoveFacts
    <3>4. \A l \in 1..Len(steps) - 1 :
             /\ From(n, l) \in 1..Len(steps) /\ From(n, l) # n
             /\ Removed(steps, n)[l].id = steps[From(n, l)].id
             /\ Removed(steps, n)[l].deps = Shifted(steps[From(n, l)].deps, n)
             /\ Removed(steps, n)[l].number = l
      BY <3>1, RemoveFacts
    <3> QED BY <3>2, <3>3, <3>4
  <2> HIDE DEF r, m
  <2>4. /\ DOMAIN steps' = 1..m
        /\ \A l \in 1..m : /\ From(n, l) \in 1..Len(steps) /\ From(n, l) # n
                           /\ steps'[l].id = steps[From(n, l)].id
                           /\ steps'[l].deps = Shifted(deps(l), n) /\ steps'[l].number = l
    BY <2>2, <2>3
  <2>5. \A l \in 1..m : deps(l) \in SUBSET (1..Len(steps))
    BY <1>2, <2>4
  <2>6. \A d \in 1..Len(steps) : d # n => Behind(d, n) \in 1..m /\ From(n, Behind(d, n)) = d
    BY <1>2, <2>2, ShiftedFacts DEF m
  <2>7. \A l \in 1..m : steps'[l].deps = {Behind(d, n) : d \in deps(l) \ {n}}
    <3>1. \A D \in SUBSET (1..Len(steps)) : Shifted(D, n) = {Behind(d, n) : d \in D \ {n}}
      BY <1>2, <2>2, ShiftedFacts
    <3> HIDE DEF deps
    <3> QED BY <2>4, <2>5, <3>1
  <2> HIDE DEF deps
  <2>8. \A l \in 1..m : steps'[l].deps \subseteq 1..m
    BY <2>5, <2>6, <2>7
  <2>9. Sound(steps')
    BY <2>4, <2>8 DEF Sound, Positions
  <2>10. Ids(steps') = {steps[d].id : d \in 1..Len(steps) \ {n}}
    <3>1. \A l \in 1..m : From(n, l) \in 1..Len(steps) \ {n} /\ steps'[l].id = steps[From(n, l)].id
      BY <2>4
    <3>2. \A d \in 1..Len(steps) \ {n} :
             /\ Behind(d, n) \in 1..m
             /\ steps'[Behind(d, n)].id = steps[d].id
      BY <2>4, <2>6
    <3> QED BY <2>4, <3>1, <3>2 DEF Ids
  <2>11. ASSUME NEW k \in DOMAIN steps, NEW l \in DOMAIN steps', steps[k].id = steps'[l].id
        PROVE  IdsOf(steps', l) = IdsOf(steps, k) \cap Ids(steps')
    <3>1. l \in 1..m /\ k \in 1..Len(steps) /\ From(n, l) = k
      <4>1. l \in 1..m /\ k \in DOMAIN steps /\ From(n, l) \in DOMAIN steps
            /\ steps[k].id = steps[From(n, l)].id
        BY <1>2, <2>4, <2>11
      <4> QED BY <1>2, <1>3, <4>1 DEF ToldApart
    <3>2. steps'[l].deps = {Behind(d, n) : d \in steps[k].deps \ {n}}
          /\ steps[k].deps \subseteq 1..Len(steps)
      BY <1>2, <2>7, <3>1 DEF deps
    <3>3. IdsOf(steps', l) = {steps'[d].id : d \in steps'[l].deps}
      BY <2>4, <2>8, <3>1 DEF IdsOf
    <3>4. \A d \in steps[k].deps \ {n} : steps'[Behind(d, n)].id = steps[d].id
      BY <2>4, <2>6, <3>2
    <3>5. IdsOf(steps', l) = {steps[d].id : d \in steps[k].deps \ {n}}
      BY <3>2, <3>3, <3>4
    <3>6. IdsOf(steps, k) = {steps[d].id : d \in steps[k].deps}
      BY <1>2, <3>2 DEF IdsOf
    <3>7. steps[n].id \notin Ids(steps')
      <4>1. n \in DOMAIN steps /\ \A d \in 1..Len(steps) \ {n} : steps[d].id # steps[n].id
        BY <1>2, <1>3, <2>2 DEF ToldApart
      <4> QED BY <2>10, <4>1
    <3>8. \A d \in steps[k].deps \ {n} : steps[d].id \in Ids(steps')
      BY <2>10, <3>2
    <3> QED BY <3>5, <3>6, <3>7, <3>8
  <2> QED BY <2>9, <2>11 DEF Follow
<1> QED BY <1>4, <1>5 DEF RemoveStep, Removed

LEMMA SwapKeepsSound ==
    ASSUME IInv, Sound(steps), NEW k, NEW l, Swap(k, l)
    PROVE  Sound(steps')
<1>1. Editing
  BY DEF Swap
<1>2. /\ steps \in Seq(Step) /\ DOMAIN steps = 1..Len(steps) /\ Len(steps) \in Nat
      /\ \A j \in 1..Len(steps) : steps[j].number = j /\ steps[j].deps \subseteq 1..Len(steps)
  BY <1>1, Edits, SoundFacts
<1>3. k \in 1..Len(steps) /\ l \in 1..Len(steps) /\ steps' = Exchanged(steps, k, l)
  BY <1>2 DEF Swap, Exchanged
<1>4. DOMAIN steps' = 1..Len(steps)
      /\ \A j \in 1..Len(steps) : /\ steps'[j].number = j /\ Swapped(k, l, j) \in 1..Len(steps)
                                  /\ steps'[j].deps = steps[Swapped(k, l, j)].deps
  BY <1>2, <1>3, SwapFacts
<1> QED BY <1>2, <1>4 DEF Sound, Positions

LEMMA DuplicateKeepsSound ==
    ASSUME IInv, DuplicateStep, Sound(steps)
    PROVE  Sound(steps')
<1> DEFINE copy == [steps[Chosen] EXCEPT !.id = ids + 1, !.text = ids + 1, !.frozen = FALSE]
<1>1. Editing /\ Valid /\ ids < MaxIds /\ steps' = Copied(steps, Chosen, copy)
  BY DEF DuplicateStep, Copied
<1>2. /\ steps \in Seq(Step) /\ DOMAIN steps = 1..Len(steps) /\ Len(steps) \in Nat
      /\ \A j \in 1..Len(steps) : steps[j].number = j /\ steps[j].deps \subseteq 1..Len(steps)
  BY <1>1, Edits, SoundFacts
<1>3. Chosen \in 1..Len(steps) /\ steps[Chosen] \in Step
  BY <1>1, <1>2 DEF Valid
<1>4. copy \in Step /\ copy.deps = steps[Chosen].deps
  <2> DEFINE id == ids + 1
  <2>1. id \in 1..MaxIds /\ id \in 0..MaxIds
    BY <1>1, Edits, ChainEditorAssumption
  <2> HIDE DEF id
  <2>2. /\ [steps[Chosen] EXCEPT !.id = id, !.text = id, !.frozen = FALSE] \in Step
        /\ [steps[Chosen] EXCEPT !.id = id, !.text = id, !.frozen = FALSE].deps = steps[Chosen].deps
    BY <1>3, <2>1 DEF Step
  <2> QED BY <2>2 DEF id
<1> HIDE DEF copy
<1>5. /\ DOMAIN steps' = 1..Len(steps) + 1
      /\ steps'[Chosen + 1].deps = copy.deps
      /\ \A j \in 1..Len(steps) + 1 :
            /\ steps'[j].number = j
            /\ j # Chosen + 1 => /\ Before(Chosen, j) \in 1..Len(steps)
                                 /\ steps'[j].deps = steps[Before(Chosen, j)].deps
  <2> DEFINE r == Copied(steps, Chosen, copy)
  <2>1. /\ DOMAIN r = 1..Len(steps) + 1 /\ r[Chosen + 1].deps = copy.deps
        /\ \A j \in 1..Len(steps) + 1 :
              /\ r[j].number = j
              /\ j # Chosen + 1 => /\ Before(Chosen, j) \in 1..Len(steps)
                                   /\ r[j].deps = steps[Before(Chosen, j)].deps
    BY <1>2, <1>3, <1>4, DuplicateFacts
  <2> QED BY <1>1, <2>1
<1>6. 1..Len(steps) \subseteq 1..Len(steps) + 1
  BY <1>2
<1>7. \A j \in 1..Len(steps) + 1 : steps'[j].deps \subseteq 1..Len(steps)
  <2> SUFFICES ASSUME NEW j \in 1..Len(steps) + 1
               PROVE  steps'[j].deps \subseteq 1..Len(steps)
    OBVIOUS
  <2>1. CASE j = Chosen + 1
    BY <1>2, <1>3, <1>4, <1>5, <2>1
  <2>2. CASE j # Chosen + 1
    BY <1>2, <1>5, <2>2
  <2> QED BY <2>1, <2>2
<1> QED BY <1>5, <1>6, <1>7 DEF Sound, Positions

\* While no event is on its way, the form offers numbers of the chain.
LEMMA SaveKeepsSound ==
    ASSUME IInv, SaveStep, ~pending, Sound(steps)
    PROVE  Sound(steps')
<1>1. Editing
  BY DEF SaveStep
<1>2. /\ steps \in Seq(Step) /\ DOMAIN steps = 1..Len(steps) /\ Len(steps) \in Nat
      /\ Numbers(steps) = 1..Len(steps)
      /\ \A j \in 1..Len(steps) : steps[j].number = j /\ steps[j].deps \subseteq 1..Len(steps)
  BY <1>1, Edits, SoundFacts
<1>3. CASE editing = 0 /\ UNCHANGED steps
  BY <1>3
<1>4. CASE editing # 0 /\ \E deps \in SUBSET form.offered, frozen \in BOOLEAN :
              steps' = [steps EXCEPT ![editing].text = form.text, ![editing].deps = deps,
                                     ![editing].frozen = frozen]
  <2>1. PICK deps \in SUBSET form.offered, frozen \in BOOLEAN :
           steps' = [steps EXCEPT ![editing].text = form.text, ![editing].deps = deps,
                                  ![editing].frozen = frozen]
    BY <1>4
  <2>2. editing \in 1..Len(steps) /\ deps \subseteq 1..Len(steps)
    BY <1>1, <1>2, <1>4, Edits DEF EditorTypes, FormFits
  <2> DEFINE new == [steps[editing] EXCEPT !.text = form.text, !.deps = deps, !.frozen = frozen]
  <2>3. new.number = steps[editing].number /\ new.deps = deps
    <3>1. steps[editing] \in Step
      BY <1>2, <2>2
    <3> QED BY <3>1 DEF Step
  <2>4. steps' = [steps EXCEPT ![editing] = new]
    BY <1>2, <2>1, <2>2
  <2> HIDE DEF new
  <2>5. DOMAIN steps' = 1..Len(steps)
        /\ \A k \in 1..Len(steps) : steps'[k] = IF k = editing THEN new ELSE steps[k]
    BY <1>2, <2>4
  <2>6. \A k \in 1..Len(steps) : steps'[k].number = k /\ steps'[k].deps \subseteq 1..Len(steps)
    BY <1>2, <2>2, <2>3, <2>5
  <2> QED BY <2>5, <2>6 DEF Sound, Positions
<1> QED BY <1>3, <1>4 DEF SaveStep

----------------------------------------------------------------------------
(* The least and the greatest of a set of numbers, the stable sort, and the sets that become   *)
(* sequences.                                                                                  *)

\* The least element principle, from the well-founded order of the finite sets.
LEMMA Least ==
    ASSUME NEW T \in SUBSET Nat, T # {}
    PROVE  \E m \in T : \A n \in T : m <= n
<1> DEFINE Below == {0..n - 1 : n \in T}
           R == StrictSubsetOrdering(Nat)
<1>1. Below \subseteq FiniteSubsetsOf(Nat)
  <2>1. \A n \in Nat : 0..n - 1 \subseteq Nat /\ IsFiniteSet(0..n - 1)
    BY FS_Interval
  <2> QED BY <2>1 DEF FiniteSubsetsOf
<1>2. Below # {}
  OBVIOUS
<1>3. IsWellFoundedOn(R, FiniteSubsetsOf(Nat))
  BY FS_StrictSubsetOrderingWellFounded
<1> HIDE DEF R, Below
<1>4. PICK x \in Below : \A y \in Below : ~(<<y, x>> \in R)
  BY <1>1, <1>2, <1>3, WFMin
<1>5. PICK m \in T : x = 0..m - 1
  BY DEF Below
<1>6. ASSUME NEW n \in T, n < m
      PROVE  FALSE
  <2>1. 0..n - 1 \in Below
    BY DEF Below
  <2>2. 0..n - 1 \subseteq 0..m - 1 /\ n \notin 0..n - 1 /\ n \in 0..m - 1
    BY <1>6
  <2>3. <<0..n - 1, x>> \in R
    BY <1>5, <2>2 DEF R, StrictSubsetOrdering
  <2> QED BY <1>4, <2>1, <2>3
<1> QED BY <1>6

LEMMA Greatest ==
    ASSUME NEW b \in Nat, NEW T \in SUBSET (1..b), T # {}
    PROVE  \E m \in T : \A n \in T : n <= m
<1> DEFINE U == {b - n : n \in T}
<1>1. U \in SUBSET Nat /\ U # {}
  OBVIOUS
<1>2. PICK u \in U : \A v \in U : u <= v
  BY <1>1, Least
<1>3. PICK m \in T : u = b - m
  OBVIOUS
<1>4. \A n \in T : b - m <= b - n
  BY <1>2, <1>3
<1>5. 1..b \subseteq Nat /\ T \subseteq 1..b
  OBVIOUS
<1> HIDE DEF U
<1>6. \A n \in T : n \in Nat /\ m \in Nat
  BY <1>5
<1> QED BY <1>4, <1>6

LEMMA EvolvedFacts ==
    ASSUME NEW chain \in Seq(Evolved)
    PROVE  /\ DOMAIN chain = 1..Len(chain) /\ Len(chain) \in Nat
           /\ \A k \in 1..Len(chain) : chain[k] \in Evolved /\ chain[k].number \in Nat
<1>1. \A k \in 1..Len(chain) : chain[k] \in Evolved
  OBVIOUS
<1> QED BY <1>1 DEF Evolved

\* Every step has a place of its own among the places of the chain, in the order of the numbers.
LEMMA PlaceFacts ==
    ASSUME NEW chain \in Seq(Evolved)
    PROVE  /\ \A k \in 1..Len(chain) : Place(chain, k) \in 1..Len(chain)
           /\ \A k, l \in 1..Len(chain) : Place(chain, k) = Place(chain, l) => k = l
           /\ \A n \in 1..Len(chain) : \E k \in 1..Len(chain) : Place(chain, k) = n
           /\ \A k, l \in 1..Len(chain) : Place(chain, k) < Place(chain, l) => Precedes(chain, k, l)
<1> DEFINE N == 1..Len(chain)
           Upto(k) == {l \in N : Precedes(chain, l, k)}
<1>1. DOMAIN chain = N /\ Len(chain) \in Nat /\ \A k \in N : chain[k].number \in Nat
  BY EvolvedFacts
<1>2. IsFiniteSet(N) /\ Cardinality(N) = Len(chain)
  BY <1>1, FS_Interval
<1>3. \A k \in N : Place(chain, k) = Cardinality(Upto(k))
  BY <1>1 DEF Place
<1>4. \A k \in N : k \in Upto(k)
  BY <1>1 DEF Precedes
<1>5. \A k, l \in N : Precedes(chain, k, l) => Upto(k) \subseteq Upto(l)
  BY <1>1 DEF Precedes
<1>6. \A k, l \in N : k # l => \/ Precedes(chain, k, l) /\ l \notin Upto(k)
                               \/ Precedes(chain, l, k) /\ k \notin Upto(l)
  BY <1>1 DEF Precedes
<1>7. \A k \in N : Upto(k) \in SUBSET N
  OBVIOUS
<1> HIDE DEF N, Upto
<1>8. \A k \in N : /\ IsFiniteSet(Upto(k)) /\ Cardinality(Upto(k)) \in Nat
                   /\ Cardinality(Upto(k)) <= Len(chain) /\ Cardinality(Upto(k)) # 0
  <2> SUFFICES ASSUME NEW k \in N
               PROVE  /\ IsFiniteSet(Upto(k)) /\ Cardinality(Upto(k)) \in Nat
                      /\ Cardinality(Upto(k)) <= Len(chain) /\ Cardinality(Upto(k)) # 0
    OBVIOUS
  <2>1. IsFiniteSet(Upto(k)) /\ Cardinality(Upto(k)) <= Cardinality(N)
    BY <1>2, <1>7, FS_Subset
  <2>2. Upto(k) # {}
    BY <1>4
  <2> QED BY <1>2, <2>1, <2>2, FS_CardinalityType, FS_EmptySet
<1>9. \A k, l \in N : Precedes(chain, k, l) => Cardinality(Upto(k)) <= Cardinality(Upto(l))
  BY <1>5, <1>8, FS_Subset
<1>10. ASSUME NEW k \in N, NEW l \in N, Cardinality(Upto(k)) = Cardinality(Upto(l))
       PROVE  k = l
  <2>1. ASSUME Upto(k) \subseteq Upto(l) \/ Upto(l) \subseteq Upto(k)
        PROVE  Upto(k) = Upto(l)
    BY <1>8, <1>10, <2>1, FS_Subset
  <2> QED BY <1>4, <1>5, <1>6, <2>1
<1>11. \A k \in N : Place(chain, k) \in N
  <2>1. \A k \in N : Cardinality(Upto(k)) \in 1..Len(chain)
    BY <1>1, <1>8
  <2> QED BY <1>3, <2>1 DEF N
<1>12. \A k, l \in N : Place(chain, k) = Place(chain, l) => k = l
  BY <1>3, <1>10
<1>13. \A n \in N : \E k \in N : Place(chain, k) = n
  <2> DEFINE f == [k \in N |-> Place(chain, k)]
  <2>1. f \in Injection(N, N)
    BY <1>11, <1>12 DEF Injection, IsInjective
  <2>2. f \in Surjection(N, N)
    BY <1>2, <2>1, FS_Injection
  <2> QED BY <2>2 DEF Surjection
<1>14. ASSUME NEW k \in N, NEW l \in N, Place(chain, k) < Place(chain, l)
       PROVE  Precedes(chain, k, l)
  <2>1. k # l /\ ~(Cardinality(Upto(l)) <= Cardinality(Upto(k)))
    BY <1>3, <1>8, <1>14
  <2> QED BY <1>6, <1>9, <2>1
<1> QED BY <1>11, <1>12, <1>13, <1>14 DEF N

\* InOrder is the stable sort by number: it takes every step from one place and leaves none out,
\* the numbers do not decrease, and steps with the same number keep their order.
Source(chain, n) == CHOOSE k \in DOMAIN chain : Place(chain, k) = n

LEMMA InOrderFacts ==
    ASSUME NEW chain \in Seq(Evolved)
    PROVE  LET r == InOrder(chain) IN
           /\ r \in Seq(Evolved) /\ Len(r) = Len(chain)
           /\ \A n \in 1..Len(chain) :
                 Source(chain, n) \in 1..Len(chain) /\ r[n] = chain[Source(chain, n)]
           /\ \A k \in 1..Len(chain) : \E n \in 1..Len(chain) : Source(chain, n) = k
           /\ \A m, n \in 1..Len(chain) :
                 m < n => /\ Source(chain, m) # Source(chain, n)
                          /\ r[m].number <= r[n].number
                          /\ r[m].number = r[n].number => Source(chain, m) < Source(chain, n)
<1> DEFINE N == 1..Len(chain)
           r == InOrder(chain)
<1>1. DOMAIN chain = N /\ Len(chain) \in Nat
      /\ \A k \in N : chain[k] \in Evolved /\ chain[k].number \in Nat
  BY EvolvedFacts
<1>2. \A n \in N : Source(chain, n) \in N /\ Place(chain, Source(chain, n)) = n
  <2>1. \A n \in N : \E k \in DOMAIN chain : Place(chain, k) = n
    BY <1>1, PlaceFacts
  <2> QED BY <1>1, <2>1 DEF Source
<1>3. r = [n \in N |-> chain[Source(chain, n)]]
  BY <1>1 DEF InOrder, Source
<1> HIDE DEF r
<1>4. r \in [N -> Evolved]
  BY <1>1, <1>2, <1>3
<1>5. r \in Seq(Evolved) /\ Len(r) = Len(chain)
  BY <1>1, <1>4, SeqDef
<1>6. \A k \in N : Place(chain, k) \in N /\ Source(chain, Place(chain, k)) = k
  BY <1>2, PlaceFacts
<1>7. ASSUME NEW m \in N, NEW n \in N, m < n
      PROVE  /\ Source(chain, m) # Source(chain, n)
             /\ r[m].number <= r[n].number
             /\ r[m].number = r[n].number => Source(chain, m) < Source(chain, n)
  <2> DEFINE k == Source(chain, m)
             l == Source(chain, n)
  <2>1. k \in N /\ l \in N /\ Place(chain, k) = m /\ Place(chain, l) = n
    BY <1>2
  <2>2. r[m] = chain[k] /\ r[n] = chain[l]
    BY <1>3
  <2> HIDE DEF k, l
  <2>3. Precedes(chain, k, l)
    BY <1>7, <2>1, PlaceFacts
  <2>4. k # l
    BY <1>7, <2>1
  <2>5. chain[k].number \in Nat /\ chain[l].number \in Nat /\ k \in Nat /\ l \in Nat
    BY <1>1, <2>1
  <2>6. chain[k].number <= chain[l].number /\ (chain[k].number = chain[l].number => k < l)
    BY <2>3, <2>4, <2>5 DEF Precedes
  <2> QED BY <2>2, <2>4, <2>6 DEF k, l
<1> QED BY <1>2, <1>3, <1>5, <1>6, <1>7 DEF r

LEMMA SetToSeqFacts ==
    ASSUME NEW S, IsFiniteSet(S)
    PROVE  /\ SetToSeq(S) \in Seq(S)
           /\ \A x \in S : \E k \in DOMAIN SetToSeq(S) : SetToSeq(S)[k] = x
<1> DEFINE N == 1..Cardinality(S)
           f == SetToSeq(S)
<1>1. Cardinality(S) \in Nat /\ ExistsBijection(N, S)
  BY FS_CardinalityType
<1>2. \E g \in [N -> S] : IsInjective(g)
  BY <1>1 DEF ExistsBijection, Bijection, Injection
<1>3. f \in [N -> S] /\ IsInjective(f)
  BY <1>2 DEF SetToSeq
<1>4. IsFiniteSet(N) /\ Cardinality(N) = Cardinality(S)
  BY <1>1, FS_Interval
<1> HIDE DEF f
<1>5. f \in Injection(N, S)
  BY <1>3 DEF Injection
<1> HIDE DEF N
<1>6. f \in Surjection(N, S)
  BY <1>4, <1>5, FS_Injection
<1>7. \A x \in S : \E k \in DOMAIN f : f[k] = x
  BY <1>3, <1>6 DEF Surjection
<1>8. f \in Seq(S)
  BY <1>1, <1>3, SeqDef DEF N
<1> QED BY <1>7, <1>8 DEF f

----------------------------------------------------------------------------
(* What becomes of the frozen steps. *)

\* The experiment is the chain as it was when it was created, and the chain is not edited after.
Recorded ==
    IF submitted = None
    THEN program = None
    ELSE /\ submitted.chain = [k \in DOMAIN steps |-> Bare(steps[k])]
         /\ submitted.frozen = FrozenNumbers

\* The inductive invariant with the experiment.
ExperimentInv == IInv /\ TypeOK /\ Recorded /\ FrozenKept

LEMMA BareFacts ==
    ASSUME NEW s \in Seq(Step)
    PROVE  LET chain == [k \in DOMAIN s |-> Bare(s[k])] IN
           /\ chain \in Seq(Evolved) /\ Len(chain) = Len(s) /\ DOMAIN chain = DOMAIN s
           /\ \A k \in DOMAIN s : chain[k] = Bare(s[k]) /\ chain[k].number = s[k].number
<1>1. \A k \in 1..Len(s) : Bare(s[k]) \in Evolved /\ Bare(s[k]).number = s[k].number
  BY Types DEF Bare, Evolved
<1>2. DOMAIN s = 1..Len(s) /\ Len(s) \in Nat
  OBVIOUS
<1> DEFINE chain == [k \in DOMAIN s |-> Bare(s[k])]
<1>3. chain \in [1..Len(s) -> Evolved]
  BY <1>1, <1>2
<1>4. chain \in Seq(Evolved) /\ Len(chain) = Len(s)
  BY <1>2, <1>3, SeqDef
<1> QED BY <1>1, <1>2, <1>4

\* The number of every frozen step leads to a step that has it: the last one, so the only one
\* where the numbers tell the steps apart.
LEMMA OriginalFacts ==
    ASSUME steps \in Seq(Step), submitted # None, Recorded
    PROVE  /\ submitted.chain \in Seq(Evolved)
           /\ submitted.frozen \subseteq Numbers(steps) /\ IsFiniteSet(submitted.frozen)
           /\ \A n \in submitted.frozen : Original(n) \in Evolved /\ Original(n).number = n
           /\ Distinct => \A k \in DOMAIN steps : steps[k].frozen =>
                             /\ steps[k].number \in submitted.frozen
                             /\ Original(steps[k].number) = Bare(steps[k])
<1> DEFINE N == 1..Len(steps)
           chain == submitted.chain
           Latest(n, k) == /\ chain[k].number = n
                           /\ \A l \in DOMAIN chain : chain[l].number = n => l <= k
<1>1. /\ DOMAIN steps = N /\ Len(steps) \in Nat
      /\ \A k \in N : steps[k].number \in Nat /\ steps[k].frozen \in BOOLEAN
  BY Types
<1>2. /\ chain \in Seq(Evolved) /\ DOMAIN chain = N
      /\ \A k \in N : /\ chain[k] \in Evolved /\ chain[k] = Bare(steps[k])
                      /\ chain[k].number = steps[k].number
  <2>1. chain = [k \in DOMAIN steps |-> Bare(steps[k])]
    BY DEF Recorded
  <2> HIDE DEF chain
  <2>2. chain \in Seq(Evolved) /\ DOMAIN chain = DOMAIN steps /\ Len(chain) = Len(steps)
        /\ \A k \in DOMAIN steps : chain[k] = Bare(steps[k]) /\ chain[k].number = steps[k].number
    BY <2>1, BareFacts
  <2> QED BY <1>1, <2>2, EvolvedFacts
<1>3. submitted.frozen = {steps[k].number : k \in {k \in N : steps[k].frozen}}
  BY <1>1 DEF Recorded, FrozenNumbers
<1>4. submitted.frozen \subseteq Numbers(steps)
  BY <1>1, <1>3 DEF Numbers
<1>5. IsFiniteSet(submitted.frozen)
  <2> DEFINE F == {k \in N : steps[k].frozen}
             f == [k \in F |-> steps[k].number]
  <2>1. IsFiniteSet(N)
    BY <1>1, FS_Interval
  <2>2. IsFiniteSet(F)
    BY <2>1, FS_Subset
  <2>3. f \in Surjection(F, submitted.frozen)
    BY <1>3 DEF Surjection
  <2> HIDE DEF F, f
  <2> QED BY <2>2, <2>3, FS_Surjection
<1> HIDE DEF chain
<1>6. ASSUME NEW n \in Numbers(steps)
      PROVE  \E k \in DOMAIN chain : Latest(n, k)
  <2> DEFINE T == {k \in N : chain[k].number = n}
  <2>1. T # {} /\ T \in SUBSET N
    BY <1>1, <1>2, <1>6 DEF Numbers
  <2>2. PICK m \in T : \A l \in T : l <= m
    BY <1>1, <2>1, Greatest
  <2>3. m \in DOMAIN chain /\ Latest(n, m)
    BY <1>2, <2>2
  <2> QED BY <2>3
<1>7. \A n \in Numbers(steps) : \E k \in DOMAIN chain : Latest(n, k) /\ Original(n) = chain[k]
  <2> SUFFICES ASSUME NEW n \in Numbers(steps)
               PROVE  \E k \in DOMAIN chain : Latest(n, k) /\ Original(n) = chain[k]
    OBVIOUS
  <2> DEFINE k == CHOOSE k \in DOMAIN chain : Latest(n, k)
  <2>1. k \in DOMAIN chain /\ Latest(n, k)
    <3> HIDE DEF Latest
    <3> QED BY <1>6
  <2>2. Original(n) = chain[k]
    BY DEF Original, chain
  <2> HIDE DEF k
  <2> QED BY <2>1, <2>2
<1>8. \A n \in submitted.frozen : Original(n) \in Evolved /\ Original(n).number = n
  <2> SUFFICES ASSUME NEW n \in submitted.frozen
               PROVE  Original(n) \in Evolved /\ Original(n).number = n
    OBVIOUS
  <2>1. PICK k \in DOMAIN chain : Latest(n, k) /\ Original(n) = chain[k]
    BY <1>4, <1>7
  <2> QED BY <1>2, <2>1
<1>9. ASSUME Distinct, NEW k \in DOMAIN steps, steps[k].frozen
      PROVE  steps[k].number \in submitted.frozen /\ Original(steps[k].number) = Bare(steps[k])
  <2>1. steps[k].number \in submitted.frozen
    BY <1>1, <1>3, <1>9
  <2>2. PICK l \in DOMAIN chain : Latest(steps[k].number, l) /\ Original(steps[k].number) = chain[l]
    BY <1>4, <1>7, <2>1
  <2>3. l \in DOMAIN steps /\ steps[l].number = steps[k].number
    BY <1>1, <1>2, <2>2
  <2>4. l = k
    BY <1>9, <2>3 DEF Distinct
  <2> QED BY <1>1, <1>2, <2>1, <2>2, <2>4
<1> QED BY <1>2, <1>4, <1>5, <1>8, <1>9 DEF chain

\* Whatever chain a mutation has made, the restored one has every frozen number, and what has a
\* frozen number is the original.
LEMMA RestoredFacts ==
    ASSUME steps \in Seq(Step), submitted # None, Recorded, NEW chain \in Seq(Evolved)
    PROVE  LET r == ApplyFrozenSteps(chain) IN
           /\ r \in Seq(Evolved)
           /\ \A j \in DOMAIN r : r[j].number \in submitted.frozen => r[j] = Original(r[j].number)
           /\ \A n \in submitted.frozen : \E j \in DOMAIN r : r[j].number = n
<1> DEFINE F == submitted.frozen
           kept == Kept(chain)
           missing == SetToSeq(F \ Numbers(chain))
           added == [k \in DOMAIN missing |-> Original(missing[k])]
           merged == kept \o added
           r == ApplyFrozenSteps(chain)
<1>1. IsFiniteSet(F) /\ \A n \in F : Original(n) \in Evolved /\ Original(n).number = n
  BY OriginalFacts
<1>2. DOMAIN chain = 1..Len(chain) /\ Len(chain) \in Nat /\ \A k \in 1..Len(chain) : chain[k] \in Evolved
  BY EvolvedFacts
<1> HIDE DEF F
<1>3. kept = [k \in 1..Len(chain) |-> IF chain[k].number \in F THEN Original(chain[k].number) ELSE chain[k]]
  BY <1>2 DEF Kept, F
<1> HIDE DEF kept
<1>4. kept \in Seq(Evolved) /\ Len(kept) = Len(chain)
  <2>1. kept \in [1..Len(chain) -> Evolved]
    BY <1>1, <1>2, <1>3
  <2> QED BY <1>2, <1>3, <2>1, SeqDef
<1>5. \A k \in 1..Len(kept) : /\ kept[k].number = chain[k].number
                              /\ kept[k].number \in F => kept[k] = Original(kept[k].number)
  BY <1>1, <1>3, <1>4
<1>6. /\ missing \in Seq(F \ Numbers(chain))
      /\ \A n \in F \ Numbers(chain) : \E k \in DOMAIN missing : missing[k] = n
  <2>1. IsFiniteSet(F \ Numbers(chain))
    BY <1>1, FS_Difference
  <2> QED BY <2>1, SetToSeqFacts
<1> HIDE DEF missing
<1>7. DOMAIN missing = 1..Len(missing) /\ Len(missing) \in Nat
      /\ \A k \in 1..Len(missing) : missing[k] \in F \ Numbers(chain)
  BY <1>6
<1>8. added \in Seq(Evolved) /\ Len(added) = Len(missing)
      /\ \A k \in 1..Len(added) : added[k].number = missing[k] /\ added[k] = Original(added[k].number)
  <2>1. added \in [1..Len(missing) -> Evolved]
    BY <1>1, <1>7
  <2>2. added \in Seq(Evolved) /\ Len(added) = Len(missing)
    BY <1>7, <2>1, SeqDef
  <2> QED BY <1>1, <1>7, <2>2
<1> HIDE DEF added
<1>9. /\ merged \in Seq(Evolved) /\ Len(merged) = Len(kept) + Len(added)
      /\ \A k \in 1..Len(kept) : merged[k] = kept[k]
      /\ \A k \in 1..Len(added) : merged[Len(kept) + k] = added[k]
      /\ \A k \in 1..Len(merged) : k \in 1..Len(kept) \/ \E l \in 1..Len(added) : k = Len(kept) + l
  <2>1. Len(kept) \in Nat /\ Len(added) \in Nat
    BY <1>4, <1>8
  <2>2. /\ merged \in Seq(Evolved) /\ Len(merged) = Len(kept) + Len(added)
        /\ \A k \in 1..Len(kept) + Len(added) :
              merged[k] = IF k <= Len(kept) THEN kept[k] ELSE added[k - Len(kept)]
    <3>1. kept \in Seq(Evolved) /\ added \in Seq(Evolved)
      BY <1>4, <1>8
    <3>2. kept \o added \in Seq(Evolved) /\ Len(kept \o added) = Len(kept) + Len(added)
      BY <3>1
    <3>3. \A k \in 1..Len(kept) + Len(added) :
             (kept \o added)[k] = IF k <= Len(kept) THEN kept[k] ELSE added[k - Len(kept)]
      BY <3>1
    <3> QED BY <3>2, <3>3
  <2> HIDE DEF merged
  <2>3. \A k \in 1..Len(kept) : k \in 1..Len(kept) + Len(added) /\ k <= Len(kept)
    BY <2>1
  <2>4. \A k \in 1..Len(added) : /\ Len(kept) + k \in 1..Len(kept) + Len(added)
                                 /\ ~(Len(kept) + k <= Len(kept)) /\ (Len(kept) + k) - Len(kept) = k
    BY <2>1
  <2>5. \A k \in 1..Len(kept) + Len(added) :
           \/ k \in 1..Len(kept)
           \/ k - Len(kept) \in 1..Len(added) /\ k = Len(kept) + (k - Len(kept))
    BY <2>1
  <2> QED BY <2>2, <2>3, <2>4, <2>5
<1> HIDE DEF merged
<1>10. ASSUME NEW k \in 1..Len(merged), merged[k].number \in F
       PROVE  merged[k] = Original(merged[k].number)
  <2>1. CASE k \in 1..Len(kept)
    BY <1>5, <1>9, <1>10, <2>1
  <2>2. CASE \E l \in 1..Len(added) : k = Len(kept) + l
    BY <1>8, <1>9, <2>2
  <2> QED BY <1>9, <2>1, <2>2
<1>11. \A n \in F : \E k \in 1..Len(merged) : merged[k].number = n
  <2> SUFFICES ASSUME NEW n \in F
               PROVE  \E k \in 1..Len(merged) : merged[k].number = n
    OBVIOUS
  <2>1. Len(kept) \in Nat /\ Len(added) \in Nat
    BY <1>4, <1>8
  <2>2. CASE n \in Numbers(chain)
    <3>1. PICK k \in 1..Len(chain) : chain[k].number = n
      BY <1>2, <2>2 DEF Numbers
    <3>2. k \in 1..Len(merged)
      BY <1>4, <1>9, <2>1
    <3> QED BY <1>4, <1>5, <1>9, <3>1, <3>2
  <2>3. CASE n \notin Numbers(chain)
    <3>1. PICK k \in 1..Len(missing) : missing[k] = n
      BY <1>6, <1>7, <2>3
    <3>2. k \in 1..Len(added) /\ added[k].number = n
      BY <1>8, <3>1
    <3>3. Len(kept) + k \in 1..Len(merged)
      BY <1>9, <2>1, <3>2
    <3> QED BY <1>9, <3>2, <3>3
  <2> QED BY <2>2, <2>3
<1>12. r = InOrder(merged)
  BY DEF ApplyFrozenSteps, merged, kept, added, missing, F
<1> HIDE DEF r
<1>13. /\ r \in Seq(Evolved) /\ Len(r) = Len(merged) /\ DOMAIN r = 1..Len(merged)
       /\ \A j \in 1..Len(merged) : \E k \in 1..Len(merged) : r[j] = merged[k]
       /\ \A k \in 1..Len(merged) : \E j \in 1..Len(merged) : r[j] = merged[k]
  <2>1. /\ r \in Seq(Evolved) /\ Len(r) = Len(merged)
        /\ \A n \in 1..Len(merged) :
              Source(merged, n) \in 1..Len(merged) /\ r[n] = merged[Source(merged, n)]
        /\ \A k \in 1..Len(merged) : \E n \in 1..Len(merged) : Source(merged, n) = k
    BY <1>9, <1>12, InOrderFacts
  <2>2. DOMAIN r = 1..Len(r)
    BY <2>1
  <2>3. \A k \in 1..Len(merged) : \E j \in 1..Len(merged) : r[j] = merged[k]
    BY <2>1
  <2> QED BY <2>1, <2>2, <2>3
<1>14. \A j \in DOMAIN r : r[j].number \in F => r[j] = Original(r[j].number)
  BY <1>10, <1>13
<1>15. ASSUME NEW n \in F
       PROVE  \E j \in DOMAIN r : r[j].number = n
  <2>1. PICK k \in 1..Len(merged) : merged[k].number = n
    BY <1>11
  <2>2. PICK j \in 1..Len(merged) : r[j] = merged[k]
    BY <1>13
  <2> QED BY <1>13, <2>1, <2>2
<1> QED BY <1>13, <1>14, <1>15 DEF r, F

\* What is submitted is never taken for the absence of an experiment.
LEMMA SubmittedFacts ==
    ASSUME NEW s \in Seq(Step), NEW mode \in Modes, NEW frozen \in SUBSET Numbers(s)
    PROVE  [chain |-> [k \in DOMAIN s |-> Bare(s[k])], frozen |-> frozen, mode |-> mode] # None
<1> DEFINE chain == [k \in DOMAIN s |-> Bare(s[k])]
<1>1. chain \in Seq(Evolved)
  BY BareFacts
<1> HIDE DEF chain
<1>2. frozen \in SUBSET Nat
  BY Types
<1>3. [chain |-> chain, frozen |-> frozen, mode |-> mode]
         \in [chain : Seq(Evolved), frozen : SUBSET Nat, mode : Modes]
  BY <1>1, <1>2
<1>4. [chain |-> chain, frozen |-> frozen, mode |-> mode] # None
  BY <1>3, NoneAssumption
<1> QED BY <1>4 DEF chain

LEMMA MutationsTyped == Mutations \subseteq Seq(Evolved)
<1> DEFINE Made == [number : 1..MaxSteps, deps : {{}}, text : {0}]
<1>1. MaxSteps \in Nat /\ MaxIds \in Nat /\ MaxEvolved \in Nat
  BY ChainEditorAssumption
<1>2. Made \subseteq Evolved
  <2>1. 1..MaxSteps \subseteq Nat /\ {{}} \subseteq SUBSET Nat /\ {0} \subseteq 0..MaxIds
    BY <1>1
  <2> QED BY <2>1 DEF Evolved
<1>3. Mutations = UNION {[1..m -> Made] : m \in 0..MaxEvolved}
  BY DEF Mutations, BoundedSeq, SeqOf
<1> HIDE DEF Made
<1>4. ASSUME NEW m \in 0..MaxEvolved, NEW chain \in [1..m -> Made]
      PROVE  chain \in Seq(Evolved)
  <2>1. m \in Nat
    BY <1>1
  <2>2. chain \in [1..m -> Evolved]
    BY <1>2
  <2> QED BY <2>1, <2>2, SeqDef
<1> QED BY <1>3, <1>4

\* What an operation of the editor does to the parts of TypeOK that IInv leaves out.
Bounded == Len(steps) <= MaxSteps /\ (form = None => editing = 0) /\ saves \in 0..MaxSaves

LEMMA EditsBounded ==
    ASSUME IInv, TypeOK, Next, Editing
    PROVE  Bounded'
<1>1. /\ steps \in Seq(Step) /\ DOMAIN steps = 1..Len(steps) /\ Len(steps) \in Nat
      /\ ids \in Nat /\ MaxSteps \in Nat /\ MaxIds \in Nat /\ MaxSaves \in Nat
  BY Edits, ChainEditorAssumption
<1>2. Bounded
  BY DEF TypeOK, Bounded
<1>3. CASE AddStep
  <2>1. CASE /\ Len(steps) < MaxSteps /\ ids < MaxIds
             /\ steps' = Append(steps, DefaultStep(ids + 1, Len(steps) + 1))
             /\ form' = FormOf(steps', ids + 1, Len(steps'))
    <3> DEFINE new == DefaultStep(ids + 1, Len(steps) + 1)
    <3>1. new \in Step
      <4>1. ids + 1 \in 1..MaxIds /\ ids + 1 \in 0..MaxIds /\ Len(steps) + 1 \in Nat
            /\ ((Len(steps) + 1 # 1) => (Len(steps) + 1) - 1 \in Nat)
        BY <1>1, <2>1
      <4>2. new.deps \subseteq Nat
        BY <4>1 DEF DefaultStep
      <4> QED BY <4>1, <4>2 DEF DefaultStep, Step
    <3> HIDE DEF new
    <3>2. steps' \in Seq(Step) /\ Len(steps') = Len(steps) + 1
      BY <1>1, <2>1, <3>1 DEF new
    <3>3. form' # None
      <4>1. Numbers(steps') \subseteq Nat
        BY <3>2, Types
      <4>2. ids + 1 \in 0..MaxIds
        BY <1>1, <2>1
      <4>3. form' \in [text : 0..MaxIds, offered : SUBSET Nat]
        BY <2>1, <4>1, <4>2 DEF FormOf
      <4> QED BY <4>3, NoneAssumption
    <3>4. Len(steps') <= MaxSteps
      BY <1>1, <2>1, <3>2
    <3>5. saves' = saves
      BY <1>3 DEF AddStep
    <3> QED BY <1>2, <3>3, <3>4, <3>5 DEF Bounded
  <2>2. CASE editing' = 0 /\ UNCHANGED steps
    BY <1>2, <1>3, <2>2 DEF AddStep, Bounded
  <2> QED BY <1>3, <2>1, <2>2 DEF AddStep
<1>4. CASE Select
  BY <1>2, <1>4 DEF Select, Bounded
<1>5. CASE EditStep
  <2>1. CASE Valid /\ editing' = Chosen /\ form' = FormOf(steps, steps[Chosen].text, Chosen)
    <3>1. steps[Chosen].text \in 0..MaxIds /\ Numbers(steps) \subseteq Nat
      BY <1>1, <2>1, Types DEF Valid
    <3>2. form' \in [text : 0..MaxIds, offered : SUBSET Nat]
      BY <2>1, <3>1 DEF FormOf
    <3> QED BY <1>2, <1>5, <3>2, NoneAssumption DEF EditStep, Bounded
  <2>2. CASE editing' = 0
    BY <1>2, <1>5, <2>2 DEF EditStep, Bounded
  <2> QED BY <1>5, <2>1, <2>2 DEF EditStep
<1>6. CASE ToggleFreeze
  <2>1. Len(steps') = Len(steps)
    <3>1. steps' = [steps EXCEPT ![Chosen].frozen = ~@]
      BY <1>6 DEF ToggleFreeze
    <3>2. DOMAIN steps' = 1..Len(steps)
      BY <1>1, <3>1
    <3>3. steps' \in Seq(Step)
      BY <1>6, ToggleFreezeInv DEF IInv, EditorTypes
    <3> QED BY <1>1, <3>2, <3>3
  <2> QED BY <1>2, <1>6, <2>1 DEF ToggleFreeze, Bounded
<1>7. CASE RemoveStep
  <2>1. Len(steps') <= Len(steps)
    <3>1. CASE UNCHANGED steps
      BY <1>1, <3>1
    <3>2. CASE Valid /\ steps' = Removed(steps, Chosen)
      <4>1. Chosen \in 1..Len(steps)
        BY <1>1, <3>2 DEF Valid
      <4>2. Len(steps') = Len(steps) - 1
        BY <1>1, <3>2, <4>1, RemoveFacts
      <4> QED BY <1>1, <4>2
    <3> QED BY <1>7, <3>1, <3>2 DEF RemoveStep, Removed
  <2>2. Len(steps') \in Nat
    BY <1>7, RemoveStepInv DEF IInv, EditorTypes
  <2> QED BY <1>1, <1>2, <1>7, <2>1, <2>2 DEF RemoveStep, Bounded
<1>8. CASE MoveStepUp \/ MoveStepDown
  <2>1. PICK k, l : Swap(k, l)
    BY <1>8 DEF MoveStepUp, MoveStepDown
  <2>2. Len(steps') = Len(steps)
    <3>1. k \in 1..Len(steps) /\ l \in 1..Len(steps) /\ steps' = Exchanged(steps, k, l)
      BY <1>1, <2>1 DEF Swap, Exchanged
    <3> QED BY <1>1, <3>1, SwapFacts
  <2> QED BY <1>2, <2>1, <2>2 DEF Swap, Bounded
<1>9. CASE DuplicateStep
  <2> DEFINE copy == [steps[Chosen] EXCEPT !.id = ids + 1, !.text = ids + 1, !.frozen = FALSE]
  <2>1. Chosen \in 1..Len(steps) /\ steps[Chosen] \in Step /\ ids + 1 \in 1..MaxIds
        /\ ids + 1 \in 0..MaxIds /\ Len(steps) < MaxSteps /\ steps' = Copied(steps, Chosen, copy)
    BY <1>1, <1>9 DEF DuplicateStep, Valid, Copied
  <2>2. copy \in Step
    <3> DEFINE id == ids + 1
    <3>1. id \in 1..MaxIds /\ id \in 0..MaxIds
      BY <2>1
    <3> HIDE DEF id
    <3>2. [steps[Chosen] EXCEPT !.id = id, !.text = id, !.frozen = FALSE] \in Step
      BY <2>1, <3>1 DEF Step
    <3> QED BY <3>2 DEF id
  <2> HIDE DEF copy
  <2>3. Len(steps') = Len(steps) + 1
    BY <1>1, <2>1, <2>2, DuplicateFacts
  <2> QED BY <1>1, <1>2, <1>9, <2>1, <2>3 DEF DuplicateStep, Bounded
<1>10. CASE SaveStep
  <2>1. CASE UNCHANGED <<steps, saves>>
    BY <1>2, <1>10, <2>1 DEF SaveStep, Bounded
  <2>2. CASE /\ Saving
             /\ \E deps \in SUBSET form.offered, frozen \in BOOLEAN :
                   steps' = [steps EXCEPT ![editing].text = form.text, ![editing].deps = deps,
                                          ![editing].frozen = frozen]
    <3>1. DOMAIN steps' = 1..Len(steps)
      BY <1>1, <2>2
    <3>2. steps' \in Seq(Step)
      BY <1>10, SaveStepInv DEF IInv, EditorTypes
    <3>3. Len(steps') = Len(steps)
      BY <1>1, <3>1, <3>2
    <3>4. saves' \in 0..MaxSaves
      BY <1>1, <1>2, <2>2 DEF Saving, Bounded
    <3> QED BY <1>2, <1>10, <3>3, <3>4 DEF SaveStep, Bounded
  <2> QED BY <1>10, <2>1, <2>2 DEF SaveStep
<1>11. CASE CancelStep
  BY <1>2, <1>11 DEF CancelStep, Bounded
<1>12. ASSUME NEW load \in Loads, ApplySteps(load)
       PROVE  Bounded'
  <2>1. CASE Refused
    BY <1>2, <1>12, <2>1 DEF ApplySteps, Refused, Bounded
  <2>2. CASE Applied(load)
    <3>1. Len(load) \in 1..MaxSteps /\ DOMAIN load = 1..Len(load)
      BY ChainEditorAssumption
    <3>2. DOMAIN steps' = 1..Len(load)
      BY <2>2, <3>1 DEF Applied
    <3>3. steps' \in Seq(Step)
      BY <1>12, ApplyStepsInv DEF IInv, EditorTypes
    <3>4. Len(steps') = Len(load)
      BY <1>1, <3>1, <3>2, <3>3
    <3> QED BY <1>1, <1>2, <1>12, <2>2, <3>1, <3>4 DEF ApplySteps, Applied, Bounded
  <2> QED BY <1>12, <2>1, <2>2 DEF ApplySteps, Applied, Refused
<1>13. CASE Clean
  BY <1>1, <1>2, <1>13 DEF Clean, Bounded
<1>14. ~Create /\ ~Evolve
  <2>1. submitted = None /\ submitted' = None
    BY Edits
  <2>2. ASSUME Create PROVE FALSE
    <3>1. IInv' /\ submitted' = None
      BY <2>1, <2>2, CreateInv
    <3>2. PICK mode \in Modes : submitted' = [chain |-> [k \in DOMAIN steps |-> Bare(steps[k])],
                                              frozen |-> FrozenNumbers, mode |-> mode]
      BY <2>2 DEF Create
    <3>3. FrozenNumbers \in SUBSET Numbers(steps)
      BY DEF FrozenNumbers, Numbers
    <3> QED BY <1>1, <2>1, <3>2, <3>3, SubmittedFacts
  <2> QED BY <2>1, <2>2 DEF Evolve
<1> QED BY <1>3, <1>4, <1>5, <1>6, <1>7, <1>8, <1>9, <1>10, <1>11, <1>12, <1>13, <1>14 DEF Next

\* An operation of the editor leaves what it does not own.
LEMMA EditExperiment ==
    ASSUME ExperimentInv, Next, Editing
    PROVE  ExperimentInv'
<1>1. IInv' /\ Bounded'
  BY StepInv, EditsBounded DEF ExperimentInv
<1>2. submitted' = None /\ program' = None
  BY DEF ExperimentInv, Recorded, Editing, experiment
<1>3. Recorded' /\ FrozenKept'
  BY <1>2 DEF Recorded, FrozenKept, FullChain
<1>4. TypeOK'
  BY <1>1, <1>2 DEF IInv, EditorTypes, Bounded, TypeOK
<1> QED BY <1>1, <1>3, <1>4 DEF ExperimentInv

\* The first program is the chain itself.
LEMMA CreateExperiment ==
    ASSUME ExperimentInv, Create
    PROVE  ExperimentInv'
<1>1. PICK mode \in Modes : submitted' = [chain |-> [k \in DOMAIN steps |-> Bare(steps[k])],
                                          frozen |-> FrozenNumbers, mode |-> mode]
  BY DEF Create
<1>2. /\ UNCHANGED steps /\ program' = submitted'.chain /\ editing' = 0 /\ form' = None
      /\ saves' = 0 /\ steps \in Seq(Step) /\ Len(steps) <= MaxSteps
  BY DEF Create, ExperimentInv, TypeOK
<1>3. IInv'
  BY CreateInv DEF ExperimentInv
<1> DEFINE chain == [k \in DOMAIN steps |-> Bare(steps[k])]
<1>4. /\ chain \in Seq(Evolved) /\ DOMAIN chain = DOMAIN steps
      /\ \A k \in DOMAIN steps : chain[k] = Bare(steps[k]) /\ chain[k].number = steps[k].number
  BY <1>2, BareFacts
<1> HIDE DEF chain
<1>5. submitted' = [chain |-> chain, frozen |-> FrozenNumbers, mode |-> mode]
      /\ program' = chain
  BY <1>1, <1>2 DEF chain
<1>6. FrozenNumbers \subseteq Numbers(steps) /\ submitted' # None
  <2>1. FrozenNumbers \subseteq Numbers(steps)
    BY DEF FrozenNumbers, Numbers
  <2> QED BY <1>1, <1>2, <2>1, SubmittedFacts
<1>7. Recorded'
  <2>1. FrozenNumbers' = FrozenNumbers
    BY <1>2 DEF FrozenNumbers
  <2>2. submitted'.chain = chain /\ submitted'.frozen = FrozenNumbers
    BY <1>5
  <2>3. chain = [k \in DOMAIN steps' |-> Bare(steps'[k])]
    BY <1>2 DEF chain
  <2> QED BY <1>6, <2>1, <2>2, <2>3 DEF Recorded
<1>8. TypeOK'
  <2>1. submitted' \in [chain : Seq(Evolved), frozen : SUBSET Numbers(steps), mode : Modes]
    BY <1>4, <1>5, <1>6
  <2>2. Numbers(steps') = Numbers(steps)
    BY <1>2
  <2>3. 0 \in 0..MaxSaves
    BY ChainEditorAssumption
  <2> QED BY <1>2, <1>3, <1>4, <1>5, <2>1, <2>2, <2>3 DEF IInv, EditorTypes, TypeOK
<1>9. FrozenKept'
  <2> SUFFICES ASSUME Distinct', NEW k \in DOMAIN steps'
               PROVE  LET same == {j \in DOMAIN program' : program'[j].number = steps'[k].number}
                      IN  same # {} /\ \A j \in same : program'[j] = Bare(steps'[k])
    BY DEF FrozenKept, FullChain
  <2>1. k \in DOMAIN steps /\ Distinct /\ DOMAIN program' = DOMAIN steps
    BY <1>2, <1>4, <1>5 DEF Distinct
  <2>2. \A j \in DOMAIN steps : program'[j] = Bare(steps[j]) /\ program'[j].number = steps[j].number
    BY <1>4, <1>5
  <2> QED BY <1>2, <2>1, <2>2 DEF Distinct
<1> QED BY <1>3, <1>7, <1>8, <1>9 DEF ExperimentInv

\* Every mutation is followed by the restoration of the frozen steps, in the mode that has one.
LEMMA EvolveExperiment ==
    ASSUME ExperimentInv, Evolve
    PROVE  ExperimentInv'
<1>1. /\ UNCHANGED <<steps, choice, editing, form, pending, ids, saves, late, submitted>>
      /\ submitted # None /\ steps \in Seq(Step) /\ Recorded /\ TypeOK
  BY DEF Evolve, ExperimentInv, TypeOK
<1>2. IInv'
  <2>1. Next
    BY DEF Next
  <2> QED BY <2>1, StepInv DEF ExperimentInv
<1>3. Recorded'
  BY <1>1 DEF Recorded, FrozenNumbers
<1> DEFINE Restored == /\ \A j \in DOMAIN program' :
                             program'[j].number \in submitted.frozen =>
                                program'[j] = Original(program'[j].number)
                       /\ \A n \in submitted.frozen : \E j \in DOMAIN program' : program'[j].number = n
<1>4. ASSUME \E chain \in Mutations : program' = ApplyFrozenSteps(chain)
      PROVE  FrozenKept' /\ program' \in Seq(Evolved)
  <2>1. PICK chain \in Seq(Evolved) : program' = ApplyFrozenSteps(chain)
    BY <1>4, MutationsTyped
  <2>2. program' \in Seq(Evolved)
    BY <1>1, <2>1, RestoredFacts
  <2>3. Restored
    BY <1>1, <2>1, RestoredFacts
  <2>4. FrozenKept'
    <3> HIDE DEF Restored
    <3> SUFFICES ASSUME Distinct, NEW k \in DOMAIN steps, steps[k].frozen
                 PROVE  LET same == {j \in DOMAIN program' : program'[j].number = steps[k].number}
                        IN  same # {} /\ \A j \in same : program'[j] = Bare(steps[k])
      BY <1>1 DEF FrozenKept, FullChain, Distinct
    <3>1. steps[k].number \in submitted.frozen /\ Original(steps[k].number) = Bare(steps[k])
      BY <1>1, OriginalFacts
    <3> QED BY <2>3, <3>1 DEF Restored
  <2> QED BY <2>2, <2>4
<1>5. ASSUME ~(submitted.mode = "full_chain" /\ submitted.frozen # {}),
             \E chain \in Mutations : program' = chain
      PROVE  FrozenKept' /\ program' \in Seq(Evolved)
  <2>1. program' \in Seq(Evolved)
    BY <1>5, MutationsTyped
  <2>2. FrozenKept'
    <3>1. submitted.frozen = {steps[k].number : k \in {k \in DOMAIN steps : steps[k].frozen}}
      BY <1>1 DEF Recorded, FrozenNumbers
    <3>2. submitted.frozen = {} => \A k \in DOMAIN steps : ~steps[k].frozen
      BY <3>1
    <3> QED BY <1>1, <1>5, <3>2 DEF FrozenKept, FullChain
  <2> QED BY <2>1, <2>2
<1>6. ASSUME program' = submitted.chain
      PROVE  FrozenKept' /\ program' \in Seq(Evolved)
  <2>1. /\ submitted.chain \in Seq(Evolved) /\ DOMAIN submitted.chain = DOMAIN steps
        /\ \A k \in DOMAIN steps : /\ submitted.chain[k] = Bare(steps[k])
                                   /\ submitted.chain[k].number = steps[k].number
    BY <1>1, BareFacts DEF Recorded
  <2>2. FrozenKept'
    BY <1>1, <1>6, <2>1 DEF FrozenKept, FullChain, Distinct
  <2> QED BY <1>6, <2>1, <2>2
<1>7. FrozenKept' /\ program' \in Seq(Evolved)
  BY <1>4, <1>5, <1>6 DEF Evolve
<1>8. TypeOK'
  <2>1. Numbers(steps') = Numbers(steps)
    BY <1>1
  <2> QED BY <1>1, <1>7, <2>1 DEF TypeOK
<1> QED BY <1>2, <1>3, <1>7, <1>8 DEF ExperimentInv

LEMMA StepExperiment ==
    ASSUME ExperimentInv, [Next]_vars
    PROVE  ExperimentInv'
<1>1. CASE UNCHANGED vars
  <2>1. IInv'
    BY StepInv DEF ExperimentInv
  <2>2. TypeOK' /\ Recorded' /\ FrozenKept'
    BY <1>1 DEF vars, ExperimentInv, TypeOK, Recorded, FrozenKept, FullChain, FrozenNumbers, Distinct, Numbers
  <2> QED BY <2>1, <2>2 DEF ExperimentInv
<1>2. CASE Create
  BY <1>2, CreateExperiment
<1>3. CASE Evolve
  BY <1>3, EvolveExperiment
<1>4. CASE Next /\ ~Create /\ ~Evolve
  <2>1. Editing
    BY <1>4 DEF Next, AddStep, Select, EditStep, ToggleFreeze, RemoveStep, MoveStepUp,
                MoveStepDown, Swap, DuplicateStep, SaveStep, CancelStep, Clean, ApplySteps
  <2> QED BY <1>4, <2>1, EditExperiment
<1> QED BY <1>1, <1>2, <1>3, <1>4

----------------------------------------------------------------------------
(* The theorems. *)

\* The inductive invariant holds in every session.
THEOREM Invariance == Spec => []IInv
<1>1. Init => IInv
  BY InitInv
<1>2. IInv /\ [Next]_vars => IInv'
  BY StepInv
<1> QED BY <1>1, <1>2, PTL DEF Spec

\* The form never overwrites a step that it was not opened for, unless it is saved ahead of the
\* drop-down's event.
THEOREM FormsSaveTheirOwn == Spec => []SavesOwn
<1>1. IInv => SavesOwn
  BY DEF IInv
<1> QED BY <1>1, Invariance, PTL


\* Adding, freezing, removing, copying, moving and saving leave the chain numbered from 1 with
\* dependencies among its steps, and the first three leave every step depending on the same
\* steps.
THEOREM DependenciesAlwaysFollow == Spec => DependenciesFollow
<1>1. IInv /\ [Next]_vars => [Following]_vars
  <2> SUFFICES ASSUME IInv, Sound(steps)
               PROVE  /\ AddStep => Sound(steps') /\ Follow(steps, steps')
                      /\ ToggleFreeze => Sound(steps') /\ Follow(steps, steps')
                      /\ RemoveStep => Sound(steps') /\ Follow(steps, steps')
                      /\ MoveStepUp \/ MoveStepDown => Sound(steps')
                      /\ DuplicateStep => Sound(steps')
                      /\ SaveStep /\ ~pending => Sound(steps')
    BY DEF Following
  <2>1. MoveStepUp \/ MoveStepDown => Sound(steps')
    BY SwapKeepsSound DEF MoveStepUp, MoveStepDown
  <2> QED BY <2>1, AddStepFollows, ToggleFreezeFollows, RemoveStepFollows, DuplicateKeepsSound,
             SaveKeepsSound
<1> QED BY <1>1, Invariance, PTL DEF Spec, DependenciesFollow

\* The invariant of the experiment holds in every session.
THEOREM ExperimentInvariance == Spec => []ExperimentInv
<1>1. Init => ExperimentInv
  <2> SUFFICES ASSUME Init PROVE ExperimentInv
    OBVIOUS
  <2>1. IInv
    BY InitInv
  <2>2. Len(steps) = 0 /\ 0 <= MaxSteps /\ 0 \in 0..MaxSaves /\ 0 \in 0..MaxIds
    BY ChainEditorAssumption DEF Init
  <2>3. TypeOK
    BY <2>1, <2>2 DEF Init, IInv, EditorTypes, TypeOK
  <2> QED BY <2>1, <2>3 DEF Init, ExperimentInv, Recorded, FrozenKept, FullChain
<1>2. ExperimentInv /\ [Next]_vars => ExperimentInv'
  BY StepExperiment
<1> QED BY <1>1, <1>2, PTL DEF Spec

\* Every variable of the session and of the experiment has the values that TypeOK gives it.
THEOREM TypeCorrect == Spec => []TypeOK
<1>1. ExperimentInv => TypeOK
  BY DEF ExperimentInv
<1> QED BY <1>1, ExperimentInvariance, PTL

\* Whatever a mutation makes of the chain, the frozen steps are in it as they were submitted, and
\* what else has the number of one is another copy of it.
THEOREM FrozenStepsKept == Spec => []FrozenKept
<1>1. ExperimentInv => FrozenKept
  BY DEF ExperimentInv
<1> QED BY <1>1, ExperimentInvariance, PTL
=============================================================================
