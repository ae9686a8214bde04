----------------------------- MODULE DialogProofs -----------------------------
(***************************************************************************)
(* Proofs about the command dialog of one user, for any number of updates  *)
(* in progress, any commands, steps, answers, chats and plugins.           *)
(***************************************************************************)
EXTENDS Dialog, SequenceTheorems, TLAPS

(* The answers d had when its i-th snapshot was taken, d's own at the end. *)
Answers(d, i) == IF i = Len(d.hist) + 1 THEN d.params ELSE d.hist[i].params
StepAt(d, i) == CurrentStep(d.cmd, Answers(d, i))
Follows(d, i) ==
    /\ StepAt(d, i) # NoParam
    /\ \E v \in Accepts[d.cmd][StepAt(d, i)] :
          Answers(d, i + 1) = [Answers(d, i) EXCEPT ![StepAt(d, i)] = v]

LEMMA PathByAnswers ==
  ASSUME NEW d
  PROVE  IsPath(d) <=> Answers(d, 1) = NoAnswers /\ \A i \in 1..Len(d.hist) : Follows(d, i)
  BY DEF IsPath, Answers, StepAt, Follows

(* A history is judged by its answers alone. *)
LEMMA SamePath ==
  ASSUME NEW d, NEW e, IsPath(d), e.cmd = d.cmd, e.params = d.params, e.hist = d.hist
  PROVE  IsPath(e)
  <1>1. \A i : Answers(e, i) = Answers(d, i)
    BY DEF Answers
  <1>2. \A i : StepAt(e, i) = StepAt(d, i)
    BY <1>1 DEF StepAt
  <1>3. \A i : Follows(d, i) => Follows(e, i)
    BY <1>1, <1>2 DEF Follows
  <1> QED
    BY <1>1, <1>3, PathByAnswers

(* An accepted answer to the current step makes the path longer by one. *)
LEMMA LongerPath ==
  ASSUME NEW d \in DialogStates, NEW e \in DialogStates, IsPath(d), NEW v, NEW g,
         e.cmd = d.cmd, e.hist = Append(d.hist, [params |-> d.params, pages |-> g]), g \in [Params -> Nat],
         CurrentStep(d.cmd, d.params) # NoParam,
         v \in Accepts[d.cmd][CurrentStep(d.cmd, d.params)],
         e.params = [d.params EXCEPT ![CurrentStep(d.cmd, d.params)] = v]
  PROVE  IsPath(e)
  <1>0. d.hist \in Seq(Snapshots)
    BY DEF DialogStates
  <1>1. PICK n : n = Len(d.hist) /\ n \in Nat
    BY <1>0
  <1>2. /\ d.hist \in Seq(Snapshots) /\ [params |-> d.params, pages |-> g] \in Snapshots
        /\ e.hist \in Seq(Snapshots) /\ d.params \in ParamMaps
    BY DEF DialogStates, Snapshots
  <1>3. /\ Len(e.hist) = n + 1 /\ e.hist[n + 1] = [params |-> d.params, pages |-> g]
        /\ \A i \in 1..n : e.hist[i] = d.hist[i]
    BY <1>1, <1>2
  <1>4. \A i \in 1..(n + 1) : Answers(e, i) = Answers(d, i)
    BY <1>1, <1>3 DEF Answers
  <1>5. Answers(e, n + 2) = e.params /\ Answers(d, n + 1) = d.params
    BY <1>1, <1>3 DEF Answers
  <1>6. ASSUME NEW i \in 1..n
        PROVE  Follows(e, i)
    <2>1. Follows(d, i)
      BY <1>1, PathByAnswers
    <2>2. Answers(e, i) = Answers(d, i) /\ Answers(e, i + 1) = Answers(d, i + 1)
      BY <1>1, <1>4
    <2>3. StepAt(e, i) = StepAt(d, i)
      BY <2>2 DEF StepAt
    <2> QED
      BY <2>1, <2>2, <2>3 DEF Follows
  <1>7. Follows(e, n + 1)
    <2>1. Answers(e, n + 1) = d.params /\ Answers(e, (n + 1) + 1) = e.params
      BY <1>1, <1>4, <1>5
    <2>2. StepAt(e, n + 1) = CurrentStep(d.cmd, d.params)
      BY <2>1 DEF StepAt
    <2> QED
      BY <2>1, <2>2 DEF Follows
  <1>8. Answers(e, 1) = NoAnswers
    BY <1>1, <1>4, PathByAnswers
  <1>9. \A i \in 1..Len(e.hist) : Follows(e, i)
    BY <1>1, <1>3, <1>6, <1>7
  <1> QED
    BY <1>8, <1>9, PathByAnswers

(* Back makes it shorter by one. *)
LEMMA ShorterPath ==
  ASSUME NEW d \in DialogStates, NEW e \in DialogStates, IsPath(d), d.hist # <<>>,
         e.cmd = d.cmd, e.hist = SubSeq(d.hist, 1, Len(d.hist) - 1),
         e.params = d.hist[Len(d.hist)].params
  PROVE  IsPath(e) /\ CurrentStep(e.cmd, e.params) # NoParam
  <1>0. d.hist \in Seq(Snapshots)
    BY DEF DialogStates
  <1>1. PICK n : n = Len(d.hist) /\ n \in Nat /\ n >= 1
    BY <1>0, EmptySeq
  <1>2. Len(e.hist) = n - 1 /\ \A i \in 1..(n - 1) : e.hist[i] = d.hist[i]
    BY <1>0, <1>1
  <1>3. \A i \in 1..n : Answers(e, i) = Answers(d, i)
    BY <1>1, <1>2 DEF Answers
  <1>4. ASSUME NEW i \in 1..(n - 1)
        PROVE  Follows(e, i)
    <2>1. Follows(d, i)
      BY <1>1, PathByAnswers
    <2>2. Answers(e, i) = Answers(d, i) /\ Answers(e, i + 1) = Answers(d, i + 1)
      BY <1>1, <1>3
    <2>3. StepAt(e, i) = StepAt(d, i)
      BY <2>2 DEF StepAt
    <2> QED
      BY <2>1, <2>2, <2>3 DEF Follows
  <1>5. Answers(e, 1) = NoAnswers
    BY <1>1, <1>3, PathByAnswers
  <1>6. Follows(d, n)
    BY <1>1, PathByAnswers
  <1>7. CurrentStep(e.cmd, e.params) # NoParam
    BY <1>1, <1>6 DEF Follows, StepAt, Answers
  <1> QED
    BY <1>2, <1>4, <1>5, <1>7, PathByAnswers

-----------------------------------------------------------------------------
(* What ProcessInput does to a dialog. *)

Same(d, e) == e \in DialogStates /\ e.cmd = d.cmd /\ e.chat = d.chat /\ e.id = d.id

(* The step is shown again, on the same or another page. *)
Stays(d, r) ==
    /\ r.out = "save" /\ Same(d, r.ds)
    /\ r.ds.params = d.params /\ r.ds.hist = d.hist /\ r.ds.token = d.token
Undoes(d, r, t) ==
    /\ r.out = "save" /\ Same(d, r.ds) /\ d.cmd \in AllowBack /\ d.hist # <<>>
    /\ r.ds.params = d.hist[Len(d.hist)].params /\ r.ds.hist = SubSeq(d.hist, 1, Len(d.hist) - 1)
    /\ r.ds.token = t
Cancels(d, r) == r.out = "cancel" /\ r.ds = d /\ d.cmd \in AllowBack /\ d.hist = <<>>
Ends(d, r) == r.out = "complete" /\ r.ds = d /\ IsComplete(d.cmd, d.params)
Recorded(d, e, x, v, t) ==
    /\ Same(d, e) /\ e.params = [d.params EXCEPT ![x] = v]
    /\ IF d.cmd \in AllowBack
       THEN e.hist = Append(d.hist, [params |-> d.params, pages |-> d.pages]) /\ e.token = t
       ELSE e.hist = d.hist /\ e.token = d.token
Answered(d, r, v, t) ==
    LET x == CurrentStep(d.cmd, d.params) IN
    /\ x # NoParam /\ v \in Accepts[d.cmd][x] /\ v \in Values
    /\ Recorded(d, r.ds, x, v, t)
    /\ r.out = IF IsComplete(d.cmd, r.ds.params) THEN "complete" ELSE "save"

LEMMA BackHandled ==
  ASSUME NEW d \in DialogStates, NEW token, NEW t \in Nat
  PROVE  LET r == NavigateBack(d, token, t) IN Stays(d, r) \/ Undoes(d, r, t) \/ Cancels(d, r)
  <1>1. CASE d.cmd \notin AllowBack \/ token # d.token
    BY <1>1 DEF NavigateBack, Continue, Stays, Same
  <1>2. CASE ~(d.cmd \notin AllowBack \/ token # d.token) /\ Len(d.hist) = 0
    <2>1. d.hist = <<>>
      BY <1>2, EmptySeq DEF DialogStates
    <2> QED
      BY <1>2, <2>1 DEF NavigateBack, Cancelled, Cancels
  <1>3. CASE ~(d.cmd \notin AllowBack \/ token # d.token) /\ Len(d.hist) # 0
    <2>1. PICK n : n = Len(d.hist)
      OBVIOUS
    <2>2. PICK s, h : s = d.hist[n] /\ h = SubSeq(d.hist, 1, n - 1)
      OBVIOUS
    <2>3. d.hist \in Seq(Snapshots) /\ n \in Nat \ {0}
      BY <1>3, <2>1 DEF DialogStates
    <2>4. s \in Snapshots /\ h \in Seq(Snapshots) /\ d.hist # <<>>
      BY <2>1, <2>2, <2>3
    <2>5. PICK e : e = [d EXCEPT !.params = s.params, !.pages = s.pages, !.hist = h, !.token = t]
      OBVIOUS
    <2>6. NavigateBack(d, token, t) = [out |-> "save", ds |-> e]
      BY <1>3, <2>1, <2>2, <2>5 DEF NavigateBack, Continue
    <2>7. /\ e \in DialogStates /\ e.cmd = d.cmd /\ e.chat = d.chat /\ e.id = d.id
          /\ e.params = s.params /\ e.hist = h /\ e.token = t
      BY <2>4, <2>5 DEF DialogStates, Snapshots
    <2> QED
      BY <1>3, <2>1, <2>2, <2>4, <2>6, <2>7 DEF Undoes, Same
  <1> QED
    BY <1>1, <1>2, <1>3

LEMMA PageTurned ==
  ASSUME NEW d \in DialogStates, NEW x \in Params, NEW button
  PROVE  /\ Same(d, TurnPage(d, x, button)) /\ TurnPage(d, x, button).params = d.params
         /\ TurnPage(d, x, button).hist = d.hist /\ TurnPage(d, x, button).token = d.token
  <1>1. PICK m : m = IF button = PageNext THEN d.pages[x] + 1 ELSE IF d.pages[x] > 0 THEN d.pages[x] - 1 ELSE 0
    OBVIOUS
  <1>2. d.pages \in [Params -> Nat]
    BY DEF DialogStates
  <1>3. m \in Nat
    BY <1>1, <1>2
  <1>4. PICK g : g = [d.pages EXCEPT ![x] = m]
    OBVIOUS
  <1>5. g \in [Params -> Nat]
    BY <1>2, <1>3, <1>4
  <1>6. TurnPage(d, x, button) = [d EXCEPT !.pages = g]
    BY <1>1, <1>4 DEF TurnPage
  <1> QED
    BY <1>5, <1>6 DEF Same, DialogStates

LEMMA AnswerRecorded ==
  ASSUME NEW d \in DialogStates, NEW x, NEW v \in Values, NEW t \in Nat, NEW e, e = Record(d, x, v, t)
  PROVE  Recorded(d, e, x, v, t)
  <1>1. PICK q : q = [d.params EXCEPT ![x] = v]
    OBVIOUS
  <1>2. d.params \in ParamMaps /\ d.pages \in [Params -> Nat] /\ d.hist \in Seq(Snapshots)
    BY DEF DialogStates
  <1>3. q \in ParamMaps
    BY <1>1, <1>2 DEF ParamMaps
  <1>4. PICK h : h = Append(d.hist, [params |-> d.params, pages |-> d.pages])
    OBVIOUS
  <1>5. h \in Seq(Snapshots)
    BY <1>2, <1>4 DEF Snapshots
  <1>6. CASE d.cmd \in AllowBack
    <2>1. e = [d EXCEPT !.hist = h, !.token = t, !.params = q]
      BY <1>1, <1>4, <1>6 DEF Record, DialogStates
    <2>2. /\ e \in DialogStates /\ e.cmd = d.cmd /\ e.chat = d.chat /\ e.id = d.id
          /\ e.params = q /\ e.hist = h /\ e.token = t
      BY <1>3, <1>5, <2>1 DEF DialogStates
    <2> QED
      BY <1>1, <1>4, <1>6, <2>2 DEF Same, Recorded
  <1>7. CASE d.cmd \notin AllowBack
    <2>1. e = [d EXCEPT !.params = q]
      BY <1>1, <1>7 DEF Record, DialogStates
    <2>2. /\ e \in DialogStates /\ e.cmd = d.cmd /\ e.chat = d.chat /\ e.id = d.id
          /\ e.params = q /\ e.hist = d.hist /\ e.token = d.token
      BY <1>3, <2>1 DEF DialogStates
    <2> QED
      BY <1>1, <1>7, <2>2 DEF Same, Recorded
  <1> QED
    BY <1>6, <1>7

LEMMA InputHandled ==
  ASSUME NEW d \in DialogStates, NEW i \in Inputs, i.kind # "command", NEW t \in Nat
  PROVE  LET r == ProcessInput(d, i, t)
         IN  /\ i.kind = "back" => Stays(d, r) \/ Undoes(d, r, t) \/ Cancels(d, r)
             /\ i.kind # "back" => Stays(d, r) \/ Ends(d, r) \/ Answered(d, r, i.value, t)
  <1>1. CASE i.kind = "back"
    <2>1. ProcessInput(d, i, t) = NavigateBack(d, i.token, t)
      BY <1>1 DEF ProcessInput
    <2> QED
      BY <1>1, <2>1, BackHandled
  <1>2. CASE i.kind # "back"
    <2>1. i.value \in Values
      BY <1>2 DEF Inputs
    <2>2. PICK x, e, c : /\ x = CurrentStep(d.cmd, d.params) /\ e = Record(d, x, i.value, t)
                         /\ c = IsComplete(d.cmd, e.params)
      OBVIOUS
    <2>3. ProcessInput(d, i, t) =
             IF x = NoParam THEN [out |-> "complete", ds |-> d]
             ELSE IF x \in Paginated[d.cmd] /\ i.value \in {PageNext, PagePrev}
                  THEN [out |-> "save", ds |-> TurnPage(d, x, i.value)]
             ELSE IF i.value \notin Accepts[d.cmd][x] THEN [out |-> "save", ds |-> d]
             ELSE [out |-> IF c THEN "complete" ELSE "save", ds |-> e]
      BY <1>2, <2>2 DEF ProcessInput, Continue
    <2>4. CASE x = NoParam
      <3>1. ProcessInput(d, i, t) = [out |-> "complete", ds |-> d]
        BY <2>3, <2>4
      <3> QED
        BY <1>2, <2>2, <2>4, <3>1 DEF Ends, IsComplete
    <2>5. CASE x # NoParam /\ x \in Paginated[d.cmd] /\ i.value \in {PageNext, PagePrev}
      <3>1. ProcessInput(d, i, t) = [out |-> "save", ds |-> TurnPage(d, x, i.value)]
        BY <2>3, <2>5
      <3>2. x \in Params
        BY <2>5, DialogAssumption DEF DialogStates
      <3> QED
        BY <1>2, <3>1, <3>2, PageTurned DEF Stays
    <2>6. CASE x # NoParam /\ ~(x \in Paginated[d.cmd] /\ i.value \in {PageNext, PagePrev})
                /\ i.value \notin Accepts[d.cmd][x]
      <3>1. ProcessInput(d, i, t) = [out |-> "save", ds |-> d]
        BY <2>3, <2>6
      <3> QED
        BY <1>2, <3>1 DEF Stays, Same
    <2>7. CASE x # NoParam /\ ~(x \in Paginated[d.cmd] /\ i.value \in {PageNext, PagePrev})
                /\ i.value \in Accepts[d.cmd][x]
      <3>1. ProcessInput(d, i, t) = [out |-> IF c THEN "complete" ELSE "save", ds |-> e]
        BY <2>3, <2>7
      <3>2. Recorded(d, e, x, i.value, t)
        BY <2>1, <2>2, AnswerRecorded
      <3>3. Answered(d, [out |-> IF c THEN "complete" ELSE "save", ds |-> e], i.value, t)
        BY <2>1, <2>2, <2>7, <3>2 DEF Answered
      <3> QED
        BY <1>2, <3>1, <3>3
    <2> QED
      BY <2>4, <2>5, <2>6, <2>7
  <1> QED
    BY <1>1, <1>2

-----------------------------------------------------------------------------
(* Updates in progress. *)

TaskRecords ==
    [pc : Steps, chat : Chats \cup {NoChat}, in : Inputs \cup {NoInput}, cmd : Commands,
     ds : DialogStates \cup {NoDialog}, auto : BOOLEAN, back : BOOLEAN]

(* What a dispatched update hands to the plugin. *)
Given(k) == IF k.ds = NoDialog THEN NoAnswers ELSE k.ds.params

TaskOK(k) ==
    /\ k \in TaskRecords
    /\ k.pc # "idle" => k.chat \in Chats
    /\ k.pc = "load" => k.in \in Inputs /\ k.in.kind # "command"
    /\ k.pc \in {"cancel", "menu"} => k.cmd \in Commands \ Core
    /\ k.pc \in {"save", "complete", "resave"} => k.ds \in DialogStates
    /\ k.pc \in {"clear", "start"} => k.ds = NoDialog
    /\ k.pc \in {"complete", "dispatch"} => IsComplete(k.cmd, Given(k))

Typed ==
    /\ store \in DialogStates \cup {NoDialog} /\ registered \subseteq Commands /\ issued \in Nat
    /\ task \in [Workers -> TaskRecords] /\ \A w \in Workers : TaskOK(task[w])

(* Prompts with a Back button: those that were sent and those a dialog is  *)
(* about to be shown with.                                                 *)
Held == {d \in {store} \cup {task[w].ds : w \in Workers} : d # NoDialog /\ d.cmd \in AllowBack}
Prompts == shown \cup {Prompt(d) : d \in Held}

Agreed(P, n) ==
    /\ \A p, q \in P : p.token = q.token => p = q
    /\ \A p \in P : p.token \in Nat /\ p.token <= n

Placed(d, P) == d # NoDialog /\ d.cmd \in AllowBack => IsPath(d) /\ Prompt(d) \in P

(* The inductive invariant: a token stands for one prompt, wherever it is, *)
(* and every history is a path.                                            *)
DialogInv ==
    /\ Typed
    /\ Agreed(Prompts, issued)
    /\ \A d \in Held : IsPath(d)

LEMMA HeldIsPlaced ==
  ASSUME DialogInv
  PROVE  Placed(store, Prompts) /\ \A w \in Workers : Placed(task[w].ds, Prompts)
  BY DEF DialogInv, Held, Prompts, Placed

(* A step of one update: the dialogs it writes are placed among prompts    *)
(* that agree.                                                             *)
LEMMA UpdateStep ==
  ASSUME DialogInv, NEW w \in Workers, NEW k, NEW s, NEW P,
         task' = [task EXCEPT ![w] = k], TaskOK(k), store' = s, s \in DialogStates \cup {NoDialog},
         Prompts \subseteq P, Placed(s, P), Placed(k.ds, P), shown' \subseteq P,
         Agreed(P, issued'), issued' \in Nat, registered' \subseteq Commands
  PROVE  DialogInv'
  <1>1. /\ task'[w] = k /\ \A v \in Workers : v # w => task'[v] = task[v]
        /\ task' \in [Workers -> TaskRecords]
    BY DEF DialogInv, Typed, TaskOK
  <1>2. Typed'
    <2>1. ASSUME NEW v \in Workers
          PROVE  TaskOK(task'[v])
      BY <1>1 DEF DialogInv, Typed
    <2> QED
      BY <1>1, <2>1 DEF Typed, TaskOK, Given
  <1>3. ASSUME NEW d \in Held'
        PROVE  IsPath(d) /\ Prompt(d) \in P
    <2>1. d # NoDialog /\ d.cmd \in AllowBack /\ (d = s \/ \E v \in Workers : d = task'[v].ds)
      BY DEF Held
    <2>2. Placed(d, P)
      <3>1. CASE d = s
        BY <3>1
      <3>2. ASSUME NEW v \in Workers, d = task'[v].ds
            PROVE  Placed(d, P)
        <4>1. CASE v = w
          BY <1>1, <3>2, <4>1
        <4>2. CASE v # w
          BY <1>1, <3>2, <4>2, HeldIsPlaced DEF Placed
        <4> QED
          BY <4>1, <4>2
      <3> QED
        BY <2>1, <3>1, <3>2
    <2> QED
      BY <2>1, <2>2 DEF Placed
  <1>4. Prompts' \subseteq P
    BY <1>3 DEF Prompts
  <1>5. Agreed(Prompts, issued)'
    BY <1>4 DEF Agreed
  <1> QED
    BY <1>2, <1>3, <1>5 DEF DialogInv

(* ... that writes nothing new *)
LEMMA PlainStep ==
  ASSUME DialogInv, NEW w \in Workers, NEW k, NEW s,
         task' = [task EXCEPT ![w] = k], TaskOK(k), store' = s, s \in DialogStates \cup {NoDialog},
         Placed(s, Prompts), Placed(k.ds, Prompts), shown' \subseteq Prompts,
         issued' \in {issued, issued + 1}, registered' = registered
  PROVE  DialogInv'
  <1>1. issued' \in Nat /\ Agreed(Prompts, issued')
    BY DEF DialogInv, Typed, Agreed
  <1>2. PICK P : P = Prompts
    OBVIOUS
  <1>3. Prompts \subseteq P /\ Placed(s, P) /\ Placed(k.ds, P) /\ shown' \subseteq P /\ Agreed(P, issued')
    BY <1>1, <1>2
  <1>4. registered' \subseteq Commands
    BY DEF DialogInv, Typed
  <1> QED
    BY <1>1, <1>3, <1>4, UpdateStep

(* ... that makes a token *)
LEMMA FreshStep ==
  ASSUME DialogInv, NEW w \in Workers, NEW k, NEW s, NEW p,
         task' = [task EXCEPT ![w] = k], TaskOK(k), store' = s, s \in DialogStates \cup {NoDialog},
         p.token = Fresh, Placed(s, Prompts \cup {p}), Placed(k.ds, Prompts \cup {p}),
         shown' \subseteq Prompts \cup {p},
         issued' = Fresh, registered' = registered
  PROVE  DialogInv'
  <1>1. issued' \in Nat /\ issued \in Nat /\ issued' = issued + 1
    BY DEF DialogInv, Typed, Fresh
  <1>2. PICK P : P = Prompts \cup {p}
    OBVIOUS
  <1>3. Agreed(P, issued')
    BY <1>1, <1>2 DEF DialogInv, Agreed, Fresh
  <1>4. Prompts \subseteq P /\ Placed(s, P) /\ Placed(k.ds, P) /\ shown' \subseteq P
    BY <1>2
  <1>5. registered' \subseteq Commands
    BY DEF DialogInv, Typed
  <1> QED
    BY <1>1, <1>3, <1>4, <1>5, UpdateStep

LEMMA IdleOK == TaskOK(Idle) /\ Idle.pc = "idle" /\ Idle.ds = NoDialog /\ Idle.back = FALSE
  <1>1. Menu \in Commands
    BY DialogAssumption DEF Core
  <1> QED
    BY <1>1 DEF TaskOK, Idle, Update, TaskRecords, Steps, NoInput

LEMMA TaskTyped ==
  ASSUME DialogInv, NEW w \in Workers
  PROVE  TaskOK(task[w]) /\ task[w] \in TaskRecords
  BY DEF DialogInv, Typed, TaskOK

LEMMA NothingPlaced == \A P : Placed(NoDialog, P)
  BY DEF Placed

LEMMA ShownKept ==
  shown \subseteq Prompts
  BY DEF Prompts

(* The update ends and leaves the store as it is or empty. *)
LEMMA FinishStep ==
  ASSUME DialogInv, NEW w \in Workers, Finish(w), store' \in {store, NoDialog}, shown' = shown,
         issued' \in {issued, issued + 1}, registered' = registered
  PROVE  DialogInv'
  <1>1. task' = [task EXCEPT ![w] = Idle]
    BY DEF Finish
  <1>2. TaskOK(Idle) /\ Placed(Idle.ds, Prompts)
    BY IdleOK, NothingPlaced
  <1> HIDE DEF Idle
  <1>3. PICK s : store' = s /\ s \in DialogStates \cup {NoDialog} /\ Placed(s, Prompts)
    BY HeldIsPlaced, NothingPlaced DEF DialogInv, Typed
  <1> QED
    BY <1>1, <1>2, <1>3, ShownKept, PlainStep

(* It goes on without a new dialog. *)
LEMMA GotoStep ==
  ASSUME DialogInv, NEW w \in Workers, NEW pc, Goto(w, pc), store' \in {store, NoDialog}, shown' \subseteq Prompts,
         UNCHANGED <<issued, registered>>, TaskOK([task[w] EXCEPT !.pc = pc])
  PROVE  DialogInv'
  <1>1. PICK k : k = [task[w] EXCEPT !.pc = pc]
    OBVIOUS
  <1>2. task' = [task EXCEPT ![w] = k]
    BY <1>1 DEF Goto
  <1>3. TaskOK(k) /\ k.ds = task[w].ds
    BY <1>1, TaskTyped DEF TaskRecords
  <1>4. PICK s : store' = s /\ s \in DialogStates \cup {NoDialog} /\ Placed(s, Prompts)
    BY HeldIsPlaced, NothingPlaced DEF DialogInv, Typed
  <1>5. Placed(k.ds, Prompts)
    BY <1>3, HeldIsPlaced
  <1> QED
    BY <1>2, <1>3, <1>4, <1>5, PlainStep

-----------------------------------------------------------------------------
(* The steps of an update. *)

LEMMA BeginStep ==
  ASSUME DialogInv, NEW w \in Workers, NEW chat \in Chats,
         \/ \E c \in Commands : OnCommand(w, chat, c)
         \/ \E i \in Inputs : i.kind # "command" /\ OnInput(w, chat, i)
  PROVE  DialogInv'
  <1>1. UNCHANGED <<store, registered, issued, shown>>
    BY DEF OnCommand, OnInput
  <1>2. PICK pc, i, c : /\ task' = [task EXCEPT ![w] = Update(pc, chat, i, c)]
                        /\ pc \in {"start", "clear", "load"} /\ i \in Inputs /\ c \in Commands
                        /\ pc = "load" => i.kind # "command"
    <2> DEFINE Begins(pc, i, c) == /\ task' = [task EXCEPT ![w] = Update(pc, chat, i, c)]
                                   /\ pc \in {"start", "clear", "load"} /\ i \in Inputs /\ c \in Commands
                                   /\ pc = "load" => i.kind # "command"
    <2>1. ASSUME NEW c \in Commands, OnCommand(w, chat, c)
          PROVE  \E pc, i : Begins(pc, i, c)
      <3>1. PICK pc : /\ task' = [task EXCEPT ![w] = Update(pc, chat, [kind |-> "command", cmd |-> c], c)]
                      /\ pc \in {"start", "clear"}
        BY <2>1 DEF OnCommand
      <3>2. PICK i : i = [kind |-> "command", cmd |-> c]
        OBVIOUS
      <3>3. Begins(pc, i, c)
        BY <3>1, <3>2 DEF Inputs
      <3> QED
        BY <3>3
    <2>2. ASSUME NEW i \in Inputs, i.kind # "command", OnInput(w, chat, i)
          PROVE  Begins("load", i, Menu)
      BY <2>2, DialogAssumption DEF OnInput, Core
    <2> HIDE DEF Begins
    <2>3. \E pc, i, c : Begins(pc, i, c)
      BY <2>1, <2>2
    <2> QED
      BY <2>3 DEF Begins
  <1>3. PICK k : k = Update(pc, chat, i, c)
    OBVIOUS
  <1>4. TaskOK(k) /\ k.ds = NoDialog
    BY <1>2, <1>3 DEF Update, TaskOK, TaskRecords, Steps
  <1>5. PICK s : store' = s /\ s \in DialogStates \cup {NoDialog} /\ Placed(s, Prompts)
    BY <1>1, HeldIsPlaced DEF DialogInv, Typed
  <1> QED
    BY <1>1, <1>2, <1>3, <1>4, <1>5, NothingPlaced, ShownKept, PlainStep

LEMMA ClearStep ==
  ASSUME DialogInv, NEW w \in Workers, Clear(w)
  PROVE  DialogInv'
  <1>1. TaskOK([task[w] EXCEPT !.pc = "start"])
    <2>1. TaskOK(task[w]) /\ task[w].pc = "clear"
      BY TaskTyped DEF Clear
    <2> QED
      BY <2>1 DEF TaskOK, TaskRecords, Steps
  <1> QED
    BY <1>1, GotoStep, ShownKept DEF Clear, Delete

LEMMA StartImmediateStep ==
  ASSUME DialogInv, NEW w \in Workers, StartImmediate(w)
  PROVE  DialogInv'
  <1>1. TaskOK([task[w] EXCEPT !.pc = "dispatch"])
    <2>1. TaskOK(task[w]) /\ task[w].pc = "start" /\ IsComplete(task[w].cmd, NoAnswers)
      BY TaskTyped DEF StartImmediate, IsCommandImmediate
    <2> QED
      BY <2>1 DEF TaskOK, TaskRecords, Steps, Given
  <1> QED
    BY <1>1, GotoStep, ShownKept DEF StartImmediate

(* A dialog that begins. *)
LEMMA NewStateTyped ==
  ASSUME NEW c \in Commands, NEW chat \in Chats, NEW t \in Nat, NEW d, d = NewState(c, chat, t)
  PROVE  /\ d \in DialogStates /\ d.cmd = c /\ d.chat = chat /\ d.token = t /\ d.id = t
         /\ d.params = NoAnswers /\ d.hist = <<>> /\ IsPath(d)
  <1>1. NoAnswers \in ParamMaps /\ FirstPages \in [Params -> Nat] /\ <<>> \in Seq(Snapshots)
    BY DEF NoAnswers, ParamMaps, FirstPages
  <1> HIDE DEF NoAnswers, FirstPages
  <1>2. /\ d.cmd = c /\ d.chat = chat /\ d.token = t /\ d.id = t /\ d.params = NoAnswers /\ d.hist = <<>>
    BY DEF NewState
  <1>3. d \in DialogStates
    BY <1>1 DEF NewState, DialogStates
  <1>4. Answers(d, 1) = NoAnswers /\ \A i \in 1..Len(d.hist) : Follows(d, i)
    BY <1>2 DEF Answers
  <1> QED
    BY <1>2, <1>3, <1>4, PathByAnswers

LEMMA StartDialogStep ==
  ASSUME DialogInv, NEW w \in Workers, StartDialog(w)
  PROVE  DialogInv'
  <1>1. PICK d : d = NewState(task[w].cmd, task[w].chat, Fresh)
    OBVIOUS
  <1>2. /\ task' = [task EXCEPT ![w] = Idle] /\ store' = d /\ issued' = Fresh /\ registered' = registered
        /\ shown' = IF d.cmd \in AllowBack THEN shown \cup {Prompt(d)} ELSE shown
        /\ task[w].pc = "start"
    BY <1>1 DEF StartDialog, Save, Show, Finish
  <1>3. task[w].cmd \in Commands /\ task[w].chat \in Chats /\ Fresh \in Nat
    BY <1>2, TaskTyped DEF TaskOK, TaskRecords, Fresh, DialogInv, Typed
  <1>4. d \in DialogStates /\ d.token = Fresh /\ IsPath(d)
    BY <1>1, <1>3, NewStateTyped
  <1>5. PICK p : p = Prompt(d)
    OBVIOUS
  <1>6. p.token = Fresh /\ Placed(d, Prompts \cup {p}) /\ shown' \subseteq Prompts \cup {p}
    BY <1>2, <1>4, <1>5, ShownKept DEF Prompt, Placed
  <1>7. TaskOK(Idle) /\ Placed(Idle.ds, Prompts \cup {p})
    BY IdleOK, NothingPlaced
  <1> HIDE DEF Idle
  <1> QED
    BY <1>2, <1>4, <1>6, <1>7, FreshStep

(* What ProcessInput returns is the dialog with its prompt, or a new one.  *)
LEMMA LoadStep ==
  ASSUME DialogInv, NEW w \in Workers, Load(w)
  PROVE  DialogInv'
  <1>1. PICK d, i, t : d = store /\ i = task[w].in /\ t = Fresh
    OBVIOUS
  <1>2. PICK r : r = ProcessInput(d, i, t)
    OBVIOUS
  <1>3. PICK k : k = [task[w] EXCEPT !.pc = r.out, !.in = NoInput, !.cmd = r.ds.cmd,
                                     !.ds = IF r.out = "cancel" THEN NoDialog ELSE r.ds]
    OBVIOUS
  <1>4. /\ task[w].pc = "load" /\ store # NoDialog
        /\ issued' = IF r.ds.token = Fresh THEN Fresh ELSE issued
        /\ task' = [task EXCEPT ![w] = k]
        /\ UNCHANGED <<store, registered, shown>>
    BY <1>1, <1>2, <1>3 DEF Load, CountToken
  <1>5. /\ d \in DialogStates /\ i \in Inputs /\ i.kind # "command" /\ t \in Nat /\ t = issued + 1
        /\ TaskOK(task[w]) /\ task[w] \in TaskRecords
    BY <1>1, <1>4, TaskTyped DEF DialogInv, Typed, TaskOK, Fresh
  <1>6. Stays(d, r) \/ Undoes(d, r, t) \/ Cancels(d, r) \/ Ends(d, r) \/ Answered(d, r, i.value, t)
    BY <1>2, <1>5, InputHandled
  <1>7. /\ Same(d, r.ds) /\ r.out \in {"save", "complete", "cancel"}
        /\ r.out = "cancel" => d.cmd \in AllowBack
        /\ r.out = "complete" => IsComplete(r.ds.cmd, r.ds.params)
    BY <1>5, <1>6 DEF Stays, Undoes, Cancels, Ends, Answered, Recorded, Same
  <1>8. r.ds # NoDialog
    BY <1>7, DialogAssumption DEF Same
  <1>9. /\ k.pc = r.out /\ k.in = NoInput /\ k.cmd = r.ds.cmd /\ k.chat = task[w].chat
        /\ k.ds = (IF r.out = "cancel" THEN NoDialog ELSE r.ds) /\ k \in TaskRecords
    <2>1. r.ds.cmd \in Commands /\ r.ds \in DialogStates
      BY <1>7 DEF Same, DialogStates
    <2>2. PICK e : e = IF r.out = "cancel" THEN NoDialog ELSE r.ds
      OBVIOUS
    <2>3. e \in DialogStates \cup {NoDialog} /\ r.out \in Steps
      BY <1>7, <2>1, <2>2 DEF Steps
    <2>4. k = [task[w] EXCEPT !.pc = r.out, !.in = NoInput, !.cmd = r.ds.cmd, !.ds = e]
      BY <1>3, <2>2
    <2> QED
      BY <1>5, <2>1, <2>2, <2>3, <2>4 DEF TaskRecords
  <1>10. TaskOK(k)
    <2>1. task[w].chat \in Chats
      BY <1>4, <1>5 DEF TaskOK
    <2>2. r.out = "cancel" => r.ds.cmd \in Commands \ Core
      BY <1>7, DialogAssumption, CommandAssumption DEF Same
    <2>3. r.out # "cancel" => k.ds \in DialogStates /\ Given(k) = r.ds.params
      BY <1>7, <1>8, <1>9 DEF Given, Same
    <2> QED
      BY <1>7, <1>9, <2>1, <2>2, <2>3 DEF TaskOK
  <1>11. IsPath(d) \/ d.cmd \notin AllowBack
    BY <1>1, <1>4 DEF DialogInv, Held
  <1>12. d.cmd \in AllowBack => IsPath(r.ds)
    <2>1. CASE Stays(d, r)
      BY <1>11, <2>1, SamePath DEF Stays, Same
    <2>2. CASE Undoes(d, r, t)
      BY <1>5, <1>11, <2>2, ShorterPath DEF Undoes, Same
    <2>3. CASE Cancels(d, r) \/ Ends(d, r)
      BY <1>11, <2>3 DEF Cancels, Ends
    <2>4. CASE Answered(d, r, i.value, t)
      <3>1. d.pages \in [Params -> Nat]
        BY <1>5 DEF DialogStates
      <3> QED
        BY <1>5, <1>11, <2>4, <3>1, LongerPath DEF Answered, Recorded, Same
    <2> QED
      BY <1>6, <2>1, <2>2, <2>3, <2>4
  <1>13. Placed(d, Prompts) /\ d \in DialogStates
    BY <1>1, <1>5, HeldIsPlaced
  <1>14. CASE r.ds.token # t /\ issued' = issued
    <2>1. d.cmd \in AllowBack => Prompt(r.ds) = Prompt(d)
      BY <1>6, <1>14 DEF Stays, Undoes, Cancels, Ends, Answered, Recorded, Prompt, Same
    <2>2. Placed(k.ds, Prompts)
      BY <1>4, <1>1, <1>7, <1>9, <1>12, <1>13, <2>1 DEF Placed, Same
    <2> QED
      BY <1>1, <1>4, <1>10, <1>13, <1>14, <2>2, ShownKept, PlainStep
  <1>15. CASE r.ds.token = t /\ issued' = Fresh
    <2>1. PICK p : p = Prompt(r.ds)
      OBVIOUS
    <2>2. p.token = Fresh
      BY <1>1, <1>15, <2>1 DEF Prompt
    <2>3. Placed(k.ds, Prompts \cup {p}) /\ Placed(d, Prompts \cup {p}) /\ shown' \subseteq Prompts \cup {p}
      BY <1>4, <1>7, <1>9, <1>12, <1>13, <2>1, ShownKept DEF Placed, Same
    <2> QED
      BY <1>1, <1>4, <1>10, <1>13, <1>15, <2>2, <2>3, FreshStep
  <1> QED
    BY <1>1, <1>4, <1>14, <1>15

LEMMA EndStep ==
  ASSUME DialogInv, NEW w \in Workers, StartUnknown(w) \/ LoadNothing(w)
  PROVE  DialogInv'
  BY FinishStep DEF StartUnknown, LoadNothing

LEMMA SaveStep ==
  ASSUME DialogInv, NEW w \in Workers, SaveNext(w) \/ Resave(w)
  PROVE  DialogInv'
  <1>1. PICK d : d = task[w].ds
    OBVIOUS
  <1>2. /\ task[w].pc \in {"save", "resave"} /\ task' = [task EXCEPT ![w] = Idle] /\ store' = d
        /\ UNCHANGED <<issued, registered>>
        /\ shown' = shown \/ (d.cmd \in AllowBack /\ shown' = shown \cup {Prompt(d)})
    BY <1>1 DEF SaveNext, Resave, Save, Show, Finish
  <1>3. d \in DialogStates /\ Placed(d, Prompts) /\ d # NoDialog
    BY <1>1, <1>2, TaskTyped, HeldIsPlaced, DialogAssumption DEF TaskOK
  <1>4. shown' \subseteq Prompts
    BY <1>2, <1>3, ShownKept DEF Placed
  <1>5. TaskOK(Idle) /\ Placed(Idle.ds, Prompts)
    BY IdleOK, NothingPlaced
  <1> HIDE DEF Idle
  <1> QED
    BY <1>2, <1>3, <1>4, <1>5, PlainStep

LEMMA CompleteStep ==
  ASSUME DialogInv, NEW w \in Workers, CompleteDelete(w)
  PROVE  DialogInv'
  <1>1. TaskOK([task[w] EXCEPT !.pc = "dispatch"])
    <2>1. TaskOK(task[w]) /\ task[w].pc = "complete"
      BY TaskTyped DEF CompleteDelete
    <2> QED
      BY <2>1 DEF TaskOK, TaskRecords, Steps, Given
  <1> QED
    BY <1>1, GotoStep, FinishStep, ShownKept DEF CompleteDelete, Delete

LEMMA CancelStep ==
  ASSUME DialogInv, NEW w \in Workers, CancelDelete(w)
  PROVE  DialogInv'
  <1>1. TaskOK([task[w] EXCEPT !.pc = "menu"])
    <2>1. TaskOK(task[w]) /\ task[w].pc = "cancel"
      BY TaskTyped DEF CancelDelete
    <2> QED
      BY <2>1 DEF TaskOK, TaskRecords, Steps
  <1> QED
    BY <1>1, GotoStep, ShownKept DEF CancelDelete, Delete

(* core.plugins has no Back. *)
LEMMA NewMenu ==
  ASSUME DialogInv, NEW w \in Workers, task[w].pc # "idle", NEW d, d = NewState(Menu, task[w].chat, Fresh)
  PROVE  d \in DialogStates /\ \A P : Placed(d, P)
  <1>1. task[w].chat \in Chats /\ Fresh \in Nat /\ Menu \in Commands /\ Menu \notin AllowBack
    BY TaskTyped, DialogAssumption DEF TaskOK, DialogInv, Typed, Fresh, Core
  <1>2. d \in DialogStates /\ d.cmd = Menu
    BY <1>1, NewStateTyped
  <1> QED
    BY <1>1, <1>2 DEF Placed

LEMMA MenuStep ==
  ASSUME DialogInv, NEW w \in Workers, OpenMenu(w)
  PROVE  DialogInv'
  <1>1. PICK d : d = NewState(Menu, task[w].chat, Fresh)
    OBVIOUS
  <1>2. PICK i : i = [kind |-> "answer", value |-> PluginOf[task[w].cmd]]
    OBVIOUS
  <1>3. PICK k : k = [task[w] EXCEPT !.pc = "load", !.in = i]
    OBVIOUS
  <1>4. /\ task[w].pc = "menu" /\ task' = [task EXCEPT ![w] = k] /\ store' = d /\ issued' = issued + 1
        /\ UNCHANGED <<registered, shown>>
    BY <1>1, <1>2, <1>3 DEF OpenMenu, Save, Fresh
  <1>5. TaskOK(task[w]) /\ task[w] \in TaskRecords /\ task[w].cmd \in Commands \ Core
    BY <1>4, TaskTyped DEF TaskOK
  <1>6. i \in Inputs /\ i.kind = "answer"
    BY <1>2, <1>5, DialogAssumption DEF Inputs
  <1>7. /\ k \in TaskRecords /\ k.pc = "load" /\ k.in = i /\ k.chat = task[w].chat /\ k.cmd = task[w].cmd
        /\ k.ds = task[w].ds
    BY <1>3, <1>5, <1>6 DEF TaskRecords, Steps
  <1>8. TaskOK(k)
    BY <1>4, <1>5, <1>6, <1>7 DEF TaskOK
  <1>9. d \in DialogStates /\ Placed(d, Prompts)
    BY <1>1, <1>4, NewMenu
  <1>10. Placed(k.ds, Prompts)
    BY <1>7, HeldIsPlaced
  <1> QED
    BY <1>4, <1>8, <1>9, <1>10, ShownKept, PlainStep

LEMMA DispatchStep ==
  ASSUME DialogInv, NEW w \in Workers, Dispatch(w)
  PROVE  DialogInv'
  <1>1. /\ task[w].pc = "dispatch" /\ UNCHANGED <<store, registered, issued, shown>>
        /\ TaskOK(task[w]) /\ task[w] \in TaskRecords
    BY TaskTyped DEF Dispatch
  <1>2. CASE task[w].cmd = Resume
    <2>1. TaskOK([task[w] EXCEPT !.pc = "peek"])
      BY <1>1 DEF TaskOK, TaskRecords, Steps
    <2> QED
      BY <1>1, <1>2, <2>1, GotoStep, ShownKept DEF Dispatch
  <1>3. CASE task[w].cmd # Resume /\ task[w].cmd \in {Menu, Start}
    BY <1>1, <1>3, FinishStep DEF Dispatch
  <1>4. CASE task[w].cmd # Resume /\ task[w].cmd \notin {Menu, Start}
    <2>1. PICK k : k = [task[w] EXCEPT !.pc = "menu", !.ds = NoDialog, !.auto = TRUE]
      OBVIOUS
    <2>2. task' = [task EXCEPT ![w] = k]
      BY <1>4, <2>1 DEF Dispatch
    <2>3. /\ k \in TaskRecords /\ k.pc = "menu" /\ k.ds = NoDialog /\ k.chat = task[w].chat
          /\ k.cmd = task[w].cmd
      BY <1>1, <2>1 DEF TaskRecords, Steps
    <2>4. TaskOK(k)
      BY <1>1, <1>4, <2>3 DEF TaskOK, Core, TaskRecords
    <2>5. PICK s : store' = s /\ s \in DialogStates \cup {NoDialog} /\ Placed(s, Prompts)
      BY <1>1, HeldIsPlaced DEF DialogInv, Typed
    <2> QED
      BY <1>1, <2>2, <2>3, <2>4, <2>5, NothingPlaced, ShownKept, PlainStep
  <1> QED
    BY <1>2, <1>3, <1>4

LEMMA PeekStep ==
  ASSUME DialogInv, NEW w \in Workers, Peek(w)
  PROVE  DialogInv'
  <1>1. TaskOK(task[w]) /\ task[w].pc = "peek" /\ UNCHANGED <<store, registered, issued>>
    BY TaskTyped DEF Peek
  <1>2. CASE store = NoDialog \/ store.cmd \notin registered
    BY <1>1, <1>2, FinishStep DEF Peek
  <1>3. CASE ~(store = NoDialog \/ store.cmd \notin registered)
    <2>1. TaskOK([task[w] EXCEPT !.pc = "relocate"])
      BY <1>1 DEF TaskOK, TaskRecords, Steps
    <2>2. Goto(w, "relocate") /\ Show(store)
      BY <1>3 DEF Peek
    <2>3. shown' \subseteq Prompts
      BY <1>3, <2>2, ShownKept, HeldIsPlaced DEF Show, Placed
    <2> QED
      BY <1>1, <2>1, <2>2, <2>3, GotoStep
  <1> QED
    BY <1>2, <1>3

(* RelocateDialog changes the chat, which no prompt tells. *)
LEMMA RelocateStep ==
  ASSUME DialogInv, NEW w \in Workers, Relocate(w)
  PROVE  DialogInv'
  <1>1. /\ TaskOK(task[w]) /\ task[w] \in TaskRecords /\ task[w].pc = "relocate"
        /\ UNCHANGED <<store, registered, issued, shown>>
    BY TaskTyped DEF Relocate
  <1>2. CASE store = NoDialog
    BY <1>1, <1>2, FinishStep DEF Relocate
  <1>3. CASE store # NoDialog
    <2>1. PICK d, e : d = store /\ e = [d EXCEPT !.chat = task[w].chat]
      OBVIOUS
    <2>2. PICK k : k = [task[w] EXCEPT !.pc = "resave", !.ds = e]
      OBVIOUS
    <2>3. task' = [task EXCEPT ![w] = k]
      BY <1>3, <2>1, <2>2 DEF Relocate
    <2>4. d \in DialogStates /\ Placed(d, Prompts) /\ task[w].chat \in Chats
      BY <1>1, <1>3, <2>1, HeldIsPlaced DEF DialogInv, Typed, TaskOK
    <2>5. /\ e \in DialogStates /\ e.cmd = d.cmd /\ e.params = d.params /\ e.hist = d.hist /\ e.token = d.token
      BY <2>1, <2>4 DEF DialogStates
    <2>6. Prompt(e) = Prompt(d)
      BY <2>5 DEF Prompt
    <2>7. Placed(e, Prompts)
      BY <1>3, <2>1, <2>4, <2>5, <2>6, SamePath, ZenonT(30) DEF Placed
    <2>8. k \in TaskRecords /\ k.pc = "resave" /\ k.ds = e /\ k.chat = task[w].chat
      BY <1>1, <2>2, <2>5 DEF TaskRecords, Steps
    <2>9. TaskOK(k)
      BY <2>4, <2>5, <2>8 DEF TaskOK
    <2>10. PICK s : store' = s /\ s \in DialogStates \cup {NoDialog} /\ Placed(s, Prompts)
      BY <1>1, HeldIsPlaced DEF DialogInv, Typed
    <2> QED
      BY <1>1, <2>3, <2>7, <2>8, <2>9, <2>10, ShownKept, PlainStep
  <1> QED
    BY <1>2, <1>3

(* What a failed call may have written after all. *)
LEMMA WrittenDialog ==
  ASSUME DialogInv, NEW w \in Workers, task[w].pc # "idle", NEW d, NEW n, d = Written(w).ds, n = Written(w).issued
  PROVE  \/ n = issued /\ d \in DialogStates \cup {NoDialog} /\ Placed(d, Prompts)
         \/ n = Fresh /\ d \in DialogStates /\ d.token = Fresh /\ IsPath(d)
  <1>1. /\ TaskOK(task[w]) /\ task[w].chat \in Chats /\ task[w].cmd \in Commands
        /\ Menu \in Commands /\ Fresh \in Nat
    BY TaskTyped, DialogAssumption DEF TaskOK, TaskRecords, Core, Fresh, DialogInv, Typed
  <1>2. CASE task[w].pc \in {"clear", "complete", "cancel"} \/ Dropping(w)
    <2>1. Written(w) = [ds |-> NoDialog, issued |-> issued]
      BY <1>2 DEF Written, Dropping
    <2> QED
      BY <2>1, NothingPlaced
  <1>3. CASE task[w].pc \in {"save", "resave"}
    <2>1. Written(w) = [ds |-> task[w].ds, issued |-> issued]
      BY <1>3 DEF Written, Dropping
    <2> QED
      BY <1>1, <1>3, <2>1, HeldIsPlaced DEF TaskOK
  <1>4. CASE task[w].pc \in {"start", "menu"} /\ ~Dropping(w)
    <2>1. PICK c : c = IF task[w].pc = "menu" THEN Menu ELSE task[w].cmd
      OBVIOUS
    <2>2. Written(w) = [ds |-> NewState(c, task[w].chat, Fresh), issued |-> Fresh]
      BY <1>4, <2>1 DEF Written
    <2> QED
      BY <1>1, <2>1, <2>2, NewStateTyped
  <1>5. CASE /\ ~(task[w].pc \in {"clear", "complete", "cancel"} \/ Dropping(w))
             /\ task[w].pc \notin {"save", "resave", "start", "menu"}
    <2>1. Written(w) = [ds |-> store, issued |-> issued]
      BY <1>5 DEF Written
    <2> QED
      BY <2>1, HeldIsPlaced DEF DialogInv, Typed
  <1> QED
    BY <1>2, <1>3, <1>4, <1>5

LEMMA ErrorTask ==
  ASSUME DialogInv, NEW w \in Workers, RedisError(w)
  PROVE  \E k : task' = [task EXCEPT ![w] = k] /\ TaskOK(k) /\ (k.ds = NoDialog \/ k.ds = task[w].ds)
  <1>1. TaskOK(task[w]) /\ task[w] \in TaskRecords
    BY TaskTyped
  <1>2. CASE task[w].pc = "clear"
    <2>1. PICK k : k = [task[w] EXCEPT !.pc = "start"]
      OBVIOUS
    <2>2. task' = [task EXCEPT ![w] = k]
      BY <1>2, <2>1 DEF RedisError, Goto
    <2>3. TaskOK(k) /\ k.ds = task[w].ds
      BY <1>1, <1>2, <2>1 DEF TaskOK, TaskRecords, Steps
    <2> QED
      BY <2>2, <2>3
  <1>3. CASE Dropping(w)
    <2>1. PICK k : k = [task[w] EXCEPT !.pc = "dispatch"]
      OBVIOUS
    <2>2. task' = [task EXCEPT ![w] = k] /\ task[w].pc = "start" /\ IsComplete(task[w].cmd, NoAnswers)
      BY <1>3, <2>1 DEF RedisError, Goto, Dropping, IsCommandImmediate
    <2>3. TaskOK(k) /\ k.ds = task[w].ds
      BY <1>1, <2>1, <2>2 DEF TaskOK, TaskRecords, Steps, Given
    <2> QED
      BY <2>2, <2>3
  <1>4. CASE task[w].pc # "clear" /\ ~Dropping(w)
    <2>1. task' = [task EXCEPT ![w] = Idle]
      BY <1>4 DEF RedisError, Finish
    <2>2. TaskOK(Idle) /\ Idle.ds = NoDialog
      BY IdleOK
    <2> HIDE DEF Idle
    <2> QED
      BY <2>1, <2>2
  <1> QED
    BY <1>2, <1>3, <1>4

LEMMA ErrorStep ==
  ASSUME DialogInv, NEW w \in Workers, RedisError(w)
  PROVE  DialogInv'
  <1>1. PICK k : task' = [task EXCEPT ![w] = k] /\ TaskOK(k) /\ (k.ds = NoDialog \/ k.ds = task[w].ds)
    BY ErrorTask
  <1>2. task[w].pc # "idle" /\ UNCHANGED <<registered, shown>>
    BY DEF RedisError
  <1>3. Placed(k.ds, Prompts)
    BY <1>1, HeldIsPlaced, NothingPlaced
  <1>4. CASE UNCHANGED <<store, issued>>
    <2>1. PICK s : store' = s /\ s \in DialogStates \cup {NoDialog} /\ Placed(s, Prompts)
      BY <1>4, HeldIsPlaced DEF DialogInv, Typed
    <2> QED
      BY <1>1, <1>2, <1>3, <1>4, <2>1, ShownKept, PlainStep
  <1>5. CASE issued' = Written(w).issued /\ store' = Written(w).ds
    <2>1. PICK d, n : d = Written(w).ds /\ n = Written(w).issued
      OBVIOUS
    <2>2. \/ n = issued /\ d \in DialogStates \cup {NoDialog} /\ Placed(d, Prompts)
          \/ n = Fresh /\ d \in DialogStates /\ d.token = Fresh /\ IsPath(d)
      BY <1>2, <2>1, WrittenDialog
    <2>3. CASE n = issued /\ d \in DialogStates \cup {NoDialog} /\ Placed(d, Prompts)
      BY <1>1, <1>2, <1>3, <1>5, <2>1, <2>3, ShownKept, PlainStep
    <2>4. CASE n = Fresh /\ d \in DialogStates /\ d.token = Fresh /\ IsPath(d)
      <3>1. PICK p : p = Prompt(d)
        OBVIOUS
      <3>2. p.token = Fresh /\ Placed(d, Prompts \cup {p}) /\ Placed(k.ds, Prompts \cup {p})
        BY <1>3, <2>4, <3>1 DEF Prompt, Placed
      <3>3. shown' \subseteq Prompts \cup {p} /\ issued' = Fresh /\ store' = d
        BY <1>2, <1>5, <2>1, <2>4, ShownKept
      <3> QED
        BY <1>1, <1>2, <2>4, <3>2, <3>3, FreshStep
    <2> QED
      BY <2>2, <2>3, <2>4
  <1> QED
    BY <1>4, <1>5 DEF RedisError

(* Expiry and plugins that come and go take dialogs away at most. *)
LEMMA OutsideStep ==
  ASSUME DialogInv,
         \/ Expire
         \/ \E p \in Reloadable : Unregister(p) \/ Register(p)
         \/ UNCHANGED vars
  PROVE  DialogInv'
  <1>1. store' \in {store, NoDialog} /\ UNCHANGED <<task, issued, shown>> /\ registered' \subseteq Commands
    BY DEF Expire, Delete, Unregister, Register, vars, DialogInv, Typed, CommandsOf
  <1>2. Typed'
    BY <1>1 DEF DialogInv, Typed, TaskOK, Given
  <1>3. Held' \subseteq Held
    BY <1>1 DEF Held
  <1>4. Prompts' \subseteq Prompts
    BY <1>1, <1>3 DEF Prompts
  <1> QED
    BY <1>1, <1>2, <1>3, <1>4 DEF DialogInv, Agreed

LEMMA DialogStart == Init => DialogInv
  <1> SUFFICES ASSUME Init PROVE DialogInv
    OBVIOUS
  <1>1. TaskOK(Idle) /\ Idle.ds = NoDialog
    BY IdleOK
  <1> HIDE DEF Idle
  <1>2. \A w \in Workers : task[w] = Idle
    BY DEF Init
  <1>3. Typed
    BY <1>1, <1>2 DEF Init, Typed, TaskOK
  <1>4. Held = {}
    BY <1>1, <1>2 DEF Init, Held
  <1> QED
    BY <1>3, <1>4 DEF Init, DialogInv, Prompts, Agreed

LEMMA DialogNext == DialogInv /\ [Next]_vars => DialogInv'
  <1> SUFFICES ASSUME DialogInv, [Next]_vars PROVE DialogInv'
    OBVIOUS
  <1>1. ASSUME NEW w \in Workers, Handle(w)
        PROVE  DialogInv'
    BY <1>1, ClearStep, StartImmediateStep, StartDialogStep, EndStep, LoadStep, SaveStep, CompleteStep,
       CancelStep, MenuStep, DispatchStep, PeekStep, RelocateStep DEF Handle
  <1> QED
    BY <1>1, BeginStep, ErrorStep, OutsideStep DEF Next

LEMMA DialogInvariant == Spec => []DialogInv
  BY DialogStart, DialogNext, PTL DEF Spec

(* Whatever the number of updates in progress and their interleaving, a    *)
(* Back button that navigateBack accepts was sent with the very step the   *)
(* stored dialog is at: an accepted answer and an accepted Back make a     *)
(* token of their own, and nothing else changes the step.                  *)
THEOREM BackButtonsAreCurrent == Spec => []TokenIdentifiesStep
  <1>1. ASSUME DialogInv
        PROVE  TokenIdentifiesStep
    <2>1. shown \subseteq Prompts /\ Placed(store, Prompts)
      BY <1>1, ShownKept, HeldIsPlaced
    <2> QED
      BY <1>1, <2>1 DEF TokenIdentifiesStep, DialogInv, Agreed, Placed, Prompt
  <1> QED
    BY <1>1, DialogInvariant, PTL

(* The history of every stored dialog is the path of its accepted answers, *)
(* so Back always leads to the step before, down to the first.             *)
THEOREM HistoriesArePaths == Spec => []BackRetracesAnswers
  <1>1. DialogInv => BackRetracesAnswers
    BY DEF DialogInv, Held, BackRetracesAnswers
  <1> QED
    BY <1>1, DialogInvariant, PTL

(* dispatchCompletedCommand only ever sees a command without an open step, *)
(* also when two updates of the user answered at once.                     *)
THEOREM PluginsGetAllAnswers == Spec => []DispatchedIsComplete
  <1>1. DialogInv => DispatchedIsComplete
    BY DEF DialogInv, Typed, TaskOK, Given, DispatchedIsComplete
  <1> QED
    BY <1>1, DialogInvariant, PTL

-----------------------------------------------------------------------------
(* Updates handled one after the other. *)

(* One update at a time, and no expiry while it is handled. *)
Serial == (\E w : Workers = {w}) /\ ~ExpiresMidUpdate

Open(d) == ~IsComplete(d.cmd, d.params)

(* What a loaded input makes of the stored dialog. *)
Outcome(d, r) ==
    \/ Stays(d, r)
    \/ \E t \in Nat : Undoes(d, r, t) \/ \E v \in Values : Answered(d, r, v, t)

(* core.plugins is not complete before its second answer. *)
LEMMA MenuAsks ==
  /\ ~IsComplete(Menu, NoAnswers)
  /\ \A v \in Values : ~IsComplete(Menu, [NoAnswers EXCEPT ![CurrentStep(Menu, NoAnswers)] = v])
  <1>1. PICK x \in Params, y \in Params : x # y /\ \A p \in ParamMaps : ActiveSteps[Menu][p] = <<x, y>>
    BY MenuAssumption
  <1>2. ASSUME NEW p \in ParamMaps, NEW i \in {1, 2}, p[<<x, y>>[i]] = Unset
        PROVE  CurrentStep(Menu, p) \in {x, y} /\ CurrentStep(Menu, p) # NoParam
    <2> DEFINE s == <<x, y>>
               open == {j \in DOMAIN s : p[s[j]] = Unset}
    <2>1. open \subseteq {1, 2} /\ i \in open
      BY <1>2
    <2>2. PICK m : m = CHOOSE j \in open : \A k \in open : j <= k
      OBVIOUS
    <2>3. \E j \in open : \A k \in open : j <= k
      BY <2>1
    <2>4. m \in {1, 2}
      BY <2>1, <2>2, <2>3
    <2>5. CurrentStep(Menu, p) = s[m]
      BY <1>1, <2>1, <2>2 DEF CurrentStep
    <2> QED
      BY <1>1, <2>4, <2>5, CommandAssumption
  <1>3. NoAnswers \in ParamMaps /\ \A z \in Params : NoAnswers[z] = Unset
    BY DEF NoAnswers, ParamMaps
  <1> HIDE DEF NoAnswers
  <1>4. CurrentStep(Menu, NoAnswers) \in {x, y} /\ CurrentStep(Menu, NoAnswers) # NoParam
    BY <1>2, <1>3
  <1>5. ASSUME NEW v \in Values
        PROVE  ~IsComplete(Menu, [NoAnswers EXCEPT ![CurrentStep(Menu, NoAnswers)] = v])
    <2>1. PICK z, p : z = CurrentStep(Menu, NoAnswers) /\ p = [NoAnswers EXCEPT ![z] = v]
      OBVIOUS
    <2>2. p \in ParamMaps /\ (z = x => p[y] = Unset) /\ (z = y => p[x] = Unset)
      BY <1>1, <1>3, <1>4, <2>1 DEF ParamMaps
    <2>3. CurrentStep(Menu, p) # NoParam
      BY <1>1, <1>2, <1>4, <2>1, <2>2
    <2> QED
      BY <2>1, <2>3 DEF IsComplete
  <1> QED
    BY <1>4, <1>5 DEF IsComplete

(* The stored dialog still asks for something and was not run; what the    *)
(* update is about to write was made from it.                              *)
StoreOK ==
    store # NoDialog =>
        /\ Open(store) /\ store.id <= issued /\ store.id \notin performed
        /\ store.cmd \notin AllowBack => store.hist = <<>>
PerformedOK == (\A n \in performed : n \in Nat /\ n <= issued) /\ repeated = {}
Fits(k) ==
    /\ k.pc \in {"save", "complete"} =>
          store # NoDialog /\ \E r : Outcome(store, r) /\ r.out = k.pc /\ k.ds = r.ds /\ k.cmd = r.ds.cmd
    /\ k.pc = "resave" => store # NoDialog /\ k.ds = [store EXCEPT !.chat = k.chat]
    /\ k.pc = "dispatch" /\ k.ds # NoDialog =>
          store = NoDialog /\ k.ds.id <= issued /\ k.ds.id \notin performed
    /\ k.back => k.pc \in {"load", "save", "cancel", "menu"}
    /\ k.back /\ k.pc = "load" =>
          k.in.kind = "back" \/ (store # NoDialog => store.cmd = Menu /\ store.params = NoAnswers)
SerialInv == StoreOK /\ PerformedOK /\ \A w \in Workers : Fits(task[w])

LEMMA SerialStep ==
  ASSUME Serial, DialogInv, NEW w \in Workers, NEW k, task' = [task EXCEPT ![w] = k],
         StoreOK', PerformedOK', Fits(k)'
  PROVE  SerialInv'
  <1>1. task'[w] = k /\ \A v \in Workers : v = w
    BY DEF Serial, DialogInv, Typed
  <1> QED
    BY <1>1 DEF SerialInv, Fits

LEMMA IdleFits == Fits(Idle) /\ Fits(Idle)'
  BY IdleOK DEF Fits, Idle, Update, NoInput

(* The four ways to write the store. *)
LEMMA StoreKept ==
  ASSUME DialogInv, SerialInv, UNCHANGED <<store, performed, repeated>>, issued' \in {issued, issued + 1}
  PROVE  StoreOK' /\ PerformedOK'
  <1>1. issued \in Nat /\ (store # NoDialog => store.id \in Nat)
    BY DEF DialogInv, Typed, DialogStates
  <1>2. \A n \in Nat : n <= issued => n <= issued'
    BY <1>1
  <1> QED
    BY <1>1, <1>2 DEF SerialInv, StoreOK, PerformedOK, Open

LEMMA StoreDropped ==
  ASSUME DialogInv, SerialInv, store' = NoDialog, UNCHANGED <<performed, repeated, issued>>
  PROVE  StoreOK' /\ PerformedOK'
  BY DEF SerialInv, StoreOK, PerformedOK

LEMMA StoreBegun ==
  ASSUME DialogInv, SerialInv, NEW c \in Commands, NEW chat \in Chats, store' = NewState(c, chat, Fresh),
         ~IsComplete(c, NoAnswers), issued' = Fresh, UNCHANGED <<performed, repeated>>
  PROVE  StoreOK' /\ PerformedOK'
  <1>1. issued \in Nat /\ Fresh = issued + 1 /\ issued' = issued + 1 /\ Fresh \in Nat
    BY DEF DialogInv, Typed, Fresh
  <1>2. PICK d : d = NewState(c, chat, Fresh)
    OBVIOUS
  <1>3. d.cmd = c /\ d.params = NoAnswers /\ d.id = Fresh /\ d.hist = <<>> /\ store' = d
    BY <1>1, <1>2, NewStateTyped
  <1>4. Fresh \notin performed
    BY <1>1 DEF SerialInv, PerformedOK
  <1>5. PerformedOK'
    <2>1. \A n \in Nat : n <= issued => n <= issued'
      BY <1>1
    <2> QED
      BY <2>1 DEF SerialInv, PerformedOK
  <1>6. StoreOK'
    BY <1>1, <1>3, <1>4 DEF StoreOK, Open
  <1> QED
    BY <1>5, <1>6

LEMMA StoreChanged ==
  ASSUME DialogInv, SerialInv, NEW e, store' = e, store # NoDialog, e.id = store.id, Open(e),
         e.cmd \notin AllowBack => e.hist = <<>>, UNCHANGED <<performed, repeated, issued>>
  PROVE  StoreOK' /\ PerformedOK'
  <1>1. e.id <= issued' /\ e.id \notin performed'
    BY DEF SerialInv, StoreOK
  <1>2. PerformedOK'
    BY DEF SerialInv, PerformedOK
  <1>3. StoreOK'
    BY <1>1 DEF StoreOK, Open
  <1> QED
    BY <1>2, <1>3

(* What a save writes is the stored dialog one answer on, one back, or as  *)
(* it was.                                                                 *)
LEMMA SavedOutcome ==
  ASSUME DialogInv, SerialInv, store # NoDialog, NEW r, Outcome(store, r), r.out = "save"
  PROVE  r.ds.id = store.id /\ Open(r.ds) /\ (r.ds.cmd \notin AllowBack => r.ds.hist = <<>>)
  <1>1. store \in DialogStates /\ Open(store) /\ (store.cmd \notin AllowBack => store.hist = <<>>)
    BY DEF DialogInv, Typed, SerialInv, StoreOK
  <1>2. store.cmd \in AllowBack => IsPath(store)
    BY DEF DialogInv, Held
  <1>3. CASE Stays(store, r)
    BY <1>1, <1>3 DEF Stays, Same, Open
  <1>4. ASSUME NEW t, Undoes(store, r, t)
        PROVE  r.ds.id = store.id /\ Open(r.ds) /\ (r.ds.cmd \notin AllowBack => r.ds.hist = <<>>)
    <2>1. CurrentStep(r.ds.cmd, r.ds.params) # NoParam
      BY <1>1, <1>2, <1>4, ShorterPath DEF Undoes, Same
    <2> QED
      BY <1>4, <2>1 DEF Undoes, Same, Open, IsComplete
  <1>5. ASSUME NEW t, NEW v, Answered(store, r, v, t)
        PROVE  r.ds.id = store.id /\ Open(r.ds) /\ (r.ds.cmd \notin AllowBack => r.ds.hist = <<>>)
    <2>1. ~IsComplete(store.cmd, r.ds.params)
      BY <1>5 DEF Answered
    <2> QED
      BY <1>1, <1>5, <2>1 DEF Answered, Recorded, Same, Open
  <1> QED
    BY <1>3, <1>4, <1>5 DEF Outcome

(* Each step, one update at a time. *)

LEMMA SerialPlain ==
  ASSUME Serial, DialogInv, SerialInv, NEW w \in Workers,
         \/ Clear(w) \/ StartUnknown(w) \/ LoadNothing(w) \/ StartImmediate(w) \/ CancelDelete(w)
  PROVE  SerialInv'
  <1>1. /\ store' \in {store, NoDialog} /\ UNCHANGED <<performed, repeated, issued>>
    BY DEF Clear, StartUnknown, LoadNothing, StartImmediate, CancelDelete, Delete
  <1>2. StoreOK' /\ PerformedOK'
    BY <1>1, StoreKept, StoreDropped
  <1>3. TaskOK(task[w]) /\ task[w] \in TaskRecords /\ Fits(task[w])
    BY TaskTyped DEF SerialInv
  <1>4. CASE Finish(w)
    <2> HIDE DEF Idle
    <2> QED
      BY <1>2, <1>4, IdleFits, SerialStep DEF Finish
  <1>5. ASSUME NEW pc, Goto(w, pc), pc \in {"start", "dispatch", "menu"},
               pc = "menu" => task[w].pc = "cancel",
               pc # "menu" => task[w].pc \in {"clear", "start"}
        PROVE  SerialInv'
    <2>1. PICK k : k = [task[w] EXCEPT !.pc = pc]
      OBVIOUS
    <2>2. k.pc = pc /\ k.ds = task[w].ds /\ k.back = task[w].back
      BY <1>3, <2>1 DEF TaskRecords
    <2>3. pc # "menu" => k.ds = NoDialog /\ k.back # TRUE
      BY <1>3, <1>5, <2>2 DEF TaskOK, Fits
    <2>4. Fits(k)'
      BY <1>3, <1>5, <2>2, <2>3 DEF Fits, TaskRecords
    <2>5. task' = [task EXCEPT ![w] = k]
      BY <1>5, <2>1 DEF Goto
    <2> QED
      BY <1>2, <2>4, <2>5, SerialStep
  <1> QED
    BY <1>4, <1>5 DEF Clear, StartUnknown, LoadNothing, StartImmediate, CancelDelete

LEMMA SerialBegin ==
  ASSUME Serial, DialogInv, SerialInv, NEW w \in Workers, NEW chat \in Chats,
         \/ \E c \in Commands : OnCommand(w, chat, c)
         \/ \E i \in Inputs : i.kind # "command" /\ OnInput(w, chat, i)
  PROVE  SerialInv'
  <1>1. UNCHANGED <<store, performed, repeated, issued>>
    BY DEF OnCommand, OnInput
  <1>2. StoreOK' /\ PerformedOK'
    BY <1>1, StoreKept
  <1>3. ASSUME NEW pc \in {"start", "clear", "load"}, NEW i, NEW c, i.kind = "back" => pc = "load",
               task' = [task EXCEPT ![w] = Update(pc, chat, i, c)]
        PROVE  SerialInv'
    <2>1. PICK k : k = Update(pc, chat, i, c)
      OBVIOUS
    <2>2. k.pc = pc /\ k.ds = NoDialog /\ k.in = i /\ (k.back <=> i.kind = "back") /\ k.back \in BOOLEAN
      BY <2>1 DEF Update
    <2>3. Fits(k)'
      BY <1>3, <2>2 DEF Fits
    <2> QED
      BY <1>2, <1>3, <2>1, <2>3, SerialStep
  <1>4. ASSUME NEW c \in Commands, OnCommand(w, chat, c)
        PROVE  SerialInv'
    <2>1. PICK pc : /\ task' = [task EXCEPT ![w] = Update(pc, chat, [kind |-> "command", cmd |-> c], c)]
                    /\ pc \in {"start", "clear"}
      BY <1>4 DEF OnCommand
    <2>2. PICK i : i = [kind |-> "command", cmd |-> c]
      OBVIOUS
    <2>3. i.kind # "back"
      BY <2>2
    <2> QED
      BY <1>3, <2>1, <2>2, <2>3
  <1>5. ASSUME NEW i \in Inputs, OnInput(w, chat, i)
        PROVE  SerialInv'
    <2>1. task' = [task EXCEPT ![w] = Update("load", chat, i, Menu)]
      BY <1>5 DEF OnInput
    <2> QED
      BY <1>3, <2>1
  <1> QED
    BY <1>4, <1>5

LEMMA SerialStart ==
  ASSUME Serial, DialogInv, SerialInv, NEW w \in Workers, StartDialog(w)
  PROVE  SerialInv'
  <1>1. TaskOK(task[w]) /\ task[w].pc = "start" /\ task[w].cmd \in Commands /\ task[w].chat \in Chats
    BY TaskTyped DEF StartDialog, TaskOK, TaskRecords
  <1>2. /\ ~IsComplete(task[w].cmd, NoAnswers) /\ store' = NewState(task[w].cmd, task[w].chat, Fresh)
        /\ issued' = Fresh /\ UNCHANGED <<performed, repeated>> /\ Finish(w)
    BY DEF StartDialog, IsCommandImmediate, Save
  <1>3. StoreOK' /\ PerformedOK'
    BY <1>1, <1>2, StoreBegun
  <1> HIDE DEF Idle
  <1> QED
    BY <1>2, <1>3, IdleFits, SerialStep DEF Finish

LEMMA SerialLoad ==
  ASSUME Serial, DialogInv, SerialInv, NEW w \in Workers, Load(w)
  PROVE  SerialInv'
  <1>1. PICK d, i, t : d = store /\ i = task[w].in /\ t = Fresh
    OBVIOUS
  <1>2. PICK r : r = ProcessInput(d, i, t)
    OBVIOUS
  <1>3. PICK k : k = [task[w] EXCEPT !.pc = r.out, !.in = NoInput, !.cmd = r.ds.cmd,
                                     !.ds = IF r.out = "cancel" THEN NoDialog ELSE r.ds]
    OBVIOUS
  <1>4. /\ task[w].pc = "load" /\ store # NoDialog
        /\ issued' = IF r.ds.token = Fresh THEN Fresh ELSE issued
        /\ task' = [task EXCEPT ![w] = k]
        /\ UNCHANGED <<store, performed, repeated>>
    BY <1>1, <1>2, <1>3 DEF Load, CountToken
  <1>5. /\ d \in DialogStates /\ i \in Inputs /\ i.kind # "command" /\ t \in Nat
        /\ TaskOK(task[w]) /\ task[w] \in TaskRecords /\ Fits(task[w]) /\ Open(d)
    BY <1>1, <1>4, TaskTyped DEF DialogInv, Typed, TaskOK, Fresh, SerialInv, StoreOK
  <1>6. StoreOK' /\ PerformedOK'
    BY <1>4, StoreKept DEF Fresh
  <1>7. /\ i.kind = "back" => Stays(d, r) \/ Undoes(d, r, t) \/ Cancels(d, r)
        /\ i.kind # "back" => Stays(d, r) \/ Answered(d, r, i.value, t)
    BY <1>2, <1>5, InputHandled DEF Ends, Open
  <1>8. /\ k.pc = r.out /\ k.cmd = r.ds.cmd /\ k.back = task[w].back /\ k.back \in BOOLEAN
        /\ r.out # "cancel" => k.ds = r.ds
    BY <1>3, <1>5 DEF TaskRecords
  <1>9. r.out \in {"save", "complete", "cancel"}
    BY <1>7 DEF Stays, Undoes, Cancels, Answered
  <1>10. r.out # "cancel" => Outcome(d, r)
    <2>1. i.kind # "back" => i.value \in Values
      BY <1>5 DEF Inputs
    <2> QED
      BY <1>5, <1>7, <2>1 DEF Outcome, Cancels
  <1>11. k.back => r.out # "complete"
    <2>1. CASE i.kind = "back"
      BY <1>7, <2>1 DEF Stays, Undoes, Cancels
    <2>2. CASE i.kind # "back" /\ Stays(d, r)
      BY <2>2 DEF Stays
    <2>3. CASE i.kind # "back" /\ Answered(d, r, i.value, t) /\ k.back
      <3>1. d.cmd = Menu /\ d.params = NoAnswers
        BY <1>1, <1>4, <1>5, <1>8, <2>3 DEF Fits
      <3>2. i.value \in Values /\ r.ds.params = [NoAnswers EXCEPT ![CurrentStep(Menu, NoAnswers)] = i.value]
        BY <2>3, <3>1 DEF Answered, Recorded
      <3>3. ~IsComplete(Menu, r.ds.params)
        BY <3>2, MenuAsks
      <3> QED
        BY <2>3, <3>1, <3>3 DEF Answered
    <2> QED
      BY <1>7, <2>1, <2>2, <2>3
  <1>12. Fits(k)'
    BY <1>1, <1>4, <1>8, <1>9, <1>10, <1>11 DEF Fits
  <1> QED
    BY <1>4, <1>6, <1>12, SerialStep

(* The dialog an update is about to save. *)
LEMMA SavedFits ==
  ASSUME DialogInv, SerialInv, NEW w \in Workers, task[w].pc \in {"save", "resave"}, NEW e, e = task[w].ds
  PROVE  store # NoDialog /\ e.id = store.id /\ Open(e) /\ (e.cmd \notin AllowBack => e.hist = <<>>)
  <1>1. Fits(task[w]) /\ store \in DialogStates \cup {NoDialog}
    BY DEF SerialInv, DialogInv, Typed
  <1>2. CASE task[w].pc = "save"
    <2>1. PICK r : store # NoDialog /\ Outcome(store, r) /\ r.out = "save" /\ e = r.ds
      BY <1>1, <1>2 DEF Fits
    <2> QED
      BY <2>1, SavedOutcome
  <1>3. CASE task[w].pc = "resave"
    <2>1. store # NoDialog /\ e = [store EXCEPT !.chat = task[w].chat] /\ store \in DialogStates
      BY <1>1, <1>3 DEF Fits
    <2>2. e.id = store.id /\ e.cmd = store.cmd /\ e.params = store.params /\ e.hist = store.hist
      BY <2>1 DEF DialogStates
    <2> QED
      BY <2>1, <2>2 DEF Open, SerialInv, StoreOK
  <1> QED
    BY <1>2, <1>3

LEMMA SerialSave ==
  ASSUME Serial, DialogInv, SerialInv, NEW w \in Workers, SaveNext(w) \/ Resave(w)
  PROVE  SerialInv'
  <1>1. PICK e : e = task[w].ds
    OBVIOUS
  <1>2. /\ task[w].pc \in {"save", "resave"} /\ Finish(w) /\ store' = e
        /\ UNCHANGED <<issued, performed, repeated>>
    BY <1>1 DEF SaveNext, Resave, Save
  <1>3. StoreOK' /\ PerformedOK'
    BY <1>1, <1>2, SavedFits, StoreChanged
  <1> HIDE DEF Idle
  <1> QED
    BY <1>2, <1>3, IdleFits, SerialStep DEF Finish

LEMMA SerialComplete ==
  ASSUME Serial, DialogInv, SerialInv, NEW w \in Workers, CompleteDelete(w)
  PROVE  SerialInv'
  <1>1. /\ task[w].pc = "complete" /\ store' = NoDialog /\ UNCHANGED <<performed, repeated, issued>>
        /\ Finish(w) \/ Goto(w, "dispatch")
    BY DEF CompleteDelete, Delete
  <1>2. StoreOK' /\ PerformedOK'
    BY <1>1, StoreDropped
  <1>3. task[w] \in TaskRecords /\ Fits(task[w])
    BY TaskTyped DEF SerialInv
  <1>4. CASE Finish(w)
    <2> HIDE DEF Idle
    <2> QED
      BY <1>2, <1>4, IdleFits, SerialStep DEF Finish
  <1>5. CASE Goto(w, "dispatch")
    <2>1. PICK k : k = [task[w] EXCEPT !.pc = "dispatch"]
      OBVIOUS
    <2>2. k.pc = "dispatch" /\ k.ds = task[w].ds /\ k.back = FALSE
      BY <1>1, <1>3, <2>1 DEF TaskRecords, Fits
    <2>3. PICK r : store # NoDialog /\ Outcome(store, r) /\ k.ds = r.ds
      BY <1>1, <1>3, <2>2 DEF Fits
    <2>4. r.ds.id = store.id
      BY <2>3 DEF Outcome, Stays, Undoes, Answered, Recorded, Same
    <2>5. k.ds.id <= issued /\ k.ds.id \notin performed
      BY <2>3, <2>4 DEF SerialInv, StoreOK
    <2>6. Fits(k)'
      BY <1>1, <2>2, <2>5 DEF Fits
    <2>7. task' = [task EXCEPT ![w] = k]
      BY <1>5, <2>1 DEF Goto
    <2> QED
      BY <1>2, <2>6, <2>7, SerialStep
  <1> QED
    BY <1>1, <1>4, <1>5

LEMMA SerialMenu ==
  ASSUME Serial, DialogInv, SerialInv, NEW w \in Workers, OpenMenu(w)
  PROVE  SerialInv'
  <1>1. PICK i : i = [kind |-> "answer", value |-> PluginOf[task[w].cmd]]
    OBVIOUS
  <1>2. PICK k : k = [task[w] EXCEPT !.pc = "load", !.in = i]
    OBVIOUS
  <1>3. /\ task[w].pc = "menu" /\ task' = [task EXCEPT ![w] = k] /\ store' = NewState(Menu, task[w].chat, Fresh)
        /\ issued' = Fresh /\ UNCHANGED <<performed, repeated>>
    BY <1>1, <1>2 DEF OpenMenu, Save
  <1>4. task[w].chat \in Chats /\ Menu \in Commands /\ task[w] \in TaskRecords /\ Fresh \in Nat
    BY <1>3, TaskTyped, DialogAssumption DEF TaskOK, Core, Fresh, DialogInv, Typed
  <1>5. StoreOK' /\ PerformedOK'
    BY <1>3, <1>4, MenuAsks, StoreBegun
  <1>6. k.pc = "load"
    BY <1>2, <1>4 DEF TaskRecords
  <1>7. store'.cmd = Menu /\ store'.params = NoAnswers
    BY <1>3, <1>4, NewStateTyped
  <1>8. Fits(k)'
    BY <1>6, <1>7 DEF Fits
  <1> QED
    BY <1>3, <1>5, <1>8, SerialStep

LEMMA SerialDispatch ==
  ASSUME Serial, DialogInv, SerialInv, NEW w \in Workers, Dispatch(w)
  PROVE  SerialInv'
  <1>1. /\ task[w].pc = "dispatch" /\ UNCHANGED <<store, issued>>
        /\ task[w] \in TaskRecords /\ Fits(task[w])
    BY TaskTyped DEF Dispatch, SerialInv
  <1>2. StoreOK' /\ PerformedOK'
    <2>1. CASE task[w].ds = NoDialog
      BY <1>1, <2>1, StoreKept DEF Dispatch
    <2>2. CASE task[w].ds # NoDialog
      <3>1. PICK n : n = task[w].ds.id
        OBVIOUS
      <3>2. store = NoDialog /\ n \in Nat /\ n <= issued /\ n \notin performed
        BY <1>1, <2>2, <3>1 DEF Fits, TaskRecords, DialogStates
      <3>3. performed' = performed \cup {n} /\ repeated' = repeated \cup ({n} \cap performed)
        BY <2>2, <3>1 DEF Dispatch
      <3> QED
        BY <1>1, <3>2, <3>3 DEF StoreOK, PerformedOK, SerialInv
    <2> QED
      BY <2>1, <2>2
  <1>3. CASE Finish(w)
    <2> HIDE DEF Idle
    <2> QED
      BY <1>2, <1>3, IdleFits, SerialStep DEF Finish
  <1>4. ASSUME NEW k, task' = [task EXCEPT ![w] = k], k.pc \in {"peek", "menu"}, k.back = FALSE
        PROVE  SerialInv'
    <2>1. Fits(k)'
      BY <1>4 DEF Fits
    <2> QED
      BY <1>2, <1>4, <2>1, SerialStep
  <1>5. task[w].back = FALSE
    BY <1>1 DEF Fits, TaskRecords
  <1>6. CASE Goto(w, "peek")
    <2>1. PICK k : k = [task[w] EXCEPT !.pc = "peek"]
      OBVIOUS
    <2>2. k.pc = "peek" /\ k.back = FALSE
      BY <1>1, <1>5, <2>1 DEF TaskRecords
    <2> QED
      BY <1>4, <1>6, <2>1, <2>2 DEF Goto
  <1>7. CASE task' = [task EXCEPT ![w].pc = "menu", ![w].ds = NoDialog, ![w].auto = TRUE]
    <2>1. PICK k : k = [task[w] EXCEPT !.pc = "menu", !.ds = NoDialog, !.auto = TRUE]
      OBVIOUS
    <2>2. k.pc = "menu" /\ k.back = FALSE
      BY <1>1, <1>5, <2>1 DEF TaskRecords
    <2>3. task' = [task EXCEPT ![w] = k]
      BY <1>7, <2>1
    <2> QED
      BY <1>4, <2>2, <2>3
  <1> QED
    BY <1>3, <1>6, <1>7 DEF Dispatch

LEMMA SerialResume ==
  ASSUME Serial, DialogInv, SerialInv, NEW w \in Workers, Peek(w) \/ Relocate(w)
  PROVE  SerialInv'
  <1>1. /\ task[w].pc \in {"peek", "relocate"} /\ UNCHANGED <<store, issued, performed, repeated>>
        /\ task[w] \in TaskRecords /\ Fits(task[w])
    BY TaskTyped DEF Peek, Relocate, SerialInv
  <1>2. StoreOK' /\ PerformedOK'
    BY <1>1, StoreKept
  <1>3. CASE Finish(w)
    <2> HIDE DEF Idle
    <2> QED
      BY <1>2, <1>3, IdleFits, SerialStep DEF Finish
  <1>4. task[w].back = FALSE
    BY <1>1 DEF Fits, TaskRecords
  <1>5. CASE Goto(w, "relocate")
    <2>1. PICK k : k = [task[w] EXCEPT !.pc = "relocate"]
      OBVIOUS
    <2>2. k.pc = "relocate" /\ k.back = FALSE
      BY <1>1, <1>4, <2>1 DEF TaskRecords
    <2>3. Fits(k)'
      BY <2>2 DEF Fits
    <2> QED
      BY <1>2, <1>5, <2>1, <2>3, SerialStep DEF Goto
  <1>6. ASSUME store # NoDialog,
               task' = [task EXCEPT ![w].pc = "resave", ![w].ds = [store EXCEPT !.chat = task[w].chat]]
        PROVE  SerialInv'
    <2>1. PICK e : e = [store EXCEPT !.chat = task[w].chat]
      OBVIOUS
    <2>2. PICK k : k = [task[w] EXCEPT !.pc = "resave", !.ds = e]
      OBVIOUS
    <2>3. k.pc = "resave" /\ k.back = FALSE /\ k.ds = e /\ k.chat = task[w].chat
      BY <1>1, <1>4, <2>2 DEF TaskRecords
    <2>4. task' = [task EXCEPT ![w] = k]
      BY <1>6, <2>1, <2>2
    <2>5. Fits(k)'
      BY <1>1, <1>6, <2>1, <2>3 DEF Fits
    <2> QED
      BY <1>2, <2>4, <2>5, SerialStep
  <1> QED
    BY <1>3, <1>5, <1>6 DEF Peek, Relocate

LEMMA ErrorFits ==
  ASSUME Serial, DialogInv, SerialInv, NEW w \in Workers, RedisError(w), StoreOK', PerformedOK'
  PROVE  SerialInv'
  <1>1. TaskOK(task[w]) /\ task[w] \in TaskRecords /\ Fits(task[w])
    BY TaskTyped DEF SerialInv
  <1>2. ASSUME NEW pc, Goto(w, pc), pc \in {"start", "dispatch"}, task[w].pc \in {"clear", "start"}
        PROVE  SerialInv'
    <2>1. PICK k : k = [task[w] EXCEPT !.pc = pc]
      OBVIOUS
    <2>2. k.pc = pc /\ k.ds = NoDialog /\ k.back = FALSE
      BY <1>1, <1>2, <2>1 DEF TaskRecords, TaskOK, Fits
    <2>3. Fits(k)'
      BY <1>2, <2>2 DEF Fits
    <2> QED
      BY <1>2, <2>1, <2>3, SerialStep DEF Goto
  <1>3. CASE Finish(w)
    <2> HIDE DEF Idle
    <2> QED
      BY <1>3, IdleFits, SerialStep DEF Finish
  <1> QED
    BY <1>2, <1>3 DEF RedisError, Dropping

LEMMA SerialError ==
  ASSUME Serial, DialogInv, SerialInv, NEW w \in Workers, RedisError(w)
  PROVE  SerialInv'
  <1>1. task[w].pc # "idle" /\ UNCHANGED <<performed, repeated>> /\ TaskOK(task[w])
    BY TaskTyped DEF RedisError
  <1>2. CASE UNCHANGED <<store, issued>>
    BY <1>1, <1>2, StoreKept, ErrorFits
  <1>3. CASE issued' = Written(w).issued /\ store' = Written(w).ds
    <2>1. CASE task[w].pc \in {"clear", "complete", "cancel"} \/ Dropping(w)
      <3>1. Written(w) = [ds |-> NoDialog, issued |-> issued]
        BY <2>1 DEF Written, Dropping
      <3> QED
        BY <1>1, <1>3, <3>1, StoreDropped, ErrorFits
    <2>2. CASE task[w].pc \in {"save", "resave"}
      <3>1. Written(w) = [ds |-> task[w].ds, issued |-> issued]
        BY <2>2 DEF Written, Dropping
      <3>2. PICK e : e = task[w].ds
        OBVIOUS
      <3>3. store' = e /\ issued' = issued
        BY <1>3, <3>1, <3>2
      <3>4. StoreOK' /\ PerformedOK'
        BY <1>1, <2>2, <3>2, <3>3, SavedFits, StoreChanged
      <3> QED
        BY <3>4, ErrorFits
    <2>3. CASE task[w].pc \in {"start", "menu"} /\ ~Dropping(w)
      <3>1. PICK c : c = IF task[w].pc = "menu" THEN Menu ELSE task[w].cmd
        OBVIOUS
      <3>2. Written(w) = [ds |-> NewState(c, task[w].chat, Fresh), issued |-> Fresh]
        BY <2>3, <3>1 DEF Written
      <3>3. c \in Commands /\ task[w].chat \in Chats
        BY <1>1, <3>1, DialogAssumption DEF TaskOK, TaskRecords, Core
      <3>4. ~IsComplete(c, NoAnswers)
        BY <2>3, <3>1, MenuAsks DEF RedisError, Dropping, IsCommandImmediate, IsPreservesDialog
      <3>5. StoreOK' /\ PerformedOK'
        BY <1>1, <1>3, <3>2, <3>3, <3>4, StoreBegun
      <3> QED
        BY <3>5, ErrorFits
    <2>4. CASE /\ ~(task[w].pc \in {"clear", "complete", "cancel"} \/ Dropping(w))
               /\ task[w].pc \notin {"save", "resave", "start", "menu"}
      <3>1. Written(w) = [ds |-> store, issued |-> issued]
        BY <2>4 DEF Written
      <3> QED
        BY <1>1, <1>3, <3>1, StoreKept, ErrorFits
    <2> QED
      BY <2>1, <2>2, <2>3, <2>4
  <1> QED
    BY <1>2, <1>3 DEF RedisError

LEMMA SerialOutside ==
  ASSUME Serial, DialogInv, SerialInv,
         \/ Expire
         \/ \E p \in Reloadable : Unregister(p) \/ Register(p)
         \/ UNCHANGED vars
  PROVE  SerialInv'
  <1>1. CASE Expire
    <2>1. /\ store' = NoDialog /\ UNCHANGED <<task, performed, repeated, issued>>
          /\ \A w \in Workers : task[w].pc = "idle"
      BY <1>1 DEF Expire, Delete, Serial
    <2>2. \A w \in Workers : Fits(task[w])'
      BY <2>1 DEF SerialInv, Fits
    <2> QED
      BY <2>1, <2>2, StoreDropped DEF SerialInv
  <1>2. CASE UNCHANGED <<store, task, performed, repeated, issued>>
    BY <1>2, StoreKept DEF SerialInv, Fits, Outcome
  <1> QED
    BY <1>1, <1>2 DEF Unregister, Register, vars

LEMMA SerialNext ==
  ASSUME Serial, DialogInv, SerialInv, [Next]_vars
  PROVE  SerialInv'
  <1>1. ASSUME NEW w \in Workers, Handle(w)
        PROVE  SerialInv'
    BY <1>1, SerialPlain, SerialStart, SerialLoad, SerialSave, SerialComplete, SerialMenu, SerialDispatch,
       SerialResume DEF Handle
  <1> QED
    BY <1>1, SerialBegin, SerialError, SerialOutside DEF Next

LEMMA SerialInit == Init => SerialInv
  <1> SUFFICES ASSUME Init PROVE SerialInv
    OBVIOUS
  <1>1. Fits(Idle)
    BY IdleFits
  <1> HIDE DEF Idle
  <1> QED
    BY <1>1 DEF Init, SerialInv, StoreOK, PerformedOK

LEMMA SerialInvariant == Serial => (Spec => [](DialogInv /\ SerialInv))
  <1> SUFFICES ASSUME Serial PROVE Spec => [](DialogInv /\ SerialInv)
    OBVIOUS
  <1>1. Init => DialogInv /\ SerialInv
    BY DialogStart, SerialInit
  <1>2. DialogInv /\ SerialInv /\ [Next]_vars => (DialogInv /\ SerialInv)'
    BY DialogNext, SerialNext
  <1> QED
    BY <1>1, <1>2, PTL DEF Spec

(* With one update at a time, one dialog hands its command over at most    *)
(* once, through any number of failed Redis calls: the entry is deleted    *)
(* before the dispatch, and an update that could not delete it does not    *)
(* dispatch.                                                               *)
THEOREM DialogsRunOnce == Serial => (Spec => []DispatchAtMostOnce)
  <1> SUFFICES ASSUME Serial PROVE Spec => []DispatchAtMostOnce
    OBVIOUS
  <1>1. SerialInv => DispatchAtMostOnce
    BY DEF SerialInv, PerformedOK, DispatchAtMostOnce
  <1> QED
    BY <1>1, SerialInvariant, PTL

(* With one update at a time, a press of Back never reaches the dispatch,  *)
(* the return to core.plugins after a cancelled command included.          *)
THEOREM BackRunsNothing == Serial => (Spec => []BackNeverDispatches)
  <1> SUFFICES ASSUME Serial PROVE Spec => []BackNeverDispatches
    OBVIOUS
  <1>1. SerialInv => BackNeverDispatches
    BY DEF SerialInv, Fits, BackNeverDispatches
  <1> QED
    BY <1>1, SerialInvariant, PTL

-----------------------------------------------------------------------------
(* The dialog implements the conversation. *)

Past(d) == [i \in 1..Len(d.hist) |-> d.hist[i].params]

LEMMA PastIsSeq ==
  ASSUME NEW d \in DialogStates
  PROVE  /\ Past(d) \in Seq(ParamMaps) /\ Len(Past(d)) = Len(d.hist)
         /\ \A i \in 1..Len(d.hist) : Past(d)[i] = d.hist[i].params
         /\ Past(d) = <<>> <=> d.hist = <<>>
  <1>1. d.hist \in Seq(Snapshots)
    BY DEF DialogStates
  <1>2. PICK n \in Nat : n = Len(d.hist)
    BY <1>1
  <1>3. \A i \in 1..n : d.hist[i].params \in ParamMaps
    <2>1. \A i \in 1..n : d.hist[i] \in Snapshots
      BY <1>1, <1>2, ElementOfSeq
    <2> QED
      BY <2>1 DEF Snapshots
  <1>4. Past(d) \in [1..n -> ParamMaps] /\ \A i \in 1..n : Past(d)[i] = d.hist[i].params
    BY <1>2, <1>3 DEF Past
  <1> HIDE DEF Past
  <1>5. Past(d) \in Seq(ParamMaps)
    BY <1>4, SeqDef
  <1>6. Len(Past(d)) = n
    BY <1>4, <1>5
  <1>7. Past(d) = <<>> <=> n = 0
    BY <1>5, <1>6, EmptySeq
  <1>8. d.hist = <<>> <=> n = 0
    BY <1>1, <1>2, EmptySeq
  <1> QED
    BY <1>2, <1>4, <1>5, <1>6, <1>7, <1>8

LEMMA PastGrows ==
  ASSUME NEW d \in DialogStates, NEW e \in DialogStates,
         e.hist = Append(d.hist, [params |-> d.params, pages |-> d.pages])
  PROVE  Past(e) = Append(Past(d), d.params)
  <1>1. d.hist \in Seq(Snapshots) /\ d.params \in ParamMaps /\ d.pages \in [Params -> Nat]
    BY DEF DialogStates
  <1>2. PICK s : s = [params |-> d.params, pages |-> d.pages] /\ s.params = d.params
    OBVIOUS
  <1>3. s \in Snapshots
    BY <1>1, <1>2 DEF Snapshots
  <1>4. PICK n \in Nat : n = Len(d.hist)
    BY <1>1
  <1>5. e.hist = Append(d.hist, s)
    BY <1>2
  <1>6. Len(e.hist) = n + 1 /\ e.hist[n + 1] = s /\ \A i \in 1..n : e.hist[i] = d.hist[i]
    BY <1>1, <1>3, <1>4, <1>5
  <1>7. PICK a, b : a = Past(e) /\ b = Append(Past(d), d.params)
    OBVIOUS
  <1>8. a \in Seq(ParamMaps) /\ Len(a) = n + 1 /\ \A i \in 1..(n + 1) : a[i] = e.hist[i].params
    BY <1>6, <1>7, PastIsSeq
  <1>9. /\ b \in Seq(ParamMaps) /\ Len(b) = n + 1 /\ b[n + 1] = d.params
        /\ \A i \in 1..n : b[i] = d.hist[i].params
    BY <1>1, <1>4, <1>7, PastIsSeq
  <1>10. ASSUME NEW i \in 1..(n + 1)
         PROVE  a[i] = b[i]
    <2>1. CASE i = n + 1
      BY <1>2, <1>6, <1>8, <1>9, <2>1
    <2>2. CASE i # n + 1
      <3>1. i \in 1..n
        BY <2>2
      <3> QED
        BY <1>6, <1>8, <1>9, <3>1
    <2> QED
      BY <2>1, <2>2
  <1>11. a = b
    BY <1>8, <1>9, <1>10, SeqEqual
  <1> QED
    BY <1>7, <1>11

LEMMA PastShrinks ==
  ASSUME NEW d \in DialogStates, NEW e \in DialogStates, d.hist # <<>>,
         e.hist = SubSeq(d.hist, 1, Len(d.hist) - 1)
  PROVE  /\ Past(e) = SubSeq(Past(d), 1, Len(Past(d)) - 1)
         /\ Past(d)[Len(Past(d))] = d.hist[Len(d.hist)].params
  <1>1. d.hist \in Seq(Snapshots)
    BY DEF DialogStates
  <1>2. PICK n \in Nat : n = Len(d.hist) /\ n >= 1
    BY <1>1, EmptySeq
  <1>3. Len(e.hist) = n - 1 /\ \A i \in 1..(n - 1) : e.hist[i] = d.hist[i]
    BY <1>1, <1>2
  <1>4. PICK a, b : a = Past(e) /\ b = SubSeq(Past(d), 1, n - 1)
    OBVIOUS
  <1>5. a \in Seq(ParamMaps) /\ Len(a) = n - 1 /\ \A i \in 1..(n - 1) : a[i] = e.hist[i].params
    BY <1>3, <1>4, PastIsSeq
  <1>6. /\ Past(d) \in Seq(ParamMaps) /\ Len(Past(d)) = n
        /\ \A i \in 1..n : Past(d)[i] = d.hist[i].params
    BY <1>2, PastIsSeq
  <1>7. b \in Seq(ParamMaps) /\ Len(b) = n - 1 /\ \A i \in 1..(n - 1) : b[i] = d.hist[i].params
    BY <1>2, <1>4, <1>6
  <1>8. a = b
    BY <1>3, <1>5, <1>7, SeqEqual
  <1> QED
    BY <1>2, <1>4, <1>6, <1>8

LEMMA ViewOf ==
  ASSUME NEW d \in DialogStates
  PROVE  View(d) = [cmd |-> d.cmd, chat |-> d.chat, params |-> d.params, past |-> Past(d)]
  BY DialogAssumption DEF View, Past

LEMMA ViewIsDialog ==
  ASSUME NEW d \in DialogStates
  PROVE  View(d) # NoDialog
  <1>1. d.cmd \in Commands /\ d.chat \in Chats /\ d.params \in ParamMaps /\ Past(d) \in Seq(ParamMaps)
    BY PastIsSeq DEF DialogStates
  <1>2. [cmd |-> d.cmd, chat |-> d.chat, params |-> d.params, past |-> Past(d)] \in Views
    BY <1>1 DEF Views
  <1> QED
    BY <1>2, ViewOf, DialogAssumption

LEMMA ViewOfNothing == View(NoDialog) = NoDialog
  BY DEF View

(* The conversation speaks of the same commands. *)
LEMMA SameSteps ==
  /\ Abstract!NoAnswers = NoAnswers
  /\ \A c, p : Abstract!CurrentStep(c, p) = CurrentStep(c, p)
  /\ \A c, p : Abstract!IsComplete(c, p) <=> IsComplete(c, p)
  BY DEF Abstract!NoAnswers, NoAnswers, Abstract!CurrentStep, CurrentStep, Abstract!IsComplete, IsComplete

Simulated == Abstract!Next \/ (View(store)' = View(store) /\ Owed' = Owed)

LEMMA SimStay ==
  ASSUME store' = store, Owed' = Owed
  PROVE  Simulated
  BY DEF Simulated, View

LEMMA SimClose ==
  ASSUME store' = NoDialog, Owed' = Owed
  PROVE  Simulated
  <1>1. View(store)' = NoDialog
    BY ViewOfNothing DEF View
  <1>2. Abstract!Close
    BY <1>1 DEF Abstract!Close
  <1> QED
    BY <1>2 DEF Simulated, Abstract!Next

LEMMA SimOpen ==
  ASSUME NEW c \in Commands, NEW chat \in Chats, NEW t \in Nat, store' = NewState(c, chat, t),
         ~IsComplete(c, NoAnswers), Owed' = Owed
  PROVE  Simulated
  <1>1. PICK d : d = NewState(c, chat, t)
    OBVIOUS
  <1>2. d \in DialogStates /\ d.cmd = c /\ d.chat = chat /\ d.params = NoAnswers /\ d.hist = <<>>
    BY <1>1, NewStateTyped
  <1>3. Past(d) = <<>>
    BY <1>2, PastIsSeq
  <1>4. View(d) = [cmd |-> c, chat |-> chat, params |-> NoAnswers, past |-> <<>>]
    BY <1>2, <1>3, ViewOf
  <1>5. View(store)' = View(d)
    BY <1>1 DEF View
  <1>6. Abstract!Open(c, chat)
    BY <1>4, <1>5, SameSteps DEF Abstract!Open
  <1> QED
    BY <1>6 DEF Simulated, Abstract!Next

LEMMA SimAsk ==
  ASSUME NEW c \in Commands, IsComplete(c, NoAnswers),
         Owed' = Owed \cup {[cmd |-> c, params |-> NoAnswers]},
         store' = store \/ (c # Resume /\ store' = NoDialog)
  PROVE  Simulated
  <1>1. CASE store' = store
    <2>1. View(store)' = View(store)
      BY <1>1 DEF View
    <2>2. Abstract!AskBesides(c)
      BY <2>1, SameSteps DEF Abstract!AskBesides
    <2> QED
      BY <2>2 DEF Simulated, Abstract!Next
  <1>2. CASE c # Resume /\ store' = NoDialog
    <2>1. View(store)' = NoDialog
      BY <1>2, ViewOfNothing DEF View
    <2>2. Abstract!Ask(c)
      BY <1>2, <2>1, SameSteps DEF Abstract!Ask
    <2> QED
      BY <2>2 DEF Simulated, Abstract!Next
  <1> QED
    BY <1>1, <1>2

LEMMA SimRun ==
  ASSUME NEW o \in Owed, Owed' = Owed \ {o}, store' = store
  PROVE  Simulated
  <1>1. View(store)' = View(store)
    BY DEF View
  <1>2. Abstract!Run(o)
    BY <1>1 DEF Abstract!Run
  <1> QED
    BY <1>2 DEF Simulated, Abstract!Next

LEMMA SimMove ==
  ASSUME store \in DialogStates, NEW chat \in Chats, store' = [store EXCEPT !.chat = chat], Owed' = Owed
  PROVE  Simulated
  <1>1. PICK d, e : d = store /\ e = [d EXCEPT !.chat = chat]
    OBVIOUS
  <1>2. e \in DialogStates /\ e.cmd = d.cmd /\ e.chat = chat /\ e.params = d.params /\ e.hist = d.hist
    BY <1>1 DEF DialogStates
  <1>3. Past(e) = Past(d)
    BY <1>2 DEF Past
  <1>4. View(e) = [View(d) EXCEPT !.chat = chat]
    <2>1. View(d) = [cmd |-> d.cmd, chat |-> d.chat, params |-> d.params, past |-> Past(d)]
      BY <1>1, ViewOf
    <2>2. View(e) = [cmd |-> d.cmd, chat |-> chat, params |-> d.params, past |-> Past(d)]
      BY <1>2, <1>3, ViewOf
    <2> QED
      BY <2>1, <2>2
  <1>5. View(store) = View(d) /\ View(store)' = View(e) /\ View(d) # NoDialog
    BY <1>1, ViewIsDialog DEF View
  <1>6. Abstract!Move(chat)
    BY <1>4, <1>5 DEF Abstract!Move
  <1> QED
    BY <1>6 DEF Simulated, Abstract!Next

(* The view of the answered dialog, as the conversation computes it. *)
LEMMA AnsweredView ==
  ASSUME NEW d \in DialogStates, NEW r, NEW v, NEW t, Answered(d, r, v, t),
         d.cmd \notin AllowBack => d.hist = <<>>
  PROVE  View(r.ds) = [cmd |-> d.cmd, chat |-> d.chat,
                       params |-> [d.params EXCEPT ![CurrentStep(d.cmd, d.params)] = v],
                       past |-> IF d.cmd \in AllowBack THEN Append(Past(d), d.params) ELSE <<>>]
  <1>1. PICK q : q = [d.params EXCEPT ![CurrentStep(d.cmd, d.params)] = v]
    OBVIOUS
  <1>2. r.ds \in DialogStates /\ r.ds.cmd = d.cmd /\ r.ds.chat = d.chat /\ r.ds.params = q
    BY <1>1 DEF Answered, Recorded, Same
  <1>3. Past(r.ds) = IF d.cmd \in AllowBack THEN Append(Past(d), d.params) ELSE <<>>
    <2>1. CASE d.cmd \in AllowBack
      BY <1>2, <2>1, PastGrows DEF Answered, Recorded
    <2>2. CASE d.cmd \notin AllowBack
      BY <1>2, <2>2, PastIsSeq DEF Answered, Recorded
    <2> QED
      BY <2>1, <2>2
  <1> QED
    BY <1>1, <1>2, <1>3, ViewOf

(* The answer, as the conversation sees it. *)
LEMMA AnswerSeen ==
  ASSUME store \in DialogStates, NEW v, NEW r, NEW t, Answered(store, r, v, t)
  PROVE  /\ View(store) # NoDialog /\ v \in Values
         /\ v \in Accepts[View(store).cmd][Abstract!CurrentStep(View(store).cmd, View(store).params)]
         /\ Abstract!With(v) = r.ds.params /\ View(store).cmd = store.cmd /\ View(store).chat = store.chat
         /\ View(store).params = store.params /\ View(store).past = Past(store)
  <1>1. /\ View(store).cmd = store.cmd /\ View(store).params = store.params /\ View(store).chat = store.chat
        /\ View(store).past = Past(store) /\ View(store) # NoDialog
    BY ViewOf, ViewIsDialog
  <1>2. Abstract!CurrentStep(View(store).cmd, View(store).params) = CurrentStep(store.cmd, store.params)
    BY <1>1, SameSteps
  <1>3. Abstract!With(v) = [store.params EXCEPT ![CurrentStep(store.cmd, store.params)] = v]
    BY <1>1, <1>2 DEF Abstract!With
  <1> QED
    BY <1>1, <1>2, <1>3 DEF Answered, Recorded

LEMMA SimAnswer ==
  ASSUME store \in DialogStates, store.cmd \notin AllowBack => store.hist = <<>>,
         NEW v, NEW r, NEW t, Answered(store, r, v, t),
         \/ r.out = "save" /\ store' = r.ds /\ Owed' = Owed
         \/ /\ r.out = "complete" /\ store' = NoDialog
            /\ Owed' = Owed \cup {[cmd |-> store.cmd, params |-> r.ds.params]}
  PROVE  Simulated
  <1>1. /\ View(store) # NoDialog /\ v \in Values
        /\ v \in Accepts[View(store).cmd][Abstract!CurrentStep(View(store).cmd, View(store).params)]
        /\ Abstract!With(v) = r.ds.params /\ View(store).cmd = store.cmd /\ View(store).chat = store.chat
        /\ View(store).params = store.params /\ View(store).past = Past(store)
    BY AnswerSeen
  <1>2. r.out = "complete" <=> IsComplete(store.cmd, r.ds.params)
    BY DEF Answered
  <1>3. Abstract!IsComplete(View(store).cmd, Abstract!With(v)) <=> r.out = "complete"
    BY <1>1, <1>2, SameSteps
  <1>4. CASE r.out = "save" /\ store' = r.ds /\ Owed' = Owed
    <2>1. View(store)' = [cmd |-> View(store).cmd, chat |-> View(store).chat, params |-> Abstract!With(v),
                          past |-> IF View(store).cmd \in AllowBack
                                   THEN Append(View(store).past, View(store).params) ELSE <<>>]
      <3>1. View(store)' = View(r.ds)
        BY <1>4 DEF View
      <3>2. PICK q : q = [store.params EXCEPT ![CurrentStep(store.cmd, store.params)] = v]
        OBVIOUS
      <3>3. q = r.ds.params
        BY <3>2 DEF Answered, Recorded
      <3>4. View(r.ds) = [cmd |-> store.cmd, chat |-> store.chat, params |-> q,
                          past |-> IF store.cmd \in AllowBack THEN Append(Past(store), store.params) ELSE <<>>]
        BY <3>2, AnsweredView
      <3> QED
        BY <1>1, <3>1, <3>3, <3>4
    <2>2. Abstract!Answer(v)
      BY <1>1, <1>3, <1>4, <2>1 DEF Abstract!Answer
    <2> QED
      BY <1>1, <2>2 DEF Simulated, Abstract!Next
  <1>5. CASE /\ r.out = "complete" /\ store' = NoDialog
             /\ Owed' = Owed \cup {[cmd |-> store.cmd, params |-> r.ds.params]}
    <2>1. View(store)' = NoDialog
      BY <1>5, ViewOfNothing DEF View
    <2>2. Abstract!Answer(v)
      BY <1>1, <1>3, <1>5, <2>1 DEF Abstract!Answer
    <2> QED
      BY <1>1, <2>2 DEF Simulated, Abstract!Next
  <1> QED
    BY <1>4, <1>5

LEMMA SimUndo ==
  ASSUME store \in DialogStates, NEW r, NEW t, Undoes(store, r, t), store' = r.ds, Owed' = Owed
  PROVE  Simulated
  <1>1. PICK d, e : d = store /\ e = r.ds
    OBVIOUS
  <1>2. /\ d \in DialogStates /\ e \in DialogStates /\ e.cmd = d.cmd /\ e.chat = d.chat /\ d.hist # <<>>
        /\ e.params = d.hist[Len(d.hist)].params /\ e.hist = SubSeq(d.hist, 1, Len(d.hist) - 1)
    BY <1>1 DEF Undoes, Same
  <1>3. PICK n : n = Len(Past(d))
    OBVIOUS
  <1>4. Past(e) = SubSeq(Past(d), 1, n - 1) /\ Past(d)[n] = e.params /\ Past(d) # <<>>
    BY <1>2, <1>3, PastShrinks, PastIsSeq
  <1>5. View(store) = View(d) /\ View(store)' = View(e) /\ View(d) # NoDialog
    BY <1>1, <1>2, ViewIsDialog DEF View
  <1>6. View(d).cmd = d.cmd /\ View(d).chat = d.chat /\ View(d).past = Past(d)
    BY <1>2, ViewOf
  <1>7. View(e) = [cmd |-> d.cmd, chat |-> d.chat, params |-> Past(d)[n], past |-> SubSeq(Past(d), 1, n - 1)]
    BY <1>2, <1>4, ViewOf
  <1>8. Abstract!Undo
    BY <1>3, <1>4, <1>5, <1>6, <1>7 DEF Abstract!Undo
  <1> QED
    BY <1>8 DEF Simulated, Abstract!Next

LEMMA SimSaved ==
  ASSUME DialogInv, SerialInv, store # NoDialog, NEW r, Outcome(store, r), r.out = "save", store' = r.ds,
         Owed' = Owed
  PROVE  Simulated
  <1>1. store \in DialogStates /\ (store.cmd \notin AllowBack => store.hist = <<>>)
    BY DEF DialogInv, Typed, SerialInv, StoreOK
  <1>2. CASE Stays(store, r)
    <2>1. PICK d, e : d = store /\ e = r.ds
      OBVIOUS
    <2>2. /\ d \in DialogStates /\ e \in DialogStates /\ e.cmd = d.cmd /\ e.chat = d.chat
          /\ e.params = d.params /\ e.hist = d.hist
      BY <1>1, <1>2, <2>1 DEF Stays, Same
    <2>3. Past(e) = Past(d)
      BY <2>2 DEF Past
    <2>4. View(e) = View(d)
      BY <2>2, <2>3, ViewOf
    <2>5. View(store) = View(d) /\ View(store)' = View(e)
      BY <2>1 DEF View
    <2> QED
      BY <2>4, <2>5 DEF Simulated
  <1>3. ASSUME NEW t, Undoes(store, r, t)
        PROVE  Simulated
    BY <1>1, <1>3, SimUndo
  <1>4. ASSUME NEW t, NEW v, Answered(store, r, v, t)
        PROVE  Simulated
    BY <1>1, <1>4, SimAnswer
  <1> QED
    BY <1>2, <1>3, <1>4 DEF Outcome

(* What is owed, with one update at a time. *)
Owes(k) == {[cmd |-> k.cmd, params |-> Given(k)]}

LEMMA OwedNow ==
  ASSUME Serial, NEW w \in Workers
  PROVE  Owed = IF task[w].pc = "dispatch" THEN Owes(task[w]) ELSE {}
  <1>1. Workers = {w}
    BY DEF Serial
  <1> QED
    BY <1>1 DEF Owed, Owes, Given

LEMMA OwedThen ==
  ASSUME Serial, DialogInv, NEW w \in Workers, NEW k, task' = [task EXCEPT ![w] = k]
  PROVE  Owed' = IF k.pc = "dispatch" THEN Owes(k) ELSE {}
  <1>1. Workers = {w} /\ task'[w] = k
    BY DEF Serial, DialogInv, Typed
  <1> QED
    BY <1>1 DEF Owed, Owes, Given

LEMMA OwesNothing ==
  ASSUME Serial, DialogInv, NEW w \in Workers, NEW k, task' = [task EXCEPT ![w] = k],
         task[w].pc # "dispatch", k.pc # "dispatch"
  PROVE  Owed' = Owed
  BY OwedNow, OwedThen

LEMMA QuietGoto ==
  ASSUME Serial, DialogInv, NEW w \in Workers, NEW pc, Goto(w, pc), task[w].pc # "dispatch", pc # "dispatch"
  PROVE  Owed' = Owed
  <1>1. PICK k : k = [task[w] EXCEPT !.pc = pc]
    OBVIOUS
  <1>2. k.pc = pc
    BY <1>1, TaskTyped DEF TaskRecords
  <1> QED
    BY <1>1, <1>2, OwesNothing DEF Goto

LEMMA QuietFinish ==
  ASSUME Serial, DialogInv, NEW w \in Workers, Finish(w), task[w].pc # "dispatch"
  PROVE  Owed' = Owed
  <1>1. Idle.pc # "dispatch"
    BY IdleOK
  <1> HIDE DEF Idle
  <1> QED
    BY <1>1, OwesNothing DEF Finish

(* A command without steps goes to its plugin. *)
LEMMA AskedNow ==
  ASSUME Serial, DialogInv, NEW w \in Workers, Goto(w, "dispatch"), task[w].pc = "start"
  PROVE  Owed' = Owed \cup {[cmd |-> task[w].cmd, params |-> NoAnswers]}
  <1>1. PICK k : k = [task[w] EXCEPT !.pc = "dispatch"]
    OBVIOUS
  <1>2. k.pc = "dispatch" /\ k.cmd = task[w].cmd /\ k.ds = NoDialog
    BY <1>1, TaskTyped DEF TaskRecords, TaskOK
  <1>3. Owed' = Owes(k) /\ Owed = {}
    BY <1>1, <1>2, OwedNow, OwedThen DEF Goto
  <1> QED
    BY <1>2, <1>3 DEF Owes, Given

LEMMA SimHandle ==
  ASSUME Serial, DialogInv, SerialInv, NEW w \in Workers, Handle(w)
  PROVE  Simulated
  <1>1. TaskOK(task[w]) /\ task[w] \in TaskRecords /\ Fits(task[w])
    BY TaskTyped DEF SerialInv
  <1>2. CASE Clear(w)
    BY <1>2, QuietGoto, SimClose DEF Clear, Delete
  <1>3. CASE CancelDelete(w)
    BY <1>3, QuietGoto, SimClose DEF CancelDelete, Delete
  <1>4. CASE StartUnknown(w) \/ LoadNothing(w)
    BY <1>4, QuietFinish, SimStay DEF StartUnknown, LoadNothing
  <1>5. CASE StartImmediate(w)
    <2>1. PICK c \in Commands : c = task[w].cmd
      BY <1>1 DEF TaskRecords
    <2>2. IsComplete(c, NoAnswers) /\ Owed' = Owed \cup {[cmd |-> c, params |-> NoAnswers]}
      BY <1>5, <2>1, AskedNow DEF StartImmediate, IsCommandImmediate
    <2>3. store' = store \/ (c # Resume /\ store' = NoDialog)
      BY <1>5, <2>1 DEF StartImmediate, IsCommandImmediate, IsPreservesDialog
    <2> QED
      BY <2>2, <2>3, SimAsk
  <1>6. CASE StartDialog(w)
    <2>1. task[w].cmd \in Commands /\ task[w].chat \in Chats /\ Fresh \in Nat
      BY <1>1, <1>6 DEF StartDialog, TaskOK, TaskRecords, DialogInv, Typed, Fresh
    <2>2. /\ ~IsComplete(task[w].cmd, NoAnswers) /\ store' = NewState(task[w].cmd, task[w].chat, Fresh)
          /\ Finish(w) /\ task[w].pc = "start"
      BY <1>6 DEF StartDialog, IsCommandImmediate, Save
    <2> QED
      BY <2>1, <2>2, QuietFinish, SimOpen
  <1>7. CASE Load(w)
    <2>1. PICK r : r = ProcessInput(store, task[w].in, Fresh)
      OBVIOUS
    <2>2. PICK k : k = [task[w] EXCEPT !.pc = r.out, !.in = NoInput, !.cmd = r.ds.cmd,
                                       !.ds = IF r.out = "cancel" THEN NoDialog ELSE r.ds]
      OBVIOUS
    <2>3. task' = [task EXCEPT ![w] = k] /\ store' = store /\ task[w].pc = "load" /\ store # NoDialog
      BY <1>7, <2>1, <2>2 DEF Load
    <2>4. r.out \in {"save", "complete", "cancel"}
      <3>1. store \in DialogStates /\ task[w].in \in Inputs /\ task[w].in.kind # "command" /\ Fresh \in Nat
        BY <1>1, <2>3 DEF DialogInv, Typed, TaskOK, Fresh
      <3> QED
        BY <2>1, <3>1, InputHandled DEF Stays, Undoes, Cancels, Ends, Answered
    <2>5. k.pc = r.out
      BY <1>1, <2>2 DEF TaskRecords
    <2> QED
      BY <2>3, <2>4, <2>5, OwesNothing, SimStay
  <1>8. CASE SaveNext(w)
    <2>1. PICK r : store # NoDialog /\ Outcome(store, r) /\ r.out = "save" /\ task[w].ds = r.ds
      BY <1>1, <1>8 DEF SaveNext, Fits
    <2>2. store' = r.ds /\ Owed' = Owed
      BY <1>8, <2>1, QuietFinish DEF SaveNext, Save
    <2> QED
      BY <2>1, <2>2, SimSaved
  <1>9. CASE Resave(w)
    <2>1. /\ store \in DialogStates /\ task[w].chat \in Chats /\ store' = [store EXCEPT !.chat = task[w].chat]
      BY <1>1, <1>9 DEF Resave, Save, Fits, TaskOK, DialogInv, Typed
    <2>2. Owed' = Owed
      BY <1>9, QuietFinish DEF Resave
    <2> QED
      BY <2>1, <2>2, SimMove
  <1>10. CASE CompleteDelete(w)
    <2>1. task[w].pc = "complete" /\ store' = NoDialog /\ (Finish(w) \/ Goto(w, "dispatch"))
      BY <1>10 DEF CompleteDelete, Delete
    <2>2. CASE Finish(w)
      BY <2>1, <2>2, QuietFinish, SimClose
    <2>3. CASE Goto(w, "dispatch")
      <3>1. PICK r : /\ store # NoDialog /\ Outcome(store, r) /\ r.out = "complete" /\ task[w].ds = r.ds
                     /\ task[w].cmd = r.ds.cmd
        BY <1>1, <2>1 DEF Fits
      <3>2. PICK v, t : Answered(store, r, v, t)
        BY <3>1 DEF Outcome, Stays, Undoes
      <3>3. /\ store \in DialogStates /\ (store.cmd \notin AllowBack => store.hist = <<>>)
            /\ r.ds # NoDialog /\ r.ds.cmd = store.cmd
        BY <3>1, <3>2, DialogAssumption DEF DialogInv, Typed, SerialInv, StoreOK, Answered, Recorded, Same
      <3>4. PICK k : k = [task[w] EXCEPT !.pc = "dispatch"]
        OBVIOUS
      <3>5. k.pc = "dispatch" /\ k.cmd = store.cmd /\ k.ds = r.ds
        BY <1>1, <3>1, <3>3, <3>4 DEF TaskRecords
      <3>6. Owed' = Owes(k) /\ Owed = {}
        BY <2>1, <2>3, <3>4, <3>5, OwedNow, OwedThen DEF Goto
      <3>7. Owed' = Owed \cup {[cmd |-> store.cmd, params |-> r.ds.params]}
        BY <3>3, <3>5, <3>6 DEF Owes, Given
      <3> QED
        BY <2>1, <3>1, <3>2, <3>3, <3>7, SimAnswer
    <2> QED
      BY <1>10, <2>2, <2>3 DEF CompleteDelete
  <1>11. CASE OpenMenu(w)
    <2>1. PICK k : k = [task[w] EXCEPT !.pc = "load", !.in = [kind |-> "answer", value |-> PluginOf[task[w].cmd]]]
      OBVIOUS
    <2>2. /\ task' = [task EXCEPT ![w] = k] /\ k.pc = "load" /\ task[w].pc = "menu"
          /\ store' = NewState(Menu, task[w].chat, Fresh)
      BY <1>1, <1>11, <2>1 DEF OpenMenu, Save, TaskRecords
    <2>3. Menu \in Commands /\ task[w].chat \in Chats /\ Fresh \in Nat
      BY <1>1, <2>2, DialogAssumption DEF Core, TaskOK, DialogInv, Typed, Fresh
    <2> QED
      BY <2>2, <2>3, OwesNothing, MenuAsks, SimOpen
  <1>12. CASE Dispatch(w)
    <2>1. task[w].pc = "dispatch" /\ store' = store
      BY <1>12 DEF Dispatch
    <2>2. PICK o : Owed = {o}
      BY <2>1, OwedNow DEF Owes
    <2>3. \E k : task' = [task EXCEPT ![w] = k] /\ k.pc # "dispatch"
      <3>1. PICK k1, k2 : /\ k1 = [task[w] EXCEPT !.pc = "peek"]
                          /\ k2 = [task[w] EXCEPT !.pc = "menu", !.ds = NoDialog, !.auto = TRUE]
        OBVIOUS
      <3>2. k1.pc = "peek" /\ k2.pc = "menu" /\ Idle.pc = "idle"
        BY <1>1, <3>1, IdleOK DEF TaskRecords
      <3> HIDE DEF Idle
      <3>3. task' = [task EXCEPT ![w] = k1] \/ task' = [task EXCEPT ![w] = k2] \/ task' = [task EXCEPT ![w] = Idle]
        BY <1>12, <3>1 DEF Dispatch, Goto, Finish
      <3> QED
        BY <3>2, <3>3
    <2>4. Owed' = {}
      BY <2>3, OwedThen
    <2> QED
      BY <2>1, <2>2, <2>4, SimRun
  <1>13. CASE Peek(w)
    BY <1>13, QuietFinish, QuietGoto, SimStay DEF Peek
  <1>14. CASE Relocate(w)
    <2>1. CASE Finish(w)
      BY <1>14, <2>1, QuietFinish, SimStay DEF Relocate
    <2>2. CASE ~Finish(w)
      <3>1. PICK k : k = [task[w] EXCEPT !.pc = "resave", !.ds = [store EXCEPT !.chat = task[w].chat]]
        OBVIOUS
      <3>2. k.pc = "resave" /\ task' = [task EXCEPT ![w] = k] /\ task[w].pc = "relocate" /\ store' = store
        BY <1>1, <1>14, <2>2, <3>1 DEF Relocate, TaskRecords
      <3> QED
        BY <3>2, OwesNothing, SimStay
    <2> QED
      BY <2>1, <2>2
  <1> QED
    BY <1>2, <1>3, <1>4, <1>5, <1>6, <1>7, <1>8, <1>9, <1>10, <1>11, <1>12, <1>13, <1>14 DEF Handle

(* A failed call ends the update, or is ignored; nothing runs because of   *)
(* it but the command without steps whose dialog could not be deleted.     *)
LEMMA SimError ==
  ASSUME Serial, DialogInv, SerialInv, NEW w \in Workers, RedisError(w)
  PROVE  Simulated
  <1>1. /\ TaskOK(task[w]) /\ task[w] \in TaskRecords /\ Fits(task[w])
        /\ task[w].pc # "idle" /\ task[w].pc # "dispatch"
    BY TaskTyped DEF SerialInv, RedisError
  <1>2. store' = store \/ store' = Written(w).ds
    BY DEF RedisError
  <1>3. CASE Dropping(w)
    <2>1. PICK c \in Commands : c = task[w].cmd
      BY <1>1 DEF TaskRecords
    <2>2. task[w].pc = "start" /\ IsComplete(c, NoAnswers) /\ c # Resume /\ Goto(w, "dispatch")
      BY <1>3, <2>1 DEF Dropping, IsCommandImmediate, IsPreservesDialog, RedisError
    <2>3. Owed' = Owed \cup {[cmd |-> c, params |-> NoAnswers]}
      BY <2>1, <2>2, AskedNow
    <2>4. Written(w).ds = NoDialog
      <3>1. Written(w) = [ds |-> NoDialog, issued |-> issued]
        BY <1>3 DEF Written, Dropping
      <3> QED
        BY <3>1
    <2> QED
      BY <1>2, <2>2, <2>3, <2>4, SimAsk
  <1>4. CASE ~Dropping(w)
    <2>1. Owed' = Owed
      <3>1. Goto(w, "start") \/ Finish(w)
        BY <1>4 DEF RedisError
      <3> QED
        BY <1>1, <3>1, QuietGoto, QuietFinish
    <2>2. CASE store' = store
      BY <2>1, <2>2, SimStay
    <2>3. CASE store' = Written(w).ds /\ task[w].pc \in {"clear", "complete", "cancel"}
      <3>1. Written(w) = [ds |-> NoDialog, issued |-> issued]
        BY <2>3 DEF Written, Dropping
      <3> QED
        BY <2>1, <2>3, <3>1, SimClose
    <2>4. CASE store' = Written(w).ds /\ task[w].pc \in {"save", "resave"}
      <3>1. Written(w) = [ds |-> task[w].ds, issued |-> issued]
        BY <2>4 DEF Written, Dropping
      <3>2. store' = task[w].ds
        BY <2>4, <3>1
      <3>3. CASE task[w].pc = "save"
        <4>1. PICK r : store # NoDialog /\ Outcome(store, r) /\ r.out = "save" /\ task[w].ds = r.ds
          BY <1>1, <3>3 DEF Fits
        <4> QED
          BY <2>1, <3>2, <4>1, SimSaved
      <3>4. CASE task[w].pc = "resave"
        <4>1. store \in DialogStates /\ task[w].chat \in Chats /\ store' = [store EXCEPT !.chat = task[w].chat]
          BY <1>1, <3>2, <3>4 DEF Fits, TaskOK, DialogInv, Typed
        <4> QED
          BY <2>1, <4>1, SimMove
      <3> QED
        BY <2>4, <3>3, <3>4
    <2>5. CASE store' = Written(w).ds /\ task[w].pc \in {"start", "menu"}
      <3>1. PICK c : c = IF task[w].pc = "menu" THEN Menu ELSE task[w].cmd
        OBVIOUS
      <3>2. Written(w) = [ds |-> NewState(c, task[w].chat, Fresh), issued |-> Fresh]
        BY <1>4, <2>5, <3>1 DEF Written
      <3>3. c \in Commands /\ task[w].chat \in Chats /\ Fresh \in Nat
        BY <1>1, <3>1, DialogAssumption DEF TaskOK, TaskRecords, Core, DialogInv, Typed, Fresh
      <3>4. ~IsComplete(c, NoAnswers)
        BY <1>4, <2>5, <3>1, MenuAsks DEF RedisError, Dropping, IsCommandImmediate, IsPreservesDialog
      <3>5. store' = NewState(c, task[w].chat, Fresh)
        BY <2>5, <3>2
      <3> QED
        BY <2>1, <3>3, <3>4, <3>5, SimOpen
    <2>6. CASE /\ store' = Written(w).ds
               /\ task[w].pc \notin {"clear", "complete", "cancel", "save", "resave", "start", "menu"}
      <3>1. Written(w) = [ds |-> store, issued |-> issued]
        BY <1>4, <2>6 DEF Written
      <3> QED
        BY <2>1, <2>6, <3>1, SimStay
    <2> QED
      BY <1>2, <2>2, <2>3, <2>4, <2>5, <2>6
  <1> QED
    BY <1>3, <1>4

LEMMA SimBegin ==
  ASSUME Serial, DialogInv, NEW w \in Workers, NEW chat \in Chats,
         \/ \E c \in Commands : OnCommand(w, chat, c)
         \/ \E i \in Inputs : i.kind # "command" /\ OnInput(w, chat, i)
  PROVE  Simulated
  <1>1. store' = store /\ task[w].pc = "idle"
    BY DEF OnCommand, OnInput
  <1>2. ASSUME NEW pc \in {"start", "clear", "load"}, NEW i, NEW c,
               task' = [task EXCEPT ![w] = Update(pc, chat, i, c)]
        PROVE  Simulated
    <2>1. PICK k : k = Update(pc, chat, i, c)
      OBVIOUS
    <2>2. k.pc = pc
      BY <2>1 DEF Update
    <2> QED
      BY <1>1, <1>2, <2>1, <2>2, OwesNothing, SimStay
  <1>3. ASSUME NEW c \in Commands, OnCommand(w, chat, c)
        PROVE  Simulated
    <2>1. PICK pc : /\ task' = [task EXCEPT ![w] = Update(pc, chat, [kind |-> "command", cmd |-> c], c)]
                    /\ pc \in {"start", "clear"}
      BY <1>3 DEF OnCommand
    <2> QED
      BY <1>2, <2>1
  <1>4. ASSUME NEW i \in Inputs, OnInput(w, chat, i)
        PROVE  Simulated
    BY <1>2, <1>4 DEF OnInput
  <1> QED
    BY <1>3, <1>4

LEMMA SimNext ==
  ASSUME Serial, DialogInv, SerialInv, [Next]_vars
  PROVE  Simulated
  <1>1. ASSUME task' = task
        PROVE  Owed' = Owed
    BY <1>1 DEF Owed
  <1>2. CASE Expire
    BY <1>1, <1>2, SimClose DEF Expire, Delete
  <1>3. CASE UNCHANGED vars \/ \E p \in Reloadable : Unregister(p) \/ Register(p)
    BY <1>1, <1>3, SimStay DEF vars, Unregister, Register
  <1> QED
    BY <1>2, <1>3, SimHandle, SimError, SimBegin DEF Next

(* Updates of one user handled one after the other implement the           *)
(* conversation: at most one command is being filled in, an answer goes to *)
(* its current step, Back takes the last answer away, and a command runs   *)
(* once, with all its answers, whatever Redis calls fail.                  *)
THEOREM DialogImplementsConversation == Serial => (Spec => ImplementsConversation)
  <1> SUFFICES ASSUME Serial PROVE Spec => ImplementsConversation
    OBVIOUS
  <1>1. Init => Abstract!Init
    <2> SUFFICES ASSUME Init PROVE View(store) = NoDialog /\ Owed = {}
      BY DEF Abstract!Init
    <2>1. View(store) = NoDialog
      BY ViewOfNothing DEF Init
    <2>2. Idle.pc = "idle"
      BY IdleOK
    <2> HIDE DEF Idle
    <2>3. \A w \in Workers : task[w].pc # "dispatch"
      BY <2>2 DEF Init
    <2> QED
      BY <2>1, <2>3 DEF Owed
  <1>2. DialogInv /\ SerialInv /\ [Next]_vars => [Abstract!Next]_(Abstract!vars)
    BY SimNext DEF Simulated, Abstract!vars
  <1> QED
    BY <1>1, <1>2, SerialInvariant, PTL DEF Spec, ImplementsConversation, Abstract!Spec

===============================================================================
