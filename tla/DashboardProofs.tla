-------------------------- MODULE DashboardProofs --------------------------
(***************************************************************************)
(* The dashboard page, for every number of keys, overlapping polls and     *)
(* failed requests: nothing is created behind the user's back, and no      *)
(* outcome is shown that a task has not got.                               *)
(***************************************************************************)
EXTENDS Dashboard, TLAPS

Phases == {"absent"} \cup TaskStatus

\* What a status kept somewhere in the page may be of task t: an outcome only if
\* it is the task's.
Honest(status, t) == status \in TERMINAL_STATUSES => status = phase[t]

\* The state that TypeOK leaves untyped.
ShapeInv ==
  /\ phase \in [Tasks -> Phases]
  /\ DOMAIN polls = Polls /\ \A p \in Polls : DOMAIN polls[p] \subseteq Tasks

\* Keys.  A request under way has a key; what the page lists, and what an answer
\* speaks of, exists; a given-up request carries a listed key or the form's own.
KeyInv ==
  /\ post # "idle" => idempotencyKey \in Tasks
  /\ post \in TaskStatus => phase[idempotencyKey] # "absent"
  /\ \A t \in Tasks : Listed(t) => phase[t] # "absent"
  /\ \A k \in late : Listed(k) \/ k = idempotencyKey
  /\ UnlistedIsRetried

\* Every copy of a status is honest: in the answer to the form, in the page's
\* list, in what is shown and in what each poll is about to show.
HonestInv ==
  /\ post \in TaskStatus => Honest(post, idempotencyKey)
  /\ \A t \in Tasks : Honest(listed[t], t) /\ Honest(shown[t], t)
  /\ \A p \in Polls : \A t \in DOMAIN polls[p] : Honest(polls[p][t].status, t)

DashboardInv == TypeOK /\ ShapeInv /\ KeyInv /\ HonestInv

USE DEF TERMINAL_STATUSES, TaskStatus

-----------------------------------------------------------------------------
\* The page opens with nothing listed and a fresh key.
LEMMA DashboardInit == Init => DashboardInv
<1> SUFFICES ASSUME Init PROVE DashboardInv
  OBVIOUS
<1>1. idempotencyKey \in Tasks
  BY DashboardAssumption DEF Init
<1>2. \A p \in Polls : DOMAIN polls[p] = {}
  BY DEF Init
<1>3. TypeOK
  BY <1>1, <1>2, DashboardAssumption DEF Init, TypeOK, Listed
<1>4. ShapeInv
  BY <1>2 DEF Init, LInit, ShapeInv, Phases
<1>5. KeyInv
  BY <1>1 DEF Init, LInit, KeyInv, Listed, UnlistedIsRetried
<1>6. HonestInv
  BY <1>2 DEF Init, LInit, HonestInv, Honest
<1> QED
  BY <1>3, <1>4, <1>5, <1>6 DEF DashboardInv

\* The pipeline neither creates nor forgets tasks, and outcomes are final.
LEMMA ServerMoves ==
  ASSUME phase \in [Tasks -> Phases], ServerStep
  PROVE  /\ phase' \in [Tasks -> Phases]
         /\ \A t \in Tasks : /\ phase[t] = "absent" <=> phase'[t] = "absent"
                             /\ phase[t] \in TERMINAL_STATUSES => phase'[t] = phase[t]
<1>1. \/ UNCHANGED phase
      \/ \E u, s : /\ phase[u] \in {"waiting", "running"}
                   /\ s \in {"waiting", "running", "done", "dead"}
                   /\ phase' = [phase EXCEPT ![u] = s]
  <2>1. CASE \E t \in Tasks : Preempt(t)
    BY <2>1 DEF Preempt, Become
  <2>2. CASE \E w \in Workers, t \in Tasks : count[t] < MaxCount /\ Begin(w, t)
    BY <2>2 DEF Begin, Become
  <2>3. ASSUME NEW x \in runs, Conclude(x) \/ Vanish(x)
        PROVE  \/ UNCHANGED phase
               \/ \E u, s : /\ phase[u] \in {"waiting", "running"}
                            /\ s \in {"waiting", "running", "done", "dead"}
                            /\ phase' = [phase EXCEPT ![u] = s]
    BY <2>3 DEF Conclude, Vanish, Current, Become
  <2> QED
    BY <2>1, <2>2, <2>3 DEF ServerStep
<1> QED
  BY <1>1 DEF Phases

\* CreateTask creates the task of the key it is given, or nothing.
LEMMA CreateMoves ==
  ASSUME phase \in [Tasks -> Phases], NEW k \in Tasks, CreateOrFind(k)
  PROVE  /\ phase' \in [Tasks -> Phases] /\ phase'[k] # "absent"
         /\ \A t \in Tasks : /\ phase[t] # "absent" => phase'[t] = phase[t]
                             /\ t # k => phase'[t] = phase[t]
  BY DEF CreateOrFind, Submit, Become, lifecycleVars, Phases

\* A step of the API behind an unchanged page, which at most creates the task of
\* a key that is listed or the form's, keeps the invariant of the page.
LEMMA BehindThePage ==
  ASSUME DashboardInv, UNCHANGED <<idempotencyKey, pageVars, polls, errors>>,
         late' \subseteq late, post' = post,
         phase' \in [Tasks -> Phases],
         \A t \in Tasks : /\ phase[t] # "absent" => phase'[t] # "absent"
                          /\ phase[t] \in TERMINAL_STATUSES => phase'[t] = phase[t]
                          /\ phase'[t] # "absent" =>
                               phase[t] # "absent" \/ Listed(t) \/ t = idempotencyKey
  PROVE  DashboardInv'
<1> USE DEF DashboardInv, pageVars
<1>1. TypeOK'
  BY DEF TypeOK, Listed
<1>2. ShapeInv'
  BY DEF ShapeInv
<1>3. KeyInv'
  BY DEF KeyInv, Listed, UnlistedIsRetried
<1>4. HonestInv'
  <2>1. \A t \in Tasks, s \in TaskStatus \cup {"absent"} : Honest(s, t) => Honest(s, t)'
    BY DEF Honest
  <2>2. post \in TaskStatus => idempotencyKey \in Tasks
    BY DEF KeyInv
  <2>3. \A p \in Polls : \A t \in DOMAIN polls[p] : t \in Tasks /\ polls[p][t].status \in TaskStatus
    BY DEF TypeOK, ShapeInv
  <2> QED
    BY <2>1, <2>2, <2>3 DEF HonestInv, TypeOK
<1> QED
  BY <1>1, <1>2, <1>3, <1>4

-----------------------------------------------------------------------------
(* The form. *)

\* The steps that send a request or give it up leave tasks and page alone.
LEMMA FormSteps ==
  ASSUME DashboardInv, handleSubmit \/ CreateRefused \/ GiveUp \/ AnswerLost
  PROVE  DashboardInv'
<1> USE DEF DashboardInv
<1>1. /\ UNCHANGED <<lifecycleVars, idempotencyKey, pageVars, polls>>
      /\ post' \in {"idle", "sent"} /\ (post' = "sent" => idempotencyKey # NoKey)
  BY DEF handleSubmit, CreateRefused, GiveUp, AnswerLost
<1>2. \A k \in late' : k \in late \/ (k = idempotencyKey /\ post = "sent")
  BY DEF handleSubmit, CreateRefused, GiveUp, AnswerLost
<1>3. errors' \in 0..MaxErrors
  BY DashboardAssumption DEF handleSubmit, CreateRefused, GiveUp, AnswerLost, GoesWrong, TypeOK
<1>4. late' \subseteq Tasks
  BY <1>2 DEF TypeOK, KeyInv
<1>5. TypeOK'
  BY <1>1, <1>3, <1>4 DEF TypeOK, Listed, pageVars
<1>6. ShapeInv'
  BY <1>1 DEF ShapeInv, lifecycleVars
<1>7. KeyInv'
  BY <1>1, <1>2 DEF KeyInv, TypeOK, Listed, UnlistedIsRetried, lifecycleVars, pageVars
<1>8. HonestInv'
  BY <1>1 DEF HonestInv, Honest, lifecycleVars, pageVars
<1> QED
  BY <1>5, <1>6, <1>7, <1>8

\* The API executes the form's request.
LEMMA CreateTaskStep ==
  ASSUME DashboardInv, CreateTask
  PROVE  DashboardInv'
<1> USE DEF DashboardInv
<1>1. /\ post = "sent" /\ CreateOrFind(idempotencyKey) /\ post' = phase'[idempotencyKey]
      /\ UNCHANGED <<idempotencyKey, late, pageVars, polls, errors>>
  BY DEF CreateTask
<1>2. idempotencyKey \in Tasks
  BY <1>1 DEF KeyInv
<1>3. /\ phase' \in [Tasks -> Phases] /\ phase'[idempotencyKey] # "absent"
      /\ \A t \in Tasks : /\ phase[t] # "absent" => phase'[t] = phase[t]
                          /\ t # idempotencyKey => phase'[t] = phase[t]
  BY <1>1, <1>2, CreateMoves DEF ShapeInv
<1>4. post' \in TaskStatus
  BY <1>1, <1>2, <1>3 DEF Phases
<1>5. TypeOK'
  BY <1>1, <1>4 DEF TypeOK, Listed, pageVars
<1>6. ShapeInv'
  BY <1>1, <1>3 DEF ShapeInv
<1>7. KeyInv'
  BY <1>1, <1>2, <1>3 DEF KeyInv, Listed, UnlistedIsRetried, pageVars
<1>8. HonestInv'
  <2>1. \A t \in Tasks, s \in TaskStatus \cup {"absent"} : Honest(s, t) => Honest(s, t)'
    BY <1>3 DEF Honest
  <2>2. \A p \in Polls : \A t \in DOMAIN polls[p] : t \in Tasks /\ polls[p][t].status \in TaskStatus
    BY DEF TypeOK, ShapeInv
  <2>3. \A t \in Tasks : listed[t] \in TaskStatus \cup {"absent"} /\ shown[t] \in TaskStatus \cup {"absent"}
    BY DEF TypeOK
  <2>4. Honest(post, idempotencyKey)'
    BY <1>1 DEF Honest
  <2>5. \A t \in Tasks : Honest(listed[t], t)' /\ Honest(shown[t], t)'
    BY <1>1, <2>1, <2>3 DEF HonestInv, pageVars
  <2>6. \A p \in Polls : \A t \in DOMAIN polls'[p] : Honest(polls[p][t].status, t)'
    BY <1>1, <2>1, <2>2 DEF HonestInv
  <2> QED
    BY <2>4, <2>5, <2>6 DEF HonestInv
<1> QED
  BY <1>5, <1>6, <1>7, <1>8

\* A given-up request arrives.
LEMMA LateArrivesStep ==
  ASSUME DashboardInv, LateArrives
  PROVE  DashboardInv'
<1>1. PICK k \in late : CreateOrFind(k) /\ late' = late \ {k}
  BY DEF LateArrives
<1>2. UNCHANGED <<idempotencyKey, post, pageVars, polls, errors>>
  BY DEF LateArrives
<1>3. k \in Tasks /\ (Listed(k) \/ k = idempotencyKey)
  BY DEF DashboardInv, TypeOK, KeyInv
<1>4. /\ phase' \in [Tasks -> Phases]
      /\ \A t \in Tasks : /\ phase[t] # "absent" => phase'[t] = phase[t]
                          /\ t # k => phase'[t] = phase[t]
  BY <1>1, <1>3, CreateMoves DEF DashboardInv, ShapeInv
<1> QED
  BY <1>1, <1>2, <1>3, <1>4, BehindThePage

\* What crypto.randomUUID() returns is a key, or none is left.
LEMMA FreshKeysAreKeys ==
  ASSUME NEW k \in FreshKeys
  PROVE  k \in Tasks \cup {NoKey}
  BY DEF FreshKeys

\* The answer reaches the page: list, reset of what is shown, fresh key.
LEMMA HandleTaskCreatedStep ==
  ASSUME DashboardInv, handleTaskCreated
  PROVE  DashboardInv'
<1> USE DEF DashboardInv
<1>1. /\ post \in TaskStatus /\ post' = "idle" /\ idempotencyKey' \in FreshKeys
      /\ listed' = [listed EXCEPT ![idempotencyKey] = post] /\ shown' = listed'
      /\ UNCHANGED <<lifecycleVars, late, polls, errors>>
  BY DEF handleTaskCreated
<1>2. idempotencyKey \in Tasks /\ phase[idempotencyKey] # "absent"
  BY <1>1 DEF KeyInv
<1>3. \A t \in Tasks : Listed(t)' <=> Listed(t) \/ t = idempotencyKey
  BY <1>1, <1>2 DEF Listed, TypeOK
<1>4. TypeOK'
  <2>1. listed' \in [Tasks -> TaskStatus \cup {"absent"}]
    BY <1>1 DEF TypeOK
  <2>2. \A p \in Polls : \A t \in DOMAIN polls'[p] :
          Listed(t)' /\ polls'[p][t] \in [settled : BOOLEAN, status : TaskStatus]
    BY <1>1, <1>3 DEF TypeOK, ShapeInv
  <2>3. idempotencyKey' \in Tasks \cup {NoKey}
    BY <1>1, FreshKeysAreKeys
  <2> QED
    BY <1>1, <2>1, <2>2, <2>3 DEF TypeOK, Listed
<1>5. ShapeInv'
  BY <1>1 DEF ShapeInv, lifecycleVars
<1>6. KeyInv'
  BY <1>1, <1>2, <1>3 DEF KeyInv, TypeOK, UnlistedIsRetried, lifecycleVars
<1>7. HonestInv'
  <2>1. \A t \in Tasks : Honest(listed[t], t)'
    BY <1>1 DEF HonestInv, Honest, TypeOK, lifecycleVars
  <2> QED
    BY <1>1, <2>1 DEF HonestInv, Honest, lifecycleVars
<1> QED
  BY <1>4, <1>5, <1>6, <1>7

-----------------------------------------------------------------------------
(* The task list. *)

\* A step of poll p that leaves everything else alone and keeps p's tasks known
\* and its statuses honest.
LEMMA PollOnly ==
  ASSUME DashboardInv, NEW p \in Polls, NEW answers,
         UNCHANGED <<lifecycleVars, formVars, pageVars>>, errors' \in 0..MaxErrors,
         polls' = [polls EXCEPT ![p] = answers],
         \A t \in DOMAIN answers :
           /\ t \in Tasks /\ Listed(t)
           /\ answers[t] \in [settled : BOOLEAN, status : TaskStatus]
           /\ Honest(answers[t].status, t)
  PROVE  DashboardInv'
<1> USE DEF DashboardInv, pageVars, formVars, lifecycleVars
<1>1. DOMAIN polls' = Polls /\ \A q \in Polls : polls'[q] = IF q = p THEN answers ELSE polls[q]
  BY DEF ShapeInv
<1>2. TypeOK'
  <2>1. \A q \in Polls : \A t \in DOMAIN polls'[q] :
          Listed(t)' /\ polls'[q][t] \in [settled : BOOLEAN, status : TaskStatus]
    BY <1>1 DEF TypeOK, Listed
  <2> QED
    BY <2>1 DEF TypeOK, Listed
<1>3. ShapeInv'
  BY <1>1 DEF ShapeInv
<1>4. KeyInv'
  BY DEF KeyInv, Listed, UnlistedIsRetried
<1>5. HonestInv'
  BY <1>1 DEF HonestInv, Honest
<1> QED
  BY <1>2, <1>3, <1>4, <1>5

\* The interval fires: what it would keep is what is shown.
LEMMA FirePollStep ==
  ASSUME DashboardInv, NEW p \in Polls, FirePoll(p)
  PROVE  DashboardInv'
<1> DEFINE asked == [t \in activeTasks |-> [settled |-> FALSE, status |-> shown[t]]]
<1>1. polls' = [polls EXCEPT ![p] = asked] /\ UNCHANGED <<lifecycleVars, formVars, pageVars, errors>>
  BY DEF FirePoll
<1>2. ASSUME NEW t \in activeTasks
      PROVE  /\ t \in Tasks /\ Listed(t) /\ shown[t] \in TaskStatus /\ Honest(shown[t], t)
  BY DEF activeTasks, DashboardInv, TypeOK, HonestInv
<1>3. \A t \in DOMAIN asked :
        /\ t \in Tasks /\ Listed(t)
        /\ asked[t] \in [settled : BOOLEAN, status : TaskStatus]
        /\ Honest(asked[t].status, t)
  BY <1>2
<1>4. errors' \in 0..MaxErrors
  BY <1>1 DEF DashboardInv, TypeOK
<1> HIDE DEF asked
<1> QED
  BY <1>1, <1>3, <1>4, PollOnly

\* .catch(() => t) keeps the status of the task.
LEMMA SettledRecord ==
  ASSUME NEW x \in [settled : BOOLEAN, status : TaskStatus]
  PROVE  /\ [x EXCEPT !.settled = TRUE] \in [settled : BOOLEAN, status : TaskStatus]
         /\ [x EXCEPT !.settled = TRUE].status = x.status
  OBVIOUS

\* A request of a poll is settled with what the API read or with what was kept.
LEMMA SettleStep ==
  ASSUME DashboardInv, NEW p \in Polls, GetTask(p) \/ GetTaskFails(p)
  PROVE  DashboardInv'
<1>1. PICK t \in Asked(p) :
        \/ polls' = [polls EXCEPT ![p][t] = [settled |-> TRUE, status |-> GetTaskByID(t)]]
        \/ polls' = [polls EXCEPT ![p][t].settled = TRUE]
  BY DEF GetTask, GetTaskFails
<1>2. UNCHANGED <<lifecycleVars, formVars, pageVars>> /\ errors' \in 0..MaxErrors
  BY DashboardAssumption DEF GetTask, GetTaskFails, GoesWrong, DashboardInv, TypeOK
<1>3. /\ DOMAIN polls = Polls /\ t \in DOMAIN polls[p] /\ DOMAIN polls[p] \subseteq Tasks
      /\ \A u \in DOMAIN polls[p] :
           /\ Listed(u) /\ polls[p][u] \in [settled : BOOLEAN, status : TaskStatus]
           /\ Honest(polls[p][u].status, u)
  BY DEF Asked, DashboardInv, ShapeInv, TypeOK, HonestInv
<1>4. phase[t] \in TaskStatus /\ Honest(phase[t], t)
  BY <1>3 DEF DashboardInv, ShapeInv, KeyInv, Phases, Honest
<1>5. PICK x \in [settled : BOOLEAN, status : TaskStatus] :
        /\ Honest(x.status, t)
        /\ polls' = [polls EXCEPT ![p] = [polls[p] EXCEPT ![t] = x]]
  <2>1. CASE polls' = [polls EXCEPT ![p][t] = [settled |-> TRUE, status |-> GetTaskByID(t)]]
    BY <1>4, <2>1 DEF GetTaskByID
  <2>2. CASE polls' = [polls EXCEPT ![p][t].settled = TRUE]
    <3> DEFINE x == [polls[p][t] EXCEPT !.settled = TRUE]
    <3>1. polls' = [polls EXCEPT ![p] = [polls[p] EXCEPT ![t] = x]]
      BY <2>2
    <3>2. x \in [settled : BOOLEAN, status : TaskStatus] /\ x.status = polls[p][t].status
      BY <1>3, SettledRecord
    <3>3. Honest(polls[p][t].status, t)
      BY <1>3
    <3> HIDE DEF x
    <3> QED
      BY <3>1, <3>2, <3>3
  <2> QED
    BY <1>1, <2>1, <2>2
<1> DEFINE answers == [polls[p] EXCEPT ![t] = x]
<1>6. DOMAIN answers = DOMAIN polls[p]
  OBVIOUS
<1>7. \A u \in DOMAIN answers :
        answers[u] = IF u = t THEN x ELSE polls[p][u]
  OBVIOUS
<1> HIDE DEF answers
<1>8. \A u \in DOMAIN answers :
        /\ u \in Tasks /\ Listed(u)
        /\ answers[u] \in [settled : BOOLEAN, status : TaskStatus]
        /\ Honest(answers[u].status, u)
  <2> SUFFICES ASSUME NEW u \in DOMAIN polls[p]
               PROVE  /\ u \in Tasks /\ Listed(u)
                      /\ answers[u] \in [settled : BOOLEAN, status : TaskStatus]
                      /\ Honest(answers[u].status, u)
    BY <1>6
  <2>1. CASE u = t
    <3>1. answers[u] = x
      BY <1>6, <1>7, <2>1
    <3> QED
      BY <1>3, <1>5, <2>1, <3>1
  <2>2. CASE u # t
    BY <1>3, <1>6, <1>7, <2>2
  <2> QED
    BY <2>1, <2>2
<1>9. polls' = [polls EXCEPT ![p] = answers]
  BY <1>5 DEF answers
<1> QED
  BY <1>2, <1>8, <1>9, PollOnly

\* The answers of a poll are shown, however late.
LEMMA ApplyPollStep ==
  ASSUME DashboardInv, NEW p \in Polls, ApplyPoll(p)
  PROVE  DashboardInv'
<1> USE DEF DashboardInv
<1>1. /\ shown' = [t \in Tasks |-> IF t \in DOMAIN polls[p] THEN polls[p][t].status ELSE shown[t]]
      /\ polls' = [polls EXCEPT ![p] = <<>>]
      /\ UNCHANGED <<lifecycleVars, formVars, listed, errors>>
  BY DEF ApplyPoll
<1>2. /\ DOMAIN polls' = Polls
      /\ \A q \in Polls : polls'[q] = IF q = p THEN <<>> ELSE polls[q]
  BY <1>1 DEF ShapeInv
<1>3. DOMAIN <<>> = {}
  OBVIOUS
<1>4. \A t \in DOMAIN polls[p] : /\ Listed(t) /\ polls[p][t].status \in TaskStatus
                                 /\ Honest(polls[p][t].status, t)
  BY DEF TypeOK, HonestInv
<1>5. TypeOK'
  <2>1. /\ shown' \in [Tasks -> TaskStatus \cup {"absent"}]
        /\ \A t \in Tasks : Listed(t)' <=> shown'[t] # "absent"
    BY <1>1, <1>4 DEF TypeOK, Listed
  <2>2. \A q \in Polls : \A t \in DOMAIN polls'[q] :
          Listed(t)' /\ polls'[q][t] \in [settled : BOOLEAN, status : TaskStatus]
    BY <1>1, <1>2, <1>3 DEF TypeOK, Listed
  <2> QED
    BY <1>1, <2>1, <2>2 DEF TypeOK, formVars, Listed
<1>6. ShapeInv'
  BY <1>1, <1>2, <1>3 DEF ShapeInv, lifecycleVars
<1>7. KeyInv'
  BY <1>1 DEF KeyInv, Listed, UnlistedIsRetried, lifecycleVars, formVars
<1>8. HonestInv'
  <2>1. \A t \in Tasks : Honest(shown[t], t)'
    BY <1>1, <1>4 DEF HonestInv, Honest, lifecycleVars
  <2>2. \A q \in Polls : \A t \in DOMAIN polls'[q] : Honest(polls[q][t].status, t)'
    BY <1>1, <1>2, <1>3 DEF HonestInv, Honest, lifecycleVars
  <2> QED
    BY <1>1, <2>1, <2>2 DEF HonestInv, Honest, lifecycleVars, formVars
<1> QED
  BY <1>5, <1>6, <1>7, <1>8

-----------------------------------------------------------------------------
\* Every step of the page, of its requests and of the task system preserves it.
LEMMA DashboardNext == DashboardInv /\ [Next]_vars => DashboardInv'
<1> SUFFICES ASSUME DashboardInv, [Next]_vars PROVE DashboardInv'
  OBVIOUS
<1>1. CASE ServerStep
  <2>1. phase \in [Tasks -> Phases]
    BY DEF DashboardInv, ShapeInv
  <2>2. UNCHANGED <<formVars, pageVars, polls, errors>>
    BY <1>1 DEF ServerStep
  <2> QED
    BY <1>1, <2>1, <2>2, ServerMoves, BehindThePage DEF formVars
<1>2. CASE UNCHANGED vars
  BY <1>2, BehindThePage DEF vars, lifecycleVars, formVars, DashboardInv, ShapeInv
<1> QED
  BY <1>1, <1>2, FormSteps, CreateTaskStep, LateArrivesStep, HandleTaskCreatedStep,
     FirePollStep, SettleStep, ApplyPollStep
  DEF Next, PollStep

\* So it holds as long as the page is open.
LEMMA DashboardInvariant == Spec => []DashboardInv
  BY DashboardInit, DashboardNext, PTL DEF Spec

\* The page is well typed: TaskList shows exactly the page's tasks, and no poll,
\* however late, speaks of another.
THEOREM DashboardTypeCorrect == Spec => []TypeOK
<1>1. DashboardInv => TypeOK
  BY DEF DashboardInv
<1> QED
  BY <1>1, DashboardInvariant, PTL

\* CreateTaskForm.tsx: the key is renewed only after a success, so whatever
\* requests are lost, late or repeated, the one task the API may have created
\* unseen is the one a retry will find.
THEOREM RetriesFindTheirTask == Spec => []UnlistedIsRetried
<1>1. DashboardInv => UnlistedIsRetried
  BY DEF DashboardInv, KeyInv
<1> QED
  BY <1>1, DashboardInvariant, PTL

\* TaskList.tsx: neither overlapping polls applied out of order nor failed ones
\* nor the reset to the page's list show an outcome the task has not got.
THEOREM OutcomesShownAreTrue == Spec => []TerminalShownIsTrue
<1>1. DashboardInv => TerminalShownIsTrue
  BY DEF DashboardInv, HonestInv, Honest, TerminalShownIsTrue
<1> QED
  BY <1>1, DashboardInvariant, PTL

=============================================================================
