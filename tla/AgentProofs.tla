---------------------------- MODULE AgentProofs ----------------------------
(***************************************************************************)
(* One run of the agent, for every number of steps and retries and every   *)
(* delay Gemini may ask for: its loops keep within their bounds, and the   *)
(* evidence it leaves is no older than what its readers count on.          *)
(***************************************************************************)
EXTENDS Agent, TLAPS

-----------------------------------------------------------------------------
(* Arithmetic of the bounds. *)

\* The delay between two requests is a number of seconds and at most 45.
LEMMA WaitSecBound ==
  ASSUME NEW h \in Hints, i \in Nat
  PROVE  WaitSec(h) \in Nat /\ WaitSec(h) <= 45
<1> DEFINE d == IF h = NoHint THEN 15 * (i + 1) ELSE h
<1>1. d \in Nat
  BY AgentAssumption
<1> HIDE DEF d
<1>2. \E x \in {d, 45} : \A y \in {d, 45} : x <= y
  BY <1>1
<1>3. /\ Min({d, 45}) \in {d, 45}
      /\ \A y \in {d, 45} : Min({d, 45}) <= y
  BY <1>2 DEF Min
<1>4. WaitSec(h) = Min({d, 45})
  BY DEF WaitSec, d
<1> QED
  BY <1>1, <1>3, <1>4

\* One more round of an inner loop of k rounds, and the rounds that are left.
LEMMA Rounds ==
  ASSUME NEW a \in Nat, NEW k \in Nat, NEW n \in Nat, a <= n
  PROVE  /\ a * k \in Nat /\ n * k \in Nat
         /\ (a + 1) * k = a * k + k
         /\ a * k <= n * k
  BY SMT

-----------------------------------------------------------------------------
(* Types. *)

\* The first state of a run is well typed.
LEMMA TypeInit == Init => TypeOK
  BY AgentAssumption DEF Init, TypeOK, Frame, NoFrame, Torn, Earlier

\* No branch of the agent takes a loop counter past its bound.
LEMMA TypeStep == TypeOK /\ [Next]_vars => TypeOK'
<1> SUFFICES ASSUME TypeOK, [Next]_vars PROVE TypeOK'
  OBVIOUS
<1> USE AgentAssumption DEF TypeOK, loopVars, frameVars, Frame, NoFrame, Torn, Earlier, Goto, Return
<1>1. CASE Unusable \/ Usable \/ LaunchFails \/ Launch \/ Open \/ NoWall
  BY <1>1 DEF Unusable, Usable, LaunchFails, Launch, Open, NoWall, Throw
<1>2. CASE Wall \/ NeverJson \/ Done \/ OutOfSteps
  BY <1>2 DEF Wall, NeverJson, Done, OutOfSteps, SaveEvidence
<1>3. CASE Shoot \/ TruncateLatest \/ SaveLatest
  BY <1>3 DEF Shoot, TruncateLatest, SaveLatest, Throw
<1>4. CASE Overloaded
  <2>1. PICK h \in Hints : waited' = waited + WaitSec(h)
    BY <1>4 DEF Overloaded
  <2>2. waited' \in Nat
    BY <2>1, WaitSecBound
  <2> QED
    BY <1>4, <2>2 DEF Overloaded
<1>5. CASE AskFails \/ NotJson \/ Chosen \/ Act
  BY <1>5 DEF AskFails, NotJson, Chosen, Act, Throw
<1>6. CASE NextStep
  BY <1>6 DEF NextStep
<1>7. CASE Caught
  BY <1>7 DEF Caught, SaveEvidence
<1>8. CASE Close \/ GetTaskScreenshot
  BY <1>8 DEF Close, GetTaskScreenshot
<1>9. CASE UNCHANGED vars
  BY <1>9 DEF vars
<1> QED
  BY <1>1, <1>2, <1>3, <1>4, <1>5, <1>6, <1>7, <1>8, <1>9 DEF Next, AgentStep

\* The agent is well typed: step, attempt and i, each with its own first value
\* and its own comparison, never leave their ranges.
THEOREM AgentTypeCorrect == Spec => []TypeOK
  BY TypeInit, TypeStep, PTL DEF Spec

-----------------------------------------------------------------------------
(* The requests and sleeps of a step. *)

\* While a request may still be sent, what has been sent and slept is what the
\* finished rounds of the two loops account for; before the first request it is
\* nothing.
BudgetInv ==
  /\ CallBudget
  /\ pc = "ask" =>
       /\ calls <= (attempt - 1) * (MaxRateLimitRetries + 1) + i
       /\ waited <= ((attempt - 1) * MaxRateLimitRetries + i) * 45
  /\ pc \in {"start", "launch", "open", "wall", "shoot", "store"} =>
       calls = 0 /\ waited = 0 /\ attempt = 1 /\ i = 0

\* Before the first step nothing has been sent.
LEMMA BudgetInit == Init => BudgetInv
<1>1. \A m, n \in Nat : 0 <= (m + 1) * (n + 1) /\ 0 <= (m + 1) * n * 45
  BY SMT
<1> QED
  BY <1>1, AgentAssumption DEF Init, BudgetInv, CallBudget

\* Every request and every sleep is accounted for by a round of the two loops.
LEMMA BudgetStep == TypeOK /\ BudgetInv /\ [Next]_vars => BudgetInv'
<1> SUFFICES ASSUME TypeOK, BudgetInv, [Next]_vars PROVE BudgetInv'
  OBVIOUS
<1> DEFINE R == MaxRateLimitRetries  P == MaxParseRetries  a == attempt - 1
<1>a. /\ R \in Nat /\ P \in Nat /\ a \in Nat /\ i \in Nat /\ calls \in Nat /\ waited \in Nat
      /\ a <= P /\ i <= R /\ attempt = a + 1
  BY AgentAssumption DEF TypeOK
<1>b. /\ a * (R + 1) \in Nat /\ a * (R + 1) + R + 1 <= (P + 1) * (R + 1)
      /\ a * R \in Nat /\ a * R + R <= (P + 1) * R
      /\ (a + 1) * (R + 1) = a * (R + 1) + R + 1
      /\ (a + 1) * R = a * R + R
      /\ P * (R + 1) \in Nat /\ (P + 1) * R \in Nat
  BY <1>a, Rounds
<1> USE DEF loopVars, frameVars, Goto, Return, Throw
<1>1. ASSUME UNCHANGED loopVars,
             pc' \in {"start", "launch", "open", "wall", "shoot", "store"}
               => pc \in {"start", "launch", "open", "wall", "shoot", "store"},
             pc' = "ask" => pc \in {"ask", "store"}
      PROVE  BudgetInv'
  BY <1>1, <1>a, <1>b DEF BudgetInv, CallBudget
<1>2. CASE \/ Unusable \/ Usable \/ LaunchFails \/ Launch \/ Open \/ NoWall \/ Wall
           \/ Shoot \/ TruncateLatest \/ SaveLatest \/ Act \/ OutOfSteps \/ Caught \/ Close
           \/ GetTaskScreenshot \/ UNCHANGED vars
  BY <1>1, <1>2 DEF Unusable, Usable, LaunchFails, Launch, Open, NoWall, Wall, Shoot,
                    TruncateLatest, SaveLatest, Act, OutOfSteps, Caught, Close,
                    GetTaskScreenshot, vars
<1>3. CASE Overloaded
  <2>1. PICK h \in Hints : waited' = waited + WaitSec(h)
    BY <1>3 DEF Overloaded
  <2>2. pc' = "ask" /\ pc = "ask" /\ attempt' = attempt /\ i' = i + 1 /\ calls' = calls + 1 /\ i + 1 <= R
    BY <1>3, <1>a DEF Overloaded
  <2>3. calls' <= a * (R + 1) + i'
    BY <2>2, <1>a, <1>b DEF BudgetInv
  <2>4. waited' \in Nat /\ waited' <= (a * R + i') * 45
    <3>1. waited <= (a * R + i) * 45
      BY <2>2 DEF BudgetInv
    <3>2. WaitSec(h) \in Nat /\ WaitSec(h) <= 45
      BY <1>a, WaitSecBound
    <3> QED
      BY <2>1, <2>2, <3>1, <3>2, <1>a, <1>b
  <2>5. CallBudget'
    BY <2>2, <2>3, <2>4, <1>a, <1>b DEF CallBudget
  <2> QED
    BY <2>2, <2>3, <2>4, <2>5 DEF BudgetInv
<1>4. ASSUME pc = "ask", calls' = calls + 1, waited' = waited,
             pc' \in {"caught", "close", "act"}
      PROVE  BudgetInv'
  <2>1. calls' <= (P + 1) * (R + 1)
    BY <1>4, <1>a, <1>b DEF BudgetInv
  <2> QED
    BY <1>4, <2>1 DEF BudgetInv, CallBudget
<1>5. CASE AskFails \/ NeverJson \/ Done \/ Chosen
  BY <1>4, <1>5 DEF AskFails, NeverJson, Done, Chosen
<1>6. CASE NotJson
  <2>1. /\ pc = "ask" /\ pc' = "ask" /\ attempt' = attempt + 1 /\ i' = 0
        /\ calls' = calls + 1 /\ waited' = waited /\ attempt <= P
    BY <1>6 DEF NotJson
  <2>2. calls' <= (a + 1) * (R + 1) + i'
    BY <2>1, <1>a, <1>b DEF BudgetInv
  <2>3. waited' <= ((a + 1) * R + i') * 45
    BY <2>1, <1>a, <1>b DEF BudgetInv
  <2>4. attempt' - 1 = a + 1
    BY <2>1, <1>a
  <2>5. CallBudget'
    <3>1. calls' <= (P + 1) * (R + 1)
      BY <2>1, <1>a, <1>b DEF BudgetInv
    <3> QED
      BY <2>1, <3>1 DEF BudgetInv, CallBudget
  <2> QED
    BY <2>1, <2>2, <2>3, <2>4, <2>5 DEF BudgetInv
<1>7. CASE NextStep
  <2>1. pc' = "wall" /\ attempt' = 1 /\ i' = 0 /\ calls' = 0 /\ waited' = 0
    BY <1>7 DEF NextStep
  <2>2. CallBudget'
    BY <2>1, <1>a, <1>b DEF CallBudget
  <2> QED
    BY <2>1, <2>2 DEF BudgetInv
<1> QED
  BY <1>2, <1>3, <1>5, <1>6, <1>7 DEF Next, AgentStep

\* universal.js, askGeminiForAction around generateWithBackoff: a step never
\* sends more requests, nor sleeps longer, than its bounds multiply to.
THEOREM CallsAreBounded == Spec => []CallBudget
<1>1. Init => TypeOK /\ BudgetInv
  BY TypeInit, BudgetInit
<1>2. (TypeOK /\ BudgetInv) /\ [Next]_vars => (TypeOK /\ BudgetInv)'
  BY TypeStep, BudgetStep
<1>3. BudgetInv => CallBudget
  BY DEF BudgetInv
<1> QED
  BY <1>1, <1>2, <1>3, PTL DEF Spec

-----------------------------------------------------------------------------
(* The frames. *)

\* What the agent remembers is what it last saw: the page as it is between the
\* screenshot and the action, one action behind otherwise.  The file users watch
\* never gets ahead of it, and evidence is only there once the run is over.
FrameInv ==
  /\ lastBuffer <= acts /\ acts - lastBuffer <= 1
  /\ pc \in {"store", "ask", "act"} => lastBuffer = acts
  /\ latest <= lastBuffer \/ latest = Torn
  /\ watched <= lastBuffer
  /\ evidence # NoFrame =>
       /\ pc \in {"close", "returned"}
       /\ lastBuffer <= evidence /\ acts - evidence <= 1

\* There is no frame before the first screenshot.
LEMMA FrameInit == Init => FrameInv
  BY DEF Init, FrameInv, NoFrame, Torn, Earlier

\* No branch acts twice between two screenshots, or stores a frame it does not hold.
LEMMA FrameStep == TypeOK /\ FrameInv /\ [Next]_vars => FrameInv'
<1> SUFFICES ASSUME TypeOK, FrameInv, [Next]_vars PROVE FrameInv'
  OBVIOUS
<1>a. /\ acts \in Nat /\ lastBuffer \in Int /\ evidence \in Int /\ watched \in Int
      /\ latest \in Int /\ NoFrame \in Int
  BY DEF TypeOK, Frame, NoFrame, Torn, Earlier
<1> USE DEF loopVars, frameVars, Goto, Return, Throw
<1>1. CASE Unusable \/ Usable \/ LaunchFails \/ Launch \/ Open \/ NoWall
  BY <1>1 DEF FrameInv, Unusable, Usable, LaunchFails, Launch, Open, NoWall
<1>2. ASSUME NEW buffer \in {acts, lastBuffer}, SaveEvidence(buffer), pc' = "close",
             UNCHANGED <<acts, lastBuffer, latest, watched>>
      PROVE  FrameInv'
  <2>1. evidence' # NoFrame => evidence' = acts \/ evidence' = lastBuffer
    BY <1>2 DEF SaveEvidence
  <2>2. evidence' # NoFrame => lastBuffer <= evidence' /\ acts - evidence' <= 1
    BY <2>1, <1>a DEF FrameInv
  <2> QED
    BY <1>2, <2>2 DEF FrameInv
<1>3. CASE Wall \/ NeverJson \/ OutOfSteps \/ Caught
  BY <1>2, <1>3 DEF Wall, NeverJson, OutOfSteps, Caught
<1>4. CASE Done
  <2>1. CASE SaveEvidence(lastBuffer)
    BY <1>2, <1>4, <2>1 DEF Done
  <2>2. CASE UNCHANGED evidence
    BY <1>4, <2>2 DEF Done, FrameInv
  <2> QED
    BY <1>4, <2>1, <2>2 DEF Done
<1>5. CASE Shoot
  BY <1>5, <1>a DEF Shoot, FrameInv
<1>6. CASE TruncateLatest \/ SaveLatest
  BY <1>6, <1>a DEF TruncateLatest, SaveLatest, FrameInv
<1>7. CASE Overloaded \/ AskFails \/ NotJson \/ Chosen \/ NextStep
  BY <1>7 DEF Overloaded, AskFails, NotJson, Chosen, NextStep, FrameInv
<1>8. CASE Act
  <2>1. lastBuffer = acts /\ evidence = NoFrame
    BY <1>8 DEF Act, FrameInv
  <2>2. lastBuffer <= acts' /\ acts' - lastBuffer <= 1
    BY <1>8, <2>1, <1>a DEF Act
  <2> QED
    BY <1>8, <2>1, <2>2 DEF Act, FrameInv
<1>9. CASE Close
  BY <1>9 DEF Close, FrameInv
<1>10. CASE GetTaskScreenshot
  BY <1>10, <1>a DEF GetTaskScreenshot, FrameInv, Torn
<1>11. CASE UNCHANGED vars
  BY <1>11 DEF vars, FrameInv
<1> QED
  BY <1>1, <1>3, <1>4, <1>5, <1>6, <1>7, <1>8, <1>9, <1>10, <1>11 DEF Next, AgentStep

\* So the frames are related as FrameInv says throughout a run.
LEMMA FrameInvariant == Spec => [](TypeOK /\ FrameInv)
<1>1. Init => TypeOK /\ FrameInv
  BY TypeInit, FrameInit
<1>2. (TypeOK /\ FrameInv) /\ [Next]_vars => (TypeOK /\ FrameInv)'
  BY TypeStep, FrameStep
<1> QED
  BY <1>1, <1>2, PTL DEF Spec

\* universal.js, saveEvidence: whichever branch fails, also the catch block with
\* a dead page, the frame kept is at most one action older than the page.
THEOREM EvidenceIsRecent == Spec => []EvidenceAtMostOneBehind
<1>1. FrameInv => EvidenceAtMostOneBehind
  BY DEF FrameInv, EvidenceAtMostOneBehind
<1> QED
  BY <1>1, FrameInvariant, PTL

\* universal.js, `lastBuffer = screenshotBuffer' before saveLatestScreenshot: the
\* evidence is never older than a frame GetTaskScreenshot has served, also when
\* it is asked again after the run.
THEOREM EvidenceCoversWatched == Spec => []EvidenceCoversWatch
<1>1. TypeOK /\ FrameInv => EvidenceCoversWatch
  BY DEF TypeOK, Frame, NoFrame, FrameInv, EvidenceCoversWatch
<1> QED
  BY <1>1, FrameInvariant, PTL

=============================================================================
