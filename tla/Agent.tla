------------------------------- MODULE Agent -------------------------------
(***************************************************************************)
(* One run of the universal AI agent (worker/src/automations/universal.js) *)
(* in its browser (base.js), with the files it leaves behind and a user    *)
(* who watches (GET /tasks/{id}/screenshot).  The page is abstracted to    *)
(* `acts', the number of actions the agent has performed on it, and a      *)
(* screenshot to the value of acts when it was taken.                      *)
(*                                                                         *)
(*   start -> launch -> open -> wall -> shoot -> store -> ask -> act       *)
(*                               ^                |        |      |        *)
(*                               +----------------+--------+- settle       *)
(*                                                                         *)
(* Every branch ends in close and then in returned.                        *)
(***************************************************************************)
EXTENDS Integers, FiniteSetsExt

CONSTANTS MaxSteps,             \* MAX_STEPS (20)
          MaxParseRetries,      \* MAX_PARSE_RETRIES (2)
          MaxRateLimitRetries,  \* MAX_RATE_LIMIT_RETRIES (5)
          Hints                 \* the "retry in" seconds Gemini may send; NoHint for none

NoHint == -1
NoFrame == -1  \* null, or a file that does not exist
Torn == -2     \* a file that is being written
Earlier == -3  \* a file an earlier attempt at the task has left

ASSUME AgentAssumption ==
  /\ MaxSteps \in Nat \ {0} /\ MaxParseRetries \in Nat /\ MaxRateLimitRetries \in Nat
  /\ Hints \subseteq Nat \cup {NoHint}

VARIABLES pc,
          step,        \* of cancel()
          attempt,     \* of askGeminiForAction()
          i,           \* of generateWithBackoff()
          calls,       \* requests sent to Gemini in this step
          waited,      \* seconds slept between them
          acts,        \* the page
          lastBuffer,
          latest,      \* {id}-latest.png: a frame, NoFrame, Torn or Earlier
          evidence,    \* the file result.evidencePath names
          result,      \* "none", "success", "failure" or "rejected"
          watched      \* the newest frame the user has seen

loopVars == <<step, attempt, i, calls, waited>>
frameVars == <<acts, lastBuffer, latest, evidence>>
vars == <<pc, loopVars, frameVars, result, watched>>

Frame == Nat \cup {NoFrame}

\* The types of all variables; the loop counters stay within their bounds.
TypeOK ==
  /\ pc \in {"start", "launch", "open", "wall", "shoot", "store", "ask", "act", "settle",
             "caught", "close", "returned"}
  /\ step \in 1..MaxSteps /\ attempt \in 1..(MaxParseRetries + 1)
  /\ i \in 0..MaxRateLimitRetries
  /\ calls \in Nat /\ waited \in Nat /\ acts \in Nat
  /\ lastBuffer \in Frame /\ evidence \in Frame /\ watched \in Frame
  /\ latest \in Frame \cup {Torn, Earlier}
  /\ result \in {"none", "success", "failure", "rejected"}

\* The file is named after the task, so that a retry finds the last attempt's,
\* which may have been cut short.
Init ==
  /\ pc = "start"
  /\ step = 1 /\ attempt = 1 /\ i = 0 /\ calls = 0 /\ waited = 0
  /\ acts = 0 /\ lastBuffer = NoFrame /\ evidence = NoFrame
  /\ latest \in {NoFrame, Torn, Earlier}
  /\ result = "none" /\ watched = NoFrame

-----------------------------------------------------------------------------
(* How a branch ends. *)

Goto(l) == pc' = l /\ UNCHANGED result

\* return { success: r = "success" } inside withBrowser: the browser is closed.
Return(r) == pc' = "close" /\ result' = r

\* saveEvidence(id, buffer).catch(() => null): no file without a buffer, and
\* none if the write fails.
SaveEvidence(buffer) == evidence' \in {buffer, NoFrame}

\* An exception inside the try block.
Throw(l) == pc = l /\ Goto("caught")

-----------------------------------------------------------------------------
\* No url, or no API key: failure without a browser.
Unusable ==
  /\ pc = "start" /\ pc' = "returned" /\ result' = "failure"
  /\ UNCHANGED <<loopVars, frameVars, watched>>

Usable ==
  /\ pc = "start" /\ Goto("launch")
  /\ UNCHANGED <<loopVars, frameVars, watched>>

\* chromium.launch() rejects: there is no browser to close.
LaunchFails ==
  /\ pc = "launch" /\ pc' = "returned" /\ result' = "rejected"
  /\ UNCHANGED <<loopVars, frameVars, watched>>

\* newPage() succeeds, or rejects outside the try block.
Launch ==
  /\ pc = "launch"
  /\ Goto("open") \/ Return("rejected")
  /\ UNCHANGED <<loopVars, frameVars, watched>>

\* page.goto(startUrl).
Open ==
  /\ \/ pc = "open" /\ Goto("wall")
     \/ Throw("open")
  /\ UNCHANGED <<loopVars, frameVars, watched>>

NoWall ==
  /\ pc = "wall" /\ Goto("shoot")
  /\ UNCHANGED <<loopVars, frameVars, watched>>

\* A CAPTCHA or 2FA page: evidence from a screenshot of its own, which may fail.
Wall ==
  /\ pc = "wall" /\ Return("failure")
  /\ SaveEvidence(acts)
  /\ UNCHANGED <<loopVars, acts, lastBuffer, latest, watched>>

\* Mutant: only the first buffer is remembered.
ShootKeepsFirst ==
  /\ pc = "shoot" /\ Goto("store")
  /\ lastBuffer' = IF lastBuffer = NoFrame THEN acts ELSE lastBuffer
  /\ UNCHANGED <<loopVars, acts, latest, evidence, watched>>

Shoot ==
  /\ \/ pc = "shoot" /\ Goto("store") /\ lastBuffer' = acts
     \/ Throw("shoot") /\ UNCHANGED lastBuffer
  /\ UNCHANGED <<loopVars, acts, latest, evidence, watched>>

\* fs.writeFile truncates the file ...
TruncateLatest ==
  /\ pc = "store" /\ latest # Torn /\ latest' = Torn
  /\ UNCHANGED <<pc, loopVars, acts, lastBuffer, evidence, result, watched>>

\* ... and fills it; a write that fails is only logged.
SaveLatest ==
  /\ pc = "store" /\ Goto("ask")
  /\ \/ latest = Torn /\ latest' = acts
     \/ UNCHANGED latest
  /\ UNCHANGED <<loopVars, acts, lastBuffer, evidence, watched>>

-----------------------------------------------------------------------------
(* askGeminiForAction, and generateWithBackoff below it. *)

\* min(the delay Gemini asks for ?? 15 s more each time, 45 s).
WaitSec(h) == Min({IF h = NoHint THEN 15 * (i + 1) ELSE h, 45})

\* A transient error with a retry left: sleep and ask again.
Overloaded ==
  /\ pc = "ask" /\ i < MaxRateLimitRetries
  /\ \E h \in Hints : waited' = waited + WaitSec(h)
  /\ i' = i + 1 /\ calls' = calls + 1
  /\ UNCHANGED <<pc, step, attempt, frameVars, result, watched>>

\* Another error, or the last transient one: generateWithBackoff throws.
AskFails ==
  /\ Throw("ask") /\ calls' = calls + 1
  /\ UNCHANGED <<step, attempt, i, waited, frameVars, watched>>

\* Mutant: a reply that is not JSON is asked again without counting.
NotJsonUncounted ==
  /\ pc = "ask"
  /\ calls' = calls + 1 /\ i' = 0
  /\ UNCHANGED <<pc, step, attempt, waited, frameVars, result, watched>>

\* A reply that is not JSON: ask again, with the backoff counter from zero.
NotJson ==
  /\ pc = "ask" /\ attempt <= MaxParseRetries
  /\ attempt' = attempt + 1 /\ i' = 0 /\ calls' = calls + 1
  /\ UNCHANGED <<pc, step, waited, frameVars, result, watched>>

\* The last one was not JSON either.
NeverJson ==
  /\ pc = "ask" /\ attempt > MaxParseRetries /\ calls' = calls + 1
  /\ Return("failure") /\ SaveEvidence(lastBuffer)
  /\ UNCHANGED <<step, attempt, i, waited, acts, lastBuffer, latest, watched>>

\* {"action": "done"}: cancelled, or given up.
Done ==
  /\ pc = "ask" /\ calls' = calls + 1
  /\ \/ Return("success") /\ UNCHANGED evidence
     \/ Return("failure") /\ SaveEvidence(lastBuffer)
  /\ UNCHANGED <<step, attempt, i, waited, acts, lastBuffer, latest, watched>>

\* Any other action.
Chosen ==
  /\ pc = "ask" /\ Goto("act") /\ calls' = calls + 1
  /\ UNCHANGED <<step, attempt, i, waited, frameVars, watched>>

-----------------------------------------------------------------------------
\* The action is performed, skipped (unknown, or no element found), or throws
\* before or after it took effect.
Act ==
  /\ \/ pc = "act" /\ Goto("settle")
     \/ Throw("act")
  /\ acts' \in {acts, acts + 1}
  /\ UNCHANGED <<loopVars, lastBuffer, latest, evidence, watched>>

\* Mutants: <= where < is meant; > where it is =; Gemini asked about the old
\* screenshot.
NextStepInclusive ==
  /\ pc = "settle" /\ step <= MaxSteps /\ Goto("wall")
  /\ step' = step + 1 /\ attempt' = 1 /\ i' = 0 /\ calls' = 0 /\ waited' = 0
  /\ UNCHANGED <<frameVars, watched>>
NextStepNoShot ==
  /\ pc = "settle" /\ step < MaxSteps /\ Goto("ask")
  /\ step' = step + 1 /\ attempt' = 1 /\ i' = 0 /\ calls' = 0 /\ waited' = 0
  /\ UNCHANGED <<frameVars, watched>>
OutOfStepsNever ==
  /\ pc = "settle" /\ step > MaxSteps
  /\ Return("failure") /\ SaveEvidence(lastBuffer)
  /\ UNCHANGED <<loopVars, acts, lastBuffer, latest, watched>>

NextStep ==
  /\ pc = "settle" /\ step < MaxSteps /\ Goto("wall")
  /\ step' = step + 1 /\ attempt' = 1 /\ i' = 0 /\ calls' = 0 /\ waited' = 0
  /\ UNCHANGED <<frameVars, watched>>

\* The for loop ends; the page is not photographed again.
OutOfSteps ==
  /\ pc = "settle" /\ step = MaxSteps
  /\ Return("failure") /\ SaveEvidence(lastBuffer)
  /\ UNCHANGED <<loopVars, acts, lastBuffer, latest, watched>>

\* The catch block: a fresh screenshot, or the last one if the page is dead.
Caught ==
  /\ pc = "caught" /\ Return("failure")
  /\ \E buffer \in {acts, lastBuffer} : SaveEvidence(buffer)
  /\ UNCHANGED <<loopVars, acts, lastBuffer, latest, watched>>

\* The finally block: an exception of browser.close() replaces the result.
Close ==
  /\ pc = "close" /\ pc' = "returned"
  /\ \/ UNCHANGED <<result, evidence>>
     \/ result' = "rejected" /\ evidence' = NoFrame
  /\ UNCHANGED <<loopVars, acts, lastBuffer, latest, watched>>

\* GetTaskScreenshot: 404 without a file; half a file is no picture, and one of
\* an earlier attempt none of this run.
GetTaskScreenshot ==
  /\ latest \in Nat /\ watched' = latest
  /\ UNCHANGED <<pc, loopVars, frameVars, result>>

AgentStep ==
  \/ Unusable \/ Usable \/ LaunchFails \/ Launch \/ Open \/ NoWall \/ Wall
  \/ Shoot \/ TruncateLatest \/ SaveLatest
  \/ Overloaded \/ AskFails \/ NotJson \/ NeverJson \/ Done \/ Chosen
  \/ Act \/ NextStep \/ OutOfSteps \/ Caught \/ Close

Next == AgentStep \/ GetTaskScreenshot

\* Every await is answered.  Only some of Playwright's have a timeout (goto,
\* clicking, filling, screenshots); page.evaluate, mouse, keyboard, browser.close
\* and the request to Gemini have none, so that this is an assumption.
Spec == Init /\ [][Next]_vars /\ WF_vars(AgentStep)

-----------------------------------------------------------------------------
(* Properties. *)

\* The three nested loops of a step (parse retries around rate-limit retries
\* around one request, counted from 1, from 0 and with different comparisons)
\* send a bounded number of requests and sleep a bounded time.
CallBudget ==
  /\ calls <= (MaxParseRetries + 1) * (MaxRateLimitRetries + 1)
  /\ waited <= (MaxParseRetries + 1) * MaxRateLimitRetries * 45

\* Whatever branch a run ends in, the evidence it reports is at most one action
\* older than the page it failed on: lastBuffer is refreshed in every step before
\* the agent acts.  (It can be one action older: the last step's action is never
\* photographed, although saveEvidence is said to keep "the final frame".)
EvidenceAtMostOneBehind == evidence # NoFrame => acts - evidence <= 1

\* The evidence is never older than a frame of this run the user saw: the
\* buffer is remembered before the file is written and before anything can throw.
EvidenceCoversWatch == evidence # NoFrame => evidence >= watched

\* A run ends, if Gemini and the browser answer every request.
RunEnds == <>(pc = "returned")

=============================================================================
