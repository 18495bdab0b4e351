---------------------------- MODULE LeaseProofs ----------------------------
(***************************************************************************)
(* The lease is safe for every choice of intervals and bounds that leaves  *)
(* room for LongestSilence: a live owner's lock is never stale.  And it is *)
(* recovered in time, for every size of a batch and number of failed runs. *)
(***************************************************************************)
EXTENDS Lease, TLAPS

\* The longest time between two heartbeats the timer fires.
Period == HeartbeatInterval + MaxLag

\* What a heartbeat on its way guarantees of the age it will end.
AgeAtSending == (MaxMissed + 1) * Period + MaxDelay

\* How old the lock can be, given what is still to come: an answer to the claim,
\* a heartbeat on its way, or the next one the timer sends.
SilenceInv ==
  /\ missed <= MaxMissed
  /\ \A b \in sent : phase # "free" => b <= MaxDelay
  /\ phase = "free" => age = 0 /\ wait = 0 /\ missed = 0
  /\ phase = "claiming" => age <= wait /\ wait <= MaxDelay /\ missed = 0
  /\ phase = "running" => timer <= Period
  /\ phase = "saving" => timer <= Period + wait /\ wait <= MaxDelay
  /\ phase \in {"running", "saving"} =>
       IF sent = {} THEN age <= timer + missed * Period + MaxDelay
                    ELSE \E b \in sent : age <= b + AgeAtSending


\* Products with a non-negative factor are monotone.
LEMMA MissedProduct ==
  ASSUME NEW m \in Nat, NEW n \in Nat, NEW p \in Nat, m <= n
  PROVE  m * p <= n * p /\ (m + 1) * p = m * p + p
  BY SMT

\* The derived durations are numbers of seconds.
LEMMA PeriodType == Period \in Nat /\ AgeAtSending \in Nat
  BY LeaseAssumption, SMT DEF Period, AgeAtSending

\* The first state is well typed.
LEMMA TypeInit == Init => TypeOK
<1> SUFFICES ASSUME Init PROVE TypeOK
  OBVIOUS
<1>1. mine \in BOOLEAN
  BY Zenon DEF Init
<1> QED BY <1>1, LeaseAssumption DEF Init, TypeOK

\* The ticker stays below its interval.
LEMMA NextTickType ==
  ASSUME ticker \in 0..(RequeueInterval - 1)
  PROVE  NextTick \in 0..(RequeueInterval - 1)
  BY LeaseAssumption DEF NextTick

\* Every step preserves the types.
LEMMA TypeStep == TypeOK /\ [Next]_vars => TypeOK'
<1> SUFFICES ASSUME TypeOK, [Next]_vars PROVE TypeOK'
  OBVIOUS
<1> USE LeaseAssumption DEF TypeOK, ownerVars, rqVars, batchVars
<1>1. CASE Claim BY <1>1 DEF Claim
<1>2. CASE StartBeating BY <1>2 DEF StartBeating
<1>3. CASE Beat BY <1>3 DEF Beat
<1>4. CASE BeatLost BY <1>4 DEF BeatLost
<1>5. CASE BeatLands BY <1>5 DEF BeatLands
<1>6. CASE Finish BY <1>6 DEF Finish
<1>7. CASE Save BY <1>7 DEF Save, Release
<1>8. CASE Die BY <1>8 DEF Die
<1>9. CASE TakeTick BY <1>9 DEF TakeTick
<1>10. CASE Scan BY <1>10 DEF Scan, IsStale
<1>11. CASE ScanAnswered BY <1>11 DEF ScanAnswered, NextInBatch
<1>12. CASE ScanFails BY <1>12 DEF ScanFails
<1>13. CASE Reset
  <2>1. mine' \in BOOLEAN BY <1>13, Zenon DEF Reset
  <2>2. /\ rq' \in {"requeued", "kept"} /\ failed' = 0
        /\ UNCHANGED <<ticker, ticks, rqWait, others>>
    BY <1>13 DEF Reset
  <2>3. CASE Release BY <2>1, <2>2, <2>3 DEF Release
  <2>4. CASE UNCHANGED ownerVars BY <2>1, <2>2, <2>4
  <2> QED BY <1>13, <2>3, <2>4 DEF Reset
<1>14. CASE ResetAnswered BY <1>14 DEF ResetAnswered, NextInBatch
<1>15. CASE ResetFails
  <2>1. mine' \in BOOLEAN BY <1>15, Zenon DEF ResetFails
  <2> QED BY <1>15, <2>1 DEF ResetFails, NextInBatch
<1>16. CASE ResetOther BY <1>16 DEF ResetOther, NextInBatch
<1>17. CASE Push BY <1>17 DEF Push, NextInBatch
<1>18. CASE Advance
  <2>1. ticker' \in 0..(RequeueInterval - 1)
    BY <1>18, NextTickType DEF Advance
  <2>2. sent' \subseteq Nat
    <3>1. sent' = sent \/ sent' = {b + 1 : b \in sent}
      BY <1>18 DEF Advance
    <3>2. {b + 1 : b \in sent} \subseteq Nat
      BY SMT
    <3> QED BY <3>1, <3>2
  <2>3. age' \in Nat /\ timer' \in Nat /\ wait' \in Nat /\ missed' \in Nat /\ down' \in Nat
    BY <1>18 DEF Advance
  <2>4. ticks' \in 0..1 /\ rqWait' \in Nat
    BY <1>18 DEF Advance
  <2>5. UNCHANGED <<phase, rq, mine, others, failed>>
    BY <1>18 DEF Advance
  <2> QED BY <2>1, <2>2, <2>3, <2>4, <2>5
<1>19. CASE UNCHANGED vars BY <1>19 DEF vars
<1> QED BY <1>1, <1>2, <1>3, <1>4, <1>5, <1>6, <1>7, <1>8, <1>9, <1>10, <1>11, <1>12,
           <1>13, <1>14, <1>15, <1>16, <1>17, <1>18, <1>19 DEF Next

-----------------------------------------------------------------------------
\* No lock is held at first.
LEMMA SilenceInit == Init => SilenceInv
  BY LeaseAssumption DEF Init, SilenceInv

\* One step of SilenceInv per action; the owner's variables are all it speaks of.
LEMMA SilenceStep == TypeOK /\ SilenceInv /\ [Next]_vars => SilenceInv'
<1> SUFFICES ASSUME TypeOK, SilenceInv, [Next]_vars PROVE SilenceInv'
  OBVIOUS
<1> DEFINE P == Period  A == AgeAtSending
<1>a. /\ missed \in Nat /\ age \in Nat /\ timer \in Nat /\ wait \in Nat
      /\ sent \subseteq Nat /\ MaxMissed \in Nat /\ MaxDelay \in Nat
      /\ P \in Nat /\ A \in Nat
  BY LeaseAssumption, PeriodType DEF TypeOK
<1>b. missed * P \in Nat /\ missed * P <= MaxMissed * P
  BY <1>a, MissedProduct DEF SilenceInv
<1>c. MaxMissed * P \in Nat /\ A = MaxMissed * P + P + MaxDelay
  BY <1>a, MissedProduct DEF AgeAtSending
<1>d. UNCHANGED ownerVars => SilenceInv'
  BY DEF ownerVars, SilenceInv
<1>1. CASE Claim
  <2>1. \A b \in sent' : b <= MaxDelay
    BY <1>1, <1>a DEF Claim
  <2> QED BY <1>1, <2>1, <1>a DEF Claim, SilenceInv
<1>2. CASE StartBeating
  <2>1. age <= MaxDelay /\ age <= A
    BY <1>2, <1>a, <1>c DEF StartBeating, SilenceInv
  <2>2. \A b \in sent : age <= b + A
    BY <2>1, <1>a
  <2> QED BY <1>2, <2>1, <2>2, <1>a, <1>b DEF StartBeating, SilenceInv
<1>3. CASE Beat
  <2>1. timer <= P /\ phase' = "running" /\ age' = age /\ timer' = 0 /\ 0 \in sent'
    BY <1>3 DEF Beat, SilenceInv
  <2>2. \E b \in sent' : age' <= b + A
    <3>1. CASE sent = {}
      BY <1>3, <2>1, <3>1, <1>a, <1>b, <1>c DEF Beat, SilenceInv
    <3>2. CASE sent # {}
      BY <1>3, <2>1, <3>2 DEF Beat, SilenceInv
    <3> QED BY <3>1, <3>2
  <2>3. \A b \in sent' : b <= MaxDelay
    BY <1>3, <1>a DEF Beat, SilenceInv
  <2> QED BY <1>3, <2>1, <2>2, <2>3, <1>a DEF Beat, SilenceInv
<1>4. CASE BeatLost
  <2>1. missed' * P = missed * P + P
    BY <1>4, <1>a, MissedProduct DEF BeatLost
  <2>2. sent = {} => age <= missed * P + P + MaxDelay
    BY <1>4, <1>a, <1>b DEF BeatLost, SilenceInv
  <2> QED BY <1>4, <2>1, <2>2, <1>a, <1>b DEF BeatLost, SilenceInv
<1>5. CASE BeatLands
  <2>1. age' = 0 /\ sent' \subseteq sent /\ UNCHANGED <<phase, timer, wait, missed>>
    BY <1>5 DEF BeatLands
  <2>2. sent # {}
    BY <1>5 DEF BeatLands
  <2>3. \A b \in sent' : age' <= b + A
    BY <2>1, <1>a
  <2>4. age' <= timer + missed * P + MaxDelay
    BY <2>1, <1>a, <1>b
  <2>5. phase \in {"running", "saving"} =>
          IF sent' = {} THEN age' <= timer' + missed' * P + MaxDelay
                        ELSE \E b \in sent' : age' <= b + A
    BY <2>1, <2>3, <2>4
  <2>6. phase # "free"
    BY <1>5 DEF BeatLands
  <2> QED BY <2>1, <2>2, <2>5, <2>6, <1>a DEF SilenceInv
<1>6. CASE Finish
  BY <1>6, <1>a, <1>b DEF Finish, SilenceInv
<1>7. CASE Save
  BY <1>7, <1>a DEF Save, Release, SilenceInv
<1>8. CASE Die
  BY <1>8, <1>a DEF Die, SilenceInv
<1>9. CASE TakeTick
  BY <1>9, <1>d DEF TakeTick
<1>10. CASE Scan
  BY <1>10, <1>d DEF Scan
<1>11. CASE ScanAnswered
  BY <1>11, <1>d DEF ScanAnswered
<1>12. CASE ScanFails
  BY <1>12, <1>d DEF ScanFails
<1>13. CASE Reset
  <2>1. CASE Release
    BY <2>1, <1>a DEF Release, SilenceInv
  <2>2. CASE UNCHANGED ownerVars
    BY <2>2, <1>d
  <2> QED BY <1>13, <2>1, <2>2 DEF Reset
<1>14. CASE ResetAnswered
  BY <1>14, <1>d DEF ResetAnswered
<1>15. CASE ResetFails
  BY <1>15, <1>d DEF ResetFails
<1>16. CASE ResetOther
  BY <1>16, <1>d DEF ResetOther
<1>17. CASE Push
  BY <1>17, <1>d DEF Push
<1>18. CASE Advance
  <2>1. CASE phase = "free"
    BY <1>18, <2>1 DEF Advance, SilenceInv
  <2>2. CASE phase # "free"
    <3>1. /\ age' = age + 1 /\ (phase # "dead" => timer' = timer + 1) /\ sent' = {b + 1 : b \in sent}
          /\ wait' = IF phase \in {"claiming", "saving"} THEN wait + 1 ELSE wait
          /\ phase' = phase /\ missed' = missed
      BY <1>18, <2>2 DEF Advance
    <3>2. \A b \in sent' : b <= MaxDelay
      BY <1>18, <2>2, <3>1, <1>a DEF Advance, NothingDue
    <3>3. phase = "claiming" => age' <= wait' /\ wait' <= MaxDelay /\ missed' = 0
      BY <1>18, <3>1, <1>a DEF Advance, NothingDue, SilenceInv
    <3>4. phase = "running" => timer' <= P
      BY <1>18, <3>1, <1>a DEF Advance, NothingDue, Period
    <3>5. phase = "saving" => timer' <= P + wait' /\ wait' <= MaxDelay
      BY <1>18, <3>1, <1>a DEF Advance, NothingDue, SilenceInv
    <3>6. ASSUME phase \in {"running", "saving"}, sent = {}
          PROVE  sent' = {} /\ age' <= timer' + missed' * P + MaxDelay
      BY <3>1, <3>6, <1>a, <1>b DEF SilenceInv
    <3>7. ASSUME phase \in {"running", "saving"}, sent # {}
          PROVE  \E b \in sent' : age' <= b + A
      <4>1. PICK b \in sent : age <= b + A
        BY <3>7 DEF SilenceInv
      <4>2. b + 1 \in sent' /\ age' <= b + 1 + A
        BY <3>1, <4>1, <1>a
      <4> QED BY <4>2
    <3>8. sent # {} => sent' # {}
      BY <3>1
    <3> QED BY <2>2, <3>1, <3>2, <3>3, <3>4, <3>5, <3>6, <3>7, <3>8 DEF SilenceInv
  <2> QED BY <2>1, <2>2
<1>19. CASE UNCHANGED vars
  BY <1>19, <1>d DEF vars
<1> QED BY <1>1, <1>2, <1>3, <1>4, <1>5, <1>6, <1>7, <1>8, <1>9, <1>10, <1>11, <1>12,
           <1>13, <1>14, <1>15, <1>16, <1>17, <1>18, <1>19 DEF Next

-----------------------------------------------------------------------------
\* The ages a live owner's lock can have stay below LongestSilence.
LEMMA LiveBound == ASSUME TypeOK, SilenceInv, Live PROVE age <= LongestSilence
<1>a. /\ missed \in Nat /\ age \in Nat /\ timer \in Nat /\ wait \in Nat
      /\ sent \subseteq Nat /\ MaxMissed \in Nat /\ MaxDelay \in Nat
      /\ Period \in Nat /\ AgeAtSending \in Nat
  BY LeaseAssumption, PeriodType DEF TypeOK
<1>b. missed * Period \in Nat /\ missed * Period <= MaxMissed * Period
  BY <1>a, MissedProduct DEF SilenceInv
<1>c. /\ MaxMissed * Period \in Nat
      /\ AgeAtSending = MaxMissed * Period + Period + MaxDelay
      /\ LongestSilence = MaxMissed * Period + Period + 2 * MaxDelay
  BY <1>a, MissedProduct DEF AgeAtSending, LongestSilence, Period
<1>1. CASE phase = "claiming"
  BY <1>1, <1>a, <1>c DEF SilenceInv
<1>2. CASE phase \in {"running", "saving"} /\ sent = {}
  BY <1>2, <1>a, <1>b, <1>c DEF SilenceInv
<1>3. CASE phase \in {"running", "saving"} /\ sent # {}
  <2>1. PICK b \in sent : age <= b + AgeAtSending
    BY <1>3 DEF SilenceInv
  <2>2. b <= MaxDelay
    BY <1>3 DEF SilenceInv
  <2> QED BY <2>1, <2>2, <1>a, <1>c
<1> QED BY <1>1, <1>2, <1>3 DEF Live

\* requeue.go: "long AI agent runs are never mistaken for crashes".  For all
\* intervals and delays whose LongestSilence fits the threshold, the condition
\* of GetStaleInProgressTasks and RequeueTask is never true of a live owner.
THEOREM LeaseIsSafe == Spec => []LiveOwnerNotStale
<1>1. Init => TypeOK /\ SilenceInv
  BY TypeInit, SilenceInit
<1>2. (TypeOK /\ SilenceInv) /\ [Next]_vars => (TypeOK /\ SilenceInv)'
  BY TypeStep, SilenceStep
<1>3. TypeOK /\ SilenceInv => LiveOwnerNotStale
  <2> SUFFICES ASSUME TypeOK, SilenceInv, LongestSilence <= Threshold, Live
               PROVE  ~ IsStale
    BY DEF LiveOwnerNotStale
  <2>1. age <= LongestSilence
    BY LiveBound
  <2>2. age \in Nat /\ Threshold \in Nat /\ LongestSilence \in Nat
    BY LeaseAssumption DEF TypeOK, LongestSilence
  <2> QED BY <2>1, <2>2 DEF IsStale
<1> QED BY <1>1, <1>2, <1>3, PTL DEF Spec

-----------------------------------------------------------------------------
(* Recovery. *)

\* When a dead owner's lock is stale at the latest.
StaleBy == Threshold + MaxDelay

\* How long an owner can have been dead when the run that is to find its lock
\* begins: each failed run costs one gap, and so does the one before a run that
\* has not failed this task yet.
RunDue ==
  StaleBy + failed * LongestGap + (IF rq = "scan" \/ mine THEN LongestGap ELSE 0)

\* Spent on other tasks of the batch.
Behind == 2 * MaxDelay * (MaxOthers - others)

\* Spent on this task's reset, once it had its turn.
Own == IF mine THEN 0 ELSE MaxDelay

\* How long the run has taken so far; between runs, how long the pause may be.
Elapsed ==
  CASE rq = "idle" -> LongestGap
    [] rq \in {"scan", "scanned"} -> rqWait
    [] rq \in {"requeued", "kept"} -> Behind + rqWait
    [] rq = "reset" -> MaxDelay + Own + Behind + rqWait
    [] rq = "push" -> Own + Behind + rqWait

\* How long the owner can have been dead, given what the requeuer is doing and
\* what its ticker shows.  No heartbeat on its way is younger than the death.
RecoveryInv ==
  /\ rq # "idle" => rqWait <= MaxDelay
  /\ mine => rq \in {"scanned", "reset", "push"}
  /\ phase = "dead" =>
       /\ \A b \in sent : down <= b /\ b <= MaxDelay
       /\ down <= age + MaxDelay
       /\ ticks = 0 => down <= RunDue + ticker
       /\ down <= RunDue + Elapsed

\* The ticker counts up to the interval and starts over.
LEMMA NextTickValue ==
  ASSUME ticker \in 0..(RequeueInterval - 1)
  PROVE  NextTick = IF ticker + 1 = RequeueInterval THEN 0 ELSE ticker + 1
  BY LeaseAssumption DEF NextTick

\* The derived durations are numbers; a run fits into a gap, an interval too.
LEMMA GapFacts ==
  /\ LongestRun \in Nat /\ LongestGap \in Nat /\ StaleBy \in Nat
  /\ LongestRun <= LongestGap /\ RequeueInterval <= LongestGap
  /\ 2 * MaxDelay * MaxOthers \in Nat /\ LongestRun = 2 * MaxDelay + 2 * MaxDelay * MaxOthers
<1>1. 2 * MaxDelay * MaxOthers \in Nat
  BY LeaseAssumption
<1> QED BY <1>1, LeaseAssumption DEF LongestRun, LongestGap, StaleBy

\* Dealing with one more of the others takes two commands.
LEMMA BehindFacts ==
  ASSUME NEW d \in Nat, NEW m \in Nat, NEW n \in 0..m
  PROVE  /\ 2 * d * (m - n) \in Nat /\ 2 * d * (m - n) <= 2 * d * m
         /\ 2 * d * (m - 0) = 2 * d * m
         /\ n > 0 => 2 * d * (m - (n - 1)) = 2 * d * (m - n) + 2 * d
<1>1. m - n \in Nat /\ d * (m - n) \in Nat /\ d * n \in Nat /\ d * m \in Nat
  BY SMT
<1>2. d * m = d * (m - n) + d * n
  BY SMT
<1>3. d * (m - (n - 1)) = d * (m - n) + d
  BY SMT
<1>4. 2 * d * (m - n) = 2 * (d * (m - n)) /\ 2 * d * m = 2 * (d * m)
      /\ 2 * d * (m - (n - 1)) = 2 * (d * (m - (n - 1)))
  BY SMT
<1> QED BY <1>1, <1>2, <1>3, <1>4, SMT

\* Every failed run adds one gap.
LEMMA FailedFacts ==
  ASSUME NEW g \in Nat, NEW f \in Nat, NEW n \in Nat, f <= n
  PROVE  f * g \in Nat /\ (f + 1) * g = f * g + g /\ 0 * g = 0 /\ (f + 1) * g <= (n + 1) * g
<1>1. f + 1 \in Nat /\ n + 1 \in Nat /\ f + 1 <= n + 1
  BY SMT
<1> QED BY <1>1, MissedProduct, SMT

\* No owner is dead at first.
LEMMA RecoveryInit == Init => RecoveryInv
<1> SUFFICES ASSUME Init PROVE RecoveryInv
  OBVIOUS
<1>1. ~ mine
  BY Zenon DEF Init
<1> QED BY <1>1 DEF Init, RecoveryInv

\* As long as a dead owner's lock is fresh, no run has been missed.
LEMMA NotStaleEarly ==
  ASSUME TypeOK, RecoveryInv, phase = "dead", ~ IsStale
  PROVE  down <= StaleBy
  BY LeaseAssumption DEF TypeOK, RecoveryInv, IsStale, StaleBy

\* A step of the requeuer that leaves the owner alone keeps RecoveryInv if it
\* keeps the two bounds.
LEMMA RequeuerStep ==
  ASSUME RecoveryInv, UNCHANGED <<phase, age, sent, down>>,
         rq' # "idle" => rqWait' <= MaxDelay,
         mine' => rq' \in {"scanned", "reset", "push"},
         phase = "dead" => /\ ticks' = 0 => down <= RunDue' + ticker'
                           /\ down <= RunDue' + Elapsed'
  PROVE  RecoveryInv'
  BY DEF RecoveryInv

\* Larger summands make a larger sum.
LEMMA SumGrows ==
  ASSUME NEW d \in Nat, NEW r \in Nat, NEW e \in Nat, NEW n \in Nat, d <= r + e, e <= n
  PROVE  d <= r + n
  BY SMT

\* Within a run it is enough that the time spent does not shrink.
LEMMA SameRunStep ==
  ASSUME RecoveryInv, UNCHANGED <<phase, age, sent, down, ticker, ticks>>,
         rqWait' <= MaxDelay /\ (mine' => rq' \in {"scanned", "reset", "push"}),
         RunDue' = RunDue /\ RunDue \in Nat, down \in Nat,
         Elapsed \in Nat, Elapsed' \in Nat, Elapsed <= Elapsed'
  PROVE  RecoveryInv'
<1>1. phase = "dead" => down <= RunDue + Elapsed /\ (ticks = 0 => down <= RunDue + ticker)
  BY DEF RecoveryInv
<1>2. phase = "dead" => down <= RunDue + Elapsed'
  BY <1>1, SumGrows, Zenon
<1>3. phase = "dead" => /\ ticks' = 0 => down <= RunDue' + ticker'
                        /\ down <= RunDue' + Elapsed'
  BY <1>1, <1>2, Zenon
<1> QED BY <1>3, RequeuerStep

\* The owner's steps leave the requeuer alone; only its death starts the count.
LEMMA OwnerRecovery ==
  ASSUME TypeOK, SilenceInv, RecoveryInv,
         Claim \/ StartBeating \/ Beat \/ BeatLost \/ BeatLands \/ Finish \/ Save \/ Die
  PROVE  RecoveryInv'
<1>a. /\ age \in Nat /\ down \in Nat /\ sent \subseteq Nat /\ ticker \in Nat /\ rqWait \in Nat
      /\ MaxDelay \in Nat
  BY LeaseAssumption DEF TypeOK
<1>b. UNCHANGED rqVars
  BY DEF Claim, StartBeating, Beat, BeatLost, BeatLands, Finish, Save, Die
<1>c. /\ UNCHANGED <<ticker, ticks, rq, rqWait, mine, others, failed>>
      /\ RunDue' = RunDue /\ Elapsed' = Elapsed
  BY <1>b DEF rqVars, batchVars, RunDue, Elapsed, Own, Behind
<1>1. CASE Claim \/ StartBeating \/ Beat \/ BeatLost \/ Finish \/ Save
  <2>1. phase' # "dead"
    BY <1>1 DEF Claim, StartBeating, Beat, BeatLost, Finish, Save, Release
  <2> QED BY <2>1, <1>c DEF RecoveryInv
<1>2. CASE BeatLands
  <2>1. PICK b \in sent : sent' = sent \ {b}
    BY <1>2 DEF BeatLands
  <2>2. age' = 0 /\ UNCHANGED <<phase, down>>
    BY <1>2 DEF BeatLands
  <2>3. phase = "dead" => down <= MaxDelay
    BY <1>a, <2>1 DEF RecoveryInv
  <2> QED BY <1>a, <1>c, <2>1, <2>2, <2>3 DEF RecoveryInv
<1>3. CASE Die
  <2>1. phase # "free" /\ down' = 0 /\ UNCHANGED <<age, sent>>
    BY <1>3 DEF Die
  <2>2. \A b \in sent' : down' <= b /\ b <= MaxDelay
    BY <2>1, <1>a DEF SilenceInv
  <2>3. RunDue \in Nat /\ Elapsed \in Nat
    <3>1. LongestGap \in Nat /\ StaleBy \in Nat
      BY GapFacts
    <3>2. failed \in Nat /\ failed <= MaxFailures /\ MaxFailures \in Nat
      BY LeaseAssumption DEF TypeOK
    <3>3. failed * LongestGap \in Nat
      BY <3>1, <3>2, FailedFacts
    <3>4. Behind \in Nat
      BY BehindFacts, LeaseAssumption DEF Behind, TypeOK
    <3>5. Own \in Nat
      BY <1>a DEF Own
    <3>6. rq \in {"idle", "scan", "scanned", "reset", "requeued", "kept", "push"}
      BY DEF TypeOK
    <3>7. Elapsed \in Nat
      BY <3>1, <3>4, <3>5, <3>6, <1>a DEF Elapsed
    <3> QED BY <3>1, <3>3, <3>7 DEF RunDue
  <2> QED BY <1>a, <1>c, <2>1, <2>2, <2>3 DEF RecoveryInv
<1> QED BY <1>1, <1>2, <1>3

\* Every step of the requeuer keeps it within its time.
LEMMA RequeuerRecovery ==
  ASSUME TypeOK, RecoveryInv,
         \/ TakeTick \/ Scan \/ ScanAnswered \/ ScanFails
         \/ Reset \/ ResetAnswered \/ ResetFails \/ ResetOther \/ Push
  PROVE  RecoveryInv'
<1> DEFINE G == LongestGap  F == failed * G  D == MaxDelay  W == 2 * MaxDelay * MaxOthers
<1>a. /\ down \in Nat /\ ticker \in Nat /\ rqWait \in Nat /\ ticks \in 0..1
      /\ D \in Nat /\ StaleBy \in Nat /\ others \in 0..MaxOthers /\ MaxOthers \in Nat
      /\ failed \in 0..MaxFailures /\ MaxFailures \in Nat /\ mine \in BOOLEAN
  BY LeaseAssumption DEF TypeOK, StaleBy
<1>b. G \in Nat /\ W \in Nat /\ 2 * D + W <= G
  BY GapFacts
<1>c. F \in Nat /\ (failed + 1) * G = F + G /\ 0 * G = 0
  BY <1>a, <1>b, FailedFacts
<1>d. /\ Behind \in Nat /\ Behind <= W
      /\ others = 0 => Behind = W
      /\ others > 0 => 2 * D * (MaxOthers - (others - 1)) = Behind + 2 * D
  BY <1>a, BehindFacts DEF Behind
<1>e. rq # "idle" => rqWait <= D
  BY DEF RecoveryInv
<1> HIDE DEF G, F, D, W
<1>1. CASE TakeTick
  <2>1. /\ rq = "idle" /\ rq' = "scan" /\ rqWait' = 0 /\ ~ mine /\ ~ mine'
        /\ UNCHANGED <<phase, age, sent, down, ticker, failed, others>>
    BY <1>1 DEF TakeTick, RecoveryInv, ownerVars, batchVars
  <2>2. RunDue = StaleBy + F + 0 /\ Elapsed = G /\ RunDue' = StaleBy + F + G /\ Elapsed' = 0
    BY <2>1 DEF RunDue, Elapsed, F, G
  <2>3. phase = "dead" => down <= RunDue + G
    BY <2>2 DEF RecoveryInv
  <2> QED BY <2>1, <2>2, <2>3, <1>a, <1>b, <1>c, RequeuerStep DEF D
<1>2. CASE Scan
  <2>1. /\ rq = "scan" /\ rq' = "scanned" /\ mine' = IsStale /\ rqWait' = rqWait
        /\ UNCHANGED <<phase, age, sent, down, ticker, ticks>>
    BY <1>2 DEF Scan, ownerVars
  <2>2. RunDue = StaleBy + F + G /\ Elapsed = rqWait /\ Elapsed' = rqWait
    BY <2>1 DEF RunDue, Elapsed, F, G
  <2>3. CASE IsStale
    <3>1. failed' = failed /\ mine'
      BY <1>2, <2>1, <2>3 DEF Scan
    <3>2. RunDue' = StaleBy + F + G
      BY <3>1 DEF RunDue, F, G
    <3> QED BY <2>1, <2>2, <3>2, <1>a, <1>e, RequeuerStep DEF RecoveryInv, D
  <2>4. CASE ~ IsStale
    <3>1. failed' = 0 /\ ~ mine'
      BY <1>2, <2>1, <2>4 DEF Scan
    <3>2. RunDue' = StaleBy + 0
      BY <2>1, <3>1, <1>a, <1>c DEF RunDue, G
    <3>3. phase = "dead" => down <= StaleBy
      BY <2>4, NotStaleEarly
    <3> QED BY <2>1, <2>2, <3>1, <3>2, <3>3, <1>a, <1>e, RequeuerStep DEF D
  <2> QED BY <2>3, <2>4
<1>3. CASE ScanAnswered
  <2>1. /\ rq = "scanned" /\ rqWait' = 0
        /\ rq' = IF mine \/ others > 0 THEN "reset" ELSE "idle"
        /\ UNCHANGED <<phase, age, sent, down, ticker, ticks, mine, others, failed>>
    BY <1>3 DEF ScanAnswered, NextInBatch, ownerVars, batchVars
  <2>2. RunDue' = RunDue /\ RunDue \in Nat
    BY <2>1, <1>a, <1>b, <1>c DEF RunDue, F, G
  <2>3. Elapsed = rqWait /\ Elapsed' >= D
    BY <2>1, <1>a, <1>b, <1>d DEF Elapsed, Own, Behind, D, G
  <2>4. Elapsed' \in Nat
    BY <2>1, <1>a, <1>b, <1>d DEF Elapsed, Own, Behind, D, G
  <2>8. Elapsed \in Nat /\ Elapsed <= Elapsed'
    BY <2>1, <2>2, <2>3, <2>4, <1>a, <1>e
  <2>9. rqWait' <= MaxDelay /\ (mine' => rq' \in {"scanned", "reset", "push"})
    BY <2>1, <1>a DEF D
  <2> QED BY <2>1, <2>2, <2>4, <2>8, <2>9, <1>a, SameRunStep
<1>4. CASE ScanFails
  <2>1. /\ rq = "scan" /\ rq' = "idle" /\ ~ mine /\ ~ mine' /\ failed' = failed + 1
        /\ UNCHANGED <<phase, age, sent, down, ticker, ticks>>
    BY <1>4 DEF ScanFails, RecoveryInv, ownerVars
  <2>2. RunDue = StaleBy + F + G /\ Elapsed = rqWait /\ Elapsed' = G
    BY <2>1 DEF RunDue, Elapsed, F, G
  <2>3. RunDue' = StaleBy + F + G
    BY <2>1, <1>a, <1>b, <1>c DEF RunDue, G
  <2> QED BY <2>1, <2>2, <2>3, <1>a, <1>b, <1>c, <1>e, RequeuerStep DEF RecoveryInv
<1>5. CASE Reset
  <2>1. CASE Release
    <3>1. phase' = "free" /\ ~ mine' /\ rqWait' = rqWait /\ rq # "idle"
      BY <1>5, <2>1 DEF Reset, Release
    <3> QED BY <3>1, <1>e DEF RecoveryInv, D
  <2>2. CASE ~ Release
    <3>1. /\ ~ IsStale /\ rq = "reset" /\ rq' = "kept" /\ ~ mine' /\ failed' = 0
          /\ UNCHANGED <<phase, age, sent, down, ticker, ticks, rqWait, others>>
      BY <1>5, <2>2 DEF Reset, ownerVars
    <3>2. RunDue' = StaleBy + 0 /\ Elapsed' = Behind + rqWait
      BY <3>1, <1>a, <1>c DEF RunDue, Elapsed, Behind, G
    <3>3. phase = "dead" => down <= StaleBy
      BY <3>1, NotStaleEarly
    <3> QED BY <3>1, <3>2, <3>3, <1>a, <1>d, <1>e, RequeuerStep DEF D
  <2> QED BY <2>1, <2>2
<1>6. CASE ResetAnswered
  <2>1. /\ rq \in {"requeued", "kept"} /\ rqWait' = 0 /\ ~ mine
        /\ rq' \in {"push", "reset"} \/ (rq' = "idle" /\ others = 0)
        /\ UNCHANGED <<phase, age, sent, down, ticker, ticks, mine, others, failed>>
    BY <1>6, <1>a DEF ResetAnswered, NextInBatch, RecoveryInv, ownerVars, batchVars
  <2>2. RunDue' = RunDue /\ RunDue \in Nat
    BY <2>1, <1>a, <1>b, <1>c DEF RunDue, F, G
  <2>3. Elapsed = Behind + rqWait
    BY <2>1 DEF Elapsed
  <2>4. Elapsed' \in Nat /\ Elapsed' >= Behind + D
    BY <2>1, <1>a, <1>b, <1>d DEF Elapsed, Own, Behind, D, G
  <2>8. Elapsed \in Nat /\ Elapsed <= Elapsed'
    BY <2>1, <2>2, <2>3, <2>4, <1>a, <1>d, <1>e
  <2>9. rqWait' <= MaxDelay /\ (mine' => rq' \in {"scanned", "reset", "push"})
    BY <2>1, <1>a DEF D
  <2> QED BY <2>1, <2>2, <2>4, <2>8, <2>9, <1>a, SameRunStep
<1>7. CASE ResetFails
  <2>1. /\ rq = "reset" /\ rqWait' = 0 /\ mine /\ ~ mine' /\ failed' = failed + 1
        /\ rq' = "reset" \/ (rq' = "idle" /\ others = 0)
        /\ UNCHANGED <<phase, age, sent, down, ticker, ticks, others>>
    BY <1>7, <1>a DEF ResetFails, NextInBatch, ownerVars
  <2>2. RunDue = StaleBy + F + G
    BY <2>1 DEF RunDue, F, G
  <2>3. RunDue' = StaleBy + F + G
    BY <2>1, <1>a, <1>b, <1>c DEF RunDue, G
  <2>4. Elapsed = D + 0 + Behind + rqWait
    BY <2>1 DEF Elapsed, Own, D
  <2>5. Elapsed' \in Nat /\ Elapsed' >= 2 * D + Behind
    BY <2>1, <1>a, <1>b, <1>d DEF Elapsed, Own, Behind, D, G
  <2>8. Elapsed \in Nat /\ Elapsed <= Elapsed'
    BY <2>1, <2>2, <2>3, <2>4, <2>5, <1>a, <1>b, <1>c, <1>d, <1>e
  <2>9. rqWait' <= MaxDelay /\ (mine' => rq' \in {"scanned", "reset", "push"})
    BY <2>1, <1>a DEF D
  <2>10. RunDue' = RunDue /\ RunDue \in Nat
    BY <2>2, <2>3, <1>a, <1>b, <1>c
  <2> QED BY <2>1, <2>5, <2>8, <2>9, <2>10, <1>a, SameRunStep
<1>8. CASE ResetOther
  <2>1. /\ rq = "reset" /\ others > 0 /\ others' = others - 1 /\ rqWait' = 0
        /\ rq' \in {"push", "reset"} \/ (rq' = "idle" /\ others' = 0 /\ ~ mine)
        /\ UNCHANGED <<phase, age, sent, down, ticker, ticks, mine, failed>>
    BY <1>8, <1>a DEF ResetOther, NextInBatch, ownerVars
  <2>2. RunDue' = RunDue /\ RunDue \in Nat
    BY <2>1, <1>a, <1>b, <1>c DEF RunDue, F, G
  <2>3. Elapsed = D + Own + Behind + rqWait /\ Own \in Nat /\ Own' = Own
    BY <2>1, <1>a DEF Elapsed, Own, D
  <2>4. Behind' = Behind + 2 * D /\ (others' = 0 => Behind' = W)
    BY <2>1, <1>a, <1>d, BehindFacts DEF Behind, D, W
  <2>5. Elapsed' \in Nat /\ Elapsed' >= Own + Behind + 2 * D
    <3>1. CASE rq' \in {"push", "reset"}
      BY <2>1, <2>3, <2>4, <3>1, <1>a, <1>d DEF Elapsed, D
    <3>2. CASE rq' = "idle" /\ others' = 0 /\ ~ mine
      <4>1. Elapsed' = G /\ Own = D
        BY <3>2 DEF Elapsed, Own, G, D
      <4> QED BY <2>4, <3>2, <4>1, <1>a, <1>b, <1>d
    <3> QED BY <2>1, <3>1, <3>2
  <2>8. Elapsed \in Nat /\ Elapsed <= Elapsed'
    BY <2>1, <2>2, <2>3, <2>5, <1>a, <1>d, <1>e
  <2>9. rqWait' <= MaxDelay /\ (mine' => rq' \in {"scanned", "reset", "push"})
    BY <2>1, <1>a DEF D
  <2> QED BY <2>1, <2>2, <2>5, <2>8, <2>9, <1>a, SameRunStep
<1>9. CASE Push
  <2>1. /\ rq = "push" /\ rqWait' = 0
        /\ rq' = "reset" \/ (rq' = "idle" /\ others = 0 /\ ~ mine)
        /\ UNCHANGED <<phase, age, sent, down, ticker, ticks, mine, others, failed>>
    BY <1>9, <1>a DEF Push, NextInBatch, ownerVars, batchVars
  <2>2. RunDue' = RunDue /\ RunDue \in Nat
    BY <2>1, <1>a, <1>b, <1>c DEF RunDue, F, G
  <2>3. Elapsed = Own + Behind + rqWait /\ Own \in Nat
    BY <2>1, <1>a DEF Elapsed, Own, D
  <2>4. Elapsed' \in Nat /\ Elapsed' >= Own + Behind + D
    BY <2>1, <1>a, <1>b, <1>d DEF Elapsed, Own, Behind, D, G
  <2>8. Elapsed \in Nat /\ Elapsed <= Elapsed'
    BY <2>1, <2>2, <2>3, <2>4, <1>a, <1>d, <1>e
  <2>9. rqWait' <= MaxDelay /\ (mine' => rq' \in {"scanned", "reset", "push"})
    BY <2>1, <1>a DEF D
  <2> QED BY <2>1, <2>2, <2>4, <2>8, <2>9, <1>a, SameRunStep
<1> QED BY <1>1, <1>2, <1>3, <1>4, <1>5, <1>6, <1>7, <1>8, <1>9

\* A second passes: the owner is dead for longer, and so is the run, or the pause
\* between two runs, under way.
LEMMA AdvanceRecovery == ASSUME TypeOK, RecoveryInv, Advance PROVE RecoveryInv'
<1>a. /\ age \in Nat /\ down \in Nat /\ sent \subseteq Nat /\ ticker \in Nat /\ rqWait \in Nat
      /\ ticks \in 0..1 /\ MaxDelay \in Nat /\ RequeueInterval \in Nat
      /\ failed \in 0..MaxFailures /\ MaxFailures \in Nat /\ others \in 0..MaxOthers
      /\ MaxOthers \in Nat
      /\ rq \in {"idle", "scan", "scanned", "reset", "requeued", "kept", "push"}
  BY LeaseAssumption DEF TypeOK
<1>1. UNCHANGED <<phase, rq, mine, others, failed>> /\ NothingDue
  BY DEF Advance, batchVars
<1>2. rqWait' = IF rq = "idle" THEN 0 ELSE rqWait + 1
  BY DEF Advance
<1>3. rq # "idle" => rqWait' <= MaxDelay
  BY <1>1, <1>2, <1>a DEF NothingDue
<1>4. CASE phase # "dead"
  BY <1>1, <1>3, <1>4 DEF RecoveryInv
<1>5. CASE phase = "dead"
  <2>1. age' = age + 1 /\ down' = down + 1 /\ sent' = {b + 1 : b \in sent}
    BY <1>5 DEF Advance
  <2>2. \A b \in sent' : down' <= b /\ b <= MaxDelay
    BY <1>1, <1>5, <2>1, <1>a DEF NothingDue, RecoveryInv
  <2>3. down' <= age' + MaxDelay
    BY <1>5, <2>1, <1>a DEF RecoveryInv
  <2>4. LongestGap \in Nat /\ StaleBy \in Nat /\ RequeueInterval <= LongestGap
    BY GapFacts
  <2>5. RunDue' = RunDue /\ RunDue \in Nat
    <3>1. failed * LongestGap \in Nat
      BY <2>4, <1>a, FailedFacts
    <3> QED BY <1>1, <2>4, <3>1 DEF RunDue
  <2>6. /\ ticker' = IF ticker + 1 = RequeueInterval THEN 0 ELSE ticker + 1
        /\ ticks' = IF ticker' = 0 THEN 1 ELSE ticks
    BY NextTickValue DEF Advance, TypeOK
  <2>7. ticks' = 0 => ticks = 0 /\ ticker' = ticker + 1
    BY <2>6, <1>a
  <2>8. ticks = 0 => down' <= RunDue + (ticker + 1)
    BY <1>5, <2>1, <2>5, <1>a DEF RecoveryInv
  <2>9. down' <= RunDue + Elapsed'
    <3>1. CASE rq = "idle"
      <4>1. ticks = 0 /\ ticker + 1 <= RequeueInterval
        BY <1>1, <3>1, <1>a DEF NothingDue, TypeOK
      <4>2. down' <= RunDue + LongestGap
        BY <4>1, <2>8, <2>1, <2>4, <2>5, <1>a
      <4>3. Elapsed' = LongestGap
        BY <1>1, <3>1 DEF Elapsed
      <4> QED BY <4>2, <4>3
    <3>2. CASE rq # "idle"
      <4>1. Behind \in Nat /\ Own \in Nat
        BY BehindFacts, <1>a DEF Behind, Own
      <4>2. Elapsed \in Nat /\ Elapsed' = Elapsed + 1
        <5>1. Behind' = Behind /\ Own' = Own
          BY <1>1 DEF Behind, Own
        <5> QED BY <1>1, <1>2, <3>2, <4>1, <5>1, <1>a DEF Elapsed
      <4>3. down <= RunDue + Elapsed
        BY <1>5 DEF RecoveryInv
      <4>4. down + 1 <= RunDue + (Elapsed + 1)
        BY <4>2, <4>3, <2>5, <1>a
      <4> QED BY <4>2, <4>4, <2>1
    <3> QED BY <3>1, <3>2
  <2> QED BY <1>1, <1>3, <1>5, <2>2, <2>3, <2>5, <2>7, <2>8, <2>9 DEF RecoveryInv
<1> QED BY <1>4, <1>5

\* Every step keeps RecoveryInv.
LEMMA RecoveryStep == TypeOK /\ SilenceInv /\ RecoveryInv /\ [Next]_vars => RecoveryInv'
<1> SUFFICES ASSUME TypeOK, SilenceInv, RecoveryInv, [Next]_vars PROVE RecoveryInv'
  OBVIOUS
<1>1. CASE UNCHANGED vars
  <2>1. UNCHANGED <<phase, age, sent, down, ticker, ticks, rq, rqWait, mine, others, failed>>
    BY <1>1 DEF vars, ownerVars, rqVars, batchVars
  <2> QED BY <2>1 DEF RecoveryInv, RunDue, Elapsed, Own, Behind
<1>2. CASE Advance
  BY <1>2, AdvanceRecovery
<1> QED BY <1>1, <1>2, OwnerRecovery, RequeuerRecovery DEF Next

\* The ages, timers and the requeuer's state keep their types: in particular its
\* ticker never runs past the interval.
THEOREM LeaseTypeCorrect == Spec => []TypeOK
  BY TypeInit, TypeStep, PTL DEF Spec

\* requeue.go: "Worst-case recovery after a crash = threshold + interval".  For
\* all intervals, thresholds and delays, any number of other tasks in the same
\* batch and any number of failed scans and resets, also when a run takes longer
\* than the interval and ticks are dropped, the task of a dead owner is taken off
\* it within the time RecoveredInTime adds up.
THEOREM RecoveryIsTimely == Spec => []RecoveredInTime
<1>1. Init => TypeOK /\ SilenceInv /\ RecoveryInv
  BY TypeInit, SilenceInit, RecoveryInit
<1>2. (TypeOK /\ SilenceInv /\ RecoveryInv) /\ [Next]_vars
        => (TypeOK /\ SilenceInv /\ RecoveryInv)'
  BY TypeStep, SilenceStep, RecoveryStep
<1>3. TypeOK /\ RecoveryInv => RecoveredInTime
  <2> SUFFICES ASSUME TypeOK, RecoveryInv, phase = "dead"
               PROVE  down <= Threshold + MaxDelay + (MaxFailures + 1) * LongestGap + LongestRun
    BY DEF RecoveredInTime
  <2> DEFINE G == LongestGap  F == failed * G  M == (MaxFailures + 1) * G
             W == 2 * MaxDelay * MaxOthers
  <2>a. /\ down \in Nat /\ rqWait \in Nat /\ MaxDelay \in Nat /\ MaxOthers \in Nat
        /\ others \in 0..MaxOthers /\ failed \in 0..MaxFailures /\ MaxFailures \in Nat
        /\ rq \in {"idle", "scan", "scanned", "reset", "requeued", "kept", "push"}
    BY LeaseAssumption DEF TypeOK
  <2>b. G \in Nat /\ W \in Nat /\ LongestRun = 2 * MaxDelay + W /\ LongestRun <= G /\ StaleBy \in Nat
    BY GapFacts
  <2>c. F \in Nat /\ F + G <= M /\ M \in Nat
    <3>1. F \in Nat /\ (failed + 1) * G = F + G /\ (failed + 1) * G <= M
      BY <2>a, <2>b, FailedFacts
    <3>2. M \in Nat
      BY <2>a, <2>b
    <3> QED BY <3>1, <3>2
  <2>d. Behind \in Nat /\ Behind <= W
    BY <2>a, BehindFacts DEF Behind
  <2>e. down <= RunDue + Elapsed /\ (rq # "idle" => rqWait <= MaxDelay)
    BY DEF RecoveryInv
  <2> HIDE DEF G, F, M, W
  <2>1. CASE rq = "scan" \/ mine
    <3>1. RunDue = StaleBy + F + G
      BY <2>1 DEF RunDue, F, G
    <3>2. Elapsed \in Nat /\ Elapsed <= 2 * MaxDelay + W
      BY <2>1, <2>a, <2>b, <2>d, <2>e DEF RecoveryInv, Elapsed, Own
    <3>3. down <= StaleBy + M + (2 * MaxDelay + W)
      BY <3>1, <3>2, <2>a, <2>b, <2>c, <2>e
    <3> QED BY <3>3, <2>b DEF StaleBy, M, G
  <2>2. CASE ~ (rq = "scan" \/ mine)
    <3>1. RunDue = StaleBy + F + 0
      BY <2>2 DEF RunDue, F, G
    <3>2. Elapsed \in Nat /\ Elapsed <= G + (2 * MaxDelay + W)
      BY <2>2, <2>a, <2>b, <2>d, <2>e DEF Elapsed, Own, G
    <3>3. down <= StaleBy + M + (2 * MaxDelay + W)
      BY <3>1, <3>2, <2>a, <2>b, <2>c, <2>e
    <3> QED BY <3>3, <2>b DEF StaleBy, M, G
  <2> QED BY <2>1, <2>2
<1> QED BY <1>1, <1>2, <1>3, PTL DEF Spec

=============================================================================
