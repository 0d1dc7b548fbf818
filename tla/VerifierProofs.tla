---------------------------- MODULE VerifierProofs ----------------------------
(***************************************************************************)
(* Theorems about Verifier, for any number of tasks, comics and images and *)
(* any pool and queue sizes.                                               *)
(***************************************************************************)
EXTENDS Verifier, FiniteSetTheorems, TLAPS

\* The closure of job <<t, c>> moves to point x, the others stay.
MovesTo(g, f, t, c, x) == g = [f EXCEPT ![<<t, c>>] = x]

\* wg.Add(d) on the WaitGroup of task t.
WgAdds(t, d) == wg' = [wg EXCEPT ![t] = wg[t] + d]

\* The numbers of comics at the points S are natural numbers.
LEMMA AtIsNat ==
    ASSUME NEW f, NEW S, NEW u \in Tasks
    PROVE  IsFiniteSet(At(f, S, u)) /\ Cardinality(At(f, S, u)) \in Nat
<1>1. At(f, S, u) \subseteq Comics
  BY DEF At
<1>2. QED
  BY <1>1, FS_Subset, FS_CardinalityType, SetsAssumption

\* Moving the closure of one comic to another point changes the number of
\* comics of a task at the points S by at most that one comic.
LEMMA AtStep ==
    ASSUME NEW f, NEW g, NEW S, NEW t \in Tasks, NEW c \in Comics, NEW x, NEW u \in Tasks,
           DOMAIN f = Jobs,
           MovesTo(g, f, t, c, x)
    PROVE  Cardinality(At(g, S, u))
             = Cardinality(At(f, S, u))
               + (IF u = t /\ x \in S THEN 1 ELSE 0)
               - (IF u = t /\ f[<<t, c>>] \in S THEN 1 ELSE 0)
<1> DEFINE F == At(f, S, u)
           G == At(g, S, u)
<1>1. IsFiniteSet(F) /\ Cardinality(F) \in Nat
  BY AtIsNat
<1>2. ASSUME NEW d \in Comics
      PROVE  g[<<u, d>>] = IF u = t /\ d = c THEN x ELSE f[<<u, d>>]
  BY DEF Jobs, MovesTo
<1>3. CASE u # t
  <2>1. G = F
    BY <1>2, <1>3 DEF At
  <2>2. QED
    BY <1>1, <1>3, <2>1
<1>4. CASE u = t
  <2>1. c \in F <=> f[<<t, c>>] \in S
    BY <1>4 DEF At
  <2>2. c \in G <=> x \in S
    BY <1>2, <1>4 DEF At
  <2>3. \A d \in Comics \ {c} : d \in G <=> d \in F
    BY <1>2, <1>4 DEF At
  <2>4. F \subseteq Comics /\ G \subseteq Comics
    BY DEF At
  <2>5. CASE x \in S /\ f[<<t, c>>] \notin S
    <3>1. G = F \cup {c} /\ c \notin F
      BY <2>1, <2>2, <2>3, <2>4, <2>5
    <3>2. Cardinality(G) = Cardinality(F) + 1
      BY <3>1, <1>1, FS_AddElement
    <3>3. QED
      BY <3>2, <2>5, <1>4, <1>1
  <2>6. CASE x \notin S /\ f[<<t, c>>] \in S
    <3>1. G = F \ {c} /\ c \in F
      BY <2>1, <2>2, <2>3, <2>4, <2>6
    <3>2. Cardinality(G) = Cardinality(F) - 1
      BY <3>1, <1>1, FS_RemoveElement
    <3>3. QED
      BY <3>2, <2>6, <1>4, <1>1
  <2>7. CASE (x \in S) <=> (f[<<t, c>>] \in S)
    <3>1. G = F
      BY <2>1, <2>2, <2>3, <2>4, <2>7
    <3>2. QED
      BY <3>1, <2>7, <1>4, <1>1
  <2>8. QED
    BY <2>5, <2>6, <2>7
<1>5. QED
  BY <1>3, <1>4

-------------------------------------------------------------------------------
(* Type correctness *)

\* The type invariant holds initially.
LEMMA TypeInit == Init => TypeOK
BY SetsAssumption DEF Init, TypeOK, Jobs

\* End keeps the types of the lists, and saving a verdict that of saved.
LEMMA EndListsType ==
    ASSUME TypeOK, NEW t \in Tasks, NEW c \in Comics, EndLists(t, c)
    PROVE  /\ running' \in [Tasks -> SUBSET Comics]
           /\ waitFixing' \in [Tasks -> SUBSET Comics]
           /\ fixing' \in [Tasks -> SUBSET Comics]
<1>1. /\ running \in [Tasks -> SUBSET Comics]
      /\ waitFixing \in [Tasks -> SUBSET Comics]
      /\ fixing \in [Tasks -> SUBSET Comics]
  BY DEF TypeOK
<1>2. ASSUME NEW f \in [Tasks -> SUBSET Comics]
      PROVE  [f EXCEPT ![t] = @ \ {c}] \in [Tasks -> SUBSET Comics]
  OBVIOUS
<1>3. QED
  BY <1>1, <1>2 DEF EndLists

LEMMA SaveVerdictType ==
    ASSUME TypeOK, NEW t \in Tasks, NEW c \in Comics, SaveVerdict(t, c)
    PROVE  saved' \in [Comics -> {"none", "valid", "invalid"}]
<1>1. (IF valid[<<t, c>>] THEN "valid" ELSE "invalid") \in {"none", "valid", "invalid"}
  OBVIOUS
<1>2. QED
  BY <1>1 DEF TypeOK, SaveVerdict

\* Every step preserves the type invariant.
LEMMA TypeStep == TypeOK /\ [Next]_vars => TypeOK'
<1> SUFFICES ASSUME TypeOK, [Next]_vars
             PROVE  TypeOK'
  OBVIOUS
<1> USE SetsAssumption
        DEF TypeOK, Jobs, VerifyActive, FixActive, FixRunning, runVars, jobVars,
            listVars, fixVars, diskVars
<1>1. ASSUME NEW t \in Tasks, Starting(t)
     PROVE  TypeOK'
  <2>1. CASE Start(t)
    BY <2>1 DEF Start
  <2>2. CASE FindFails(t)
    BY <2>2 DEF FindFails
  <2>3. CASE Register(t)
    BY <2>3 DEF Register
  <2>4. QED
    BY <1>1, <2>1, <2>2, <2>3 DEF Starting
<1>2. ASSUME NEW t \in Tasks, RunTaskStep(t)
     PROVE  TypeOK'
  <2>1. CASE RunTask(t)
    BY <2>1 DEF RunTask
  <2>2. CASE ChannelClosed(t)
    BY <2>2 DEF ChannelClosed
  <2>3. CASE \E c \in Comics : Receive(t, c)
    BY <2>3 DEF Receive
  <2>4. CASE \E c \in Comics : ReceiveCanceled(t, c)
    BY <2>4 DEF ReceiveCanceled
  <2>5. CASE Submit(t)
    BY <2>5 DEF Submit
  <2>6. CASE SubmitFails(t)
    BY <2>6 DEF SubmitFails
  <2>7. CASE Drained(t)
    BY <2>7 DEF Drained
  <2>8. CASE cleanupTask(t)
    BY <2>8 DEF cleanupTask
  <2>9. QED
    BY <1>2, <2>1, <2>2, <2>3, <2>4, <2>5, <2>6, <2>7, <2>8 DEF RunTaskStep
<1>3. ASSUME NEW t \in Tasks, CancelTask(t)
     PROVE  TypeOK'
  <2>1. CASE CancelTask(t)
    BY <2>1 DEF CancelTask
  <2>2. QED
    BY <1>3, <2>1 DEF CancelTask
<1>4. ASSUME NEW t \in Tasks, NEW c \in Comics, VerifyStep(t, c)
     PROVE  TypeOK'
  <2>1. CASE VerifyBegin(t, c)
    BY <2>1 DEF VerifyBegin, StartRunning
  <2>2. CASE VerifyReports(t, c)
    BY <2>2 DEF VerifyReports
  <2>3. CASE VerifyWaitsFix(t, c)
    BY <2>3 DEF VerifyWaitsFix, WaitFix
  <2>4. CASE VerifyLists(t, c)
    <3>1. /\ running' \in [Tasks -> SUBSET Comics]
          /\ waitFixing' \in [Tasks -> SUBSET Comics]
          /\ fixing' \in [Tasks -> SUBSET Comics]
      BY <2>4, EndListsType DEF VerifyLists
    <3>2. /\ valid' \in [Jobs -> BOOLEAN] /\ current' \in [Tasks -> Int] /\ wg' \in [Tasks -> Int]
      BY <2>4 DEF VerifyLists
    <3>3. QED
      BY <2>4, <3>1, <3>2 DEF VerifyLists
  <2>5. CASE SendFix(t, c)
    BY <2>5 DEF SendFix
  <2>6. CASE QueueFull(t, c)
    BY <2>6 DEF QueueFull
  <2>7. CASE SendPanics(t, c)
    BY <2>7 DEF SendPanics
  <2>8. CASE VerifyCounts(t, c)
    <3>1. /\ running' \in [Tasks -> SUBSET Comics]
          /\ waitFixing' \in [Tasks -> SUBSET Comics]
          /\ fixing' \in [Tasks -> SUBSET Comics]
      BY <2>8, EndListsType DEF VerifyCounts
    <3>2. current' \in [Tasks -> Int]
      BY <2>8 DEF VerifyCounts
    <3>3. QED
      BY <2>8, <3>1, <3>2 DEF VerifyCounts
  <2>9. CASE VerifySaves(t, c)
    BY <2>9, SaveVerdictType DEF VerifySaves
  <2>10. QED
    BY <1>4, <2>1, <2>2, <2>3, <2>4, <2>5, <2>6, <2>7, <2>8, <2>9 DEF VerifyStep
<1>5. ASSUME NEW t \in Tasks, NEW c \in Comics, FixStep(t, c)
     PROVE  TypeOK'
  <2>1. CASE FixBegin(t, c)
    BY <2>1 DEF FixBegin, Fix
  <2>2. CASE \E i \in Images : FixSkips(t, c, i)
    BY <2>2 DEF FixSkips
  <2>3. ASSUME NEW i \in Images, FixImage(t, c, i)
        PROVE  TypeOK'
    <3>1. \A spoilt \in Spoils(t, c, i) : spoilt \subseteq Images
      BY DEF Spoils
    <3>2. broken' \in [Comics -> SUBSET Images]
      BY <2>3, <3>1 DEF FixImage
    <3>3. QED
      BY <2>3, <3>2 DEF FixImage
  <2>4. ASSUME NEW i \in Images, FixImageFails(t, c, i)
        PROVE  TypeOK'
    <3>1. \A spoilt \in Spoils(t, c, i) : spoilt \subseteq Images
      BY DEF Spoils
    <3>2. broken' \in [Comics -> SUBSET Images]
      BY <2>4, <3>1 DEF FixImageFails
    <3>3. QED
      BY <2>4, <3>2 DEF FixImageFails
  <2>5. CASE FixCounts(t, c)
    <3>1. /\ running' \in [Tasks -> SUBSET Comics]
          /\ waitFixing' \in [Tasks -> SUBSET Comics]
          /\ fixing' \in [Tasks -> SUBSET Comics]
      BY <2>5, EndListsType DEF FixCounts
    <3>2. current' \in [Tasks -> Int]
      BY <2>5 DEF FixCounts
    <3>3. QED
      BY <2>5, <3>1, <3>2 DEF FixCounts
  <2>6. CASE FixSaves(t, c)
    BY <2>6, SaveVerdictType DEF FixSaves
  <2>7. QED
    BY <1>5, <2>1, <2>2, <2>3, <2>4, <2>5, <2>6 DEF FixStep
<1>6. CASE FixWorkerStep
  <2>1. CASE StartFixWorker
    BY <2>1 DEF StartFixWorker
  <2>2. CASE FixTake
    BY <2>2 DEF FixTake
  <2>3. CASE FixSubmit
    BY <2>3 DEF FixSubmit
  <2>4. CASE FixWorkerExits
    BY <2>4 DEF FixWorkerExits
  <2>5. QED
    BY <1>6, <2>1, <2>2, <2>3, <2>4 DEF FixWorkerStep, CloseStep
<1>7. CASE CloseBegin \/ CloseStep
  <2>1. CASE CloseBegin
    BY <2>1 DEF CloseBegin
  <2>2. CASE CloseReleasesFix
    BY <2>2 DEF CloseReleasesFix
  <2>3. CASE CloseQueue
    BY <2>3 DEF CloseQueue
  <2>4. CASE CloseReturns
    BY <2>4 DEF CloseReturns
  <2>5. QED
    BY <1>7, <2>1, <2>2, <2>3, <2>4 DEF CloseStep
<1>8. CASE UNCHANGED vars
  BY <1>8 DEF vars
<1>9. QED
  BY <1>1, <1>2, <1>3, <1>4, <1>5, <1>6, <1>7, <1>8 DEF Next

\* Every variable keeps its type.
THEOREM TypeCorrect == Spec => []TypeOK
<1>1. QED
  BY TypeInit, TypeStep, PTL DEF Spec

-------------------------------------------------------------------------------
(* The order of the closures *)

LEMMA InitOrder == Init => JobsInOrder /\ IntakeInOrder /\ QueueInOrder
BY SetsAssumption DEF Init, JobsInOrder, IntakeInOrder, QueueInOrder, Jobs

\* The fix worker takes the closure at the head of the channel.
LEMMA HeadQueued ==
    ASSUME TypeOK, QueueInOrder, queue # <<>>
    PROVE  /\ Head(queue) \in Jobs
           /\ fjob[Head(queue)] = "queued"
           /\ \A i \in 1 .. Len(Tail(queue)) : fjob[Tail(queue)[i]] = "queued"
           /\ \A i \in 1 .. Len(Tail(queue)) : Tail(queue)[i] # Head(queue)
           /\ \A i, k \in 1 .. Len(Tail(queue)) : Tail(queue)[i] = Tail(queue)[k] => i = k
<1>1. queue \in Seq(Jobs) /\ Len(queue) \in Nat /\ Len(queue) >= 1
  BY DEF TypeOK
<1>2. Head(queue) = queue[1] /\ Len(Tail(queue)) = Len(queue) - 1
  BY <1>1
<1>3. \A i \in 1 .. Len(Tail(queue)) : Tail(queue)[i] = queue[i + 1]
  BY <1>1, <1>2
<1>4. QED
  BY <1>1, <1>2, <1>3 DEF QueueInOrder

\* A fix closure is only made, handed over and run in this order.
LEMMA JobsInOrderStep ==
    ASSUME TypeOK, JobsInOrder, IntakeInOrder, QueueInOrder, [Next]_vars
    PROVE  JobsInOrder'
<1> USE DEF JobsInOrder, runVars, jobVars, listVars, fixVars, diskVars
<1>a. /\ vjob \in [Jobs -> VerifyActive \cup {"none", "handed", "dropped", "panicked", "done"}]
      /\ fjob \in [Jobs -> FixActive \cup {"none", "done"}]
      /\ \A t \in Tasks, c \in Comics : <<t, c>> \in Jobs
  BY DEF TypeOK, Jobs
<1>b. ASSUME NEW t \in Tasks, phase[t] = "submitting"
      PROVE  cur[t] \in Comics /\ vjob[<<t, cur[t]>>] = "none"
  BY <1>b DEF TypeOK, IntakeInOrder
<1>c. hand # None => hand \in Jobs /\ fjob[hand] = "held"
  BY DEF TypeOK, QueueInOrder
<1>1. ASSUME NEW t \in Tasks, Starting(t)
      PROVE  JobsInOrder'
  BY <1>1, <1>a DEF Starting, Start, FindFails, Register
<1>2. ASSUME NEW t \in Tasks, RunTaskStep(t)
      PROVE  JobsInOrder'
  <2>1. CASE RunTask(t)
    BY <2>1, <1>a DEF RunTask
  <2>2. CASE ChannelClosed(t)
    BY <2>2, <1>a DEF ChannelClosed
  <2>3. CASE \E c \in Comics : Receive(t, c)
    BY <2>3, <1>a DEF Receive
  <2>4. CASE \E c \in Comics : ReceiveCanceled(t, c)
    BY <2>4, <1>a DEF ReceiveCanceled
  <2>5. CASE Submit(t)
    BY <2>5, <1>a, <1>b DEF Submit, FixActive, FixRunning
  <2>6. CASE SubmitFails(t)
    BY <2>6, <1>a, <1>b DEF SubmitFails, FixActive, FixRunning
  <2>7. CASE Drained(t)
    BY <2>7, <1>a DEF Drained
  <2>8. CASE cleanupTask(t)
    BY <2>8, <1>a DEF cleanupTask
  <2>9. QED
    BY <1>2, <2>1, <2>2, <2>3, <2>4, <2>5, <2>6, <2>7, <2>8 DEF RunTaskStep
<1>3. ASSUME NEW t \in Tasks, CancelTask(t)
      PROVE  JobsInOrder'
  BY <1>3, <1>a DEF CancelTask
<1>4. ASSUME NEW t \in Tasks, NEW c \in Comics, VerifyStep(t, c)
      PROVE  JobsInOrder'
  <2>1. CASE VerifyBegin(t, c)
    BY <2>1, <1>a DEF VerifyBegin, StartRunning
  <2>2. CASE VerifyReports(t, c)
    BY <2>2, <1>a DEF VerifyReports
  <2>3. CASE VerifyWaitsFix(t, c)
    BY <2>3, <1>a DEF VerifyWaitsFix, WaitFix
  <2>4. CASE VerifyLists(t, c)
    BY <2>4, <1>a DEF VerifyLists
  <2>5. CASE SendFix(t, c)
    BY <2>5, <1>a DEF SendFix
  <2>6. CASE QueueFull(t, c)
    BY <2>6, <1>a DEF QueueFull
  <2>7. CASE SendPanics(t, c)
    BY <2>7, <1>a DEF SendPanics
  <2>8. CASE VerifyCounts(t, c)
    BY <2>8, <1>a DEF VerifyCounts
  <2>9. CASE VerifySaves(t, c)
    BY <2>9, <1>a DEF VerifySaves
  <2>10. QED
    BY <1>4, <2>1, <2>2, <2>3, <2>4, <2>5, <2>6, <2>7, <2>8, <2>9 DEF VerifyStep
<1>5. ASSUME NEW t \in Tasks, NEW c \in Comics, FixStep(t, c)
      PROVE  JobsInOrder'
  <2>1. CASE FixBegin(t, c)
    BY <2>1, <1>a DEF FixBegin, Fix
  <2>2. CASE \E i \in Images : FixSkips(t, c, i) \/ FixImage(t, c, i) \/ FixImageFails(t, c, i)
    BY <2>2, <1>a DEF FixSkips, FixImage, FixImageFails
  <2>3. CASE FixCounts(t, c)
    BY <2>3, <1>a DEF FixCounts
  <2>4. CASE FixSaves(t, c)
    BY <2>4, <1>a DEF FixSaves
  <2>5. QED
    BY <1>5, <2>1, <2>2, <2>3, <2>4 DEF FixStep
<1>6. CASE FixWorkerStep
  <2>1. CASE StartFixWorker
    BY <2>1, <1>a DEF StartFixWorker
  <2>2. CASE FixTake
    <3>1. Head(queue) \in Jobs /\ fjob[Head(queue)] = "queued"
      BY <2>2, HeadQueued DEF FixTake
    <3>2. QED
      BY <2>2, <3>1, <1>a DEF FixTake, VerifyActive, Jobs
  <2>3. CASE FixSubmit
    BY <2>3, <1>a, <1>c DEF FixSubmit, VerifyActive, Jobs
  <2>4. CASE FixWorkerExits
    BY <2>4, <1>a DEF FixWorkerExits
  <2>5. QED
    BY <1>6, <2>1, <2>2, <2>3, <2>4 DEF FixWorkerStep
<1>7. CASE CloseBegin \/ CloseStep
  BY <1>7, <1>a DEF CloseBegin, CloseStep, CloseReleasesFix, CloseQueue, CloseReturns
<1>8. CASE UNCHANGED vars
  BY <1>8 DEF vars
<1>9. QED
  BY <1>1, <1>2, <1>3, <1>4, <1>5, <1>6, <1>7, <1>8 DEF Next

\* A comic is received once and submitted once.
LEMMA IntakeInOrderStep ==
    ASSUME TypeOK, JobsInOrder, IntakeInOrder, QueueInOrder, [Next]_vars
    PROVE  IntakeInOrder'
<1> USE DEF runVars, jobVars, listVars, fixVars, diskVars
<1>a. /\ vjob \in [Jobs -> VerifyActive \cup {"none", "handed", "dropped", "panicked", "done"}]
      /\ phase \in [Tasks -> {"idle", "finding", "failed", "launched", "receiving",
                              "submitting", "draining", "cleaning", "gone"}]
      /\ pending \in [Tasks -> SUBSET Comics]
      /\ cur \in [Tasks -> Comics \cup {None}]
      /\ None \notin Comics
      /\ \A t \in Tasks, c \in Comics : <<t, c>> \in Jobs
      /\ \A t \in Tasks : phase[t] = "submitting" <=> cur[t] \in Comics
  BY SetsAssumption DEF TypeOK, Jobs
<1>b. \A t \in Tasks, c \in Comics :
         /\ phase[t] \in {"idle", "finding"} \/ c \in pending[t] \/ c = cur[t]
               => vjob[<<t, c>>] = "none"
         /\ c = cur[t] => c \notin pending[t]
  BY DEF IntakeInOrder
\* Only a closure that exists moves: nothing is said about its comic.
<1>c. ASSUME NEW t \in Tasks, NEW c \in Comics, NEW x, UNCHANGED <<phase, pending, cur>>,
             vjob' = [vjob EXCEPT ![<<t, c>>] = x], vjob[<<t, c>>] # "none"
      PROVE  IntakeInOrder'
  <2>1. \A u \in Tasks, d \in Comics :
            vjob'[<<u, d>>] = IF u = t /\ d = c THEN x ELSE vjob[<<u, d>>]
    BY <1>a, <1>c
  <2>2. phase' = phase /\ pending' = pending /\ cur' = cur /\ vjob[<<t, c>>] # "none"
    BY <1>c
  <2>3. ASSUME NEW u \in Tasks, NEW d \in Comics,
               phase[u] \in {"idle", "finding"} \/ d \in pending[u] \/ d = cur[u]
        PROVE  vjob'[<<u, d>>] = "none"
    <3>1. vjob[<<u, d>>] = "none"
      BY <1>b, <2>3
    <3>2. ~(u = t /\ d = c)
      BY <2>2, <3>1
    <3>3. QED
      BY <2>1, <3>1, <3>2
  <2>4. QED
    BY <1>b, <2>2, <2>3 DEF IntakeInOrder
<1>d. ASSUME UNCHANGED <<phase, pending, cur, vjob>>
      PROVE  IntakeInOrder'
  BY <1>b, <1>d DEF IntakeInOrder
<1>1. ASSUME NEW t \in Tasks, Starting(t)
      PROVE  IntakeInOrder'
  <2>1. CASE Start(t)
    BY <2>1, <1>a, <1>b DEF Start, IntakeInOrder
  <2>2. CASE FindFails(t)
    BY <2>2, <1>a, <1>b DEF FindFails, IntakeInOrder
  <2>3. CASE Register(t)
    <3>1. \A c \in Comics : vjob[<<t, c>>] = "none" /\ c # cur[t]
      BY <2>3, <1>a, <1>b DEF Register
    <3>2. QED
      BY <2>3, <3>1, <1>a, <1>b DEF Register, IntakeInOrder
  <2>4. QED
    BY <1>1, <2>1, <2>2, <2>3 DEF Starting
<1>2. ASSUME NEW t \in Tasks, RunTaskStep(t)
      PROVE  IntakeInOrder'
  <2>1. CASE RunTask(t)
    BY <2>1, <1>a, <1>b DEF IntakeInOrder, RunTask
  <2>2. CASE ChannelClosed(t)
    BY <2>2, <1>a, <1>b DEF IntakeInOrder, ChannelClosed
  <2>3. CASE \E c \in Comics : Receive(t, c)
    <3>1. PICK c \in Comics : Receive(t, c)
      BY <2>3
    <3>2. c \in pending[t] /\ vjob[<<t, c>>] = "none"
      BY <3>1, <1>b DEF Receive
    <3>3. QED
      BY <3>1, <3>2, <1>a, <1>b DEF Receive, IntakeInOrder
  <2>4. CASE \E c \in Comics : ReceiveCanceled(t, c)
    <3>1. PICK c \in Comics : ReceiveCanceled(t, c)
      BY <2>4
    <3>2. QED
      BY <3>1, <1>a, <1>b DEF ReceiveCanceled, IntakeInOrder
  <2>5. CASE Submit(t)
    BY <2>5, <1>a, <1>b DEF IntakeInOrder, Submit, Jobs
  <2>6. CASE SubmitFails(t)
    BY <2>6, <1>a, <1>b DEF IntakeInOrder, SubmitFails, Jobs
  <2>7. CASE Drained(t)
    BY <2>7, <1>a, <1>b DEF IntakeInOrder, Drained
  <2>8. CASE cleanupTask(t)
    BY <2>8, <1>a, <1>b DEF IntakeInOrder, cleanupTask
  <2>9. QED
    BY <1>2, <2>1, <2>2, <2>3, <2>4, <2>5, <2>6, <2>7, <2>8 DEF RunTaskStep
<1>3. ASSUME NEW t \in Tasks, CancelTask(t)
      PROVE  IntakeInOrder'
  BY <1>3, <1>d DEF CancelTask
<1>4. ASSUME NEW t \in Tasks, NEW c \in Comics, VerifyStep(t, c)
      PROVE  IntakeInOrder'
  <2>1. CASE VerifyBegin(t, c)
    BY <2>1, <1>c DEF VerifyBegin, StartRunning
  <2>2. CASE VerifyReports(t, c)
    BY <2>2, <1>c DEF VerifyReports
  <2>3. CASE VerifyWaitsFix(t, c)
    BY <2>3, <1>c DEF VerifyWaitsFix, WaitFix
  <2>4. CASE VerifyLists(t, c)
    BY <2>4, <1>c DEF VerifyLists
  <2>5. CASE SendFix(t, c)
    BY <2>5, <1>c DEF SendFix
  <2>6. CASE QueueFull(t, c)
    BY <2>6, <1>c DEF QueueFull
  <2>7. CASE SendPanics(t, c)
    BY <2>7, <1>c DEF SendPanics
  <2>8. CASE VerifyCounts(t, c)
    BY <2>8, <1>c DEF VerifyCounts
  <2>9. CASE VerifySaves(t, c)
    BY <2>9, <1>c DEF VerifySaves
  <2>10. QED
    BY <1>4, <2>1, <2>2, <2>3, <2>4, <2>5, <2>6, <2>7, <2>8, <2>9 DEF VerifyStep
<1>5. ASSUME NEW t \in Tasks, NEW c \in Comics, FixStep(t, c)
      PROVE  IntakeInOrder'
  BY <1>5, <1>d DEF FixStep, FixBegin, Fix, FixSkips, FixImage,
          FixImageFails, FixCounts, FixSaves
<1>6. CASE FixWorkerStep
  BY <1>6, <1>d DEF FixWorkerStep, StartFixWorker, FixTake,
          FixSubmit, FixWorkerExits
<1>7. CASE CloseBegin \/ CloseStep
  BY <1>7, <1>d DEF CloseBegin, CloseStep, CloseReleasesFix, CloseQueue, CloseReturns
<1>8. CASE UNCHANGED vars
  BY <1>8, <1>d DEF vars
<1>9. QED
  BY <1>1, <1>2, <1>3, <1>4, <1>5, <1>6, <1>7, <1>8 DEF Next

\* The channel never holds a closure twice, nor one that has run.
LEMMA QueueInOrderStep ==
    ASSUME TypeOK, JobsInOrder, IntakeInOrder, QueueInOrder, [Next]_vars
    PROVE  QueueInOrder'
<1> USE SetsAssumption DEF runVars, jobVars, listVars, fixVars, diskVars
<1>a. /\ fjob = [j \in Jobs |-> fjob[j]]
      /\ queue \in Seq(Jobs)
      /\ hand \in Jobs \cup {None}
      /\ None \notin Jobs
      /\ \A t \in Tasks, c \in Comics : <<t, c>> \in Jobs
  BY DEF TypeOK, Jobs
<1>b. /\ \A i \in 1 .. Len(queue) : queue[i] \in Jobs /\ fjob[queue[i]] = "queued"
      /\ \A i, k \in 1 .. Len(queue) : queue[i] = queue[k] => i = k
      /\ hand # None => fjob[hand] = "held"
  BY <1>a DEF QueueInOrder
\* A fix closure at none of "queued" and "held" may move to any other point.
<1>c. ASSUME NEW t \in Tasks, NEW c \in Comics, NEW x, UNCHANGED <<queue, hand>>,
             fjob' = [fjob EXCEPT ![<<t, c>>] = x],
             fjob[<<t, c>>] \notin {"queued", "held"}
      PROVE  QueueInOrder'
  BY <1>a, <1>b, <1>c DEF QueueInOrder
<1>d. ASSUME UNCHANGED <<queue, hand, fjob>>
      PROVE  QueueInOrder'
  BY <1>b, <1>d DEF QueueInOrder
<1>1. ASSUME NEW t \in Tasks, Starting(t)
      PROVE  QueueInOrder'
  BY <1>1, <1>d DEF Starting, Start, FindFails, Register
<1>2. ASSUME NEW t \in Tasks, RunTaskStep(t)
      PROVE  QueueInOrder'
  BY <1>2, <1>d DEF RunTaskStep, RunTask, ChannelClosed, Receive, ReceiveCanceled,
          Submit, SubmitFails, Drained, cleanupTask
<1>3. ASSUME NEW t \in Tasks, CancelTask(t)
      PROVE  QueueInOrder'
  BY <1>3, <1>d DEF CancelTask
<1>4. ASSUME NEW t \in Tasks, NEW c \in Comics, VerifyStep(t, c)
      PROVE  QueueInOrder'
  <2>1. CASE VerifyBegin(t, c)
    BY <2>1, <1>d DEF VerifyBegin, StartRunning
  <2>2. CASE VerifyReports(t, c)
    BY <2>2, <1>d DEF VerifyReports
  <2>3. CASE VerifyWaitsFix(t, c)
    <3>1. fjob[<<t, c>>] = "none"
      BY <2>3 DEF VerifyWaitsFix, WaitFix, JobsInOrder
    <3>2. QED
      BY <2>3, <3>1, <1>c DEF VerifyWaitsFix, WaitFix
  <2>4. CASE VerifyLists(t, c)
    BY <2>4, <1>d DEF VerifyLists
  <2>5. CASE SendFix(t, c)
    <3>1. fjob[<<t, c>>] = "created"
      BY <2>5 DEF SendFix, JobsInOrder
    <3>2. /\ Len(queue') = Len(queue) + 1
          /\ \A i \in 1 .. Len(queue) : queue'[i] = queue[i]
          /\ queue'[Len(queue) + 1] = <<t, c>>
      BY <2>5, <1>a DEF SendFix
    <3>3. \A i \in 1 .. Len(queue) : queue[i] # <<t, c>>
      BY <3>1, <1>b
    <3>4. hand # <<t, c>>
      BY <3>1, <1>a, <1>b
    <3>5. QED
      <4>1. fjob' = [fjob EXCEPT ![<<t, c>>] = "queued"] /\ hand' = hand
        BY <2>5 DEF SendFix
      <4>2. ASSUME NEW i \in 1 .. Len(queue')
            PROVE  fjob'[queue'[i]] = "queued"
        BY <1>a, <1>b, <3>2, <4>1
      <4>3. ASSUME NEW i \in 1 .. Len(queue'), NEW k \in 1 .. Len(queue'),
                   queue'[i] = queue'[k]
            PROVE  i = k
        BY <1>a, <1>b, <3>2, <3>3, <4>3
      <4>4. hand' # None => fjob'[hand'] = "held"
        BY <1>a, <1>b, <3>4, <4>1
      <4>5. QED
        BY <4>2, <4>3, <4>4 DEF QueueInOrder
  <2>6. CASE QueueFull(t, c)
    BY <2>6, <1>d DEF QueueFull
  <2>7. CASE SendPanics(t, c)
    BY <2>7, <1>d DEF SendPanics
  <2>8. CASE VerifyCounts(t, c)
    BY <2>8, <1>d DEF VerifyCounts
  <2>9. CASE VerifySaves(t, c)
    BY <2>9, <1>d DEF VerifySaves
  <2>10. QED
    BY <1>4, <2>1, <2>2, <2>3, <2>4, <2>5, <2>6, <2>7, <2>8, <2>9 DEF VerifyStep
<1>5. ASSUME NEW t \in Tasks, NEW c \in Comics, FixStep(t, c)
      PROVE  QueueInOrder'
  <2>1. CASE FixBegin(t, c)
    BY <2>1, <1>c DEF FixBegin, Fix
  <2>2. CASE \E i \in Images : FixSkips(t, c, i) \/ FixImage(t, c, i) \/ FixImageFails(t, c, i)
    BY <2>2, <1>d DEF FixSkips, FixImage, FixImageFails
  <2>3. CASE FixCounts(t, c)
    BY <2>3, <1>c DEF FixCounts
  <2>4. CASE FixSaves(t, c)
    BY <2>4, <1>c DEF FixSaves
  <2>5. QED
    BY <1>5, <2>1, <2>2, <2>3, <2>4 DEF FixStep
<1>6. CASE FixWorkerStep
  <2>1. CASE StartFixWorker
    BY <2>1, <1>d DEF StartFixWorker
  <2>2. CASE FixTake
    <3>1. queue' = Tail(queue) /\ Len(Tail(queue)) \in Nat
      BY <2>2, <1>a DEF FixTake
    <3>2. QED
      BY <2>2, <3>1, HeadQueued, <1>a DEF FixTake, QueueInOrder
  <2>3. CASE FixSubmit
    BY <2>3, <1>a, <1>b DEF FixSubmit, QueueInOrder
  <2>4. CASE FixWorkerExits
    BY <2>4, <1>d DEF FixWorkerExits
  <2>5. QED
    BY <1>6, <2>1, <2>2, <2>3, <2>4 DEF FixWorkerStep
<1>7. CASE CloseBegin \/ CloseStep
  BY <1>7, <1>d DEF CloseBegin, CloseStep, CloseReleasesFix, CloseQueue, CloseReturns
<1>8. CASE UNCHANGED vars
  BY <1>8, <1>d DEF vars
<1>9. QED
  BY <1>1, <1>2, <1>3, <1>4, <1>5, <1>6, <1>7, <1>8 DEF Next

-------------------------------------------------------------------------------
(* Counting closures *)

\* wg.Add and wg.Done go with the start and the return of every closure.
LEMMA WaitGroupStep ==
    ASSUME TypeOK, JobsInOrder, IntakeInOrder, QueueInOrder, WaitGroupCounts, [Next]_vars
    PROVE  WaitGroupCounts'
<1> USE DEF runVars, jobVars, listVars, fixVars, diskVars
<1> DEFINE V(u) == Cardinality(VerifyOpen(u))
           F(u) == Cardinality(FixOpen(u))
           P(u) == IF phase[u] = "submitting" THEN 1 ELSE 0
           Only(u, t, n) == IF u = t THEN n ELSE 0
<1>a. /\ \A u \in Tasks : V(u) \in Nat /\ F(u) \in Nat
      /\ \A u \in Tasks : wg[u] = V(u) + F(u) + P(u)
      /\ wg \in [Tasks -> Int]
      /\ phase \in [Tasks -> {"idle", "finding", "failed", "launched", "receiving",
                              "submitting", "draining", "cleaning", "gone"}]
  BY AtIsNat DEF VerifyOpen, FixOpen, WaitGroupCounts, TypeOK
<1>b. UNCHANGED vjob => \A u \in Tasks : V(u)' = V(u)
  BY DEF VerifyOpen, At
<1>c. UNCHANGED fjob => \A u \in Tasks : F(u)' = F(u)
  BY DEF FixOpen, At
<1>d. ASSUME NEW t \in Tasks, NEW c \in Comics, NEW x, NEW u \in Tasks,
             MovesTo(vjob', vjob, t, c, x)
      PROVE  V(u)' = V(u) + (IF u = t /\ x \in VerifyActive THEN 1 ELSE 0)
                          - (IF u = t /\ vjob[<<t, c>>] \in VerifyActive THEN 1 ELSE 0)
  <2>1. DOMAIN vjob = Jobs
    BY DEF TypeOK
  <2>2. QED
    BY <1>d, <2>1, AtStep DEF VerifyOpen
<1>e. ASSUME NEW t \in Tasks, NEW c \in Comics, NEW x, NEW u \in Tasks,
             MovesTo(fjob', fjob, t, c, x)
      PROVE  F(u)' = F(u) + (IF u = t /\ x \in FixActive THEN 1 ELSE 0)
                          - (IF u = t /\ fjob[<<t, c>>] \in FixActive THEN 1 ELSE 0)
  <2>1. DOMAIN fjob = Jobs
    BY DEF TypeOK
  <2>2. QED
    BY <1>e, <2>1, AtStep DEF FixOpen
<1>f. ASSUME \A u \in Tasks : wg'[u] = V(u)' + F(u)' + P(u)'
      PROVE  WaitGroupCounts'
  BY <1>f DEF WaitGroupCounts
<1> HIDE DEF V, F
<1>g. ASSUME UNCHANGED <<vjob, fjob, wg>>,
             \A u \in Tasks : phase[u] = "submitting" <=> phase'[u] = "submitting"
      PROVE  WaitGroupCounts'
  BY <1>a, <1>b, <1>c, <1>f, <1>g
\* A verify closure moves while the fix closures stay, with wg adjusted by d.
<1>h. ASSUME NEW t \in Tasks, NEW c \in Comics, NEW x, NEW d \in Int,
             MovesTo(vjob', vjob, t, c, x), UNCHANGED <<fjob, phase>>,
             WgAdds(t, d),
             d = (IF x \in VerifyActive THEN 1 ELSE 0)
                   - (IF vjob[<<t, c>>] \in VerifyActive THEN 1 ELSE 0)
      PROVE  WaitGroupCounts'
  <2>1. ASSUME NEW u \in Tasks
        PROVE  V(u)' = V(u) + Only(u, t, d)
    BY <1>d, <1>h, <1>a
  <2>2. ASSUME NEW u \in Tasks
        PROVE  wg'[u] = wg[u] + Only(u, t, d)
    BY <1>h, <1>a DEF WgAdds
  <2>3. QED
    BY <1>a, <1>c, <1>f, <1>h, <2>1, <2>2
\* A fix closure moves while the verify closures stay, with wg adjusted by d.
<1>i. ASSUME NEW t \in Tasks, NEW c \in Comics, NEW x, NEW d \in Int,
             MovesTo(fjob', fjob, t, c, x), UNCHANGED <<vjob, phase>>,
             WgAdds(t, d),
             d = (IF x \in FixActive THEN 1 ELSE 0)
                   - (IF fjob[<<t, c>>] \in FixActive THEN 1 ELSE 0)
      PROVE  WaitGroupCounts'
  <2>1. ASSUME NEW u \in Tasks
        PROVE  F(u)' = F(u) + Only(u, t, d)
    BY <1>e, <1>i, <1>a
  <2>2. ASSUME NEW u \in Tasks
        PROVE  wg'[u] = wg[u] + Only(u, t, d)
    BY <1>i, <1>a DEF WgAdds
  <2>3. QED
    BY <1>a, <1>b, <1>f, <1>i, <2>1, <2>2
<1>1. ASSUME NEW t \in Tasks, Starting(t)
      PROVE  WaitGroupCounts'
  <2>1. CASE Start(t)
    BY <2>1, <1>a, <1>g DEF Start
  <2>2. CASE FindFails(t)
    BY <2>2, <1>a, <1>g DEF FindFails
  <2>3. CASE Register(t)
    BY <2>3, <1>a, <1>g DEF Register
  <2>4. QED
    BY <1>1, <2>1, <2>2, <2>3 DEF Starting
<1>2. ASSUME NEW t \in Tasks, RunTaskStep(t)
      PROVE  WaitGroupCounts'
  <2>1. CASE RunTask(t)
    BY <2>1, <1>a, <1>g DEF RunTask
  <2>2. CASE ChannelClosed(t)
    BY <2>2, <1>a, <1>g DEF ChannelClosed
  <2>3. CASE \E c \in Comics : Receive(t, c)
    BY <2>3, <1>a, <1>b, <1>c, <1>f DEF Receive
  <2>4. CASE \E c \in Comics : ReceiveCanceled(t, c)
    BY <2>4, <1>a, <1>g DEF ReceiveCanceled
  <2>5. CASE Submit(t)
    <3>1. /\ cur[t] \in Comics /\ vjob[<<t, cur[t]>>] = "none"
          /\ MovesTo(vjob', vjob, t, cur[t], "spawned")
      BY <2>5 DEF Submit, MovesTo, TypeOK, IntakeInOrder
    <3>2. ASSUME NEW u \in Tasks
          PROVE  V(u)' = V(u) + Only(u, t, 1)
      BY <3>1, <1>d, <1>a DEF VerifyActive
    <3>3. QED
      BY <2>5, <3>2, <1>a, <1>c, <1>f DEF Submit
  <2>6. CASE SubmitFails(t)
    <3>1. /\ cur[t] \in Comics /\ vjob[<<t, cur[t]>>] = "none"
          /\ MovesTo(vjob', vjob, t, cur[t], "dropped")
      BY <2>6 DEF SubmitFails, MovesTo, TypeOK, IntakeInOrder
    <3>2. ASSUME NEW u \in Tasks
          PROVE  V(u)' = V(u)
      BY <3>1, <1>d, <1>a DEF VerifyActive
    <3>3. QED
      BY <2>6, <3>2, <1>a, <1>c, <1>f DEF SubmitFails
  <2>7. CASE Drained(t)
    BY <2>7, <1>a, <1>g DEF Drained
  <2>8. CASE cleanupTask(t)
    BY <2>8, <1>a, <1>g DEF cleanupTask
  <2>9. QED
    BY <1>2, <2>1, <2>2, <2>3, <2>4, <2>5, <2>6, <2>7, <2>8 DEF RunTaskStep
<1>3. ASSUME NEW t \in Tasks, CancelTask(t)
      PROVE  WaitGroupCounts'
  BY <1>3, <1>g DEF CancelTask
<1>4. ASSUME NEW t \in Tasks, NEW c \in Comics, VerifyStep(t, c)
      PROVE  WaitGroupCounts'
  <2>1. CASE VerifyBegin(t, c)
    <3>1. MovesTo(vjob', vjob, t, c, "verifying") /\ vjob[<<t, c>>] = "spawned"
      BY <2>1 DEF VerifyBegin, StartRunning, MovesTo
    <3>2. WgAdds(t, 0) /\ fjob' = fjob /\ phase' = phase
      BY <2>1, <1>a DEF VerifyBegin, StartRunning, WgAdds
    <3>3. QED
      BY <3>1, <3>2, <1>h DEF VerifyActive
  <2>2. CASE VerifyReports(t, c)
    <3>1. MovesTo(vjob', vjob, t, c, "counting") /\ vjob[<<t, c>>] = "verifying"
      BY <2>2 DEF VerifyReports, MovesTo
    <3>2. WgAdds(t, 0) /\ fjob' = fjob /\ phase' = phase
      BY <2>2, <1>a DEF VerifyReports, WgAdds
    <3>3. QED
      BY <3>1, <3>2, <1>h DEF VerifyActive
  <2>3. CASE VerifyWaitsFix(t, c)
    <3>1. /\ MovesTo(vjob', vjob, t, c, "sending") /\ vjob[<<t, c>>] = "verifying"
          /\ MovesTo(fjob', fjob, t, c, "created") /\ fjob[<<t, c>>] = "none"
      BY <2>3 DEF VerifyWaitsFix, WaitFix, MovesTo, JobsInOrder
    <3>2. ASSUME NEW u \in Tasks
          PROVE  V(u)' = V(u)
      BY <3>1, <1>d, <1>a DEF VerifyActive
    <3>3. ASSUME NEW u \in Tasks
          PROVE  F(u)' = F(u) + Only(u, t, 1)
      BY <3>1, <1>e, <1>a DEF FixActive, FixRunning
    <3>4. QED
      BY <2>3, <3>2, <3>3, <1>a, <1>f DEF VerifyWaitsFix, WaitFix
  <2>4. CASE VerifyLists(t, c)
    <3>1. MovesTo(vjob', vjob, t, c, "done") /\ vjob[<<t, c>>] = "verifying"
      BY <2>4 DEF VerifyLists, MovesTo
    <3>2. WgAdds(t, -1) /\ fjob' = fjob /\ phase' = phase
      BY <2>4, <1>a DEF VerifyLists, WgAdds
    <3>3. QED
      BY <3>1, <3>2, <1>h DEF VerifyActive
  <2>5. CASE SendFix(t, c)
    <3>1. /\ MovesTo(vjob', vjob, t, c, "handed") /\ vjob[<<t, c>>] = "sending"
          /\ MovesTo(fjob', fjob, t, c, "queued") /\ fjob[<<t, c>>] = "created"
      BY <2>5 DEF SendFix, MovesTo, JobsInOrder
    <3>2. ASSUME NEW u \in Tasks
          PROVE  V(u)' = V(u) - Only(u, t, 1)
      BY <3>1, <1>d, <1>a DEF VerifyActive
    <3>3. ASSUME NEW u \in Tasks
          PROVE  F(u)' = F(u)
      BY <3>1, <1>e, <1>a DEF FixActive, FixRunning
    <3>4. QED
      BY <2>5, <3>2, <3>3, <1>a, <1>f DEF SendFix
  <2>6. CASE QueueFull(t, c)
    <3>1. MovesTo(vjob', vjob, t, c, "counting") /\ vjob[<<t, c>>] = "sending"
      BY <2>6 DEF QueueFull, MovesTo
    <3>2. WgAdds(t, 0) /\ fjob' = fjob /\ phase' = phase
      BY <2>6, <1>a DEF QueueFull, WgAdds
    <3>3. QED
      BY <3>1, <3>2, <1>h DEF VerifyActive
  <2>7. CASE SendPanics(t, c)
    <3>1. MovesTo(vjob', vjob, t, c, "panicked") /\ vjob[<<t, c>>] = "sending"
      BY <2>7 DEF SendPanics, MovesTo
    <3>2. WgAdds(t, -1) /\ fjob' = fjob /\ phase' = phase
      BY <2>7, <1>a DEF SendPanics, WgAdds
    <3>3. QED
      BY <3>1, <3>2, <1>h DEF VerifyActive
  <2>8. CASE VerifyCounts(t, c)
    <3>1. MovesTo(vjob', vjob, t, c, "saving") /\ vjob[<<t, c>>] = "counting"
      BY <2>8 DEF VerifyCounts, MovesTo
    <3>2. WgAdds(t, 0) /\ fjob' = fjob /\ phase' = phase
      BY <2>8, <1>a DEF VerifyCounts, WgAdds
    <3>3. QED
      BY <3>1, <3>2, <1>h DEF VerifyActive
  <2>9. CASE VerifySaves(t, c)
    <3>1. MovesTo(vjob', vjob, t, c, "done") /\ vjob[<<t, c>>] = "saving"
      BY <2>9 DEF VerifySaves, MovesTo
    <3>2. WgAdds(t, -1) /\ fjob' = fjob /\ phase' = phase
      BY <2>9, <1>a DEF VerifySaves, WgAdds
    <3>3. QED
      BY <3>1, <3>2, <1>h DEF VerifyActive
  <2>10. QED
    BY <1>4, <2>1, <2>2, <2>3, <2>4, <2>5, <2>6, <2>7, <2>8, <2>9 DEF VerifyStep
<1>5. ASSUME NEW t \in Tasks, NEW c \in Comics, FixStep(t, c)
      PROVE  WaitGroupCounts'
  <2>1. CASE FixBegin(t, c)
    <3>1. MovesTo(fjob', fjob, t, c, "fixing") /\ fjob[<<t, c>>] = "spawned"
      BY <2>1 DEF FixBegin, Fix, MovesTo
    <3>2. WgAdds(t, 0) /\ vjob' = vjob /\ phase' = phase
      BY <2>1, <1>a DEF FixBegin, Fix, WgAdds
    <3>3. QED
      BY <3>1, <3>2, <1>i DEF FixActive, FixRunning
  <2>2. CASE \E i \in Images : FixSkips(t, c, i) \/ FixImage(t, c, i) \/ FixImageFails(t, c, i)
    BY <2>2, <1>g DEF FixSkips, FixImage, FixImageFails
  <2>3. CASE FixCounts(t, c)
    <3>1. MovesTo(fjob', fjob, t, c, "saving") /\ fjob[<<t, c>>] = "fixing"
      BY <2>3 DEF FixCounts, MovesTo
    <3>2. WgAdds(t, 0) /\ vjob' = vjob /\ phase' = phase
      BY <2>3, <1>a DEF FixCounts, WgAdds
    <3>3. QED
      BY <3>1, <3>2, <1>i DEF FixActive, FixRunning
  <2>4. CASE FixSaves(t, c)
    <3>1. MovesTo(fjob', fjob, t, c, "done") /\ fjob[<<t, c>>] = "saving"
      BY <2>4 DEF FixSaves, MovesTo
    <3>2. WgAdds(t, -1) /\ vjob' = vjob /\ phase' = phase
      BY <2>4, <1>a DEF FixSaves, WgAdds
    <3>3. QED
      BY <3>1, <3>2, <1>i DEF FixActive, FixRunning
  <2>5. QED
    BY <1>5, <2>1, <2>2, <2>3, <2>4 DEF FixStep
<1>6. CASE FixWorkerStep
  <2>1. CASE StartFixWorker
    BY <2>1, <1>g DEF StartFixWorker
  <2>2. CASE FixTake
    <3>1. PICK t \in Tasks, c \in Comics : Head(queue) = <<t, c>> /\ fjob[<<t, c>>] = "queued"
      BY <2>2, HeadQueued DEF FixTake, Jobs
    <3>2. MovesTo(fjob', fjob, t, c, "held")
      BY <2>2, <3>1 DEF FixTake, MovesTo
    <3>3. WgAdds(t, 0) /\ vjob' = vjob /\ phase' = phase
      BY <2>2, <1>a DEF FixTake, WgAdds
    <3>4. QED
      BY <3>1, <3>2, <3>3, <1>i DEF FixActive, FixRunning
  <2>3. CASE FixSubmit
    <3>0. hand \in Jobs /\ fjob[hand] = "held"
      BY <2>3 DEF FixSubmit, TypeOK, QueueInOrder
    <3>1. PICK t \in Tasks, c \in Comics : hand = <<t, c>> /\ fjob[<<t, c>>] = "held"
      BY <3>0 DEF Jobs
    <3>2. MovesTo(fjob', fjob, t, c, "spawned")
      BY <2>3, <3>1 DEF FixSubmit, MovesTo
    <3>3. WgAdds(t, 0) /\ vjob' = vjob /\ phase' = phase
      BY <2>3, <1>a DEF FixSubmit, WgAdds
    <3>4. QED
      BY <3>1, <3>2, <3>3, <1>i DEF FixActive, FixRunning
  <2>4. CASE FixWorkerExits
    BY <2>4, <1>g DEF FixWorkerExits
  <2>5. QED
    BY <1>6, <2>1, <2>2, <2>3, <2>4 DEF FixWorkerStep
<1>7. CASE CloseBegin \/ CloseStep
  BY <1>7, <1>g DEF CloseBegin, CloseStep, CloseReleasesFix, CloseQueue, CloseReturns
<1>8. CASE UNCHANGED vars
  BY <1>8, <1>g DEF vars
<1>9. QED
  BY <1>1, <1>2, <1>3, <1>4, <1>5, <1>6, <1>7, <1>8 DEF Next

\* A task is cleaned up when its count is zero, and no closure of it starts
\* afterwards.
LEMMA CleanupIsLastStep ==
    ASSUME TypeOK, JobsInOrder, IntakeInOrder, QueueInOrder, WaitGroupCounts, CleanupIsLast,
           [Next]_vars
    PROVE  CleanupIsLast'
<1> USE DEF runVars, jobVars, listVars, fixVars, diskVars
<1> DEFINE Over(t) == phase[t] \in {"cleaning", "gone"}
           Quiet(t) == \A c \in Comics : /\ vjob[<<t, c>>] \notin VerifyActive
                                         /\ fjob[<<t, c>>] \notin FixActive
<1>a. \A t \in Tasks : Over(t) => Quiet(t)
  BY DEF CleanupIsLast, VerifyOpen, FixOpen, At
<1>b. ASSUME \A t \in Tasks : Over(t)' => Quiet(t)'
      PROVE  CleanupIsLast'
  BY <1>b DEF CleanupIsLast, VerifyOpen, FixOpen, At
<1>c. /\ vjob \in [Jobs -> VerifyActive \cup {"none", "handed", "dropped", "panicked", "done"}]
      /\ fjob \in [Jobs -> FixActive \cup {"none", "done"}]
      /\ phase \in [Tasks -> {"idle", "finding", "failed", "launched", "receiving",
                              "submitting", "draining", "cleaning", "gone"}]
      /\ \A t \in Tasks, c \in Comics : <<t, c>> \in Jobs
  BY DEF TypeOK, Jobs
<1>d. ASSUME UNCHANGED <<vjob, fjob>>, \A t \in Tasks : Over(t)' => Over(t)
      PROVE  CleanupIsLast'
  BY <1>a, <1>b, <1>d
\* The closures of a task that is not over may move.
<1>e. ASSUME NEW t \in Tasks, NEW c \in Comics, ~Over(t), UNCHANGED phase,
             \A j \in Jobs : j[1] # t => vjob'[j] = vjob[j] /\ fjob'[j] = fjob[j]
      PROVE  CleanupIsLast'
  <2>1. ASSUME NEW u \in Tasks, Over(u)', NEW d \in Comics
        PROVE  vjob'[<<u, d>>] \notin VerifyActive /\ fjob'[<<u, d>>] \notin FixActive
    <3>1. Over(u) /\ u # t
      BY <1>e, <2>1
    <3>2. vjob'[<<u, d>>] = vjob[<<u, d>>] /\ fjob'[<<u, d>>] = fjob[<<u, d>>]
      BY <1>c, <1>e, <3>1
    <3>3. QED
      BY <1>a, <3>1, <3>2
  <2>2. QED
    BY <1>b, <2>1
<1>1. ASSUME NEW t \in Tasks, Starting(t)
      PROVE  CleanupIsLast'
  <2>1. CASE Start(t)
    BY <2>1, <1>c, <1>d DEF Start
  <2>2. CASE FindFails(t)
    BY <2>2, <1>c, <1>d DEF FindFails
  <2>3. CASE Register(t)
    BY <2>3, <1>c, <1>d DEF Register
  <2>4. QED
    BY <1>1, <2>1, <2>2, <2>3 DEF Starting
<1>2. ASSUME NEW t \in Tasks, RunTaskStep(t)
      PROVE  CleanupIsLast'
  <2>1. CASE RunTask(t)
    BY <2>1, <1>c, <1>d DEF RunTask
  <2>2. CASE ChannelClosed(t)
    BY <2>2, <1>c, <1>d DEF ChannelClosed
  <2>3. CASE \E c \in Comics : Receive(t, c)
    BY <2>3, <1>c, <1>d DEF Receive
  <2>4. CASE \E c \in Comics : ReceiveCanceled(t, c)
    BY <2>4, <1>c, <1>d DEF ReceiveCanceled
  <2>5. CASE Submit(t)
    <3>1. ASSUME NEW u \in Tasks, Over(u)'
          PROVE  Over(u) /\ u # t
      BY <2>5, <3>1, <1>c DEF Submit
    <3>2. \A u \in Tasks, d \in Comics : u # t => vjob'[<<u, d>>] = vjob[<<u, d>>]
      BY <2>5, <1>c DEF Submit
    <3>3. fjob' = fjob
      BY <2>5 DEF Submit
    <3>4. QED
      BY <3>1, <3>2, <3>3, <1>a, <1>b
  <2>6. CASE SubmitFails(t)
    <3>1. ASSUME NEW u \in Tasks, Over(u)'
          PROVE  Over(u) /\ u # t
      BY <2>6, <3>1, <1>c DEF SubmitFails
    <3>2. \A u \in Tasks, d \in Comics : u # t => vjob'[<<u, d>>] = vjob[<<u, d>>]
      BY <2>6, <1>c DEF SubmitFails
    <3>3. fjob' = fjob
      BY <2>6 DEF SubmitFails
    <3>4. QED
      BY <3>1, <3>2, <3>3, <1>a, <1>b
  <2>7. CASE Drained(t)
    <3>1. VerifyOpen(t) = {} /\ FixOpen(t) = {}
      <4>1. Cardinality(VerifyOpen(t)) \in Nat /\ Cardinality(FixOpen(t)) \in Nat
        BY AtIsNat DEF VerifyOpen, FixOpen
      <4>2. Cardinality(VerifyOpen(t)) = 0 /\ Cardinality(FixOpen(t)) = 0
        BY <2>7, <4>1 DEF Drained, WaitGroupCounts
      <4>3. QED
        BY <4>2, AtIsNat, FS_EmptySet DEF VerifyOpen, FixOpen
    <3>2. Quiet(t)
      BY <3>1 DEF VerifyOpen, FixOpen, At
    <3>3. QED
      BY <2>7, <3>2, <1>a, <1>b, <1>c DEF Drained
  <2>8. CASE cleanupTask(t)
    BY <2>8, <1>c, <1>d DEF cleanupTask
  <2>9. QED
    BY <1>2, <2>1, <2>2, <2>3, <2>4, <2>5, <2>6, <2>7, <2>8 DEF RunTaskStep
<1>3. ASSUME NEW t \in Tasks, CancelTask(t)
      PROVE  CleanupIsLast'
  BY <1>3, <1>d DEF CancelTask
<1>4. ASSUME NEW t \in Tasks, NEW c \in Comics, VerifyStep(t, c)
      PROVE  CleanupIsLast'
  <2>1. CASE VerifyBegin(t, c)
    <3>1. ~Over(t)
      BY <2>1, <1>a DEF VerifyBegin, StartRunning, VerifyActive
    <3>2. QED
      BY <2>1, <3>1, <1>c, <1>e DEF VerifyBegin, StartRunning, Jobs
  <2>2. CASE VerifyReports(t, c)
    <3>1. ~Over(t)
      BY <2>2, <1>a DEF VerifyReports, VerifyActive
    <3>2. QED
      BY <2>2, <3>1, <1>c, <1>e DEF VerifyReports, Jobs
  <2>3. CASE VerifyWaitsFix(t, c)
    <3>1. ~Over(t)
      BY <2>3, <1>a DEF VerifyWaitsFix, WaitFix, VerifyActive
    <3>2. QED
      BY <2>3, <3>1, <1>c, <1>e DEF VerifyWaitsFix, WaitFix, Jobs
  <2>4. CASE VerifyLists(t, c)
    <3>1. ~Over(t)
      BY <2>4, <1>a DEF VerifyLists, VerifyActive
    <3>2. QED
      BY <2>4, <3>1, <1>c, <1>e DEF VerifyLists, Jobs
  <2>5. CASE SendFix(t, c)
    <3>1. ~Over(t)
      BY <2>5, <1>a DEF SendFix, VerifyActive
    <3>2. QED
      BY <2>5, <3>1, <1>c, <1>e DEF SendFix, Jobs
  <2>6. CASE QueueFull(t, c)
    <3>1. ~Over(t)
      BY <2>6, <1>a DEF QueueFull, VerifyActive
    <3>2. QED
      BY <2>6, <3>1, <1>c, <1>e DEF QueueFull, Jobs
  <2>7. CASE SendPanics(t, c)
    <3>1. ~Over(t)
      BY <2>7, <1>a DEF SendPanics, VerifyActive
    <3>2. QED
      BY <2>7, <3>1, <1>c, <1>e DEF SendPanics, Jobs
  <2>8. CASE VerifyCounts(t, c)
    <3>1. ~Over(t)
      BY <2>8, <1>a DEF VerifyCounts, VerifyActive
    <3>2. QED
      BY <2>8, <3>1, <1>c, <1>e DEF VerifyCounts, Jobs
  <2>9. CASE VerifySaves(t, c)
    <3>1. ~Over(t)
      BY <2>9, <1>a DEF VerifySaves, VerifyActive
    <3>2. QED
      BY <2>9, <3>1, <1>c, <1>e DEF VerifySaves, Jobs
  <2>10. QED
    BY <1>4, <2>1, <2>2, <2>3, <2>4, <2>5, <2>6, <2>7, <2>8, <2>9 DEF VerifyStep
<1>5. ASSUME NEW t \in Tasks, NEW c \in Comics, FixStep(t, c)
      PROVE  CleanupIsLast'
  <2>1. CASE FixBegin(t, c)
    <3>1. ~Over(t)
      BY <2>1, <1>a DEF FixBegin, Fix, FixActive, FixRunning
    <3>2. QED
      BY <2>1, <3>1, <1>c, <1>e DEF FixBegin, Fix, Jobs
  <2>2. CASE \E i \in Images : FixSkips(t, c, i) \/ FixImage(t, c, i) \/ FixImageFails(t, c, i)
    BY <2>2, <1>d DEF FixSkips, FixImage, FixImageFails
  <2>3. CASE FixCounts(t, c)
    <3>1. ~Over(t)
      BY <2>3, <1>a DEF FixCounts, FixActive, FixRunning
    <3>2. QED
      BY <2>3, <3>1, <1>c, <1>e DEF FixCounts, Jobs
  <2>4. CASE FixSaves(t, c)
    <3>1. ~Over(t)
      BY <2>4, <1>a DEF FixSaves, FixActive, FixRunning
    <3>2. QED
      BY <2>4, <3>1, <1>c, <1>e DEF FixSaves, Jobs
  <2>5. QED
    BY <1>5, <2>1, <2>2, <2>3, <2>4 DEF FixStep
<1>6. CASE FixWorkerStep
  <2>1. CASE StartFixWorker
    BY <2>1, <1>d DEF StartFixWorker
  <2>2. CASE FixTake
    <3>1. PICK t \in Tasks, c \in Comics : Head(queue) = <<t, c>> /\ fjob[<<t, c>>] = "queued"
      BY <2>2, HeadQueued DEF FixTake, Jobs
    <3>2. ~Over(t)
      BY <3>1, <1>a DEF FixActive
    <3>3. QED
      BY <2>2, <3>1, <3>2, <1>c, <1>e DEF FixTake, Jobs
  <2>3. CASE FixSubmit
    <3>0. hand \in Jobs /\ fjob[hand] = "held"
      BY <2>3 DEF FixSubmit, TypeOK, QueueInOrder
    <3>1. PICK t \in Tasks, c \in Comics : hand = <<t, c>> /\ fjob[<<t, c>>] = "held"
      BY <3>0 DEF Jobs
    <3>2. ~Over(t)
      BY <3>1, <1>a DEF FixActive
    <3>3. QED
      BY <2>3, <3>1, <3>2, <1>c, <1>e DEF FixSubmit, Jobs
  <2>4. CASE FixWorkerExits
    BY <2>4, <1>d DEF FixWorkerExits
  <2>5. QED
    BY <1>6, <2>1, <2>2, <2>3, <2>4 DEF FixWorkerStep
<1>7. CASE CloseBegin \/ CloseStep
  BY <1>7, <1>d DEF CloseBegin, CloseStep, CloseReleasesFix, CloseQueue, CloseReturns
<1>8. CASE UNCHANGED vars
  BY <1>8, <1>d DEF vars
<1>9. QED
  BY <1>1, <1>2, <1>3, <1>4, <1>5, <1>6, <1>7, <1>8 DEF Next

\* What the lists show of job <<u, d>> is where its closures are.
Shown(u, d) ==
    LET v == vjob[<<u, d>>]
        f == fjob[<<u, d>>]
    IN  /\ d \in running[u] <=>
              v = "verifying" \/ (v = "counting" /\ f = "none")
        /\ d \in waitFixing[u] <=>
              \/ v \in {"sending", "panicked"}
              \/ v = "counting" /\ f = "created"
              \/ f \in {"queued", "held", "spawned"}
        /\ d \in fixing[u] <=> f = "fixing"

\* A step moves no closure and no list entry of a job other than <<t, c>>.
OthersStay(t, c) ==
    \A u \in Tasks, d \in Comics : <<u, d>> # <<t, c>> =>
       /\ vjob'[<<u, d>>] = vjob[<<u, d>>] /\ fjob'[<<u, d>>] = fjob[<<u, d>>]
       /\ d \in running'[u] <=> d \in running[u]
       /\ d \in waitFixing'[u] <=> d \in waitFixing[u]
       /\ d \in fixing'[u] <=> d \in fixing[u]

\* The lists follow the closures: each of End, WaitFix and Fix takes the id from
\* the list it is on.
LEMMA ListsShowJobsStep ==
    ASSUME TypeOK, JobsInOrder, IntakeInOrder, QueueInOrder, ListsShowJobs, [Next]_vars
    PROVE  ListsShowJobs'
<1> USE DEF runVars, jobVars, listVars, fixVars, diskVars
<1>a. \A u \in Tasks, d \in Comics : Shown(u, d)
  BY DEF ListsShowJobs, Shown
<1>b. ASSUME \A u \in Tasks, d \in Comics : Shown(u, d)'
      PROVE  ListsShowJobs'
  BY <1>b DEF ListsShowJobs, Shown
<1>c. /\ vjob \in [Jobs -> VerifyActive \cup {"none", "handed", "dropped", "panicked", "done"}]
      /\ fjob \in [Jobs -> FixActive \cup {"none", "done"}]
      /\ running \in [Tasks -> SUBSET Comics]
      /\ waitFixing \in [Tasks -> SUBSET Comics]
      /\ fixing \in [Tasks -> SUBSET Comics]
      /\ \A t \in Tasks, c \in Comics : <<t, c>> \in Jobs
  BY DEF TypeOK, Jobs
<1>d. \A t \in Tasks, c \in Comics :
         LET v == vjob[<<t, c>>]
             f == fjob[<<t, c>>]
         IN  /\ v \in {"none", "spawned", "verifying", "dropped"} => f = "none"
             /\ v \in {"sending", "panicked"} => f = "created"
             /\ v \in {"counting", "saving", "done"} => f \in {"none", "created"}
             /\ v = "handed" => f \notin {"none", "created"}
  BY DEF JobsInOrder
<1>e. ASSUME UNCHANGED <<vjob, fjob, running, waitFixing, fixing>>
      PROVE  ListsShowJobs'
  BY <1>a, <1>b, <1>e DEF Shown
\* A step of job <<t, c>> leaves what the lists show of every other job alone.
<1>f. ASSUME NEW t \in Tasks, NEW c \in Comics,
             Shown(t, c)',
             OthersStay(t, c)
      PROVE  ListsShowJobs'
  <2>1. ASSUME NEW u \in Tasks, NEW d \in Comics, <<u, d>> # <<t, c>>
        PROVE  Shown(u, d)'
    BY <1>a, <1>f, <2>1 DEF Shown, OthersStay
  <2>2. QED
    BY <1>b, <1>f, <2>1
<1>1. ASSUME NEW t \in Tasks, Starting(t)
      PROVE  ListsShowJobs'
  <2>1. CASE Start(t)
    BY <2>1, <1>e DEF Start
  <2>2. CASE FindFails(t)
    BY <2>2, <1>e DEF FindFails
  <2>3. CASE Register(t)
    BY <2>3, <1>e DEF Register
  <2>4. QED
    BY <1>1, <2>1, <2>2, <2>3 DEF Starting
<1>2. ASSUME NEW t \in Tasks, RunTaskStep(t)
      PROVE  ListsShowJobs'
  <2>1. CASE RunTask(t)
    BY <2>1, <1>e DEF RunTask
  <2>2. CASE ChannelClosed(t)
    BY <2>2, <1>e DEF ChannelClosed
  <2>3. CASE \E c \in Comics : Receive(t, c)
    BY <2>3, <1>e DEF Receive
  <2>4. CASE \E c \in Comics : ReceiveCanceled(t, c)
    BY <2>4, <1>e DEF ReceiveCanceled
  <2>5. CASE Submit(t)
    <3>0. PICK c \in Comics : c = cur[t] /\ vjob[<<t, c>>] = "none"
      BY <2>5 DEF Submit, TypeOK, IntakeInOrder
    <3>1. Shown(t, c)'
      BY <2>5, <3>0, <1>a, <1>c, <1>d DEF Shown, Submit, VerifyActive, FixActive, FixRunning
    <3>2. OthersStay(t, c)
      BY <2>5, <3>0, <1>c DEF OthersStay, Submit
    <3>3. QED
      BY <3>1, <3>2, <1>f
  <2>6. CASE SubmitFails(t)
    <3>0. PICK c \in Comics : c = cur[t] /\ vjob[<<t, c>>] = "none"
      BY <2>6 DEF SubmitFails, TypeOK, IntakeInOrder
    <3>1. Shown(t, c)'
      BY <2>6, <3>0, <1>a, <1>c, <1>d DEF Shown, SubmitFails, VerifyActive, FixActive, FixRunning
    <3>2. OthersStay(t, c)
      BY <2>6, <3>0, <1>c DEF OthersStay, SubmitFails
    <3>3. QED
      BY <3>1, <3>2, <1>f
  <2>7. CASE Drained(t)
    BY <2>7, <1>e DEF Drained
  <2>8. CASE cleanupTask(t)
    BY <2>8, <1>e DEF cleanupTask
  <2>9. QED
    BY <1>2, <2>1, <2>2, <2>3, <2>4, <2>5, <2>6, <2>7, <2>8 DEF RunTaskStep
<1>3. ASSUME NEW t \in Tasks, CancelTask(t)
      PROVE  ListsShowJobs'
  BY <1>3, <1>e DEF CancelTask
<1>4. ASSUME NEW t \in Tasks, NEW c \in Comics, VerifyStep(t, c)
      PROVE  ListsShowJobs'
  <2>1. CASE VerifyBegin(t, c)
    <3>1. Shown(t, c)'
      BY <2>1, <1>a, <1>c, <1>d DEF Shown, VerifyBegin, StartRunning, VerifyActive, FixActive, FixRunning
    <3>2. OthersStay(t, c)
      BY <2>1, <1>c DEF OthersStay, VerifyBegin, StartRunning
    <3>3. QED
      BY <3>1, <3>2, <1>f
  <2>2. CASE VerifyReports(t, c)
    <3>1. Shown(t, c)'
      BY <2>2, <1>a, <1>c, <1>d DEF Shown, VerifyReports, VerifyActive, FixActive, FixRunning
    <3>2. OthersStay(t, c)
      BY <2>2, <1>c DEF OthersStay, VerifyReports
    <3>3. QED
      BY <3>1, <3>2, <1>f
  <2>3. CASE VerifyWaitsFix(t, c)
    <3>1. Shown(t, c)'
      BY <2>3, <1>a, <1>c, <1>d DEF Shown, VerifyWaitsFix, WaitFix, VerifyActive, FixActive, FixRunning
    <3>2. OthersStay(t, c)
      BY <2>3, <1>c DEF OthersStay, VerifyWaitsFix, WaitFix
    <3>3. QED
      BY <3>1, <3>2, <1>f
  <2>4. CASE VerifyLists(t, c)
    <3>1. Shown(t, c)'
      BY <2>4, <1>a, <1>c, <1>d DEF Shown, VerifyLists, VerifyActive, FixActive, FixRunning, EndLists
    <3>2. OthersStay(t, c)
      BY <2>4, <1>c DEF OthersStay, VerifyLists, EndLists
    <3>3. QED
      BY <3>1, <3>2, <1>f
  <2>5. CASE SendFix(t, c)
    <3>1. Shown(t, c)'
      BY <2>5, <1>a, <1>c, <1>d DEF Shown, SendFix, VerifyActive, FixActive, FixRunning
    <3>2. OthersStay(t, c)
      BY <2>5, <1>c DEF OthersStay, SendFix
    <3>3. QED
      BY <3>1, <3>2, <1>f
  <2>6. CASE QueueFull(t, c)
    <3>1. Shown(t, c)'
      BY <2>6, <1>a, <1>c, <1>d DEF Shown, QueueFull, VerifyActive, FixActive, FixRunning
    <3>2. OthersStay(t, c)
      BY <2>6, <1>c DEF OthersStay, QueueFull
    <3>3. QED
      BY <3>1, <3>2, <1>f
  <2>7. CASE SendPanics(t, c)
    <3>1. Shown(t, c)'
      BY <2>7, <1>a, <1>c, <1>d DEF Shown, SendPanics, VerifyActive, FixActive, FixRunning
    <3>2. OthersStay(t, c)
      BY <2>7, <1>c DEF OthersStay, SendPanics
    <3>3. QED
      BY <3>1, <3>2, <1>f
  <2>8. CASE VerifyCounts(t, c)
    <3>1. Shown(t, c)'
      BY <2>8, <1>a, <1>c, <1>d DEF Shown, VerifyCounts, VerifyActive, FixActive, FixRunning, EndLists
    <3>2. OthersStay(t, c)
      BY <2>8, <1>c DEF OthersStay, VerifyCounts, EndLists
    <3>3. QED
      BY <3>1, <3>2, <1>f
  <2>9. CASE VerifySaves(t, c)
    <3>1. Shown(t, c)'
      BY <2>9, <1>a, <1>c, <1>d DEF Shown, VerifySaves, VerifyActive, FixActive, FixRunning
    <3>2. OthersStay(t, c)
      BY <2>9, <1>c DEF OthersStay, VerifySaves
    <3>3. QED
      BY <3>1, <3>2, <1>f
  <2>10. QED
    BY <1>4, <2>1, <2>2, <2>3, <2>4, <2>5, <2>6, <2>7, <2>8, <2>9 DEF VerifyStep
<1>5. ASSUME NEW t \in Tasks, NEW c \in Comics, FixStep(t, c)
      PROVE  ListsShowJobs'
  <2>1. CASE FixBegin(t, c)
    <3>1. Shown(t, c)'
      BY <2>1, <1>a, <1>c, <1>d DEF Shown, FixBegin, Fix, VerifyActive, FixActive, FixRunning
    <3>2. OthersStay(t, c)
      BY <2>1, <1>c DEF OthersStay, FixBegin, Fix
    <3>3. QED
      BY <3>1, <3>2, <1>f
  <2>2. CASE \E i \in Images : FixSkips(t, c, i) \/ FixImage(t, c, i) \/ FixImageFails(t, c, i)
    BY <2>2, <1>e DEF FixSkips, FixImage, FixImageFails
  <2>3. CASE FixCounts(t, c)
    <3>1. Shown(t, c)'
      BY <2>3, <1>a, <1>c, <1>d DEF Shown, FixCounts, VerifyActive, FixActive, FixRunning, EndLists
    <3>2. OthersStay(t, c)
      BY <2>3, <1>c DEF OthersStay, FixCounts, EndLists
    <3>3. QED
      BY <3>1, <3>2, <1>f
  <2>4. CASE FixSaves(t, c)
    <3>1. Shown(t, c)'
      BY <2>4, <1>a, <1>c, <1>d DEF Shown, FixSaves, VerifyActive, FixActive, FixRunning
    <3>2. OthersStay(t, c)
      BY <2>4, <1>c DEF OthersStay, FixSaves
    <3>3. QED
      BY <3>1, <3>2, <1>f
  <2>5. QED
    BY <1>5, <2>1, <2>2, <2>3, <2>4 DEF FixStep
<1>6. CASE FixWorkerStep
  <2>1. CASE StartFixWorker
    BY <2>1, <1>e DEF StartFixWorker
  <2>2. CASE FixTake
    <3>0. PICK t \in Tasks, c \in Comics : Head(queue) = <<t, c>> /\ fjob[<<t, c>>] = "queued"
      BY <2>2, HeadQueued DEF FixTake, Jobs
    <3>1. Shown(t, c)'
      BY <2>2, <3>0, <1>a, <1>c, <1>d DEF Shown, FixTake, VerifyActive, FixActive, FixRunning
    <3>2. OthersStay(t, c)
      BY <2>2, <3>0, <1>c DEF OthersStay, FixTake
    <3>3. QED
      BY <3>1, <3>2, <1>f
  <2>3. CASE FixSubmit
    <3>a. hand \in Jobs /\ fjob[hand] = "held"
      BY <2>3 DEF FixSubmit, TypeOK, QueueInOrder
    <3>0. PICK t \in Tasks, c \in Comics : hand = <<t, c>> /\ fjob[<<t, c>>] = "held"
      BY <3>a DEF Jobs
    <3>1. Shown(t, c)'
      BY <2>3, <3>0, <1>a, <1>c, <1>d DEF Shown, FixSubmit, VerifyActive, FixActive, FixRunning
    <3>2. OthersStay(t, c)
      BY <2>3, <3>0, <1>c DEF OthersStay, FixSubmit
    <3>3. QED
      BY <3>1, <3>2, <1>f
  <2>4. CASE FixWorkerExits
    BY <2>4, <1>e DEF FixWorkerExits
  <2>5. QED
    BY <1>6, <2>1, <2>2, <2>3, <2>4 DEF FixWorkerStep
<1>7. CASE CloseBegin \/ CloseStep
  BY <1>7, <1>e DEF CloseBegin, CloseStep, CloseReleasesFix, CloseQueue, CloseReturns
<1>8. CASE UNCHANGED vars
  BY <1>8, <1>e DEF vars
<1>9. QED
  BY <1>1, <1>2, <1>3, <1>4, <1>5, <1>6, <1>7, <1>8 DEF Next

\* current.Add(d) on the progress of task t.
CurrentAdds(t, d) == current' = [current EXCEPT ![t] = current[t] + d]

\* A comic is counted at the end of its verify closure or of its fix closure;
\* the fix closure gets that far only when the verify closure handed it over.
LEMMA CountedOnceStep ==
    ASSUME TypeOK, JobsInOrder, JobsInOrder', IntakeInOrder, QueueInOrder, CountedOnce,
           [Next]_vars
    PROVE  CountedOnce'
<1> USE DEF runVars, jobVars, listVars, fixVars, diskVars
<1> DEFINE V(u) == Cardinality(VerifyCounted(u))
           F(u) == Cardinality(FixCounted(u))
           Only(u, t, n) == IF u = t THEN n ELSE 0
<1>a. /\ \A u \in Tasks : V(u) \in Nat /\ F(u) \in Nat
      /\ \A u \in Tasks : current[u] = V(u) + F(u)
      /\ current \in [Tasks -> Int]
  BY AtIsNat DEF VerifyCounted, FixCounted, CountedOnce, TypeOK
<1>b. UNCHANGED vjob => \A u \in Tasks : V(u)' = V(u)
  BY DEF VerifyCounted, At
<1>c. UNCHANGED fjob => \A u \in Tasks : F(u)' = F(u)
  BY DEF FixCounted, At
<1>d. ASSUME NEW t \in Tasks, NEW c \in Comics, NEW x, NEW u \in Tasks,
             MovesTo(vjob', vjob, t, c, x)
      PROVE  V(u)' = V(u) + (IF u = t /\ x \in {"saving", "done"} THEN 1 ELSE 0)
                          - (IF u = t /\ vjob[<<t, c>>] \in {"saving", "done"} THEN 1 ELSE 0)
  <2>1. DOMAIN vjob = Jobs
    BY DEF TypeOK
  <2>2. QED
    BY <1>d, <2>1, AtStep DEF VerifyCounted
<1>e. ASSUME NEW t \in Tasks, NEW c \in Comics, NEW x, NEW u \in Tasks,
             MovesTo(fjob', fjob, t, c, x)
      PROVE  F(u)' = F(u) + (IF u = t /\ x \in {"saving", "done"} THEN 1 ELSE 0)
                          - (IF u = t /\ fjob[<<t, c>>] \in {"saving", "done"} THEN 1 ELSE 0)
  <2>1. DOMAIN fjob = Jobs
    BY DEF TypeOK
  <2>2. QED
    BY <1>e, <2>1, AtStep DEF FixCounted
<1>f. ASSUME \A u \in Tasks : current'[u] = V(u)' + F(u)'
      PROVE  CountedOnce'
  <2>1. ASSUME NEW u \in Tasks, NEW c \in Comics
        PROVE  ~(/\ vjob'[<<u, c>>] \in {"saving", "done"}
                 /\ fjob'[<<u, c>>] \in {"saving", "done"})
    BY DEF JobsInOrder
  <2>2. \A u \in Tasks : (VerifyCounted(u) \cap FixCounted(u) = {})'
    BY <2>1 DEF VerifyCounted, FixCounted, At
  <2>3. QED
    BY <1>f, <2>2 DEF CountedOnce
<1> HIDE DEF V, F
<1>g. ASSUME UNCHANGED <<vjob, fjob, current>>
      PROVE  CountedOnce'
  BY <1>a, <1>b, <1>c, <1>f, <1>g
\* A verify closure moves while the fix closures stay, with current raised by d.
<1>h. ASSUME NEW t \in Tasks, NEW c \in Comics, NEW x, NEW d \in Int,
             MovesTo(vjob', vjob, t, c, x), UNCHANGED fjob,
             CurrentAdds(t, d),
             d = (IF x \in {"saving", "done"} THEN 1 ELSE 0)
                   - (IF vjob[<<t, c>>] \in {"saving", "done"} THEN 1 ELSE 0)
      PROVE  CountedOnce'
  <2>1. ASSUME NEW u \in Tasks
        PROVE  V(u)' = V(u) + Only(u, t, d)
    BY <1>d, <1>h, <1>a
  <2>2. ASSUME NEW u \in Tasks
        PROVE  current'[u] = current[u] + Only(u, t, d)
    BY <1>h, <1>a DEF CurrentAdds
  <2>3. QED
    BY <1>a, <1>c, <1>f, <1>h, <2>1, <2>2
\* A fix closure moves while the verify closures stay, with current raised by d.
<1>i. ASSUME NEW t \in Tasks, NEW c \in Comics, NEW x, NEW d \in Int,
             MovesTo(fjob', fjob, t, c, x), UNCHANGED vjob,
             CurrentAdds(t, d),
             d = (IF x \in {"saving", "done"} THEN 1 ELSE 0)
                   - (IF fjob[<<t, c>>] \in {"saving", "done"} THEN 1 ELSE 0)
      PROVE  CountedOnce'
  <2>1. ASSUME NEW u \in Tasks
        PROVE  F(u)' = F(u) + Only(u, t, d)
    BY <1>e, <1>i, <1>a
  <2>2. ASSUME NEW u \in Tasks
        PROVE  current'[u] = current[u] + Only(u, t, d)
    BY <1>i, <1>a DEF CurrentAdds
  <2>3. QED
    BY <1>a, <1>b, <1>f, <1>i, <2>1, <2>2
\* Both closures of a comic move between points where it is not counted.
<1>j. ASSUME NEW t \in Tasks, NEW c \in Comics, NEW x, NEW y,
             MovesTo(vjob', vjob, t, c, x), MovesTo(fjob', fjob, t, c, y),
             UNCHANGED current,
             x \notin {"saving", "done"}, vjob[<<t, c>>] \notin {"saving", "done"},
             y \notin {"saving", "done"}, fjob[<<t, c>>] \notin {"saving", "done"}
      PROVE  CountedOnce'
  <2>1. ASSUME NEW u \in Tasks
        PROVE  V(u)' = V(u) /\ F(u)' = F(u)
    <3>1. V(u) \in Nat /\ F(u) \in Nat
      BY <1>a
    <3>2. V(u)' = V(u) + 0 - 0
      BY <1>d, <1>j
    <3>3. F(u)' = F(u) + 0 - 0
      BY <1>e, <1>j
    <3>4. QED
      BY <3>1, <3>2, <3>3
  <2>2. QED
    BY <1>a, <1>f, <1>j, <2>1
<1>1. ASSUME NEW t \in Tasks, Starting(t)
      PROVE  CountedOnce'
  <2>1. CASE Start(t)
    BY <2>1, <1>g DEF Start
  <2>2. CASE FindFails(t)
    BY <2>2, <1>g DEF FindFails
  <2>3. CASE Register(t)
    BY <2>3, <1>g DEF Register
  <2>4. QED
    BY <1>1, <2>1, <2>2, <2>3 DEF Starting
<1>2. ASSUME NEW t \in Tasks, RunTaskStep(t)
      PROVE  CountedOnce'
  <2>1. CASE RunTask(t)
    BY <2>1, <1>g DEF RunTask
  <2>2. CASE ChannelClosed(t)
    BY <2>2, <1>g DEF ChannelClosed
  <2>3. CASE \E c \in Comics : Receive(t, c)
    BY <2>3, <1>g DEF Receive
  <2>4. CASE \E c \in Comics : ReceiveCanceled(t, c)
    BY <2>4, <1>g DEF ReceiveCanceled
  <2>5. CASE Submit(t)
    <3>1. cur[t] \in Comics /\ vjob[<<t, cur[t]>>] = "none"
      BY <2>5 DEF Submit, TypeOK, IntakeInOrder
    <3>2. MovesTo(vjob', vjob, t, cur[t], "spawned") /\ CurrentAdds(t, 0) /\ fjob' = fjob
      BY <2>5, <1>a DEF Submit, MovesTo, CurrentAdds
    <3>3. QED
      BY <3>1, <3>2, <1>h
  <2>6. CASE SubmitFails(t)
    <3>1. cur[t] \in Comics /\ vjob[<<t, cur[t]>>] = "none"
      BY <2>6 DEF SubmitFails, TypeOK, IntakeInOrder
    <3>2. MovesTo(vjob', vjob, t, cur[t], "dropped") /\ CurrentAdds(t, 0) /\ fjob' = fjob
      BY <2>6, <1>a DEF SubmitFails, MovesTo, CurrentAdds
    <3>3. QED
      BY <3>1, <3>2, <1>h
  <2>7. CASE Drained(t)
    BY <2>7, <1>g DEF Drained
  <2>8. CASE cleanupTask(t)
    BY <2>8, <1>g DEF cleanupTask
  <2>9. QED
    BY <1>2, <2>1, <2>2, <2>3, <2>4, <2>5, <2>6, <2>7, <2>8 DEF RunTaskStep
<1>3. ASSUME NEW t \in Tasks, CancelTask(t)
      PROVE  CountedOnce'
  BY <1>3, <1>g DEF CancelTask
<1>4. ASSUME NEW t \in Tasks, NEW c \in Comics, VerifyStep(t, c)
      PROVE  CountedOnce'
  <2>1. CASE VerifyBegin(t, c)
    <3>1. MovesTo(vjob', vjob, t, c, "verifying") /\ vjob[<<t, c>>] = "spawned"
      BY <2>1 DEF VerifyBegin, StartRunning, MovesTo
    <3>2. CurrentAdds(t, 0) /\ fjob' = fjob
      BY <2>1, <1>a DEF VerifyBegin, StartRunning, CurrentAdds
    <3>3. QED
      BY <3>1, <3>2, <1>h
  <2>2. CASE VerifyReports(t, c)
    <3>1. MovesTo(vjob', vjob, t, c, "counting") /\ vjob[<<t, c>>] = "verifying"
      BY <2>2 DEF VerifyReports, MovesTo
    <3>2. CurrentAdds(t, 0) /\ fjob' = fjob
      BY <2>2, <1>a DEF VerifyReports, CurrentAdds
    <3>3. QED
      BY <3>1, <3>2, <1>h
  <2>3. CASE VerifyWaitsFix(t, c)
    <3>1. /\ MovesTo(vjob', vjob, t, c, "sending") /\ vjob[<<t, c>>] = "verifying"
          /\ MovesTo(fjob', fjob, t, c, "created") /\ fjob[<<t, c>>] = "none"
      BY <2>3 DEF VerifyWaitsFix, WaitFix, MovesTo, JobsInOrder
    <3>2. UNCHANGED current
      BY <2>3 DEF VerifyWaitsFix, WaitFix
    <3>3. QED
      BY <3>1, <3>2, <1>j
  <2>4. CASE VerifyLists(t, c)
    <3>1. MovesTo(vjob', vjob, t, c, "done") /\ vjob[<<t, c>>] = "verifying"
      BY <2>4 DEF VerifyLists, MovesTo
    <3>2. CurrentAdds(t, 1) /\ fjob' = fjob
      BY <2>4, <1>a DEF VerifyLists, CurrentAdds
    <3>3. QED
      BY <3>1, <3>2, <1>h
  <2>5. CASE SendFix(t, c)
    <3>1. /\ MovesTo(vjob', vjob, t, c, "handed") /\ vjob[<<t, c>>] = "sending"
          /\ MovesTo(fjob', fjob, t, c, "queued") /\ fjob[<<t, c>>] = "created"
      BY <2>5 DEF SendFix, MovesTo, JobsInOrder
    <3>2. UNCHANGED current
      BY <2>5 DEF SendFix
    <3>3. QED
      BY <3>1, <3>2, <1>j
  <2>6. CASE QueueFull(t, c)
    <3>1. MovesTo(vjob', vjob, t, c, "counting") /\ vjob[<<t, c>>] = "sending"
      BY <2>6 DEF QueueFull, MovesTo
    <3>2. CurrentAdds(t, 0) /\ fjob' = fjob
      BY <2>6, <1>a DEF QueueFull, CurrentAdds
    <3>3. QED
      BY <3>1, <3>2, <1>h
  <2>7. CASE SendPanics(t, c)
    <3>1. MovesTo(vjob', vjob, t, c, "panicked") /\ vjob[<<t, c>>] = "sending"
      BY <2>7 DEF SendPanics, MovesTo
    <3>2. CurrentAdds(t, 0) /\ fjob' = fjob
      BY <2>7, <1>a DEF SendPanics, CurrentAdds
    <3>3. QED
      BY <3>1, <3>2, <1>h
  <2>8. CASE VerifyCounts(t, c)
    <3>1. MovesTo(vjob', vjob, t, c, "saving") /\ vjob[<<t, c>>] = "counting"
      BY <2>8 DEF VerifyCounts, MovesTo
    <3>2. CurrentAdds(t, 1) /\ fjob' = fjob
      BY <2>8, <1>a DEF VerifyCounts, CurrentAdds
    <3>3. QED
      BY <3>1, <3>2, <1>h
  <2>9. CASE VerifySaves(t, c)
    <3>1. MovesTo(vjob', vjob, t, c, "done") /\ vjob[<<t, c>>] = "saving"
      BY <2>9 DEF VerifySaves, MovesTo
    <3>2. CurrentAdds(t, 0) /\ fjob' = fjob
      BY <2>9, <1>a DEF VerifySaves, CurrentAdds
    <3>3. QED
      BY <3>1, <3>2, <1>h
  <2>10. QED
    BY <1>4, <2>1, <2>2, <2>3, <2>4, <2>5, <2>6, <2>7, <2>8, <2>9 DEF VerifyStep
<1>5. ASSUME NEW t \in Tasks, NEW c \in Comics, FixStep(t, c)
      PROVE  CountedOnce'
  <2>1. CASE FixBegin(t, c)
    <3>1. MovesTo(fjob', fjob, t, c, "fixing") /\ fjob[<<t, c>>] = "spawned"
      BY <2>1 DEF FixBegin, Fix, MovesTo
    <3>2. CurrentAdds(t, 0) /\ vjob' = vjob
      BY <2>1, <1>a DEF FixBegin, Fix, CurrentAdds
    <3>3. QED
      BY <3>1, <3>2, <1>i
  <2>2. CASE \E i \in Images : FixSkips(t, c, i) \/ FixImage(t, c, i) \/ FixImageFails(t, c, i)
    BY <2>2, <1>g DEF FixSkips, FixImage, FixImageFails
  <2>3. CASE FixCounts(t, c)
    <3>1. MovesTo(fjob', fjob, t, c, "saving") /\ fjob[<<t, c>>] = "fixing"
      BY <2>3 DEF FixCounts, MovesTo
    <3>2. CurrentAdds(t, 1) /\ vjob' = vjob
      BY <2>3, <1>a DEF FixCounts, CurrentAdds
    <3>3. QED
      BY <3>1, <3>2, <1>i
  <2>4. CASE FixSaves(t, c)
    <3>1. MovesTo(fjob', fjob, t, c, "done") /\ fjob[<<t, c>>] = "saving"
      BY <2>4 DEF FixSaves, MovesTo
    <3>2. CurrentAdds(t, 0) /\ vjob' = vjob
      BY <2>4, <1>a DEF FixSaves, CurrentAdds
    <3>3. QED
      BY <3>1, <3>2, <1>i
  <2>5. QED
    BY <1>5, <2>1, <2>2, <2>3, <2>4 DEF FixStep
<1>6. CASE FixWorkerStep
  <2>1. CASE StartFixWorker
    BY <2>1, <1>g DEF StartFixWorker
  <2>2. CASE FixTake
    <3>1. PICK t \in Tasks, c \in Comics : Head(queue) = <<t, c>> /\ fjob[<<t, c>>] = "queued"
      BY <2>2, HeadQueued DEF FixTake, Jobs
    <3>2. MovesTo(fjob', fjob, t, c, "held")
      BY <2>2, <3>1 DEF FixTake, MovesTo
    <3>3. CurrentAdds(t, 0) /\ vjob' = vjob
      BY <2>2, <1>a DEF FixTake, CurrentAdds
    <3>4. QED
      BY <3>1, <3>2, <3>3, <1>i
  <2>3. CASE FixSubmit
    <3>0. hand \in Jobs /\ fjob[hand] = "held"
      BY <2>3 DEF FixSubmit, TypeOK, QueueInOrder
    <3>1. PICK t \in Tasks, c \in Comics : hand = <<t, c>> /\ fjob[<<t, c>>] = "held"
      BY <3>0 DEF Jobs
    <3>2. MovesTo(fjob', fjob, t, c, "spawned")
      BY <2>3, <3>1 DEF FixSubmit, MovesTo
    <3>3. CurrentAdds(t, 0) /\ vjob' = vjob
      BY <2>3, <1>a DEF FixSubmit, CurrentAdds
    <3>4. QED
      BY <3>1, <3>2, <3>3, <1>i
  <2>4. CASE FixWorkerExits
    BY <2>4, <1>g DEF FixWorkerExits
  <2>5. QED
    BY <1>6, <2>1, <2>2, <2>3, <2>4 DEF FixWorkerStep
<1>7. CASE CloseBegin \/ CloseStep
  BY <1>7, <1>g DEF CloseBegin, CloseStep, CloseReleasesFix, CloseQueue, CloseReturns
<1>8. CASE UNCHANGED vars
  BY <1>8, <1>g DEF vars
<1>9. QED
  BY <1>1, <1>2, <1>3, <1>4, <1>5, <1>6, <1>7, <1>8 DEF Next

-------------------------------------------------------------------------------
(* The theorems *)

\* No closure has started, every count is zero, every list empty.
LEMMA InvInit == Init => IInv
<1> SUFFICES ASSUME Init
             PROVE  IInv
  OBVIOUS
<1>1. TypeOK /\ JobsInOrder /\ IntakeInOrder /\ QueueInOrder
  BY TypeInit, InitOrder
<1>2. \A t \in Tasks, c \in Comics :
         vjob[<<t, c>>] = "none" /\ fjob[<<t, c>>] = "none"
  BY DEF Init, Jobs
<1>3. \A t \in Tasks : /\ VerifyOpen(t) = {} /\ FixOpen(t) = {}
                       /\ VerifyCounted(t) = {} /\ FixCounted(t) = {}
  BY <1>2 DEF VerifyOpen, FixOpen, VerifyCounted, FixCounted, At, VerifyActive,
              FixActive, FixRunning
<1>4. Cardinality({}) = 0
  BY FS_EmptySet
<1>5. WaitGroupCounts
  <2>1. ASSUME NEW t \in Tasks
        PROVE  wg[t] = 0 /\ phase[t] # "submitting"
    BY DEF Init
  <2>2. QED
    BY <1>3, <1>4, <2>1 DEF WaitGroupCounts
<1>6. CleanupIsLast
  BY <1>3 DEF CleanupIsLast
<1>7. CountedOnce
  <2>1. ASSUME NEW t \in Tasks
        PROVE  current[t] = 0
    BY DEF Init
  <2>2. QED
    BY <1>3, <1>4, <2>1 DEF CountedOnce
<1>8. ListsShowJobs
  BY <1>2 DEF Init, ListsShowJobs
<1>9. QED
  BY <1>1, <1>5, <1>6, <1>7, <1>8 DEF IInv

\* Every step preserves the inductive invariant.
LEMMA InvStep == IInv /\ [Next]_vars => IInv'
<1> SUFFICES ASSUME IInv, [Next]_vars
             PROVE  IInv'
  OBVIOUS
<1>1. TypeOK' /\ JobsInOrder' /\ IntakeInOrder' /\ QueueInOrder'
  BY TypeStep, JobsInOrderStep, IntakeInOrderStep, QueueInOrderStep DEF IInv
<1>2. WaitGroupCounts' /\ CleanupIsLast'
  BY WaitGroupStep, CleanupIsLastStep DEF IInv
<1>3. CountedOnce' /\ ListsShowJobs'
  BY <1>1, CountedOnceStep, ListsShowJobsStep DEF IInv
<1>4. QED
  BY <1>1, <1>2, <1>3 DEF IInv

\* The inductive invariant holds in every state of every behaviour.
THEOREM InvCorrect == Spec => []IInv
BY InvInit, InvStep, PTL DEF Spec

\* The WaitGroup of a task counts exactly the closures that have not returned,
\* whatever the interleaving of runTask, the pools, CancelTask and Close: wg.Wait
\* never returns early and wg.Done never drives the counter below zero.
THEOREM WaitGroupCorrect == Spec => []WaitGroupCounts
<1>1. IInv => WaitGroupCounts
  BY DEF IInv
<1>2. QED
  BY <1>1, InvCorrect, PTL

\* No verify or fix closure of a task runs once cleanupTask has deleted it.
THEOREM CleanupCorrect == Spec => []CleanupIsLast
<1>1. IInv => CleanupIsLast
  BY DEF IInv
<1>2. QED
  BY <1>1, InvCorrect, PTL

\* Progress.Current counts each comic at most once, through whichever closure
\* ended its work.
THEOREM CountedCorrect == Spec => []CountedOnce
<1>1. IInv => CountedOnce
  BY DEF IInv
<1>2. QED
  BY <1>1, InvCorrect, PTL

\* The lists of a progress show exactly where the closures of each comic are.
THEOREM ListsCorrect == Spec => []ListsShowJobs
<1>1. IInv => ListsShowJobs
  BY DEF IInv
<1>2. QED
  BY <1>1, InvCorrect, PTL

\* After a cancellation that runTask can see, it takes up no further comic: it
\* stays at the receive or leaves the loop.
THEOREM CancelCorrect == Spec => CancelStopsIntake
<1>1. TypeOK /\ [Next]_vars
        => (\A t \in Tasks : status[t] = "canceled" /\ phase[t] = "receiving"
               => phase'[t] \in {"receiving", "draining"})
  <2> SUFFICES ASSUME TypeOK, [Next]_vars, NEW u \in Tasks,
                      status[u] = "canceled", phase[u] = "receiving"
               PROVE  phase'[u] \in {"receiving", "draining"}
    OBVIOUS
  <2> USE DEF runVars, jobVars, listVars, fixVars, diskVars
  <2>1. phase \in [Tasks -> {"idle", "finding", "failed", "launched", "receiving",
                             "submitting", "draining", "cleaning", "gone"}]
    BY DEF TypeOK
  <2>2. ASSUME NEW t \in Tasks, Starting(t)
        PROVE  phase'[u] \in {"receiving", "draining"}
    BY <2>2, <2>1 DEF Starting, Start, FindFails, Register
  <2>3. ASSUME NEW t \in Tasks, RunTaskStep(t)
        PROVE  phase'[u] \in {"receiving", "draining"}
    BY <2>3, <2>1 DEF RunTaskStep, RunTask, ChannelClosed, Receive, ReceiveCanceled,
            Submit, SubmitFails, Drained, cleanupTask
  <2>4. ASSUME NEW t \in Tasks, CancelTask(t)
        PROVE  phase'[u] \in {"receiving", "draining"}
    BY <2>4, <2>1 DEF CancelTask
  <2>5. ASSUME NEW t \in Tasks, NEW c \in Comics, VerifyStep(t, c)
        PROVE  phase'[u] \in {"receiving", "draining"}
    BY <2>5, <2>1 DEF VerifyStep, VerifyBegin, StartRunning, VerifyReports, VerifyWaitsFix, WaitFix, VerifyLists,
            SendFix, QueueFull, SendPanics, VerifyCounts, VerifySaves
  <2>6. ASSUME NEW t \in Tasks, NEW c \in Comics, FixStep(t, c)
        PROVE  phase'[u] \in {"receiving", "draining"}
    BY <2>6, <2>1 DEF FixStep, FixBegin, Fix, FixSkips, FixImage,
            FixImageFails, FixCounts, FixSaves
  <2>7. CASE FixWorkerStep
    BY <2>7, <2>1 DEF FixWorkerStep, StartFixWorker, FixTake,
            FixSubmit, FixWorkerExits
  <2>8. CASE CloseBegin \/ CloseStep
    BY <2>8, <2>1 DEF CloseBegin, CloseStep, CloseReleasesFix, CloseQueue, CloseReturns
  <2>9. CASE UNCHANGED vars
    BY <2>9, <2>1 DEF vars
  <2>10. QED
    BY <2>2, <2>3, <2>4, <2>5, <2>6, <2>7, <2>8, <2>9 DEF Next
<1>2. QED
  BY <1>1, TypeCorrect, PTL DEF Spec, CancelStopsIntake

-------------------------------------------------------------------------------
(* The verdicts in the storage. *)

\* Before the goroutine of a task runs, the task has no job.
Early == {"idle", "finding", "failed", "launched"}

NoJobYet ==
    \A t \in Tasks, c \in Comics :
        phase[t] \in Early => vjob[<<t, c>>] = "none" /\ fjob[<<t, c>>] = "none"

\* What the closures of a job know of the disk: the images still to be fixed include all
\* that are broken, and a verdict about to be saved is true.
Told(t, c) ==
    LET v == vjob[<<t, c>>]
        f == fjob[<<t, c>>]
        found == fixImages[<<t, c>>]
    IN  /\ f \in {"created", "queued", "held", "spawned"} => broken[c] \subseteq found
        /\ f = "fixing" /\ valid[<<t, c>>] => broken[c] \subseteq found
        /\ f = "saving" /\ valid[<<t, c>>] => broken[c] = {}
        /\ v \in {"counting", "saving"} /\ valid[<<t, c>>] => broken[c] = {}
        /\ v = "sending" => ~valid[<<t, c>>]

\* A comic that no two tasks repaired has a false verdict only by the work of a task that
\* stays canceled: before its goroutine ran it saved none, and after that no one takes the
\* cancellation back.
VerdictInv ==
    /\ NoJobYet
    /\ \A t \in Tasks, c \in Comics : status[t] # "canceled" /\ OneRepairer(c) => Told(t, c)
    /\ \A c \in Comics : saved[c] = "valid" /\ OneRepairer(c) =>
        broken[c] = {} \/ \E t \in Tasks : status[t] = "canceled" /\ phase[t] \notin Early

\* A closure that is the only one to repair its comic spoils nothing.
LEMMA NothingSpoilt ==
    ASSUME NEW t \in Tasks, NEW c \in Comics, NEW i \in Images,
           OneRepairer(c), fjob[<<t, c>>] \in Repairing
    PROVE  Spoils(t, c, i) = {{}}
BY DEF OneRepairer, Spoils

\* Who has begun to repair a comic stays among those who have.
LEMMA RepairersStay ==
    ASSUME NEW c \in Comics, OneRepairer(c)',
           \A t \in Tasks : fjob[<<t, c>>] \in Repairing => fjob'[<<t, c>>] \in Repairing
    PROVE  OneRepairer(c)
BY DEF OneRepairer

\* No job moves, and the disk stays: a task is canceled, or starts to run, which takes
\* back a cancellation of a task without jobs.
LEMMA JobsRest ==
    ASSUME VerdictInv, UNCHANGED <<jobVars, diskVars>>,
           \A t \in Tasks : phase[t] \notin Early => phase'[t] \notin Early,
           \A t \in Tasks : phase'[t] \in Early => phase[t] \in Early,
           \A t \in Tasks : \/ status'[t] = status[t] \/ status'[t] = "canceled"
                            \/ phase[t] \in Early
    PROVE  VerdictInv'
<1> USE DEF jobVars, diskVars
<1>1. NoJobYet'
  BY DEF VerdictInv, NoJobYet
<1>0. \A c \in Comics : OneRepairer(c)' => OneRepairer(c)
  BY DEF OneRepairer
<1>2. ASSUME NEW t \in Tasks, NEW c \in Comics, status'[t] # "canceled", OneRepairer(c)'
      PROVE  Told(t, c)'
  <2>1. CASE status'[t] = status[t]
    BY <1>0, <1>2, <2>1 DEF VerdictInv, Told
  <2>2. CASE phase[t] \in Early
    BY <2>2 DEF VerdictInv, NoJobYet, Told
  <2>3. QED
    BY <1>2, <2>1, <2>2
<1>3. ASSUME NEW c \in Comics, saved'[c] = "valid", OneRepairer(c)'
      PROVE  \/ broken'[c] = {}
             \/ \E t \in Tasks : status'[t] = "canceled" /\ phase'[t] \notin Early
  BY <1>0, <1>3 DEF VerdictInv
<1>4. QED
  BY <1>1, <1>2, <1>3 DEF VerdictInv

\* One job moves: what it now knows is true, and so is what it saves.
LEMMA JobMoves ==
    ASSUME VerdictInv, NEW t \in Tasks, NEW c \in Comics,
           status' = status, phase'[t] \notin Early, phase[t] \notin Early,
           \A u \in Tasks \ {t} : phase'[u] = phase[u],
           \A j \in Jobs \ {<<t, c>>} :
               /\ vjob'[j] = vjob[j] /\ fjob'[j] = fjob[j]
               /\ valid'[j] = valid[j] /\ fixImages'[j] = fixImages[j],
           fjob[<<t, c>>] \in Repairing => fjob'[<<t, c>>] \in Repairing,
           \A d \in Comics : OneRepairer(d)' => broken'[d] \subseteq broken[d],
           status[t] # "canceled" /\ OneRepairer(c)' => Told(t, c)',
           \A d \in Comics : saved'[d] = "valid" /\ OneRepairer(d)' =>
               saved[d] = "valid" \/ broken'[d] = {} \/ status[t] = "canceled"
    PROVE  VerdictInv'
<1>0. ASSUME NEW d \in Comics, OneRepairer(d)'
      PROVE  OneRepairer(d)
  <2>1. \A u \in Tasks : fjob[<<u, d>>] \in Repairing => fjob'[<<u, d>>] \in Repairing
    <3>1. ASSUME NEW u \in Tasks
          PROVE  \/ u = t /\ d = c
                 \/ <<u, d>> \in Jobs \ {<<t, c>>}
      BY DEF Jobs
    <3>2. QED
      BY <3>1
  <2>2. QED
    BY <1>0, <2>1, RepairersStay
<1>1. NoJobYet'
  BY DEF VerdictInv, NoJobYet, Jobs
<1>2. ASSUME NEW u \in Tasks, NEW d \in Comics, status'[u] # "canceled", OneRepairer(d)'
      PROVE  Told(u, d)'
  <2>1. CASE <<u, d>> = <<t, c>>
    <3>1. u = t /\ d = c
      BY <2>1
    <3>2. QED
      BY <1>2, <3>1
  <2>2. CASE <<u, d>> # <<t, c>>
    <3>1. /\ vjob'[<<u, d>>] = vjob[<<u, d>>] /\ fjob'[<<u, d>>] = fjob[<<u, d>>]
          /\ valid'[<<u, d>>] = valid[<<u, d>>] /\ fixImages'[<<u, d>>] = fixImages[<<u, d>>]
      BY <2>2 DEF Jobs
    <3>2. Told(u, d)
      BY <1>0, <1>2 DEF VerdictInv
    <3>3. broken'[d] \subseteq broken[d] /\ (broken[d] = {} => broken'[d] = {})
      BY <1>2
    <3>4. QED
      BY <3>1, <3>2, <3>3 DEF Told
  <2>3. QED
    BY <2>1, <2>2
<1>3. ASSUME NEW d \in Comics, saved'[d] = "valid", OneRepairer(d)'
      PROVE  \/ broken'[d] = {}
             \/ \E u \in Tasks : status'[u] = "canceled" /\ phase'[u] \notin Early
  <2>1. CASE saved[d] = "valid"
    <3>1. broken[d] = {} => broken'[d] = {}
      BY <1>3
    <3>2. \A u \in Tasks : phase[u] \notin Early => phase'[u] \notin Early
      OBVIOUS
    <3>3. QED
      BY <1>0, <1>3, <2>1, <3>1, <3>2 DEF VerdictInv
  <2>2. CASE saved[d] # "valid"
    BY <1>3, <2>2
  <2>3. QED
    BY <2>1, <2>2
<1>4. QED
  BY <1>1, <1>2, <1>3 DEF VerdictInv

\* As above, for a step that moves closures and leaves disk and storage alone.
LEMMA ClosureMoves ==
    ASSUME VerdictInv, NEW t \in Tasks, NEW c \in Comics,
           UNCHANGED <<runVars, status, diskVars>>,
           vjob[<<t, c>>] # "none" \/ fjob[<<t, c>>] # "none",
           \A j \in Jobs \ {<<t, c>>} :
               /\ vjob'[j] = vjob[j] /\ fjob'[j] = fjob[j]
               /\ valid'[j] = valid[j] /\ fixImages'[j] = fixImages[j],
           fjob[<<t, c>>] \in Repairing => fjob'[<<t, c>>] \in Repairing,
           Told(t, c) => Told(t, c)'
    PROVE  VerdictInv'
<1>1. /\ phase[t] \notin Early
      /\ status[t] # "canceled" /\ OneRepairer(c) => Told(t, c)
  BY DEF VerdictInv, NoJobYet
<1>2. OneRepairer(c)' => OneRepairer(c)
  <2>1. \A u \in Tasks : fjob[<<u, c>>] \in Repairing => fjob'[<<u, c>>] \in Repairing
    <3>1. \A u \in Tasks : u = t \/ <<u, c>> \in Jobs \ {<<t, c>>}
      BY DEF Jobs
    <3>2. QED
      BY <3>1
  <2>2. QED
    BY <2>1, RepairersStay
<1>3. QED
  BY <1>1, <1>2, JobMoves DEF runVars, diskVars

\* The verify closure of a job.
LEMMA VerifyTold ==
    ASSUME IInv, VerdictInv, NEW t \in Tasks, NEW c \in Comics, VerifyStep(t, c)
    PROVE  VerdictInv'
<1> DEFINE j == <<t, c>>
<1>0. /\ j \in Jobs
      /\ vjob \in [Jobs -> VerifyActive \cup {"none", "handed", "dropped", "panicked", "done"}]
      /\ fjob \in [Jobs -> FixActive \cup {"none", "done"}]
      /\ valid \in [Jobs -> BOOLEAN] /\ fixImages \in [Jobs -> SUBSET Images]
      /\ broken \in [Comics -> SUBSET Images]
      /\ saved \in [Comics -> {"none", "valid", "invalid"}]
  BY DEF IInv, TypeOK, Jobs
<1>1. /\ vjob[j] \in {"spawned", "verifying"} => fjob[j] = "none"
      /\ vjob[j] = "sending" => fjob[j] = "created"
      /\ vjob[j] \in {"counting", "saving"} => fjob[j] \in {"none", "created"}
  BY DEF IInv, JobsInOrder
<1> USE DEF jobVars, diskVars
<1>2. CASE VerifyBegin(t, c) \/ VerifyReports(t, c)
  <2>1. CASE VerifyBegin(t, c)
    <3>1. Told(t, c) => Told(t, c)'
      BY <1>0, <1>1, <2>1 DEF VerifyBegin, Told
    <3>2. QED
      BY <1>0, <2>1, <3>1, ClosureMoves DEF VerifyBegin
  <2>2. CASE VerifyReports(t, c)
    <3>1. Told(t, c) => Told(t, c)'
      BY <1>0, <1>1, <2>2 DEF VerifyReports, Told
    <3>2. QED
      BY <1>0, <2>2, <3>1, ClosureMoves DEF VerifyReports
  <2>3. QED
    BY <1>2, <2>1, <2>2
<1>3. CASE VerifyWaitsFix(t, c)
  <2>1. Told(t, c) => Told(t, c)'
    BY <1>0, <1>1, <1>3 DEF VerifyWaitsFix, Told
  <2>2. QED
    BY <1>0, <1>1, <1>3, <2>1, ClosureMoves DEF VerifyWaitsFix, Repairing
<1>4. CASE VerifyLists(t, c)
  <2>1. Told(t, c) => Told(t, c)'
    BY <1>0, <1>1, <1>4 DEF VerifyLists, Told
  <2>2. QED
    BY <1>0, <1>4, <2>1, ClosureMoves DEF VerifyLists
<1>5. CASE SendFix(t, c)
  <2>1. Told(t, c) => Told(t, c)'
    BY <1>0, <1>1, <1>5 DEF SendFix, Told
  <2>2. QED
    BY <1>0, <1>1, <1>5, <2>1, ClosureMoves DEF SendFix, Repairing
<1>6. CASE QueueFull(t, c) \/ SendPanics(t, c)
  <2>1. Told(t, c) => Told(t, c)'
    BY <1>0, <1>1, <1>6 DEF QueueFull, SendPanics, Told
  <2>2. QED
    BY <1>0, <1>6, <2>1, ClosureMoves DEF QueueFull, SendPanics
<1>7. CASE VerifyCounts(t, c)
  <2>1. Told(t, c) => Told(t, c)'
    BY <1>0, <1>1, <1>7 DEF VerifyCounts, Told
  <2>2. QED
    BY <1>0, <1>7, <2>1, ClosureMoves DEF VerifyCounts
<1>8. CASE VerifySaves(t, c)
  <2>1. vjob[j] = "saving" /\ vjob' = [vjob EXCEPT ![j] = "done"]
    BY <1>8 DEF VerifySaves
  <2>2. UNCHANGED <<fjob, fixImages, valid, broken, status, phase>>
    BY <1>8 DEF VerifySaves, runVars
  <2>3. /\ phase[t] \notin Early
        /\ status[t] # "canceled" /\ OneRepairer(c) => Told(t, c)
    BY <2>1 DEF VerdictInv, NoJobYet
  <2>4. Told(t, c) => Told(t, c)'
    BY <1>0, <1>1, <2>1, <2>2 DEF Told
  <2>5. Told(t, c) /\ valid[j] => broken[c] = {}
    BY <2>1 DEF Told
  <2>6. \A d \in Comics : saved'[d] = "valid" => saved[d] = "valid" \/ (d = c /\ valid[j])
    BY <1>0, <1>8 DEF VerifySaves, SaveVerdict
  <2>7. OneRepairer(c)' => OneRepairer(c)
    BY <1>0, <2>1, <2>2, RepairersStay DEF Repairing, Jobs
  <2>8. QED
    BY <1>0, <2>1, <2>2, <2>3, <2>4, <2>5, <2>6, <2>7, JobMoves DEF Repairing
<1>9. QED
  BY <1>2, <1>3, <1>4, <1>5, <1>6, <1>7, <1>8 DEF VerifyStep

\* The fix closure of a job.
LEMMA FixTold ==
    ASSUME IInv, VerdictInv, NEW t \in Tasks, NEW c \in Comics, FixStep(t, c)
    PROVE  VerdictInv'
<1> DEFINE j == <<t, c>>
<1>0. /\ j \in Jobs
      /\ fjob \in [Jobs -> FixActive \cup {"none", "done"}]
      /\ valid \in [Jobs -> BOOLEAN] /\ fixImages \in [Jobs -> SUBSET Images]
      /\ broken \in [Comics -> SUBSET Images]
      /\ saved \in [Comics -> {"none", "valid", "invalid"}]
  BY DEF IInv, TypeOK, Jobs
<1>1. fjob[j] \in {"spawned", "fixing", "saving"} => vjob[j] \notin {"counting", "saving", "sending"}
  BY DEF IInv, JobsInOrder
<1> USE DEF jobVars, diskVars
<1>2. CASE FixBegin(t, c)
  <2>1. Told(t, c) => Told(t, c)'
    BY <1>0, <1>1, <1>2 DEF FixBegin, Told
  <2>2. QED
    BY <1>0, <1>2, <2>1, ClosureMoves DEF FixBegin, Repairing
<1>3. ASSUME NEW i \in Images, FixSkips(t, c, i)
      PROVE  VerdictInv'
  <2>1. status[t] = "canceled" /\ fjob[j] = "fixing"
    BY <1>3 DEF FixSkips
  <2>2. phase[t] \notin Early
    BY <2>1 DEF VerdictInv, NoJobYet
  <2>3. QED
    BY <1>0, <1>3, <2>1, <2>2, JobMoves DEF FixSkips, runVars
<1>4. ASSUME NEW i \in Images, FixImage(t, c, i) \/ FixImageFails(t, c, i)
      PROVE  VerdictInv'
  <2>1. /\ fjob[j] = "fixing"
        /\ fixImages' = [fixImages EXCEPT ![j] = @ \ {i}]
        /\ UNCHANGED <<vjob, fjob, status, phase, saved>>
    BY <1>4 DEF FixImage, FixImageFails, runVars
  <2>2. \/ /\ \E spoilt \in Spoils(t, c, i) :
               broken' = [broken EXCEPT ![c] = (@ \ {i}) \cup spoilt]
           /\ valid' = valid
        \/ /\ \E spoilt \in Spoils(t, c, i) : broken' = [broken EXCEPT ![c] = @ \cup spoilt]
           /\ valid' = [valid EXCEPT ![j] = FALSE]
    BY <1>4 DEF FixImage, FixImageFails
  <2>3. /\ phase[t] \notin Early
        /\ status[t] # "canceled" /\ OneRepairer(c) => Told(t, c)
    BY <2>1 DEF VerdictInv, NoJobYet
  <2>4. OneRepairer(c)' <=> OneRepairer(c)
    BY <2>1 DEF OneRepairer
  <2>5. ASSUME OneRepairer(c)
        PROVE  \/ broken' = [broken EXCEPT ![c] = @ \ {i}] /\ valid' = valid
               \/ broken' = broken /\ valid' = [valid EXCEPT ![j] = FALSE]
    <3>1. Spoils(t, c, i) = {{}}
      BY <2>1, <2>5, NothingSpoilt DEF Repairing
    <3>2. QED
      BY <1>0, <2>2, <3>1
  <2>6. OneRepairer(c) /\ Told(t, c) => Told(t, c)'
    BY <1>0, <1>1, <2>1, <2>5 DEF Told
  <2>7. \A d \in Comics : OneRepairer(d)' => broken'[d] \subseteq broken[d]
    <3>1. broken'[c] \subseteq broken[c] \/ ~OneRepairer(c)
      BY <1>0, <2>5
    <3>2. \A d \in Comics \ {c} : broken'[d] = broken[d]
      BY <1>0, <2>2
    <3>3. QED
      BY <2>4, <3>1, <3>2
  <2>8. \A k \in Jobs \ {j} : valid'[k] = valid[k] /\ fixImages'[k] = fixImages[k]
    BY <1>0, <2>1, <2>2
  <2>9. QED
    BY <2>1, <2>3, <2>4, <2>6, <2>7, <2>8, JobMoves
<1>6. CASE FixCounts(t, c)
  <2>1. Told(t, c) => Told(t, c)'
    BY <1>0, <1>1, <1>6 DEF FixCounts, Told
  <2>2. QED
    BY <1>0, <1>6, <2>1, ClosureMoves DEF FixCounts, Repairing
<1>7. CASE FixSaves(t, c)
  <2>1. fjob[j] = "saving" /\ fjob' = [fjob EXCEPT ![j] = "done"]
    BY <1>7 DEF FixSaves
  <2>2. UNCHANGED <<vjob, fixImages, valid, broken, status, phase>>
    BY <1>7 DEF FixSaves, runVars
  <2>3. /\ phase[t] \notin Early
        /\ status[t] # "canceled" /\ OneRepairer(c) => Told(t, c)
    BY <2>1 DEF VerdictInv, NoJobYet
  <2>4. Told(t, c) => Told(t, c)'
    BY <1>0, <1>1, <2>1, <2>2 DEF Told
  <2>5. Told(t, c) /\ valid[j] => broken[c] = {}
    BY <2>1 DEF Told
  <2>6. \A d \in Comics : saved'[d] = "valid" => saved[d] = "valid" \/ (d = c /\ valid[j])
    BY <1>0, <1>7 DEF FixSaves, SaveVerdict
  <2>7. OneRepairer(c)' => OneRepairer(c)
    BY <1>0, <2>1, <2>2, RepairersStay DEF Repairing, Jobs
  <2>8. QED
    BY <1>0, <2>1, <2>2, <2>3, <2>4, <2>5, <2>6, <2>7, JobMoves DEF Repairing
<1>8. QED
  BY <1>2, <1>3, <1>4, <1>6, <1>7 DEF FixStep

LEMMA RunTaskTold ==
    ASSUME IInv, VerdictInv, NEW t \in Tasks, RunTaskStep(t)
    PROVE  VerdictInv'
<1>0. /\ phase \in [Tasks -> {"idle", "finding", "failed", "launched", "receiving",
                             "submitting", "draining", "cleaning", "gone"}]
      /\ status \in [Tasks -> {"pending", "running", "canceled"}]
      /\ vjob \in [Jobs -> VerifyActive \cup {"none", "handed", "dropped", "panicked", "done"}]
  BY DEF IInv, TypeOK
<1>1. CASE RunTask(t)
  <2>1. /\ phase[t] = "launched" /\ phase' = [phase EXCEPT ![t] = "receiving"]
        /\ status' = [status EXCEPT ![t] = "running"] /\ UNCHANGED <<jobVars, diskVars>>
    BY <1>1 DEF RunTask
  <2>2. QED
    BY <1>0, <2>1, JobsRest DEF Early
<1>2. ASSUME NEW p \in {"receiving", "submitting", "draining", "cleaning", "gone"},
             phase' = [phase EXCEPT ![t] = p],
             phase[t] \in {"receiving", "submitting", "draining", "cleaning"},
             UNCHANGED <<jobVars, diskVars, status>>
      PROVE  VerdictInv'
  BY <1>0, <1>2, JobsRest DEF Early
<1>3. ASSUME NEW c \in Comics, Receive(t, c) \/ ReceiveCanceled(t, c)
      PROVE  VerdictInv'
  BY <1>2, <1>3 DEF Receive, ReceiveCanceled
<1>4. CASE ChannelClosed(t) \/ Drained(t) \/ cleanupTask(t)
  BY <1>2, <1>4 DEF ChannelClosed, Drained, cleanupTask
<1>5. CASE Submit(t) \/ SubmitFails(t)
  <2>0. cur[t] \in Comics
    BY <1>5 DEF Submit, SubmitFails, IInv, TypeOK
  <2>2. PICK c \in Comics : c = cur[t]
    BY <2>0
  <2> DEFINE x == IF VerifyPoolOpen THEN "spawned" ELSE "dropped"
  <2>1. /\ phase[t] = "submitting" /\ phase' = [phase EXCEPT ![t] = "receiving"]
        /\ vjob' = [vjob EXCEPT ![<<t, c>>] = x]
        /\ UNCHANGED <<status, fjob, fixImages, valid, diskVars>>
    BY <1>5, <2>2 DEF Submit, SubmitFails
  <2>3. <<t, c>> \in Jobs /\ vjob'[<<t, c>>] \in {"spawned", "dropped"}
    BY <1>0, <2>1, <2>2 DEF Jobs
  <2>4. /\ status[t] # "canceled" /\ OneRepairer(c) => Told(t, c)
        /\ OneRepairer(c)' => OneRepairer(c)
    BY <2>1, <2>2 DEF VerdictInv, OneRepairer
  <2>5. Told(t, c) => Told(t, c)'
    BY <2>1, <2>3 DEF Told, diskVars
  <2>6. QED
    BY <1>0, <2>1, <2>2, <2>4, <2>5, JobMoves DEF diskVars, Early
<1>6. QED
  BY <1>1, <1>3, <1>4, <1>5 DEF RunTaskStep

\* The worker moves a fix closure that has not run.
LEMMA WorkerTold ==
    ASSUME IInv, VerdictInv, FixWorkerStep
    PROVE  VerdictInv'
<1>1. ASSUME NEW t \in Tasks, NEW c \in Comics, NEW x \in {"held", "spawned"},
             fjob[<<t, c>>] \in {"queued", "held"}, MovesTo(fjob', fjob, t, c, x),
             UNCHANGED <<runVars, status, vjob, fixImages, valid, diskVars>>
      PROVE  VerdictInv'
  <2>1. fjob'[<<t, c>>] = x /\ \A j \in Jobs \ {<<t, c>>} : fjob'[j] = fjob[j]
    BY <1>1 DEF IInv, TypeOK, Jobs, MovesTo
  <2>2. Told(t, c) => Told(t, c)'
    BY <1>1, <2>1 DEF Told, diskVars
  <2>3. QED
    BY <1>1, <2>1, <2>2, ClosureMoves DEF Repairing
<1>2. CASE FixTake
  <2>1. PICK t \in Tasks, c \in Comics : Head(queue) = <<t, c>> /\ fjob[<<t, c>>] = "queued"
    BY <1>2, HeadQueued DEF FixTake, Jobs, IInv
  <2>2. MovesTo(fjob', fjob, t, c, "held")
    BY <1>2, <2>1 DEF FixTake, MovesTo
  <2>3. QED
    BY <1>1, <1>2, <2>1, <2>2 DEF FixTake
<1>3. CASE FixSubmit
  <2>1. hand \in Jobs /\ fjob[hand] = "held"
    BY <1>3 DEF FixSubmit, IInv, TypeOK, QueueInOrder
  <2>2. PICK t \in Tasks, c \in Comics : hand = <<t, c>>
    BY <2>1 DEF Jobs
  <2>3. MovesTo(fjob', fjob, t, c, "spawned")
    BY <1>3, <2>2 DEF FixSubmit, MovesTo
  <2>4. QED
    BY <1>1, <1>3, <2>1, <2>2, <2>3 DEF FixSubmit
<1>4. CASE StartFixWorker \/ FixWorkerExits
  BY <1>4, JobsRest DEF StartFixWorker, FixWorkerExits, runVars
<1>5. QED
  BY <1>2, <1>3, <1>4 DEF FixWorkerStep

LEMMA VerdictStep == IInv /\ VerdictInv /\ [Next]_vars => VerdictInv'
<1> SUFFICES ASSUME IInv, VerdictInv, [Next]_vars
             PROVE  VerdictInv'
  OBVIOUS
<1>0. /\ phase \in [Tasks -> {"idle", "finding", "failed", "launched", "receiving",
                             "submitting", "draining", "cleaning", "gone"}]
      /\ status \in [Tasks -> {"pending", "running", "canceled"}]
  BY DEF IInv, TypeOK
<1>1. ASSUME NEW t \in Tasks, Starting(t)
      PROVE  VerdictInv'
  <2>1. /\ phase[t] \in {"idle", "finding"}
        /\ \E p \in Early : phase' = [phase EXCEPT ![t] = p]
        /\ UNCHANGED <<status, jobVars, diskVars>>
    BY <1>1 DEF Starting, Start, FindFails, Register, Early
  <2>2. QED
    BY <1>0, <2>1, JobsRest DEF Early
<1>2. ASSUME NEW t \in Tasks, CancelTask(t)
      PROVE  VerdictInv'
  BY <1>0, <1>2, JobsRest DEF CancelTask, runVars
<1>3. CASE CloseBegin \/ CloseStep
  BY <1>3, JobsRest DEF CloseBegin, CloseStep, CloseReleasesFix, CloseQueue, CloseReturns, runVars
<1>4. CASE UNCHANGED vars
  BY <1>4, JobsRest DEF vars, runVars
<1>5. QED
  BY <1>1, <1>2, <1>3, <1>4, RunTaskTold, VerifyTold, FixTold, WorkerTold DEF Next

\* The storage calls a comic valid only when none of its images is broken, unless a task
\* was canceled or two tasks repaired the comic: for any number of tasks that verify the
\* same comics and save their verdicts in any order.
THEOREM VerdictCorrect == Spec => []SavedValidIsGood
<1>1. Init => VerdictInv
  BY DEF Init, VerdictInv, NoJobYet, Told, Jobs
<1>2. VerdictInv => SavedValidIsGood
  BY DEF VerdictInv, SavedValidIsGood
<1>3. QED
  BY <1>1, <1>2, InvCorrect, VerdictStep, PTL DEF Spec
===============================================================================
