------------------------------- MODULE Verifier -------------------------------
(***************************************************************************)
(* The comic verifier of pkg/comic/verify.go.                              *)
(*                                                                         *)
(* Start registers a task and launches runTask in a goroutine of its own.  *)
(* runTask receives comics from the storage's channel and submits one      *)
(* verify closure per comic to verifyPool.  A closure that finds broken    *)
(* images and runs under AutoFix builds a fix closure and offers it to the *)
(* bounded channel fixFnCh; one fix worker moves fix closures from the     *)
(* channel to fixPool.  Every closure is counted in the WaitGroup of its   *)
(* task, and runTask cleans the task up once that count is back to zero.   *)
(* CancelTask and Close may come at any moment.                            *)
(*                                                                         *)
(* A job is a task and one of its comics: vjob is the control point of its *)
(* verify closure and fjob the control point of its fix closure.           *)
(***************************************************************************)
EXTENDS Integers, Sequences, FiniteSets

CONSTANTS Tasks,           \* task ids: each Start makes a fresh one
          Comics,          \* comics of the storage
          Images,          \* the images of a comic
          None,            \* "no comic", "no job"
          VerifyPoolSize,  \* runtime.NumCPU()
          FixPoolSize,     \* 2 * runtime.NumCPU()
          FixQueueCap      \* capacity of fixFnCh: 1000 * fixPoolSize

ASSUME SetsAssumption ==
    /\ IsFiniteSet(Comics)
    /\ IsFiniteSet(Tasks)
    /\ None \notin Comics
    /\ None \notin Tasks \X Comics

ASSUME SizeAssumption ==
    /\ VerifyPoolSize \in Nat \ {0}
    /\ FixPoolSize \in Nat \ {0}
    /\ FixQueueCap \in Nat \ {0}

VARIABLES
    phase,       \* [Tasks -> control point of Start, then of runTask]
    mode,        \* [Tasks -> what the options ask for invalid comics]
    status,      \* [Tasks -> task.Progress.Status]
    tasks,       \* v.tasks: ids registered by Start
    progress,    \* v.progress: ids visible to CancelTask and GetTaskProgress
    pending,     \* [Tasks -> comics the channel has not delivered yet]
    cur,         \* [Tasks -> the comic runTask is submitting]
    wg,          \* [Tasks -> counter of the task's sync.WaitGroup]
    vjob,        \* [Jobs -> control point of the verify closure]
    fjob,        \* [Jobs -> control point of the fix closure]
    fixImages,   \* [Jobs -> result.fixImages not handled yet]
    valid,       \* [Jobs -> result.Valid]
    current,     \* [Tasks -> task.Progress.Current]
    running,     \* [Tasks -> task.Progress.running]
    waitFixing,  \* [Tasks -> task.Progress.waitFixing]
    fixing,      \* [Tasks -> task.Progress.fixing]
    queue,       \* v.fixFnCh
    hand,        \* the closure the fix worker has taken from fixFnCh
    worker,      \* the fix worker goroutine
    closing,     \* how far Close has come
    broken,      \* [Comics -> images that are broken on disk]
    saved        \* [Comics -> verdict the storage holds]

runVars  == <<phase, mode, tasks, progress, pending, cur>>
jobVars  == <<vjob, fjob, fixImages, valid>>
listVars == <<current, running, waitFixing, fixing>>
fixVars  == <<queue, hand, worker>>
diskVars == <<broken, saved>>
vars == <<runVars, status, wg, jobVars, listVars, fixVars, closing, diskVars>>

Jobs == Tasks \X Comics

(***************************************************************************)
(* A verify closure holds a slot of verifyPool, and a fix closure one of   *)
(* fixPool, from the moment the pool accepts it until it returns.          *)
(***************************************************************************)
VerifyActive == {"spawned", "verifying", "sending", "counting", "saving"}
FixRunning   == {"spawned", "fixing", "saving"}

\* Closures that were counted by wg.Add and have not reached wg.Done.
FixActive == FixRunning \cup {"created", "queued", "held"}

\* Fix closures that have begun to replace the images of their comic.
Repairing == {"fixing", "saving", "done"}

VerifyBusy == {j \in Jobs : vjob[j] \in VerifyActive}
FixBusy    == {j \in Jobs : fjob[j] \in FixRunning}

VerifyPoolOpen == closing = "open"
FixPoolOpen    == closing \in {"open", "verifyReleased"}
QueueOpen      == closing \in {"open", "verifyReleased", "released"}

-------------------------------------------------------------------------------
\* The verifier of a fresh process: no task, idle pools, any images broken.
Init ==
    /\ phase = [t \in Tasks |-> "idle"]
    /\ mode = [t \in Tasks |-> "report"]
    /\ status = [t \in Tasks |-> "pending"]
    /\ tasks = {} /\ progress = {}
    /\ pending = [t \in Tasks |-> {}]
    /\ cur = [t \in Tasks |-> None]
    /\ wg = [t \in Tasks |-> 0]
    /\ vjob = [j \in Jobs |-> "none"]
    /\ fjob = [j \in Jobs |-> "none"]
    /\ fixImages = [j \in Jobs |-> {}]
    /\ valid = [j \in Jobs |-> TRUE]
    /\ current = [t \in Tasks |-> 0]
    /\ running = [t \in Tasks |-> {}]
    /\ waitFixing = [t \in Tasks |-> {}]
    /\ fixing = [t \in Tasks |-> {}]
    /\ queue = <<>> /\ hand = None /\ worker = "off"
    /\ closing = "open"
    /\ broken \in [Comics -> SUBSET Images]
    /\ saved = [c \in Comics |-> "none"]

-------------------------------------------------------------------------------
(* Start *)

\* Start stores the task before it queries the storage.  When both options are
\* set the AutoFix branch wins, so one mode says what an invalid comic gets.
Start(t) ==
    /\ phase[t] = "idle"
    /\ \E m \in {"report", "fix", "list"} : mode' = [mode EXCEPT ![t] = m]
    /\ phase' = [phase EXCEPT ![t] = "finding"]
    /\ tasks' = tasks \cup {t}
    /\ UNCHANGED <<progress, pending, cur, status, wg, jobVars, listVars, fixVars,
                   closing, diskVars>>

\* FindTotal or FindChannel fails: Start returns the error, the entry in
\* v.tasks stays.
FindFails(t) ==
    /\ phase[t] = "finding"
    /\ phase' = [phase EXCEPT ![t] = "failed"]
    /\ UNCHANGED <<mode, tasks, progress, pending, cur, status, wg, jobVars, listVars,
                   fixVars, closing, diskVars>>

\* The query succeeds: the progress becomes visible and runTask is launched.
Register(t) ==
    /\ phase[t] = "finding"
    /\ \E found \in SUBSET Comics : pending' = [pending EXCEPT ![t] = found]
    /\ progress' = progress \cup {t}
    /\ phase' = [phase EXCEPT ![t] = "launched"]
    /\ UNCHANGED <<mode, tasks, cur, status, wg, jobVars, listVars, fixVars, closing,
                   diskVars>>

\* fixWorkerOnce, at the end of the first Start that gets that far.
StartFixWorker ==
    /\ worker = "off"
    /\ \E t \in Tasks : phase[t] \notin {"idle", "finding", "failed"}
    /\ worker' = "on"
    /\ UNCHANGED <<runVars, status, wg, jobVars, listVars, queue, hand, closing,
                   diskVars>>

-------------------------------------------------------------------------------
(* runTask *)

\* The first statement of the goroutine stores Running whatever is there.
RunTask(t) ==
    /\ phase[t] = "launched"
    /\ status' = [status EXCEPT ![t] = "running"]
    /\ phase' = [phase EXCEPT ![t] = "receiving"]
    /\ UNCHANGED <<mode, tasks, progress, pending, cur, wg, jobVars, listVars, fixVars,
                   closing, diskVars>>

\* The channel delivers a comic to a task that is not canceled.
Receive(t, c) ==
    /\ phase[t] = "receiving"
    /\ c \in pending[t]
    /\ pending' = [pending EXCEPT ![t] = @ \ {c}]
    /\ status[t] # "canceled"
    /\ cur' = [cur EXCEPT ![t] = c]
    /\ wg' = [wg EXCEPT ![t] = @ + 1]
    /\ phase' = [phase EXCEPT ![t] = "submitting"]
    /\ UNCHANGED <<mode, tasks, progress, status, jobVars, listVars, fixVars, closing,
                   diskVars>>

\* The channel delivers a comic to a canceled task: the comic is dropped and
\* runTask stops receiving.
ReceiveCanceled(t, c) ==
    /\ phase[t] = "receiving"
    /\ c \in pending[t]
    /\ pending' = [pending EXCEPT ![t] = @ \ {c}]
    /\ status[t] = "canceled"
    /\ phase' = [phase EXCEPT ![t] = "draining"]
    /\ UNCHANGED <<mode, tasks, progress, cur, status, wg, jobVars, listVars, fixVars,
                   closing, diskVars>>

\* The channel is closed after its last comic.
ChannelClosed(t) ==
    /\ phase[t] = "receiving"
    /\ pending[t] = {}
    /\ phase' = [phase EXCEPT ![t] = "draining"]
    /\ UNCHANGED <<mode, tasks, progress, pending, cur, status, wg, jobVars, listVars,
                   fixVars, closing, diskVars>>

\* verifyPool.Submit blocks until a slot is free.
Submit(t) ==
    /\ phase[t] = "submitting"
    /\ VerifyPoolOpen
    /\ Cardinality(VerifyBusy) < VerifyPoolSize
    /\ vjob' = [vjob EXCEPT ![<<t, cur[t]>>] = "spawned"]
    /\ cur' = [cur EXCEPT ![t] = None]
    /\ phase' = [phase EXCEPT ![t] = "receiving"]
    /\ UNCHANGED <<mode, tasks, progress, pending, status, wg, fjob, fixImages, valid,
                   listVars, fixVars, closing, diskVars>>

\* Faulty variant: runTask keeps its hands on a comic the pool refused and does
\* not give its count back.
SubmitFailsNoDone(t) ==
    /\ phase[t] = "submitting"
    /\ ~VerifyPoolOpen
    /\ vjob' = [vjob EXCEPT ![<<t, cur[t]>>] = "dropped"]
    /\ phase' = [phase EXCEPT ![t] = "receiving"]
    /\ UNCHANGED <<mode, tasks, progress, pending, cur, status, wg, fjob, fixImages,
                   valid, listVars, fixVars, closing, diskVars>>

\* verifyPool.Submit returns ErrPoolClosed: the count is given back.
SubmitFails(t) ==
    /\ phase[t] = "submitting"
    /\ ~VerifyPoolOpen
    /\ wg' = [wg EXCEPT ![t] = @ - 1]
    /\ vjob' = [vjob EXCEPT ![<<t, cur[t]>>] = "dropped"]
    /\ cur' = [cur EXCEPT ![t] = None]
    /\ phase' = [phase EXCEPT ![t] = "receiving"]
    /\ UNCHANGED <<mode, tasks, progress, pending, status, fjob, fixImages, valid,
                   listVars, fixVars, closing, diskVars>>

\* wg.Wait returns; the deferred cleanupTask deletes the progress, then the task.
Drained(t) ==
    /\ phase[t] = "draining"
    /\ wg[t] = 0
    /\ progress' = progress \ {t}
    /\ phase' = [phase EXCEPT ![t] = "cleaning"]
    /\ UNCHANGED <<mode, tasks, pending, cur, status, wg, jobVars, listVars, fixVars,
                   closing, diskVars>>

cleanupTask(t) ==
    /\ phase[t] = "cleaning"
    /\ tasks' = tasks \ {t}
    /\ phase' = [phase EXCEPT ![t] = "gone"]
    /\ UNCHANGED <<mode, progress, pending, cur, status, wg, jobVars, listVars, fixVars,
                   closing, diskVars>>

-------------------------------------------------------------------------------
(* The lists of a VerifyProgress; each operation holds its mutex throughout. *)

\* VerifyProgress.Start.
StartRunning(t, c) == running' = [running EXCEPT ![t] = @ \cup {c}]

\* VerifyProgress.WaitFix moves the id from running to waitFixing.
WaitFix(t, c) ==
    /\ running' = [running EXCEPT ![t] = @ \ {c}]
    /\ waitFixing' = [waitFixing EXCEPT ![t] = @ \cup {c}]

\* VerifyProgress.Fix moves the id from waitFixing to fixing.
Fix(t, c) ==
    /\ waitFixing' = [waitFixing EXCEPT ![t] = @ \ {c}]
    /\ fixing' = [fixing EXCEPT ![t] = @ \cup {c}]

\* VerifyProgress.End removes the id from the first list that has it.
EndLists(t, c) ==
    \/ /\ c \in running[t]
       /\ running' = [running EXCEPT ![t] = @ \ {c}]
       /\ UNCHANGED <<waitFixing, fixing>>
    \/ /\ c \notin running[t] /\ c \in waitFixing[t]
       /\ waitFixing' = [waitFixing EXCEPT ![t] = @ \ {c}]
       /\ UNCHANGED <<running, fixing>>
    \/ /\ c \notin running[t] /\ c \notin waitFixing[t]
       /\ fixing' = [fixing EXCEPT ![t] = @ \ {c}]
       /\ UNCHANGED <<running, waitFixing>>

-------------------------------------------------------------------------------
(* The verify closure of job <<t, c>> *)

VerifyBegin(t, c) ==
    /\ vjob[<<t, c>>] = "spawned"
    /\ StartRunning(t, c)
    /\ vjob' = [vjob EXCEPT ![<<t, c>>] = "verifying"]
    /\ UNCHANGED <<runVars, status, wg, fjob, fixImages, valid, current, waitFixing,
                   fixing, fixVars, closing, diskVars>>

\* verifyComic collects the broken images.  With nothing to do about them the
\* closure goes on to count the comic.
VerifyReports(t, c) ==
    /\ vjob[<<t, c>>] = "verifying"
    /\ broken[c] = {} \/ mode[t] = "report"
    /\ valid' = [valid EXCEPT ![<<t, c>>] = broken[c] = {}]
    /\ vjob' = [vjob EXCEPT ![<<t, c>>] = "counting"]
    /\ UNCHANGED <<runVars, status, wg, fjob, fixImages, listVars, fixVars, closing,
                   diskVars>>

\* Faulty variant: the fix closure is not counted, and the comic is added to
\* waitFixing without leaving running.
VerifyWaitsFixUncounted(t, c) ==
    /\ vjob[<<t, c>>] = "verifying"
    /\ broken[c] # {} /\ mode[t] = "fix"
    /\ valid' = [valid EXCEPT ![<<t, c>>] = FALSE]
    /\ fixImages' = [fixImages EXCEPT ![<<t, c>>] = broken[c]]
    /\ waitFixing' = [waitFixing EXCEPT ![t] = @ \cup {c}]
    /\ vjob' = [vjob EXCEPT ![<<t, c>>] = "sending"]
    /\ fjob' = [fjob EXCEPT ![<<t, c>>] = "created"]
    /\ UNCHANGED <<runVars, status, wg, current, running, fixing, fixVars, closing,
                   diskVars>>

\* AutoFix: the comic waits for its fix and the fix closure is counted before
\* it is offered to the channel.
VerifyWaitsFix(t, c) ==
    /\ vjob[<<t, c>>] = "verifying"
    /\ broken[c] # {} /\ mode[t] = "fix"
    /\ valid' = [valid EXCEPT ![<<t, c>>] = FALSE]
    /\ fixImages' = [fixImages EXCEPT ![<<t, c>>] = broken[c]]
    /\ WaitFix(t, c)
    /\ wg' = [wg EXCEPT ![t] = @ + 1]
    /\ vjob' = [vjob EXCEPT ![<<t, c>>] = "sending"]
    /\ fjob' = [fjob EXCEPT ![<<t, c>>] = "created"]
    /\ UNCHANGED <<runVars, status, current, fixing, fixVars, closing, diskVars>>

\* GenDownList: the closure writes the list, counts the comic and returns
\* without an Update of the storage.
VerifyLists(t, c) ==
    /\ vjob[<<t, c>>] = "verifying"
    /\ broken[c] # {} /\ mode[t] = "list"
    /\ valid' = [valid EXCEPT ![<<t, c>>] = FALSE]
    /\ EndLists(t, c)
    /\ current' = [current EXCEPT ![t] = @ + 1]
    /\ wg' = [wg EXCEPT ![t] = @ - 1]
    /\ vjob' = [vjob EXCEPT ![<<t, c>>] = "done"]
    /\ UNCHANGED <<runVars, status, fjob, fixImages, fixVars, closing, diskVars>>

\* Faulty variant: no return after the send, so the closure goes on to count the
\* comic that its fix closure will count too.
SendFixFallsThrough(t, c) ==
    /\ vjob[<<t, c>>] = "sending"
    /\ QueueOpen /\ Len(queue) < FixQueueCap
    /\ queue' = Append(queue, <<t, c>>)
    /\ fjob' = [fjob EXCEPT ![<<t, c>>] = "queued"]
    /\ vjob' = [vjob EXCEPT ![<<t, c>>] = "counting"]
    /\ UNCHANGED <<runVars, status, wg, fixImages, valid, listVars, hand, worker,
                   closing, diskVars>>

\* select: the channel takes the fix closure and the verify closure returns.
SendFix(t, c) ==
    /\ vjob[<<t, c>>] = "sending"
    /\ QueueOpen /\ Len(queue) < FixQueueCap
    /\ queue' = Append(queue, <<t, c>>)
    /\ fjob' = [fjob EXCEPT ![<<t, c>>] = "queued"]
    /\ vjob' = [vjob EXCEPT ![<<t, c>>] = "handed"]
    /\ wg' = [wg EXCEPT ![t] = @ - 1]
    /\ UNCHANGED <<runVars, status, fixImages, valid, listVars, hand, worker, closing,
                   diskVars>>

\* select, default: the channel is full.  The fix closure is dropped, the count
\* it was given is not, and the closure goes on to count the comic.
QueueFull(t, c) ==
    /\ vjob[<<t, c>>] = "sending"
    /\ QueueOpen /\ Len(queue) = FixQueueCap
    /\ vjob' = [vjob EXCEPT ![<<t, c>>] = "counting"]
    /\ UNCHANGED <<runVars, status, wg, fjob, fixImages, valid, listVars, fixVars,
                   closing, diskVars>>

\* A send on the closed channel panics; the pool recovers the panic and the
\* deferred wg.Done of the verify closure runs.
SendPanics(t, c) ==
    /\ vjob[<<t, c>>] = "sending"
    /\ ~QueueOpen
    /\ vjob' = [vjob EXCEPT ![<<t, c>>] = "panicked"]
    /\ wg' = [wg EXCEPT ![t] = @ - 1]
    /\ UNCHANGED <<runVars, status, fjob, fixImages, valid, listVars, fixVars, closing,
                   diskVars>>

\* The tail of the verify closure: End, Current.Inc.
VerifyCounts(t, c) ==
    /\ vjob[<<t, c>>] = "counting"
    /\ EndLists(t, c)
    /\ current' = [current EXCEPT ![t] = @ + 1]
    /\ vjob' = [vjob EXCEPT ![<<t, c>>] = "saving"]
    /\ UNCHANGED <<runVars, status, wg, fjob, fixImages, valid, fixVars, closing,
                   diskVars>>

\* storage.Update stores the verdict, or fails and is only logged.
SaveVerdict(t, c) ==
    \/ saved' = [saved EXCEPT ![c] = IF valid[<<t, c>>] THEN "valid" ELSE "invalid"]
    \/ UNCHANGED saved

VerifySaves(t, c) ==
    /\ vjob[<<t, c>>] = "saving"
    /\ SaveVerdict(t, c)
    /\ wg' = [wg EXCEPT ![t] = @ - 1]
    /\ vjob' = [vjob EXCEPT ![<<t, c>>] = "done"]
    /\ UNCHANGED <<runVars, status, fjob, fixImages, valid, listVars, fixVars, closing,
                   broken>>

-------------------------------------------------------------------------------
(* The fix worker goroutine *)

FixTake ==
    /\ worker = "on" /\ hand = None
    /\ queue # <<>>
    /\ hand' = Head(queue)
    /\ queue' = Tail(queue)
    /\ fjob' = [fjob EXCEPT ![Head(queue)] = "held"]
    /\ UNCHANGED <<runVars, status, wg, vjob, fixImages, valid, listVars, worker,
                   closing, diskVars>>

\* fixPool.Submit is retried every second until it succeeds; on a released pool
\* it never does.
FixSubmit ==
    /\ hand # None
    /\ FixPoolOpen
    /\ Cardinality(FixBusy) < FixPoolSize
    /\ fjob' = [fjob EXCEPT ![hand] = "spawned"]
    /\ hand' = None
    /\ UNCHANGED <<runVars, status, wg, vjob, fixImages, valid, listVars, queue, worker,
                   closing, diskVars>>

\* The range loop ends when the channel is closed and empty.
FixWorkerExits ==
    /\ worker = "on" /\ hand = None
    /\ queue = <<>> /\ ~QueueOpen
    /\ worker' = "exited"
    /\ UNCHANGED <<runVars, status, wg, jobVars, listVars, queue, hand, closing,
                   diskVars>>

-------------------------------------------------------------------------------
(* The fix closure of job <<t, c>> *)

FixBegin(t, c) ==
    /\ fjob[<<t, c>>] = "spawned"
    /\ Fix(t, c)
    /\ valid' = [valid EXCEPT ![<<t, c>>] = TRUE]
    /\ fjob' = [fjob EXCEPT ![<<t, c>>] = "fixing"]
    /\ UNCHANGED <<runVars, status, wg, vjob, fixImages, current, running, fixVars,
                   closing, diskVars>>

\* One turn of the loop over result.fixImages.  A canceled task skips the image
\* and leaves result.Valid alone.
FixSkips(t, c, i) ==
    /\ fjob[<<t, c>>] = "fixing"
    /\ i \in fixImages[<<t, c>>]
    /\ status[t] = "canceled"
    /\ fixImages' = [fixImages EXCEPT ![<<t, c>>] = @ \ {i}]
    /\ UNCHANGED <<runVars, status, wg, vjob, fjob, valid, listVars, fixVars, closing,
                   diskVars>>

\* What the fix closures of two tasks that work on one comic leave of image i, when
\* the one of t is done with it.  fixImage writes to <path>.fix, whoever calls it: a
\* copy that was verified and renamed is still being written to by the other
\* closure's download, so the image may be broken again, now or, when the other one
\* has just ended, by what t itself wrote.  A closure that has the comic to itself
\* leaves the copy it made.
Spoils(t, c, i) ==
    {spoilt \in SUBSET {i} :
        spoilt # {} => \E u \in Tasks \ {t} : fjob[<<u, c>>] \in Repairing}

\* fixImage downloads a good copy and renames it over the broken image.
FixImage(t, c, i) ==
    /\ fjob[<<t, c>>] = "fixing"
    /\ i \in fixImages[<<t, c>>]
    /\ status[t] # "canceled"
    /\ fixImages' = [fixImages EXCEPT ![<<t, c>>] = @ \ {i}]
    /\ \E spoilt \in Spoils(t, c, i) : broken' = [broken EXCEPT ![c] = (@ \ {i}) \cup spoilt]
    /\ UNCHANGED <<runVars, status, wg, vjob, fjob, valid, listVars, fixVars, closing,
                   saved>>

\* Faulty variant: the failure is only logged.
FixImageFailsUnnoticed(t, c, i) ==
    /\ fjob[<<t, c>>] = "fixing"
    /\ i \in fixImages[<<t, c>>]
    /\ status[t] # "canceled"
    /\ fixImages' = [fixImages EXCEPT ![<<t, c>>] = @ \ {i}]
    /\ UNCHANGED <<runVars, status, wg, vjob, fjob, valid, listVars, fixVars, closing,
                   diskVars>>

\* fixImage fails: the download, the check of the copy or the rename, which finds no
\* file when another closure has renamed it.
FixImageFails(t, c, i) ==
    /\ fjob[<<t, c>>] = "fixing"
    /\ i \in fixImages[<<t, c>>]
    /\ status[t] # "canceled"
    /\ fixImages' = [fixImages EXCEPT ![<<t, c>>] = @ \ {i}]
    /\ valid' = [valid EXCEPT ![<<t, c>>] = FALSE]
    /\ \E spoilt \in Spoils(t, c, i) : broken' = [broken EXCEPT ![c] = @ \cup spoilt]
    /\ UNCHANGED <<runVars, status, wg, vjob, fjob, listVars, fixVars, closing, saved>>

FixCounts(t, c) ==
    /\ fjob[<<t, c>>] = "fixing"
    /\ fixImages[<<t, c>>] = {}
    /\ EndLists(t, c)
    /\ current' = [current EXCEPT ![t] = @ + 1]
    /\ fjob' = [fjob EXCEPT ![<<t, c>>] = "saving"]
    /\ UNCHANGED <<runVars, status, wg, vjob, fixImages, valid, fixVars, closing,
                   diskVars>>

\* Faulty variant: the closure returns without wg.Done.
FixSavesNoDone(t, c) ==
    /\ fjob[<<t, c>>] = "saving"
    /\ SaveVerdict(t, c)
    /\ fjob' = [fjob EXCEPT ![<<t, c>>] = "done"]
    /\ UNCHANGED <<runVars, status, wg, vjob, fixImages, valid, listVars, fixVars,
                   closing, broken>>

FixSaves(t, c) ==
    /\ fjob[<<t, c>>] = "saving"
    /\ SaveVerdict(t, c)
    /\ wg' = [wg EXCEPT ![t] = @ - 1]
    /\ fjob' = [fjob EXCEPT ![<<t, c>>] = "done"]
    /\ UNCHANGED <<runVars, status, vjob, fixImages, valid, listVars, fixVars, closing,
                   broken>>

-------------------------------------------------------------------------------
(* CancelTask and Close *)

\* CancelTask only stores the status; it refuses a task that is not registered
\* or already canceled.
CancelTask(t) ==
    /\ t \in progress
    /\ status[t] # "canceled"
    /\ status' = [status EXCEPT ![t] = "canceled"]
    /\ UNCHANGED <<runVars, wg, jobVars, listVars, fixVars, closing, diskVars>>

\* Close releases verifyPool, releases fixPool, closes fixFnCh, then waits for
\* the fix worker.  Release stops new submissions, not the closures that run.
CloseBegin ==
    /\ closing = "open"
    /\ closing' = "verifyReleased"
    /\ UNCHANGED <<runVars, status, wg, jobVars, listVars, fixVars, diskVars>>

CloseReleasesFix ==
    /\ closing = "verifyReleased"
    /\ closing' = "released"
    /\ UNCHANGED <<runVars, status, wg, jobVars, listVars, fixVars, diskVars>>

CloseQueue ==
    /\ closing = "released"
    /\ closing' = "waiting"
    /\ UNCHANGED <<runVars, status, wg, jobVars, listVars, fixVars, diskVars>>

CloseReturns ==
    /\ closing = "waiting"
    /\ worker \in {"off", "exited"}
    /\ closing' = "closed"
    /\ UNCHANGED <<runVars, status, wg, jobVars, listVars, fixVars, diskVars>>

-------------------------------------------------------------------------------
Starting(t) == Start(t) \/ FindFails(t) \/ Register(t)

RunTaskStep(t) ==
    \/ RunTask(t) \/ ChannelClosed(t)
    \/ \E c \in Comics : Receive(t, c) \/ ReceiveCanceled(t, c)
    \/ Submit(t) \/ SubmitFails(t)
    \/ Drained(t) \/ cleanupTask(t)

VerifyStep(t, c) ==
    \/ VerifyBegin(t, c)
    \/ VerifyReports(t, c) \/ VerifyWaitsFix(t, c) \/ VerifyLists(t, c)
    \/ SendFix(t, c) \/ QueueFull(t, c) \/ SendPanics(t, c)
    \/ VerifyCounts(t, c) \/ VerifySaves(t, c)

FixWorkerStep == StartFixWorker \/ FixTake \/ FixSubmit \/ FixWorkerExits

FixStep(t, c) ==
    \/ FixBegin(t, c)
    \/ \E i \in Images : FixSkips(t, c, i) \/ FixImage(t, c, i) \/ FixImageFails(t, c, i)
    \/ FixCounts(t, c) \/ FixSaves(t, c)

CloseStep == CloseReleasesFix \/ CloseQueue \/ CloseReturns

Next ==
    \/ \E t \in Tasks : Starting(t) \/ RunTaskStep(t) \/ CancelTask(t)
    \/ \E t \in Tasks, c \in Comics : VerifyStep(t, c) \/ FixStep(t, c)
    \/ FixWorkerStep
    \/ CloseBegin \/ CloseStep

Spec == Init /\ [][Next]_vars

(***************************************************************************)
(* Every goroutine that can take a step eventually takes one.  Nothing     *)
(* forces a caller to call Start, CancelTask or Close.                     *)
(***************************************************************************)
Fairness ==
    /\ \A t \in Tasks : WF_vars(FindFails(t) \/ Register(t)) /\ WF_vars(RunTaskStep(t))
    /\ \A t \in Tasks, c \in Comics : WF_vars(VerifyStep(t, c)) /\ WF_vars(FixStep(t, c))
    /\ WF_vars(FixWorkerStep)
    /\ WF_vars(CloseStep)

FairSpec == Spec /\ Fairness

-------------------------------------------------------------------------------
(* Properties *)

TypeOK ==
    /\ phase \in [Tasks -> {"idle", "finding", "failed", "launched", "receiving",
                            "submitting", "draining", "cleaning", "gone"}]
    /\ mode \in [Tasks -> {"report", "fix", "list"}]
    /\ status \in [Tasks -> {"pending", "running", "canceled"}]
    /\ tasks \subseteq Tasks /\ progress \subseteq Tasks
    /\ pending \in [Tasks -> SUBSET Comics]
    /\ cur \in [Tasks -> Comics \cup {None}]
    /\ \A t \in Tasks : phase[t] = "submitting" <=> cur[t] \in Comics
    /\ wg \in [Tasks -> Int]
    /\ vjob \in [Jobs -> VerifyActive \cup {"none", "handed", "dropped", "panicked", "done"}]
    /\ fjob \in [Jobs -> FixActive \cup {"none", "done"}]
    /\ fixImages \in [Jobs -> SUBSET Images]
    /\ valid \in [Jobs -> BOOLEAN]
    /\ current \in [Tasks -> Int]
    /\ running \in [Tasks -> SUBSET Comics]
    /\ waitFixing \in [Tasks -> SUBSET Comics]
    /\ fixing \in [Tasks -> SUBSET Comics]
    /\ queue \in Seq(Jobs)
    /\ hand \in Jobs \cup {None}
    /\ worker \in {"off", "on", "exited"}
    /\ closing \in {"open", "verifyReleased", "released", "waiting", "closed"}
    /\ broken \in [Comics -> SUBSET Images]
    /\ saved \in [Comics -> {"none", "valid", "invalid"}]

\* The comics of task t whose closure, of the kind job, is at a point of S.
At(job, S, t) == {c \in Comics : job[<<t, c>>] \in S}

\* Closures of task t that have not returned.
VerifyOpen(t) == At(vjob, VerifyActive, t)
FixOpen(t)    == At(fjob, FixActive, t)

\* The WaitGroup of a task counts exactly the comic being submitted, the verify
\* closures and the fix closures that have not returned: over every interleaving
\* of Submit, panic, queue and Close it never goes negative or misses a closure.
WaitGroupCounts ==
    \A t \in Tasks :
        wg[t] = Cardinality(VerifyOpen(t)) + Cardinality(FixOpen(t))
                + (IF phase[t] = "submitting" THEN 1 ELSE 0)

\* cleanupTask comes last: once the task is deleted no closure of it is left
\* that could still touch its progress or its comics.
CleanupIsLast ==
    \A t \in Tasks : phase[t] \in {"cleaning", "gone"} =>
        VerifyOpen(t) = {} /\ FixOpen(t) = {}

\* Comics whose verify or fix closure has added them to Progress.Current.
VerifyCounted(t) == At(vjob, {"saving", "done"}, t)
FixCounted(t)    == At(fjob, {"saving", "done"}, t)

\* A comic is counted by its verify closure or by its fix closure, never by
\* both, so Current never passes the number of comics of the task.
CountedOnce ==
    \A t \in Tasks :
        /\ VerifyCounted(t) \cap FixCounted(t) = {}
        /\ current[t] = Cardinality(VerifyCounted(t)) + Cardinality(FixCounted(t))

\* The three lists of a progress show where each comic is: End, WaitFix and Fix,
\* called from different goroutines, never remove from the wrong list, and a
\* task that has been cleaned up has left nothing on them.
ListsShowJobs ==
    \A t \in Tasks, c \in Comics :
        LET v == vjob[<<t, c>>]
            f == fjob[<<t, c>>]
        IN  /\ c \in running[t] <=>
                  v = "verifying" \/ (v = "counting" /\ f = "none")
            /\ c \in waitFixing[t] <=>
                  \/ v \in {"sending", "panicked"}
                  \/ v = "counting" /\ f = "created"
                  \/ f \in {"queued", "held", "spawned"}
            /\ c \in fixing[t] <=> f = "fixing"

-------------------------------------------------------------------------------
(* The inductive invariant behind the safety properties *)

\* A fix closure exists only after its verify closure made it, and runs only
\* after its verify closure handed it over.
JobsInOrder ==
    \A t \in Tasks, c \in Comics :
        LET v == vjob[<<t, c>>]
            f == fjob[<<t, c>>]
        IN  /\ v \in {"none", "spawned", "verifying", "dropped"} => f = "none"
            /\ v \in {"sending", "panicked"} => f = "created"
            /\ v \in {"counting", "saving", "done"} => f \in {"none", "created"}
            /\ v = "handed" => f \notin {"none", "created"}

\* A comic that has not been submitted has no verify closure.
IntakeInOrder ==
    \A t \in Tasks, c \in Comics :
        /\ phase[t] \in {"idle", "finding"} \/ c \in pending[t] \/ c = cur[t]
              => vjob[<<t, c>>] = "none"
        /\ c = cur[t] => c \notin pending[t]

\* The channel and the hand of the fix worker hold each queued closure once.
QueueInOrder ==
    /\ \A i \in 1 .. Len(queue) : fjob[queue[i]] = "queued"
    /\ \A i, k \in 1 .. Len(queue) : queue[i] = queue[k] => i = k
    /\ hand # None => fjob[hand] = "held"

IInv ==
    /\ TypeOK
    /\ JobsInOrder /\ IntakeInOrder /\ QueueInOrder
    /\ WaitGroupCounts /\ CleanupIsLast
    /\ CountedOnce /\ ListsShowJobs

-------------------------------------------------------------------------------
\* After a cancellation that runTask can see, no further comic is taken up.
CancelStopsIntake ==
    [][\A t \in Tasks : status[t] = "canceled" /\ phase[t] = "receiving"
           => phase'[t] \in {"receiving", "draining"}]_vars

\* At most one task has repaired the comic.
OneRepairer(c) ==
    \A t, u \in Tasks :
        fjob[<<t, c>>] \in Repairing /\ fjob[<<u, c>>] \in Repairing => t = u

\* Unless a task was canceled, or two tasks repaired the comic, a verdict "valid" in
\* the storage means that no image of the comic is broken: each failed repair is
\* carried from the loop over the images to the verdict that is saved, whatever other
\* tasks verify and save meanwhile.
SavedValidIsGood ==
    \A c \in Comics :
        /\ saved[c] = "valid"
        /\ \A t \in Tasks : status[t] # "canceled"
        /\ OneRepairer(c)
        => broken[c] = {}

\* A fix closure that the full channel refused or the closed channel panicked on.
Orphaned(t) == \E c \in Comics :
    fjob[<<t, c>>] = "created" /\ vjob[<<t, c>>] \notin {"sending"}

\* A task that starts is cleaned up, unless the fix queue overflowed or the
\* verifier is being closed.
TaskFinishes ==
    \A t \in Tasks : phase[t] = "launched" ~>
        phase[t] = "gone" \/ Orphaned(t) \/ closing # "open"

\* Close waits for the fix worker to leave and then returns.
CloseFinishes == closing = "verifyReleased" ~> closing = "closed"
===============================================================================
