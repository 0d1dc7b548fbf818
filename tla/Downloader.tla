------------------------------ MODULE Downloader ------------------------------
(***************************************************************************)
(* The download pool of pkg/download: the worker goroutines of             *)
(* Downloader.Start and the batches of Downloader.DoBatch.                 *)
(*                                                                         *)
(* A batch has a goroutine per connection; each takes one task from the    *)
(* batch's taskCh, sends a request on reqCh and receives a response from   *)
(* respCh.  Both channels are unbuffered and shared by all batches, so the *)
(* response need not be the answer to the request.  ComicDownload, which   *)
(* extends this module, reads the results.                                 *)
(***************************************************************************)
EXTENDS Integers, FiniteSets

CONSTANTS Workers,  \* goroutines of the pool, DownloaderConfig.MaxRunning of them
          Batches,  \* calls of DoBatch
          Tasks,    \* download tasks, pairs of a batch and a page
          None      \* "no task"

ASSUME DownloaderAssumption ==
    /\ IsFiniteSet(Workers) /\ IsFiniteSet(Tasks)
    /\ \A t \in Tasks : t = <<t[1], t[2]>> /\ t[1] \in Batches
    /\ None \notin Tasks

VARIABLES
    started,   \* the workers run: once.Do(DefaultDownloader.Start) has been called
    open,      \* d.ctx is not canceled
    batch,     \* [Batches -> none, running, or closed: resultCh is closed]
    quota,     \* [Batches -> batch goroutines that have not looked at taskCh]
    task,      \* [Tasks -> where the task is]
    answer,    \* [Tasks -> the task whose response came with its result, or None]
    worker,    \* [Workers -> idle, offering, downloading or stopped]
    req,       \* [Workers -> the task whose request it works on, or None]
    transfer   \* [Tasks -> the transfer of its request: none, running, ok or err]

dlVars == <<started, open, batch, quota, task, answer, worker, req, transfer>>

TasksOf(b) == {t \in Tasks : t[1] = b}
InState(b, s) == {t \in TasksOf(b) : task[t] = s}

-------------------------------------------------------------------------------
DownloaderInit ==
    /\ started = FALSE /\ open = TRUE
    /\ batch = [b \in Batches |-> "none"]
    /\ quota = [b \in Batches |-> 0]
    /\ task = [t \in Tasks |-> "none"]
    /\ answer = [t \in Tasks |-> None]
    /\ worker = [w \in Workers |-> "idle"]
    /\ req = [w \in Workers |-> None]
    /\ transfer = [t \in Tasks |-> "none"]

\* DoBatch(workers, tasks...) of the package: starts the pool once, then queues
\* the tasks; taskCh has room for all of them.
DoBatch(b, tasks, workers) ==
    /\ batch[b] = "none"
    /\ started' = TRUE
    /\ batch' = [batch EXCEPT ![b] = "running"]
    /\ quota' = [quota EXCEPT ![b] = IF workers < 1 THEN Cardinality(tasks) ELSE workers]
    /\ task' = [t \in Tasks |-> IF t \in tasks THEN "queued" ELSE task[t]]
    /\ UNCHANGED <<open, answer, worker, req, transfer>>

\* A batch goroutine receives its only task and makes the request from it; a
\* task that gives no request ends the goroutine without a result.
Take(b) ==
    /\ quota[b] > 0
    /\ quota' = [quota EXCEPT ![b] = @ - 1]
    /\ \E t \in InState(b, "queued"), s \in {"taken", "invalid"} : task' = [task EXCEPT ![t] = s]
    /\ UNCHANGED <<started, open, batch, answer, worker, req, transfer>>

\* reqCh: the request goes to an idle worker, which starts the transfer.  The
\* worker's select may choose it although the context is canceled.
Send(t) ==
    /\ started /\ task[t] = "taken"
    /\ \E w \in Workers :
        /\ worker[w] = "idle"
        /\ worker' = [worker EXCEPT ![w] = "offering"]
        /\ req' = [req EXCEPT ![w] = t]
    /\ task' = [task EXCEPT ![t] = "awaiting"]
    /\ transfer' = [transfer EXCEPT ![t] = "running"]
    /\ UNCHANGED <<started, open, batch, quota, answer>>

\* Faulty variant: a worker that sees the context canceled does not wait for a
\* receiver of its response.
DeliverUnlessCanceled(t) ==
    \E w \in Workers :
        /\ worker[w] = "offering"
        /\ worker' = [worker EXCEPT ![w] = "downloading"]
        /\ IF open THEN /\ task[t] = "awaiting"
                        /\ answer' = [answer EXCEPT ![t] = req[w]]
                        /\ task' = [task EXCEPT ![t] = "result"]
                   ELSE UNCHANGED <<answer, task>>
        /\ UNCHANGED <<started, open, batch, quota, req, transfer>>

\* Faulty variant: the worker goes on offering the response that it has sent.
DeliverAgain(t) ==
    \E w \in Workers :
        /\ worker[w] = "offering" /\ task[t] = "awaiting"
        /\ answer' = [answer EXCEPT ![t] = req[w]]
        /\ task' = [task EXCEPT ![t] = "result"]
        /\ UNCHANGED <<started, open, batch, quota, worker, req, transfer>>

\* Faulty variant: a batch goroutine that has sent its request gives up when the
\* context is canceled, and nobody receives the response.
DeliverWhileOpen(t) ==
    \E w \in Workers :
        /\ open /\ worker[w] = "offering" /\ task[t] = "awaiting"
        /\ worker' = [worker EXCEPT ![w] = "downloading"]
        /\ answer' = [answer EXCEPT ![t] = req[w]]
        /\ task' = [task EXCEPT ![t] = "result"]
        /\ UNCHANGED <<started, open, batch, quota, req, transfer>>

\* respCh: the response goes to any batch goroutine that waits for one, which
\* puts it into resultCh next to its own task.
Deliver(t) ==
    \E w \in Workers :
        /\ worker[w] = "offering" /\ task[t] = "awaiting"
        /\ worker' = [worker EXCEPT ![w] = "downloading"]
        /\ answer' = [answer EXCEPT ![t] = req[w]]
        /\ task' = [task EXCEPT ![t] = "result"]
        /\ UNCHANGED <<started, open, batch, quota, req, transfer>>

\* grab ends a transfer: resp.Done is closed.
TransferEnds(t) ==
    /\ transfer[t] = "running"
    /\ \E outcome \in {"ok", "err"} : transfer' = [transfer EXCEPT ![t] = outcome]
    /\ UNCHANGED <<started, open, batch, quota, task, answer, worker, req>>

\* <-resp.Done: the worker is back in its select.
NextRequest(w) ==
    /\ worker[w] = "downloading"
    /\ transfer[req[w]] # "running"
    /\ worker' = [worker EXCEPT ![w] = "idle"]
    /\ req' = [req EXCEPT ![w] = None]
    /\ UNCHANGED <<started, open, batch, quota, task, answer, transfer>>

\* <-d.ctx.Done(): the worker goroutine returns.
Stop(w) ==
    /\ started /\ ~open
    /\ worker[w] = "idle"
    /\ worker' = [worker EXCEPT ![w] = "stopped"]
    /\ UNCHANGED <<started, open, batch, quota, task, answer, req, transfer>>

\* Faulty variant: taskCh is not closed, goroutines without a task never return.
CloseResultsUnqueued(b) ==
    /\ batch[b] = "running"
    /\ quota[b] = 0
    /\ InState(b, "taken") \cup InState(b, "awaiting") = {}
    /\ batch' = [batch EXCEPT ![b] = "closed"]
    /\ UNCHANGED <<started, open, quota, task, answer, worker, req, transfer>>

\* Every batch goroutine has returned, those without a task because taskCh was
\* closed: the queueing goroutine closes resultCh.
CloseResults(b) ==
    /\ batch[b] = "running"
    /\ quota[b] = 0 \/ InState(b, "queued") = {}
    /\ InState(b, "taken") \cup InState(b, "awaiting") = {}
    /\ batch' = [batch EXCEPT ![b] = "closed"]
    /\ UNCHANGED <<started, open, quota, task, answer, worker, req, transfer>>

\* Downloader.Close
Close ==
    /\ open
    /\ open' = FALSE
    /\ UNCHANGED <<started, batch, quota, task, answer, worker, req, transfer>>

PoolProgress ==
    \/ \E b \in Batches : Take(b) \/ CloseResults(b)
    \/ \E t \in Tasks : Send(t) \/ Deliver(t) \/ TransferEnds(t)
    \/ \E w \in Workers : NextRequest(w) \/ Stop(w)

-------------------------------------------------------------------------------
DownloaderTypeOK ==
    /\ started \in BOOLEAN /\ open \in BOOLEAN
    /\ batch \in [Batches -> {"none", "running", "closed"}]
    /\ quota \in [Batches -> Nat]
    /\ task \in [Tasks -> {"none", "queued", "taken", "invalid", "awaiting", "result", "read"}]
    /\ answer \in [Tasks -> Tasks \cup {None}]
    /\ worker \in [Workers -> {"idle", "offering", "downloading", "stopped"}]
    /\ req \in [Workers -> Tasks \cup {None}]
    /\ transfer \in [Tasks -> {"none", "running", "ok", "err"}]

\* Every worker that offers a response on respCh finds a batch goroutine that
\* waits for one, and nobody waits for a response that no worker has: neither
\* side of the channel can be stuck, canceled context or not.
WaitersMatch ==
    Cardinality({w \in Workers : worker[w] = "offering"})
        = Cardinality({t \in Tasks : task[t] = "awaiting"})

\* A response goes to one result only, in spite of the shared channels.
ResponsesGoOnce ==
    \A t, u \in Tasks : answer[t] # None /\ answer[t] = answer[u] => t = u

\* A closed pool that was started stops all its workers: none of them is left
\* blocked on a channel, whatever batches were under way.
WorkersStop == started /\ ~open ~> \A w \in Workers : worker[w] = "stopped"
===============================================================================
