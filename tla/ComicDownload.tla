----------------------------- MODULE ComicDownload -----------------------------
(***************************************************************************)
(* The comic downloads of the API server, cmd/server/internal/comic:       *)
(* CreateDownloadTask with its limit on concurrent downloads, and          *)
(* createDownloadTask, which hands the missing pages of a comic to the     *)
(* pool of Downloader as one batch and marks those that arrived.           *)
(*                                                                         *)
(* A batch of the pool is one call for one comic.  createDownloadTask      *)
(* returns an error whenever its count of failures is not zero, and        *)
(* CreateDownloadTask returns on any error, so its retry loop makes one    *)
(* turn.                                                                   *)
(***************************************************************************)
EXTENDS Downloader

CONSTANTS MaxDownloadSize,  \* maxDownloadSize: "maximum concurrent downloads"
          MaxConns          \* the values of max_conn that requests ask for

ASSUME LimitsAssumption == MaxDownloadSize \in Int /\ MaxConns \subseteq Int

VARIABLES
    job,       \* [Batches -> control point of the call, or how it returned]
    size,      \* downloadSize, the atomic counter of running downloads
    marked,    \* tasks whose page's status a call has set in its copy of the comic
    failures   \* [Batches -> errWrap.Count()]

jobVars == <<job, size, marked, failures>>
vars == <<dlVars, jobVars>>

Returned == {"over", "nocomic", "already", "failed", "ok"}
Admitted == {"admitted", "running"}

-------------------------------------------------------------------------------
Init ==
    /\ DownloaderInit
    /\ job = [b \in Batches |-> "called"]
    /\ size = 0
    /\ marked = {}
    /\ failures = [b \in Batches |-> 0]

\* ComicDownloadConnOver, read by itself
CheckLimit(b) ==
    /\ job[b] = "called"
    /\ job' = [job EXCEPT ![b] = IF size >= MaxDownloadSize THEN "over" ELSE "below"]
    /\ UNCHANGED <<dlVars, size, marked, failures>>

\* Faulty variant: the counter is only taken down.
AdmitUncounted(b) ==
    /\ job[b] = "below"
    /\ job' = [job EXCEPT ![b] = "admitted"]
    /\ UNCHANGED <<dlVars, size, marked, failures>>

\* downloadSize.Add(1)
Admit(b) ==
    /\ job[b] = "below"
    /\ job' = [job EXCEPT ![b] = "admitted"]
    /\ size' = size + 1
    /\ UNCHANGED <<dlVars, marked, failures>>

\* The call returns; the deferred downloadSize.Add(-1) runs.
Return(b, how) ==
    /\ job' = [job EXCEPT ![b] = how]
    /\ size' = size - 1

\* Faulty variant: no deferred Add(-1), the early return forgets the counter.
PrepareFailsLeaks(b) ==
    /\ job[b] = "admitted"
    /\ \E how \in {"nocomic", "already"} : job' = [job EXCEPT ![b] = how]
    /\ UNCHANGED <<dlVars, size, marked, failures>>

\* GetComicInfo fails, or the comic is complete and the request does not force.
PrepareFails(b) ==
    /\ job[b] = "admitted"
    /\ \E how \in {"nocomic", "already"} : Return(b, how)
    /\ UNCHANGED <<dlVars, marked, failures>>

\* Starts a batch for the pages whose status is not set, or for all of them when
\* the request forces: any of the comic's pages, as far as this module can tell.
StartBatch(b) ==
    /\ job[b] = "admitted"
    /\ \E tasks \in SUBSET TasksOf(b), workers \in MaxConns : DoBatch(b, tasks, workers)
    /\ job' = [job EXCEPT ![b] = "running"]
    /\ UNCHANGED <<size, marked, failures>>

\* Faulty variant: the error is read before the transfer has ended.
ReadResultEarly(b) ==
    /\ job[b] = "running"
    /\ \E t \in InState(b, "result") :
        /\ task' = [task EXCEPT ![t] = "read"]
        /\ IF transfer[answer[t]] # "err"
           THEN marked' = marked \cup {t} /\ UNCHANGED failures
           ELSE failures' = [failures EXCEPT ![b] = @ + 1] /\ UNCHANGED marked
    /\ UNCHANGED <<started, open, batch, quota, answer, worker, req, transfer, job, size>>

\* One turn of the loop over resultCh: Response.Err waits for the transfer, and
\* the status of the task's page is set when it succeeded.
ReadResult(b) ==
    /\ job[b] = "running"
    /\ \E t \in InState(b, "result") :
        /\ transfer[answer[t]] # "running"
        /\ task' = [task EXCEPT ![t] = "read"]
        /\ IF transfer[answer[t]] = "ok"
           THEN marked' = marked \cup {t} /\ UNCHANGED failures
           ELSE failures' = [failures EXCEPT ![b] = @ + 1] /\ UNCHANGED marked
    /\ UNCHANGED <<started, open, batch, quota, answer, worker, req, transfer, job, size>>

\* resultCh is closed and empty: CheckStatus, UpdateComicInfo, return.  The
\* update may fail, and is counted as a failure then.
Save(b) ==
    /\ job[b] = "running"
    /\ batch[b] = "closed" /\ InState(b, "result") = {}
    /\ \/ failures[b] = 0 /\ Return(b, "ok")
       \/ Return(b, "failed")
    /\ UNCHANGED <<dlVars, marked, failures>>

-------------------------------------------------------------------------------
JobStep(b) ==
    CheckLimit(b) \/ Admit(b) \/ PrepareFails(b) \/ StartBatch(b) \/ ReadResult(b) \/ Save(b)

Progress == (PoolProgress /\ UNCHANGED jobVars) \/ \E b \in Batches : JobStep(b)

Next == Progress \/ (Close /\ UNCHANGED jobVars)

Spec == Init /\ [][Next]_vars

(***************************************************************************)
(* The program does not stop while one of its goroutines can take a step,  *)
(* and grab ends every transfer.  The calls being finitely many, this is   *)
(* all that is needed: no order among the goroutines is assumed, and       *)
(* nobody has to close the pool.                                           *)
(***************************************************************************)
FairSpec == Spec /\ WF_vars(Progress)

-------------------------------------------------------------------------------
TypeOK ==
    /\ DownloaderTypeOK
    /\ job \in [Batches -> {"called", "below"} \cup Admitted \cup Returned]
    /\ size \in Nat
    /\ marked \subseteq Tasks
    /\ failures \in [Batches -> Nat]

\* downloadSize counts exactly the calls that run: it is given back on every
\* path out of CreateDownloadTask, so that the limit never locks downloads out.
SizeCountsJobs == size = Cardinality({b \in Batches : job[b] \in Admitted})

\* Page by page the marks may be wrong, the responses of concurrent tasks being
\* exchanged; in total they are right: when no call is running, as many pages
\* have been marked as transfers have succeeded, none twice and none forgotten.
MarksAreDownloads ==
    (\A b \in Batches : job[b] # "running") =>
        Cardinality(marked)
            = Cardinality({t \in Tasks : transfer[t] = "ok"})

\* A call ends, unless the pool is closed under it.
JobEnds == \A b \in Batches : job[b] = "called" ~> job[b] \in Returned \/ ~open

\* No more than maxDownloadSize downloads run at once.
DownloadLimit == size <= MaxDownloadSize
===============================================================================
