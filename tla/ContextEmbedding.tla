---------------------------- MODULE ContextEmbedding ----------------------------
(***************************************************************************)
(* The embedding of one page.  Whoever observes the page first takes a     *)
(* lock, writes PENDING and queues a job; a worker writes READY or, after  *)
(* its last attempt, FAILED, and takes the lock away.  A decision reads    *)
(* the state and waits for nothing.  The job's id is made of the page's    *)
(* content, so that the queue takes one job of a page at a time, counting  *)
(* the failed ones it keeps.                                               *)
(***************************************************************************)
EXTENDS Naturals, FiniteSets

CONSTANTS
    Observers,  \* requests that report the page
    Attempts,   \* how often a job is tried
    MaxFaults,  \* bound: failed attempts and calls, crashes
    Dangers     \* sets of hazards; one of them is what may happen

(***************************************************************************)
(* Hazards.  fail: an attempt fails; lost: queueing fails, or seems to;    *)
(* crash: a process dies; late: PENDING and the lock expire while the job  *)
(* is still under way; quick: the job is done while a request that has     *)
(* found nothing is on its way from there to the queue.                    *)
(***************************************************************************)

VARIABLES
    page,      \* context-embedding:{model}:{hash}: its status
    lock,      \* embedding-job:{model}:{hash}
    job,       \* what the queue has under the page's job id
    observer,  \* how far each observe is
    memory,    \* does this server have the embedding in memory
    faults,
    danger     \* the hazards of this behaviour

contextVars == <<page, lock, job, observer, memory, faults, danger>>

-----------------------------------------------------------------------------
NoJob == [at |-> "none", made |-> 0, stalled |-> 0]

ContextTypeOK ==
    /\ page \in {"none", "PENDING", "READY", "FAILED"}
    /\ lock \in BOOLEAN /\ memory \in BOOLEAN
    /\ job \in [at : {"none", "waiting", "model", "unlock", "remove", "failing", "releasing", "keep", "kept"},
                made : 0..Attempts, stalled : 0..1]
    /\ observer \in [Observers -> {"idle", "claim", "raced", "write", "add", "mark", "unlock", "done"}]
    /\ faults \in 0..MaxFaults /\ danger \in Dangers

ContextInit ==
    /\ page = "none" /\ lock = FALSE /\ job = NoJob /\ memory = FALSE
    /\ observer = [o \in Observers |-> "idle"]
    /\ faults = 0 /\ danger \in Dangers

Fault(hazard) == hazard \in danger /\ faults < MaxFaults /\ faults' = faults + 1

AtWork   == job.at \notin {"none", "kept"}
Claiming == \E o \in Observers : observer[o] \in {"write", "add", "mark", "unlock"}

Observing(o, at) == observer' = [observer EXCEPT ![o] = at]

-----------------------------------------------------------------------------
(***************************************************************************)
(* observe.  READY and PENDING are answers; FAILED is none.                *)
(***************************************************************************)
Observe(o) ==
    /\ observer[o] = "idle"
    /\ Observing(o, IF page \in {"READY", "PENDING"} THEN "done" ELSE "claim")
    /\ memory' = (memory \/ page = "READY")
    /\ UNCHANGED <<page, lock, job, faults, danger>>

Claim(o) ==
    /\ observer[o] = "claim"
    /\ lock' = TRUE
    /\ Observing(o, IF lock THEN "raced" ELSE "write")
    /\ UNCHANGED <<page, job, memory, faults, danger>>

\* Who has lost the race answers what it reads, PENDING if that is nothing.
ReadRaced(o) ==
    /\ observer[o] = "raced"
    /\ Observing(o, "done")
    /\ UNCHANGED <<page, lock, job, memory, faults, danger>>

WritePending(o) ==
    /\ observer[o] = "write"
    /\ page' = "PENDING"
    /\ Observing(o, "add")
    /\ UNCHANGED <<lock, job, memory, faults, danger>>

\* An id the queue has already is not added again.
Queued == IF job.at = "none" THEN [NoJob EXCEPT !.at = "waiting"] ELSE job

AddJob(o) ==
    /\ observer[o] = "add"
    /\ job' = Queued
    /\ Observing(o, "done")
    /\ UNCHANGED <<page, lock, memory, faults, danger>>

\* An error may come after the job has been added.
AddFails(o) ==
    /\ observer[o] = "add" /\ Fault("lost")
    /\ job' \in {job, Queued}
    /\ Observing(o, "mark")
    /\ UNCHANGED <<page, lock, memory, danger>>

MarkNothing(o) ==
    /\ observer[o] = "mark"
    /\ Observing(o, "unlock")
    /\ UNCHANGED <<page, lock, job, memory, faults, danger>>

MarkFailed(o) ==
    /\ observer[o] = "mark"
    /\ page' = "FAILED"
    /\ Observing(o, "unlock")
    /\ UNCHANGED <<lock, job, memory, faults, danger>>

Unlock(o) ==
    /\ observer[o] = "unlock"
    /\ lock' = FALSE
    /\ Observing(o, "done")
    /\ UNCHANGED <<page, job, memory, faults, danger>>

\* The server dies in the middle of a request; what it had in memory is gone.
ObserverDies(o) ==
    /\ observer[o] \notin {"idle", "done"} /\ Fault("crash")
    /\ Observing(o, "done")
    /\ memory' = FALSE
    /\ UNCHANGED <<page, lock, job, danger>>

\* The page is observed again by a later request.
ObserveAgain(o) ==
    /\ observer[o] = "done"
    /\ Observing(o, "idle")
    /\ UNCHANGED <<page, lock, job, memory, faults, danger>>

\* resolveForDecision: what is READY is kept in memory.
ResolveForDecision ==
    /\ ~memory /\ page = "READY" /\ memory' = TRUE
    /\ UNCHANGED <<page, lock, job, observer, faults, danger>>

\* The time to live of the copy in memory, or newer copies that push it out.
LeaveL1 ==
    /\ memory /\ memory' = FALSE
    /\ UNCHANGED <<page, lock, job, observer, faults, danger>>

-----------------------------------------------------------------------------
(***************************************************************************)
(* The worker.  The state is written before the lock is deleted; the queue *)
(* forgets a job that is done and keeps one that failed.                   *)
(***************************************************************************)
Working(at, next) == job.at = at /\ job' = [job EXCEPT !.at = next]

TakeJob ==
    /\ Working("waiting", "model")
    /\ UNCHANGED <<page, lock, observer, memory, faults, danger>>

CompleteJob ==
    /\ Working("model", "unlock")
    /\ "quick" \in danger \/ \A o \in Observers : observer[o] \in {"idle", "raced", "done"}
    /\ page' = "READY"
    /\ UNCHANGED <<lock, observer, memory, faults, danger>>

ReleaseLock ==
    /\ Working("unlock", "remove") \/ Working("releasing", "keep")
    /\ lock' = FALSE
    /\ UNCHANGED <<page, observer, memory, faults, danger>>

RemoveJob ==
    /\ job.at = "remove" /\ job' = NoJob
    /\ UNCHANGED <<page, lock, observer, memory, faults, danger>>

\* The model, its version, the shape of the vector or Redis: the queue tries again unless it was the last time.
AttemptFails ==
    /\ job.at \in {"model", "unlock"} /\ Fault("fail")
    /\ job' = IF job.made + 1 >= Attempts THEN [job EXCEPT !.at = "failing"]
              ELSE [job EXCEPT !.at = "waiting", !.made = @ + 1]
    /\ UNCHANGED <<page, lock, observer, memory, danger>>

FailSilently ==
    /\ Working("failing", "releasing")
    /\ UNCHANGED <<page, lock, observer, memory, faults, danger>>

FailJob ==
    /\ Working("failing", "releasing")
    /\ page' = "FAILED"
    /\ UNCHANGED <<lock, observer, memory, faults, danger>>

KeepFailedJob ==
    /\ Working("keep", "kept")
    /\ UNCHANGED <<page, lock, observer, memory, faults, danger>>

\* A job whose worker died is given to another one, once.
WorkerDies ==
    /\ job.at \in {"model", "unlock", "remove", "failing", "releasing"} /\ Fault("crash")
    /\ job' = IF job.stalled = 0 THEN [job EXCEPT !.at = "waiting", !.stalled = 1] ELSE [job EXCEPT !.at = "kept"]
    /\ UNCHANGED <<page, lock, observer, memory, danger>>

\* A thousand failures after it make the queue forget a failed job; PENDING and the lock are shorter lived.
ForgetFailedJob ==
    /\ job.at = "kept" /\ job' = NoJob
    /\ page # "PENDING" /\ ~lock /\ ~Claiming
    /\ UNCHANGED <<page, lock, observer, memory, faults, danger>>

-----------------------------------------------------------------------------
MayExpire == "late" \in danger \/ ~(AtWork \/ Claiming)

\* Ten minutes for PENDING, FAILED and the lock; seven days for READY.
PageExpires ==
    /\ page # "none" /\ page' = "none"
    /\ MayExpire
    /\ UNCHANGED <<lock, job, observer, memory, faults, danger>>

LockExpires ==
    /\ lock /\ lock' = FALSE
    /\ MayExpire
    /\ UNCHANGED <<page, job, observer, memory, faults, danger>>

ObserverStep ==
    \E o \in Observers :
        \/ Claim(o) \/ ReadRaced(o) \/ WritePending(o) \/ AddJob(o) \/ MarkFailed(o) \/ Unlock(o)

WorkerStep == TakeJob \/ CompleteJob \/ ReleaseLock \/ RemoveJob \/ FailJob \/ KeepFailedJob

ContextNext ==
    \/ ObserverStep
    \/ \E o \in Observers : Observe(o) \/ ObserveAgain(o) \/ AddFails(o) \/ ObserverDies(o)
    \/ WorkerStep \/ AttemptFails \/ WorkerDies \/ ForgetFailedJob
    \/ ResolveForDecision \/ LeaveL1 \/ PageExpires \/ LockExpires

ContextSpec ==
    /\ ContextInit /\ [][ContextNext]_contextVars
    /\ WF_contextVars(ObserverStep) /\ WF_contextVars(WorkerStep)

-----------------------------------------------------------------------------
Orderly == danger \intersect {"crash", "late", "quick"} = {}

(***************************************************************************)
(* Nobody waits for nothing.  A page that is PENDING is being worked on,   *)
(* or will be by the request that wrote PENDING; and when nobody is at     *)
(* work the lock is free, so that the next request that finds nothing      *)
(* queues a job.  Neither holds while the queue keeps a failed job under   *)
(* the page's id.                                                          *)
(***************************************************************************)
PendingHasJob ==
    Orderly =>
        /\ page = "PENDING" => job.at # "none" \/ \E o \in Observers : observer[o] \in {"add", "mark"}
        /\ lock => AtWork \/ Claiming \/ job.at = "kept"

(***************************************************************************)
(* A page that is PENDING with a job becomes READY or FAILED, however      *)
(* often the job is tried and however many requests race for the page; it  *)
(* is not left to the time to live.                                        *)
(***************************************************************************)
PendingIsResolved ==
    Orderly /\ page = "PENDING" /\ job.at \in {"waiting", "model"} ~> page \in {"READY", "FAILED"}

(***************************************************************************)
(* What PENDING says: the embedding is being made, and no job is needed.   *)
(***************************************************************************)
PendingIsWorkedOn ==
    Orderly /\ page = "PENDING" =>
        AtWork \/ \E o \in Observers : observer[o] \in {"add", "mark"}

=============================================================================
