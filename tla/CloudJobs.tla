------------------------------ MODULE CloudJobs ------------------------------
(***************************************************************************)
(* The cloud jobs of a session: hf_jobs calls launch them in threads,      *)
(* follow their logs and record their ids, so that an interrupt can cancel *)
(* what still runs (_run_job, _wait_for_job_completion,                    *)
(* _cleanup_on_cancel).                                                    *)
(***************************************************************************)
EXTENDS Naturals, FiniteSets

CONSTANTS
    JobCalls,   \* tool calls that may run together
    NoJob,
    MaxJobs     \* bound: jobs launched

ASSUME CloudJobsAssumption == MaxJobs \in Nat /\ NoJob \notin Nat

Jobs == 1 .. MaxJobs

VARIABLES
    phase,      \* idle, tools, cleanup, or gone: the session ended
    jobCall,    \* where each call is, and its job
    launching,  \* calls whose thread is in run_job; it survives the call
    cloud,      \* jobs: none, running, over
    runningIds, \* session._running_job_ids
    toCancel,   \* ids the cleanup has not come to
    \* history
    late,       \* launched by the thread of a cancelled call
    spared,     \* the cancel request failed
    unfollowed  \* forgotten when the logs or the polls had ended, still running

jobVars == <<phase, jobCall, launching, cloud, runningIds, toCancel, late, spared, unfollowed>>

NoCall == [at |-> "none", job |-> NoJob]

CloudJobsInit ==
    /\ phase = "idle"
    /\ jobCall = [c \in JobCalls |-> NoCall] /\ launching = {}
    /\ cloud = [j \in Jobs |-> "none"]
    /\ runningIds = {} /\ toCancel = {}
    /\ late = {} /\ spared = {} /\ unfollowed = {}

InCall(c, where) == jobCall[c].at = where
CallGoes(c, where) == jobCall' = [jobCall EXCEPT ![c].at = where]

-----------------------------------------------------------------------------
\* A phase: every call is in asyncio.to_thread(run_job).
RunBatch(cs) ==
    /\ phase = "idle"
    /\ \E j \in Jobs : cloud[j] = "none"
    /\ phase' = "tools"
    /\ cs \cap launching = {}
    /\ launching' = launching \cup cs
    /\ jobCall' = [c \in JobCalls |-> IF c \in cs THEN [NoCall EXCEPT !.at = "launch"] ELSE NoCall]
    /\ UNCHANGED <<cloud, runningIds, toCancel, late, spared, unfollowed>>

\* The provider starts the job; whether anyone still waits for its id is another matter.
ProviderLaunches(c, j) ==
    /\ c \in launching
    /\ cloud[j] = "none" /\ \A i \in 1 .. j - 1 : cloud[i] # "none"
    /\ launching' = launching \ {c}
    /\ cloud' = [cloud EXCEPT ![j] = "running"]
    /\ IF InCall(c, "launch")
       THEN jobCall' = [jobCall EXCEPT ![c] = [at |-> "launched", job |-> j]] /\ UNCHANGED late
       ELSE late' = late \cup {j} /\ UNCHANGED jobCall
    /\ UNCHANGED <<phase, runningIds, toCancel, spared, unfollowed>>

\* Refused, for the credits of the namespace or otherwise: the call fails.
ProviderRefuses(c) ==
    /\ c \in launching
    /\ launching' = launching \ {c}
    /\ IF InCall(c, "launch") THEN CallGoes(c, "done") ELSE UNCHANGED jobCall
    /\ UNCHANGED <<phase, cloud, runningIds, toCancel, late, spared, unfollowed>>

\* Mutant: the id is recorded when the logs end.
TrackJobLater(c) ==
    /\ InCall(c, "launched")
    /\ CallGoes(c, "logs")
    /\ UNCHANGED <<phase, launching, cloud, runningIds, toCancel, late, spared, unfollowed>>

\* "Track job ID for cancellation on interrupt", as soon as the call resumes.
TrackJob(c) ==
    /\ InCall(c, "launched")
    /\ runningIds' = runningIds \cup {jobCall[c].job}
    /\ CallGoes(c, "logs")
    /\ UNCHANGED <<phase, launching, cloud, toCancel, late, spared, unfollowed>>

\* The logs end, a drop finds the job at its end, or the reconnections are used up.
LogsEnd(c) ==
    /\ InCall(c, "logs")
    /\ CallGoes(c, "poll")
    /\ UNCHANGED <<phase, launching, cloud, runningIds, toCancel, late, spared, unfollowed>>

\* The final status, or the last of six polls: the id is dropped either way.
UntrackJob(c) ==
    /\ InCall(c, "poll")
    /\ LET j == jobCall[c].job
       IN  /\ runningIds' = runningIds \ {j}
           /\ unfollowed' = IF cloud[j] = "running" THEN unfollowed \cup {j} ELSE unfollowed
    /\ CallGoes(c, "done")
    /\ UNCHANGED <<phase, launching, cloud, toCancel, late, spared>>

\* An error that is not a dropped connection leaves the id recorded.
FollowingFails(c) ==
    /\ jobCall[c].at \in {"logs", "poll"}
    /\ CallGoes(c, "done")
    /\ UNCHANGED <<phase, launching, cloud, runningIds, toCancel, late, spared, unfollowed>>

JobEnds(j) ==
    /\ cloud[j] = "running"
    /\ cloud' = [cloud EXCEPT ![j] = "over"]
    /\ UNCHANGED <<phase, jobCall, launching, runningIds, toCancel, late, spared, unfollowed>>

BatchReturns ==
    /\ phase = "tools"
    /\ \A c \in JobCalls : jobCall[c].at \in {"none", "done"}
    /\ phase' = "idle"
    /\ jobCall' = [c \in JobCalls |-> NoCall]
    /\ UNCHANGED <<launching, cloud, runningIds, toCancel, late, spared, unfollowed>>

-----------------------------------------------------------------------------
\* The interrupt cancels the gathered calls, not their threads: a job whose id a
\* cancelled call was about to record is nobody's.
InterruptBatch ==
    /\ phase = "tools"
    /\ phase' = "cleanup"
    /\ toCancel' = runningIds
    /\ late' = late \cup {jobCall[c].job : c \in {x \in JobCalls : InCall(x, "launched")}}
    /\ jobCall' = [c \in JobCalls |-> NoCall]
    /\ UNCHANGED <<launching, cloud, runningIds, spared, unfollowed>>

\* cancel_job in a thread: without the namespace of the job, so it may well fail.
CancelRequest(j) ==
    /\ j \in toCancel
    /\ toCancel' = toCancel \ {j}
    /\ \/ cloud' = [cloud EXCEPT ![j] = "over"] /\ UNCHANGED spared
       \/ spared' = spared \cup {j} /\ UNCHANGED cloud
    /\ UNCHANGED <<phase, jobCall, launching, runningIds, late, unfollowed>>

CleanupEnds ==
    /\ phase = "cleanup" /\ toCancel = {}
    /\ runningIds' = {}
    /\ phase' = "idle"
    /\ UNCHANGED <<jobCall, launching, cloud, toCancel, late, spared, unfollowed>>

\* The session's task is cancelled: asyncio.wait leaves the calls alone, and they go on.
SessionGone ==
    /\ phase # "gone"
    /\ phase' = "gone"
    /\ toCancel' = {}
    /\ UNCHANGED <<jobCall, launching, cloud, runningIds, late, spared, unfollowed>>

CloudJobsNext ==
    \/ \E cs \in (SUBSET JobCalls) \ {{}} : RunBatch(cs)
    \/ \E c \in JobCalls : \/ \E j \in Jobs : ProviderLaunches(c, j)
                           \/ ProviderRefuses(c) \/ TrackJob(c) \/ LogsEnd(c)
                           \/ UntrackJob(c) \/ FollowingFails(c)
    \/ \E j \in Jobs : JobEnds(j) \/ CancelRequest(j)
    \/ BatchReturns \/ InterruptBatch \/ CleanupEnds \/ SessionGone

CloudJobsSpec == CloudJobsInit /\ [][CloudJobsNext]_jobVars

-----------------------------------------------------------------------------
CloudJobsTypeOK ==
    /\ toCancel \subseteq runningIds
    /\ \A j \in runningIds : cloud[j] # "none"
    /\ \A c \in JobCalls : jobCall[c].job \in Jobs \cup {NoJob}

(* "Kill sandbox processes and cancel HF jobs when the user interrupts"    *)
(* (_cleanup_on_cancel): between batches a job that still runs is recorded *)
(* for the next interrupt, was launched behind the back of a cancelled     *)
(* call, could not be cancelled, or was given up by the call that followed *)
(* it.                                                                     *)
RunningJobsAreExplained ==
    phase = "idle" =>
        \A j \in Jobs : cloud[j] = "running" =>
            j \in runningIds \cup late \cup spared \cup unfollowed
=============================================================================
