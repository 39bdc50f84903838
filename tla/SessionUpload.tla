---------------------------- MODULE SessionUpload ----------------------------
(***************************************************************************)
(* The trajectory of one session: the event loop and the heartbeat's       *)
(* thread save it to one file (save_trajectory_local), and detached        *)
(* processes upload the file and write its status back into it             *)
(* (session_uploader.py). A trajectory is the number of its last event.    *)
(***************************************************************************)
EXTENDS Naturals, FiniteSets

CONSTANTS
    Uploaders,      \* slots for detached processes
    Attempts,       \* max_retries, 3 in the code
    MaxProgress,    \* bound: changes of the trajectory
    MaxSaves        \* bound: saves, and saves or retries that start a process

ASSUME UploadAssumption == {Attempts, MaxProgress, MaxSaves} \subseteq Nat \ {0}

Savers == {"loop", "heartbeat"}

\* A file: the trajectory in it, its upload_status, which inode it is; one that two
\* savers wrote at once may not parse.
NoFile == [holds |-> 0, status |-> "none", inode |-> 0, torn |-> FALSE]

VARIABLES
    trajectory,
    saver,      \* of each saver: where it is, what it read
    staged,     \* the .tmp file, one name for both savers
    saved,      \* the session file
    uploader,   \* of each process: where it is, what it read, the inode, the attempt
    dataset,    \* what the dataset holds
    saves,
    disturbed   \* history: saved during a save, or while a process was at work

uploadVars == <<trajectory, saver, staged, saved, uploader, dataset, saves, disturbed>>

NoSave == [at |-> "idle", read |-> 0]
NoProcess == [at |-> "none", read |-> 0, inode |-> 0, attempt |-> 0]

UploadInit ==
    /\ trajectory = 1
    /\ saver = [w \in Savers |-> NoSave]
    /\ staged = NoFile /\ saved = NoFile
    /\ uploader = [u \in Uploaders |-> NoProcess]
    /\ dataset = 0 /\ saves = 0 /\ disturbed = FALSE

AtWork == {u \in Uploaders : uploader[u].at # "none"}

-----------------------------------------------------------------------------
Progress ==
    /\ trajectory < MaxProgress
    /\ trajectory' = trajectory + 1
    /\ UNCHANGED <<saver, staged, saved, uploader, dataset, saves, disturbed>>

\* Mutant: a save takes over the status the file had.
StatusKept == IF saved.status = "none" THEN "pending" ELSE saved.status

StatusOfSave == "pending"

\* auto_save_if_needed, or maybe_fire in a thread: get_trajectory, and the .tmp file
\* is opened; a second saver truncates the first one's.
StageSave(w) ==
    /\ saver[w].at = "idle" /\ saves < MaxSaves
    /\ saves' = saves + 1
    /\ saver' = [saver EXCEPT ![w] = [at |-> "write", read |-> trajectory]]
    /\ LET shared == staged.inode # 0
       IN  /\ staged' = [holds |-> trajectory, status |-> StatusOfSave,
                         inode |-> IF shared THEN staged.inode ELSE saves + 1,
                         torn |-> shared]
           /\ disturbed' = (disturbed \/ shared)
    /\ UNCHANGED <<trajectory, saved, uploader, dataset>>

Other(w) == CHOOSE x \in Savers : x # w

Spawned(u) == uploader' = [uploader EXCEPT ![u] = [NoProcess EXCEPT !.at = "read"]]

\* The rename, then the uploader, if it starts; a saver whose .tmp file is gone has failed, after
\* writing into what is the session file by now.
RenameSave(w) ==
    /\ saver[w].at = "write"
    /\ saver' = [saver EXCEPT ![w] = NoSave]
    /\ IF staged.inode # 0
       THEN /\ \E t \in {FALSE, staged.torn \/ saver[Other(w)].at = "write"} :
                  saved' = [staged EXCEPT !.torn = t]
            /\ staged' = NoFile
            /\ disturbed' = (disturbed \/ AtWork # {})
            /\ (\E u \in Uploaders \ AtWork : Spawned(u)) \/ UNCHANGED uploader
       ELSE /\ \E t \in BOOLEAN, v \in {saved.holds, saver[w].read} :
                  saved' = [saved EXCEPT !.holds = v, !.torn = t, !.status = StatusOfSave]
            /\ UNCHANGED <<staged, uploader, disturbed>>
    /\ UNCHANGED <<trajectory, dataset, saves>>

\* retry_failed_uploads, when a process starts: what is pending or failed.
RetryUploads(u) ==
    /\ saves < MaxSaves
    /\ saves' = saves + 1
    /\ u \notin AtWork
    /\ saved.status \in {"pending", "failed"} /\ ~saved.torn
    /\ Spawned(u)
    /\ UNCHANGED <<trajectory, saver, staged, saved, dataset, disturbed>>

-----------------------------------------------------------------------------
ProcessGoes(u, where) == uploader' = [uploader EXCEPT ![u].at = where]

\* The file is read under a shared lock; "Skip if already uploaded for this format".
UploaderReads(u) ==
    /\ uploader[u].at = "read"
    /\ uploader' = [uploader EXCEPT ![u] =
           IF saved.torn \/ saved.status = "success" THEN NoProcess
           ELSE [@ EXCEPT !.at = "upload", !.read = saved.holds]]
    /\ UNCHANGED <<trajectory, saver, staged, saved, dataset, saves, disturbed>>

\* upload_file: the dataset has one file of the session, the last upload wins.
UploadFile(u) ==
    /\ uploader[u].at = "upload"
    /\ dataset' = uploader[u].read
    /\ ProcessGoes(u, "succeeded")
    /\ UNCHANGED <<trajectory, saver, staged, saved, saves, disturbed>>

UploadFails(u) ==
    /\ uploader[u].at = "upload"
    /\ IF uploader[u].attempt + 1 < Attempts
       THEN uploader' = [uploader EXCEPT ![u].attempt = @ + 1]
       ELSE ProcessGoes(u, "failed")
    /\ UNCHANGED <<trajectory, saver, staged, saved, dataset, saves, disturbed>>

\* No token: failed without an attempt.
NoToken(u) ==
    /\ uploader[u].at = "upload" /\ uploader[u].attempt = 0
    /\ ProcessGoes(u, "failed")
    /\ UNCHANGED <<trajectory, saver, staged, saved, dataset, saves, disturbed>>

\* _update_upload_status opens the file, ...
OpenForStatus(u) ==
    /\ uploader[u].at \in {"succeeded", "failed"}
    /\ uploader' = [uploader EXCEPT ![u].at = IF @ = "failed" THEN "fail" ELSE "success",
                                    ![u].inode = saved.inode]
    /\ UNCHANGED <<trajectory, saver, staged, saved, dataset, saves, disturbed>>

\* ... and writes the status of what it uploaded on what the file holds now, unless
\* a rename has taken the name away. A torn file does not parse: after an upload, that
\* counts as a failed attempt.
WriteStatus(u) ==
    /\ uploader[u].at \in {"success", "fail"}
    /\ uploader' = [uploader EXCEPT ![u] =
           IF uploader[u].at = "success" /\ uploader[u].inode = saved.inode /\ saved.torn
              /\ uploader[u].attempt + 1 < Attempts
           THEN [@ EXCEPT !.at = "upload", !.attempt = uploader[u].attempt + 1] ELSE NoProcess]
    /\ saved' = IF uploader[u].inode = saved.inode /\ ~saved.torn
                THEN [saved EXCEPT !.status =
                          IF uploader[u].at = "fail" THEN "failed" ELSE "success"]
                ELSE saved
    /\ UNCHANGED <<trajectory, saver, staged, dataset, saves, disturbed>>

UploadNext ==
    \/ Progress
    \/ \E w \in Savers : StageSave(w) \/ RenameSave(w)
    \/ \E u \in Uploaders : \/ RetryUploads(u) \/ UploaderReads(u) \/ UploadFile(u)
                            \/ UploadFails(u) \/ NoToken(u) \/ OpenForStatus(u)
                            \/ WriteStatus(u)

UploadSpec == UploadInit /\ [][UploadNext]_uploadVars

-----------------------------------------------------------------------------
UploadTypeOK ==
    /\ saved.holds <= trajectory /\ dataset <= trajectory
    /\ \A u \in Uploaders : uploader[u].attempt < Attempts

(* When nothing is at work, a session file that counts as uploaded is what *)
(* the dataset holds; otherwise the next retry takes it up. Unless it was  *)
(* saved while an uploader of an earlier save was at work, whose status    *)
(* then covers the later save, or two savers met in the .tmp file.         *)
UploadedIsInDataset ==
    /\ AtWork = {} /\ \A w \in Savers : saver[w].at = "idle"
    /\ saved.status = "success"
    => dataset = saved.holds \/ disturbed
=============================================================================
