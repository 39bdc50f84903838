----------------------------- MODULE MCServices -----------------------------
(***************************************************************************)
(* The services of the agent, each on its own, for one run of TLC: `part`  *)
(* says which of them this behaviour is about, and the others stand still. *)
(* They share no state in the code either, but for the session they serve. *)
(***************************************************************************)
EXTENDS Sandbox, EventStream, ContextWindow, PremiumQuota, Notifications, CloudJobs,
        SessionUpload, CommandLine

VARIABLE part

Parts == {"sandbox", "stream", "context", "quota", "notes", "jobs", "upload", "cli"}

ServicesInit ==
    /\ part \in Parts
    /\ SandboxInit /\ EventStreamInit /\ ContextInit /\ QuotaInit
    /\ NotificationInit /\ CloudJobsInit /\ UploadInit /\ CommandLineInit
    /\ part # "quota" => \A c \in Chats : model[c] = "free"
    /\ part # "cli" => terminal = "wait"

\* Everything but the part named.
Others(p) ==
    /\ p = "sandbox" \/ UNCHANGED sandboxVars
    /\ p = "stream" \/ UNCHANGED streamVars
    /\ p = "context" \/ UNCHANGED contextVars
    /\ p = "quota" \/ UNCHANGED quotaVars
    /\ p = "notes" \/ UNCHANGED noteVars
    /\ p = "jobs" \/ UNCHANGED jobVars
    /\ p = "upload" \/ UNCHANGED uploadVars
    /\ p = "cli" \/ UNCHANGED cliVars

ServicesNext ==
    /\ UNCHANGED part
    /\ Others(part)
    /\ \/ part = "sandbox" /\ SandboxNext
       \/ part = "stream" /\ EventStreamNext
       \/ part = "context" /\ ContextNext
       \/ part = "quota" /\ QuotaNext
       \/ part = "notes" /\ NotificationNext
       \/ part = "jobs" /\ CloudJobsNext
       \/ part = "upload" /\ UploadNext
       \/ part = "cli" /\ CommandLineNext

servicesVars == <<part, sandboxVars, streamVars, contextVars, quotaVars, noteVars, jobVars,
                  uploadVars, cliVars>>

\* SandboxFairness, EventStreamFairness and CommandLineFairness; in another part none of these actions is
\* enabled, and the guard spares TLC the question.
In(p, A) == part = p /\ A

ServicesFairness ==
    /\ \A m \in Makers : WF_sandboxVars(In("sandbox", MakerStep(m)))
    /\ \A s \in Spaces : WF_sandboxVars(In("sandbox", ThreadStep(s)))
    /\ \A x \in Teardowns : WF_sandboxVars(In("sandbox", TeardownStep(x)))
    /\ WF_sandboxVars(In("sandbox", ToolStep))
    /\ WF_streamVars(In("stream", LoopEvent))
    /\ \A p \in Senders : WF_streamVars(In("stream", Inserts(p) \/ UpdatesAndPuts(p)))
    /\ WF_streamVars(In("stream", Broadcast))
    /\ WF_streamVars(In("stream", Browser))
    /\ WF_cliVars(In("cli", CliLoop))
    /\ WF_cliVars(In("cli", ListenerTakes \/ ListenerAsks))
    /\ WF_cliVars(In("cli", MainWakes \/ MainEnds \/ HeadlessTakes))

ServicesSpec == ServicesInit /\ [][ServicesNext]_servicesVars /\ ServicesFairness

(* The types and the counters of the services stay within their bounds.    *)
ServicesTypeOK ==
    /\ SandboxTypeOK /\ EventStreamTypeOK /\ ContextTypeOK /\ QuotaTypeOK
    /\ NotificationTypeOK /\ CloudJobsTypeOK /\ UploadTypeOK /\ CommandLineTypeOK
    /\ part \in Parts

Awaits ==
    \/ tool # "idle" \/ (stream = "live" /\ gap = {})
    \/ part = "cli" /\ CliAwaits

(* SandboxToolReturns, StreamsClose and PromptReturns as one formula: a    *)
(* call of a sandbox tool returns (get_active_or_preloaded_sandbox), a     *)
(* live stream ends unless its end was broadcast while its log was read    *)
(* (_sse_response), and the prompt of the terminal comes back unless no    *)
(* event ends the operation or the loop is gone (turn_complete_event).     *)
ServicesAnswer == Awaits ~> ~Awaits
=============================================================================
