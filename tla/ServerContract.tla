--------------------------- MODULE ServerContract ---------------------------
(***************************************************************************)
(* What HttpServer and Server promise through their three signals, with no *)
(* workers, threads or queues: started() once if everything starts and     *)
(* nobody stopped it meanwhile; otherwise, and after stop(), one stopped() *)
(* or failed(), failed() if and only if a worker could not start.          *)
(***************************************************************************)
VARIABLES
    phase,          \* the execution state the user may assume
    stopRequested,  \* stop() was called while starting
    failed,         \* a worker has failed to start
    signal          \* the last signal emitted since start()

vars == <<phase, stopRequested, failed, signal>>

Init ==
    /\ phase = "Stopped"
    /\ stopRequested = FALSE
    /\ failed = FALSE
    /\ signal = "none"

Start ==
    /\ phase = "Stopped"
    /\ phase' = "Starting"
    /\ failed' \in BOOLEAN
    /\ signal' = "none"
    /\ UNCHANGED stopRequested

\* start() may also fail at once, without the server ever leaving Stopped.
FailToStart ==
    /\ phase = "Stopped"
    /\ signal' = "failed"
    /\ UNCHANGED <<phase, stopRequested, failed>>

StopWhileStarting ==
    /\ phase = "Starting"
    /\ stopRequested' = TRUE
    /\ UNCHANGED <<phase, failed, signal>>

Stop ==
    /\ phase = "Started"
    /\ phase' = "Stopping"
    /\ UNCHANGED <<stopRequested, failed, signal>>

WorkerFails ==
    /\ phase = "Starting"
    /\ failed' = TRUE
    /\ UNCHANGED <<phase, stopRequested, signal>>

BecomeStarted ==
    /\ phase = "Starting"
    /\ ~stopRequested /\ ~failed
    /\ phase' = "Started"
    /\ signal' = "started"
    /\ UNCHANGED <<stopRequested, failed>>

\* Started workers are stopped; the failure that led to it may be the last news.
GiveUp ==
    /\ phase = "Starting"
    /\ failed' \in {failed, TRUE}
    /\ stopRequested \/ failed'
    /\ phase' = "Stopping"
    /\ UNCHANGED <<stopRequested, signal>>

BecomeStopped ==
    /\ phase = "Stopping"
    /\ phase' = "Stopped"
    /\ signal' = IF failed THEN "failed" ELSE "stopped"
    /\ stopRequested' = FALSE
    /\ failed' = FALSE

Next ==
    \/ Start
    \/ FailToStart
    \/ StopWhileStarting
    \/ Stop
    \/ WorkerFails
    \/ BecomeStarted
    \/ GiveUp
    \/ BecomeStopped

Spec == Init /\ [][Next]_vars
=============================================================================
