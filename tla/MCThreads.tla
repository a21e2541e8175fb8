------------------------------ MODULE MCThreads ------------------------------
(***************************************************************************)
(* The helper threads: the weight pin against its monitor, the engine's    *)
(* wait, a request's connection, the recorder, and the queue of GPU passes *)
(* with its feeder threads.  They share no state here, so a behaviour is   *)
(* one of one `machine`, and the others keep still.                        *)
(***************************************************************************)
EXTENDS WeightPin, IdleWait, Connection, Recorder, MetalQueue

VARIABLE machine

(* A pass the host feeds as it waits for another, and one in two parts     *)
(* whose feeder sleeps in between.                                         *)
TwoPasses == <<{2}, {0}>>

threadsVars == <<machine, pinVars, waitVars, connVars, recorderVars, queueVars>>

ThreadsInit ==
    /\ machine \in {"pin", "wait", "connection", "recorder", "queue"}
    /\ PinInit /\ WaitInit /\ ConnInit /\ RecInit /\ QueueInit
    /\ machine # "pin" => level = 1 /\ hold
    /\ machine # "wait" => idle_secs = 0 /\ hold_secs = 0
    /\ machine # "connection" => interim /\ events
    /\ machine # "recorder" => row = NoRow

PinAlone   == machine = "pin" /\ UNCHANGED <<machine, waitVars, connVars, recorderVars, queueVars>>
WaitAlone  == machine = "wait" /\ UNCHANGED <<machine, pinVars, connVars, recorderVars, queueVars>>
ConnAlone  == machine = "connection" /\ UNCHANGED <<machine, pinVars, waitVars, recorderVars, queueVars>>
RecAlone   == machine = "recorder" /\ UNCHANGED <<machine, pinVars, waitVars, connVars, queueVars>>
QueueAlone == machine = "queue" /\ UNCHANGED <<machine, pinVars, waitVars, connVars, recorderVars>>

ThreadsNext ==
    \/ PinAlone /\ PinNext
    \/ WaitAlone /\ WaitNext
    \/ ConnAlone /\ ConnNext
    \/ RecAlone /\ RecorderNext
    \/ QueueAlone /\ QueueNext

(* The fairness of the machine that runs. *)
ThreadsFairness ==
    /\ WF_threadsVars(\/ PinAlone /\ thread # "run" /\ EngineThread
                      \/ WaitAlone /\ Running
                      \/ ConnAlone /\ Relay
                      \/ RecAlone /\ RecorderThread
                      \/ QueueAlone /\ QueueHost)
    /\ WF_threadsVars(\/ PinAlone /\ Monitor
                      \/ WaitAlone /\ Nudge
                      \/ ConnAlone /\ Watcher
                      \/ QueueAlone /\ FeederThread)
    /\ WF_threadsVars(\/ ConnAlone /\ Notice
                      \/ QueueAlone /\ QueueGpu)
    /\ WF_threadsVars(\/ ConnAlone /\ watcher = "listen" /\ ResetArrives
                      \/ QueueAlone /\ Handlers)
    /\ \A h \in HttpThreads : WF_threadsVars(RecAlone /\ HttpThread(h))

ThreadsSpec == ThreadsInit /\ [][ThreadsNext]_threadsVars /\ ThreadsFairness

(* The engine's loop does not spin: unless commands keep coming, it always *)
(* gets to a wait that has time to go (recv_keeping_warm).                 *)
NoSpin == []<>(machine = "wait" => Resting) \/ CommandsCome
=============================================================================
