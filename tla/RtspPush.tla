------------------------------ MODULE RtspPush ------------------------------
(***************************************************************************)
(* The push of live video to the platform (cdr_push/cdr_rtsp_push.c), as   *)
(* the realtime commands start, keep and stop it, and the timer that gives *)
(* it up when no command keeps it (cdr_config/cdr_push_timer.c).  The      *)
(* timer and SIGALRM belong to the whole process: pairing the remote       *)
(* control (cdr_lt8900_mode_ctrl) uses them too, from a thread of the      *)
(* phone service.                                                          *)
(*                                                                         *)
(* Commands come one after the other.  The media that is sent and the      *)
(* descriptors are left out: the connection, which a failed handshake      *)
(* closes and a stop leaves open, and g_RtpSessionUdpSock, which is 0 for  *)
(* good as RTP never goes over UDP, and which every stop closes.           *)
(***************************************************************************)
EXTENDS Integers, Sequences

CONSTANT PushScripts   \* bound: the commands that come, and how often pairing is started

(* A realtime request for video opens the push when there is none, also to *)
(* stop it; the other requests and the control commands do not.            *)
PushCommand == [opens : BOOLEAN, switch : {"stop", "hold"}]
PushScript == [commands : Seq(PushCommand), pairings : Nat]

ASSUME PushAssumption == PushScripts \subseteq PushScript

VARIABLES
    pushScript,             \* what is still to come of it
    pusher,                 \* the thread that executes realtime commands, and its command
    g_ucRealtimePushAVFlag,
    g_ucPushTimerOutFlag,   \* expirations since the last command that keeps the push
    timer,                  \* ITIMER_REAL: whether it runs and comes again; SIGALRM's handler
    alarmHandler,           \* PushTimerProcess, where it is
    pairer,                 \* the thread that starts pairing
    g_cMode,                \* of the remote control
    last,                   \* history: for whom the timer was set last
    crossed,                \* history: it was set while another did so or PushTimerProcess ran
    silent,                 \* history: expirations since the push began or was kept
    inherited               \* history: an earlier push's count was there when it began

pushVars == <<pushScript, pusher, g_ucRealtimePushAVFlag, g_ucPushTimerOutFlag, timer, alarmHandler,
              pairer, g_cMode, last, crossed, silent, inherited>>
alarms == <<timer, last, crossed>>
remote == <<pairer, g_cMode>>

NoCommand == [opens |-> FALSE, switch |-> "hold"]

PushInit ==
    /\ pushScript \in PushScripts
    /\ pusher = [at |-> "wait", command |-> NoCommand]
    /\ g_ucRealtimePushAVFlag = FALSE
    /\ g_ucPushTimerOutFlag = 0
    /\ timer = [runs |-> FALSE, again |-> FALSE, handler |-> "default"]
    /\ alarmHandler = "none"
    /\ pairer = "none"
    /\ g_cMode = "open"
    /\ last = "none"
    /\ crossed = FALSE
    /\ silent = 0
    /\ inherited = FALSE

-----------------------------------------------------------------------------
(* RealTimeAVTransProcess, RealTimeAVTransControl                          *)
Pusher(from, to) == pusher.at = from /\ pusher' = [pusher EXCEPT !.at = to]

PushBegin ==
    /\ pusher.at = "wait" /\ pushScript.commands # <<>>
    /\ LET c == Head(pushScript.commands)
       IN pusher' = [at |-> IF c.opens THEN "open" ELSE "switch", command |-> c]
    /\ pushScript' = [pushScript EXCEPT !.commands = Tail(@)]
    /\ UNCHANGED <<g_ucRealtimePushAVFlag, g_ucPushTimerOutFlag, alarms, alarmHandler, remote,
                   silent, inherited>>

PushThere ==
    /\ Pusher("open", "switch") /\ g_ucRealtimePushAVFlag
    /\ UNCHANGED <<pushScript, g_ucRealtimePushAVFlag, g_ucPushTimerOutFlag, alarms, alarmHandler,
                   remote, silent, inherited>>

(* InitRtspPush: any request of the handshake may fail.                    *)
PushHandshake ==
    /\ Pusher("open", "handshake") /\ ~g_ucRealtimePushAVFlag
    /\ UNCHANGED <<pushScript, g_ucRealtimePushAVFlag, g_ucPushTimerOutFlag, alarms, alarmHandler,
                   remote, silent, inherited>>

PushFails ==
    /\ Pusher("handshake", "switch")
    /\ UNCHANGED <<pushScript, g_ucRealtimePushAVFlag, g_ucPushTimerOutFlag, alarms, alarmHandler,
                   remote, silent, inherited>>

(* A bug PushInv must notice: no timer is set for the push.                *)
PushUntimed ==
    /\ Pusher("handshake", "switch")
    /\ g_ucRealtimePushAVFlag' = TRUE
    /\ last' = "push"
    /\ silent' = 0
    /\ inherited' = (g_ucPushTimerOutFlag > 0)
    /\ UNCHANGED <<pushScript, g_ucPushTimerOutFlag, timer, crossed, alarmHandler, remote>>

PushOpened ==
    /\ Pusher("handshake", "signal")
    /\ g_ucRealtimePushAVFlag' = TRUE
    /\ silent' = 0
    /\ inherited' = (g_ucPushTimerOutFlag > 0)
    /\ UNCHANGED <<pushScript, g_ucPushTimerOutFlag, alarms, alarmHandler, remote>>

(* StartPushActiveTime: signal, then setitimer.                            *)
PushSignal ==
    /\ Pusher("signal", "setitimer")
    /\ timer' = [timer EXCEPT !.handler = "PushTimerProcess"]
    /\ last' = "push"
    /\ crossed' = (pairer # "none" \/ alarmHandler # "none")
    /\ UNCHANGED <<pushScript, g_ucRealtimePushAVFlag, g_ucPushTimerOutFlag, alarmHandler, remote,
                   silent, inherited>>

PushSetTimer ==
    /\ Pusher("setitimer", "switch")
    /\ timer' = [timer EXCEPT !.runs = TRUE, !.again = TRUE]
    /\ crossed' = (crossed \/ pairer # "none" \/ alarmHandler # "none")
    /\ UNCHANGED <<pushScript, g_ucRealtimePushAVFlag, g_ucPushTimerOutFlag, last, alarmHandler,
                   remote, silent, inherited>>

(* A bug KeptAlive must notice: the command does not reset the count.      *)
PushHoldNot ==
    /\ Pusher("switch", "wait") /\ pusher.command.switch = "hold"
    /\ g_ucPushTimerOutFlag' = g_ucPushTimerOutFlag
    /\ silent' = 0
    /\ inherited' = FALSE
    /\ UNCHANGED <<pushScript, g_ucRealtimePushAVFlag, alarms, alarmHandler, remote>>

(* Start and keep reset the count.                                         *)
PushHold ==
    /\ Pusher("switch", "wait") /\ pusher.command.switch = "hold"
    /\ g_ucPushTimerOutFlag' = 0
    /\ silent' = 0
    /\ inherited' = FALSE
    /\ UNCHANGED <<pushScript, g_ucRealtimePushAVFlag, alarms, alarmHandler, remote>>

(* Stop tears the session down and leaves the timer as it is.              *)
PushTearDown ==
    /\ pusher.at = "switch" /\ pusher.command.switch = "stop"
    /\ pusher' = [pusher EXCEPT !.at = IF g_ucRealtimePushAVFlag THEN "teardown" ELSE "wait"]
    /\ UNCHANGED <<pushScript, g_ucRealtimePushAVFlag, g_ucPushTimerOutFlag, alarms, alarmHandler,
                   remote, silent, inherited>>

PushStopped ==
    /\ Pusher("teardown", "wait")
    /\ g_ucRealtimePushAVFlag' = FALSE
    /\ UNCHANGED <<pushScript, g_ucPushTimerOutFlag, alarms, alarmHandler, remote, silent,
                   inherited>>

-----------------------------------------------------------------------------
(* SIGALRM                                                                 *)
Expires(handler) ==
    /\ timer.runs /\ timer.handler = handler /\ alarmHandler = "none"
    /\ timer' = [timer EXCEPT !.runs = timer.again]
    /\ UNCHANGED <<last, crossed>>

(* PushTimerProcess: at the second expiration the push is given up, if     *)
(* there is one, and the timer.                                            *)
PushExpires ==
    /\ Expires("PushTimerProcess")
    /\ g_ucPushTimerOutFlag' = g_ucPushTimerOutFlag + 1
    /\ silent' = silent + 1
    /\ alarmHandler' = IF g_ucPushTimerOutFlag' < 2 THEN "none"
                       ELSE IF g_ucRealtimePushAVFlag THEN "teardown" ELSE "disarm"
    /\ UNCHANGED <<pushScript, pusher, g_ucRealtimePushAVFlag, remote, inherited>>

AlarmStops ==
    /\ alarmHandler = "teardown"
    /\ alarmHandler' = "disarm"
    /\ g_ucRealtimePushAVFlag' = FALSE
    /\ UNCHANGED <<pushScript, pusher, g_ucPushTimerOutFlag, alarms, remote, silent, inherited>>

(* DeinitPushActiveTime, whoever set the timer meanwhile.                  *)
AlarmDisarms ==
    /\ alarmHandler = "disarm"
    /\ alarmHandler' = "none"
    /\ timer' = [timer EXCEPT !.runs = FALSE, !.again = FALSE]
    /\ UNCHANGED <<pushScript, pusher, g_ucRealtimePushAVFlag, g_ucPushTimerOutFlag, last, crossed,
                   remote, silent, inherited>>

(* reset_match_mode: pairing is over.                                      *)
PairExpires ==
    /\ Expires("reset_match_mode")
    /\ g_cMode' = "ended"
    /\ UNCHANGED <<pushScript, pusher, g_ucRealtimePushAVFlag, g_ucPushTimerOutFlag, alarmHandler,
                   pairer, silent, inherited>>

-----------------------------------------------------------------------------
(* cdr_lt8900_mode_ctrl(LT8900_MATCH_MODE_ENABLE): the mode and signal,    *)
(* then alarm.                                                             *)
PairSignal ==
    /\ pairer = "none" /\ pushScript.pairings > 0
    /\ pushScript' = [pushScript EXCEPT !.pairings = @ - 1]
    /\ pairer' = "alarm"
    /\ g_cMode' = "match"
    /\ timer' = [timer EXCEPT !.handler = "reset_match_mode"]
    /\ last' = "pair"
    /\ crossed' = (pusher.at = "setitimer" \/ alarmHandler # "none")
    /\ UNCHANGED <<pusher, g_ucRealtimePushAVFlag, g_ucPushTimerOutFlag, alarmHandler, silent,
                   inherited>>

PairAlarm ==
    /\ pairer = "alarm"
    /\ pairer' = "none"
    /\ timer' = [timer EXCEPT !.runs = TRUE, !.again = FALSE]
    /\ crossed' = (crossed \/ pusher.at = "setitimer" \/ alarmHandler # "none")
    /\ UNCHANGED <<pushScript, pusher, g_ucRealtimePushAVFlag, g_ucPushTimerOutFlag, last,
                   alarmHandler, g_cMode, silent, inherited>>

-----------------------------------------------------------------------------
PushNext ==
    \/ PushBegin \/ PushThere \/ PushHandshake \/ PushFails \/ PushOpened
    \/ PushSignal \/ PushSetTimer \/ PushHold \/ PushTearDown \/ PushStopped
    \/ PushExpires \/ AlarmStops \/ AlarmDisarms \/ PairExpires
    \/ PairSignal \/ PairAlarm

PushSpec == PushInit /\ [][PushNext]_pushVars

-----------------------------------------------------------------------------
PushTypeOK ==
    /\ pushScript \in PushScript
    /\ pusher \in [at : {"wait", "open", "handshake", "signal", "setitimer", "switch", "teardown"},
                   command : PushCommand]
    /\ g_ucRealtimePushAVFlag \in BOOLEAN
    /\ g_ucPushTimerOutFlag \in Nat
    /\ timer \in [runs : BOOLEAN, again : BOOLEAN,
                  handler : {"default", "PushTimerProcess", "reset_match_mode"}]
    /\ alarmHandler \in {"none", "teardown", "disarm"}
    /\ pairer \in {"none", "alarm"}
    /\ g_cMode \in {"open", "match", "ended"}
    /\ last \in {"none", "push", "pair"}
    /\ crossed \in BOOLEAN
    /\ silent \in Nat
    /\ inherited \in BOOLEAN

(* StartPushActiveTime, cdr_lt8900_mode_ctrl: a push is watched by the     *)
(* timer, unless pairing was started after it, and pairing ends by it,     *)
(* unless a push was started after it; neither is sure when they set the   *)
(* timer at once, or while PushTimerProcess is giving a push up.           *)
Settled == ~crossed /\ pusher.at \notin {"signal", "setitimer"} /\ pairer = "none" /\ alarmHandler = "none"

TimerServesLast ==
    Settled =>
        /\ last = "push" /\ g_ucRealtimePushAVFlag =>
              timer.runs /\ timer.again /\ timer.handler = "PushTimerProcess"
        /\ last = "pair" /\ g_cMode = "match" =>
              timer.runs /\ timer.handler = "reset_match_mode"
        /\ g_ucRealtimePushAVFlag => last # "none"

PushInv == PushTypeOK /\ TimerServesLast

(* PushTimerProcess: a push is given up only when the timer ran out twice  *)
(* since it began or was last kept, unless it began with the count of an   *)
(* earlier one, which a stop leaves behind, and the command that began it  *)
(* has not got to reset the count.                                         *)
KeptAlive ==
    [][alarmHandler = "none" /\ alarmHandler' = "teardown" => silent' >= 2 \/ inherited]_pushVars
=============================================================================
