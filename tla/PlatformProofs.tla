--------------------------- MODULE PlatformProofs ---------------------------
(***************************************************************************)
(* The platform's side, for every script of commands: the portal, and the  *)
(* timer of the push.                                                      *)
(*                                                                         *)
(* The portal's invariant PortalIInv has one part for each property.  The  *)
(* state BusyHeld speaks of is set half a second after the test, so BusyIs *)
(* says what a thread that sleeps or looks at the state will find.         *)
(* DealtWithOnce needs that the slot a sleeper will read is its own, and   *)
(* that what is in the ring was not taken (Reads, Unspent); Owing adds to  *)
(* AnswersInOrder the answer that is copied but not counted.               *)
(* UploadFindsItself needs UploadsAre: how far every upload is (Outs), and *)
(* that each is of an executed command of its own, as long as no thread    *)
(* executes what another one received (Sources).                           *)
(*                                                                         *)
(* TimerServesLast is not inductive: it says nothing of the states         *)
(* in between, where a handler is set and the timer is not, or where       *)
(* PushTimerProcess has stopped the push and not yet the timer.  TimerKept *)
(* says of each half what the other half has to find.                      *)
(***************************************************************************)
EXTENDS Portal, RtspPush, FiniteSetTheorems, SequenceTheorems, TLAPS

TimerKept ==
    /\ last = "none" => timer.handler = "default" /\ alarmHandler = "none"
    /\ g_ucRealtimePushAVFlag /\ last = "none" => pusher.at = "signal"
    /\ ~crossed =>
        /\ last = "push" => timer.handler = "PushTimerProcess"
        /\ last = "pair" => timer.handler = "reset_match_mode" /\ alarmHandler = "none"
        /\ pusher.at = "setitimer" => last = "push"
        /\ pairer = "alarm" => last = "pair"
        /\ last = "pair" /\ pairer = "none" /\ g_cMode = "match" => timer.runs
        /\ alarmHandler = "disarm" /\ g_ucRealtimePushAVFlag => pusher.at = "signal"
        /\ last = "push" /\ g_ucRealtimePushAVFlag /\ pusher.at \notin {"signal", "setitimer"}
             => timer.runs /\ timer.again

(* The count is that of the expirations since, unless it was inherited.    *)
CountKept == inherited \/ g_ucPushTimerOutFlag <= silent

PushIInv == PushTypeOK /\ TimerKept /\ CountKept

LEMMA PushInit_IInv == PushInit => PushIInv
<1> SUFFICES ASSUME PushInit
             PROVE  PushIInv
  OBVIOUS
<1>1. PushTypeOK
  BY PushAssumption DEF PushInit, PushTypeOK, NoCommand, PushCommand
<1>2. TimerKept
  BY DEF PushInit, TimerKept
<1>3. CountKept
  BY DEF PushInit, CountKept
<1> QED BY <1>1, <1>2, <1>3 DEF PushIInv

LEMMA PushNext_IInv == PushIInv /\ [PushNext]_pushVars => PushIInv'
<1> SUFFICES ASSUME PushIInv, [PushNext]_pushVars
             PROVE  PushIInv'
  OBVIOUS
<1>0. PushTypeOK /\ TimerKept /\ CountKept
  BY DEF PushIInv
<1>1. CASE PushBegin
  <2>1. PushTypeOK'
    <3>1. pushScript' \in PushScript /\ Head(pushScript.commands) \in PushCommand
      <4>1. pushScript \in PushScript /\ pushScript.commands \in Seq(PushCommand) /\ pushScript.commands # <<>>
        BY <1>0, <1>1 DEF PushTypeOK, PushScript, PushBegin
      <4>2. Tail(pushScript.commands) \in Seq(PushCommand) /\ Head(pushScript.commands) \in PushCommand
        BY <4>1
      <4> QED BY <4>1, <4>2, <1>1 DEF PushScript, PushBegin
    <3>2. pusher' \in [at : {"wait", "open", "handshake", "signal", "setitimer", "switch", "teardown"},
                       command : PushCommand]
      BY <3>1, <1>1 DEF PushBegin
    <3> QED BY <1>0, <1>1, <3>1, <3>2 DEF PushTypeOK, PushBegin, alarms, remote
  <2>2. TimerKept'
    BY <1>0, <1>1 DEF TimerKept, PushTypeOK, PushBegin, alarms, remote
  <2>3. CountKept'
    BY <1>0, <1>1 DEF CountKept, PushTypeOK, PushBegin, alarms, remote
  <2> QED BY <2>1, <2>2, <2>3 DEF PushIInv
<1>2. CASE PushThere
  <2>1. PushTypeOK'
    BY <1>0, <1>2 DEF PushTypeOK, PushScript, PushCommand, PushThere, Pusher, alarms, remote
  <2>2. TimerKept'
    BY <1>0, <1>2 DEF TimerKept, PushTypeOK, PushThere, Pusher, alarms, remote
  <2>3. CountKept'
    BY <1>0, <1>2 DEF CountKept, PushTypeOK, PushThere, Pusher, alarms, remote
  <2> QED BY <2>1, <2>2, <2>3 DEF PushIInv
<1>3. CASE PushHandshake
  <2>1. PushTypeOK'
    BY <1>0, <1>3 DEF PushTypeOK, PushScript, PushCommand, PushHandshake, Pusher, alarms, remote
  <2>2. TimerKept'
    BY <1>0, <1>3 DEF TimerKept, PushTypeOK, PushHandshake, Pusher, alarms, remote
  <2>3. CountKept'
    BY <1>0, <1>3 DEF CountKept, PushTypeOK, PushHandshake, Pusher, alarms, remote
  <2> QED BY <2>1, <2>2, <2>3 DEF PushIInv
<1>4. CASE PushFails
  <2>1. PushTypeOK'
    BY <1>0, <1>4 DEF PushTypeOK, PushScript, PushCommand, PushFails, Pusher, alarms, remote
  <2>2. TimerKept'
    BY <1>0, <1>4 DEF TimerKept, PushTypeOK, PushFails, Pusher, alarms, remote
  <2>3. CountKept'
    BY <1>0, <1>4 DEF CountKept, PushTypeOK, PushFails, Pusher, alarms, remote
  <2> QED BY <2>1, <2>2, <2>3 DEF PushIInv
<1>5. CASE PushOpened
  <2>1. PushTypeOK'
    BY <1>0, <1>5 DEF PushTypeOK, PushScript, PushCommand, PushOpened, Pusher, alarms, remote
  <2>2. TimerKept'
    BY <1>0, <1>5 DEF TimerKept, PushTypeOK, PushOpened, Pusher, alarms, remote
  <2>3. CountKept'
    <3>1. g_ucPushTimerOutFlag' = g_ucPushTimerOutFlag /\ silent' = 0
      BY <1>5 DEF PushOpened
    <3>2. CASE g_ucPushTimerOutFlag > 0
      <4>1. inherited'
        BY <1>5, <3>2, Zenon DEF PushOpened
      <4> QED BY <4>1 DEF CountKept
    <3>3. CASE ~(g_ucPushTimerOutFlag > 0)
      BY <1>0, <3>1, <3>3 DEF CountKept, PushTypeOK
    <3> QED BY <3>2, <3>3
  <2> QED BY <2>1, <2>2, <2>3 DEF PushIInv
<1>6. CASE PushSignal
  <2>1. PushTypeOK'
    BY <1>0, <1>6 DEF PushTypeOK, PushScript, PushCommand, PushSignal, Pusher, alarms, remote
  <2>2. TimerKept'
    BY <1>0, <1>6 DEF TimerKept, PushTypeOK, PushSignal, Pusher, alarms, remote
  <2>3. CountKept'
    BY <1>0, <1>6 DEF CountKept, PushTypeOK, PushSignal, Pusher, alarms, remote
  <2> QED BY <2>1, <2>2, <2>3 DEF PushIInv
<1>7. CASE PushSetTimer
  <2>1. PushTypeOK'
    BY <1>0, <1>7 DEF PushTypeOK, PushScript, PushCommand, PushSetTimer, Pusher, alarms, remote
  <2>2. TimerKept'
    BY <1>0, <1>7 DEF TimerKept, PushTypeOK, PushSetTimer, Pusher, alarms, remote
  <2>3. CountKept'
    BY <1>0, <1>7 DEF CountKept, PushTypeOK, PushSetTimer, Pusher, alarms, remote
  <2> QED BY <2>1, <2>2, <2>3 DEF PushIInv
<1>8. CASE PushHold
  <2>1. PushTypeOK'
    BY <1>0, <1>8, ZenonT(30) DEF PushTypeOK, PushScript, PushCommand, PushHold, Pusher, alarms, remote
  <2>2. TimerKept'
    BY <1>0, <1>8 DEF TimerKept, PushTypeOK, PushHold, Pusher, alarms, remote
  <2>3. CountKept'
    BY <1>0, <1>8 DEF CountKept, PushTypeOK, PushHold, Pusher, alarms, remote
  <2> QED BY <2>1, <2>2, <2>3 DEF PushIInv
<1>9. CASE PushTearDown
  <2>1. PushTypeOK'
    BY <1>0, <1>9 DEF PushTypeOK, PushScript, PushCommand, PushTearDown, alarms, remote
  <2>2. TimerKept'
    BY <1>0, <1>9 DEF TimerKept, PushTypeOK, PushTearDown, alarms, remote
  <2>3. CountKept'
    BY <1>0, <1>9 DEF CountKept, PushTypeOK, PushTearDown, alarms, remote
  <2> QED BY <2>1, <2>2, <2>3 DEF PushIInv
<1>10. CASE PushStopped
  <2>1. PushTypeOK'
    BY <1>0, <1>10, ZenonT(30) DEF PushTypeOK, PushScript, PushCommand, PushStopped, Pusher, alarms, remote
  <2>2. TimerKept'
    BY <1>0, <1>10 DEF TimerKept, PushTypeOK, PushStopped, Pusher, alarms, remote
  <2>3. CountKept'
    BY <1>0, <1>10 DEF CountKept, PushTypeOK, PushStopped, Pusher, alarms, remote
  <2> QED BY <2>1, <2>2, <2>3 DEF PushIInv
<1>11. CASE PushExpires
  <2>1. PushTypeOK'
    BY <1>0, <1>11, SMTT(20) DEF PushTypeOK, PushScript, PushCommand, PushExpires, Expires, alarms, remote
  <2>2. TimerKept'
    BY <1>0, <1>11 DEF TimerKept, PushTypeOK, PushExpires, Expires, alarms, remote
  <2>3. CountKept'
    BY <1>0, <1>11 DEF CountKept, PushTypeOK, PushExpires, Expires, alarms, remote
  <2> QED BY <2>1, <2>2, <2>3 DEF PushIInv
<1>12. CASE AlarmStops
  <2>1. PushTypeOK'
    <3>1. g_ucRealtimePushAVFlag' \in BOOLEAN /\ alarmHandler' \in {"none", "teardown", "disarm"}
      BY <1>12 DEF AlarmStops
    <3> QED BY <1>0, <1>12, <3>1 DEF PushTypeOK, AlarmStops, alarms, remote
  <2>2. TimerKept'
    BY <1>0, <1>12 DEF TimerKept, PushTypeOK, AlarmStops, alarms, remote
  <2>3. CountKept'
    BY <1>0, <1>12 DEF CountKept, PushTypeOK, AlarmStops, alarms, remote
  <2> QED BY <2>1, <2>2, <2>3 DEF PushIInv
<1>13. CASE AlarmDisarms
  <2>1. PushTypeOK'
    BY <1>0, <1>13, ZenonT(30) DEF PushTypeOK, AlarmDisarms, alarms, remote
  <2>2. TimerKept'
    BY <1>0, <1>13 DEF TimerKept, PushTypeOK, AlarmDisarms, alarms, remote
  <2>3. CountKept'
    BY <1>0, <1>13 DEF CountKept, PushTypeOK, AlarmDisarms, alarms, remote
  <2> QED BY <2>1, <2>2, <2>3 DEF PushIInv
<1>14. CASE PairExpires
  <2>1. PushTypeOK'
    BY <1>0, <1>14 DEF PushTypeOK, PushScript, PushCommand, PairExpires, Expires, alarms, remote
  <2>2. TimerKept'
    BY <1>0, <1>14 DEF TimerKept, PushTypeOK, PairExpires, Expires, alarms, remote
  <2>3. CountKept'
    BY <1>0, <1>14 DEF CountKept, PushTypeOK, PairExpires, Expires, alarms, remote
  <2> QED BY <2>1, <2>2, <2>3 DEF PushIInv
<1>15. CASE PairSignal
  <2>1. PushTypeOK'
    BY <1>0, <1>15 DEF PushTypeOK, PushScript, PushCommand, PairSignal, alarms, remote
  <2>2. TimerKept'
    BY <1>0, <1>15 DEF TimerKept, PushTypeOK, PairSignal, alarms, remote
  <2>3. CountKept'
    BY <1>0, <1>15 DEF CountKept, PushTypeOK, PairSignal, alarms, remote
  <2> QED BY <2>1, <2>2, <2>3 DEF PushIInv
<1>16. CASE PairAlarm
  <2>1. PushTypeOK'
    BY <1>0, <1>16, ZenonT(30) DEF PushTypeOK, PairAlarm, alarms, remote
  <2>2. TimerKept'
    BY <1>0, <1>16 DEF TimerKept, PushTypeOK, PairAlarm, alarms, remote
  <2>3. CountKept'
    BY <1>0, <1>16 DEF CountKept, PushTypeOK, PairAlarm, alarms, remote
  <2> QED BY <2>1, <2>2, <2>3 DEF PushIInv
<1>17. CASE UNCHANGED pushVars
  BY <1>0, <1>17 DEF PushIInv, PushTypeOK, TimerKept, CountKept, pushVars, alarms, remote
<1> QED BY <1>1, <1>2, <1>3, <1>4, <1>5, <1>6, <1>7, <1>8, <1>9, <1>10, <1>11, <1>12, <1>13, <1>14, <1>15, <1>16, <1>17 DEF PushNext

(* The timer serves whoever set it last (TimerServesLast), for every       *)
(* script: StartPushActiveTime, PushTimerProcess, cdr_lt8900_mode_ctrl.    *)
THEOREM TimerServes == PushSpec => []PushInv
<1>1. PushIInv => PushInv
  BY DEF PushIInv, PushInv, TimerServesLast, TimerKept, PushTypeOK, Settled
<1> QED BY PushInit_IInv, PushNext_IInv, <1>1, PTL DEF PushSpec

(* PushTimerProcess gives a push up only after two expirations, or with    *)
(* the count of an earlier push.                                           *)
THEOREM PushKept == PushSpec => KeptAlive
<1> DEFINE Kept == alarmHandler = "none" /\ alarmHandler' = "teardown" => silent' >= 2 \/ inherited
<1>1. PushIInv /\ [PushNext]_pushVars => [Kept]_pushVars
  <2> SUFFICES ASSUME PushIInv, PushNext, alarmHandler = "none", alarmHandler' = "teardown",
                      ~inherited
               PROVE  silent' >= 2
    OBVIOUS
  <2>1. PushExpires
    BY DEF PushNext, PushBegin, PushThere, PushHandshake, PushFails, PushOpened, PushSignal,
           PushSetTimer, PushHold, PushTearDown, PushStopped, AlarmStops, AlarmDisarms,
           PairExpires, PairSignal, PairAlarm
  <2> QED BY <2>1 DEF PushExpires, PushIInv, CountKept, PushTypeOK
<1> QED BY PushInit_IInv, PushNext_IInv, <1>1, PTL DEF PushSpec, KeptAlive

-----------------------------------------------------------------------------
(* The portal: its workers.                                                *)
At == {"none", "decide", "sleep", "handle", "answer", "put", "tail",
       "open", "list", "perform", "idle", "check"}
WorkerState == [at : At, bag : Bag \cup {0}, out : Out, more : {0, 1},
                own : {"ok", "failed"}, door : BOOLEAN]

(* A worker's record.                                                      *)
LEMMA WorkerGet ==
    ASSUME NEW R \in [Worker -> WorkerState], NEW w \in Worker
    PROVE  /\ R[w].at \in At /\ R[w].bag \in Bag \cup {0} /\ R[w].out \in Out
           /\ R[w].more \in {0, 1} /\ R[w].own \in {"ok", "failed"} /\ R[w].door \in BOOLEAN
BY DEF WorkerState

(* Only w moves, from one place to another.                                *)
Turns(w, from, to) ==
    /\ w \in Worker /\ worker[w].at \in from /\ worker'[w].at \in to
    /\ worker' \in [Worker -> WorkerState]
    /\ \A v \in Worker : v # w => worker'[v] = worker[v]

(* What it works for is what it was.                                       *)
Keeps(w) == /\ worker'[w].bag = worker[w].bag /\ worker'[w].door = worker[w].door
            /\ worker'[w].own = worker[w].own

LEMMA WorkerSets ==
    ASSUME worker \in [Worker -> WorkerState], NEW w \in Worker, NEW r \in WorkerState,
           worker' = [worker EXCEPT ![w] = r]
    PROVE  /\ worker'[w] = r /\ Turns(w, {worker[w].at}, {r.at})
BY DEF Turns

LEMMA Workers == /\ \A t \in Bag : t \in Worker /\ t # 0 /\ t # -1
                 /\ Cutter \in Worker /\ Poll \in Worker /\ Poll # Cutter
                 /\ \A w \in Worker : w \in Bag \/ w = Cutter \/ w = Poll
BY DEF Worker, Bag, Cutter, Poll

LEMMA Rests == Resting \in WorkerState /\ Resting.at = "none" /\ ~Resting.door
BY DEF Resting, WorkerState, At, Out

LEMMA GoesTurns ==
    ASSUME worker \in [Worker -> WorkerState], NEW w \in Worker, NEW a \in At, NEW o \in Out,
           Goes(w, a, o)
    PROVE  /\ Turns(w, {worker[w].at}, {a}) /\ Keeps(w)
           /\ worker'[w].out = o
BY DEF Goes, WorkerState, Turns, Keeps

(* What the actions with more than one EXCEPT make of a worker.            *)
LEMMA WakesTurns ==
    ASSUME worker \in [Worker -> WorkerState], NEW t \in Bag,
           stRecvBagQueue.slot[g_sBBMsgArrBag] \in Bag, Wakes(t)
    PROVE  /\ Turns(t, {"sleep"}, {"handle"})
           /\ worker'[t].bag = stRecvBagQueue.slot[g_sBBMsgArrBag] /\ ~worker'[t].door
           /\ worker'[t].out = "done"
<1> DEFINE r == [Resting EXCEPT !.at = "handle", !.bag = stRecvBagQueue.slot[g_sBBMsgArrBag]]
<1>1. r \in WorkerState /\ r.at = "handle" /\ r.bag = stRecvBagQueue.slot[g_sBBMsgArrBag] /\ ~r.door
      /\ r.out = "done"
  BY DEF Resting, WorkerState, At, Out
<1>2. worker' = [worker EXCEPT ![t] = r]
  BY DEF Wakes
<1> HIDE DEF r
<1> QED BY <1>1, <1>2, WorkerSets, Workers DEF Wakes

LEMMA StartTurns ==
    ASSUME worker \in [Worker -> WorkerState], PollStart, worker[Poll].bag \in Bag
    PROVE  /\ worker' \in [Worker -> WorkerState]
           /\ \A v \in Worker : v # Poll /\ v # worker[Poll].bag => worker'[v] = worker[v]
           /\ worker'[worker[Poll].bag].at = "sleep" /\ worker'[Poll].at = "none"
           /\ worker'[worker[Poll].bag].out = worker[worker[Poll].bag].out
           /\ worker'[worker[Poll].bag].door = worker[worker[Poll].bag].door
<1> DEFINE b == worker[Poll].bag
           S == [worker EXCEPT ![Poll] = Resting]
           r == [S[b] EXCEPT !.at = "sleep"]
<1>1. S \in [Worker -> WorkerState] /\ S[Poll].at = "none" /\ \A v \in Worker : v # Poll => S[v] = worker[v]
  BY Workers, Rests
<1>2. b \in Worker /\ b # Poll
  BY Workers DEF Poll
<1>3. worker' = [S EXCEPT ![b] = r]
  BY Zenon DEF PollStart
<1> HIDE DEF S, b
<1>4. r \in WorkerState /\ r.at = "sleep" /\ r.out = S[b].out /\ r.door = S[b].door
  BY <1>1, <1>2 DEF WorkerState, At
<1> HIDE DEF r
<1>5. worker' \in [Worker -> WorkerState] /\ worker'[b] = r /\ \A v \in Worker : v # b => worker'[v] = S[v]
  BY <1>1, <1>2, <1>3, <1>4
<1> QED BY <1>1, <1>2, <1>4, <1>5, Workers DEF b

LEMMA QueryTurns ==
    ASSUME worker \in [Worker -> WorkerState], NEW w \in Worker, NEW n \in {0, 1},
           worker' = [worker EXCEPT ![w].at = "put", ![w].out = "part", ![w].more = n]
    PROVE  /\ Turns(w, {worker[w].at}, {"put"}) /\ Keeps(w)
           /\ worker'[w].out = "part"
<1> DEFINE r == [worker[w] EXCEPT !.at = "put", !.out = "part", !.more = n]
<1>1. worker' = [worker EXCEPT ![w] = r]
  OBVIOUS
<1>2. r \in WorkerState /\ r.at = "put" /\ r.out = "part" /\ r.bag = worker[w].bag /\ r.door = worker[w].door
      /\ r.own = worker[w].own
  BY ZenonT(30) DEF WorkerState, At, Out
<1> HIDE DEF r
<1> QED BY <1>1, <1>2, WorkerSets DEF Keeps

LEMMA AfterPutIs ==
    ASSUME worker \in [Worker -> WorkerState], NEW w \in Worker,
           w = Poll => worker[w].out = "busy", w = Cutter => worker[w].out \notin {"part", "busy"},
           w \in Bag => worker[w].out # "busy"
    PROVE  /\ AfterPut(w) \in WorkerState
           /\ w = Poll => AfterPut(w) = Resting
           /\ w = Cutter => AfterPut(w) = Resting \/ AfterPut(w).at \in {"open", "perform"}
           /\ w \in Bag => /\ AfterPut(w).at \in {"open", "perform", "put", "idle"}
                           /\ AfterPut(w).at = "perform" <=> worker[w].out = "progress"
                           /\ AfterPut(w).door = worker[w].door
           /\ AfterPut(w).at # "none" => AfterPut(w).bag = worker[w].bag /\ AfterPut(w).out = worker[w].out
           /\ AfterPut(w).at = "none" => AfterPut(w) = Resting
           /\ AfterPut(w).at = "open" <=> worker[w].out = "started"
           /\ AfterPut(w).at = "perform" <=> worker[w].out = "progress"
           /\ AfterPut(w).at \in {"none", "open", "perform", "put", "idle"}
<1> DEFINE R == worker[w]
           Rs == [R EXCEPT !.at = "open"]
           Rp == [R EXCEPT !.at = "perform"]
           Rm == [R EXCEPT !.at = "put", !.more = @ - 1]
           Ri == [R EXCEPT !.at = "idle"]
<1>0. AfterPut(w) =
        CASE R.out = "busy" -> Resting
          [] R.out = "started" -> Rs
          [] R.out = "progress" -> Rp
          [] R.out = "part" /\ R.more > 0 -> Rm
          [] R.out = "done" /\ w = Cutter -> Resting
          [] OTHER -> Ri
  BY Zenon DEF AfterPut
<1>1. R \in WorkerState
  OBVIOUS
<1>2. /\ Rs \in WorkerState /\ Rs.at = "open" /\ Rs.bag = R.bag /\ Rs.door = R.door /\ Rs.out = R.out
      /\ Rp \in WorkerState /\ Rp.at = "perform" /\ Rp.bag = R.bag /\ Rp.door = R.door /\ Rp.out = R.out
      /\ Ri \in WorkerState /\ Ri.at = "idle" /\ Ri.bag = R.bag /\ Ri.door = R.door /\ Ri.out = R.out
  <2> HIDE DEF R
  <2> QED BY <1>1 DEF WorkerState, At
<1>3. R.more > 0 => /\ Rm \in WorkerState /\ Rm.at = "put" /\ Rm.bag = R.bag /\ Rm.door = R.door
                    /\ Rm.out = R.out
  <2> HAVE R.more > 0
  <2>1. R.more = 1 /\ R.more - 1 = 0
    BY WorkerGet
  <2>2. Rm = [R EXCEPT !.at = "put", !.more = 0]
    BY <2>1
  <2> HIDE DEF R
  <2> QED BY <1>1, <2>2 DEF WorkerState, At
<1>4. (w = Poll => R.out = "busy") /\ (w = Cutter => R.out \notin {"part", "busy"}) /\ (w \in Bag => R.out # "busy")
  OBVIOUS
<1>5. w \in Bag => w # Cutter /\ w # Poll
  BY DEF Poll, Bag, Cutter
<1>6. w \notin {Cutter, Poll} => w \in Bag
  BY Workers
<1> DEFINE A == AfterPut(w)
<1> HIDE DEF R, Rs, Rp, Rm, Ri, A
<1>7. CASE R.out = "busy"
  <2>1. A = Resting
    BY <1>0, <1>7 DEF A
  <2> QED BY <2>1, <1>4, <1>5, <1>6, <1>7, Rests DEF A
<1>8. CASE R.out = "started"
  <2>1. A = Rs
    BY <1>0, <1>8 DEF A
  <2> QED BY <2>1, <1>2, <1>4, <1>5, <1>8 DEF A, R
<1>9. CASE R.out = "progress"
  <2>1. A = Rp
    BY <1>0, <1>9 DEF A
  <2> QED BY <2>1, <1>2, <1>4, <1>5, <1>9 DEF A, R
<1>10. CASE R.out = "part" /\ R.more > 0
  <2>1. A = Rm
    BY <1>0, <1>10 DEF A
  <2> QED BY <2>1, <1>3, <1>4, <1>5, <1>10 DEF A, R
<1>11. CASE R.out = "done" /\ w = Cutter
  <2>1. A = Resting
    BY <1>0, <1>11 DEF A
  <2> QED BY <2>1, <1>4, <1>5, <1>11, Rests DEF A, R
<1>12. CASE /\ R.out \notin {"busy", "started", "progress"} /\ ~(R.out = "part" /\ R.more > 0)
            /\ ~(R.out = "done" /\ w = Cutter)
  <2>1. A = Ri
    BY <1>0, <1>12 DEF A
  <2>2. R.out \in {"done", "part"}
    BY <1>12, WorkerGet DEF R, Out
  <2>3. w \in Bag
    BY <1>4, <1>6, <1>12, <2>2
  <2> QED BY <2>1, <2>3, <1>2, <1>4, <1>5, <1>12 DEF A, R
<1> QED BY <1>7, <1>8, <1>9, <1>10, <1>11, <1>12 DEF A

(* The ring of bags.                                                       *)
head == stRecvBagQueue.head
tail == stRecvBagQueue.tail
Global == stRecvBagQueue.slot[g_sBBMsgArrBag]

(* Where each worker can be, and that it works for a bag that came.        *)
Seated(w) ==
    /\ w = Poll => /\ worker[w].at \in {"none", "decide", "put", "tail"}
                   /\ worker[w].at \in {"put", "tail"} => worker[w].out = "busy"
    /\ w = Cutter => /\ worker[w].at \in {"none", "put", "tail", "open", "list", "perform"}
                     /\ worker[w].out \notin {"part", "busy"}
    /\ w \in Bag => worker[w].at # "decide" /\ worker[w].out # "busy"
    /\ worker[w].at \notin {"none", "sleep"} => worker[w].bag # 0
    /\ w # Cutter /\ worker[w].at # "none" => Global # 0

Seats ==
    /\ \A n \in Entry : stRecvBagQueue.slot[n] = 0 => head <= tail /\ tail <= n
    /\ \A w \in Worker : Seated(w)

LEMMA TypeParts ==
    PortalTypeOK => /\ worker \in [Worker -> WorkerState]
                    /\ stRecvBagQueue.slot \in [Entry -> Bag \cup {0}]
                    /\ head \in Entry /\ tail \in Entry /\ g_sBBMsgArrBag \in Entry
                    /\ Len(commands) \in Nat /\ came \in 0..Len(commands)
                    /\ cuts \in Seq(Bag) /\ taken \subseteq Bag
BY DEF PortalTypeOK, WorkerState, At, Ring, head, tail, PortalScript, commands

LEMMA EntryNext ==
    /\ 0 \in Entry
    /\ \A n \in Entry : /\ n \in Int /\ 0 <= n /\ n < MAX_BAG_NUM
                        /\ NextEntry(n) = IF n + 1 = MAX_BAG_NUM THEN 0 ELSE n + 1
                        /\ NextEntry(n) \in Entry
BY PortalAssumption DEF Entry, NextEntry

-----------------------------------------------------------------------------
(* How each step moves whom.                                               *)
Typed == PortalTypeOK /\ Seats

LEMMA TakeMoves ==
    ASSUME Typed, PollTake
    PROVE  /\ Turns(Poll, {"none"}, {"decide"})
           /\ worker'[Poll].bag = stRecvBagQueue.slot[head] /\ stRecvBagQueue.slot[head] \in Bag
<1> DEFINE b == stRecvBagQueue.slot[head]
           r == [Resting EXCEPT !.at = "decide", !.bag = b]
<1>1. b \in Bag
  <2>1. head # tail /\ head \in Entry /\ tail \in Entry /\ b \in Bag \cup {0}
    BY TypeParts DEF Typed, PollTake, head, tail
  <2>2. b = 0 => head <= tail /\ tail <= head
    BY <2>1 DEF Typed, Seats
  <2> QED BY <2>1, <2>2, EntryNext
<1>2. worker[Poll].at = "none" /\ worker' = [worker EXCEPT ![Poll] = r]
  BY DEF PollTake, head
<1> HIDE DEF b
<1>3. r \in WorkerState /\ r.at = "decide" /\ r.bag = b
  BY <1>1 DEF Resting, WorkerState, At, Out
<1> HIDE DEF r
<1> QED BY <1>1, <1>2, <1>3, WorkerSets, TypeParts, Workers DEF Typed, b

LEMMA StartMoves ==
    ASSUME Typed, PollStart
    PROVE  /\ worker' \in [Worker -> WorkerState] /\ worker[Poll].at = "decide"
           /\ worker[Poll].bag \in Bag
           /\ \A v \in Worker : v # Poll /\ v # worker[Poll].bag => worker'[v] = worker[v]
           /\ worker'[worker[Poll].bag].at = "sleep" /\ worker'[Poll].at = "none"
           /\ worker'[worker[Poll].bag].out = worker[worker[Poll].bag].out
           /\ worker'[worker[Poll].bag].door = worker[worker[Poll].bag].door
<1>1. worker \in [Worker -> WorkerState]
  BY TypeParts DEF Typed
<1>2. worker[Poll].bag \in Bag /\ worker[Poll].at = "decide"
  <2>1. worker[Poll].at = "decide" /\ Seated(Poll)
    BY Workers DEF PollStart, Typed, Seats
  <2> QED BY <2>1, <1>1, WorkerGet, Workers DEF Seated
<1> QED BY <1>1, <1>2, StartTurns

LEMMA BusyMoves ==
    ASSUME Typed, PollBusy
    PROVE  Turns(Poll, {"decide"}, {"put"}) /\ worker'[Poll].bag = worker[Poll].bag /\ worker'[Poll].out = "busy"
<1>1. Goes(Poll, "put", "busy") /\ worker[Poll].at = "decide"
  BY DEF PollBusy, Goes
<1> QED BY <1>1, GoesTurns, TypeParts, Workers DEF Typed, At, Out, Turns, Keeps

LEMMA PutMoves ==
    ASSUME Typed, NEW w \in Worker, Put(w)
    PROVE  Turns(w, {"put"}, {"tail"}) /\ Keeps(w) /\ worker'[w].out = worker[w].out
<1>1. worker \in [Worker -> WorkerState] /\ worker[w].out \in Out /\ "tail" \in At
  BY TypeParts, WorkerGet DEF Typed, At
<1>2. Goes(w, "tail", worker[w].out) /\ worker[w].at = "put"
  <2>1. worker' = [worker EXCEPT ![w].at = "tail"] /\ worker[w].at = "put"
    BY DEF Put
  <2>2. [worker EXCEPT ![w].at = "tail"] = [worker EXCEPT ![w].at = "tail", ![w].out = worker[w].out]
    BY <1>1 DEF WorkerState
  <2> QED BY <2>1, <2>2 DEF Goes
<1> QED BY <1>1, <1>2, GoesTurns DEF Turns

LEMMA AdvanceMoves ==
    ASSUME Typed, NEW w \in Worker, Advance(w)
    PROVE  /\ Turns(w, {"tail"}, At) /\ worker'[w] \in WorkerState
           /\ w = Poll => worker'[w] = Resting
           /\ w = Cutter => worker'[w] = Resting \/ worker'[w].at \in {"open", "perform"}
           /\ w \in Bag => /\ worker'[w].at \in {"open", "perform", "put", "idle"}
                           /\ worker'[w].at = "perform" <=> worker[w].out = "progress"
                           /\ worker'[w].door = worker[w].door
                           /\ worker'[w].out = worker[w].out
           /\ worker'[w].at # "none" => worker'[w].bag = worker[w].bag /\ worker'[w].out = worker[w].out
           /\ worker'[w].at = "none" => worker'[w] = Resting
           /\ worker'[w].at = "open" <=> worker[w].out = "started"
           /\ worker'[w].at = "perform" <=> worker[w].out = "progress"
           /\ worker'[w].at \in {"none", "open", "perform", "put", "idle"}
<1>1. worker \in [Worker -> WorkerState] /\ Seated(w) /\ worker[w].at = "tail"
      /\ worker' = [worker EXCEPT ![w] = AfterPut(w)]
  BY TypeParts DEF Typed, Seats, Advance
<1>2. /\ AfterPut(w) \in WorkerState
      /\ w = Poll => AfterPut(w) = Resting
      /\ w = Cutter => AfterPut(w) = Resting \/ AfterPut(w).at \in {"open", "perform"}
      /\ w \in Bag => /\ AfterPut(w).at \in {"open", "perform", "put", "idle"}
                      /\ AfterPut(w).at = "perform" <=> worker[w].out = "progress"
                      /\ AfterPut(w).door = worker[w].door
                      /\ AfterPut(w).out = worker[w].out
      /\ AfterPut(w).at # "none" => AfterPut(w).bag = worker[w].bag /\ AfterPut(w).out = worker[w].out
      /\ AfterPut(w).at = "none" => AfterPut(w) = Resting
      /\ AfterPut(w).at = "open" <=> worker[w].out = "started"
      /\ AfterPut(w).at = "perform" <=> worker[w].out = "progress"
      /\ AfterPut(w).at \in {"none", "open", "perform", "put", "idle"}
  BY <1>1, AfterPutIs DEF Seated
<1> DEFINE r == AfterPut(w)
<1> HIDE DEF r
<1>3. r \in WorkerState /\ worker' = [worker EXCEPT ![w] = r]
  BY <1>1, <1>2 DEF r
<1>4. worker'[w] = r /\ Turns(w, {"tail"}, {r.at})
  BY <1>1, <1>3, WorkerSets
<1>5. Turns(w, {"tail"}, At)
  BY <1>3, <1>4 DEF Turns, WorkerState
<1> QED BY <1>2, <1>3, <1>4, <1>5 DEF r

LEMMA CutMoves ==
    ASSUME Typed, CutFinished
    PROVE  /\ Turns(Cutter, {"none"}, {"put"})
           /\ worker'[Cutter].bag \in Bag /\ worker'[Cutter].out \in {"done", "started"}
<1>1. cuts[1] \in Bag /\ worker \in [Worker -> WorkerState] /\ worker[Cutter].at = "none"
  <2>1. cuts \in Seq(Bag) /\ cuts # <<>>
    BY TypeParts DEF Typed, CutFinished
  <2>2. cuts[1] \in Bag
    BY <2>1
  <2> QED BY <2>2, TypeParts DEF Typed, CutFinished
<1>2. PICK o \in {"done", "started"} :
        worker' = [worker EXCEPT ![Cutter] = [Resting EXCEPT !.at = "put", !.bag = cuts[1], !.out = o]]
  BY DEF CutFinished
<1> DEFINE b == cuts[1]
           r == [Resting EXCEPT !.at = "put", !.bag = b, !.out = o]
<1> HIDE DEF b
<1>3. r \in WorkerState /\ r.at = "put" /\ r.bag = b /\ r.out = o
  BY <1>1 DEF Resting, WorkerState, At, Out, b
<1>4. worker' = [worker EXCEPT ![Cutter] = r]
  BY <1>2 DEF b
<1> HIDE DEF r
<1>5. worker'[Cutter] = r /\ Turns(Cutter, {"none"}, {"put"})
  BY <1>1, <1>3, <1>4, WorkerSets, Workers
<1> QED BY <1>1, <1>3, <1>5 DEF b

LEMMA OpenMoves ==
    ASSUME Typed, NEW w \in Worker, UploadOpen(w)
    PROVE  /\ Turns(w, {"open"}, {"list"}) /\ worker'[w].bag = worker[w].bag
           /\ worker'[w].out = worker[w].out /\ worker'[w].door
<1> DEFINE r == [worker[w] EXCEPT !.at = "list", !.door = TRUE]
<1>1. worker \in [Worker -> WorkerState] /\ worker[w].at = "open" /\ worker' = [worker EXCEPT ![w] = r]
  BY TypeParts DEF Typed, UploadOpen
<1>2. r \in WorkerState /\ r.at = "list" /\ r.bag = worker[w].bag /\ r.out = worker[w].out /\ r.door
  BY <1>1 DEF WorkerState, At
<1> HIDE DEF r
<1> QED BY <1>1, <1>2, WorkerSets

LEMMA ListMoves ==
    ASSUME Typed, NEW w \in Worker, UploadList(w)
    PROVE  Turns(w, {"list"}, {"perform"}) /\ Keeps(w) /\ worker'[w].out = worker[w].out
<1> DEFINE r == [worker[w] EXCEPT !.at = "perform"]
<1>1. worker \in [Worker -> WorkerState] /\ worker[w].at = "list" /\ worker' = [worker EXCEPT ![w] = r]
  BY TypeParts DEF Typed, UploadList
<1>2. /\ r \in WorkerState /\ r.at = "perform" /\ r.bag = worker[w].bag /\ r.out = worker[w].out
      /\ r.door = worker[w].door /\ r.own = worker[w].own
  BY <1>1 DEF WorkerState, At
<1> HIDE DEF r
<1> QED BY <1>1, <1>2, WorkerSets DEF Keeps

LEMMA ProgressMoves ==
    ASSUME Typed, NEW w \in Worker, UploadProgress(w)
    PROVE  Turns(w, {"perform"}, {"put"}) /\ Keeps(w) /\ worker'[w].out = "progress"
<1>1. Goes(w, "put", "progress") /\ worker[w].at = "perform"
  BY DEF UploadProgress
<1> QED BY <1>1, GoesTurns, TypeParts DEF Typed, At, Out

LEMMA EndMoves ==
    ASSUME Typed, NEW w \in Worker, UploadEnd(w)
    PROVE  Turns(w, {"perform"}, {"put"}) /\ Keeps(w) /\ worker'[w].out = "done"
<1>1. Goes(w, "put", "done") /\ worker[w].at = "perform"
  BY DEF UploadEnd
<1> QED BY <1>1, GoesTurns, TypeParts DEF Typed, At, Out

LEMMA WakeMoves ==
    ASSUME Typed, NEW t \in Bag, Wake(t)
    PROVE  /\ Turns(t, {"sleep"}, {"handle"}) /\ Global \in Bag
           /\ worker'[t].bag = Global /\ ~worker'[t].door /\ worker'[t].out = "done"
<1>1. worker \in [Worker -> WorkerState] /\ worker[t].at = "sleep" /\ Wakes(t)
  BY TypeParts DEF Typed, Wake, Wakes
<1>2. Seated(t) /\ t \in Worker /\ t # Cutter /\ Global \in Bag \cup {0}
  BY TypeParts, Workers DEF Typed, Seats, Cutter, Global
<1>3. Global \in Bag
  BY <1>1, <1>2 DEF Seated
<1> QED BY <1>1, <1>3, WakesTurns DEF Global

(* What a handler leaves: its thread answers, puts, or has nothing to say. *)
LEMMA HandleMoves ==
    ASSUME Typed, NEW t \in Bag, Handle(t)
    PROVE  /\ Turns(t, {"handle"}, {"answer", "put", "idle"})
           /\ worker'[t].bag = worker[t].bag /\ worker'[t].door = worker[t].door
           /\ worker'[t].out \in {"done", "part", "started", worker[t].out}
           /\ worker'[t].at # "answer" => g_KakaAckBag' = g_KakaAckBag
           /\ worker'[t].at = "answer" =>
                 \/ worker'[t].own = "ok" /\ g_KakaAckBag' = g_KakaAckBag
                 \/ worker'[t].own = "failed" /\ g_KakaAckBag' = "failed"
<1>0. worker \in [Worker -> WorkerState] /\ t \in Worker
  BY TypeParts, Workers DEF Typed
<1>1. CASE HandleRealtime(t)
  <2>1. PICK x \in {"ok", "failed"} :
          /\ worker' = [worker EXCEPT ![t].at = "answer", ![t].own = x]
          /\ g_KakaAckBag' = IF x = "failed" THEN x ELSE g_KakaAckBag
    BY <1>1 DEF HandleRealtime
  <2> DEFINE r == [worker[t] EXCEPT !.at = "answer", !.own = x]
  <2>2. /\ r \in WorkerState /\ r.at = "answer" /\ r.own = x /\ r.bag = worker[t].bag
        /\ r.door = worker[t].door /\ r.out = worker[t].out
    BY <1>0 DEF WorkerState, At
  <2>3. worker' = [worker EXCEPT ![t] = r] /\ worker[t].at = "handle"
    BY <1>1, <2>1 DEF HandleRealtime, Deals
  <2> HIDE DEF r
  <2>4. worker'[t] = r /\ Turns(t, {"handle"}, {"answer"})
    BY <1>0, <2>2, <2>3, WorkerSets
  <2> QED BY <2>1, <2>2, <2>4 DEF Turns
<1>2. CASE HandleQuery(t)
  <2>1. PICK n \in {0, 1} : worker' = [worker EXCEPT ![t].at = "put", ![t].out = "part", ![t].more = n]
    BY <1>2 DEF HandleQuery
  <2>2. worker[t].at = "handle" /\ g_KakaAckBag' = g_KakaAckBag
    BY <1>2 DEF HandleQuery, Deals
  <2> QED BY <1>0, <2>1, <2>2, QueryTurns DEF Turns, Keeps
<1>3. CASE HandlePlain(t) \/ HandleArea(t) \/ HandleUpload(t) \/ HandleStop(t)
  <2>1. PICK a \in {"put", "idle"}, o \in {"done", "started"} : Goes(t, a, o)
    BY <1>3 DEF HandlePlain, HandleArea, HandleUpload, HandleStop
  <2>2. worker[t].at = "handle" /\ g_KakaAckBag' = g_KakaAckBag
    BY <1>3 DEF HandlePlain, HandleArea, HandleUpload, HandleStop, Deals
  <2>3. a \in At /\ o \in Out
    BY DEF At, Out
  <2>4. Turns(t, {worker[t].at}, {a}) /\ Keeps(t) /\ worker'[t].out = o
    BY <1>0, <2>1, <2>3, GoesTurns
  <2> QED BY <2>2, <2>4 DEF Turns, Keeps
<1> QED BY <1>1, <1>2, <1>3 DEF Handle

LEMMA AnswerMoves ==
    ASSUME Typed, NEW t \in Bag, RealtimeAnswer(t)
    PROVE  Turns(t, {"answer"}, {"put"}) /\ Keeps(t) /\ worker'[t].out = "done"
<1>1. Goes(t, "put", "done") /\ worker[t].at = "answer"
  BY DEF RealtimeAnswer
<1> QED BY <1>1, GoesTurns, TypeParts, Workers DEF Typed, At, Out

LEMMA IdleMoves ==
    ASSUME Typed, NEW t \in Bag, Idles(t)
    PROVE  Turns(t, {"idle"}, {"check"}) /\ Keeps(t) /\ worker'[t].out = worker[t].out
<1> DEFINE r == [worker[t] EXCEPT !.at = "check"]
<1>1. worker \in [Worker -> WorkerState] /\ worker[t].at = "idle" /\ worker' = [worker EXCEPT ![t] = r]
      /\ t \in Worker
  BY TypeParts, Workers DEF Typed, Idles
<1>2. /\ r \in WorkerState /\ r.at = "check" /\ r.bag = worker[t].bag /\ r.out = worker[t].out
      /\ r.door = worker[t].door /\ r.own = worker[t].own
  BY <1>1 DEF WorkerState, At
<1> HIDE DEF r
<1> QED BY <1>1, <1>2, WorkerSets DEF Keeps

LEMMA EndsMoves ==
    ASSUME Typed, NEW t \in Bag, Ends(t)
    PROVE  Turns(t, {"check"}, {"none"}) /\ worker'[t] = Resting
<1>1. worker \in [Worker -> WorkerState] /\ worker[t].at = "check" /\ t \in Worker
      /\ worker' = [worker EXCEPT ![t] = Resting]
  BY TypeParts, Workers DEF Typed, Ends
<1> QED BY <1>1, Rests, WorkerSets

LEMMA AgainMoves ==
    ASSUME Typed, NEW t \in Bag, Again(t)
    PROVE  Turns(t, {"check"}, {"sleep"}) /\ worker'[t].out = "done" /\ ~worker'[t].door
<1> DEFINE r == [Resting EXCEPT !.at = "sleep"]
<1>1. worker \in [Worker -> WorkerState] /\ worker[t].at = "check" /\ worker' = [worker EXCEPT ![t] = r]
      /\ t \in Worker
  BY TypeParts, Workers DEF Typed, Again
<1>2. r \in WorkerState /\ r.at = "sleep" /\ r.out = "done" /\ ~r.door
  BY DEF Resting, WorkerState, At, Out
<1> HIDE DEF r
<1> QED BY <1>1, <1>2, WorkerSets

-----------------------------------------------------------------------------
(* The ring of answers.                                                    *)
owedHead == stRetuBagQueue.head
owedTail == stRetuBagQueue.tail

(* One answer at a time is copied and not counted, and it is in the slot   *)
(* at the tail; the one being sent is in the slot before the head.         *)
Owing ==
    "retu" \notin spoilt =>
        /\ Contents(stRetuBagQueue) = owed
        /\ \A w \in Worker : worker[w].at = "tail" =>
              /\ ~Filled(stRetuBagQueue)
              /\ stRetuBagQueue.slot[owedTail] = <<worker[w].bag, worker[w].out>>
        /\ \A v, w \in Worker : worker[v].at = "tail" /\ worker[w].at = "tail" => v = w
        /\ sending.at = "send" => /\ stRetuBagQueue.slot[sending.entry] = sending.expected
                                  /\ NextEntry(sending.entry) = owedHead

OneAnswer == (Bag \cup {0}) \X Out

LEMMA ScriptKept ==
    ASSUME PortalTypeOK, [PortalNext]_portalVars
    PROVE  /\ portal' \in PortalScript /\ commands' = commands /\ Bag' = Bag /\ Worker' = Worker
<1>1. portal \in PortalScript
  BY DEF PortalTypeOK
<1>2. CASE UNCHANGED portal
  BY <1>1, <1>2 DEF commands, Bag, Worker
<1>3. CASE \E t \in Bag : Again(t)
  <2>1. portal' = [portal EXCEPT !.again = @ - 1] /\ portal.again > 0
    BY <1>3 DEF Again
  <2>2. portal' \in PortalScript /\ portal'.commands = portal.commands
    BY <1>1, <2>1 DEF PortalScript
  <2> QED BY <2>2 DEF commands, Bag, Worker
<1>4. CASE \E w \in Worker : UploadProgress(w)
  <2>1. portal' = [portal EXCEPT !.progress = @ - 1] /\ portal.progress > 0
    BY <1>4 DEF UploadProgress
  <2>2. portal' \in PortalScript /\ portal'.commands = portal.commands
    BY <1>1, <2>1 DEF PortalScript
  <2> QED BY <2>2 DEF commands, Bag, Worker
<1>5. ASSUME PortalNext PROVE UNCHANGED portal \/ (\E t \in Bag : Again(t)) \/ (\E w \in Worker : UploadProgress(w))
  <2>1. UartBag \/ PollTake \/ PollStart \/ PollBusy \/ RetuTake \/ RetuSend \/ CutFinished => UNCHANGED portal
    BY DEF UartBag, PollTake, PollStart, PollBusy, RetuTake, RetuSend, CutFinished
  <2>2. ASSUME NEW w \in Worker, Put(w) \/ Advance(w) \/ UploadOpen(w) \/ UploadList(w) \/ UploadEnd(w)
        PROVE  UNCHANGED portal
    BY <2>2 DEF Put, Advance, UploadOpen, UploadList, UploadEnd
  <2>3. ASSUME NEW t \in Bag, Wake(t) \/ Handle(t) \/ RealtimeAnswer(t) \/ Idles(t) \/ Ends(t)
        PROVE  UNCHANGED portal
    BY <2>3 DEF Wake, Wakes, Handle, HandlePlain, HandleRealtime, HandleQuery, HandleArea, HandleUpload,
               HandleStop, Deals, RealtimeAnswer, Idles, Ends
  <2> QED BY <1>5, <2>1, <2>2, <2>3 DEF PortalNext, Upload, Process
<1> QED BY <1>2, <1>3, <1>4, <1>5 DEF portalVars

(* What a step leaves alone has its type still.                            *)
TypeRest ==
    /\ g_esBuBaioProcState \in {"STATE_USER_IDLE", "STATE_USER_BUSY"}
    /\ g_KakaAckBag \in {"ok", "failed"}
    /\ cuts \in Seq(Bag)
    /\ dealt \in [Bag -> Nat]
    /\ hurried \in BOOLEAN /\ opened \in BOOLEAN
    /\ met \subseteq Bag
    /\ spoilt \subseteq {"recv", "retu"}

TypeRecv ==
    /\ came \in 0..Len(commands)
    /\ stRecvBagQueue \in Ring(Bag \cup {0})
    /\ g_sBBMsgArrBag \in Entry
    /\ taken \subseteq Bag

TypeRetu ==
    /\ stRetuBagQueue \in Ring(OneAnswer)
    /\ sending \in [at : {"wait", "send"}, entry : Entry, expected : OneAnswer]
    /\ owed \in Seq(OneAnswer)

LEMMA PortalTypes ==
    PortalTypeOK <=> /\ portal \in PortalScript /\ worker \in [Worker -> WorkerState]
                     /\ TypeRest /\ TypeRecv /\ TypeRetu
BY DEF PortalTypeOK, TypeRest, TypeRecv, TypeRetu, WorkerState, At, OneAnswer

LEMMA RingStores ==
    ASSUME NEW S, NEW R \in Ring(S), NEW x \in S
    PROVE  /\ Stored(R, x) \in Ring(S) /\ Stored(R, x).head = R.head /\ Stored(R, x).tail = R.tail
           /\ Stored(R, x).slot = [R.slot EXCEPT ![R.tail] = x]
<1> DEFINE s == [R.slot EXCEPT ![R.tail] = x]
<1>1. s \in [Entry -> S]
  BY DEF Ring
<1>2. Stored(R, x) = [R EXCEPT !.slot = s]
  BY Zenon DEF Stored
<1> HIDE DEF s
<1>3. /\ [R EXCEPT !.slot = s] \in Ring(S) /\ [R EXCEPT !.slot = s].slot = s
      /\ [R EXCEPT !.slot = s].head = R.head /\ [R EXCEPT !.slot = s].tail = R.tail
  BY <1>1 DEF Ring
<1> QED BY <1>2, <1>3 DEF s

LEMMA RingPuts ==
    ASSUME NEW S, NEW R \in Ring(S)
    PROVE  /\ R.head \in Entry /\ R.tail \in Entry /\ R.slot \in [Entry -> S]
           /\ Advanced(R) \in Ring(S) /\ Dropped(R) \in Ring(S)
           /\ Advanced(R).head = R.head /\ Advanced(R).tail = NextEntry(R.tail) /\ Advanced(R).slot = R.slot
           /\ Dropped(R).head = NextEntry(R.head) /\ Dropped(R).tail = R.tail /\ Dropped(R).slot = R.slot
<1>1. R.head \in Entry /\ R.tail \in Entry /\ R.slot \in [Entry -> S]
  BY DEF Ring
<1>2. NextEntry(R.head) \in Entry /\ NextEntry(R.tail) \in Entry
  BY <1>1, EntryNext
<1>3. Advanced(R) \in Ring(S) /\ Advanced(R).head = R.head /\ Advanced(R).tail = NextEntry(R.tail) /\ Advanced(R).slot = R.slot
  BY <1>2 DEF Ring, Advanced
<1>4. Dropped(R) \in Ring(S) /\ Dropped(R).head = NextEntry(R.head) /\ Dropped(R).tail = R.tail /\ Dropped(R).slot = R.slot
  BY <1>2 DEF Ring, Dropped
<1> QED BY <1>1, <1>3, <1>4

(* The actions, one by one.                                                *)
Moving ==
    \/ PollTake \/ PollStart \/ PollBusy \/ CutFinished
    \/ \E w \in Worker : Put(w) \/ Advance(w) \/ UploadOpen(w) \/ UploadList(w) \/ UploadProgress(w) \/ UploadEnd(w)
    \/ \E t \in Bag : Wake(t) \/ Handle(t) \/ RealtimeAnswer(t) \/ Idles(t) \/ Ends(t) \/ Again(t)

LEMMA Steps ==
    [PortalNext]_portalVars => UNCHANGED portalVars \/ UartBag \/ RetuTake \/ RetuSend \/ Moving
BY DEF PortalNext, Moving, Upload, Process

LEMMA HandleFrame ==
    ASSUME NEW t \in Bag, Handle(t)
    PROVE  /\ UNCHANGED portal /\ UNCHANGED bags /\ UNCHANGED g_esBuBaioProcState /\ UNCHANGED answers
           /\ UNCHANGED met /\ UNCHANGED hurried /\ UNCHANGED opened /\ UNCHANGED spoilt
           /\ dealt' = [dealt EXCEPT ![worker[t].bag] = @ + 1]
           /\ cuts' = cuts \/ cuts' = Append(cuts, worker[t].bag)
           /\ worker[t].at = "handle"
BY DEF Handle, HandlePlain, HandleRealtime, HandleQuery, HandleArea, HandleUpload, HandleStop, Deals

(* Only one thread puts into the ring of bags, and one takes.              *)
LEMMA BagsFrame ==
    ASSUME [PortalNext]_portalVars
    PROVE  UartBag \/ PollTake \/ UNCHANGED bags
<1>1. UNCHANGED portalVars \/ RetuTake \/ RetuSend => UNCHANGED bags
  BY DEF portalVars, RetuTake, RetuSend
<1>2. PollStart \/ PollBusy \/ CutFinished => UNCHANGED bags
  BY DEF PollStart, PollBusy, CutFinished
<1>3. ASSUME NEW w \in Worker,
             Put(w) \/ Advance(w) \/ UploadOpen(w) \/ UploadList(w) \/ UploadProgress(w) \/ UploadEnd(w)
      PROVE  UNCHANGED bags
  BY <1>3 DEF Put, Advance, UploadOpen, UploadList, UploadProgress, UploadEnd
<1>4. ASSUME NEW t \in Bag, Wake(t) \/ RealtimeAnswer(t) \/ Idles(t) \/ Ends(t) \/ Again(t)
      PROVE  UNCHANGED bags
  BY <1>4 DEF Wake, Wakes, RealtimeAnswer, Idles, Ends, Again
<1>5. ASSUME NEW t \in Bag, Handle(t)
      PROVE  UNCHANGED bags
  BY <1>5, HandleFrame
<1> QED BY <1>1, <1>2, <1>3, <1>4, <1>5, Steps DEF Moving

LEMMA AnswersFrame ==
    ASSUME [PortalNext]_portalVars
    PROVE  \/ RetuTake \/ RetuSend \/ \E w \in Worker : Put(w) \/ Advance(w)
           \/ UNCHANGED answers /\ ("retu" \in spoilt' <=> "retu" \in spoilt)
<1>1. UNCHANGED portalVars => UNCHANGED answers /\ UNCHANGED spoilt
  BY DEF portalVars
<1>2. UartBag => UNCHANGED answers /\ ("retu" \in spoilt' <=> "retu" \in spoilt)
  BY DEF UartBag
<1>3. PollTake \/ PollStart \/ PollBusy \/ CutFinished => UNCHANGED answers /\ UNCHANGED spoilt
  BY DEF PollTake, PollStart, PollBusy, CutFinished
<1>4. ASSUME NEW w \in Worker, UploadOpen(w) \/ UploadList(w) \/ UploadProgress(w) \/ UploadEnd(w)
      PROVE  UNCHANGED answers /\ UNCHANGED spoilt
  BY <1>4 DEF UploadOpen, UploadList, UploadProgress, UploadEnd
<1>5. ASSUME NEW t \in Bag, Wake(t) \/ RealtimeAnswer(t) \/ Idles(t) \/ Ends(t) \/ Again(t)
      PROVE  UNCHANGED answers /\ UNCHANGED spoilt
  BY <1>5 DEF Wake, Wakes, RealtimeAnswer, Idles, Ends, Again
<1>6. ASSUME NEW t \in Bag, Handle(t)
      PROVE  UNCHANGED answers /\ UNCHANGED spoilt
  BY <1>6, HandleFrame
<1> QED BY <1>1, <1>2, <1>3, <1>4, <1>5, <1>6, Steps DEF Moving

-----------------------------------------------------------------------------
(* The types of the workers, and where they are.                           *)
LEMMA BagTyped ==
    ASSUME Typed, NEW w \in Worker, worker[w].at \notin {"none", "sleep"}
    PROVE  worker[w].bag \in Bag
<1>1. Seated(w) /\ worker[w].bag \in Bag \cup {0}
  BY TypeParts, WorkerGet DEF Typed, Seats
<1> QED BY <1>1 DEF Seated

LEMMA WorkerType ==
    ASSUME Typed, [PortalNext]_portalVars
    PROVE  worker' \in [Worker -> WorkerState]
<1>1. UNCHANGED portalVars \/ UartBag \/ RetuTake \/ RetuSend => worker' = worker
  BY DEF portalVars, UartBag, RetuTake, RetuSend
<1>2. PollTake \/ PollStart \/ PollBusy \/ CutFinished => worker' \in [Worker -> WorkerState]
  BY TakeMoves, StartMoves, BusyMoves, CutMoves DEF Turns
<1>3. ASSUME NEW w \in Worker,
             Put(w) \/ Advance(w) \/ UploadOpen(w) \/ UploadList(w) \/ UploadProgress(w) \/ UploadEnd(w)
      PROVE  worker' \in [Worker -> WorkerState]
  BY <1>3, PutMoves, AdvanceMoves, OpenMoves, ListMoves, ProgressMoves, EndMoves DEF Turns
<1>4. ASSUME NEW t \in Bag, Wake(t) \/ Handle(t) \/ RealtimeAnswer(t) \/ Idles(t) \/ Ends(t) \/ Again(t)
      PROVE  worker' \in [Worker -> WorkerState]
  BY <1>4, WakeMoves, HandleMoves, AnswerMoves, IdleMoves, EndsMoves, AgainMoves DEF Turns
<1> QED BY <1>1, <1>2, <1>3, <1>4, Steps, TypeParts DEF Moving, Typed

LEMMA DealtType ==
    ASSUME dealt \in [Bag -> Nat], NEW b, dealt' = [dealt EXCEPT ![b] = @ + 1]
    PROVE  dealt' \in [Bag -> Nat]
<1> DEFINE n == dealt[b] + 1
<1>1. b \in Bag => n \in Nat
  OBVIOUS
<1>2. dealt' = [dealt EXCEPT ![b] = n]
  OBVIOUS
<1> HIDE DEF n
<1> QED BY <1>1, <1>2

LEMMA RestType ==
    ASSUME Typed, [PortalNext]_portalVars
    PROVE  TypeRest'
<1> USE PortalTypes DEF Typed, TypeRest, results, uploads
<1>0. Bag' = Bag
  BY ScriptKept
<1>1. CASE UNCHANGED portalVars \/ UartBag \/ RetuTake \/ RetuSend \/ PollTake \/ PollStart
  BY <1>0, <1>1 DEF portalVars, UartBag, RetuTake, RetuSend, PollTake, PollStart
<1>2. CASE PollBusy
  <2>1. dealt' = [dealt EXCEPT ![worker[Poll].bag] = @ + 1]
    BY <1>2 DEF PollBusy
  <2>2. dealt' \in [Bag -> Nat]
    BY <2>1, DealtType, Zenon
  <2> QED BY <1>0, <1>2, <2>2 DEF PollBusy
<1>3. CASE CutFinished
  <2>1. cuts' \in Seq(Bag)
    BY <1>3 DEF CutFinished
  <2> QED BY <1>0, <1>3, <2>1 DEF CutFinished
<1>4. ASSUME NEW w \in Worker,
             Put(w) \/ Advance(w) \/ UploadOpen(w) \/ UploadList(w) \/ UploadProgress(w) \/ UploadEnd(w)
      PROVE  TypeRest'
  BY <1>0, <1>4 DEF Put, Advance, UploadOpen, UploadList, UploadProgress, UploadEnd, SetIdle
<1>5. ASSUME NEW t \in Bag, Wake(t) \/ RealtimeAnswer(t) \/ Idles(t) \/ Ends(t) \/ Again(t)
      PROVE  TypeRest'
  <2>1. CASE Wake(t)
    <3>1. met' \subseteq Bag /\ g_KakaAckBag' = "ok" /\ g_esBuBaioProcState' = "STATE_USER_BUSY" /\ hurried' \in BOOLEAN
      BY <2>1 DEF Wake, Wakes
    <3> QED BY <1>0, <2>1, <3>1 DEF Wake, Wakes
  <2>2. CASE ~Wake(t)
    BY <1>0, <1>5, <2>2 DEF RealtimeAnswer, Idles, Ends, Again, SetIdle
  <2> QED BY <2>1, <2>2
<1>6. ASSUME NEW t \in Bag, Handle(t)
      PROVE  TypeRest'
  <2>0. t \in Worker
    BY Workers
  <2>1. worker[t].bag \in Bag
    BY <1>6, <2>0, BagTyped, HandleFrame
  <2>2. dealt' \in [Bag -> Nat]
    <3>1. dealt' = [dealt EXCEPT ![worker[t].bag] = @ + 1]
      BY <1>6, HandleFrame
    <3> QED BY <3>1, DealtType, Zenon
  <2>3. cuts' \in Seq(Bag)
    <3>1. cuts' = cuts \/ cuts' = Append(cuts, worker[t].bag)
      BY <1>6, HandleFrame
    <3> QED BY <2>1, <3>1, SMTT(20)
  <2>4. g_KakaAckBag' \in {"ok", "failed"}
    BY <1>6, HandleMoves DEF Turns
  <2>5. UNCHANGED g_esBuBaioProcState /\ UNCHANGED met /\ UNCHANGED hurried /\ UNCHANGED opened /\ UNCHANGED spoilt
    BY <1>6, HandleFrame
  <2> QED BY <1>0, <2>2, <2>3, <2>4, <2>5
<1> QED BY <1>1, <1>2, <1>3, <1>4, <1>5, <1>6, Steps DEF Moving

LEMMA UartPuts ==
    ASSUME Typed, UartBag
    PROVE  /\ came' = came + 1 /\ came' \in Bag /\ came' \in 0..Len(commands)
           /\ stRecvBagQueue' \in Ring(Bag \cup {0})
           /\ head' = head /\ tail' = NextEntry(tail)
           /\ stRecvBagQueue'.slot = [stRecvBagQueue.slot EXCEPT ![tail] = came']
           /\ worker' = worker /\ g_sBBMsgArrBag' = g_sBBMsgArrBag /\ taken' = taken
<1>1. came \in 0..Len(commands) /\ Len(commands) \in Nat /\ stRecvBagQueue \in Ring(Bag \cup {0})
  BY TypeParts, PortalTypes DEF Typed, TypeRecv
<1>2. came' = came + 1 /\ came' \in Bag /\ came' \in 0..Len(commands)
  BY <1>1 DEF UartBag, Bag
<1> DEFINE R == Stored(stRecvBagQueue, came')
<1>3. stRecvBagQueue' = Advanced(R)
  BY DEF UartBag
<1>4. /\ R \in Ring(Bag \cup {0}) /\ R.head = head /\ R.tail = tail
      /\ R.slot = [stRecvBagQueue.slot EXCEPT ![tail] = came']
  <2> DEFINE S == Bag \cup {0}
             c == came'
  <2>1. c \in S /\ stRecvBagQueue \in Ring(S)
    BY <1>1, <1>2
  <2> HIDE DEF S, c
  <2>2. /\ Stored(stRecvBagQueue, c) \in Ring(S)
        /\ Stored(stRecvBagQueue, c).head = stRecvBagQueue.head
        /\ Stored(stRecvBagQueue, c).tail = stRecvBagQueue.tail
        /\ Stored(stRecvBagQueue, c).slot = [stRecvBagQueue.slot EXCEPT ![stRecvBagQueue.tail] = c]
    BY <2>1, RingStores
  <2> QED BY <2>2, Zenon DEF S, c, head, tail
<1> HIDE DEF R
<1>5. /\ Advanced(R) \in Ring(Bag \cup {0}) /\ Advanced(R).head = R.head
      /\ Advanced(R).tail = NextEntry(R.tail) /\ Advanced(R).slot = R.slot
  BY <1>4, RingPuts
<1> QED BY <1>2, <1>3, <1>4, <1>5 DEF UartBag, head, tail

LEMMA PollTakes ==
    ASSUME Typed, PollTake
    PROVE  /\ stRecvBagQueue' \in Ring(Bag \cup {0})
           /\ head' = NextEntry(head) /\ tail' = tail /\ stRecvBagQueue'.slot = stRecvBagQueue.slot
           /\ head # tail /\ g_sBBMsgArrBag' = head /\ came' = came
           /\ taken' = taken \cup {stRecvBagQueue.slot[head]}
<1>1. stRecvBagQueue \in Ring(Bag \cup {0}) /\ stRecvBagQueue' = Dropped(stRecvBagQueue)
  BY PortalTypes DEF Typed, TypeRecv, PollTake
<1>2. /\ Dropped(stRecvBagQueue) \in Ring(Bag \cup {0})
      /\ Dropped(stRecvBagQueue).head = NextEntry(stRecvBagQueue.head)
      /\ Dropped(stRecvBagQueue).tail = stRecvBagQueue.tail
      /\ Dropped(stRecvBagQueue).slot = stRecvBagQueue.slot
  BY <1>1, RingPuts
<1> QED BY <1>1, <1>2 DEF PollTake, head, tail

LEMMA RecvType ==
    ASSUME Typed, [PortalNext]_portalVars
    PROVE  TypeRecv'
<1>0. Bag' = Bag /\ commands' = commands /\ TypeRecv
  BY ScriptKept, PortalTypes DEF Typed
<1>1. CASE UartBag
  BY <1>0, <1>1, UartPuts DEF TypeRecv, Ring
<1>2. CASE PollTake
  <2>1. stRecvBagQueue.slot[head] \in Bag /\ head \in Entry
    BY <1>2, TakeMoves, TypeParts DEF Typed
  <2> QED BY <1>0, <1>2, <2>1, PollTakes DEF TypeRecv, Ring
<1>3. CASE UNCHANGED bags
  BY <1>0, <1>3 DEF TypeRecv, bags, Ring
<1> QED BY <1>1, <1>2, <1>3, BagsFrame

(* Workers but the one that puts are where they were, if they are between  *)
(* copy and index.                                                         *)
LEMMA TailFrame ==
    ASSUME Typed, [PortalNext]_portalVars, NEW w \in Worker, worker'[w].at = "tail", ~Put(w)
    PROVE  worker'[w] = worker[w]
<1>1. UNCHANGED portalVars \/ UartBag \/ RetuTake \/ RetuSend => worker' = worker
  BY DEF portalVars, UartBag, RetuTake, RetuSend
<1>2. PollTake \/ PollBusy \/ CutFinished => worker'[w] = worker[w]
  BY TakeMoves, BusyMoves, CutMoves DEF Turns
<1>3. PollStart => worker'[w] = worker[w]
  BY StartMoves
<1>4. ASSUME NEW v \in Worker,
             Put(v) \/ Advance(v) \/ UploadOpen(v) \/ UploadList(v) \/ UploadProgress(v) \/ UploadEnd(v)
      PROVE  worker'[w] = worker[w]
  <2>1. CASE w = v
    <3>1. Advance(v) => worker'[v].at \in {"none", "open", "perform", "put", "idle"}
      BY AdvanceMoves, Workers, Rests
    <3> QED BY <1>4, <2>1, <3>1, OpenMoves, ListMoves, ProgressMoves, EndMoves DEF Turns
  <2>2. CASE w # v
    BY <1>4, <2>2, PutMoves, AdvanceMoves, OpenMoves, ListMoves, ProgressMoves, EndMoves DEF Turns
  <2> QED BY <2>1, <2>2
<1>5. ASSUME NEW t \in Bag, Wake(t) \/ Handle(t) \/ RealtimeAnswer(t) \/ Idles(t) \/ Ends(t) \/ Again(t)
      PROVE  worker'[w] = worker[w]
  BY <1>5, WakeMoves, HandleMoves, AnswerMoves, IdleMoves, EndsMoves, AgainMoves DEF Turns
<1> QED BY <1>1, <1>2, <1>3, <1>4, <1>5, Steps DEF Moving

-----------------------------------------------------------------------------
(* What the ring holds, from its head to its tail.                         *)
LEMMA Around ==
    ASSUME NEW n \in Nat, n > 0, NEW x \in 0..(2 * n - 1)
    PROVE  x % n = IF x < n THEN x ELSE x - n
<1> DEFINE d == x \div n
           r == x % n
<1>1. x = n * d + r /\ r \in 0..(n - 1) /\ d \in Int
  BY Z3
<1> HIDE DEF d, r
<1>2. d \in {0, 1}
  <2>1. d < 0 => n * d <= -n
    BY <1>1, Z3
  <2>2. d > 1 => n * d >= 2 * n
    BY <1>1, Z3
  <2> QED BY <1>1, <2>1, <2>2, Z3
<1>3. d = 0 => n * d = 0
  BY Z3
<1>4. d = 1 => n * d = n
  BY Z3
<1>5. r = IF x < n THEN x ELSE x - n
  BY <1>1, <1>2, <1>3, <1>4, Z3
<1> QED BY <1>5 DEF r

Place(R, k) == (R.head + k - 1) % MAX_BAG_NUM

LEMMA RingCount ==
    ASSUME NEW S, NEW R \in Ring(S)
    PROVE  /\ Count(R) = IF R.head <= R.tail THEN R.tail - R.head ELSE R.tail - R.head + MAX_BAG_NUM
           /\ Count(R) \in 0..(MAX_BAG_NUM - 1)
           /\ \A k \in 1..MAX_BAG_NUM :
                 /\ Place(R, k) = IF R.head + k - 1 < MAX_BAG_NUM THEN R.head + k - 1
                                  ELSE R.head + k - 1 - MAX_BAG_NUM
                 /\ Place(R, k) \in Entry
           /\ Contents(R) = [k \in 1..Count(R) |-> R.slot[Place(R, k)]]
           /\ Contents(R) \in Seq(S) /\ Len(Contents(R)) = Count(R)
<1>0. MAX_BAG_NUM \in Nat /\ MAX_BAG_NUM > 1
  BY PortalAssumption
<1>1. R.head \in 0..(MAX_BAG_NUM - 1) /\ R.tail \in 0..(MAX_BAG_NUM - 1) /\ R.slot \in [Entry -> S]
  BY RingPuts DEF Entry
<1>2. /\ Count(R) = IF R.head <= R.tail THEN R.tail - R.head ELSE R.tail - R.head + MAX_BAG_NUM
      /\ Count(R) \in 0..(MAX_BAG_NUM - 1)
  <2> DEFINE x == R.tail - R.head + MAX_BAG_NUM
  <2>1. x \in 0..(2 * MAX_BAG_NUM - 1)
    BY <1>0, <1>1
  <2> HIDE DEF x
  <2>2. x % MAX_BAG_NUM = IF x < MAX_BAG_NUM THEN x ELSE x - MAX_BAG_NUM
    BY <1>0, <2>1, Around
  <2>3. Count(R) = x % MAX_BAG_NUM
    BY DEF Count, x
  <2> QED BY <1>0, <1>1, <2>2, <2>3 DEF x
<1>3. ASSUME NEW k \in 1..MAX_BAG_NUM
      PROVE  /\ Place(R, k) = IF R.head + k - 1 < MAX_BAG_NUM THEN R.head + k - 1
                              ELSE R.head + k - 1 - MAX_BAG_NUM
             /\ Place(R, k) \in Entry
  <2> DEFINE x == R.head + k - 1
  <2>1. x \in 0..(2 * MAX_BAG_NUM - 1)
    BY <1>0, <1>1
  <2> HIDE DEF x
  <2>2. x % MAX_BAG_NUM = IF x < MAX_BAG_NUM THEN x ELSE x - MAX_BAG_NUM
    BY <1>0, <2>1, Around
  <2>3. Place(R, k) = x % MAX_BAG_NUM
    BY DEF Place, x
  <2>4. Place(R, k) = IF x < MAX_BAG_NUM THEN x ELSE x - MAX_BAG_NUM
    BY <2>2, <2>3
  <2>5. Place(R, k) \in Entry
    BY <1>0, <2>1, <2>4 DEF Entry
  <2>6. x = R.head + k - 1
    BY DEF x
  <2> QED BY <1>0, <1>1, <2>1, <2>4, <2>5, <2>6
<1>4. Contents(R) = [k \in 1..Count(R) |-> R.slot[Place(R, k)]]
  BY DEF Contents, Place
<1>5. Contents(R) \in Seq(S) /\ Len(Contents(R)) = Count(R)
  <2>1. \A k \in 1..Count(R) : R.slot[Place(R, k)] \in S
    BY <1>0, <1>1, <1>2, <1>3
  <2> HIDE DEF Place
  <2>2. Contents(R) \in [1..Count(R) -> S]
    BY <1>4, <2>1, Zenon
  <2>3. Count(R) \in Nat
    BY <1>0, <1>2
  <2> QED BY <2>2, <2>3
<1> QED BY <1>2, <1>3, <1>4, <1>5

LEMMA Drops ==
    ASSUME NEW S, NEW R \in Ring(S), R.head # R.tail
    PROVE  /\ Contents(R) # <<>> /\ Contents(R)[1] = R.slot[R.head]
           /\ Contents(Dropped(R)) = Tail(Contents(R))
<1> DEFINE Q == Dropped(R)
<1>0. MAX_BAG_NUM \in Nat /\ MAX_BAG_NUM > 1
  BY PortalAssumption
<1>1. /\ Q \in Ring(S) /\ Q.head = NextEntry(R.head) /\ Q.tail = R.tail /\ Q.slot = R.slot
      /\ R.head \in Entry /\ R.tail \in Entry
  BY RingPuts
<1>2. R.head \in 0..(MAX_BAG_NUM - 1) /\ R.tail \in 0..(MAX_BAG_NUM - 1)
      /\ NextEntry(R.head) = IF R.head + 1 = MAX_BAG_NUM THEN 0 ELSE R.head + 1
  BY <1>1, EntryNext DEF Entry
<1> HIDE DEF Q
<1>a. /\ Count(R) = IF R.head <= R.tail THEN R.tail - R.head ELSE R.tail - R.head + MAX_BAG_NUM
      /\ Count(Q) = IF Q.head <= Q.tail THEN Q.tail - Q.head ELSE Q.tail - Q.head + MAX_BAG_NUM
  BY <1>1, RingCount
<1>b. /\ \A k \in 1..MAX_BAG_NUM : Place(R, k) = IF R.head + k - 1 < MAX_BAG_NUM THEN R.head + k - 1
                                                ELSE R.head + k - 1 - MAX_BAG_NUM
      /\ \A k \in 1..MAX_BAG_NUM : Place(Q, k) = IF Q.head + k - 1 < MAX_BAG_NUM THEN Q.head + k - 1
                                                ELSE Q.head + k - 1 - MAX_BAG_NUM
  BY <1>1, RingCount
<1>3. Count(Q) = Count(R) - 1 /\ Count(R) \in 1..(MAX_BAG_NUM - 1)
  BY <1>0, <1>1, <1>2, <1>a
<1>4. \A k \in 1..Count(Q) : Place(Q, k) = Place(R, k + 1)
  BY <1>0, <1>1, <1>2, <1>3, <1>b
<1>5. Place(R, 1) = R.head
  BY <1>0, <1>2, RingCount
<1>6. /\ Contents(Q) = [k \in 1..Count(Q) |-> Q.slot[Place(Q, k)]]
      /\ Contents(R) = [k \in 1..Count(R) |-> R.slot[Place(R, k)]]
      /\ Contents(R) \in Seq(S) /\ Len(Contents(R)) = Count(R)
  BY <1>1, RingCount
<1>7. Tail(Contents(R)) = [k \in 1..(Count(R) - 1) |-> Contents(R)[k + 1]]
  BY <1>3, <1>6
<1>8. \A k \in 1..Count(Q) : Q.slot[Place(Q, k)] = Contents(R)[k + 1]
  BY <1>1, <1>3, <1>4, <1>6
<1>9. Contents(Q) = Tail(Contents(R))
  BY <1>3, <1>6, <1>7, <1>8
<1>10. Contents(R)[1] = R.slot[R.head] /\ Contents(R) # <<>>
  BY <1>3, <1>5, <1>6
<1> QED BY <1>9, <1>10 DEF Q

LEMMA Stores ==
    ASSUME NEW S, NEW R \in Ring(S), NEW x \in S
    PROVE  Contents(Stored(R, x)) = Contents(R)
<1> DEFINE Q == Stored(R, x)
<1>0. MAX_BAG_NUM \in Nat /\ MAX_BAG_NUM > 1
  BY PortalAssumption
<1>e. R.head \in Entry /\ R.tail \in Entry /\ R.slot \in [Entry -> S]
  BY RingPuts
<1>1. /\ Q \in Ring(S) /\ Q.head = R.head /\ Q.tail = R.tail /\ Q.slot = [R.slot EXCEPT ![R.tail] = x]
      /\ R.head \in Entry /\ R.tail \in Entry /\ R.slot \in [Entry -> S]
  BY <1>e, RingStores
<1>2. R.head \in 0..(MAX_BAG_NUM - 1) /\ R.tail \in 0..(MAX_BAG_NUM - 1)
  BY <1>1 DEF Entry
<1> HIDE DEF Q
<1>3. Count(Q) = Count(R) /\ Count(R) \in 0..(MAX_BAG_NUM - 1)
  BY <1>0, <1>1, <1>2, RingCount
<1>a. /\ Count(R) = IF R.head <= R.tail THEN R.tail - R.head ELSE R.tail - R.head + MAX_BAG_NUM
      /\ \A k \in 1..MAX_BAG_NUM : Place(R, k) = IF R.head + k - 1 < MAX_BAG_NUM THEN R.head + k - 1
                                                ELSE R.head + k - 1 - MAX_BAG_NUM
      /\ \A k \in 1..MAX_BAG_NUM : Place(R, k) \in Entry
  BY RingCount
<1>b. \A k \in 1..Count(R) : Place(R, k) # R.tail
  BY <1>0, <1>2, <1>3, <1>a
<1>c. \A k \in 1..Count(R) : Place(R, k) \in Entry
  BY <1>0, <1>3, <1>a
<1>d. \A k : Place(Q, k) = Place(R, k)
  BY <1>1 DEF Place
<1>4. \A k \in 1..Count(Q) : Place(Q, k) = Place(R, k) /\ Place(R, k) # R.tail /\ Place(R, k) \in Entry
  BY <1>3, <1>b, <1>c, <1>d
<1>5. \A k \in 1..Count(Q) : Q.slot[Place(Q, k)] = R.slot[Place(R, k)]
  BY <1>1, <1>4
<1>6. /\ Contents(Q) = [k \in 1..Count(Q) |-> Q.slot[Place(Q, k)]]
      /\ Contents(R) = [k \in 1..Count(R) |-> R.slot[Place(R, k)]]
  BY <1>1, RingCount
<1> HIDE DEF Place
<1> QED BY <1>3, <1>5, <1>6 DEF Q

LEMMA Advances ==
    ASSUME NEW S, NEW R \in Ring(S), ~Filled(R)
    PROVE  Contents(Advanced(R)) = Append(Contents(R), R.slot[R.tail])
<1> DEFINE Q == Advanced(R)
<1>0. MAX_BAG_NUM \in Nat /\ MAX_BAG_NUM > 1
  BY PortalAssumption
<1>1. /\ Q \in Ring(S) /\ Q.head = R.head /\ Q.tail = NextEntry(R.tail) /\ Q.slot = R.slot
      /\ R.head \in Entry /\ R.tail \in Entry /\ NextEntry(R.tail) # R.head
  BY RingPuts DEF Filled
<1>2. R.head \in 0..(MAX_BAG_NUM - 1) /\ R.tail \in 0..(MAX_BAG_NUM - 1)
      /\ NextEntry(R.tail) = IF R.tail + 1 = MAX_BAG_NUM THEN 0 ELSE R.tail + 1
  BY <1>1, EntryNext DEF Entry
<1> HIDE DEF Q
<1>a. /\ Count(R) = IF R.head <= R.tail THEN R.tail - R.head ELSE R.tail - R.head + MAX_BAG_NUM
      /\ Count(Q) = IF Q.head <= Q.tail THEN Q.tail - Q.head ELSE Q.tail - Q.head + MAX_BAG_NUM
  BY <1>1, RingCount
<1>b. \A k \in 1..MAX_BAG_NUM : Place(R, k) = IF R.head + k - 1 < MAX_BAG_NUM THEN R.head + k - 1
                                              ELSE R.head + k - 1 - MAX_BAG_NUM
  BY RingCount
<1>3. Count(Q) = Count(R) + 1 /\ Count(R) \in 0..(MAX_BAG_NUM - 1) /\ Count(Q) \in 1..(MAX_BAG_NUM - 1)
  BY <1>0, <1>1, <1>2, <1>a
<1>4. \A k \in 1..Count(Q) : Place(Q, k) = Place(R, k)
  BY <1>1 DEF Place
<1>5. Place(R, Count(Q)) = R.tail
  BY <1>0, <1>1, <1>2, <1>3, <1>a, <1>b
<1>6. /\ Contents(Q) = [k \in 1..Count(Q) |-> Q.slot[Place(Q, k)]]
      /\ Contents(R) = [k \in 1..Count(R) |-> R.slot[Place(R, k)]]
      /\ Contents(R) \in Seq(S) /\ Len(Contents(R)) = Count(R)
  BY <1>1, RingCount
<1> DEFINE C == Contents(R)
           x == R.slot[R.tail]
<1>7. Append(C, x) = [k \in 1..(Len(C) + 1) |-> IF k = Len(C) + 1 THEN x ELSE C[k]]
  BY <1>3, <1>6
<1>8. \A k \in 1..Count(Q) : Q.slot[Place(Q, k)] = IF k = Len(C) + 1 THEN x ELSE C[k]
  BY <1>1, <1>3, <1>4, <1>5, <1>6
<1>c. Len(C) = Count(R)
  BY <1>6
<1> HIDE DEF C, x, Place
<1>9. Contents(Q) = Append(C, x)
  BY <1>3, <1>6, <1>7, <1>8, <1>c
<1> QED BY <1>9 DEF C, x, Q

-----------------------------------------------------------------------------
(* Each answer is owed from when it is in the ring until it is taken.      *)
LEMMA TakeAnswers ==
    ASSUME Typed, Owing, RetuTake
    PROVE  /\ owedHead # owedTail /\ stRetuBagQueue \in Ring(OneAnswer) /\ stRetuBagQueue' \in Ring(OneAnswer)
           /\ owedHead' = NextEntry(owedHead) /\ owedTail' = owedTail /\ stRetuBagQueue'.slot = stRetuBagQueue.slot
           /\ sending'.at = "send" /\ sending'.entry = owedHead
           /\ "retu" \notin spoilt => /\ sending'.expected = Contents(stRetuBagQueue)[1]
                                      /\ owed' = Tail(Contents(stRetuBagQueue))
                                      /\ Contents(stRetuBagQueue') = Tail(Contents(stRetuBagQueue))
                                      /\ Contents(stRetuBagQueue)[1] = stRetuBagQueue.slot[owedHead]
                                      /\ owed # <<>>
           /\ "retu" \in spoilt => sending'.expected = <<0, "done">> /\ owed' = <<>>
           /\ spoilt' = spoilt /\ worker' = worker
<1> DEFINE R == stRetuBagQueue
           S == OneAnswer
<1>1. R \in Ring(S)
  BY PortalTypes DEF Typed, TypeRetu
<1>2. R.head # R.tail /\ stRetuBagQueue' = Dropped(R)
  BY DEF RetuTake
<1>3. "retu" \notin spoilt => Contents(R) = owed
  BY DEF Owing
<1>4. /\ sending' = [at |-> "send", entry |-> R.head,
                     expected |-> IF "retu" \in spoilt THEN <<0, "done">> ELSE Head(owed)]
      /\ owed' = IF "retu" \in spoilt THEN <<>> ELSE Tail(owed)
      /\ spoilt' = spoilt /\ worker' = worker
  BY DEF RetuTake
<1> HIDE DEF R, S
<1>5. /\ Dropped(R) \in Ring(S) /\ Dropped(R).head = NextEntry(R.head)
      /\ Dropped(R).tail = R.tail /\ Dropped(R).slot = R.slot
  BY <1>1, RingPuts
<1>6. /\ Contents(R) # <<>> /\ Contents(R)[1] = R.slot[R.head]
      /\ Contents(Dropped(R)) = Tail(Contents(R))
  BY <1>1, <1>2, Drops
<1>7. sending'.at = "send" /\ sending'.entry = R.head
      /\ sending'.expected = IF "retu" \in spoilt THEN <<0, "done">> ELSE Head(owed)
  BY <1>4
<1> QED BY <1>1, <1>2, <1>3, <1>4, <1>5, <1>6, <1>7 DEF R, S, owedHead, owedTail

LEMMA PutAnswers ==
    ASSUME Typed, NEW w \in Worker, Put(w)
    PROVE  /\ stRetuBagQueue \in Ring(OneAnswer) /\ stRetuBagQueue' \in Ring(OneAnswer)
           /\ owedHead' = owedHead /\ owedTail' = owedTail
           /\ stRetuBagQueue'.slot = [stRetuBagQueue.slot EXCEPT ![owedTail] = <<worker[w].bag, worker[w].out>>]
           /\ Contents(stRetuBagQueue') = Contents(stRetuBagQueue)
<1> DEFINE R == stRetuBagQueue
           S == OneAnswer
           x == <<worker[w].bag, worker[w].out>>
<1>1. R \in Ring(S) /\ x \in S
  BY PortalTypes, WorkerGet DEF Typed, TypeRetu, OneAnswer
<1>2. stRetuBagQueue' = Stored(R, x)
  BY DEF Put
<1> HIDE DEF R, S, x
<1>3. /\ Stored(R, x) \in Ring(S) /\ Stored(R, x).head = R.head /\ Stored(R, x).tail = R.tail
      /\ Stored(R, x).slot = [R.slot EXCEPT ![R.tail] = x]
  BY <1>1, RingStores
<1>4. Contents(Stored(R, x)) = Contents(R)
  BY <1>1, Stores
<1>5. /\ stRetuBagQueue' \in Ring(S) /\ owedHead' = R.head /\ owedTail' = R.tail
      /\ stRetuBagQueue'.slot = [R.slot EXCEPT ![R.tail] = x] /\ Contents(stRetuBagQueue') = Contents(R)
  BY <1>2, <1>3, <1>4 DEF owedHead, owedTail
<1> QED BY <1>1, <1>5, Zenon DEF R, S, x, owedHead, owedTail

LEMMA AdvanceAnswers ==
    ASSUME Typed, NEW w \in Worker, Advance(w)
    PROVE  /\ stRetuBagQueue \in Ring(OneAnswer) /\ stRetuBagQueue' \in Ring(OneAnswer)
           /\ owedHead' = owedHead /\ stRetuBagQueue'.slot = stRetuBagQueue.slot
           /\ ~Filled(stRetuBagQueue) =>
                 Contents(stRetuBagQueue') = Append(Contents(stRetuBagQueue), stRetuBagQueue.slot[owedTail])
<1>1. stRetuBagQueue \in Ring(OneAnswer) /\ stRetuBagQueue' = Advanced(stRetuBagQueue)
  BY PortalTypes DEF Typed, TypeRetu, Advance
<1> DEFINE R == stRetuBagQueue
           S == OneAnswer
<1> HIDE DEF R, S
<1>2. R \in Ring(S) /\ stRetuBagQueue' = Advanced(R)
  BY <1>1 DEF R, S
<1>3. Advanced(R) \in Ring(S) /\ Advanced(R).head = R.head /\ Advanced(R).slot = R.slot
  BY <1>2, RingPuts
<1>4. ~Filled(R) => Contents(Advanced(R)) = Append(Contents(R), R.slot[R.tail])
  BY <1>2, Advances
<1> QED BY <1>2, <1>3, <1>4 DEF R, S, owedHead, owedTail

LEMMA RetuType ==
    ASSUME Typed, Owing, [PortalNext]_portalVars
    PROVE  TypeRetu'
<1>0. OneAnswer' = OneAnswer /\ TypeRetu
  BY ScriptKept, PortalTypes DEF Typed, OneAnswer, Out
<1>1. CASE RetuTake
  <2>1. <<0, "done">> \in OneAnswer /\ owed \in Seq(OneAnswer) /\ owedHead \in Entry
    BY <1>0 DEF OneAnswer, Out, TypeRetu, Ring, owedHead
  <2>2. sending' = [at |-> "send", entry |-> owedHead,
                    expected |-> IF "retu" \in spoilt THEN <<0, "done">> ELSE Head(owed)]
        /\ owed' = IF "retu" \in spoilt THEN <<>> ELSE Tail(owed)
    BY <1>1 DEF RetuTake, owedHead
  <2>3. "retu" \notin spoilt => owed # <<>>
    BY <1>1, TakeAnswers
  <2> HIDE DEF OneAnswer
  <2>4. "retu" \notin spoilt => Head(owed) \in OneAnswer /\ Tail(owed) \in Seq(OneAnswer)
    BY <2>1, <2>3
  <2>5. sending' \in [at : {"wait", "send"}, entry : Entry, expected : OneAnswer] /\ owed' \in Seq(OneAnswer)
    BY <2>1, <2>2, <2>4
  <2> QED BY <1>0, <1>1, <2>5, TakeAnswers DEF TypeRetu, Ring
<1>2. CASE RetuSend
  <2>1. sending' = [sending EXCEPT !.at = "wait"] /\ UNCHANGED stRetuBagQueue /\ UNCHANGED owed
    BY <1>2 DEF RetuSend
  <2> HIDE DEF OneAnswer
  <2>2. sending' \in [at : {"wait", "send"}, entry : Entry, expected : OneAnswer]
    BY <1>0, <2>1 DEF TypeRetu
  <2> QED BY <1>0, <2>1, <2>2 DEF TypeRetu, Ring
<1>3. ASSUME NEW w \in Worker, Put(w) PROVE TypeRetu'
  <2>1. UNCHANGED sending /\ UNCHANGED owed
    BY <1>3 DEF Put
  <2> QED BY <1>0, <1>3, <2>1, PutAnswers DEF TypeRetu, Ring
<1>4. ASSUME NEW w \in Worker, Advance(w) PROVE TypeRetu'
  <2> DEFINE x == <<worker[w].bag, worker[w].out>>
  <2>1. UNCHANGED sending /\ owed' = IF "retu" \in spoilt THEN <<>> ELSE Append(owed, x)
    BY <1>4 DEF Advance
  <2>2. x \in OneAnswer
    BY WorkerGet, TypeParts DEF Typed, OneAnswer
  <2> HIDE DEF x, OneAnswer
  <2>3. owed' \in Seq(OneAnswer)
    BY <1>0, <2>1, <2>2 DEF TypeRetu
  <2> QED BY <1>0, <1>4, <2>1, <2>3, AdvanceAnswers DEF TypeRetu, Ring
<1>5. CASE UNCHANGED answers
  BY <1>0, <1>5 DEF TypeRetu, answers, Ring
<1> QED BY <1>1, <1>2, <1>3, <1>4, <1>5, AnswersFrame

LEMMA OwingKept ==
    ASSUME Typed, Owing, [PortalNext]_portalVars
    PROVE  Owing'
<1> SUFFICES ASSUME "retu" \notin spoilt'
             PROVE  Owing'
  BY DEF Owing
<1>0. Worker' = Worker
  BY ScriptKept DEF Typed
<1>1. CASE RetuTake
  <2>1. "retu" \notin spoilt /\ spoilt' = spoilt /\ worker' = worker
    BY <1>1, TakeAnswers
  <2>2. Contents(stRetuBagQueue') = owed'
    BY <1>1, <2>1, TakeAnswers
  <2>3. ~Filled(stRetuBagQueue) => ~Filled(stRetuBagQueue')
    <3>1. owedHead \in Entry /\ owedTail \in Entry /\ owedHead # owedTail
          /\ owedHead' = NextEntry(owedHead) /\ owedTail' = owedTail
      BY <1>1, TakeAnswers, RingPuts DEF owedHead, owedTail
    <3> HIDE DEF owedHead, owedTail
    <3>2. NextEntry(owedTail) # NextEntry(owedHead)
      BY <3>1, EntryNext
    <3> QED BY <3>1, <3>2 DEF Filled, owedHead, owedTail
  <2>4. stRetuBagQueue'.slot[sending'.entry] = sending'.expected /\ NextEntry(sending'.entry) = owedHead'
    BY <1>1, <2>1, TakeAnswers
  <2> QED BY <1>0, <1>1, <2>1, <2>2, <2>3, <2>4, TakeAnswers DEF Owing
<1>2. CASE RetuSend
  <2>1. /\ UNCHANGED stRetuBagQueue /\ UNCHANGED owed /\ UNCHANGED spoilt /\ UNCHANGED worker
        /\ sending' = [sending EXCEPT !.at = "wait"] /\ sending \in [at : {"wait", "send"}, entry : Entry, expected : OneAnswer]
    BY <1>2, PortalTypes DEF RetuSend, Typed, TypeRetu
  <2>2. sending'.at # "send"
    BY <2>1
  <2>3. Contents(stRetuBagQueue') = owed'
    BY <2>1 DEF Owing
  <2> QED BY <1>0, <2>1, <2>2, <2>3 DEF Owing, Filled, owedHead, owedTail
<1>3. ASSUME NEW w \in Worker, Put(w) PROVE Owing'
  <2>1. "retu" \notin spoilt /\ ~Filled(stRetuBagQueue) /\ \A v \in Worker \ {w} : worker[v].at # "tail"
    BY <1>3 DEF Put
  <2>2. UNCHANGED sending /\ UNCHANGED owed
    BY <1>3 DEF Put
  <2>3. Contents(stRetuBagQueue') = owed'
    BY <1>3, <2>1, <2>2, PutAnswers DEF Owing
  <2>4. \A v \in Worker : worker'[v].at = "tail" => v = w
    BY <1>3, <2>1, PutMoves DEF Turns
  <2>5. owedHead \in Entry /\ owedTail \in Entry /\ NextEntry(owedTail) # owedHead /\ stRetuBagQueue.slot \in [Entry -> OneAnswer]
    BY <1>3, <2>1, PutAnswers, RingPuts DEF Filled, owedHead, owedTail
  <2>6. stRetuBagQueue'.slot[owedTail'] = <<worker'[w].bag, worker'[w].out>> /\ ~Filled(stRetuBagQueue')
    <3>1. stRetuBagQueue'.slot[owedTail] = <<worker[w].bag, worker[w].out>>
      BY <1>3, <2>5, PutAnswers
    <3>2. NextEntry(owedTail') # owedHead'
      BY <1>3, <2>5, PutAnswers
    <3> QED BY <1>3, <3>1, <3>2, PutAnswers, PutMoves DEF Keeps, Filled, owedHead, owedTail
  <2>7. sending'.at = "send" => /\ stRetuBagQueue'.slot[sending'.entry] = sending'.expected
                                /\ NextEntry(sending'.entry) = owedHead'
    <3> HAVE sending'.at = "send"
    <3>1. stRetuBagQueue.slot[sending.entry] = sending.expected /\ NextEntry(sending.entry) = owedHead
      BY <2>1, <2>2 DEF Owing
    <3>2. sending.entry # owedTail /\ sending.entry \in Entry
      BY <2>5, <3>1, PortalTypes DEF Typed, TypeRetu
    <3> QED BY <1>3, <2>2, <2>5, <3>1, <3>2, PutAnswers
  <2> QED BY <1>0, <2>3, <2>4, <2>6, <2>7 DEF Owing
<1>4. ASSUME NEW w \in Worker, Advance(w) PROVE Owing'
  <2>1. "retu" \notin spoilt /\ UNCHANGED spoilt /\ UNCHANGED sending /\ worker[w].at = "tail"
        /\ owed' = Append(owed, <<worker[w].bag, worker[w].out>>)
    BY <1>4 DEF Advance
  <2>2. /\ Contents(stRetuBagQueue) = owed /\ ~Filled(stRetuBagQueue)
        /\ stRetuBagQueue.slot[owedTail] = <<worker[w].bag, worker[w].out>>
        /\ \A v \in Worker : worker[v].at = "tail" => v = w
        /\ sending.at = "send" => /\ stRetuBagQueue.slot[sending.entry] = sending.expected
                                  /\ NextEntry(sending.entry) = owedHead
    BY <2>1 DEF Owing
  <2>3. Contents(stRetuBagQueue') = owed'
    BY <1>4, <2>1, <2>2, AdvanceAnswers
  <2>4. \A v \in Worker : worker'[v].at # "tail"
    <3>1. worker'[w].at # "tail"
      BY <1>4, AdvanceMoves, Workers, Rests
    <3> QED BY <1>4, <2>2, <3>1, AdvanceMoves DEF Turns
  <2> QED BY <1>0, <1>4, <2>1, <2>2, <2>3, <2>4, AdvanceAnswers DEF Owing
<1>5. CASE /\ UNCHANGED answers /\ ("retu" \in spoilt' <=> "retu" \in spoilt)
           /\ \A w \in Worker : ~Put(w) /\ ~Advance(w)
  <2>1. \A w \in Worker : worker'[w].at = "tail" => worker'[w] = worker[w]
    BY <1>5, TailFrame
  <2>2. UNCHANGED stRetuBagQueue /\ UNCHANGED sending /\ UNCHANGED owed
    BY <1>5 DEF answers
  <2>3. Contents(stRetuBagQueue') = owed'
    BY <1>5, <2>2 DEF Owing
  <2> QED BY <1>0, <1>5, <2>1, <2>2, <2>3 DEF Owing, Filled, owedHead, owedTail
<1> QED BY <1>1, <1>2, <1>3, <1>4, <1>5, AnswersFrame

-----------------------------------------------------------------------------
(* Where the workers are, and what the global points to.                   *)
LEMMA GlobalKept ==
    ASSUME Typed, [PortalNext]_portalVars
    PROVE  /\ Global # 0 => Global' # 0
           /\ PollTake => Global' = stRecvBagQueue.slot[head] /\ Global' \in Bag
<1>0. stRecvBagQueue.slot \in [Entry -> Bag \cup {0}] /\ tail \in Entry /\ g_sBBMsgArrBag \in Entry
  BY TypeParts DEF Typed
<1>1. CASE UartBag
  <2>1. stRecvBagQueue'.slot = [stRecvBagQueue.slot EXCEPT ![tail] = came'] /\ g_sBBMsgArrBag' = g_sBBMsgArrBag
        /\ came' # 0
    BY <1>1, UartPuts DEF Bag
  <2>2. ~PollTake
    BY <1>1 DEF UartBag, PollTake, Typed, PortalTypeOK
  <2> QED BY <1>0, <2>1, <2>2 DEF Global
<1>2. CASE PollTake
  BY <1>2, PollTakes, TakeMoves DEF Global, Bag
<1>3. CASE UNCHANGED bags /\ ~PollTake
  BY <1>3 DEF bags, Global
<1> QED BY <1>1, <1>2, <1>3, BagsFrame

LEMMA SlotsKept ==
    ASSUME Typed, [PortalNext]_portalVars, NEW n \in Entry, stRecvBagQueue'.slot[n] = 0
    PROVE  head' <= tail' /\ tail' <= n
<1>0. stRecvBagQueue.slot \in [Entry -> Bag \cup {0}] /\ tail \in Entry /\ head \in Entry
  BY TypeParts DEF Typed
<1>1. stRecvBagQueue.slot[n] = 0 => head <= tail /\ tail <= n
  BY DEF Typed, Seats
<1>2. CASE UartBag
  <2>1. stRecvBagQueue'.slot = [stRecvBagQueue.slot EXCEPT ![tail] = came'] /\ head' = head /\ tail' = NextEntry(tail)
        /\ came' # 0
    BY <1>2, UartPuts DEF Bag
  <2>2. n # tail /\ stRecvBagQueue.slot[n] = 0
    BY <1>0, <2>1
  <2>3. n \in Int /\ n < MAX_BAG_NUM /\ tail \in Int /\ head \in Int
        /\ NextEntry(tail) = IF tail + 1 = MAX_BAG_NUM THEN 0 ELSE tail + 1
    BY <1>0, EntryNext
  <2> QED BY <1>1, <2>1, <2>2, <2>3, PortalAssumption
<1>3. CASE PollTake
  <2>1. head' = NextEntry(head) /\ tail' = tail /\ head # tail /\ stRecvBagQueue'.slot = stRecvBagQueue.slot
    BY <1>3, PollTakes
  <2> QED BY <1>0, <1>1, <2>1, EntryNext
<1>4. CASE UNCHANGED bags
  BY <1>1, <1>4 DEF bags, head, tail
<1> QED BY <1>2, <1>3, <1>4, BagsFrame

LEMMA SeatedSame ==
    ASSUME Typed, [PortalNext]_portalVars, NEW w \in Worker, worker'[w] = worker[w]
    PROVE  Seated(w)'
<1>1. Seated(w) /\ Bag' = Bag
  BY ScriptKept DEF Typed, Seats
<1> QED BY <1>1, GlobalKept DEF Seated, Poll, Cutter

(* A bag's thread that was at work is at work still, or rests.             *)
LEMMA SeatedBag ==
    ASSUME Typed, [PortalNext]_portalVars, NEW t \in Bag, worker[t].at # "none",
           worker'[t].at # "decide", worker'[t].out # "busy",
           worker'[t].at \notin {"none", "sleep"} => worker'[t].bag # 0
    PROVE  Seated(t)'
<1>1. Seated(t) /\ Bag' = Bag /\ t \in Worker /\ t # Poll /\ t # Cutter
  BY ScriptKept, Workers DEF Typed, Seats, Cutter, Poll
<1> QED BY <1>1, GlobalKept DEF Seated, Poll, Cutter

LEMMA SeatedCutter ==
    ASSUME Typed, worker'[Cutter].at \in {"none", "put", "tail", "open", "list", "perform"},
           worker'[Cutter].out \notin {"part", "busy"},
           worker'[Cutter].at # "none" => worker'[Cutter].bag # 0,
           [PortalNext]_portalVars
    PROVE  Seated(Cutter)'
<1>1. Bag' = Bag /\ Cutter \notin Bag /\ Cutter # Poll
  BY ScriptKept, Workers DEF Typed, Bag, Cutter
<1> QED BY <1>1 DEF Seated, Poll, Cutter

LEMMA SeatedPoll ==
    ASSUME Typed, worker'[Poll].at \in {"none", "decide", "put", "tail"},
           worker'[Poll].at \in {"put", "tail"} => worker'[Poll].out = "busy",
           worker'[Poll].at # "none" => worker'[Poll].bag # 0 /\ Global' # 0,
           [PortalNext]_portalVars
    PROVE  Seated(Poll)'
<1>1. Bag' = Bag /\ Poll \notin Bag /\ Cutter # Poll
  BY ScriptKept, Workers DEF Typed, Bag, Poll
<1> QED BY <1>1 DEF Seated, Poll, Cutter

LEMMA SeatsKept ==
    ASSUME Typed, [PortalNext]_portalVars
    PROVE  Seats'
<1>0. Bag' = Bag /\ Worker' = Worker
  BY ScriptKept DEF Typed
<1>z. 0 \notin Bag /\ \A w \in Worker : Seated(w)
  BY DEF Bag, Typed, Seats
<1>a. SUFFICES ASSUME NEW w \in Worker PROVE Seated(w)'
  BY <1>0, SlotsKept DEF Seats, Entry
<1>b. SUFFICES ASSUME worker'[w] # worker[w] PROVE Seated(w)'
  BY SeatedSame
<1>1. UNCHANGED portalVars \/ UartBag \/ RetuTake \/ RetuSend => worker' = worker
  BY DEF portalVars, UartBag, RetuTake, RetuSend
<1>2. CASE PollTake
  <2>1. w = Poll
    BY <1>b, <1>2, TakeMoves DEF Turns
  <2> QED BY <1>2, <1>z, <2>1, TakeMoves, GlobalKept, SeatedPoll DEF Turns
<1>3. CASE PollStart
  <2>1. w = Poll \/ w = worker[Poll].bag
    BY <1>b, <1>3, StartMoves
  <2>2. worker[Poll].bag \in Bag /\ worker[worker[Poll].bag].out # "busy" /\ Global # 0
    BY <1>3, <1>z, StartMoves, Workers DEF Seated
  <2>3. Seated(Poll)'
    BY <1>3, StartMoves, SeatedPoll
  <2>4. w \in Bag /\ w = worker[Poll].bag => Seated(w)'
    <3>1. Poll \notin Bag /\ Cutter \notin Bag
      BY DEF Poll, Cutter, Bag
    <3> QED BY <1>0, <1>3, <2>2, <3>1, StartMoves, GlobalKept DEF Seated, Poll, Cutter
  <2> QED BY <2>1, <2>2, <2>3, <2>4
<1>4. CASE PollBusy
  <2>1. w = Poll /\ worker[Poll].bag # 0 /\ Global # 0
    BY <1>b, <1>4, <1>z, BusyMoves, Workers DEF Turns, Seated
  <2> QED BY <1>4, <2>1, BusyMoves, GlobalKept, SeatedPoll DEF Turns
<1>5. CASE CutFinished
  <2>1. w = Cutter
    BY <1>b, <1>5, CutMoves DEF Turns
  <2> QED BY <1>5, <1>z, <2>1, CutMoves, SeatedCutter DEF Turns
<1>6. ASSUME NEW v \in Worker, Put(v)
      PROVE  Seated(w)'
  <2>1. w = v /\ worker[v].at = "put" /\ worker'[v].at = "tail" /\ worker'[v].out = worker[v].out
        /\ worker'[v].bag = worker[v].bag
    BY <1>b, <1>6, PutMoves DEF Turns, Keeps
  <2>2. Seated(v) /\ worker[v].bag # 0 /\ (v # Cutter => Global # 0)
    BY <1>z, <2>1 DEF Seated
  <2> QED BY <2>1, <2>2, GlobalKept, SeatedPoll, SeatedCutter, SeatedBag, Workers DEF Seated
<1>7. ASSUME NEW v \in Worker, Advance(v)
      PROVE  Seated(w)'
  <2>1. w = v /\ worker[v].at = "tail"
    BY <1>b, <1>7, AdvanceMoves DEF Turns
  <2>2. Seated(v) /\ worker[v].bag # 0 /\ (v # Cutter => Global # 0)
    BY <1>z, <2>1 DEF Seated
  <2>3. CASE v = Poll
    <3>1. worker'[Poll].at = "none"
      BY <1>7, <2>3, AdvanceMoves, Rests
    <3> QED BY <2>1, <2>3, <3>1, SeatedPoll
  <2>4. CASE v = Cutter
    <3>1. Resting.at = "none" /\ Resting.out = "done"
      BY DEF Resting
    <3> QED BY <1>7, <2>1, <2>2, <2>4, <3>1, AdvanceMoves, SeatedCutter DEF Seated
  <2>5. CASE v \in Bag
    BY <1>7, <2>1, <2>2, <2>5, AdvanceMoves, SeatedBag DEF Seated
  <2> QED BY <2>3, <2>4, <2>5, Workers
<1>8. ASSUME NEW v \in Worker, UploadOpen(v) \/ UploadList(v) \/ UploadProgress(v) \/ UploadEnd(v)
      PROVE  Seated(w)'
  <2>1. w = v /\ worker[v].at \in {"open", "list", "perform"} /\ worker'[v].at \in {"list", "perform", "put"}
        /\ worker'[v].bag = worker[v].bag /\ worker'[v].out \in {worker[v].out, "progress", "done"}
    BY <1>b, <1>8, OpenMoves, ListMoves, ProgressMoves, EndMoves DEF Turns, Keeps
  <2>2. Seated(v) /\ worker[v].bag # 0
    BY <1>z, <2>1 DEF Seated
  <2>3. v # Poll
    BY <2>1, <2>2 DEF Seated
  <2> QED BY <2>1, <2>2, <2>3, SeatedCutter, SeatedBag, Workers DEF Seated
<1>9. ASSUME NEW t \in Bag, Wake(t) \/ Handle(t) \/ RealtimeAnswer(t) \/ Idles(t) \/ Ends(t) \/ Again(t)
      PROVE  Seated(w)'
  <2>1. w = t /\ worker[t].at # "none" /\ worker'[t].at # "decide"
    BY <1>b, <1>9, WakeMoves, HandleMoves, AnswerMoves, IdleMoves, EndsMoves, AgainMoves DEF Turns
  <2>2. Seated(t) /\ (worker[t].at # "sleep" => worker[t].bag # 0) /\ worker[t].out # "busy"
    BY <1>z, <2>1, Workers DEF Seated
  <2>3. worker'[t].out # "busy"
    BY <1>9, <2>2, WakeMoves, HandleMoves, AnswerMoves, IdleMoves, EndsMoves, AgainMoves DEF Resting
  <2>4. worker'[t].at \notin {"none", "sleep"} => worker'[t].bag # 0
    BY <1>9, <1>z, <2>2, WakeMoves, HandleMoves, AnswerMoves, IdleMoves, EndsMoves, AgainMoves DEF Keeps, Turns
  <2> QED BY <2>1, <2>3, <2>4, SeatedBag
<1> QED BY <1>b, <1>1, <1>2, <1>3, <1>4, <1>5, <1>6, <1>7, <1>8, <1>9, Steps DEF Moving

LEMMA TypedKept ==
    ASSUME Typed, Owing, [PortalNext]_portalVars
    PROVE  Typed' /\ Owing'
<1>1. portal' \in PortalScript
  BY ScriptKept DEF Typed
<1>2. WorkerState' = WorkerState /\ Worker' = Worker
  BY ScriptKept DEF Typed, WorkerState, At, Out
<1>3. (portal \in PortalScript /\ worker \in [Worker -> WorkerState] /\ TypeRest /\ TypeRecv /\ TypeRetu)'
  BY <1>1, <1>2, WorkerType, RestType, RecvType, RetuType
<1>4. PortalTypeOK'
  BY <1>3 DEF PortalTypeOK, TypeRest, TypeRecv, TypeRetu, WorkerState, At, OneAnswer
<1> QED BY <1>4, SeatsKept, OwingKept DEF Typed

-----------------------------------------------------------------------------
(* What is in the ring of bags has not been taken.                         *)
InRing(n) == IF head <= tail THEN head <= n /\ n < tail ELSE n >= head \/ n < tail

(* No bag is twice in the ring, none that is in it was taken, and the      *)
(* global points at the slot before the head.                              *)
UnspentRing ==
    /\ taken \subseteq 1..came
    /\ \A n \in Entry : stRecvBagQueue.slot[n] <= came
    /\ \A n \in Entry : InRing(n) => stRecvBagQueue.slot[n] \notin taken
    /\ \A m, n \in Entry : InRing(m) /\ InRing(n) /\ m # n => stRecvBagQueue.slot[m] # stRecvBagQueue.slot[n]
    /\ taken # {} => NextEntry(g_sBBMsgArrBag) = head

(* Who has a thread was taken; who is decided on has none yet.             *)
UnspentWho ==
    /\ \A t \in Bag : worker[t].at # "none" => t \in taken
    /\ worker[Poll].at = "decide" => worker[Poll].bag \in taken /\ worker[worker[Poll].bag].at = "none"

Unspent == UnspentRing /\ UnspentWho

LEMMA RingMoves ==
    ASSUME Typed, NEW n \in Entry
    PROVE  /\ head' = head /\ tail' = NextEntry(tail) => (InRing(n)' => InRing(n) \/ n = tail)
           /\ head # tail => InRing(head)
           /\ head # tail /\ head' = NextEntry(head) /\ tail' = tail => (InRing(n)' => InRing(n) /\ n # head)
<1>1. /\ n \in Int /\ 0 <= n /\ n < MAX_BAG_NUM /\ tail \in Int /\ head \in Int
      /\ 0 <= tail /\ tail < MAX_BAG_NUM /\ 0 <= head /\ head < MAX_BAG_NUM
      /\ NextEntry(tail) = IF tail + 1 = MAX_BAG_NUM THEN 0 ELSE tail + 1
      /\ NextEntry(head) = IF head + 1 = MAX_BAG_NUM THEN 0 ELSE head + 1
  BY TypeParts, EntryNext DEF Typed
<1>2. MAX_BAG_NUM \in Int
  BY PortalAssumption
<1> HIDE DEF head, tail
<1>3. head' = head /\ tail' = NextEntry(tail) => (InRing(n)' => InRing(n) \/ n = tail)
  BY <1>1, <1>2 DEF InRing
<1>4. head # tail => InRing(head)
  BY <1>1, <1>2 DEF InRing
<1>5. head # tail /\ head' = NextEntry(head) /\ tail' = tail => (InRing(n)' => InRing(n) /\ n # head)
  BY <1>1, <1>2 DEF InRing
<1> QED BY <1>3, <1>4, <1>5

LEMMA UnspentRingKept ==
    ASSUME Typed, Unspent, [PortalNext]_portalVars
    PROVE  UnspentRing'
<1>0. /\ stRecvBagQueue.slot \in [Entry -> Bag \cup {0}] /\ tail \in Entry /\ head \in Entry
      /\ came \in Nat /\ Bag \subseteq Nat /\ UnspentRing /\ g_sBBMsgArrBag \in Entry
  BY TypeParts DEF Typed, Bag, Unspent
<1>e. Entry' = Entry
  BY DEF Entry
<1>1. CASE UartBag
  <2>1. /\ stRecvBagQueue'.slot = [stRecvBagQueue.slot EXCEPT ![tail] = came'] /\ head' = head
        /\ tail' = NextEntry(tail) /\ came' = came + 1 /\ g_sBBMsgArrBag' = g_sBBMsgArrBag /\ taken' = taken
    BY <1>1, UartPuts
  <2>2. \A n \in Entry : InRing(n)' => InRing(n) \/ n = tail
    BY <2>1, RingMoves
  <2>3. /\ taken \subseteq 1..came
        /\ \A n \in Entry : stRecvBagQueue.slot[n] <= came /\ stRecvBagQueue.slot[n] \in Nat
        /\ \A n \in Entry : InRing(n) => stRecvBagQueue.slot[n] \notin taken
        /\ \A m, n \in Entry : InRing(m) /\ InRing(n) /\ m # n => stRecvBagQueue.slot[m] # stRecvBagQueue.slot[n]
        /\ taken # {} => NextEntry(g_sBBMsgArrBag) = head
    <3>1. ASSUME NEW n \in Entry PROVE stRecvBagQueue.slot[n] \in Nat
      <4>1. stRecvBagQueue.slot[n] \in Bag \cup {0}
        BY <1>0
      <4>2. \A x \in Bag : x \in Nat
        BY DEF Bag
      <4> QED BY <4>1, <4>2
    <3> QED BY <1>0, <3>1, Zenon DEF UnspentRing
  <2>4. /\ stRecvBagQueue'.slot[tail] = came + 1
        /\ \A n \in Entry : n # tail => stRecvBagQueue'.slot[n] = stRecvBagQueue.slot[n]
    BY <1>0, <2>1
  <2>5. taken' \subseteq 1..came' /\ came + 1 \notin taken
    BY <1>0, <2>1, <2>3
  <2>6. \A n \in Entry : stRecvBagQueue'.slot[n] <= came' /\ (n # tail => stRecvBagQueue'.slot[n] # came + 1)
    BY <1>0, <2>1, <2>3, <2>4
  <2>7. \A n \in Entry : InRing(n)' => stRecvBagQueue'.slot[n] \notin taken'
    BY <2>1, <2>2, <2>3, <2>4, <2>5
  <2>8. \A m, n \in Entry : InRing(m)' /\ InRing(n)' /\ m # n => stRecvBagQueue'.slot[m] # stRecvBagQueue'.slot[n]
    BY <2>2, <2>3, <2>4, <2>6
  <2> QED BY <1>e, <2>1, <2>3, <2>5, <2>6, <2>7, <2>8 DEF UnspentRing, NextEntry
<1>2. CASE PollTake
  <2>1. /\ stRecvBagQueue'.slot = stRecvBagQueue.slot /\ head' = NextEntry(head) /\ head # tail
        /\ tail' = tail /\ came' = came /\ g_sBBMsgArrBag' = head /\ taken' = taken \cup {stRecvBagQueue.slot[head]}
        /\ stRecvBagQueue.slot[head] \in Bag
    BY <1>2, PollTakes, TakeMoves
  <2>2. \A n \in Entry : InRing(n)' => InRing(n) /\ n # head
    BY <2>1, RingMoves
  <2>3. InRing(head)
    BY <1>0, <2>1, RingMoves
  <2>4. stRecvBagQueue.slot[head] \in 1..came
    <3>1. stRecvBagQueue.slot[head] <= came
      BY <1>0 DEF UnspentRing
    <3> QED BY <1>0, <2>1, <3>1 DEF Bag
  <2>5. taken' \subseteq 1..came'
    BY <1>0, <2>1, <2>4 DEF UnspentRing
  <2>6. \A n \in Entry : InRing(n)' => stRecvBagQueue'.slot[n] \notin taken'
    BY <1>0, <2>1, <2>2, <2>3 DEF UnspentRing
  <2>7. \A m, n \in Entry : InRing(m)' /\ InRing(n)' /\ m # n => stRecvBagQueue'.slot[m] # stRecvBagQueue'.slot[n]
    BY <1>0, <2>1, <2>2 DEF UnspentRing
  <2>8. NextEntry(g_sBBMsgArrBag)' = head'
    BY <2>1 DEF NextEntry
  <2>9. \A n \in Entry : stRecvBagQueue'.slot[n] <= came'
    BY <1>0, <2>1 DEF UnspentRing
  <2> QED BY <1>e, <2>5, <2>6, <2>7, <2>8, <2>9 DEF UnspentRing
<1>3. CASE UNCHANGED bags
  BY <1>0, <1>3, <1>e DEF UnspentRing, bags, InRing, head, tail, NextEntry
<1> QED BY <1>1, <1>2, <1>3, BagsFrame

(* Nobody moves the thread of a bag but itself, and who starts it.         *)
LEMMA BagMover ==
    ASSUME Typed, [PortalNext]_portalVars, NEW t \in Bag, worker'[t] # worker[t]
    PROVE  \/ PollStart /\ t = worker[Poll].bag
           \/ Put(t) \/ Advance(t) \/ UploadOpen(t) \/ UploadList(t) \/ UploadProgress(t) \/ UploadEnd(t)
           \/ Wake(t) \/ Handle(t) \/ RealtimeAnswer(t) \/ Idles(t) \/ Ends(t) \/ Again(t)
<1>0. t \in Worker /\ t # Cutter /\ t # Poll
  BY Workers DEF Cutter, Poll
<1>1. UNCHANGED portalVars \/ UartBag \/ RetuTake \/ RetuSend => worker' = worker
  BY DEF portalVars, UartBag, RetuTake, RetuSend
<1>2. PollTake \/ PollBusy \/ CutFinished => worker'[t] = worker[t]
  BY <1>0, TakeMoves, BusyMoves, CutMoves DEF Turns
<1>3. PollStart => worker'[t] = worker[t] \/ t = worker[Poll].bag
  BY <1>0, StartMoves
<1>4. ASSUME NEW v \in Worker, v # t,
             Put(v) \/ Advance(v) \/ UploadOpen(v) \/ UploadList(v) \/ UploadProgress(v) \/ UploadEnd(v)
      PROVE  worker'[t] = worker[t]
  BY <1>0, <1>4, PutMoves, AdvanceMoves, OpenMoves, ListMoves, ProgressMoves, EndMoves DEF Turns
<1>5. ASSUME NEW v \in Bag, v # t,
             Wake(v) \/ Handle(v) \/ RealtimeAnswer(v) \/ Idles(v) \/ Ends(v) \/ Again(v)
      PROVE  worker'[t] = worker[t]
  BY <1>0, <1>5, WakeMoves, HandleMoves, AnswerMoves, IdleMoves, EndsMoves, AgainMoves DEF Turns
<1> QED BY <1>1, <1>2, <1>3, <1>4, <1>5, Steps DEF Moving

LEMMA NoneKept ==
    ASSUME Typed, [PortalNext]_portalVars, NEW t \in Bag, worker[t].at = "none", worker'[t].at # "none"
    PROVE  PollStart /\ t = worker[Poll].bag
<1>1. ~Put(t) /\ ~Advance(t) /\ ~UploadOpen(t) /\ ~UploadList(t) /\ ~UploadProgress(t) /\ ~UploadEnd(t)
  BY DEF Put, Advance, UploadOpen, UploadList, UploadProgress, UploadEnd
<1>2. ~Wake(t) /\ ~Handle(t) /\ ~RealtimeAnswer(t) /\ ~Idles(t) /\ ~Ends(t) /\ ~Again(t)
  BY HandleFrame DEF Wake, Wakes, RealtimeAnswer, Idles, Ends, Again
<1> QED BY <1>1, <1>2, BagMover

LEMMA PollMover ==
    ASSUME Typed, [PortalNext]_portalVars, worker'[Poll] # worker[Poll]
    PROVE  PollTake \/ PollStart \/ PollBusy \/ Put(Poll) \/ Advance(Poll)
<1>0. Poll \in Worker /\ Poll # Cutter /\ Poll \notin Bag
  BY Workers DEF Poll, Bag
<1>1. UNCHANGED portalVars \/ UartBag \/ RetuTake \/ RetuSend => worker' = worker
  BY DEF portalVars, UartBag, RetuTake, RetuSend
<1>2. CutFinished => worker'[Poll] = worker[Poll]
  BY <1>0, CutMoves DEF Turns
<1>3. ASSUME NEW v \in Worker, v # Poll, Put(v) \/ Advance(v)
      PROVE  worker'[Poll] = worker[Poll]
  BY <1>0, <1>3, PutMoves, AdvanceMoves DEF Turns
<1>4. ASSUME NEW v \in Worker, UploadOpen(v) \/ UploadList(v) \/ UploadProgress(v) \/ UploadEnd(v)
      PROVE  worker'[Poll] = worker[Poll]
  <2>1. v # Poll
    BY <1>4, OpenMoves, ListMoves, ProgressMoves, EndMoves DEF Turns, Typed, Seats, Seated
  <2> QED BY <1>0, <1>4, <2>1, OpenMoves, ListMoves, ProgressMoves, EndMoves DEF Turns
<1>5. ASSUME NEW v \in Bag, Wake(v) \/ Handle(v) \/ RealtimeAnswer(v) \/ Idles(v) \/ Ends(v) \/ Again(v)
      PROVE  worker'[Poll] = worker[Poll]
  BY <1>0, <1>5, WakeMoves, HandleMoves, AnswerMoves, IdleMoves, EndsMoves, AgainMoves DEF Turns
<1> QED BY <1>1, <1>2, <1>3, <1>4, <1>5, Steps DEF Moving

LEMMA DecideKept ==
    ASSUME Typed, [PortalNext]_portalVars, ~PollTake
    PROVE  /\ worker'[Poll].at = "decide" => worker'[Poll] = worker[Poll] /\ ~PollStart
           /\ worker[Poll].at = "decide" => worker'[Poll] = worker[Poll] \/ PollStart \/ PollBusy
<1>1. PollStart \/ PollBusy \/ Put(Poll) \/ Advance(Poll) => worker'[Poll].at # "decide"
  BY StartMoves, BusyMoves, PutMoves, AdvanceMoves, Rests, Workers DEF Turns
<1>2. Put(Poll) \/ Advance(Poll) => worker[Poll].at # "decide"
  BY DEF Put, Advance
<1> QED BY <1>1, <1>2, PollMover

LEMMA UnspentKept ==
    ASSUME Typed, Unspent, [PortalNext]_portalVars
    PROVE  Unspent'
<1>0. Bag' = Bag
  BY ScriptKept DEF Typed
<1>1. taken \subseteq taken'
  <2>1. UNCHANGED bags => taken' = taken
    BY DEF bags
  <2> QED BY <2>1, BagsFrame, UartPuts, PollTakes
<1>2. ASSUME NEW t \in Bag, worker'[t].at # "none" PROVE t \in taken'
  <2>1. CASE worker[t].at # "none"
    BY <1>1, <2>1 DEF Unspent, UnspentWho
  <2>2. CASE worker[t].at = "none"
    BY <1>1, <1>2, <2>2, NoneKept, StartMoves DEF Unspent, UnspentWho
  <2> QED BY <2>1, <2>2
<1>3. ASSUME worker'[Poll].at = "decide" PROVE worker'[Poll].bag \in taken' /\ worker'[worker'[Poll].bag].at = "none"
  <2>1. CASE PollTake
    <3> DEFINE b == stRecvBagQueue.slot[head]
    <3>1. worker'[Poll].bag = b /\ b \in Bag /\ b \in taken' /\ head # tail /\ head \in Entry
      BY <2>1, TakeMoves, PollTakes, TypeParts DEF Typed
    <3>2. b \notin taken
      BY <3>1, RingMoves DEF Unspent, UnspentRing
    <3>3. worker[b].at = "none" /\ worker'[b] = worker[b]
      BY <2>1, <3>1, <3>2, TakeMoves, Workers DEF Unspent, UnspentWho, Turns, Poll
    <3> QED BY <3>1, <3>3
  <2>2. CASE ~PollTake
    <3>1. worker'[Poll] = worker[Poll] /\ ~PollStart
      BY <1>3, <2>2, DecideKept
    <3>2. worker[Poll].bag \in taken /\ worker[worker[Poll].bag].at = "none" /\ taken \subseteq Bag
      BY <1>3, <3>1, TypeParts DEF Unspent, UnspentWho, Typed
    <3> QED BY <1>1, <3>1, <3>2, NoneKept
  <2> QED BY <2>1, <2>2
<1> QED BY <1>0, <1>2, <1>3, UnspentRingKept DEF Unspent, UnspentWho, Poll

-----------------------------------------------------------------------------
(* The state of the analysis.                                              *)
(* Who is past the point where an upload sets the state back.              *)
Doors ==
    \A t \in Bag : /\ worker[t].out = "progress" /\ worker[t].at \in {"put", "tail"} => worker[t].door
                   /\ worker[t].at \in {"list", "perform"} => worker[t].door
                   /\ worker[t].at = "handle" => worker[t].out # "progress"

(* Without a race nobody finds the state busy when it looks at it, there   *)
(* is one sleeper, and the state is that of the command in the middle.     *)
BusyIs ==
    /\ BusyHeld
    /\ Doors
    /\ ~hurried =>
          /\ \A t \in Bag : worker[t].at = "check" => g_esBuBaioProcState = "STATE_USER_IDLE"
          /\ \A s, t \in Bag : worker[s].at = "sleep" /\ worker[t].at = "sleep" => s = t
          /\ \A t \in Bag : worker[t].at = "sleep" => worker[Poll].at # "decide"
    /\ ~hurried /\ ~opened =>
          \A t \in Bag : /\ Middle(t) => g_esBuBaioProcState = "STATE_USER_BUSY"
                         /\ worker[t].at = "sleep" => g_esBuBaioProcState = "STATE_USER_IDLE"

LEMMA DoorsKept ==
    ASSUME Typed, Doors, [PortalNext]_portalVars
    PROVE  Doors'
<1>0. Bag' = Bag
  BY ScriptKept DEF Typed
<1> SUFFICES ASSUME NEW t \in Bag
             PROVE  /\ worker'[t].out = "progress" /\ worker'[t].at \in {"put", "tail"} => worker'[t].door
                    /\ worker'[t].at \in {"list", "perform"} => worker'[t].door
                    /\ worker'[t].at = "handle" => worker'[t].out # "progress"
  BY <1>0 DEF Doors
<1>1. /\ worker[t].out = "progress" /\ worker[t].at \in {"put", "tail"} => worker[t].door
      /\ worker[t].at \in {"list", "perform"} => worker[t].door
      /\ worker[t].at = "handle" => worker[t].out # "progress"
      /\ t \in Worker
  BY Workers DEF Doors
<1>2. CASE worker'[t] = worker[t]
  BY <1>1, <1>2
<1>3. CASE PollStart /\ t = worker[Poll].bag
  BY <1>3, StartMoves
<1>4. CASE Put(t) \/ UploadOpen(t) \/ UploadList(t) \/ UploadProgress(t) \/ UploadEnd(t)
  BY <1>1, <1>4, PutMoves, OpenMoves, ListMoves, ProgressMoves, EndMoves DEF Turns, Keeps
<1>5. CASE Advance(t)
  BY <1>1, <1>5, AdvanceMoves DEF Turns
<1>6. CASE Handle(t)
  <2>1. worker'[t].at \in {"answer", "put", "idle"} /\ worker'[t].door = worker[t].door
        /\ worker'[t].out \in {"done", "part", "started", worker[t].out}
    BY <1>6, HandleMoves DEF Turns
  <2>2. worker'[t].out # "progress"
    BY <1>1, <1>6, <2>1, HandleFrame
  <2> QED BY <2>1, <2>2
<1>7. CASE Wake(t) \/ RealtimeAnswer(t) \/ Idles(t) \/ Ends(t) \/ Again(t)
  BY <1>7, WakeMoves, AnswerMoves, IdleMoves, EndsMoves, AgainMoves DEF Turns
<1> QED BY <1>2, <1>3, <1>4, <1>5, <1>6, <1>7, BagMover

(* A thread comes into the middle of a command when it wakes, and leaves   *)
(* it when it sets the state back.                                         *)
LEMMA MiddleNew ==
    ASSUME Typed, Doors, [PortalNext]_portalVars, NEW t \in Bag, Middle(t)', ~Middle(t)
    PROVE  Wake(t)
<1>1. /\ worker'[t].at \in {"handle", "answer", "put", "tail", "open", "idle"} /\ ~worker'[t].door
      /\ worker[t].at \in {"handle", "answer", "put", "tail", "open", "idle"} => worker[t].door
      /\ worker[t].at \in {"list", "perform"} => worker[t].door
      /\ t \in Worker
  BY Workers DEF Middle, Doors
<1>2. worker'[t] # worker[t]
  BY <1>1
<1>3. ~(PollStart /\ t = worker[Poll].bag)
  BY <1>1, StartMoves
<1>4. ~Put(t) /\ ~UploadOpen(t) /\ ~UploadList(t) /\ ~UploadProgress(t) /\ ~UploadEnd(t)
  BY <1>1, PutMoves, OpenMoves, ListMoves, ProgressMoves, EndMoves DEF Turns, Keeps
<1>5. ~Advance(t)
  BY <1>1, AdvanceMoves DEF Turns
<1>6. ~Handle(t) /\ ~RealtimeAnswer(t) /\ ~Idles(t) /\ ~Ends(t) /\ ~Again(t)
  BY <1>1, HandleMoves, AnswerMoves, IdleMoves, EndsMoves, AgainMoves DEF Turns, Keeps
<1> QED BY <1>2, <1>3, <1>4, <1>5, <1>6, BagMover

LEMMA MiddleLost ==
    ASSUME Typed, Unspent, Doors, [PortalNext]_portalVars, NEW t \in Bag, Middle(t), ~Middle(t)'
    PROVE  Idles(t) \/ UploadOpen(t)
<1>1. /\ worker[t].at \in {"handle", "answer", "put", "tail", "open", "idle"} /\ ~worker[t].door
      /\ worker'[t].at \in {"handle", "answer", "put", "tail", "open", "idle"} => worker'[t].door
      /\ worker[t].out = "progress" /\ worker[t].at \in {"put", "tail"} => worker[t].door
      /\ t \in Worker
  BY Workers DEF Middle, Doors
<1>2. worker'[t] # worker[t]
  BY <1>1
<1>3. ~(PollStart /\ t = worker[Poll].bag)
  BY <1>1, StartMoves DEF Unspent, UnspentWho
<1>4. ~Put(t) /\ ~UploadList(t) /\ ~UploadProgress(t) /\ ~UploadEnd(t)
  BY <1>1, PutMoves, ListMoves, ProgressMoves, EndMoves DEF Turns, Keeps
<1>5. ~Advance(t)
  BY <1>1, AdvanceMoves DEF Turns
<1>6. ~Wake(t) /\ ~Handle(t) /\ ~RealtimeAnswer(t) /\ ~Ends(t) /\ ~Again(t)
  BY <1>1, WakeMoves, HandleMoves, AnswerMoves, EndsMoves, AgainMoves DEF Turns, Keeps
<1> QED BY <1>2, <1>3, <1>4, <1>5, <1>6, BagMover

LEMMA StateFrame ==
    ASSUME [PortalNext]_portalVars
    PROVE  /\ \/ UNCHANGED g_esBuBaioProcState /\ UNCHANGED opened
              \/ \E t \in Bag : Wake(t) \/ Idles(t)
              \/ \E w \in Worker : UploadOpen(w)
           /\ UNCHANGED hurried \/ PollTake \/ \E t \in Bag : Wake(t)
           /\ \A t \in Bag : Wake(t) => g_esBuBaioProcState' = "STATE_USER_BUSY" /\ UNCHANGED opened
           /\ (hurried => hurried') /\ (opened => opened')
<1>1. UNCHANGED portalVars \/ UartBag \/ RetuTake \/ RetuSend \/ PollStart \/ PollBusy \/ CutFinished
      => UNCHANGED g_esBuBaioProcState /\ UNCHANGED opened /\ UNCHANGED hurried
  BY DEF portalVars, UartBag, RetuTake, RetuSend, PollStart, PollBusy, CutFinished
<1>7. PollTake => UNCHANGED g_esBuBaioProcState /\ UNCHANGED opened /\ (hurried => hurried')
  BY DEF PollTake
<1>2. ASSUME NEW w \in Worker, Put(w) \/ Advance(w) \/ UploadList(w) \/ UploadProgress(w) \/ UploadEnd(w)
      PROVE  UNCHANGED g_esBuBaioProcState /\ UNCHANGED opened /\ UNCHANGED hurried
  BY <1>2 DEF Put, Advance, UploadList, UploadProgress, UploadEnd
<1>3. ASSUME NEW w \in Worker, UploadOpen(w)
      PROVE  UNCHANGED hurried /\ (opened => opened')
  BY <1>3 DEF UploadOpen, SetIdle
<1>4. ASSUME NEW t \in Bag, RealtimeAnswer(t) \/ Ends(t) \/ Again(t) \/ Handle(t)
      PROVE  UNCHANGED g_esBuBaioProcState /\ UNCHANGED opened /\ UNCHANGED hurried
  BY <1>4, HandleFrame DEF RealtimeAnswer, Ends, Again
<1>5. ASSUME NEW t \in Bag, Idles(t)
      PROVE  UNCHANGED hurried /\ (opened => opened')
  BY <1>5 DEF Idles, SetIdle
<1>6. ASSUME NEW t \in Bag, Wake(t)
      PROVE  g_esBuBaioProcState' = "STATE_USER_BUSY" /\ UNCHANGED opened /\ (hurried => hurried')
  BY <1>6 DEF Wake, Wakes
<1> QED BY <1>1, <1>2, <1>3, <1>4, <1>5, <1>6, <1>7, Steps DEF Moving

(* Who sets the state back notes who else was busy.                        *)
LEMMA OpensIs ==
    ASSUME NEW w \in Worker, UploadOpen(w) \/ Idles(w)
    PROVE  /\ g_esBuBaioProcState' = "STATE_USER_IDLE"
           /\ ~opened' => \A o \in Bag \ {w} : ~Middle(o)
BY DEF UploadOpen, Idles, SetIdle

(* A sleeper was started by the poll, or starts over.                      *)
LEMMA SleepNew ==
    ASSUME Typed, [PortalNext]_portalVars, NEW t \in Bag, worker'[t].at = "sleep", worker[t].at # "sleep"
    PROVE  (PollStart /\ t = worker[Poll].bag) \/ Again(t)
<1>1. t \in Worker /\ t # Cutter /\ t # Poll
  BY Workers DEF Cutter, Poll
<1>2. ~Put(t) /\ ~UploadOpen(t) /\ ~UploadList(t) /\ ~UploadProgress(t) /\ ~UploadEnd(t) /\ ~Advance(t)
  BY <1>1, PutMoves, OpenMoves, ListMoves, ProgressMoves, EndMoves, AdvanceMoves DEF Turns
<1>3. ~Wake(t) /\ ~Handle(t) /\ ~RealtimeAnswer(t) /\ ~Idles(t) /\ ~Ends(t)
  BY WakeMoves, HandleMoves, AnswerMoves, IdleMoves, EndsMoves DEF Turns
<1> QED BY <1>2, <1>3, BagMover

LEMMA CheckNew ==
    ASSUME Typed, [PortalNext]_portalVars, NEW t \in Bag, worker'[t].at = "check", worker[t].at # "check"
    PROVE  Idles(t)
<1>1. t \in Worker /\ t # Cutter /\ t # Poll
  BY Workers DEF Cutter, Poll
<1>2. ~Put(t) /\ ~UploadOpen(t) /\ ~UploadList(t) /\ ~UploadProgress(t) /\ ~UploadEnd(t) /\ ~Advance(t)
  BY <1>1, PutMoves, OpenMoves, ListMoves, ProgressMoves, EndMoves, AdvanceMoves DEF Turns
<1>3. ~Wake(t) /\ ~Handle(t) /\ ~RealtimeAnswer(t) /\ ~Again(t) /\ ~Ends(t)
  BY WakeMoves, HandleMoves, AnswerMoves, AgainMoves, EndsMoves DEF Turns
<1>4. ~(PollStart /\ t = worker[Poll].bag)
  BY StartMoves
<1> QED BY <1>2, <1>3, <1>4, BagMover

LEMMA WakeAlone ==
    ASSUME Typed, NEW t \in Bag, Wake(t)
    PROVE  /\ ~hurried' => \A o \in Bag : worker'[o].at # "check"
           /\ \A o \in Bag : o # t => worker'[o] = worker[o]
           /\ worker[t].at = "sleep" /\ worker'[t].at = "handle"
<1>1. ~hurried' => \A o \in Bag \ {t} : worker[o].at # "check"
  BY DEF Wake, Wakes
<1>2. worker'[t].at = "handle" /\ worker[t].at = "sleep" /\ \A o \in Bag : o # t => worker'[o] = worker[o]
  BY WakeMoves, Workers DEF Turns
<1> QED BY <1>1, <1>2

LEMMA BusyHeldKept ==
    ASSUME Typed, Unspent, BusyIs, [PortalNext]_portalVars
    PROVE  g_esBuBaioProcState' = "STATE_USER_BUSY" => \E t \in Bag : Middle(t)'
<1> SUFFICES ASSUME g_esBuBaioProcState' = "STATE_USER_BUSY"
             PROVE  \E t \in Bag : Middle(t)'
  OBVIOUS
<1>1. CASE \E t \in Bag : Wake(t)
  BY <1>1, WakeMoves DEF Turns, Middle
<1>2. CASE UNCHANGED g_esBuBaioProcState /\ ~\E t \in Bag : Idles(t) \/ UploadOpen(t)
  <2>1. PICK t \in Bag : Middle(t)
    BY <1>2 DEF BusyIs, BusyHeld
  <2> QED BY <1>2, <2>1, MiddleLost DEF BusyIs
<1>3. ASSUME NEW w \in Worker, UploadOpen(w) \/ Idles(w)
      PROVE  FALSE
  BY <1>3, OpensIs
<1> QED BY <1>1, <1>2, <1>3, StateFrame, Workers

LEMMA BusyKept ==
    ASSUME Typed, Unspent, BusyIs, [PortalNext]_portalVars
    PROVE  BusyIs'
<1>0. Bag' = Bag /\ Doors
  BY ScriptKept DEF Typed, BusyIs
<1>1. ASSUME ~hurried', NEW t \in Bag, worker'[t].at = "check"
      PROVE  g_esBuBaioProcState' = "STATE_USER_IDLE"
  <2>1. ~hurried
    BY <1>1, StateFrame
  <2>2. ~\E s \in Bag : Wake(s)
    BY <1>1, WakeAlone
  <2>3. CASE worker[t].at = "check"
    <3>1. g_esBuBaioProcState = "STATE_USER_IDLE"
      BY <2>1, <2>3 DEF BusyIs
    <3> QED BY <2>2, <3>1, StateFrame, OpensIs, Workers
  <2>4. CASE worker[t].at # "check"
    BY <1>1, <2>4, CheckNew, OpensIs, Workers
  <2> QED BY <2>3, <2>4
<1>2. ASSUME ~hurried, NEW t \in Bag, Again(t)
      PROVE  FALSE
  BY <1>2 DEF BusyIs, Again
<1>3. ASSUME ~hurried', NEW s \in Bag, NEW t \in Bag, worker'[s].at = "sleep", worker'[t].at = "sleep"
      PROVE  s = t
  <2>1. ~hurried
    BY <1>3, StateFrame
  <2>2. worker[s].at # "sleep" => PollStart /\ s = worker[Poll].bag
    BY <1>2, <1>3, <2>1, SleepNew
  <2>3. worker[t].at # "sleep" => PollStart /\ t = worker[Poll].bag
    BY <1>2, <1>3, <2>1, SleepNew
  <2>4. PollStart => worker[s].at # "sleep" /\ worker[t].at # "sleep"
    BY <2>1, StartMoves DEF BusyIs
  <2> QED BY <2>1, <2>2, <2>3, <2>4 DEF BusyIs
<1>4. ASSUME ~hurried', NEW t \in Bag, worker'[t].at = "sleep", worker'[Poll].at = "decide"
      PROVE  FALSE
  <2>1. ~hurried
    BY <1>4, StateFrame
  <2>2. CASE PollTake
    <3>1. ~\E b \in Bag : WouldRead(b)
      BY <1>4, <2>2 DEF PollTake
    <3>2. worker'[t] = worker[t]
      BY <2>2, TakeMoves, Workers DEF Turns, Poll
    <3> QED BY <1>4, <3>1, <3>2 DEF WouldRead
  <2>3. CASE ~PollTake
    <3>1. worker'[Poll] = worker[Poll] /\ ~PollStart
      BY <1>4, <2>3, DecideKept
    <3>2. worker[t].at = "sleep"
      BY <1>2, <1>4, <2>1, <3>1, SleepNew
    <3> QED BY <1>4, <2>1, <3>1, <3>2 DEF BusyIs
  <2> QED BY <2>2, <2>3
<1>5. ASSUME ~hurried', ~opened', NEW t \in Bag, Middle(t)'
      PROVE  g_esBuBaioProcState' = "STATE_USER_BUSY"
  <2>1. ~hurried /\ ~opened
    BY <1>5, StateFrame
  <2>2. CASE Wake(t)
    BY <2>2, StateFrame
  <2>3. CASE ~Wake(t)
    <3>1. Middle(t)
      BY <1>0, <1>5, <2>3, MiddleNew
    <3>2. g_esBuBaioProcState = "STATE_USER_BUSY"
      BY <2>1, <3>1 DEF BusyIs
    <3>3. ASSUME NEW w \in Worker, UploadOpen(w) \/ Idles(w) PROVE FALSE
      <4>1. w = t
        BY <1>5, <3>1, <3>3, OpensIs
      <4>2. ~Middle(t)'
        BY <3>3, <4>1, OpenMoves, IdleMoves DEF Turns, Middle
      <4> QED BY <1>5, <4>2
    <3> QED BY <3>2, <3>3, StateFrame, Workers
  <2> QED BY <2>2, <2>3
<1>6. ASSUME ~hurried', ~opened', NEW t \in Bag, worker'[t].at = "sleep"
      PROVE  g_esBuBaioProcState' = "STATE_USER_IDLE"
  <2>1. ~hurried /\ ~opened
    BY <1>6, StateFrame
  <2>2. CASE PollStart
    BY <2>2 DEF PollStart
  <2>3. CASE ~PollStart
    <3>1. worker[t].at = "sleep"
      BY <1>2, <1>6, <2>1, <2>3, SleepNew
    <3>2. g_esBuBaioProcState = "STATE_USER_IDLE"
      BY <2>1, <3>1 DEF BusyIs
    <3>3. ASSUME NEW s \in Bag, Wake(s) PROVE FALSE
      BY <1>6, <2>1, <3>1, <3>3, WakeAlone DEF BusyIs
    <3> QED BY <3>2, <3>3, StateFrame, OpensIs, Workers
  <2> QED BY <2>2, <2>3
<1>7. ASSUME ~hurried', ~opened', NEW s \in Bag, NEW t \in Bag, Middle(s)', Middle(t)'
      PROVE  s = t
  <2>1. ~hurried /\ ~opened
    BY <1>7, StateFrame
  <2>2. CASE \E w \in Bag : Wake(w)
    <3>1. PICK w \in Bag : Wake(w)
      BY <2>2
    <3>2. worker[w].at = "sleep" /\ g_esBuBaioProcState = "STATE_USER_IDLE"
      BY <2>1, <3>1, WakeAlone DEF BusyIs
    <3>3. ~Middle(s) /\ ~Middle(t)
      BY <2>1, <3>2 DEF BusyIs
    <3>4. Wake(s) /\ Wake(t)
      BY <1>0, <1>7, <3>3, MiddleNew
    <3> QED BY <3>4, WakeAlone
  <2>3. CASE ~\E w \in Bag : Wake(w)
    <3>1. Middle(s) /\ Middle(t)
      BY <1>0, <1>7, <2>3, MiddleNew
    <3> QED BY <2>1, <3>1 DEF BusyIs, BusyHeld
  <2> QED BY <2>2, <2>3
<1>8. BusyHeld'
  BY <1>0, <1>7, BusyHeldKept DEF BusyHeld
<1>9. Doors'
  BY <1>0, DoorsKept
<1> QED BY <1>0, <1>1, <1>3, <1>4, <1>5, <1>6, <1>8, <1>9 DEF BusyIs, Poll

-----------------------------------------------------------------------------
(* The global and who reads it.                                            *)
Reads ==
    ~hurried /\ "recv" \notin spoilt =>
        /\ worker[Poll].at = "decide" => Global = worker[Poll].bag
        /\ \A t \in Bag : /\ worker[t].at = "sleep" => Global = t
                          /\ worker[t].at = "handle" => worker[t].bag = t

DealtIs == Reads /\ DealtWithOnce

LEMMA RecvSpoilt ==
    ASSUME [PortalNext]_portalVars, "recv" \in spoilt
    PROVE  "recv" \in spoilt'
<1>1. UNCHANGED portalVars \/ RetuTake \/ RetuSend \/ PollTake \/ PollStart \/ PollBusy \/ CutFinished => UNCHANGED spoilt
  BY DEF portalVars, RetuTake, RetuSend, PollTake, PollStart, PollBusy, CutFinished
<1>2. UartBag => "recv" \in spoilt'
  BY DEF UartBag
<1>3. ASSUME NEW w \in Worker,
             Put(w) \/ Advance(w) \/ UploadOpen(w) \/ UploadList(w) \/ UploadProgress(w) \/ UploadEnd(w)
      PROVE  "recv" \in spoilt'
  BY <1>3 DEF Put, Advance, UploadOpen, UploadList, UploadProgress, UploadEnd
<1>4. ASSUME NEW t \in Bag, Wake(t) \/ Handle(t) \/ RealtimeAnswer(t) \/ Idles(t) \/ Ends(t) \/ Again(t)
      PROVE  UNCHANGED spoilt
  BY <1>4, HandleFrame DEF Wake, Wakes, RealtimeAnswer, Idles, Ends, Again
<1> QED BY <1>1, <1>2, <1>3, <1>4, Steps DEF Moving

(* A bag that is still to be read is not written over.                     *)
LEMMA GlobalSame ==
    ASSUME Typed, Unspent, [PortalNext]_portalVars, taken # {}, ~PollTake, "recv" \notin spoilt'
    PROVE  Global' = Global
<1>1. CASE UartBag
  <2>1. /\ stRecvBagQueue'.slot = [stRecvBagQueue.slot EXCEPT ![tail] = came']
        /\ g_sBBMsgArrBag' = g_sBBMsgArrBag
    BY <1>1, UartPuts
  <2>2. NextEntry(tail) # head
    BY <1>1 DEF UartBag, Filled, head, tail
  <2>3. NextEntry(g_sBBMsgArrBag) = head
    BY DEF Unspent, UnspentRing
  <2>4. stRecvBagQueue.slot \in [Entry -> Bag \cup {0}] /\ tail \in Entry /\ g_sBBMsgArrBag \in Entry
    BY TypeParts DEF Typed
  <2> QED BY <2>1, <2>2, <2>3, <2>4 DEF Global
<1>2. CASE UNCHANGED bags
  BY <1>2 DEF bags, Global
<1> QED BY <1>1, <1>2, BagsFrame

LEMMA HandleNew ==
    ASSUME Typed, [PortalNext]_portalVars, NEW t \in Bag, worker'[t].at = "handle", worker'[t] # worker[t]
    PROVE  Wake(t)
<1>1. t \in Worker /\ t # Cutter /\ t # Poll
  BY Workers DEF Cutter, Poll
<1>2. ~Put(t) /\ ~UploadOpen(t) /\ ~UploadList(t) /\ ~UploadProgress(t) /\ ~UploadEnd(t) /\ ~Advance(t)
  BY <1>1, PutMoves, OpenMoves, ListMoves, ProgressMoves, EndMoves, AdvanceMoves DEF Turns
<1>3. ~Handle(t) /\ ~RealtimeAnswer(t) /\ ~Again(t) /\ ~Ends(t) /\ ~Idles(t)
  BY HandleMoves, AnswerMoves, AgainMoves, EndsMoves, IdleMoves DEF Turns
<1>4. ~(PollStart /\ t = worker[Poll].bag)
  BY StartMoves
<1> QED BY <1>2, <1>3, <1>4, BagMover

LEMMA NotAgain ==
    ASSUME BusyIs, ~hurried, NEW t \in Bag
    PROVE  ~Again(t)
BY DEF BusyIs, Again

LEMMA ReadsKept ==
    ASSUME Typed, Unspent, BusyIs, Reads, [PortalNext]_portalVars
    PROVE  Reads'
<1>0. Bag' = Bag
  BY ScriptKept DEF Typed
<1> SUFFICES ASSUME ~hurried', "recv" \notin spoilt'
             PROVE  /\ worker'[Poll].at = "decide" => Global' = worker'[Poll].bag
                    /\ \A t \in Bag : /\ worker'[t].at = "sleep" => Global' = t
                                      /\ worker'[t].at = "handle" => worker'[t].bag = t
  BY <1>0 DEF Reads, Poll
<1>1. /\ ~hurried /\ "recv" \notin spoilt
      /\ worker[Poll].at = "decide" => Global = worker[Poll].bag
      /\ \A t \in Bag : /\ worker[t].at = "sleep" => Global = t
                        /\ worker[t].at = "handle" => worker[t].bag = t
  BY StateFrame, RecvSpoilt DEF Reads
<1>2. ASSUME worker'[Poll].at = "decide" PROVE Global' = worker'[Poll].bag
  <2>1. CASE PollTake
    BY <2>1, GlobalKept, TakeMoves
  <2>2. CASE ~PollTake
    <3>1. worker'[Poll] = worker[Poll]
      BY <1>2, <2>2, DecideKept
    <3>2. taken # {}
      BY <1>2, <3>1 DEF Unspent, UnspentWho
    <3> QED BY <1>1, <1>2, <2>2, <3>1, <3>2, GlobalSame
  <2> QED BY <2>1, <2>2
<1>3. ASSUME NEW t \in Bag, worker'[t].at = "sleep" PROVE Global' = t
  <2>1. CASE worker[t].at = "sleep"
    <3>1. ~PollTake
      <4>1. PollTake => worker'[Poll].at = "decide"
        BY TakeMoves DEF Turns
      <4> QED BY <2>1, <4>1 DEF PollTake, WouldRead
    <3>2. taken # {}
      BY <2>1 DEF Unspent, UnspentWho
    <3> QED BY <1>1, <2>1, <3>1, <3>2, GlobalSame
  <2>2. CASE worker[t].at # "sleep"
    <3>1. PollStart /\ t = worker[Poll].bag
      BY <1>1, <1>3, <2>2, SleepNew, NotAgain
    <3>2. worker[Poll].at = "decide" /\ ~PollTake
      BY <3>1, StartMoves DEF PollTake
    <3>3. taken # {}
      BY <3>2 DEF Unspent, UnspentWho
    <3> QED BY <1>1, <3>1, <3>2, <3>3, GlobalSame
  <2> QED BY <2>1, <2>2
<1>4. ASSUME NEW t \in Bag, worker'[t].at = "handle" PROVE worker'[t].bag = t
  <2>1. CASE worker'[t] = worker[t]
    BY <1>1, <1>4, <2>1
  <2>2. CASE worker'[t] # worker[t]
    BY <1>1, <1>4, <2>2, HandleNew, WakeMoves, WakeAlone
  <2> QED BY <2>1, <2>2
<1> QED BY <1>2, <1>3, <1>4

(* What is still to be dealt with changes where bags are taken, started,   *)
(* refused, read and executed.                                             *)
LEMMA PendingSame ==
    ASSUME Typed, [PortalNext]_portalVars, NEW b \in Bag, ~PollTake, ~PollStart, ~PollBusy,
           ~Wake(b), ~Handle(b), ~Again(b)
    PROVE  Pending(b)' <=> Pending(b)
<1>1. worker'[Poll].at = "decide" \/ worker[Poll].at = "decide" => worker'[Poll] = worker[Poll]
  BY DecideKept
<1>2. worker'[b] # worker[b] => worker'[b].at \notin {"sleep", "handle"} /\ worker[b].at \notin {"sleep", "handle"}
  <2>1. b \in Worker /\ b # Cutter /\ b # Poll
    BY Workers DEF Cutter, Poll
  <2>2. Put(b) \/ Advance(b) \/ UploadOpen(b) \/ UploadList(b) \/ UploadProgress(b) \/ UploadEnd(b)
        => worker'[b].at \notin {"sleep", "handle"} /\ worker[b].at \notin {"sleep", "handle"}
    BY <2>1, PutMoves, OpenMoves, ListMoves, ProgressMoves, EndMoves, AdvanceMoves DEF Turns
  <2>3. RealtimeAnswer(b) \/ Idles(b) \/ Ends(b)
        => worker'[b].at \notin {"sleep", "handle"} /\ worker[b].at \notin {"sleep", "handle"}
    BY AnswerMoves, IdleMoves, EndsMoves DEF Turns
  <2> QED BY <2>2, <2>3, BagMover
<1> QED BY <1>1, <1>2 DEF Pending, Poll

LEMMA DealtFrame ==
    ASSUME [PortalNext]_portalVars
    PROVE  UNCHANGED dealt \/ PollBusy \/ \E t \in Bag : Handle(t)
<1>1. UNCHANGED portalVars \/ UartBag \/ RetuTake \/ RetuSend \/ PollTake \/ PollStart \/ CutFinished => UNCHANGED dealt
  BY DEF portalVars, results, UartBag, RetuTake, RetuSend, PollTake, PollStart, CutFinished
<1>2. ASSUME NEW w \in Worker,
             Put(w) \/ Advance(w) \/ UploadOpen(w) \/ UploadList(w) \/ UploadProgress(w) \/ UploadEnd(w)
      PROVE  UNCHANGED dealt
  BY <1>2 DEF results, Put, Advance, UploadOpen, UploadList, UploadProgress, UploadEnd
<1>3. ASSUME NEW t \in Bag, Wake(t) \/ RealtimeAnswer(t) \/ Idles(t) \/ Ends(t) \/ Again(t)
      PROVE  UNCHANGED dealt
  BY <1>3 DEF results, Wake, Wakes, RealtimeAnswer, Idles, Ends, Again
<1> QED BY <1>1, <1>2, <1>3, Steps DEF Moving

(* A bag is counted once, when it is executed or refused.                  *)
LEMMA DealtKept ==
    ASSUME Typed, Unspent, BusyIs, Reads, DealtWithOnce, [PortalNext]_portalVars
    PROVE  DealtWithOnce'
<1>0. Bag' = Bag /\ dealt \in [Bag -> Nat]
  BY ScriptKept DEF Typed, PortalTypeOK
<1> SUFFICES ASSUME ~hurried', "recv" \notin spoilt', NEW b \in Bag
             PROVE  dealt'[b] = IF b \in taken' /\ ~Pending(b)' THEN 1 ELSE 0
  BY <1>0 DEF DealtWithOnce
<1>1. /\ ~hurried /\ "recv" \notin spoilt
      /\ dealt[b] = IF b \in taken /\ ~Pending(b) THEN 1 ELSE 0
      /\ \A t \in Bag : worker[t].at = "handle" => worker[t].bag = t
  BY StateFrame, RecvSpoilt DEF DealtWithOnce, Reads
<1>2. b \in Worker /\ b # Poll /\ b # Cutter
  BY Workers DEF Poll, Cutter
<1>3. CASE PollTake
  <2> DEFINE c == stRecvBagQueue.slot[head]
  <2>1. /\ c \in Bag /\ taken' = taken \cup {c} /\ worker'[Poll].at = "decide" /\ worker'[Poll].bag = c
        /\ worker[Poll].at = "none" /\ head # tail /\ head \in Entry
        /\ \A t \in Bag : worker'[t] = worker[t]
    BY <1>3, TakeMoves, PollTakes, TypeParts, Workers DEF Turns, Typed, Poll
  <2>2. c \notin taken
    BY <2>1, RingMoves DEF Unspent, UnspentRing
  <2>3. dealt' = dealt
    BY <1>3 DEF PollTake, results
  <2>4. Pending(b)' <=> b = c \/ Pending(b)
    BY <2>1 DEF Pending, Poll
  <2> HIDE DEF c
  <2> QED BY <1>1, <2>1, <2>2, <2>3, <2>4
<1>4. CASE PollStart
  <2>1. /\ worker[Poll].at = "decide" /\ worker[Poll].bag \in Bag /\ worker'[Poll].at = "none"
        /\ worker'[worker[Poll].bag].at = "sleep" /\ (b # worker[Poll].bag => worker'[b] = worker[b])
    BY <1>2, <1>4, StartMoves
  <2>2. dealt' = dealt /\ taken' = taken
    BY <1>4 DEF PollStart, results, bags
  <2>3. Pending(b)' <=> Pending(b)
    BY <2>1 DEF Pending, Poll
  <2> QED BY <1>1, <2>2, <2>3
<1>5. CASE PollBusy
  <2>1. /\ worker[Poll].at = "decide" /\ worker'[Poll].at = "put" /\ worker'[b] = worker[b]
        /\ worker[Poll].bag \in taken /\ worker[worker[Poll].bag].at = "none"
    BY <1>2, <1>5, BusyMoves DEF Turns, Unspent, UnspentWho
  <2>2. dealt' = [dealt EXCEPT ![worker[Poll].bag] = @ + 1] /\ taken' = taken
    BY <1>5 DEF PollBusy, bags
  <2>3. Pending(b)' <=> Pending(b) /\ b # worker[Poll].bag
    BY <2>1 DEF Pending, Poll
  <2>4. Pending(worker[Poll].bag)
    BY <2>1 DEF Pending
  <2>5. dealt'[b] = IF b = worker[Poll].bag THEN dealt[b] + 1 ELSE dealt[b]
    BY <1>0, <2>2
  <2> QED BY <1>1, <2>1, <2>2, <2>3, <2>4, <2>5
<1>6. CASE \E t \in Bag : Handle(t)
  <2>1. PICK t \in Bag : Handle(t)
    BY <1>6
  <2>2. /\ dealt' = [dealt EXCEPT ![t] = @ + 1] /\ taken' = taken
        /\ worker[t].at = "handle" /\ worker'[t].at \notin {"sleep", "handle"}
    BY <1>1, <2>1, HandleFrame, HandleMoves DEF Turns, bags
  <2>3. worker'[Poll] = worker[Poll] /\ (b # t => worker'[b] = worker[b])
    BY <1>2, <2>1, HandleMoves, Workers DEF Turns, Poll
  <2>4. worker[Poll].at = "decide" => worker[Poll].bag # t
    BY <2>2 DEF Unspent, UnspentWho
  <2>5. t \in taken
    BY <2>2 DEF Unspent, UnspentWho
  <2>6. Pending(b)' <=> Pending(b) /\ b # t
    BY <2>2, <2>3, <2>4 DEF Pending, Poll
  <2>7. Pending(t)
    BY <2>2 DEF Pending
  <2>8. dealt'[b] = IF b = t THEN dealt[b] + 1 ELSE dealt[b]
    BY <1>0, <2>2
  <2> QED BY <1>1, <2>2, <2>5, <2>6, <2>7, <2>8
<1>7. CASE ~PollTake /\ ~PollStart /\ ~PollBusy /\ ~\E t \in Bag : Handle(t)
  <2>1. dealt' = dealt
    BY <1>7, DealtFrame
  <2>2. taken' = taken
    BY <1>7, BagsFrame, UartPuts DEF bags
  <2>3. Pending(b)' <=> Pending(b)
    <3>1. CASE Wake(b)
      <4>1. worker'[Poll] = worker[Poll]
        BY <3>1, WakeMoves, Workers DEF Turns, Poll
      <4> QED BY <3>1, <4>1, WakeAlone DEF Pending, Poll
    <3>2. CASE ~Wake(b)
      BY <1>1, <1>7, <3>2, NotAgain, PendingSame
    <3> QED BY <3>1, <3>2
  <2> QED BY <1>1, <2>1, <2>2, <2>3
<1> QED BY <1>3, <1>4, <1>5, <1>6, <1>7

-----------------------------------------------------------------------------
(* The global result.                                                      *)
ResultIs ==
    /\ \A s, t \in Bag : s # t /\ Executing(s) /\ Executing(t) => s \in met
    /\ \A t \in Bag \ met : /\ worker[t].at = "handle" => g_KakaAckBag = "ok"
                            /\ worker[t].at = "answer" => g_KakaAckBag = worker[t].own

LEMMA ResultFrame ==
    ASSUME [PortalNext]_portalVars
    PROVE  /\ UNCHANGED g_KakaAckBag \/ \E t \in Bag : Wake(t) \/ Handle(t)
           /\ UNCHANGED met \/ \E t \in Bag : Wake(t)
<1>1. UNCHANGED portalVars \/ UartBag \/ RetuTake \/ RetuSend \/ PollTake \/ PollStart \/ PollBusy \/ CutFinished
      => UNCHANGED g_KakaAckBag /\ UNCHANGED met
  BY DEF portalVars, results, UartBag, RetuTake, RetuSend, PollTake, PollStart, PollBusy, CutFinished
<1>2. ASSUME NEW w \in Worker,
             Put(w) \/ Advance(w) \/ UploadOpen(w) \/ UploadList(w) \/ UploadProgress(w) \/ UploadEnd(w)
      PROVE  UNCHANGED g_KakaAckBag /\ UNCHANGED met
  BY <1>2 DEF results, Put, Advance, UploadOpen, UploadList, UploadProgress, UploadEnd
<1>3. ASSUME NEW t \in Bag, RealtimeAnswer(t) \/ Idles(t) \/ Ends(t) \/ Again(t)
      PROVE  UNCHANGED g_KakaAckBag /\ UNCHANGED met
  BY <1>3 DEF results, RealtimeAnswer, Idles, Ends, Again
<1>4. ASSUME NEW t \in Bag, Handle(t)
      PROVE  UNCHANGED met
  BY <1>4, HandleFrame
<1> QED BY <1>1, <1>2, <1>3, <1>4, Steps DEF Moving

LEMMA ExecutingNew ==
    ASSUME Typed, [PortalNext]_portalVars, NEW t \in Bag, Executing(t)', worker'[t] # worker[t]
    PROVE  Wake(t) \/ Handle(t)
<1>1. t \in Worker /\ t # Cutter /\ t # Poll /\ worker'[t].at \in {"handle", "answer"}
  BY Workers DEF Cutter, Poll, Executing
<1>2. ~Put(t) /\ ~UploadOpen(t) /\ ~UploadList(t) /\ ~UploadProgress(t) /\ ~UploadEnd(t) /\ ~Advance(t)
  BY <1>1, PutMoves, OpenMoves, ListMoves, ProgressMoves, EndMoves, AdvanceMoves DEF Turns
<1>3. ~RealtimeAnswer(t) /\ ~Again(t) /\ ~Ends(t) /\ ~Idles(t)
  BY <1>1, AnswerMoves, AgainMoves, EndsMoves, IdleMoves DEF Turns
<1>4. ~(PollStart /\ t = worker[Poll].bag)
  BY <1>1, StartMoves
<1> QED BY <1>2, <1>3, <1>4, BagMover

LEMMA ResultKept ==
    ASSUME Typed, ResultIs, [PortalNext]_portalVars
    PROVE  ResultIs'
<1>0. Bag' = Bag
  BY ScriptKept DEF Typed
<1>1. CASE \E t \in Bag : Wake(t)
  <2>1. PICK t \in Bag : Wake(t)
    BY <1>1
  <2> DEFINE others == {o \in Bag \ {t} : Executing(o)}
  <2>2. /\ met' = IF others = {} THEN met \ {t} ELSE met \cup others \cup {t}
        /\ g_KakaAckBag' = "ok"
    BY <2>1 DEF Wake, Wakes
  <2>3. /\ worker'[t].at = "handle" /\ \A o \in Bag : o # t => worker'[o] = worker[o]
        /\ \A o \in Bag : o # t => (Executing(o)' <=> Executing(o))
    BY <2>1, WakeAlone DEF Executing
  <2>4. ASSUME NEW s \in Bag, NEW u \in Bag, s # u, Executing(s)', Executing(u)'
        PROVE  s \in met'
    <3>1. CASE s = t \/ u = t
      <4>1. others # {} /\ (s # t => s \in others)
        BY <2>3, <2>4, <3>1
      <4> QED BY <2>2, <3>1, <4>1
    <3>2. CASE s # t /\ u # t
      BY <2>2, <2>3, <2>4, <3>2 DEF ResultIs
    <3> QED BY <3>1, <3>2
  <2>5. ASSUME NEW s \in Bag, s \notin met'
        PROVE  /\ worker'[s].at = "handle" => g_KakaAckBag' = "ok"
               /\ worker'[s].at = "answer" => g_KakaAckBag' = worker'[s].own
    <3>1. s # t => ~Executing(s)'
      BY <2>2, <2>3, <2>5
    <3> QED BY <2>2, <2>3, <3>1 DEF Executing
  <2> QED BY <1>0, <2>4, <2>5 DEF ResultIs
<1>2. CASE \E t \in Bag : Handle(t)
  <2>1. PICK t \in Bag : Handle(t)
    BY <1>2
  <2>2. met' = met /\ worker[t].at = "handle"
    BY <2>1, HandleFrame
  <2>3. \A o \in Bag : o # t => worker'[o] = worker[o]
    BY <2>1, HandleMoves, Workers DEF Turns
  <2>4. \A o \in Bag : Executing(o)' => Executing(o)
    BY <2>2, <2>3 DEF Executing
  <2>5. ASSUME NEW s \in Bag, s \notin met
        PROVE  /\ worker'[s].at = "handle" => g_KakaAckBag' = "ok"
               /\ worker'[s].at = "answer" => g_KakaAckBag' = worker'[s].own
    <3>1. CASE s = t
      <4>1. g_KakaAckBag = "ok"
        BY <2>2, <2>5, <3>1 DEF ResultIs
      <4> QED BY <2>1, <3>1, <4>1, HandleMoves DEF Turns
    <3>2. CASE s # t
      <4>1. ~Executing(s)
        BY <2>2, <2>5, <3>2 DEF ResultIs, Executing
      <4> QED BY <2>3, <3>2, <4>1 DEF Executing
    <3> QED BY <3>1, <3>2
  <2> QED BY <1>0, <2>2, <2>4, <2>5 DEF ResultIs
<1>3. CASE ~\E t \in Bag : Wake(t) \/ Handle(t)
  <2>1. g_KakaAckBag' = g_KakaAckBag /\ met' = met
    BY <1>3, ResultFrame
  <2>2. \A o \in Bag : Executing(o)' => worker'[o] = worker[o]
    BY <1>3, ExecutingNew
  <2> QED BY <1>0, <2>1, <2>2 DEF ResultIs, Executing
<1> QED BY <1>1, <1>2, <1>3

-----------------------------------------------------------------------------
(* The uploads.                                                            *)
UploadItem == [by : Worker, id : {"media", "area"}, serial : Nat, chn : Nat]

(* What a worker has put last tells how far its upload is.                 *)
OutIs(w) ==
    /\ worker[w].out = "started" => worker[w].at \in {"put", "tail", "open", "list", "perform"}
    /\ worker[w].out = "progress" => worker[w].at \in {"put", "tail", "perform"}
    /\ worker[w].at \in {"open", "list"} => worker[w].out = "started"
    /\ worker[w].at = "perform" => worker[w].out \in {"started", "progress"}

Outs == \A w \in Worker : OutIs(w)
Began(w) == worker[w].out \in {"started", "progress"}

(* Every upload is one of a command of its own that was executed; what the *)
(* thread of a command is about to execute is its own, body and head.      *)
Clean == ~hurried /\ "recv" \notin spoilt
Ordered(b, kind) == b \in Bag /\ commands[b].kind = kind /\ dealt[b] > 0

Sources ==
    /\ \A k \in DOMAIN cuts : Ordered(cuts[k], "area")
    /\ worker[Cutter].at # "none" => Ordered(worker[Cutter].bag, "area")
    /\ Clean => \A t \in Bag : /\ Began(t) => worker[t].bag = t /\ Ordered(t, "upload")
                               /\ worker[t].at = "handle" => Global = t

Listed == g_uploadfileList \in Seq(UploadItem) /\ UploadFindsItself

UploadsAre == Outs /\ Sources /\ Listed

-----------------------------------------------------------------------------
LEMMA CutterMover ==
    ASSUME Typed, [PortalNext]_portalVars, worker'[Cutter] # worker[Cutter]
    PROVE  \/ CutFinished
           \/ Put(Cutter) \/ Advance(Cutter) \/ UploadOpen(Cutter) \/ UploadList(Cutter)
           \/ UploadProgress(Cutter) \/ UploadEnd(Cutter)
<1>0. Cutter \in Worker /\ Poll # Cutter /\ \A t \in Bag : t # Cutter
  BY Workers DEF Cutter
<1>1. UNCHANGED portalVars \/ UartBag \/ RetuTake \/ RetuSend => worker' = worker
  BY DEF portalVars, UartBag, RetuTake, RetuSend
<1>2. PollTake \/ PollBusy => worker'[Cutter] = worker[Cutter]
  BY <1>0, TakeMoves, BusyMoves DEF Turns
<1>3. PollStart => worker'[Cutter] = worker[Cutter]
  BY <1>0, StartMoves
<1>4. ASSUME NEW v \in Worker, v # Cutter,
             Put(v) \/ Advance(v) \/ UploadOpen(v) \/ UploadList(v) \/ UploadProgress(v) \/ UploadEnd(v)
      PROVE  worker'[Cutter] = worker[Cutter]
  BY <1>0, <1>4, PutMoves, AdvanceMoves, OpenMoves, ListMoves, ProgressMoves, EndMoves DEF Turns
<1>5. ASSUME NEW v \in Bag, Wake(v) \/ Handle(v) \/ RealtimeAnswer(v) \/ Idles(v) \/ Ends(v) \/ Again(v)
      PROVE  worker'[Cutter] = worker[Cutter]
  BY <1>0, <1>5, WakeMoves, HandleMoves, AnswerMoves, IdleMoves, EndsMoves, AgainMoves DEF Turns
<1> QED BY <1>1, <1>2, <1>3, <1>4, <1>5, Steps DEF Moving

LEMMA HandleStarts ==
    ASSUME Typed, NEW t \in Bag, Handle(t), OutIs(t)
    PROVE  /\ worker'[t].out = "started" => HandleUpload(t) /\ worker'[t].at = "put"
           /\ worker'[t].out # "progress"
           /\ worker'[t].bag = worker[t].bag /\ worker'[t].at \in {"answer", "put", "idle"}
<1>1. /\ worker \in [Worker -> WorkerState] /\ t \in Worker /\ worker[t].at = "handle"
      /\ worker[t].out \notin {"started", "progress"}
  BY TypeParts, Workers, HandleFrame DEF Typed, OutIs
<1>2. /\ worker'[t].out \in {"done", "part", "started", worker[t].out}
      /\ worker'[t].bag = worker[t].bag /\ worker'[t].at \in {"answer", "put", "idle"}
  BY HandleMoves DEF Turns
<1>3. CASE HandleUpload(t)
  <2>1. PICK o \in {"done", "started"} : Goes(t, "put", o)
    BY <1>3 DEF HandleUpload
  <2>2. worker'[t].at = "put"
    BY <1>1, <2>1, GoesTurns DEF At, Out, Turns
  <2> QED BY <1>1, <1>2, <1>3, <2>2
<1>4. CASE HandlePlain(t) \/ HandleArea(t) \/ HandleStop(t)
  <2>1. PICK a \in {"put", "idle"} : Goes(t, a, "done")
    BY <1>4 DEF HandlePlain, HandleArea, HandleStop
  <2>2. worker'[t].out = "done"
    BY <1>1, <2>1, GoesTurns DEF At, Out
  <2> QED BY <1>2, <2>2
<1>5. CASE HandleRealtime(t)
  <2>1. PICK r \in {"ok", "failed"} : worker' = [worker EXCEPT ![t].at = "answer", ![t].own = r]
    BY <1>5 DEF HandleRealtime
  <2>2. worker'[t].out = worker[t].out
    BY <1>1, <2>1 DEF WorkerState
  <2> QED BY <1>1, <1>2, <2>2
<1>6. CASE HandleQuery(t)
  <2>1. PICK n \in {0, 1} : worker' = [worker EXCEPT ![t].at = "put", ![t].out = "part", ![t].more = n]
    BY <1>6 DEF HandleQuery
  <2>2. worker'[t].out = "part"
    BY <1>1, <2>1, QueryTurns
  <2> QED BY <1>2, <2>2
<1> QED BY <1>3, <1>4, <1>5, <1>6 DEF Handle

(* How far an upload comes in one step.                                    *)
LEMMA UploaderSteps ==
    ASSUME Typed, NEW w \in Worker, OutIs(w),
           Put(w) \/ Advance(w) \/ UploadOpen(w) \/ UploadList(w) \/ UploadProgress(w) \/ UploadEnd(w)
    PROVE  /\ OutIs(w)'
           /\ Began(w)' => Began(w) /\ worker'[w].bag = worker[w].bag
           /\ Uploading(w)' => Uploading(w) \/ UploadList(w)
           /\ Uploading(w) => (Uploading(w)' /\ worker'[w].bag = worker[w].bag) \/ UploadEnd(w)
           /\ worker'[w].at # "handle"
           /\ worker'[w].at # "none" => worker'[w].bag = worker[w].bag /\ worker[w].at # "none"
<1> USE DEF OutIs, Began, Uploading
<1>1. CASE Put(w)
  BY <1>1, PutMoves DEF Turns, Keeps
<1>2. CASE Advance(w)
  <2>1. /\ worker[w].at = "tail"
        /\ worker'[w].at # "none" => worker'[w].bag = worker[w].bag /\ worker'[w].out = worker[w].out
        /\ worker'[w].at = "none" => worker'[w].out = "done"
        /\ worker'[w].at = "open" <=> worker[w].out = "started"
        /\ worker'[w].at = "perform" <=> worker[w].out = "progress"
        /\ worker'[w].at \in {"none", "open", "perform", "put", "idle"}
    BY <1>2, AdvanceMoves DEF Turns, Resting
  <2> QED BY <2>1
<1>3. CASE UploadOpen(w)
  BY <1>3, OpenMoves DEF Turns
<1>4. CASE UploadList(w)
  BY <1>4, ListMoves DEF Turns, Keeps
<1>5. CASE UploadProgress(w)
  BY <1>5, ProgressMoves DEF Turns, Keeps
<1>6. CASE UploadEnd(w)
  BY <1>6, EndMoves DEF Turns, Keeps
<1> QED BY <1>1, <1>2, <1>3, <1>4, <1>5, <1>6

LEMMA OutStep ==
    ASSUME Typed, Unspent, Outs, [PortalNext]_portalVars, NEW w \in Worker
    PROVE  /\ OutIs(w)'
           /\ Began(w)' => \/ Began(w) /\ worker'[w].bag = worker[w].bag
                           \/ w \in Bag /\ HandleUpload(w) /\ worker'[w].bag = worker[w].bag
                           \/ w = Cutter /\ CutFinished
           /\ Uploading(w)' => Uploading(w) \/ UploadList(w)
           /\ Uploading(w) => (Uploading(w)' /\ worker'[w].bag = worker[w].bag) \/ UploadEnd(w)
<1>0. OutIs(w)
  BY DEF Outs
<1>1. CASE worker'[w] = worker[w]
  BY <1>0, <1>1 DEF OutIs, Began, Uploading
<1>2. CASE Put(w) \/ Advance(w) \/ UploadOpen(w) \/ UploadList(w) \/ UploadProgress(w) \/ UploadEnd(w)
  BY <1>0, <1>2, UploaderSteps
<1>3. CASE w = Poll /\ (PollTake \/ PollStart \/ PollBusy)
  <2>1. /\ worker[Poll].at \in {"none", "decide"} /\ worker'[Poll].at \in {"none", "decide", "put"}
        /\ worker'[Poll].out \in {"done", "busy"}
    <3>1. CASE PollTake
      <4>1. worker' = [worker EXCEPT ![Poll] = [Resting EXCEPT !.at = "decide",
                          !.bag = stRecvBagQueue.slot[stRecvBagQueue.head]]]
        BY <3>1 DEF PollTake
      <4>2. worker'[Poll].out = "done"
        BY <4>1, TypeParts, Workers DEF Typed, Resting
      <4> QED BY <3>1, <4>2, TakeMoves DEF Turns
    <3>2. CASE PollStart
      <4>1. worker' = [worker EXCEPT ![Poll] = Resting, ![worker[Poll].bag].at = "sleep"]
        BY <3>2 DEF PollStart
      <4>2. worker[Poll].bag # Poll
        BY <3>2, StartMoves, Workers DEF Poll
      <4>3. worker'[Poll] = Resting
        BY <4>1, <4>2, TypeParts, Workers DEF Typed
      <4> QED BY <3>2, <4>3, StartMoves DEF Resting
    <3>3. CASE PollBusy
      BY <3>3, BusyMoves DEF Turns
    <3> QED BY <1>3, <3>1, <3>2, <3>3
  <2> QED BY <1>0, <1>3, <2>1 DEF OutIs, Began, Uploading
<1>4. CASE w = Cutter /\ CutFinished
  <2>1. worker[w].at = "none" /\ worker'[w].at = "put" /\ worker'[w].out \in {"done", "started"}
    BY <1>4, CutMoves DEF Turns
  <2> QED BY <1>0, <1>4, <2>1 DEF OutIs, Began, Uploading
<1>5. CASE w \in Bag /\ PollStart /\ w = worker[Poll].bag
  <2>1. worker[w].at = "none" /\ worker'[w].at = "sleep" /\ worker'[w].out = worker[w].out
    BY <1>5, StartMoves DEF Unspent, UnspentWho
  <2> QED BY <1>0, <2>1 DEF OutIs, Began, Uploading
<1>6. CASE w \in Bag /\ Handle(w)
  <2>1. worker[w].at = "handle"
    BY <1>6, HandleFrame
  <2> QED BY <1>0, <1>6, <2>1, HandleStarts DEF OutIs, Began, Uploading
<1>7. CASE w \in Bag /\ (Wake(w) \/ RealtimeAnswer(w) \/ Idles(w) \/ Ends(w) \/ Again(w))
  <2>1. /\ worker[w].at \in {"sleep", "answer", "idle", "check"}
        /\ worker'[w].at \in {"handle", "put", "check", "none", "sleep"}
        /\ worker'[w].out \in {"done", worker[w].out}
    BY <1>7, WakeMoves, AnswerMoves, IdleMoves, EndsMoves, AgainMoves DEF Turns, Resting
  <2>2. worker'[w].out = "done" \/ worker'[w].out = worker[w].out
    BY <2>1
  <2> QED BY <1>0, <2>1, <2>2 DEF OutIs, Began, Uploading
<1> QED BY <1>1, <1>2, <1>3, <1>4, <1>5, <1>6, <1>7, BagMover, PollMover, CutterMover, Workers

LEMMA OutsKept ==
    ASSUME Typed, Unspent, Outs, [PortalNext]_portalVars
    PROVE  Outs'
<1>1. Worker' = Worker
  BY ScriptKept DEF Typed
<1> QED BY <1>1, OutStep DEF Outs

(* What was executed stays executed; a clip waits to be cut after the      *)
(* command that ordered it was.                                            *)
LEMMA DealtGrows ==
    ASSUME Typed, [PortalNext]_portalVars, NEW b \in Bag
    PROVE  /\ dealt[b] \in Nat /\ dealt'[b] \in Nat /\ dealt'[b] >= dealt[b]
           /\ \A t \in Bag : Handle(t) /\ worker[t].bag = b => dealt'[b] > 0
<1>1. dealt \in [Bag -> Nat]
  BY DEF Typed, PortalTypeOK
<1>2. ASSUME NEW c, dealt' = [dealt EXCEPT ![c] = @ + 1]
      PROVE  /\ dealt'[b] \in Nat /\ dealt'[b] >= dealt[b]
             /\ b = c => dealt'[b] > 0
  BY <1>1, <1>2
<1>3. ASSUME NEW t \in Bag, Handle(t)
      PROVE  dealt' = [dealt EXCEPT ![worker[t].bag] = @ + 1]
  BY <1>3, HandleFrame
<1>4. PollBusy => dealt' = [dealt EXCEPT ![worker[Poll].bag] = @ + 1]
  BY DEF PollBusy
<1>5. /\ dealt'[b] \in Nat /\ dealt'[b] >= dealt[b]
  BY <1>1, <1>2, <1>3, <1>4, DealtFrame
<1>6. ASSUME NEW t \in Bag, Handle(t), worker[t].bag = b
      PROVE  dealt'[b] > 0
  BY <1>2, <1>3, <1>6
<1> QED BY <1>1, <1>5, <1>6

StillOrdered(b, kind) == b \in Bag /\ commands[b].kind = kind /\ dealt'[b] > 0

LEMMA OrderedKept ==
    ASSUME Typed, [PortalNext]_portalVars
    PROVE  \A b : \A kind : Ordered(b, kind) => StillOrdered(b, kind)
<1>1. \A b \in Bag : dealt[b] > 0 => dealt'[b] > 0
  BY DealtGrows
<1> QED BY <1>1 DEF Ordered, StillOrdered

(* Whoever handles a command of some kind has executed it.                 *)
LEMMA HandlesOrdered ==
    ASSUME Typed, [PortalNext]_portalVars, NEW t \in Bag, NEW kind, Handle(t), Deals(t, kind)
    PROVE  StillOrdered(worker[t].bag, kind)
<1>2. worker[t].bag \in Bag
  BY BagTyped, Workers DEF Deals
<1>3. commands[worker[t].bag].kind = kind
  BY DEF Deals, Kind
<1>4. dealt'[worker[t].bag] > 0
  BY <1>2, DealtGrows
<1> QED BY <1>2, <1>3, <1>4 DEF StillOrdered

LEMMA CutsFrame ==
    ASSUME [PortalNext]_portalVars
    PROVE  UNCHANGED cuts \/ CutFinished \/ \E t \in Bag : HandleArea(t)
<1>1. UNCHANGED portalVars \/ UartBag \/ RetuTake \/ RetuSend \/ PollTake \/ PollStart \/ PollBusy => UNCHANGED cuts
  BY DEF portalVars, uploads, UartBag, RetuTake, RetuSend, PollTake, PollStart, PollBusy
<1>2. ASSUME NEW w \in Worker,
             Put(w) \/ Advance(w) \/ UploadOpen(w) \/ UploadList(w) \/ UploadProgress(w) \/ UploadEnd(w)
      PROVE  UNCHANGED cuts
  BY <1>2 DEF uploads, Put, Advance, UploadOpen, UploadList, UploadProgress, UploadEnd
<1>3. ASSUME NEW t \in Bag, Wake(t) \/ RealtimeAnswer(t) \/ Idles(t) \/ Ends(t) \/ Again(t)
      PROVE  UNCHANGED cuts
  BY <1>3 DEF uploads, Wake, Wakes, RealtimeAnswer, Idles, Ends, Again
<1>4. ASSUME NEW t \in Bag, Handle(t)
      PROVE  UNCHANGED cuts \/ HandleArea(t)
  BY <1>4 DEF Handle, HandlePlain, HandleRealtime, HandleQuery, HandleUpload, HandleStop
<1> QED BY <1>1, <1>2, <1>3, <1>4, Steps DEF Moving

LEMMA CleanWas ==
    ASSUME [PortalNext]_portalVars, Clean'
    PROVE  Clean
BY StateFrame, RecvSpoilt DEF Clean

(* The body a thread will execute stays its own until it is executed.      *)
LEMMA GlobalOwn ==
    ASSUME Typed, Unspent, Reads, Sources, [PortalNext]_portalVars, Clean', NEW t \in Bag,
           worker'[t].at = "handle"
    PROVE  Global' = t
<1>1. Clean
  BY CleanWas
<1>2. CASE worker'[t] = worker[t]
  <2>1. worker[t].at = "handle" /\ Global = t
    BY <1>1, <1>2 DEF Sources
  <2>2. ~PollTake
    BY <2>1 DEF PollTake, WouldRead, Clean
  <2>3. taken # {} /\ "recv" \notin spoilt'
    BY <2>1 DEF Unspent, UnspentWho, Clean
  <2> QED BY <2>1, <2>2, <2>3, GlobalSame
<1>3. CASE worker'[t] # worker[t]
  <2>1. Wake(t)
    BY <1>3, HandleNew
  <2>2. worker[t].at = "sleep"
    BY <2>1 DEF Wake, Wakes
  <2>3. Global = t
    BY <1>1, <2>2 DEF Reads, Clean
  <2>4. Global' = Global
    BY <2>1 DEF Wake, Wakes, bags, Global
  <2> QED BY <2>3, <2>4
<1> QED BY <1>2, <1>3

LEMMA SourcesKept ==
    ASSUME Typed, Unspent, Reads, Outs, Sources, [PortalNext]_portalVars
    PROVE  Sources'
<1>0. Bag' = Bag /\ cuts \in Seq(Bag)
  BY ScriptKept, TypeParts DEF Typed
<1>1. ASSUME NEW k \in DOMAIN cuts' PROVE StillOrdered(cuts'[k], "area")
  <2>1. CASE UNCHANGED cuts
    <3>1. k \in DOMAIN cuts /\ Ordered(cuts[k], "area") /\ cuts'[k] = cuts[k]
      BY <2>1 DEF Sources
    <3>2. StillOrdered(cuts[k], "area")
      BY <3>1, OrderedKept
    <3> QED BY <3>1, <3>2
  <2>2. CASE CutFinished
    <3>1. cuts' = Tail(cuts) /\ cuts # <<>>
      BY <2>2 DEF CutFinished
    <3>2. k + 1 \in DOMAIN cuts /\ cuts'[k] = cuts[k + 1]
      BY <1>0, <3>1
    <3>3. Ordered(cuts[k + 1], "area")
      BY <3>2 DEF Sources
    <3>4. Ordered(cuts'[k], "area")
      BY <3>2, <3>3
    <3> QED BY <3>4, OrderedKept
  <2>3. ASSUME NEW t \in Bag, HandleArea(t) PROVE StillOrdered(cuts'[k], "area")
    <3>1. Handle(t) /\ Deals(t, "area") /\ (cuts' = cuts \/ cuts' = Append(cuts, worker[t].bag))
      BY <2>3 DEF Handle, HandleArea
    <3>2. StillOrdered(worker[t].bag, "area")
      BY <3>1, HandlesOrdered
    <3>3. (k \in DOMAIN cuts /\ cuts'[k] = cuts[k]) \/ cuts'[k] = worker[t].bag
      BY <1>0, <3>1
    <3>4. k \in DOMAIN cuts /\ cuts'[k] = cuts[k] => Ordered(cuts'[k], "area")
      BY DEF Sources
    <3>5. k \in DOMAIN cuts /\ cuts'[k] = cuts[k] => StillOrdered(cuts'[k], "area")
      BY <3>4, OrderedKept
    <3> QED BY <3>2, <3>3, <3>5
  <2> QED BY <2>1, <2>2, <2>3, CutsFrame
<1>2. ASSUME worker'[Cutter].at # "none" PROVE StillOrdered(worker'[Cutter].bag, "area")
  <2>1. CASE CutFinished
    <3>1. worker'[Cutter].bag = cuts[1] /\ 1 \in DOMAIN cuts
      <4>1. cuts # <<>> /\ \E o \in {"done", "started"} :
              worker' = [worker EXCEPT ![Cutter] = [Resting EXCEPT !.at = "put", !.bag = cuts[1], !.out = o]]
        BY <2>1 DEF CutFinished
      <4>2. \A b : \A o : [Resting EXCEPT !.at = "put", !.bag = b, !.out = o].bag = b
        BY DEF Resting
      <4> QED BY <1>0, <4>1, <4>2, TypeParts, Workers DEF Typed
    <3>2. Ordered(worker'[Cutter].bag, "area")
      BY <3>1 DEF Sources
    <3> QED BY <3>2, OrderedKept
  <2>2. CASE ~CutFinished
    <3>1. worker'[Cutter].bag = worker[Cutter].bag /\ worker[Cutter].at # "none"
      BY <1>2, <2>2, CutterMover, UploaderSteps, Workers DEF Outs
    <3>2. Ordered(worker'[Cutter].bag, "area")
      BY <3>1 DEF Sources
    <3> QED BY <3>2, OrderedKept
  <2> QED BY <2>1, <2>2
<1>3. ASSUME Clean', NEW t \in Bag, Began(t)' PROVE worker'[t].bag = t /\ StillOrdered(t, "upload")
  <2>0. Clean /\ t \in Worker /\ t # Cutter
    BY <1>3, CleanWas, Workers DEF Cutter
  <2>1. CASE Began(t) /\ worker'[t].bag = worker[t].bag
    <3>1. worker[t].bag = t /\ Ordered(t, "upload")
      BY <2>0, <2>1 DEF Sources
    <3> QED BY <2>1, <3>1, OrderedKept
  <2>2. CASE HandleUpload(t) /\ worker'[t].bag = worker[t].bag
    <3>1. Handle(t) /\ Deals(t, "upload") /\ worker[t].bag = t
      BY <2>0, <2>2 DEF Handle, HandleUpload, Deals, Reads, Clean
    <3> QED BY <2>2, <3>1, HandlesOrdered
  <2> QED BY <1>3, <2>0, <2>1, <2>2, OutStep
<1>4. ASSUME Clean', NEW t \in Bag, worker'[t].at = "handle" PROVE Global' = t
  BY <1>4, GlobalOwn
<1>5. \A b : \A kind : StillOrdered(b, kind) => b \in Bag' /\ commands'[b].kind = kind /\ dealt'[b] > 0
  <2>1. Bag' = Bag /\ commands' = commands
    BY ScriptKept DEF Typed
  <2> QED BY <2>1 DEF StillOrdered
<1> QED BY <1>0, <1>1, <1>2, <1>3, <1>4, <1>5 DEF Sources, Cutter, Ordered

-----------------------------------------------------------------------------
(* The list of uploads.  Without leaves the items at the places that are   *)
(* kept, each of them.                                                     *)
LEMMA WithoutIs ==
    ASSUME NEW S, g_uploadfileList \in Seq(S), NEW gone, Without(gone)
    PROVE  /\ g_uploadfileList' \in Seq(S)
           /\ Items' \subseteq Items
           /\ \A x \in Items' : \E k \in DOMAIN g_uploadfileList \ gone : g_uploadfileList[k] = x
           /\ \A k \in DOMAIN g_uploadfileList \ gone : g_uploadfileList[k] \in Items'
<1> DEFINE kept == DOMAIN g_uploadfileList \ gone
           n == Cardinality(kept)
<1>1. IsFiniteSet(kept) /\ n \in Nat /\ kept \subseteq 1..Len(g_uploadfileList) /\ kept \subseteq Nat
  <2>1. DOMAIN g_uploadfileList = 1..Len(g_uploadfileList) /\ Len(g_uploadfileList) \in Nat
    OBVIOUS
  <2>2. IsFiniteSet(1..Len(g_uploadfileList)) /\ kept \in SUBSET (1..Len(g_uploadfileList))
    BY <2>1, FS_Interval
  <2>3. IsFiniteSet(kept)
    BY <2>2, FS_Subset
  <2> QED BY <2>1, <2>2, <2>3, FS_CardinalityType
<1>2. PICK place \in [1..n -> kept] :
        /\ \A j, k \in DOMAIN place : j < k => place[j] < place[k]
        /\ g_uploadfileList' = [k \in DOMAIN place |-> g_uploadfileList[place[k]]]
  BY DEF Without
<1>3. \A k \in kept : g_uploadfileList[k] \in S /\ k \in DOMAIN g_uploadfileList
  OBVIOUS
<1> HIDE DEF n, kept
<1>4. /\ DOMAIN g_uploadfileList' = 1..n
      /\ \A j \in 1..n : place[j] \in kept /\ g_uploadfileList'[j] = g_uploadfileList[place[j]]
  BY <1>2
<1>5. g_uploadfileList' \in Seq(S)
  <2>1. g_uploadfileList' = [j \in 1..n |-> g_uploadfileList[place[j]]]
    BY <1>2
  <2>2. \A j \in 1..n : g_uploadfileList[place[j]] \in S
    BY <1>3, <1>4
  <2> QED BY <1>1, <2>1, <2>2
<1>6. \A k \in kept : \E j \in 1..n : place[j] = k
  <2>1. place \in Injection(1..n, kept)
    <3>1. ASSUME NEW j \in 1..n, NEW k \in 1..n, place[j] = place[k] PROVE j = k
      <4>1. place[j] \in Nat /\ place[k] \in Nat
        BY <1>1, <1>4
      <4>2. (j < k => place[j] < place[k]) /\ (k < j => place[k] < place[j])
        BY <1>2
      <4> QED BY <1>1, <3>1, <4>1, <4>2
    <3> QED BY <1>2, <3>1 DEF Injection, IsInjective
  <2>2. IsFiniteSet(1..n) /\ Cardinality(1..n) = n
    BY <1>1, FS_Interval
  <2>3. place \in Surjection(1..n, kept)
    BY <1>1, <2>1, <2>2, FS_Injection DEF n
  <2> QED BY <2>3 DEF Surjection
<1>7. \A x \in Items' : \E k \in kept : g_uploadfileList[k] = x
  BY <1>4 DEF Items
<1>8. \A k \in kept : g_uploadfileList[k] \in Items'
  BY <1>4, <1>6 DEF Items
<1> QED BY <1>3, <1>5, <1>7, <1>8 DEF kept, Items

LEMMA RemovedIs ==
    ASSUME NEW S, g_uploadfileList \in Seq(S), NEW O, NEW E, Removed(Places(O), Places(E))
    PROVE  /\ g_uploadfileList' \in Seq(S)
           /\ Items' \subseteq Items
           /\ \A x \in Items : x \notin E => x \in Items'
           /\ \A x \in Items' : x \notin O \/ x \notin E
<1>1. PICK gone \in SUBSET Places(E) :
        /\ \A k \in Places(E) : (\E p \in Places(O) : k <= p) => k \in gone
        /\ Without(gone)
  BY DEF Removed
<1>2. /\ g_uploadfileList' \in Seq(S)
      /\ Items' \subseteq Items
      /\ \A x \in Items' : \E k \in DOMAIN g_uploadfileList \ gone : g_uploadfileList[k] = x
      /\ \A k \in DOMAIN g_uploadfileList \ gone : g_uploadfileList[k] \in Items'
  BY <1>1, WithoutIs
<1>3. ASSUME NEW x \in Items, x \notin E PROVE x \in Items'
  BY <1>1, <1>2, <1>3 DEF Items, Places
<1>4. ASSUME NEW x \in Items', x \in O, x \in E PROVE FALSE
  <2>1. PICK k \in DOMAIN g_uploadfileList \ gone : g_uploadfileList[k] = x
    BY <1>2
  <2>2. k \in Places(O) /\ k \in Places(E) /\ k \in Nat
    BY <1>4, <2>1 DEF Places
  <2>3. k <= k
    BY <2>2
  <2> QED BY <1>1, <2>1, <2>2, <2>3
<1> QED BY <1>2, <1>3, <1>4

(* What a stop may take: what is of its message and channel.               *)
LEMMA StopTakes ==
    ASSUME NEW S, g_uploadfileList \in Seq(S), NEW t \in Bag, HandleStop(t)
    PROVE  /\ g_uploadfileList' \in Seq(S)
           /\ Items' \subseteq Items
           /\ \A x \in Items : ~uploaditem_eq_Chnid(x, Stopped) => x \in Items'
<1> DEFINE E == {x \in Items : uploaditem_eq_Chnid(x, Stopped)}
           first == {k \in Places(E) : \A j \in Places(E) : k <= j}
<1>1. CASE UNCHANGED g_uploadfileList
  BY <1>1 DEF Items
<1>2. CASE Removed(first, Places(E))
  <2>1. PICK gone \in SUBSET Places(E) : Without(gone)
    BY <1>2 DEF Removed
  <2>2. /\ g_uploadfileList' \in Seq(S)
        /\ Items' \subseteq Items
        /\ \A k \in DOMAIN g_uploadfileList \ gone : g_uploadfileList[k] \in Items'
    BY <2>1, WithoutIs
  <2>3. ASSUME NEW x \in Items, x \notin E PROVE x \in Items'
    <3> HIDE DEF E
    <3> QED BY <2>1, <2>2, <2>3 DEF Items, Places
  <2> QED BY <2>2, <2>3
<1> QED BY <1>1, <1>2 DEF HandleStop

LEMMA EndTakes ==
    ASSUME NEW S, g_uploadfileList \in Seq(S), NEW w \in Worker, UploadEnd(w)
    PROVE  /\ g_uploadfileList' \in Seq(S)
           /\ Items' \subseteq Items
           /\ \A x \in Items : ~uploaditem_eq(x, Item(w)) => x \in Items'
           /\ Item(w) \notin Items'
<1> DEFINE E == {x \in Items : uploaditem_eq(x, Item(w))}
<1>1. Removed(Places({Item(w)}), Places(E))
  BY DEF UploadEnd
<1>2. Item(w) \in Items => Item(w) \in E
  BY DEF uploaditem_eq
<1>3. \A x \in Items : ~uploaditem_eq(x, Item(w)) => x \notin E
  OBVIOUS
<1> HIDE DEF E
<1>4. /\ g_uploadfileList' \in Seq(S)
      /\ Items' \subseteq Items
      /\ \A x \in Items : x \notin E => x \in Items'
      /\ \A x \in Items' : x \notin {Item(w)} \/ x \notin E
  BY <1>1, RemovedIs
<1> QED BY <1>2, <1>3, <1>4

LEMMA ListFrame ==
    ASSUME [PortalNext]_portalVars
    PROVE  \/ UNCHANGED g_uploadfileList
           \/ \E w \in Worker : UploadList(w) \/ UploadEnd(w)
           \/ \E t \in Bag : HandleStop(t)
<1>1. UNCHANGED portalVars \/ UartBag \/ RetuTake \/ RetuSend \/ PollTake \/ PollStart \/ PollBusy \/ CutFinished
      => UNCHANGED g_uploadfileList
  BY DEF portalVars, uploads, UartBag, RetuTake, RetuSend, PollTake, PollStart, PollBusy, CutFinished
<1>2. ASSUME NEW w \in Worker, Put(w) \/ Advance(w) \/ UploadOpen(w) \/ UploadProgress(w)
      PROVE  UNCHANGED g_uploadfileList
  BY <1>2 DEF uploads, Put, Advance, UploadOpen, UploadProgress
<1>3. ASSUME NEW t \in Bag, Wake(t) \/ RealtimeAnswer(t) \/ Idles(t) \/ Ends(t) \/ Again(t)
      PROVE  UNCHANGED g_uploadfileList
  BY <1>3 DEF uploads, Wake, Wakes, RealtimeAnswer, Idles, Ends, Again
<1>4. ASSUME NEW t \in Bag, Handle(t)
      PROVE  UNCHANGED g_uploadfileList \/ HandleStop(t)
  BY <1>4 DEF Handle, HandlePlain, HandleRealtime, HandleQuery, HandleArea, HandleUpload
<1> QED BY <1>1, <1>2, <1>3, <1>4, Steps DEF Moving

LEMMA ListsIs ==
    ASSUME NEW S, g_uploadfileList \in Seq(S), NEW w \in Worker, UploadList(w), Item(w) \in S
    PROVE  /\ g_uploadfileList' \in Seq(S)
           /\ \A x : x \in Items' <=> x \in Items \/ x = Item(w)
<1> DEFINE L == g_uploadfileList
           i == Item(w)
<1>1. g_uploadfileList' = <<i>> \o L /\ L \in Seq(S) /\ i \in S /\ Items = {L[k] : k \in DOMAIN L}
  BY DEF UploadList, Items
<1>i. Items' = {g_uploadfileList'[k] : k \in DOMAIN g_uploadfileList'}
  BY DEF Items
<1> HIDE DEF L, i
<1>2. <<i>> \in Seq(S) /\ Len(<<i>>) = 1 /\ <<i>>[1] = i
  BY <1>1
<1>3. /\ g_uploadfileList' \in Seq(S) /\ DOMAIN g_uploadfileList' = 1..(Len(L) + 1)
      /\ g_uploadfileList'[1] = i
      /\ \A k \in 1..Len(L) : g_uploadfileList'[k + 1] = L[k]
      /\ DOMAIN L = 1..Len(L) /\ Len(L) \in Nat
  BY <1>1, <1>2
<1>4. ASSUME NEW x \in Items' PROVE x \in Items \/ x = i
  <2>1. PICK k \in 1..(Len(L) + 1) : g_uploadfileList'[k] = x
    BY <1>i, <1>3
  <2>2. CASE k = 1
    BY <1>3, <2>1, <2>2
  <2>3. CASE k # 1
    <3>1. k - 1 \in 1..Len(L) /\ (k - 1) + 1 = k
      BY <1>3, <2>3
    <3>2. g_uploadfileList'[(k - 1) + 1] = L[k - 1]
      BY <1>3, <3>1
    <3> QED BY <1>1, <1>3, <2>1, <3>1, <3>2
  <2> QED BY <2>2, <2>3
<1>5. ASSUME NEW x, x \in Items \/ x = i PROVE x \in Items'
  <2>1. CASE x = i
    <3>1. 1 \in 1..(Len(L) + 1)
      BY <1>3
    <3> QED BY <1>i, <1>3, <2>1, <3>1
  <2>2. CASE x \in Items
    <3>1. PICK k \in 1..Len(L) : L[k] = x
      BY <1>1, <1>3, <2>2
    <3>2. k + 1 \in 1..(Len(L) + 1) /\ g_uploadfileList'[k + 1] = x
      BY <1>3, <3>1
    <3> QED BY <1>i, <1>3, <3>2
  <2> QED BY <1>5, <2>1, <2>2
<1> QED BY <1>3, <1>4, <1>5 DEF i

(* What is listed for a worker.                                            *)
LEMMA ItemIs ==
    ASSUME Typed, NEW w \in Worker, worker[w].bag \in Bag
    PROVE  /\ Item(w) \in UploadItem /\ Item(w).by = w
           /\ Item(w).id = commands[worker[w].bag].id /\ Item(w).serial = commands[worker[w].bag].serial
<1>1. commands \in Seq(Command)
  BY DEF Typed, PortalTypeOK, PortalScript, commands
<1> DEFINE c == commands[worker[w].bag]
<1>2. c \in Command
  BY <1>1 DEF Bag
<1>3. Item(w) = [by |-> w, id |-> c.id, serial |-> c.serial,
                 chn |-> IF w = Cutter \/ c.id = "area" THEN 0 ELSE c.chn]
  BY DEF Item
<1> HIDE DEF c
<1> QED BY <1>2, <1>3 DEF Command, UploadItem, c

LEMMA UploaderIs ==
    ASSUME Typed, Outs, NEW w \in Worker, Uploading(w)
    PROVE  /\ w # Poll /\ worker[w].at \notin {"none", "sleep"} /\ worker[w].bag \in Bag /\ Began(w)
<1>1. OutIs(w) /\ Seated(w)
  BY DEF Outs, Typed, Seats
<1>2. /\ worker[w].at \in {"put", "tail", "perform"} /\ worker[w].out \in {"started", "progress"}
  BY <1>1 DEF OutIs, Uploading
<1>3. w # Poll
  BY <1>1, <1>2 DEF Seated
<1> QED BY <1>2, <1>3, BagTyped DEF Began

(* While the order of the commands is kept, no two upload for one bag.     *)
LEMMA UploadsApart ==
    ASSUME Typed, Outs, Sources, Clean, NEW v \in Worker, NEW w \in Worker, v # w, Uploading(v), Uploading(w)
    PROVE  worker[v].bag # worker[w].bag
<1>1. /\ v # Poll /\ w # Poll /\ Began(v) /\ Began(w) /\ worker[v].at # "none" /\ worker[w].at # "none"
  BY UploaderIs
<1>2. \A u \in Bag : Began(u) => worker[u].bag = u /\ commands[u].kind = "upload"
  BY DEF Sources, Ordered
<1>3. worker[Cutter].at # "none" => commands[worker[Cutter].bag].kind = "area"
  BY DEF Sources, Ordered
<1> QED BY <1>1, <1>2, <1>3, Workers

LEMMA UploadOrdered ==
    ASSUME Typed, Outs, Sources, Clean, NEW w \in Worker, Uploading(w)
    PROVE  worker[w].bag \in Bag /\ dealt[worker[w].bag] > 0
<1>1. w # Poll /\ Began(w) /\ worker[w].at # "none"
  BY UploaderIs
<1> QED BY <1>1, Workers DEF Sources, Ordered

(* What is listed belongs to who is uploading it.                          *)
LEMMA ListedIsOwn ==
    ASSUME Typed, Unspent, Outs, Listed, [PortalNext]_portalVars
    PROVE  /\ g_uploadfileList' \in Seq(UploadItem)
           /\ \A x \in Items' : x \in Items \/ \E w \in Worker : UploadList(w) /\ x = Item(w)
           /\ \A w \in Worker : UploadEnd(w) => Item(w) \notin Items'
           /\ \A w \in Worker : UploadList(w) => Item(w) \in Items'
<1>0. g_uploadfileList \in Seq(UploadItem) /\ \A x \in Items : Uploading(x.by) /\ Item(x.by) = x
  BY DEF Listed, UploadFindsItself
<1>1. ASSUME NEW w \in Worker, UploadList(w)
      PROVE  /\ g_uploadfileList' \in Seq(UploadItem) /\ \A x : x \in Items' <=> x \in Items \/ x = Item(w)
  <2>1. worker[w].bag \in Bag
    BY <1>1, BagTyped DEF UploadList
  <2> QED BY <1>0, <1>1, <2>1, ItemIs, ListsIs
<1>2. ASSUME NEW w \in Worker, UploadEnd(w)
      PROVE  g_uploadfileList' \in Seq(UploadItem) /\ Items' \subseteq Items /\ Item(w) \notin Items'
  BY <1>0, <1>2, EndTakes
<1>3. ASSUME NEW t \in Bag, HandleStop(t)
      PROVE  g_uploadfileList' \in Seq(UploadItem) /\ Items' \subseteq Items
  BY <1>0, <1>3, StopTakes
<1>4. UNCHANGED g_uploadfileList => g_uploadfileList' \in Seq(UploadItem) /\ Items' = Items
  BY <1>0 DEF Items
<1> QED BY <1>1, <1>2, <1>3, <1>4, ListFrame

(* StoppedOnce and CameTwice of an item, after the step.                   *)
StoppedNow(x) ==
    \E b \in Bag : /\ commands[b].kind = "stop" /\ dealt'[b] > 0
                   /\ commands[b].id = x.id /\ (x.id = "area" \/ commands[b].chn = x.chn)
CameNow(x) ==
    \/ \E b \in Bag : dealt'[b] > 1
    \/ \E b, c \in Bag : b # c /\ dealt'[b] > 0 /\ dealt'[c] > 0
                         /\ \A k \in {b, c} : commands[k].id = x.id /\ commands[k].serial = x.serial

LEMMA ExcusesKept ==
    ASSUME Typed, [PortalNext]_portalVars
    PROVE  \A x : (StoppedOnce(x) => StoppedNow(x)) /\ (CameTwice(x) => CameNow(x))
<1>1. \A b \in Bag : (dealt[b] > 0 => dealt'[b] > 0) /\ (dealt[b] > 1 => dealt'[b] > 1)
  BY DealtGrows
<1> QED BY <1>1 DEF StoppedOnce, StoppedNow, CameTwice, CameNow

(* Another's item goes with an upload's own only if its serial number came *)
(* with two commands.                                                      *)
LEMMA EndTakesTwice ==
    ASSUME Typed, Outs, Sources, Clean, Listed, [PortalNext]_portalVars, NEW v \in Worker, NEW w \in Worker,
           v # w, UploadEnd(v), Uploading(w), Item(w) \in Items, Item(w) \notin Items'
    PROVE  CameNow(Item(w))
<1>1. Uploading(v)
  BY DEF UploadEnd, Uploading
<1> DEFINE b == worker[v].bag
           c == worker[w].bag
<1>2. b \in Bag /\ c \in Bag /\ b # c /\ dealt[b] > 0 /\ dealt[c] > 0
  BY <1>1, UploadOrdered, UploadsApart
<1>3. uploaditem_eq(Item(w), Item(v))
  BY EndTakes DEF Listed
<1>4. /\ Item(v).id = commands[b].id /\ Item(v).serial = commands[b].serial
      /\ Item(w).id = commands[c].id /\ Item(w).serial = commands[c].serial
  BY <1>2, ItemIs
<1> HIDE DEF b, c
<1>5. dealt'[b] > 0 /\ dealt'[c] > 0
  BY <1>2, DealtGrows
<1> QED BY <1>2, <1>3, <1>4, <1>5 DEF CameNow, uploaditem_eq

(* A stop takes an item only if it was for its message and channel.        *)
LEMMA StopTakesStopped ==
    ASSUME Typed, Reads, Sources, Clean, Listed, [PortalNext]_portalVars, NEW t \in Bag, HandleStop(t),
           NEW x \in Items, x \notin Items'
    PROVE  StoppedNow(x)
<1>1. Handle(t) /\ Deals(t, "stop") /\ worker[t].at = "handle"
  BY DEF Handle, HandleStop, Deals
<1>2. worker[t].bag = t /\ Global = t
  BY <1>1 DEF Reads, Sources, Clean
<1>3. Body = commands[t] /\ commands[t].kind = "stop"
  BY <1>1, <1>2 DEF Body, Global, Deals, Kind
<1>4. uploaditem_eq_Chnid(x, Stopped)
  BY StopTakes DEF Listed
<1>5. x.id = commands[t].id /\ (x.id = "area" \/ commands[t].chn = x.chn)
  BY <1>3, <1>4 DEF uploaditem_eq_Chnid, Stopped
<1>6. dealt'[t] > 0
  BY <1>1, <1>2, DealtGrows
<1> QED BY <1>3, <1>5, <1>6 DEF StoppedNow

LEMMA ListedKept ==
    ASSUME Typed, Unspent, Reads, Outs, Sources, Listed, [PortalNext]_portalVars
    PROVE  Listed'
<1>0. Worker' = Worker /\ commands' = commands /\ Bag' = Bag
  BY ScriptKept DEF Typed
<1>1. /\ g_uploadfileList' \in Seq(UploadItem)
      /\ \A x \in Items' : x \in Items \/ \E w \in Worker : UploadList(w) /\ x = Item(w)
      /\ \A w \in Worker : UploadEnd(w) => Item(w) \notin Items'
      /\ \A w \in Worker : UploadList(w) => Item(w) \in Items'
  BY ListedIsOwn
<1>2. \A w \in Worker : worker'[w].bag = worker[w].bag => Item(w)' = Item(w)
  BY <1>0 DEF Item, Cutter
<1>3. ASSUME NEW x \in Items' PROVE x.by \in Worker /\ Uploading(x.by)' /\ Item(x.by)' = x
  <2>1. ASSUME NEW w \in Worker, UploadList(w), x = Item(w) PROVE x.by \in Worker /\ Uploading(x.by)' /\ Item(x.by)' = x
    <3>1. worker'[w].at = "perform" /\ worker'[w].bag = worker[w].bag /\ worker[w].bag \in Bag
      BY <2>1, ListMoves, BagTyped DEF Turns, Keeps, UploadList
    <3>2. x.by = w
      BY <2>1, <3>1, ItemIs
    <3> QED BY <1>2, <2>1, <3>1, <3>2 DEF Uploading
  <2>2. CASE x \in Items
    <3>1. Uploading(x.by) /\ Item(x.by) = x /\ x.by \in Worker
      <4>1. x \in UploadItem
        BY <2>2 DEF Listed, Items
      <4> QED BY <2>2, <4>1 DEF Listed, UploadFindsItself, UploadItem
    <3> DEFINE w == x.by
    <3>2. w \in Worker /\ Uploading(w) /\ Item(w) = x
      BY <3>1
    <3> HIDE DEF w
    <3>3. ~UploadEnd(w)
      BY <1>1, <3>2
    <3>4. Uploading(w)' /\ worker'[w].bag = worker[w].bag
      BY <3>2, <3>3, OutStep
    <3>5. Item(w)' = x /\ Uploading(w)' /\ w \in Worker
      BY <1>2, <3>2, <3>4
    <3> QED BY <3>5 DEF w
  <2> QED BY <1>1, <2>1, <2>2
<1>4. ASSUME Clean', NEW w \in Worker, Uploading(w)'
      PROVE  /\ Item(w)' = Item(w)
             /\ Item(w) \in Items' \/ StoppedNow(Item(w)) \/ CameNow(Item(w))
  <2>0. Clean
    BY <1>4, CleanWas
  <2>1. CASE UploadList(w)
    BY <1>1, <1>2, <2>1, ListMoves DEF Keeps
  <2>2. CASE ~UploadList(w)
    <3>1. Uploading(w)
      BY <1>4, <2>2, OutStep
    <3>2. ~UploadEnd(w)
      <4>1. UploadEnd(w) => worker'[w].at = "put" /\ worker'[w].out = "done"
        BY EndMoves DEF Turns
      <4> QED BY <1>4, <4>1 DEF Uploading
    <3>3. Item(w)' = Item(w)
      BY <1>2, <3>1, <3>2, OutStep
    <3>4. Item(w) \in Items \/ StoppedOnce(Item(w)) \/ CameTwice(Item(w))
      BY <2>0, <3>1 DEF Listed, UploadFindsItself, Clean
    <3>5. CASE Item(w) \in Items /\ Item(w) \notin Items'
      <4>1. ASSUME NEW v \in Worker, UploadEnd(v) PROVE CameNow(Item(w))
        <5>1. v # w
          BY <3>2, <4>1
        <5> QED BY <2>0, <3>1, <3>5, <4>1, <5>1, EndTakesTwice
      <4>2. ASSUME NEW t \in Bag, HandleStop(t) PROVE StoppedNow(Item(w))
        BY <2>0, <3>5, <4>2, StopTakesStopped
      <4>3. ASSUME NEW v \in Worker, UploadList(v) PROVE FALSE
        <5>1. worker[v].bag \in Bag
          BY <4>3, BagTyped DEF UploadList
        <5>2. \A x : x \in Items' <=> x \in Items \/ x = Item(v)
          BY <4>3, <5>1, ItemIs, ListsIs DEF Listed
        <5> QED BY <3>5, <5>2
      <4>4. ~UNCHANGED g_uploadfileList
        BY <3>5 DEF Items
      <4> QED BY <3>3, <4>1, <4>2, <4>3, <4>4, ListFrame
    <3> QED BY <3>3, <3>4, <3>5, ExcusesKept
  <2> QED BY <2>1, <2>2
<1>5. \A x : (StoppedNow(x) => StoppedOnce(x)') /\ (CameNow(x) => CameTwice(x)')
  BY <1>0 DEF StoppedNow, StoppedOnce, CameNow, CameTwice
<1>6. UploadItem' = UploadItem
  BY <1>0 DEF UploadItem
<1>7. ASSUME Clean', NEW w \in Worker, Uploading(w)'
      PROVE  (Item(w) \in Items \/ StoppedOnce(Item(w)) \/ CameTwice(Item(w)))'
  <2>1. Item(w)' \in Items' \/ StoppedNow(Item(w)') \/ CameNow(Item(w)')
    BY <1>4, <1>7
  <2> QED BY <1>0, <2>1 DEF StoppedNow, StoppedOnce, CameNow, CameTwice
<1>8. UploadFindsItself'
  BY <1>0, <1>3, <1>7 DEF UploadFindsItself, Clean
<1> QED BY <1>1, <1>6, <1>8 DEF Listed

-----------------------------------------------------------------------------
(* All that has to be known of a state to know it of the next.             *)
PortalIInv == Typed /\ Owing /\ Unspent /\ BusyIs /\ DealtIs /\ ResultIs /\ UploadsAre

LEMMA PortalStarts ==
    ASSUME PortalInit
    PROVE  PortalIInv
<1>1. portal \in PortalScript /\ Len(commands) \in Nat
  BY PortalAssumption DEF PortalInit, PortalScript, commands
<1>2. 0 \in Entry /\ MAX_BAG_NUM \in Nat /\ MAX_BAG_NUM > 1
  BY PortalAssumption DEF Entry
<1>3. /\ worker = [w \in Worker |-> Resting] /\ Resting.at = "none" /\ Resting.out = "done"
      /\ Resting.bag = 0 /\ ~Resting.door /\ Resting \in WorkerState
  BY Rests DEF PortalInit, Resting
<1>a. \A w \in Worker : worker[w] = Resting
  BY <1>3
<1>4. /\ stRecvBagQueue \in Ring(Bag \cup {0}) /\ head = 0 /\ tail = 0
      /\ \A n \in Entry : stRecvBagQueue.slot[n] = 0
  BY <1>2 DEF PortalInit, EmptyRing, Ring, head, tail
<1>5. <<0, "done">> \in OneAnswer
  BY DEF OneAnswer, Out
<1>6. stRetuBagQueue \in Ring(OneAnswer) /\ stRetuBagQueue.head = 0 /\ stRetuBagQueue.tail = 0
  <2> HIDE DEF OneAnswer
  <2> QED BY <1>2, <1>5 DEF PortalInit, EmptyRing, Ring
<1>7. PortalTypeOK
  <2>1. TypeRetu
    <3>1. sending = [at |-> "wait", entry |-> 0, expected |-> <<0, "done">>] /\ owed = <<>>
      BY DEF PortalInit
    <3> HIDE DEF OneAnswer
    <3>2. sending \in [at : {"wait", "send"}, entry : Entry, expected : OneAnswer] /\ owed \in Seq(OneAnswer)
      BY <1>2, <1>5, <3>1
    <3> QED BY <1>6, <3>2 DEF TypeRetu
  <2>2. TypeRecv
    BY <1>1, <1>2, <1>4 DEF TypeRecv, PortalInit
  <2>3. TypeRest
    <3>1. dealt \in [Bag -> Nat] /\ cuts \in Seq(Bag)
      BY DEF PortalInit
    <3>2. /\ g_esBuBaioProcState = "STATE_USER_IDLE" /\ g_KakaAckBag = "ok" /\ ~hurried /\ ~opened
          /\ hurried \in BOOLEAN /\ opened \in BOOLEAN /\ met = {} /\ spoilt = {}
      BY DEF PortalInit
    <3> QED BY <3>1, <3>2 DEF TypeRest
  <2>4. worker \in [Worker -> WorkerState]
    BY <1>3
  <2> QED BY <1>1, <2>1, <2>2, <2>3, <2>4, PortalTypes
<1>8. Seats
  <2>1. \A n \in Entry : 0 <= n
    BY EntryNext
  <2>2. \A w \in Worker : Seated(w)
    BY <1>3, <1>a DEF Seated
  <2> QED BY <1>4, <2>1, <2>2 DEF Seats
<1>9. Owing
  <2>1. Count(stRetuBagQueue) = 0
    BY <1>6, RingCount
  <2>2. Contents(stRetuBagQueue) = <<>>
    BY <2>1 DEF Contents
  <2> QED BY <1>3, <1>a, <2>2 DEF Owing, PortalInit
<1>10. Unspent
  <2>1. \A n \in Entry : ~InRing(n)
    BY <1>4, EntryNext DEF InRing
  <2>2. Poll \in Worker /\ Bag \subseteq Worker
    BY Workers
  <2> QED BY <1>3, <1>a, <1>4, <2>1, <2>2 DEF Unspent, UnspentRing, UnspentWho, PortalInit
<1>11. \A t \in Bag : worker[t] = Resting /\ ~Middle(t) /\ ~Executing(t)
  BY <1>3, <1>a, Workers DEF Middle, Executing
<1>12. BusyIs
  BY <1>3, <1>11 DEF BusyIs, BusyHeld, Doors, PortalInit
<1>13. DealtIs
  BY <1>3, <1>a, <1>11, Workers DEF DealtIs, Reads, DealtWithOnce, Pending, PortalInit
<1>14. ResultIs
  BY <1>3, <1>11 DEF ResultIs, PortalInit
<1>15. UploadsAre
  <2>1. Outs
    BY <1>3, <1>a DEF Outs, OutIs
  <2>2. \A w \in Worker : ~Began(w) /\ ~Uploading(w)
    BY <1>3, <1>a DEF Began, Uploading
  <2>3. Sources
    BY <1>3, <1>a, <2>2, Workers DEF Sources, PortalInit
  <2>4. g_uploadfileList = <<>> /\ Items = {}
    BY DEF PortalInit, Items
  <2>5. Listed
    BY <2>2, <2>4 DEF Listed, UploadFindsItself
  <2> QED BY <2>1, <2>3, <2>5 DEF UploadsAre
<1> QED BY <1>7, <1>8, <1>9, <1>10, <1>12, <1>13, <1>14, <1>15 DEF PortalIInv, Typed

LEMMA PortalStays ==
    ASSUME PortalIInv, [PortalNext]_portalVars
    PROVE  PortalIInv'
<1>1. Typed' /\ Owing'
  BY TypedKept DEF PortalIInv
<1>2. Unspent' /\ BusyIs' /\ ResultIs'
  BY UnspentKept, BusyKept, ResultKept DEF PortalIInv
<1>3. DealtIs'
  BY ReadsKept, DealtKept DEF PortalIInv, DealtIs
<1>4. UploadsAre'
  BY OutsKept, SourcesKept, ListedKept DEF PortalIInv, DealtIs, UploadsAre
<1> QED BY <1>1, <1>2, <1>3, <1>4 DEF PortalIInv

(* The inductive invariant holds of every run of the portal, whatever the  *)
(* script, the size of the rings and the number of commands.               *)
THEOREM PortalHolds == PortalSpec => []PortalIInv
BY PortalStarts, PortalStays, PTL DEF PortalSpec

(* g_esBuBaioProcState is never busy without a thread that will set it     *)
(* back, and two threads are in the middle of a command only after one of  *)
(* the two races.                                                          *)
THEOREM PortalStateHolds == PortalSpec => []PortalInv
<1>1. PortalIInv => PortalInv
  BY DEF PortalIInv, PortalInv, Typed, BusyIs
<1> QED BY <1>1, PortalHolds, PTL

(* No bag is lost, executed twice or both executed and refused, as long as *)
(* the global is not changed under a reader and the ring is never full.    *)
THEOREM DealtWithOnceHolds == PortalSpec => []DealtWithOnce
<1>1. PortalIInv => DealtWithOnce
  BY DEF PortalIInv, DealtIs
<1> QED BY <1>1, PortalHolds, PTL

(* Answers leave the ring as they were put, in order, as long as it was    *)
(* never full and no two workers put at once.                              *)
THEOREM AnswersInOrderHolds == PortalSpec => []AnswersInOrder
<1>1. PortalIInv => AnswersInOrder
  BY DEF PortalIInv, Owing, AnswersInOrder
<1> QED BY <1>1, PortalHolds, PTL

(* A realtime command that ran alone is answered with its own result.      *)
THEOREM ResultIsOwnHolds == PortalSpec => ResultIsOwn
<1>1. PortalIInv => (\A t \in Bag : RealtimeAnswer(t) => g_KakaAckBag = worker[t].own \/ t \in met)
  BY DEF PortalIInv, ResultIs, RealtimeAnswer
<1> QED BY <1>1, PortalHolds, PTL DEF ResultIsOwn

(* What is listed is being uploaded by whom it names, and who uploads is   *)
(* listed, unless a stop for its channel or a second command with its      *)
(* serial number took it away: for every list of uploads, and however      *)
(* they, the stops and the cut thread interleave.                          *)
THEOREM UploadFindsItselfHolds == PortalSpec => []UploadFindsItself
<1>1. PortalIInv => UploadFindsItself
  BY DEF PortalIInv, UploadsAre, Listed
<1> QED BY <1>1, PortalHolds, PTL
=============================================================================
