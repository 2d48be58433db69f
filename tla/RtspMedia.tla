------------------------------ MODULE RtspMedia ------------------------------
(***************************************************************************)
(* The two media sessions of the RTSP server: "live.sdp", fed by the       *)
(* thread that reads the live encoder (cdr_live_thread_pro), and           *)
(* "rec.sdp", fed by the thread that reads recorded files                  *)
(* (rec_mp4_read_pro).  Both hand frames over with cdr_rtsp_send_frame:    *)
(* copy into a frame buffer of the session, queue a pointer to it.  One    *)
(* sender thread per session takes pointers off the queue and packs what   *)
(* they point to (rtp_send_form_stream_func).                              *)
(*                                                                         *)
(* A connection's PLAY and TEARDOWN run the session's callback, which      *)
(* turns the live flag and the replay's pause on and off; the phone        *)
(* application's set_rec_time runs cdr_rec_settime.  A callback is several *)
(* assignments to globals, with those of other threads in between.         *)
(*                                                                         *)
(* The buffer index is ONE static variable for both sessions, used without *)
(* a lock.  As long as one session is fed at a time that is harmless;      *)
(* mixed says when it was not so, and from then on nothing is promised     *)
(* until a frame is handed over with all the rest of the server idle.      *)
(***************************************************************************)
EXTENDS OsalQueue

CONSTANTS
    Caller,      \* threads that run callbacks: RTSP connections, the phone application
    MaxOverlaps, \* bound: hand-overs while the other session is still being fed
    MaxCalls     \* bound: callbacks, and changes of the push

ASSUME MediaAssumption == MaxOverlaps \in Nat /\ MaxCalls \in Nat

VARIABLES
    livePlay,    \* g_nLivePlayFlag = 1
    pause,       \* g_rec_pasueflag = 1
    push,        \* g_ucRealtimePushAVFlag = 1
    cbFlag,      \* static iFrameFlag of live_stream_callbak: wait for a key frame
    thFlag,      \* static iFrameFlag of cdr_live_thread_pro: the SPS was seen
    fresh,       \* live was turned on, and no frame was handed over since
    todo,        \* what each producer has still to hand over, the next first
    sendPc,      \* each producer's place in cdr_rtsp_send_frame
    index,       \* its static index
    queue,       \* mQueueBuffer
    sending,     \* the buffer each sender packs, NULL when none
    last,        \* the unit the replay's queue took last
    mixed,       \* both sessions were being fed
    wild,        \* a buffer past the last was used
    callPc,      \* each caller's place in its callback
    overlaps,    \* how often a frame was handed over while the other session was fed
    calls        \* how often the clients and the portal did something

control == <<livePlay, pause, push, callPc, calls>>
producers == <<cbFlag, thFlag, todo, sendPc, index, mixed, wild, overlaps>>
media == <<queue, sending, last>>
vars == <<control, fresh, producers, media>>

Session == {"live", "rec"}
Other(s) == IF s = "live" THEN "rec" ELSE "live"

(* What an H.264 unit is: parameter sets, a key slice, another slice.      *)
Kind == {"sps", "pps", "I", "P"}

(* The units of a picture, as the encoder packs them and as                *)
(* rec_stream_callbak hands over a frame read from a file.                 *)
Picture(k) == IF k = "I" THEN <<"sps", "pps", "I">> ELSE <<"P">>

Init ==
    /\ livePlay = FALSE /\ pause = TRUE /\ push = FALSE
    /\ cbFlag = FALSE /\ thFlag = FALSE /\ fresh = FALSE
    /\ todo = [s \in Session |-> <<>>]
    /\ sendPc = [s \in Session |-> "idle"]
    /\ index = 0
    /\ queue = [s \in Session |-> OSAL_QueueCreate]
    /\ sending = [s \in Session |-> NULL]
    /\ last = "P"
    /\ mixed = FALSE /\ wild = FALSE
    /\ callPc = [c \in Caller |-> "idle"]
    /\ overlaps = 0 /\ calls = 0

-----------------------------------------------------------------------------
(* cdr_rtsp_send_frame, called by s's producer with the unit Head(todo[s]) *)

Busy(s) == queue[s].numElem > 0 \/ sending[s] # NULL \/ sendPc[s] # "idle"

(* The call, up to the index.  Its test for a full queue compares with     *)
(* NB_BUFFER, which a ring of NB_BUFFER - 1 elements never holds (MediaInv)*)
(* so the return there is never taken.                                     *)
Enter(s) ==
    /\ index' = index % NB_BUFFER
    /\ sendPc' = [sendPc EXCEPT ![s] = "copy"]
    /\ IF Busy(Other(s))
       THEN mixed' = TRUE /\ overlaps < MaxOverlaps /\ overlaps' = overlaps + 1
       ELSE mixed' = (mixed /\ Busy(s)) /\ UNCHANGED overlaps

(* memcpy to bufPtr[index], and mBuf[index].                               *)
Copy(s) ==
    /\ sendPc[s] = "copy"
    /\ IF index \in Slot
       THEN sendPc' = [sendPc EXCEPT ![s] = "queue"] /\ UNCHANGED wild
       ELSE wild' = TRUE /\ UNCHANGED sendPc
    /\ UNCHANGED <<control, fresh, cbFlag, thFlag, todo, index, mixed, overlaps, media>>

(* OSAL_Queue of &mBuf[index]; the static is read again.                   *)
Enqueue(s) ==
    /\ sendPc[s] = "queue"
    /\ index \in Slot /\ ~Refuses(queue[s])
    /\ queue' = [queue EXCEPT ![s] = OSAL_Queue(@, index)]
    /\ last' = IF s = "rec" THEN Head(todo[s]) ELSE last
    /\ sendPc' = [sendPc EXCEPT ![s] = "next"]
    /\ UNCHANGED <<control, fresh, cbFlag, thFlag, todo, index, mixed, wild, overlaps, sending>>

EnqueueWild(s) ==
    /\ sendPc[s] = "queue"
    /\ index \notin Slot
    /\ wild' = TRUE
    /\ UNCHANGED <<control, fresh, cbFlag, thFlag, todo, sendPc, index, mixed, overlaps, media>>

(* A bug QueuedFramesIntact must notice: the index moves on although the   *)
(* frame was refused.                                                      *)
RefusedMovesOn(s) ==
    /\ sendPc[s] = "queue" /\ index \in Slot /\ Refuses(queue[s])
    /\ index' = index + 1
    /\ sendPc' = [sendPc EXCEPT ![s] = "idle"]
    /\ IF s = "live"
       THEN cbFlag' = FALSE /\ todo' = [todo EXCEPT ![s] = Tail(@)]
       ELSE UNCHANGED <<cbFlag, todo>>
    /\ UNCHANGED <<control, fresh, thFlag, mixed, wild, overlaps, media>>

(* A bug KeyFrameHasParameters must notice: the replay drops what was      *)
(* refused, as the live callback does.                                     *)
RefusedDrops(s) ==
    /\ sendPc[s] = "queue" /\ index \in Slot /\ Refuses(queue[s])
    /\ sendPc' = [sendPc EXCEPT ![s] = "idle"]
    /\ todo' = [todo EXCEPT ![s] = Tail(@)]
    /\ cbFlag' = (cbFlag /\ s # "live")
    /\ UNCHANGED <<control, fresh, thFlag, index, mixed, wild, overlaps, media>>

(* The queue is full: the live callback ignores the result, the replay     *)
(* calls again until the frame is taken.                                   *)
Refused(s) ==
    /\ sendPc[s] = "queue" /\ index \in Slot /\ Refuses(queue[s])
    /\ sendPc' = [sendPc EXCEPT ![s] = "idle"]
    /\ IF s = "live"
       THEN cbFlag' = FALSE /\ todo' = [todo EXCEPT ![s] = Tail(@)]
       ELSE UNCHANGED <<cbFlag, todo>>
    /\ UNCHANGED <<control, fresh, thFlag, index, mixed, wild, overlaps, media>>

(* A bug OverwriteOnlyWhenFull must notice: the index stays.               *)
AdvanceForgotten(s) ==
    /\ sendPc[s] = "next"
    /\ sendPc' = [sendPc EXCEPT ![s] = "idle"]
    /\ todo' = [todo EXCEPT ![s] = Tail(@)]
    /\ cbFlag' = (cbFlag /\ s # "live")
    /\ UNCHANGED <<control, fresh, thFlag, index, mixed, wild, overlaps, media>>

(* index++ and the return to the producer.                                 *)
Advance(s) ==
    /\ sendPc[s] = "next"
    /\ index' = index + 1
    /\ sendPc' = [sendPc EXCEPT ![s] = "idle"]
    /\ todo' = [todo EXCEPT ![s] = Tail(@)]
    /\ cbFlag' = (cbFlag /\ s # "live")
    /\ UNCHANGED <<control, fresh, thFlag, mixed, wild, overlaps, media>>

SendFrame(s) == Copy(s) \/ Enqueue(s) \/ EnqueueWild(s) \/ Refused(s) \/ Advance(s)

-----------------------------------------------------------------------------
(* cdr_live_thread_pro and live_stream_callbak.                            *)

InLoop(s) == sendPc[s] = "idle" /\ todo[s] # <<>>
AtTop(s) == sendPc[s] = "idle" /\ todo[s] = <<>>

(* Nobody watches: sleep, and wait for an SPS when somebody does again.    *)
LiveSleep ==
    /\ AtTop("live")
    /\ ~livePlay /\ ~push
    /\ thFlag' = FALSE
    /\ UNCHANGED <<control, fresh, cbFlag, todo, sendPc, index, mixed, wild, overlaps, media>>

(* HI_MPI_VENC_GetStream: the packs of one picture.                        *)
LiveGet ==
    /\ AtTop("live")
    /\ livePlay \/ push
    /\ \E k \in {"I", "P"} : todo' = [todo EXCEPT !["live"] = Picture(k)]
    /\ UNCHANGED <<control, fresh, cbFlag, thFlag, sendPc, index, mixed, wild, overlaps, media>>

Unit == Head(todo["live"])
SkippedByThread == ~thFlag /\ Unit # "sps"

(* isIframe is enH264EType, and 1 is H264E_NALU_PSLICE: a callback that    *)
(* waits lets a P slice through and skips the others.                      *)
SkippedByCallback == cbFlag /\ Unit # "P"

LiveSkip ==
    /\ InLoop("live")
    /\ SkippedByThread \/ (livePlay /\ SkippedByCallback)
    /\ thFlag' = ~SkippedByThread
    /\ todo' = [todo EXCEPT !["live"] = Tail(@)]
    /\ UNCHANGED <<control, fresh, cbFlag, sendPc, index, mixed, wild, overlaps, media>>

LiveUnwatched ==
    /\ InLoop("live")
    /\ ~SkippedByThread /\ ~livePlay
    /\ thFlag' = TRUE /\ cbFlag' = TRUE
    /\ todo' = [todo EXCEPT !["live"] = Tail(@)]
    /\ UNCHANGED <<control, fresh, sendPc, index, mixed, wild, overlaps, media>>

LiveHandOver ==
    /\ InLoop("live")
    /\ ~SkippedByThread /\ livePlay /\ ~SkippedByCallback
    /\ thFlag' = TRUE
    /\ fresh' = FALSE
    /\ Enter("live")
    /\ UNCHANGED <<control, cbFlag, todo, wild, media>>

-----------------------------------------------------------------------------
(* rec_mp4_read_pro and rec_stream_callbak.  Once a frame was read, all of *)
(* it is handed over, whether or not the replay was paused meanwhile.      *)

RecRead ==
    /\ AtTop("rec")
    /\ ~pause
    /\ \E k \in {"I", "P"} : todo' = [todo EXCEPT !["rec"] = Picture(k)]
    /\ UNCHANGED <<control, fresh, cbFlag, thFlag, sendPc, index, mixed, wild, overlaps, media>>

RecHandOver ==
    /\ InLoop("rec")
    /\ Enter("rec")
    /\ UNCHANGED <<control, fresh, cbFlag, thFlag, todo, wild, media>>

-----------------------------------------------------------------------------
(* rtp_send_form_stream_func.  A buffer taken off the queue is packed, or  *)
(* dropped when the session has no connection or that does not play: the   *)
(* connections are not in this module, so both may happen.                 *)

(* A bug ReplayAdvances must notice: a sender that waits while its stream  *)
(* is stopped.                                                             *)
TakeIfPlaying(s) ==
    /\ sending[s] = NULL /\ Dequeued(queue[s]) # NULL
    /\ IF s = "live" THEN livePlay ELSE ~pause
    /\ sending' = [sending EXCEPT ![s] = Dequeued(queue[s])]
    /\ queue' = [queue EXCEPT ![s] = OSAL_Dequeue(@)]
    /\ UNCHANGED <<control, fresh, producers, last>>

Take(s) ==
    /\ sending[s] = NULL
    /\ Dequeued(queue[s]) # NULL
    /\ sending' \in {[sending EXCEPT ![s] = b] : b \in {Dequeued(queue[s]), NULL}}
    /\ queue' = [queue EXCEPT ![s] = OSAL_Dequeue(@)]
    /\ UNCHANGED <<control, fresh, producers, last>>

(* A bug StoppedStreamDries must notice: a sender that stops with the      *)
(* stream, its frame unsent.                                               *)
PackedIfPlaying(s) ==
    /\ sending[s] # NULL
    /\ IF s = "live" THEN livePlay ELSE ~pause
    /\ sending' = [sending EXCEPT ![s] = NULL]
    /\ UNCHANGED <<control, fresh, producers, queue, last>>

(* build_rtp_nalu or build_rtp_tcp_nalu is done with the buffer.           *)
Packed(s) ==
    /\ sending[s] # NULL
    /\ sending' = [sending EXCEPT ![s] = NULL]
    /\ UNCHANGED <<control, fresh, producers, queue, last>>

-----------------------------------------------------------------------------
(* The callbacks.                                                          *)

Counted == calls < MaxCalls /\ calls' = calls + 1
At(c, here, next) == callPc[c] = here /\ callPc' = [callPc EXCEPT ![c] = next]
Begin(c, next) == At(c, "idle", next) /\ Counted
End(c, here) == At(c, here, "idle") /\ UNCHANGED calls

(* cdr_live_rtsp_cb(4)                                                     *)
LivePlayStopsRec(c) ==
    /\ Begin(c, "livePlay")
    /\ pause' = TRUE
    /\ UNCHANGED <<livePlay, push, fresh, producers, media>>

LivePlay(c) ==
    /\ End(c, "livePlay")
    /\ livePlay' = TRUE
    /\ fresh' = (fresh \/ ~livePlay)
    /\ UNCHANGED <<pause, push, producers, media>>

(* cdr_live_rtsp_cb(5)                                                     *)
LiveStop(c) ==
    /\ Begin(c, "idle")
    /\ livePlay' = FALSE /\ fresh' = FALSE
    /\ UNCHANGED <<pause, push, producers, media>>

(* cdr_rec_rtsp_cb(4)                                                      *)
RecPlayStarts(c) ==
    /\ Begin(c, "recPlay")
    /\ pause' = FALSE
    /\ UNCHANGED <<livePlay, push, fresh, producers, media>>

RecPlay(c) ==
    /\ End(c, "recPlay")
    /\ livePlay' = FALSE /\ fresh' = FALSE
    /\ UNCHANGED <<pause, push, producers, media>>

(* cdr_rec_rtsp_cb(5)                                                      *)
RecStop(c) ==
    /\ Begin(c, "idle")
    /\ pause' = TRUE
    /\ UNCHANGED <<livePlay, push, fresh, producers, media>>

(* cdr_rec_settime: stop, seek, start.                                     *)
SetTimeStops(c) ==
    /\ Begin(c, "setTime")
    /\ pause' = TRUE
    /\ UNCHANGED <<livePlay, push, fresh, producers, media>>

SetTime(c) ==
    /\ End(c, "setTime")
    /\ pause' = FALSE
    /\ UNCHANGED <<livePlay, push, fresh, producers, media>>

Callback(c) ==
    \/ LivePlayStopsRec(c) \/ LivePlay(c) \/ LiveStop(c)
    \/ RecPlayStarts(c) \/ RecPlay(c) \/ RecStop(c)
    \/ SetTimeStops(c) \/ SetTime(c)

(* The push to a portal starts or stops.                                   *)
PushChange ==
    /\ Counted
    /\ push' = ~push
    /\ UNCHANGED <<livePlay, pause, callPc, fresh, producers, media>>

-----------------------------------------------------------------------------
LiveThread == LiveSleep \/ LiveGet \/ LiveSkip \/ LiveUnwatched \/ LiveHandOver
RecThread == RecRead \/ RecHandOver
Producer(s) == SendFrame(s) \/ (s = "live" /\ LiveThread) \/ (s = "rec" /\ RecThread)
Sender(s) == Take(s) \/ Packed(s)

(* A wild store ends what the model says of the process.                   *)
Next ==
    /\ ~wild
    /\ \/ \E s \in Session : Producer(s) \/ Sender(s)
       \/ \E c \in Caller : Callback(c)
       \/ PushChange

Safety == Init /\ [][Next]_vars

(* The threads run; the clients and the portal do as they like, but a      *)
(* callback that was begun is finished.                                    *)
Spec ==
    /\ Safety
    /\ \A s \in Session : WF_vars(~wild /\ Producer(s)) /\ WF_vars(~wild /\ Sender(s))
    /\ \A c \in Caller : WF_vars(~wild /\ (LivePlay(c) \/ RecPlay(c) \/ SetTime(c)))

-----------------------------------------------------------------------------
(* Properties.                                                             *)

TypeOK ==
    /\ livePlay \in BOOLEAN /\ pause \in BOOLEAN /\ push \in BOOLEAN
    /\ cbFlag \in BOOLEAN /\ thFlag \in BOOLEAN /\ fresh \in BOOLEAN
    /\ todo \in [Session -> Seq(Kind)]
    /\ sendPc \in [Session -> {"idle", "copy", "queue", "next"}]
    /\ index \in Nat
    /\ queue \in [Session -> Queue]
    /\ sending \in [Session -> Slot \cup {NULL}]
    /\ last \in Kind
    /\ mixed \in BOOLEAN /\ wild \in BOOLEAN
    /\ overlaps \in Nat /\ calls \in Nat
    /\ callPc \in [Caller -> {"idle", "livePlay", "recPlay", "setTime"}]

(* The buffer k before position i, and the position s's producer writes    *)
(* next.                                                                   *)
Back(i, k) == IF i >= k THEN i - k ELSE i - k + NB_BUFFER
Position(s) == IF sendPc[s] = "next" THEN index + 1 ELSE index

OneIsFed ==
    /\ ~wild
    /\ index <= NB_BUFFER
    /\ \A s \in Session :
         /\ Busy(s) => ~Busy(Other(s))
         /\ sendPc[s] # "idle" => index \in Slot

(* The queue holds the buffers written last, in that order, and the sender *)
(* the one before them.                                                    *)
SlotsInOrder(s) ==
    /\ \A i \in 1..queue[s].numElem :
         Contents(queue[s])[i] = Back(Position(s), queue[s].numElem - i + 1)
    /\ sending[s] # NULL => sending[s] = Back(Position(s), queue[s].numElem + 1)

(* The types, and what the server's bookkeeping keeps: each queue is a     *)
(* ring in order, and while one session is fed at a time the shared index  *)
(* walks that session's buffers without a gap (cdr_rtsp_send_frame,        *)
(* OSAL_Queue, OSAL_Dequeue).                                              *)
MediaInv ==
    /\ TypeOK
    /\ \A s \in Session : IsQueue(queue[s]) /\ (sendPc[s] # "idle" => todo[s] # <<>>)
    /\ ~mixed => OneIsFed /\ \A s \in Session : SlotsInOrder(s)

(* While one session is fed at a time, no frame is copied over one that    *)
(* waits in the queue, although frames are copied before the queue is      *)
(* asked whether it has room: the ring holds one element less than there   *)
(* are buffers (cdr_rtsp_send_frame, OSAL_QueueCreate).                    *)
QueuedFramesIntact ==
    \A s \in Session :
        ~mixed /\ sendPc[s] = "copy" =>
            \A i \in 1..queue[s].numElem : Contents(queue[s])[i] # index

(* Nor over the frame being packed, unless the queue behind it is full:    *)
(* then the frame being packed is torn, by one that is going to be refused *)
OverwriteOnlyWhenFull ==
    \A s \in Session :
        ~mixed /\ sendPc[s] = "copy" /\ sending[s] = index => queue[s].numElem = Nodes

(* The replay's key frames are queued right behind their parameter sets,   *)
(* however often the queue was full in between (rec_stream_callbak).       *)
KeyFrameHasParameters ==
    [][last' # last => /\ last' = "I" => last = "pps"
                       /\ last' = "pps" => last = "sps"
                       /\ last' = "P" => last # "sps" /\ last # "pps"]_vars

(* The replay thread does not hang on a full queue: a frame it has read is *)
(* handed over in the end (rec_stream_callbak's retries).  Where the bound *)
(* on overlaps holds a producer back the model says nothing.               *)
ReplayAdvances ==
    todo["rec"] # <<>> ~> (todo["rec"] = <<>> \/ wild \/ overlaps = MaxOverlaps)

(* A stream that is stopped for good dries up: its producer leaves         *)
(* cdr_rtsp_send_frame, its queue empties and its sender finishes.         *)
Stopped(s) == IF s = "live" THEN ~livePlay ELSE pause
StoppedStreamDries ==
    \A s \in Session : <>[]Stopped(s) => <>[](~Busy(s) \/ wild)

(* cdr_rtsp_server.c:80 and cdr_rec.c:46 say the callbacks keep the two    *)
(* streams from playing at once: with all callbacks returned, live is off  *)
(* or the replay is paused.  The code does not keep it.                    *)
AtMostOneStream ==
    (\A c \in Caller : callPc[c] = "idle") => ~livePlay \/ pause

(* cdr_rtsp_server.c:39 says the first frame of a live stream is a key     *)
(* frame, that is, never a slice that needs an earlier one.  The code does *)
(* not keep it.                                                            *)
FirstLiveFrameIsKey == [][fresh /\ ~fresh' /\ livePlay' => Unit # "P"]_vars
=============================================================================
