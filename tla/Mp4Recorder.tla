----------------------------- MODULE Mp4Recorder -----------------------------
(***************************************************************************)
(* Loop recording (mpp/sample/svntest/cdr_sd/cdr_writemov.c and            *)
(* cdr_mp4/muxermp4.c).                                                    *)
(*                                                                         *)
(* One recording thread creates an Mp4Context per file, hands the          *)
(* encoders' frames to it and flags it closed; one writer thread per       *)
(* context moves frames from the context's ring to the file, closes the    *)
(* file when it finds the ring empty and the flag set, reports it and      *)
(* frees the context.  Other threads (key, G sensor, phone application)    *)
(* run cdr_AssociatedVideo, which changes the length of the file being     *)
(* recorded.  A supply check flips the power flag; main tears the process  *)
(* down when it polls the flag as off.                                     *)
(*                                                                         *)
(* A context is known by its handle (nIndex).  Its ring is a bounded FIFO  *)
(* queue: KFifo shows that is what kfifo_put and kfifo_get make of it.     *)
(* The steps of different threads interleave between accesses to shared    *)
(* state; nFrameleft is read and written back in two steps.                *)
(***************************************************************************)
EXTENDS Integers, Sequences, FiniteSets

CONSTANTS
    Caller,       \* the threads that run cdr_AssociatedVideo
    Fps,          \* oVideoCfg.fps
    FileSeconds,  \* g_mp4filelen / 1000
    CutSeconds,   \* CDR_CUTMP4_EX_TIME
    QUEUE_SIZE,   \* frames a context's ring holds
    MaxFile,      \* bound: files created
    MaxAccepted,  \* bound: no audio once a file was handed this many frames
    MaxPower,     \* bound: changes of the power flag
    MaxCalls      \* bound: calls of cdr_AssociatedVideo

ASSUME RecorderAssumption ==
    /\ Fps \in Nat \ {0} /\ FileSeconds \in Nat \ {0} /\ CutSeconds \in Nat \ {0}
    /\ QUEUE_SIZE \in Nat \ {0}
    /\ MaxFile \in Nat \ {0} /\ MaxAccepted \in Nat /\ MaxPower \in Nat /\ MaxCalls \in Nat

VARIABLES
    power, powerChanges,   \* g_cdr_device_app_stop_flag: TRUE is CDR_POWER_ON
    sd,                    \* g_sdIsOnline: 0 no card, 1 mounted, 2 no partition
    mainPc,                \* main: waiting, or past cdr_mp4dirlist_free
    process,               \* the process: up, crashed, or rebooted
    recPc, recLeft, iFrameFlag, todo, \* the recording thread and its locals
    mp4handle,             \* g_mp4handle
    nIndex,                \* the next handle
    ctx,                   \* the contexts in and out of g_mp4_list
    fifo,                  \* each context's ring
    file,                  \* each context's file: its samples, the first and the last
    wpc,                   \* the writer thread of each context
    callPc, callFlag, callHandle, callLeft, calls \* cdr_AssociatedVideo

env == <<power, powerChanges, mainPc>>
recorder == <<recPc, recLeft, iFrameFlag, todo, mp4handle, nIndex, sd>>
callers == <<callPc, callFlag, callHandle, callLeft, calls>>
vars == <<env, process, recorder, ctx, fifo, file, wpc, callers>>

Handle == 0..(MaxFile - 1)

FrameType == {"I", "P", "A"}  \* video key frame, video difference frame, audio
Frame == [type : FrameType, no : Nat]
IsVideo(f) == f.type \in {"I", "P"}

(* What get_if finds in g_mp4_list for a handle.                           *)
Found(h) == h \in Handle /\ ctx[h].inList

(* A context as cdr_mp4_create sets it up.  Three fields are not the       *)
(* code's: taken and takenVideo count the frames cdr_mp4_write_frame has   *)
(* accepted for it, whether or not its ring had room, and cuts the calls   *)
(* of cdr_mp4_setlen.                                                      *)
NewCtx == [inList |-> TRUE, closeFlag |-> FALSE, taken |-> 0, takenVideo |-> 0,
           left |-> FileSeconds * Fps - 1, cuts |-> 0,
           cutFlag |-> FALSE, cutFrame |-> 0, cutLen |-> 0,
           picFlag |-> FALSE, outFlag |-> FALSE]

NoCtx == [NewCtx EXCEPT !.inList = FALSE]

(* A file's samples are numbered as they were accepted.                    *)
NewFile == [samples |-> 0, first |-> "none", last |-> -1]

(* cdr_init_record has tried to mount the card; the power is on.           *)
Init ==
    /\ power = TRUE /\ powerChanges = 0
    /\ sd \in {0, 1, 2}
    /\ mainPc = "wait"
    /\ process = "up"
    /\ recPc = "top" /\ recLeft = 0 /\ iFrameFlag = FALSE /\ todo = <<>>
    /\ mp4handle = -1
    /\ nIndex = 0
    /\ ctx = [h \in Handle |-> NoCtx]
    /\ fifo = [h \in Handle |-> <<>>]
    /\ file = [h \in Handle |-> NewFile]
    /\ wpc = [h \in Handle |-> "none"]
    /\ callPc = [c \in Caller |-> "idle"]
    /\ callFlag = [c \in Caller |-> 1]
    /\ callHandle = [c \in Caller |-> -1]
    /\ callLeft = [c \in Caller |-> 0]
    /\ calls = 0

-----------------------------------------------------------------------------
(* cdr_record_thread_pro: the card, the power flag, the next file.         *)

(* No card: try to mount one.  g_sdIsOnline 2 is never looked at again.    *)
LoadSd ==
    /\ recPc = "top" /\ sd = 0
    /\ sd' \in {1, 2}
    /\ UNCHANGED <<env, process, recPc, recLeft, iFrameFlag, todo, mp4handle, nIndex,
                   ctx, fifo, file, wpc, callers>>

(* A bug PowerOffStopsRecording must notice: the flag only ends a file.    *)
RecorderStays == FALSE

RecorderExit ==
    /\ recPc = "top" /\ sd = 1
    /\ ~power
    /\ recPc' = "exit"
    /\ UNCHANGED <<env, process, sd, recLeft, iFrameFlag, todo, mp4handle, nIndex,
                   ctx, fifo, file, wpc, callers>>

(* CreateMp4File_ex up to its loop.  cdr_mp4_create numbers the contexts   *)
(* from 0 and starts the writer; a handle that is not positive is taken    *)
(* for a failure, so the first file is left as it is.                      *)
CreateFile ==
    /\ recPc = "top" /\ sd = 1
    /\ power
    /\ nIndex < MaxFile
    /\ nIndex' = nIndex + 1
    /\ mp4handle' = nIndex
    /\ ctx' = [ctx EXCEPT ![nIndex] = NewCtx]
    /\ wpc' = [wpc EXCEPT ![nIndex] = "get"]
    /\ recPc' = IF nIndex <= 0 THEN "top" ELSE "loop"
    /\ iFrameFlag' = FALSE
    /\ UNCHANGED <<env, process, sd, recLeft, todo, fifo, file, callers>>

(* MP4Create or a track failed: cdr_mp4_create returns -1.                 *)
CreateFails ==
    /\ recPc = "top" /\ sd = 1
    /\ power
    /\ mp4handle' = -1
    /\ UNCHANGED <<env, process, sd, recPc, recLeft, iFrameFlag, todo, nIndex,
                   ctx, fifo, file, wpc, callers>>

-----------------------------------------------------------------------------
(* CreateMp4File_ex: the loop that feeds the file.                         *)

(* A bug StartsWithKeyFrame must notice: keep what comes.                   *)
KeptAny(v, a) ==
    LET n == ctx[mp4handle].taken
        video == IF v \in {"I", "P"} THEN <<[type |-> v, no |-> n]>> ELSE <<>>
        audio == IF a THEN <<[type |-> "A", no |-> n + Len(video)]>> ELSE <<>>
    IN  video \o audio

(* One round of select: a video frame, an audio frame or both, cut down to *)
(* what is kept.  Nothing before the first key frame is.                   *)
Kept(v, a) ==
    LET n == ctx[mp4handle].taken
        video == IF v = "I" \/ (v = "P" /\ iFrameFlag) THEN <<[type |-> v, no |-> n]>>
                                                       ELSE <<>>
        audio == IF a /\ (iFrameFlag \/ v = "I")
                 THEN <<[type |-> "A", no |-> n + Len(video)]>> ELSE <<>>
    IN  video \o audio

(* A bug RecorderInv must notice: one frame more than the length allows.   *)
ReceiveOneMore(v, a) ==
    /\ recPc = "loop"
    /\ Found(mp4handle)
    /\ v # "none" \/ a
    /\ v = "I" => ~iFrameFlag
    /\ a => ctx[mp4handle].taken < MaxAccepted
    /\ todo' = Kept(v, a)
    /\ iFrameFlag' = (iFrameFlag \/ v = "I")
    /\ recPc' = IF Kept(v, a) = <<>> THEN "power" ELSE "put"
    /\ UNCHANGED <<env, process, sd, recLeft, mp4handle, nIndex,
                   ctx, fifo, file, wpc, callers>>

(* while(cdr_mp4_checklen(g_mp4handle) > 0): a select that returned.  Once *)
(* there was a key frame the code treats both kinds of video alike, and    *)
(* "P" stands for both.                                                    *)
Receive(v, a) ==
    /\ recPc = "loop"
    /\ Found(mp4handle) /\ ctx[mp4handle].left > 0
    /\ v # "none" \/ a
    /\ v = "I" => ~iFrameFlag
    /\ a => ctx[mp4handle].taken < MaxAccepted
    /\ todo' = Kept(v, a)
    /\ iFrameFlag' = (iFrameFlag \/ v = "I")
    /\ recPc' = IF Kept(v, a) = <<>> THEN "power" ELSE "put"
    /\ UNCHANGED <<env, process, sd, recLeft, mp4handle, nIndex,
                   ctx, fifo, file, wpc, callers>>

(* A bug FileEnds must notice: only a missing context ends the loop.       *)
LengthIgnored ==
    /\ recPc = "loop"
    /\ ~Found(mp4handle)
    /\ recPc' = "close"
    /\ UNCHANGED <<env, process, sd, recLeft, iFrameFlag, todo, mp4handle, nIndex,
                   ctx, fifo, file, wpc, callers>>

LengthReached ==
    /\ recPc = "loop"
    /\ ~(Found(mp4handle) /\ ctx[mp4handle].left > 0)
    /\ recPc' = "close"
    /\ UNCHANGED <<env, process, sd, recLeft, iFrameFlag, todo, mp4handle, nIndex,
                   ctx, fifo, file, wpc, callers>>

(* A bug FileIsBounded must notice: only a frame the ring had room for     *)
(* counts.                                                                 *)
PutCountsKept ==
    LET h == mp4handle
        f == Head(todo)
        counts == IsVideo(f) /\ Len(fifo[h]) < QUEUE_SIZE
    IN
    /\ recPc = "put"
    /\ Found(h) /\ ~ctx[h].closeFlag
    /\ fifo' = [fifo EXCEPT ![h] = IF Len(@) < QUEUE_SIZE THEN Append(@, f) ELSE @]
    /\ ctx' = [ctx EXCEPT ![h] = [@ EXCEPT !.taken = ctx[h].taken + 1,
                                          !.takenVideo = ctx[h].takenVideo
                                                         + (IF IsVideo(f) THEN 1 ELSE 0)]]
    /\ todo' = Tail(todo)
    /\ recLeft' = IF counts THEN ctx[h].left ELSE 0
    /\ recPc' = IF counts THEN "count" ELSE IF Tail(todo) = <<>> THEN "power" ELSE "put"
    /\ UNCHANGED <<env, process, sd, iFrameFlag, mp4handle, nIndex, file, wpc, callers>>

(* cdr_mp4_write_frame: kfifo_put, whose result is ignored, and, for a     *)
(* video frame, the load of nFrameleft.  Its early returns (no context,    *)
(* closeFlag set) are not reached: RecorderOwnsFile.                       *)
PutFrame ==
    LET h == mp4handle
        f == Head(todo)
    IN
    /\ recPc = "put"
    /\ Found(h) /\ ~ctx[h].closeFlag
    /\ fifo' = [fifo EXCEPT ![h] = IF Len(@) < QUEUE_SIZE THEN Append(@, f) ELSE @]
    /\ ctx' = [ctx EXCEPT ![h] = [@ EXCEPT !.taken = ctx[h].taken + 1,
                                          !.takenVideo = ctx[h].takenVideo
                                                         + (IF IsVideo(f) THEN 1 ELSE 0)]]
    /\ todo' = Tail(todo)
    /\ recLeft' = IF IsVideo(f) THEN ctx[h].left ELSE 0
    /\ recPc' = IF IsVideo(f) THEN "count" ELSE IF Tail(todo) = <<>> THEN "power" ELSE "put"
    /\ UNCHANGED <<env, process, sd, iFrameFlag, mp4handle, nIndex, file, wpc, callers>>

(* cdr_mp4_write_frame: p->nFrameleft-- written back, nCutFrame counted.   *)
CountFrame ==
    LET h == mp4handle IN
    /\ recPc = "count"
    /\ ctx' = [ctx EXCEPT ![h] = [@ EXCEPT !.left = recLeft - 1,
                                          !.cutFrame = ctx[h].cutFrame
                                                       + (IF ctx[h].cutFlag THEN 1 ELSE 0)]]
    /\ recPc' = IF todo = <<>> THEN "power" ELSE "put"
    /\ recLeft' = 0
    /\ UNCHANGED <<env, process, sd, iFrameFlag, todo, mp4handle, nIndex,
                   fifo, file, wpc, callers>>

(* if(0 == cdr_get_powerflag()) break.  A stream that could not be         *)
(* released ends the round with continue, and the flag is not looked at.   *)
CheckPower ==
    /\ recPc = "power"
    /\ recPc' \in {"loop"} \cup (IF power THEN {} ELSE {"close"})
    /\ UNCHANGED <<env, process, sd, recLeft, iFrameFlag, todo, mp4handle, nIndex,
                   ctx, fifo, file, wpc, callers>>

(* A bug OneOpenFile must notice: the flag is not set.                     *)
CloseForgotten ==
    /\ recPc = "close"
    /\ recPc' = "top"
    /\ iFrameFlag' = FALSE
    /\ UNCHANGED <<env, process, sd, recLeft, todo, mp4handle, nIndex,
                   ctx, fifo, file, wpc, callers>>

(* cdr_mp4_close(g_mp4handle).                                             *)
CloseFile ==
    /\ recPc = "close"
    /\ ctx' = [ctx EXCEPT ![mp4handle] = [@ EXCEPT !.closeFlag = TRUE]]
    /\ recPc' = "top"
    /\ iFrameFlag' = FALSE
    /\ UNCHANGED <<env, process, sd, recLeft, todo, mp4handle, nIndex,
                   fifo, file, wpc, callers>>

-----------------------------------------------------------------------------
(* write_frame_to_mp4_pro: the writer thread of context h.                 *)

(* A bug FramesInOrder must notice: the ring is not advanced.              *)
WriteFrameAgain(h) ==
    /\ wpc[h] = "get"
    /\ fifo[h] # <<>>
    /\ file' = [file EXCEPT ![h] = [samples |-> @.samples + 1,
                                    first |-> IF @.samples = 0 THEN Head(fifo[h]).type ELSE @.first,
                                    last |-> Head(fifo[h]).no]]
    /\ UNCHANGED <<env, process, recorder, ctx, fifo, wpc, callers>>

(* kfifo_get returned a frame: it goes to the file.                        *)
WriteFrame(h) ==
    /\ wpc[h] = "get"
    /\ fifo[h] # <<>>
    /\ file' = [file EXCEPT ![h] = [samples |-> @.samples + 1,
                                    first |-> IF @.samples = 0 THEN Head(fifo[h]).type ELSE @.first,
                                    last |-> Head(fifo[h]).no]]
    /\ fifo' = [fifo EXCEPT ![h] = Tail(@)]
    /\ UNCHANGED <<env, process, recorder, ctx, wpc, callers>>

(* A bug ClosedFileFinishes must notice: the flag is only looked at after  *)
(* a frame.                                                                *)
FindEmptyWaits(h) ==
    /\ wpc[h] = "get"
    /\ fifo[h] = <<>>
    /\ UNCHANGED vars

(* kfifo_get found nothing; closeFlag is looked at after that.             *)
FindEmpty(h) ==
    /\ wpc[h] = "get"
    /\ fifo[h] = <<>>
    /\ wpc' = [wpc EXCEPT ![h] = "check"]
    /\ UNCHANGED <<env, process, recorder, ctx, fifo, file, callers>>

(* A bug RecorderOwnsFile must notice: an empty ring ends the file.        *)
CloseWhenEmpty(h) ==
    /\ wpc[h] = "check"
    /\ wpc' = [wpc EXCEPT ![h] = "close"]
    /\ UNCHANGED <<env, process, recorder, ctx, fifo, file, callers>>

CheckClose(h) ==
    /\ wpc[h] = "check"
    /\ wpc' = [wpc EXCEPT ![h] = IF ctx[h].closeFlag THEN "close" ELSE "get"]
    /\ UNCHANGED <<env, process, recorder, ctx, fifo, file, callers>>

(* sleep(1), CloseMp4Encoder (the file gets its final name), nCutLen.      *)
CloseEncoder(h) ==
    /\ wpc[h] = "close"
    /\ ctx' = [ctx EXCEPT ![h] = [@ EXCEPT !.cutLen = ctx[h].cutFrame \div Fps]]
    /\ wpc' = [wpc EXCEPT ![h] = "finish"]
    /\ UNCHANGED <<env, process, recorder, fifo, file, callers>>

(* outcb is record_mp4_finish: the file is put into the directory list     *)
(* main may have freed, the picture is renamed and reported, and the G     *)
(* sensor's clip is asked for.  The clip starts six seconds before the     *)
(* picture; whether a listed file covers that second depends on the files  *)
(* before this one.                                                        *)
Finish(h) ==
    /\ wpc[h] = "finish"
    /\ IF mainPc = "wait"
       THEN /\ IF ctx[h].picFlag /\ ctx[h].outFlag
               THEN \E next \in {"clip", "noclip"} : wpc' = [wpc EXCEPT ![h] = next]
               ELSE wpc' = [wpc EXCEPT ![h] = "remove"]
            /\ UNCHANGED process
       ELSE /\ process' = "crashed"
            /\ UNCHANGED wpc
    /\ UNCHANGED <<env, recorder, ctx, fifo, file, callers>>

(* cdr_read_mp4_ex returns 0: the clip's first second is in a listed file. *)
(* If it is in none ("noclip") the writer asks again, every second.        *)
ClipRequested(h) ==
    /\ wpc[h] = "clip"
    /\ mainPc = "wait"
    /\ wpc' = [wpc EXCEPT ![h] = "remove"]
    /\ UNCHANGED <<env, process, recorder, ctx, fifo, file, callers>>

(* The same call on the list main has freed.                               *)
ClipAfterFree(h) ==
    /\ wpc[h] \in {"clip", "noclip"}
    /\ mainPc # "wait"
    /\ process' = "crashed"
    /\ UNCHANGED <<env, recorder, ctx, fifo, file, wpc, callers>>

(* A bug ClosedFileStays must notice: the writer's loop is not left.       *)
RemoveAndGoOn(h) ==
    /\ wpc[h] = "remove"
    /\ \A c \in Caller : ~(callPc[c] = "store" /\ callHandle[c] = h)
    /\ ctx' = [ctx EXCEPT ![h] = NoCtx]
    /\ wpc' = [wpc EXCEPT ![h] = "get"]
    /\ UNCHANGED <<env, process, recorder, fifo, file, callers>>

(* remove_data frees the context.  Timing assumption: the second the       *)
(* writer sleeps before it closes the file outlasts the two accesses of a  *)
(* caller that found the context before.                                   *)
RemoveContext(h) ==
    /\ wpc[h] = "remove"
    /\ \A c \in Caller : ~(callPc[c] = "store" /\ callHandle[c] = h)
    /\ ctx' = [ctx EXCEPT ![h] = NoCtx]
    /\ wpc' = [wpc EXCEPT ![h] = "done"]
    /\ UNCHANGED <<env, process, recorder, fifo, file, callers>>

Writer(h) ==
    \/ WriteFrame(h) \/ FindEmpty(h) \/ CheckClose(h) \/ CloseEncoder(h)
    \/ Finish(h) \/ ClipRequested(h) \/ ClipAfterFree(h) \/ RemoveContext(h)

-----------------------------------------------------------------------------
(* cdr_AssociatedVideo(flag, len): set the length of the file being        *)
(* recorded, then tie a picture (and, with flag 2, a clip) to it.  Every   *)
(* call reads g_mp4handle anew.                                            *)

(* cdr_mp4_setlen: find the context, load nFrameleft.                      *)
SetLenLoad(c, flag) ==
    /\ callPc[c] = "idle"
    /\ calls < MaxCalls
    /\ calls' = calls + 1
    /\ callFlag' = [callFlag EXCEPT ![c] = flag]
    /\ IF Found(mp4handle)
       THEN /\ callHandle' = [callHandle EXCEPT ![c] = mp4handle]
            /\ callLeft' = [callLeft EXCEPT ![c] = (ctx[mp4handle].left % Fps) + CutSeconds * Fps]
            /\ callPc' = [callPc EXCEPT ![c] = "store"]
       ELSE /\ callPc' = [callPc EXCEPT ![c] = "info"]
            /\ UNCHANGED <<callHandle, callLeft>>
    /\ UNCHANGED <<env, process, recorder, ctx, fifo, file, wpc>>

(* cdr_mp4_setlen: write nFrameleft back, set nCutFlag.                    *)
SetLenStore(c) ==
    LET h == callHandle[c] IN
    /\ callPc[c] = "store"
    /\ ctx' = [ctx EXCEPT ![h] = [@ EXCEPT !.left = callLeft[c], !.cutFlag = TRUE,
                                          !.cuts = ctx[h].cuts + 1]]
    /\ callPc' = [callPc EXCEPT ![c] = "info"]
    /\ callHandle' = [callHandle EXCEPT ![c] = -1]
    /\ callLeft' = [callLeft EXCEPT ![c] = 0]
    /\ UNCHANGED <<env, process, recorder, fifo, file, wpc, callFlag, calls>>

(* cdr_mp4_getextrainfo(g_mp4handle) == 0, then the picture is taken.      *)
GetExtraInfo(c) ==
    /\ callPc[c] = "info"
    /\ callPc' = [callPc EXCEPT ![c] = IF Found(mp4handle) /\ ~ctx[mp4handle].picFlag
                                       THEN "picture" ELSE "idle"]
    /\ UNCHANGED <<env, process, recorder, ctx, fifo, file, wpc,
                   callFlag, callHandle, callLeft, calls>>

(* cdr_mp4_setextrainfo(g_mp4handle, ...).                                 *)
SetExtraInfo(c) ==
    LET h == mp4handle IN
    /\ callPc[c] = "picture"
    /\ IF Found(h) /\ ~ctx[h].picFlag
       THEN ctx' = [ctx EXCEPT ![h] = [@ EXCEPT !.cutFlag = TRUE, !.picFlag = TRUE]]
       ELSE UNCHANGED ctx
    /\ callPc' = [callPc EXCEPT ![c] = IF callFlag[c] = 2 THEN "output" ELSE "idle"]
    /\ UNCHANGED <<env, process, recorder, fifo, file, wpc,
                   callFlag, callHandle, callLeft, calls>>

(* cdr_mp4_outputmp4flag(g_mp4handle, 1).                                  *)
SetOutputFlag(c) ==
    LET h == mp4handle IN
    /\ callPc[c] = "output"
    /\ ctx' = IF Found(h) THEN [ctx EXCEPT ![h] = [@ EXCEPT !.outFlag = TRUE]] ELSE ctx
    /\ callPc' = [callPc EXCEPT ![c] = "idle"]
    /\ UNCHANGED <<env, process, recorder, fifo, file, wpc,
                   callFlag, callHandle, callLeft, calls>>

AssociatedVideo(c) ==
    \/ \E flag \in {1, 2} : SetLenLoad(c, flag)
    \/ SetLenStore(c) \/ GetExtraInfo(c) \/ SetExtraInfo(c) \/ SetOutputFlag(c)

-----------------------------------------------------------------------------
(* cdr_stop_check_cb_pro: the supply goes away, or comes back.             *)
PowerChange ==
    /\ powerChanges < MaxPower
    /\ powerChanges' = powerChanges + 1
    /\ power' = ~power
    /\ UNCHANGED <<mainPc, process, recorder, ctx, fifo, file, wpc, callers>>

(* main: cdr_system_wait has polled the flag as off; cdr_device_deinit     *)
(* frees the mp4 directory (cdr_mp4dirlist_free) ...                       *)
FreeDirectory ==
    /\ mainPc = "wait"
    /\ ~power
    /\ mainPc' = "freed"
    /\ UNCHANGED <<power, powerChanges, process, recorder, ctx, fifo, file, wpc, callers>>

(* ... unmounts the card, and waits for the power to come back to reboot.  *)
Reboot ==
    /\ mainPc = "freed"
    /\ power
    /\ process' = "rebooted"
    /\ UNCHANGED <<env, recorder, ctx, fifo, file, wpc, callers>>

-----------------------------------------------------------------------------
Record ==
    \/ LoadSd \/ RecorderExit \/ CreateFile \/ CreateFails
    \/ \E v \in {"none", "I", "P"}, a \in BOOLEAN : Receive(v, a)
    \/ LengthReached \/ PutFrame \/ CountFrame \/ CheckPower \/ CloseFile

Next ==
    /\ process = "up"
    /\ \/ Record
       \/ \E h \in Handle : Writer(h)
       \/ \E c \in Caller : AssociatedVideo(c)
       \/ PowerChange \/ FreeDirectory \/ Reboot

Safety == Init /\ [][Next]_vars

(* The threads run in endless loops, and the encoders keep delivering: the *)
(* recording thread's select returns with video again and again, and a key *)
(* frame comes with every group of pictures.                               *)
Fairness ==
    /\ WF_vars(process = "up" /\ Record /\ recPc # "loop")
    /\ WF_vars(process = "up" /\ LengthReached)
    /\ WF_vars(process = "up" /\ \E a \in BOOLEAN : Receive("P", a))
    /\ SF_vars(process = "up" /\ \E a \in BOOLEAN : Receive("I", a))
    /\ \A h \in Handle : WF_vars(process = "up" /\ Writer(h))
    /\ \A c \in Caller : WF_vars(process = "up" /\ callPc[c] # "idle" /\ AssociatedVideo(c))

Spec == Safety /\ Fairness

-----------------------------------------------------------------------------
CtxType ==
    [inList : BOOLEAN, closeFlag : BOOLEAN, taken : Nat, takenVideo : Nat, left : Nat,
     cuts : Nat, cutFlag : BOOLEAN, cutFrame : Nat, cutLen : Nat,
     picFlag : BOOLEAN, outFlag : BOOLEAN]

TypeOK ==
    /\ power \in BOOLEAN /\ powerChanges \in Nat
    /\ sd \in {0, 1, 2}
    /\ mainPc \in {"wait", "freed"}
    /\ process \in {"up", "crashed", "rebooted"}
    /\ recPc \in {"top", "loop", "put", "count", "power", "close", "exit"}
    /\ recLeft \in Nat
    /\ iFrameFlag \in BOOLEAN
    /\ todo \in Seq(Frame)
    /\ mp4handle \in Handle \cup {-1}
    /\ nIndex \in 0..MaxFile
    /\ ctx \in [Handle -> CtxType]
    /\ fifo \in [Handle -> Seq(Frame)]
    /\ file \in [Handle -> [samples : Nat, first : FrameType \cup {"none"}, last : Nat \cup {-1}]]
    /\ wpc \in [Handle -> {"none", "get", "check", "close", "finish", "clip", "noclip", "remove", "done"}]
    /\ callPc \in [Caller -> {"idle", "store", "info", "picture", "output"}]
    /\ callFlag \in [Caller -> {1, 2}]
    /\ callHandle \in [Caller -> Handle \cup {-1}]
    /\ callLeft \in [Caller -> Nat]
    /\ calls \in Nat

Recording == recPc \in {"loop", "put", "count", "power", "close"}

-----------------------------------------------------------------------------
(* Safety.                                                                 *)

(* While the recording thread is in CreateMp4File_ex's loop its handle     *)
(* names a context that is in the list, is not flagged closed and whose    *)
(* writer has not begun to close the file: no frame is handed to a freed   *)
(* context or to a closed file.                                            *)
RecorderOwnsFile ==
    Recording => /\ Found(mp4handle)
                 /\ ~ctx[mp4handle].closeFlag
                 /\ wpc[mp4handle] \in {"get", "check"}

(* Every file but the one being recorded is flagged closed, so its writer  *)
(* will finish it: rolling over, a power cut and a failed creation leave   *)
(* no file open.  The exception is handle 0, which CreateMp4File_ex takes  *)
(* for a failure: its file, writer and context are never given up.         *)
OneOpenFile ==
    \A h \in Handle :
        ctx[h].inList /\ ~ctx[h].closeFlag => h = 0 \/ (Recording /\ h = mp4handle)

(* What makes TypeOK, RecorderOwnsFile and OneOpenFile inductive: how the  *)
(* writer's place, the list and the flag go together, and that the frame   *)
(* count cannot run below zero although it is read and written back in two *)
(* steps.                                                                  *)
WriterInv ==
    \A h \in Handle :
        /\ wpc[h] = "none" <=> h >= nIndex
        /\ ctx[h].inList <=> wpc[h] \notin {"none", "done"}
        /\ wpc[h] \in {"close", "finish", "clip", "noclip", "remove"} => ctx[h].closeFlag

CountInv ==
    /\ recPc = "put" => todo # <<>>
    /\ recPc = "put" /\ IsVideo(todo[1]) => ctx[mp4handle].left > 0
    /\ \A i \in 1..Len(todo) : i > 1 \/ recPc = "count" => ~IsVideo(todo[i])
    /\ recPc = "count" => recLeft > 0
    /\ \A c \in Caller : callPc[c] = "store" => callLeft[c] > 0

RecorderInv == TypeOK /\ WriterInv /\ CountInv /\ RecorderOwnsFile /\ OneOpenFile

(* A file starts with a key frame, without which it would play black, even *)
(* when frames are dropped on the way or the writer lags behind.           *)
StartsWithKeyFrame ==
    \A h \in Handle : file[h].samples > 0 => file[h].first = "I"

(* nFrameleft is read and written back by the recording thread and by      *)
(* cdr_mp4_setlen with no lock, and each may undo what the other did.      *)
(* Whatever is lost that way, a file is given no more video than the       *)
(* length it was created with and, for each call made on it, one more cut: *)
(* the seconds of the cut and the rest of the second before.  The frames   *)
(* the ring dropped count too.                                             *)
CutFrames == CutSeconds * Fps + Fps - 1
Longest(h) == FileSeconds * Fps - 1 + ctx[h].cuts * CutFrames
FileIsBounded == \A h \in Handle : ctx[h].takenVideo <= Longest(h)

(* Samples reach a file in the order the encoders delivered them, none     *)
(* twice, across the ring and its writer.                                  *)
FramesInOrder ==
    [][\A h \in Handle : file'[h] # file[h] => file'[h].last > file[h].last]_vars

(* What makes the three properties above inductive.  As long as the writer *)
(* takes frames, its ring holds frames newer than its file's, older than   *)
(* the next to be accepted, in order, ...                                  *)
OrderInv ==
    /\ \A h \in Handle :
           wpc[h] \in {"get", "check"} =>
               /\ file[h].last < ctx[h].taken
               /\ \A i \in 1..Len(fifo[h]) :
                      file[h].last < fifo[h][i].no /\ fifo[h][i].no < ctx[h].taken
               /\ \A i, j \in 1..Len(fifo[h]) : i < j => fifo[h][i].no < fifo[h][j].no
    /\ \A h \in Handle : wpc[h] = "none" => fifo[h] = <<>> /\ file[h] = NewFile
    /\ recPc \in {"put", "count"} =>
           \A i \in 1..Len(todo) : todo[i].no = ctx[mp4handle].taken + i - 1

(* ... the first of which is a key frame while the file has none, and no   *)
(* other kind is handed over before a key frame was.                       *)
KeyFrameInv ==
    /\ StartsWithKeyFrame
    /\ \A h \in Handle :
           wpc[h] \in {"get", "check"} /\ file[h].samples = 0 =>
               IF fifo[h] = <<>> THEN ctx[h].taken = 0 ELSE fifo[h][1].type = "I"
    /\ recPc \in {"put", "count"} => iFrameFlag
    /\ recPc = "put" /\ ctx[mp4handle].taken = 0 => todo[1].type = "I"
    /\ Recording /\ iFrameFlag /\ recPc # "put" => ctx[mp4handle].taken > 0

(* What makes FileIsBounded inductive: the frames a file has and those it  *)
(* is still to have together keep to the bound, both by the count in the   *)
(* context and by the one the recording thread has in its hands, and a     *)
(* call about to store its count has no more than a cut.                   *)
LengthInv ==
    /\ \A h \in Handle : ctx[h].takenVideo + ctx[h].left
           <= Longest(h) + (IF recPc = "count" /\ h = mp4handle THEN 1 ELSE 0)
    /\ recPc = "count" => ctx[mp4handle].takenVideo + recLeft <= Longest(mp4handle) + 1
    /\ \A c \in Caller : callPc[c] = "store" => callLeft[c] <= CutFrames

(* The invariant of the recorder's frames.                                 *)
FrameInv == OrderInv /\ KeyFrameInv /\ LengthInv

(* Once MP4Close has run, nothing is written to a file any more and no     *)
(* frame is accepted for it.                                               *)
FileIsFinal(h) == wpc[h] \in {"finish", "clip", "noclip", "remove", "done"}
ClosedFileStays ==
    [][\A h \in Handle : FileIsFinal(h) =>
           file'[h] = file[h] /\ FileIsFinal(h)' /\ ctx'[h].taken <= ctx[h].taken]_vars

(* What the header promises of the writer thread: no frame handed to       *)
(* cdr_mp4_write_frame is missing from the finished file.                  *)
NoFrameLost ==
    \A h \in Handle : wpc[h] = "finish" => file[h].samples = ctx[h].taken

(* What cdr_device_deinit promises by waiting before it unmounts: saving   *)
(* the last file does not run into the freed directory list.               *)
SavingSurvivesPowerOff == process # "crashed"

-----------------------------------------------------------------------------
(* Liveness.                                                               *)

(* A file flagged closed is finished and its context freed, unless its     *)
(* clip starts in a second no listed file covers: then the writer asks     *)
(* for ever.                                                               *)
ClosedFileFinishes ==
    \A h \in Handle :
        ctx[h].closeFlag ~> wpc[h] \in {"noclip", "done"} \/ process # "up"

(* Recording a file comes to an end, and the next one can start.           *)
FileEnds == Recording ~> ~Recording \/ process # "up"

(* With a mounted card the recording thread leaves when the power goes.    *)
PowerOffStopsRecording ==
    (~power /\ sd = 1) ~> recPc = "exit" \/ power \/ process # "up"
=============================================================================
