----------------------------- MODULE Mp4Directory -----------------------------
(***************************************************************************)
(* The directory of recorded files (mpp/sample/svntest/cdr_mp4/            *)
(* parsemp4dir.c) and what works on it without a lock:                     *)
(*   - the thread that reads the card's files in at start (mp4dirdemuxercb)*)
(*   - writer threads that add a file they have finished and drop entries  *)
(*     whose files are gone (cdr_add_mp4_to_demuxlist);                    *)
(*   - threads of the phone application, the portal and the G sensor that  *)
(*     ask for a clip (cdr_read_mp4_ex);                                   *)
(*   - the cut thread, which makes the clips (mp4dircutcb,                 *)
(*     mp4dirstreamcut);                                                   *)
(*   - the replay thread (cdr_mp4ex_read_vframe) and whoever sets its      *)
(*     time (cdr_mp4ex_seek).                                              *)
(*                                                                         *)
(* An entry of the list (Mp4Info) is a piece of memory that the others     *)
(* keep pointers to, so entries have numbers, and freed tells which were   *)
(* freed.  A file is known by its place in time: file f lasts Seconds      *)
(* seconds and has VideoFrames video frames, the first one a key frame     *)
(* (Mp4Recorder: StartsWithKeyFrame), and AudioFrames audio frames.        *)
(*                                                                         *)
(* Operations of list.c are steps: their pointer writes are not split.     *)
(* Using a freed entry, or the NULL that get_next returns, is undefined:   *)
(* wild is set and the model ends.                                         *)
(***************************************************************************)
EXTENDS Integers, Sequences

CONSTANTS
    MaxFile,     \* bound: files, those on the card at start included
    OnCard,      \* files on the card at start
    Seconds,     \* seconds a file lasts (tmEnd - tmStart)
    Rate,        \* nframerate
    AudioRate,   \* audio frames a second (AUDIO_SAMPLE_RATE / 1024)
    KeyFrames,   \* the key frames of each file
    Clip,        \* clips: a first second, a length (nTotalLen) and a directory (dir)
    Requester,   \* threads that call cdr_read_mp4_ex
    Asks,        \* the clips each of them may ask for
    Budgets      \* bounds, one of which holds for a behaviour: calls of cdr_read_mp4_ex,
                 \* cdr_mp4ex_read_vframe and cdr_mp4ex_seek, files deleted

Time == 0..(MaxFile * Seconds - 1)

ASSUME DirectoryAssumption ==
    /\ MaxFile \in Nat \ {0} /\ OnCard \in 0..MaxFile
    /\ Seconds \in Nat \ {0} /\ Rate \in Nat \ {0} /\ AudioRate \in Nat \ {0}
    /\ KeyFrames \in [1..MaxFile -> SUBSET (1..(Seconds * Rate))]
    /\ \A f \in 1..MaxFile : 1 \in KeyFrames[f]
    /\ Clip # {} /\ \A c \in Clip : c.tm \in Time /\ c.len \in Nat \ {0}
    /\ Asks \in [Requester -> SUBSET Clip]
    /\ Budgets \subseteq [requests : Nat, reads : Nat, seeks : Nat, deletes : Nat]

VARIABLES
    card,      \* the files: not yet there, there, or deleted
    item,      \* the entries ever made: the file each one names
    freed,     \* the entries that were freed
    fileList,  \* pMp4dirinfo->fileList
    scanned,   \* files mp4dirdemuxercb has read
    addPc,     \* each file's writer in cdr_add_mp4_to_demuxlist
    cutList,   \* pMp4dirinfo->cutList, the front first
    reqPc, reqClip,    \* each requester in cdr_read_mp4_ex
    rivals,    \* history: clips that two requesters asked for at once
    clipFile,  \* the clips' files: none that MP4Read accepts, being written, made
    cutPc, cut, \* mp4dirstreamcut and its locals: the request, pMp4Info (item or copy),
                \* nReadIndex, nVFrameStart, the frames left, whether the file is open,
                \* and the video frame written last
    crossed,   \* history: a cut went on to another file
    stream,    \* g_pRrecStream
    recPc, shown,      \* cdr_mp4ex_read_vframe, and the frame it read last
    sought,    \* cdr_mp4ex_seek: the stream it is about to set
    wild,      \* freed memory was used
    budget     \* what is left of the bounds

list == <<item, freed, fileList>>
adders == <<scanned, addPc>>
requesters == <<reqPc, reqClip, rivals>>
cutter == <<cutPc, cut, crossed>>
replay == <<stream, recPc, shown, sought>>
vars == <<card, list, adders, cutList, requesters, clipFile, cutter, replay, wild, budget>>

Spend(what) == budget[what] > 0 /\ budget' = [budget EXCEPT ![what] = @ - 1]

File == 1..MaxFile
VideoFrames == Seconds * Rate
AudioFrames == Seconds * AudioRate
FileAt(tm) == tm \div Seconds + 1
Begins(f) == (f - 1) * Seconds

NoItem == 0
NoFrame == <<0, 0>>
NoFile == 0
NoStream == [item |-> NoItem, idx |-> 0, open |-> NoFile]
AnyClip == CHOOSE c \in Clip : TRUE

NoCut == [req |-> [clip |-> AnyClip, item |-> NoItem], item |-> NoItem, file |-> 1,
          idx |-> 0, start |-> 0, left |-> 0, open |-> FALSE, last |-> NoFrame]

-----------------------------------------------------------------------------
(* The list.                                                               *)

Named(i) == item[fileList[i]]
Places == 1..Len(fileList)

(* The first entry that names a file of S, 0 if there is none; what a walk *)
(* with a compare function finds.                                          *)
First(S) ==
    IF \E i \in Places : Named(i) \in S
    THEN CHOOSE i \in Places : Named(i) \in S /\ \A j \in 1..(i - 1) : Named(j) \notin S
    ELSE 0

(* The compare function is given every entry up to the one it finds.       *)
SafeWalk(S) == \A i \in Places : First(S) = 0 \/ i <= First(S) => fileList[i] \notin freed

InsertAtPlace(i, e) == SubSeq(fileList, 1, i - 1) \o <<e>> \o SubSeq(fileList, i, Len(fileList))

Later(f) == {g \in File : g > f}

(* A bug DirInv must notice: mp4info_nameless compares the other way round. *)
PushIfEarlier(f) ==
    LET p == First({g \in File : g < f}) IN
    /\ item' = Append(item, f)
    /\ fileList' = InsertAtPlace(IF p = 0 THEN Len(fileList) + 1 ELSE p, Len(item) + 1)
    /\ UNCHANGED freed

(* push_if with mp4info_nameless: a new entry goes before the first entry  *)
(* of a later name, or to the end.                                         *)
PushIf(f) ==
    LET p == First(Later(f)) IN
    /\ item' = Append(item, f)
    /\ fileList' = InsertAtPlace(IF p = 0 THEN Len(fileList) + 1 ELSE p, Len(item) + 1)
    /\ UNCHANGED freed

(* get_next with mp4info_nameeq: the entry behind the first of that name,  *)
(* the head behind the last; NULL if there is none of that name.           *)
NextOf(f) ==
    LET p == First({f}) IN
    IF p = 0 THEN NoItem ELSE fileList[IF p = Len(fileList) THEN 1 ELSE p + 1]

(* The walk for it meets no freed entry, and what it returns can be used.  *)
SafeNext(f) == SafeWalk({f}) /\ NextOf(f) \notin freed \cup {NoItem}

Init ==
    /\ card = [f \in File |-> IF f <= OnCard THEN "there" ELSE "none"]
    /\ item = <<>> /\ freed = {} /\ fileList = <<>>
    /\ scanned = {} /\ addPc = [f \in File |-> IF f <= OnCard THEN "done" ELSE "record"]
    /\ cutList = <<>>
    /\ reqPc = [r \in Requester |-> "idle"]
    /\ reqClip = [r \in Requester |-> AnyClip]
    /\ rivals = {}
    /\ clipFile = [c \in Clip |-> "none"]
    /\ cutPc = "idle" /\ cut = NoCut /\ crossed = FALSE
    /\ stream = NoStream /\ recPc = "idle" /\ shown = NoFrame
    /\ sought = NoStream
    /\ wild = FALSE
    /\ budget \in Budgets

-----------------------------------------------------------------------------
(* The card.                                                               *)

(* A writer closes its file, which gets the name the list knows it by, and *)
(* calls cdr_add_mp4_to_demuxlist (Mp4Recorder: CloseEncoder, Finish).     *)
FinishFile(f) ==
    /\ addPc[f] = "record"
    /\ \A g \in File : g < f => addPc[g] # "record"
    /\ card' = [card EXCEPT ![f] = "there"]
    /\ addPc' = [addPc EXCEPT ![f] = "check"]
    /\ UNCHANGED <<list, scanned, cutList, requesters, clipFile, cutter, replay, wild, budget>>

(* sd_update_file makes room, or the phone deletes a file.                 *)
DeleteFile(f) ==
    /\ card[f] = "there"
    /\ Spend("deletes")
    /\ card' = [card EXCEPT ![f] = "gone"]
    /\ UNCHANGED <<list, adders, cutList, requesters, clipFile, cutter, replay, wild>>

-----------------------------------------------------------------------------
(* mp4dirdemuxercb: readdir, in any order, sees what is on the card at     *)
(* start and may see what is added meanwhile.  It does not look whether    *)
(* the list has the file.                                                  *)
Meets(f) ==
    /\ f \notin scanned
    /\ card[f] = "there"
    /\ f > OnCard => \E g \in 1..OnCard : g \notin scanned

Scan(f) ==
    /\ Meets(f)
    /\ SafeWalk(Later(f))
    /\ scanned' = scanned \cup {f}
    /\ PushIf(f)
    /\ UNCHANGED <<card, addPc, cutList, requesters, clipFile, cutter, replay, wild, budget>>

(* cdr_add_mp4_to_demuxlist: access, find_occurrence.                      *)
AddCheck(f) ==
    /\ addPc[f] = "check"
    /\ card[f] = "there" => SafeWalk({f})
    /\ addPc' = [addPc EXCEPT ![f] = IF card[f] = "there" /\ First({f}) = 0 THEN "push" ELSE "done"]
    /\ UNCHANGED <<card, list, scanned, cutList, requesters, clipFile, cutter, replay, wild, budget>>

(* demuxer_mp4_info reads the file, push_if.                               *)
AddPush(f) ==
    /\ addPc[f] = "push"
    /\ card[f] = "there" => SafeWalk(Later(f))
    /\ IF card[f] = "there" THEN PushIf(f) ELSE UNCHANGED list
    /\ addPc' = [addPc EXCEPT ![f] = "look"]
    /\ UNCHANGED <<card, scanned, cutList, requesters, clipFile, cutter, replay, wild, budget>>

(* Entries at the front whose files are gone: get_index and access, ...    *)
TrimLook(f) ==
    /\ addPc[f] = "look"
    /\ fileList # <<>> => fileList[1] \notin freed
    /\ addPc' = [addPc EXCEPT ![f] =
                   IF fileList = <<>> \/ card[Named(1)] = "there" THEN "done" ELSE "remove"]
    /\ UNCHANGED <<card, list, scanned, cutList, requesters, clipFile, cutter, replay, wild, budget>>

(* ... remove_front.                                                       *)
TrimRemove(f) ==
    /\ addPc[f] = "remove"
    /\ fileList # <<>> => fileList[1] \notin freed
    /\ IF fileList = <<>> THEN UNCHANGED list
       ELSE /\ freed' = freed \cup {fileList[1]}
            /\ fileList' = Tail(fileList)
            /\ UNCHANGED item
    /\ addPc' = [addPc EXCEPT ![f] = "look"]
    /\ UNCHANGED <<card, scanned, cutList, requesters, clipFile, cutter, replay, wild, budget>>

Add(f) == AddCheck(f) \/ AddPush(f) \/ TrimLook(f) \/ TrimRemove(f)

-----------------------------------------------------------------------------
(* cdr_read_mp4_ex.                                                        *)

InCutList(c) == \E i \in 1..Len(cutList) : cutList[i].clip = c

(* A requester is past the check of the list with that clip.               *)
Asking(c) == \E q \in Requester : reqPc[q] # "idle" /\ reqClip[q] = c

(* A bug UnfinishedClipStays must notice: the list is not looked at.       *)
AskAnyway(r, c) ==
    /\ reqPc[r] = "idle" /\ c \in Asks[r]
    /\ Spend("requests")
    /\ reqPc' = [reqPc EXCEPT ![r] = "file"]
    /\ reqClip' = [reqClip EXCEPT ![r] = c]
    /\ rivals' = IF Asking(c) THEN rivals \cup {c} ELSE rivals
    /\ UNCHANGED <<card, list, adders, cutList, clipFile, cutter, replay, wild>>

(* A clip of that name already asked for: return 0.                        *)
ReqList(r, c) ==
    /\ reqPc[r] = "idle" /\ c \in Asks[r]
    /\ Spend("requests")
    /\ IF InCutList(c) THEN UNCHANGED requesters
       ELSE /\ reqPc' = [reqPc EXCEPT ![r] = "file"]
            /\ reqClip' = [reqClip EXCEPT ![r] = c]
            /\ rivals' = IF Asking(c) THEN rivals \cup {c} ELSE rivals
    /\ UNCHANGED <<card, list, adders, cutList, clipFile, cutter, replay, wild>>

(* access and MP4Read.  Already made: call back, return 0.  A file that    *)
(* MP4Read refuses, one being written or one that a cut broken off has     *)
(* left, ...                                                               *)
ReqFile(r) ==
    LET c == reqClip[r] IN
    /\ reqPc[r] = "file"
    /\ \E next \in CASE clipFile[c] = "made" -> {"idle"}
                     [] clipFile[c] = "writing" -> {"remove"}
                     [] clipFile[c] = "none" -> {"look", "remove"} :
           reqPc' = [reqPc EXCEPT ![r] = next]
    /\ reqClip' = IF clipFile[c] = "made" THEN [reqClip EXCEPT ![r] = AnyClip] ELSE reqClip
    /\ UNCHANGED <<card, list, adders, cutList, clipFile, rivals, cutter, replay, wild, budget>>

(* ... is removed, whatever that name stands for by then.                  *)
ReqRemove(r) ==
    /\ reqPc[r] = "remove"
    /\ clipFile' = [clipFile EXCEPT ![reqClip[r]] = "none"]
    /\ reqPc' = [reqPc EXCEPT ![r] = "look"]
    /\ UNCHANGED <<card, list, adders, cutList, reqClip, rivals, cutter, replay, wild, budget>>

(* get_if with mp4info_timeeq; push_front, or return -1.                   *)
ReqPush(r) ==
    LET S == {FileAt(reqClip[r].tm)} IN
    /\ reqPc[r] = "look"
    /\ SafeWalk(S)
    /\ cutList' = IF First(S) = 0 THEN cutList
                  ELSE <<[clip |-> reqClip[r], item |-> fileList[First(S)]]>> \o cutList
    /\ reqPc' = [reqPc EXCEPT ![r] = "idle"]
    /\ reqClip' = [reqClip EXCEPT ![r] = AnyClip]
    /\ UNCHANGED <<card, list, adders, clipFile, rivals, cutter, replay, wild, budget>>

Request(r) == ReqFile(r) \/ ReqRemove(r) \/ ReqPush(r)

-----------------------------------------------------------------------------
(* mp4dircutcb and mp4dirstreamcut.                                        *)

(* pMp4Info is a copy of the request's entry, until get_next makes it the  *)
(* entry of another file in the list.                                      *)
CurFile == IF cut.item = NoItem THEN cut.file ELSE item[cut.item]
CurIsFreed == cut.item \in freed

(* The first key frame of f behind i, or VideoFrames + 1 if there is none  *)
(* or f could not be opened.                                               *)
SyncAfter(f, i, opened) ==
    LET K == {j \in KeyFrames[f] : opened /\ j > i} IN
    IF K = {} THEN VideoFrames + 1 ELSE CHOOSE j \in K : \A k \in K : j <= k

BeginAt(e) ==
    LET f == item[e.item]
        there == card[f] = "there"
        i == SyncAfter(f, (e.clip.tm - Begins(f)) * Rate, there)
    IN [NoCut EXCEPT !.req = e, !.file = f, !.open = there, !.idx = i, !.start = i,
                     !.left = e.clip.len * Rate]

(* The front request: its clip's file is created, its entry copied, and    *)
(* the first key frame from its time on is where the clip begins.          *)
CutBegin ==
    /\ cutPc = "idle" /\ cutList # <<>>
    /\ cutList[1].item \notin freed
    /\ cut' = BeginAt(cutList[1])
    /\ clipFile' = [clipFile EXCEPT ![cutList[1].clip] = "writing"]
    /\ cutPc' = "video"
    /\ UNCHANGED <<card, list, adders, cutList, requesters, crossed, replay, wild, budget>>

Cutting == cutPc \in {"video", "audio"}
PerFile == IF cutPc = "video" THEN VideoFrames ELSE AudioFrames

(* get_next and MP4Read.                                                   *)
Continue(first, left) ==
    /\ SafeNext(CurFile)
    /\ cut' = [cut EXCEPT !.item = NextOf(CurFile), !.open = card[item[NextOf(CurFile)]] = "there",
                          !.idx = first, !.left = left]
    /\ crossed' = TRUE

(* A bug ClipInOrder must notice: the next file is begun one frame late.   *)
CutNextFileLate ==
    /\ Cutting /\ cut.left > 0 /\ cut.idx > PerFile
    /\ ~CurIsFreed
    /\ Continue(2, cut.left)
    /\ UNCHANGED <<card, list, adders, cutList, requesters, clipFile, cutPc, replay, wild, budget>>

(* The file is at its end: the next file.                                  *)
CutNextFile ==
    /\ Cutting /\ cut.left > 0 /\ cut.idx > PerFile
    /\ ~CurIsFreed
    /\ Continue(1, cut.left)
    /\ UNCHANGED <<card, list, adders, cutList, requesters, clipFile, cutPc, replay, wild, budget>>


(* MP4ReadSample and cdr_mp4_write_frame_ex.  Sample 0, and a file that    *)
(* could not be opened, give nothing, and the loop goes round.             *)
CutFrame ==
    /\ Cutting /\ cut.left > 0 /\ cut.idx \in 1..PerFile
    /\ ~CurIsFreed
    /\ cut.open
    /\ cut' = [cut EXCEPT !.idx = @ + 1, !.left = @ - 1,
                          !.last = IF cutPc = "video" THEN <<CurFile, cut.idx>> ELSE @]
    /\ UNCHANGED <<card, list, adders, cutList, requesters, clipFile, cutPc, crossed, replay, wild, budget>>

(* The video is done: the request's entry is copied to where pMp4Info      *)
(* points.                                                                 *)
CutToAudio ==
    /\ cutPc = "video" /\ cut.left = 0
    /\ ~CurIsFreed /\ cut.req.item \notin freed
    /\ IF cut.item = NoItem
       THEN cut' = [cut EXCEPT !.file = item[cut.req.item]] /\ UNCHANGED item
       ELSE item' = [item EXCEPT ![cut.item] = item[cut.req.item]] /\ UNCHANGED cut
    /\ cutPc' = "turn"
    /\ UNCHANGED <<card, freed, fileList, adders, cutList, requesters, clipFile, crossed, replay, wild, budget>>

(* The audio begins where the video did, in time, or in the next file.     *)
AudioAt(v) == (v * AudioRate) \div Rate
AudioElsewhere == cut.start = VideoFrames \/ AudioAt(cut.start) > AudioFrames
AudioLength == cut.req.clip.len * AudioRate

CutAudioBegin ==
    /\ cutPc = "turn"
    /\ ~CurIsFreed
    /\ IF AudioElsewhere THEN Continue(1, AudioLength)
       ELSE /\ cut' = [cut EXCEPT !.idx = AudioAt(cut.start), !.open = card[CurFile] = "there",
                                  !.left = AudioLength]
            /\ UNCHANGED crossed
    /\ cutPc' = "audio"
    /\ UNCHANGED <<card, list, adders, cutList, requesters, clipFile, replay, wild, budget>>

(* get_next is called next.                                                *)
CutContinues ==
    \/ Cutting /\ cut.left > 0 /\ cut.idx > PerFile
    \/ cutPc = "turn" /\ AudioElsewhere

(* cdr_mp4_close_ex, and free(pMp4Info).                                   *)
CutEnd ==
    /\ cutPc = "audio" /\ cut.left = 0
    /\ ~CurIsFreed
    /\ freed' = freed \cup ({cut.item} \ {NoItem})
    /\ clipFile' = [clipFile EXCEPT ![cut.req.clip] = IF @ = "writing" THEN "made" ELSE @]
    /\ cutPc' = "report"
    /\ UNCHANGED <<card, item, fileList, adders, cutList, requesters, cut, crossed, replay, wild, budget>>

(* The callback, and remove_front of the request list; the locals are gone. *)
CutRemove ==
    /\ cutPc = "report"
    /\ cutList' = Tail(cutList)
    /\ cutPc' = "idle"
    /\ cut' = NoCut
    /\ UNCHANGED <<card, list, adders, requesters, clipFile, crossed, replay, wild, budget>>

Cut ==
    CutBegin \/ CutNextFile \/ CutFrame \/ CutToAudio \/ CutAudioBegin \/ CutEnd \/ CutRemove

-----------------------------------------------------------------------------
(* cdr_mp4ex_read_vframe, which reads g_pRrecStream anew in every step.    *)

StreamIsFreed == sought # NoStream \/ stream.item \in freed

(* A bug ReplayInOrder must notice: the last frame of a file is skipped.   *)
RecCheckEarly ==
    /\ recPc = "idle" /\ fileList # <<>>
    /\ Spend("reads")
    /\ ~StreamIsFreed
    /\ stream' = IF stream = NoStream THEN [item |-> fileList[1], idx |-> 1, open |-> NoFile] ELSE stream
    /\ recPc' = IF stream'.idx >= VideoFrames THEN "next" ELSE "open"
    /\ UNCHANGED <<card, list, adders, cutList, requesters, clipFile, cutter,
                   shown, sought, wild>>

(* Without a stream the first file is the stream; at the end of its file   *)
(* it goes on with the next.                                               *)
RecCheck ==
    /\ recPc = "idle" /\ fileList # <<>>
    /\ Spend("reads")
    /\ ~StreamIsFreed
    /\ stream' = IF stream = NoStream THEN [item |-> fileList[1], idx |-> 1, open |-> NoFile] ELSE stream
    /\ recPc' = IF stream'.idx > VideoFrames THEN "next" ELSE "open"
    /\ UNCHANGED <<card, list, adders, cutList, requesters, clipFile, cutter,
                   shown, sought, wild>>

RecNext ==
    /\ recPc = "next"
    /\ ~StreamIsFreed /\ SafeNext(item[stream.item])
    /\ stream' = [item |-> NextOf(item[stream.item]), idx |-> 1, open |-> NoFile]
    /\ recPc' = "open"
    /\ UNCHANGED <<card, list, adders, cutList, requesters, clipFile, cutter,
                   shown, sought, wild, budget>>

(* MP4Read unless the file is open.                                        *)
RecOpen ==
    /\ recPc = "open"
    /\ ~StreamIsFreed
    /\ stream' = [stream EXCEPT !.open =
                     IF @ = NoFile /\ card[item[stream.item]] = "there" THEN item[stream.item] ELSE @]
    /\ recPc' = "read"
    /\ UNCHANGED <<card, list, adders, cutList, requesters, clipFile, cutter,
                   shown, sought, wild, budget>>

(* MP4ReadSample: there is no sample 0, and none in a file that is not     *)
(* open; cdr_mp4ex_read_vframe returns -1 and is called again.             *)
RecRead ==
    LET found == stream.open # NoFile /\ stream.idx \in 1..VideoFrames IN
    /\ recPc = "read"
    /\ ~StreamIsFreed
    /\ shown' = IF found THEN <<stream.open, stream.idx>> ELSE shown
    /\ recPc' = IF found THEN "advance" ELSE "idle"
    /\ UNCHANGED <<card, list, adders, cutList, requesters, clipFile, cutter,
                   stream, sought, wild, budget>>

RecAdvance ==
    /\ recPc = "advance"
    /\ sought = NoStream
    /\ stream' = [stream EXCEPT !.idx = @ + 1]
    /\ recPc' = "idle"
    /\ UNCHANGED <<card, list, adders, cutList, requesters, clipFile, cutter,
                   shown, sought, wild, budget>>

Replay == RecCheck \/ RecNext \/ RecOpen \/ RecRead \/ RecAdvance

(* cdr_mp4ex_seek: the file of that time is looked up and the old stream   *)
(* freed, ...                                                              *)
Seek(tm) ==
    LET S == {FileAt(tm)} IN
    /\ sought = NoStream
    /\ Spend("seeks")
    /\ SafeWalk(S)
    /\ sought' = IF First(S) = 0 THEN NoStream
                 ELSE [item |-> fileList[First(S)], idx |-> (tm - Begins(FileAt(tm))) * Rate,
                       open |-> NoFile]
    /\ UNCHANGED <<card, list, adders, cutList, requesters, clipFile, cutter,
                   stream, recPc, shown, wild>>

(* ... and the new one set.  The frame shown before no longer counts.      *)
SeekSet ==
    /\ sought # NoStream
    /\ stream' = sought
    /\ sought' = NoStream
    /\ shown' = NoFrame
    /\ UNCHANGED <<card, list, adders, cutList, requesters, clipFile, cutter,
                   recPc, wild, budget>>

-----------------------------------------------------------------------------
(* What would touch freed memory next: a walk over the list, ...           *)
WalksFreed ==
    \/ \E f \in File :
         /\ card[f] = "there"
         /\ \/ addPc[f] = "check" /\ ~SafeWalk({f})
            \/ (addPc[f] = "push" \/ Meets(f)) /\ ~SafeWalk(Later(f))
    \/ \E r \in Requester : reqPc[r] = "look" /\ ~SafeWalk({FileAt(reqClip[r].tm)})
    \/ sought = NoStream /\ budget.seeks > 0 /\ \E tm \in Time : ~SafeWalk({FileAt(tm)})
    \/ CutContinues /\ ~CurIsFreed /\ ~SafeWalk({CurFile})
    \/ recPc = "next" /\ ~StreamIsFreed /\ ~SafeWalk({item[stream.item]})

(* ... an entry or a stream that is pointed to, or the NULL of a name that *)
(* was not found.                                                          *)
UsesFreed ==
    \/ \E f \in File : addPc[f] \in {"look", "remove"} /\ fileList # <<>> /\ fileList[1] \in freed
    \/ cutPc = "idle" /\ cutList # <<>> /\ cutList[1].item \in freed
    \/ cutPc \in {"video", "turn", "audio"} /\ CurIsFreed
    \/ cutPc = "video" /\ cut.left = 0 /\ cut.req.item \in freed
    \/ CutContinues /\ ~CurIsFreed /\ NextOf(CurFile) \in freed \cup {NoItem}
    \/ recPc = "idle" /\ fileList # <<>> /\ budget.reads > 0 /\ StreamIsFreed
    \/ recPc \in {"next", "open", "read"} /\ StreamIsFreed
    \/ recPc = "next" /\ ~StreamIsFreed /\ NextOf(item[stream.item]) \in freed \cup {NoItem}
    \/ recPc = "advance" /\ sought # NoStream

Undefined == WalksFreed \/ UsesFreed

Misuse ==
    /\ Undefined
    /\ wild' = TRUE
    /\ UNCHANGED <<card, list, adders, cutList, requesters, clipFile, cutter, replay, budget>>

-----------------------------------------------------------------------------
Next ==
    /\ ~wild
    /\ \/ \E f \in File : FinishFile(f) \/ DeleteFile(f) \/ Scan(f) \/ Add(f)
       \/ \E r \in Requester : Request(r) \/ \E c \in Clip : ReqList(r, c)
       \/ Cut \/ Replay
       \/ \E tm \in Time : Seek(tm)
       \/ SeekSet
       \/ Misuse

Safety == Init /\ [][Next]_vars

(* The threads run.  Nobody has to record, delete, ask or seek.            *)
Spec ==
    /\ Safety
    /\ WF_vars(~wild /\ Cut)
    /\ WF_vars(~wild /\ Replay)
    /\ WF_vars(~wild /\ SeekSet)
    /\ \A r \in Requester : WF_vars(~wild /\ Request(r))

-----------------------------------------------------------------------------
(* Properties.                                                             *)

Listed == {fileList[i] : i \in Places}
InOrder == \A i, j \in Places : i < j => Named(i) < Named(j)

(* Types, and what the list promises its users as long as every cut stayed *)
(* within one file: names in order, no freed entry, and a file twice only  *)
(* if the thread that reads the card met one recorded after the start.     *)
DirInv ==
    /\ \A i \in 1..Len(item) : item[i] \in File
    /\ Listed \cup freed \subseteq 1..Len(item)
    /\ cut.item \in 0..Len(item) /\ stream.item \in 0..Len(item)
    /\ cut.left \in Nat
    /\ \A i \in 1..Len(cutList) : cutList[i].item \in 1..Len(item)
    /\ ~crossed =>
         /\ \A i, j \in Places : i < j => Named(i) <= Named(j)
         /\ Listed \cap freed = {}
         /\ \A i, j \in Places : i # j /\ Named(i) = Named(j) => Named(i) \in scanned \ 1..OnCard

(* While a clip is cut its request is in the list, so whoever asks for it  *)
(* again finds it there and does not remove the unfinished file (the check *)
(* of the list in cdr_read_mp4_ex before the check of the file).  Check    *)
(* and removal are not one step: the file is lost only when two requesters *)
(* were between them for one clip at once.                                 *)
UnfinishedClipStays ==
    \A c \in Clip :
        LET cutting == cutPc \in {"video", "turn", "audio"} /\ cut.req.clip = c IN
        /\ clipFile[c] = "writing" => cutting
        /\ cutting => InCutList(c) /\ (clipFile[c] = "writing" \/ c \in rivals)

NextListed(f) ==
    LET S == {item[e] : e \in Listed}
        T == {g \in S : g > f}
    IN CHOOSE g \in IF T = {} THEN S ELSE T : \A h \in IF T = {} THEN S ELSE T : g <= h

Follows(p, q) ==
    \/ q[1] = p[1] /\ q[2] = p[2] + 1
    \/ p[2] = VideoFrames /\ q[2] = 1

(* The video of a clip begins with a key frame and leaves out no frame: a  *)
(* file is read to its end, and the next is the one recorded after it, or  *)
(* the oldest, if the list is in order.                                    *)
ClipInOrder ==
    [][/\ cut'.last \notin {cut.last, NoFrame} =>
            IF cut.last = NoFrame THEN cut'.last[2] \in KeyFrames[cut'.last[1]] ELSE Follows(cut.last, cut'.last)
       /\ cutPc = "video" /\ cutPc' = "video" /\ cut'.item # cut.item /\ InOrder =>
            CurFile' = NextListed(CurFile)]_vars

(* The same for replay, between two seeks.                                 *)
ReplayInOrder ==
    [][/\ shown' \notin {shown, NoFrame} /\ shown # NoFrame => Follows(shown, shown')
       /\ recPc = "next" /\ recPc' = "open" /\ InOrder =>
            item[stream.item]' = NextListed(item[stream.item])]_vars

(* The read that fails whenever it is tried: of audio sample 0, when the   *)
(* video of the clip began less than an audio frame into its file, or from *)
(* a file that was deleted.                                                *)
CutIsStuck == Cutting /\ cut.left > 0 /\ cut.idx <= PerFile /\ (cut.idx = 0 \/ ~cut.open)


-----------------------------------------------------------------------------
(* What comments of parsemp4dir.c say and the code does not do.            *)

(* The compare functions get valid data (lines 18-19): no walk over the    *)
(* list meets an entry that was freed.                                     *)
ListDataValid == ~WalksFreed

(* A clip is cut if its file does not exist (line 377).                    *)
CutOnlyWithoutFile ==
    [][cutPc = "idle" /\ cutPc' = "video" => clipFile[cut'.req.clip] # "made"]_vars
=============================================================================
