-------------------------- MODULE Mp4RecorderProofs --------------------------
(***************************************************************************)
(* Proofs about Mp4Recorder, for every value of its constants.  RecorderInv*)
(* is inductive as it stands; FrameInv is inductive relative to it.  Each  *)
(* has one lemma per action that can disturb it.                           *)
(***************************************************************************)
EXTENDS Mp4Recorder, SequenceTheorems, TLAPS

-----------------------------------------------------------------------------
(* Contexts.                                                               *)

(* What cdr_mp4_create puts into a context, and a context that is not listed. *)
LEMMA NewCtxType ==
    /\ NewCtx \in CtxType /\ NewCtx.inList /\ ~NewCtx.closeFlag
    /\ NoCtx \in CtxType /\ ~NoCtx.inList
<1>1. FileSeconds * Fps \in Nat /\ FileSeconds * Fps >= 1
  BY RecorderAssumption
<1> DEFINE n == FileSeconds * Fps
<1>2. n - 1 \in Nat
  BY <1>1
<1>3. NewCtx \in CtxType /\ NewCtx.inList /\ ~NewCtx.closeFlag
  BY <1>2 DEF NewCtx, CtxType
<1>4. NoCtx \in CtxType /\ ~NoCtx.inList
  BY <1>3 DEF NoCtx, CtxType
<1> QED BY <1>3, <1>4

(* Replacing one context.                                                  *)
LEMMA CtxUpdate ==
    ASSUME TypeOK, NEW h \in Handle, NEW r \in CtxType, ctx' = [ctx EXCEPT ![h] = r]
    PROVE  /\ ctx' \in [Handle -> CtxType]
           /\ ctx'[h] = r
           /\ \A k \in Handle : k # h => ctx'[k] = ctx[k]
  BY DEF TypeOK

(* No context enters or leaves the list and no flag is set.                *)
SameStatus ==
    \A k \in Handle : ctx'[k].inList = ctx[k].inList /\ ctx'[k].closeFlag = ctx[k].closeFlag

(* A context's counters and flags for its picture do not change its status. *)
LEMMA UpdateKeepsStatus ==
    ASSUME TypeOK, NEW h \in Handle, NEW r \in CtxType, ctx' = [ctx EXCEPT ![h] = r],
           r.inList = ctx[h].inList, r.closeFlag = ctx[h].closeFlag
    PROVE  SameStatus
  BY CtxUpdate DEF SameStatus

(* Without a change of status or of a writer's place the parts of the      *)
(* invariant about them are kept.                                          *)
LEMMA StatusKept ==
  ASSUME RecorderInv, SameStatus, wpc' = wpc, nIndex' = nIndex, mp4handle' = mp4handle,
         Recording' <=> Recording
  PROVE  WriterInv' /\ RecorderOwnsFile' /\ OneOpenFile'
<1> USE DEF RecorderInv, SameStatus
<1>3. WriterInv'
  BY DEF WriterInv
<1>4. RecorderOwnsFile'
  BY DEF RecorderOwnsFile, Found
<1>5. OneOpenFile'
  BY DEF OneOpenFile
<1> QED BY <1>3, <1>4, <1>5

(* A writer moves on; it goes past its loop only when the flag is set.     *)
LEMMA WriterMoves ==
  ASSUME RecorderInv, SameStatus, nIndex' = nIndex, mp4handle' = mp4handle,
         recPc' = recPc, NEW h \in Handle, NEW pc, wpc' = [wpc EXCEPT ![h] = pc],
         wpc[h] \notin {"none", "done"}, pc \notin {"none", "done"},
         pc \in {"get", "check"} \/ ctx[h].closeFlag
  PROVE  WriterInv' /\ RecorderOwnsFile' /\ OneOpenFile'
<1> USE DEF RecorderInv, SameStatus
<1>1. wpc'[h] = pc /\ \A k \in Handle : k # h => wpc'[k] = wpc[k]
  BY DEF TypeOK
<1>2. WriterInv'
  BY <1>1 DEF WriterInv
<1>3. RecorderOwnsFile'
  BY <1>1 DEF RecorderOwnsFile, Found, Recording
<1>4. OneOpenFile'
  BY DEF OneOpenFile, Recording
<1> QED BY <1>2, <1>3, <1>4

(* The count's part does not depend on the writers.                        *)
LEMMA CountKept ==
  ASSUME RecorderInv, recPc' = recPc, recLeft' = recLeft, todo' = todo, mp4handle' = mp4handle,
         callPc' = callPc, callLeft' = callLeft,
         \A h \in Handle : h = mp4handle /\ Recording => ctx'[h].left = ctx[h].left
  PROVE  CountInv'
<1>1. recPc = "put" => mp4handle \in Handle /\ Recording
  BY DEF RecorderInv, RecorderOwnsFile, Recording, Found
<1> QED BY <1>1 DEF RecorderInv, CountInv, IsVideo

-----------------------------------------------------------------------------
(* The steps of the recording thread.                                      *)

(* p->nFrameleft-- is written back: it was positive when it was read.      *)
LEMMA CountFrameStep == ASSUME RecorderInv, CountFrame PROVE RecorderInv'
<1> DEFINE h == mp4handle
           l == recLeft - 1
           k == ctx[h].cutFrame + (IF ctx[h].cutFlag THEN 1 ELSE 0)
           r == [ctx[h] EXCEPT !.left = l, !.cutFrame = k]
<1> USE DEF RecorderInv
<1>1. h \in Handle /\ ctx[h] \in CtxType /\ l \in Nat
  BY DEF CountFrame, TypeOK, RecorderOwnsFile, Recording, Found, CountInv
<1>2. k \in Nat
  BY <1>1 DEF CtxType
<1>3. ctx' = [ctx EXCEPT ![h] = r]
  BY DEF CountFrame
<1> HIDE DEF k, l
<1>4. r \in CtxType /\ r.inList = ctx[h].inList /\ r.closeFlag = ctx[h].closeFlag
  BY <1>1, <1>2 DEF CtxType
<1> HIDE DEF r
<1>5. ctx' \in [Handle -> CtxType] /\ SameStatus
  BY <1>1, <1>3, <1>4, CtxUpdate, UpdateKeepsStatus
<1>6. TypeOK'
  BY <1>5 DEF TypeOK, CountFrame, env, recorder, callers
<1>7. CountInv'
  <2>1. \A i \in 1..Len(todo) : ~IsVideo(todo[i])
    BY DEF CountInv, CountFrame
  <2>2. todo # <<>> => ~IsVideo(todo[1])
    BY <2>1 DEF TypeOK
  <2> QED BY <2>1, <2>2 DEF CountInv, CountFrame, callers, IsVideo
<1>8. wpc' = wpc /\ nIndex' = nIndex /\ mp4handle' = mp4handle /\ Recording /\ Recording'
  BY DEF CountFrame, Recording
<1>9. WriterInv' /\ RecorderOwnsFile' /\ OneOpenFile'
  BY <1>5, <1>8, StatusKept
<1> QED BY <1>6, <1>7, <1>9

(* A frame goes to the ring.                                               *)
LEMMA PutFrameStep == ASSUME RecorderInv, PutFrame PROVE RecorderInv'
<1> DEFINE h == mp4handle
           f == Head(todo)
           l == ctx[h].taken + 1
           k == ctx[h].takenVideo + (IF IsVideo(f) THEN 1 ELSE 0)
           r == [ctx[h] EXCEPT !.taken = l, !.takenVideo = k]
<1> USE DEF RecorderInv
<1>1. h \in Handle /\ ctx[h] \in CtxType /\ todo \in Seq(Frame) /\ todo # <<>>
  BY DEF PutFrame, TypeOK, RecorderOwnsFile, Recording, Found, CountInv
<1>2. k \in Nat /\ l \in Nat
  BY <1>1 DEF CtxType
<1>3. ctx' = [ctx EXCEPT ![h] = r]
  BY DEF PutFrame
<1> HIDE DEF k, l
<1>4. r \in CtxType /\ r.inList = ctx[h].inList /\ r.closeFlag = ctx[h].closeFlag /\ r.left = ctx[h].left
  BY <1>1, <1>2 DEF CtxType
<1> HIDE DEF r
<1>5. ctx' \in [Handle -> CtxType] /\ SameStatus
  BY <1>1, <1>3, <1>4, CtxUpdate, UpdateKeepsStatus
<1>6. TypeOK'
  <2>1. f \in Frame /\ Tail(todo) \in Seq(Frame)
    BY <1>1
  <2>2. ctx[h].left \in Nat
    BY <1>1 DEF CtxType
  <2>3. fifo \in [Handle -> Seq(Frame)] /\ \A q \in Seq(Frame) : Append(q, f) \in Seq(Frame)
    BY <2>1 DEF TypeOK
  <2>4. fifo' \in [Handle -> Seq(Frame)]
    BY <1>1, <2>3 DEF PutFrame
  <2>5. recLeft' \in Nat /\ todo' \in Seq(Frame) /\ recPc' \in {"count", "power", "put"}
    BY <2>1, <2>2 DEF PutFrame
  <2> QED BY <1>5, <2>4, <2>5 DEF TypeOK, PutFrame, env, recorder, callers
<1>7. CountInv'
  <2>1. \A i \in 1..Len(todo') : ~IsVideo(todo'[i])
    <3>1. todo' = Tail(todo)
      BY DEF PutFrame
    <3>2. \A i \in 1..Len(Tail(todo)) : i + 1 \in 1..Len(todo) /\ i + 1 > 1 /\ Tail(todo)[i] = todo[i + 1]
      BY <1>1
    <3> QED BY <3>1, <3>2 DEF CountInv
  <2>2. todo' # <<>> => ~IsVideo(todo'[1])
    <3>1. todo' \in Seq(Frame)
      BY <1>1 DEF PutFrame
    <3> QED BY <2>1, <3>1
  <2>3. recPc' = "count" => recLeft' > 0
    <3>1. f = todo[1]
      BY <1>1
    <3> QED BY <1>1, <3>1 DEF PutFrame, CountInv
  <2>4. recPc' = "put" => todo' # <<>>
    BY DEF PutFrame
  <2> QED BY <2>1, <2>2, <2>3, <2>4 DEF CountInv, PutFrame, callers
<1>8. wpc' = wpc /\ nIndex' = nIndex /\ mp4handle' = mp4handle /\ Recording /\ Recording'
  BY DEF PutFrame, Recording
<1>9. WriterInv' /\ RecorderOwnsFile' /\ OneOpenFile'
  BY <1>5, <1>8, StatusKept
<1> QED BY <1>6, <1>7, <1>9

(* A new context gets the next handle, which no context had.               *)
LEMMA CreateFileStep == ASSUME RecorderInv, CreateFile PROVE RecorderInv'
<1> USE DEF RecorderInv
<1>1. nIndex \in Handle /\ recPc = "top" /\ recPc' \in {"top", "loop"} /\ nIndex \in Nat
  BY RecorderAssumption DEF CreateFile, Handle, TypeOK
<1>2. /\ ctx' \in [Handle -> CtxType] /\ ctx'[nIndex] = NewCtx
      /\ \A k \in Handle : k # nIndex => ctx'[k] = ctx[k]
  BY <1>1, NewCtxType, CtxUpdate DEF CreateFile
<1>3. /\ wpc'[nIndex] = "get"
      /\ \A k \in Handle : k # nIndex => wpc'[k] = wpc[k]
  BY <1>1 DEF CreateFile, TypeOK
<1>4. TypeOK'
  <2>1. nIndex' \in 0..MaxFile
    BY <1>1, RecorderAssumption DEF CreateFile
  <2> QED BY <1>1, <1>2, <2>1 DEF TypeOK, CreateFile, env, callers
<1>5. WriterInv'
  <2>1. \A k \in Handle : k \in Int
    BY RecorderAssumption DEF Handle
  <2>2. nIndex' = nIndex + 1
    BY DEF CreateFile
  <2> QED BY <1>1, <1>2, <1>3, <2>1, <2>2, NewCtxType DEF WriterInv
<1>6. CountInv'
  BY <1>1 DEF CountInv, CreateFile, callers
<1>7. RecorderOwnsFile'
  BY <1>1, <1>2, <1>3, NewCtxType DEF RecorderOwnsFile, Found, CreateFile
<1>8. OneOpenFile'
  <2>1. ~Recording /\ (nIndex = 0 \/ Recording') /\ mp4handle' = nIndex
    BY <1>1 DEF CreateFile, Recording
  <2> QED BY <1>2, <2>1 DEF OneOpenFile
<1> QED BY <1>4, <1>5, <1>6, <1>7, <1>8

(* The flag is set on the context being recorded.                          *)
LEMMA CloseFileStep == ASSUME RecorderInv, CloseFile PROVE RecorderInv'
<1> USE DEF RecorderInv
<1> DEFINE h == mp4handle
           r == [ctx[h] EXCEPT !.closeFlag = TRUE]
<1>1. h \in Handle /\ ctx[h] \in CtxType /\ Recording
  BY DEF CloseFile, TypeOK, RecorderOwnsFile, Recording, Found
<1>2. ctx' = [ctx EXCEPT ![h] = r]
  BY DEF CloseFile
<1>3. r \in CtxType /\ r.inList = ctx[h].inList /\ r.closeFlag
  BY <1>1 DEF CtxType
<1> HIDE DEF r
<1>4. /\ ctx' \in [Handle -> CtxType] /\ ctx'[h] = r
      /\ \A k \in Handle : k # h => ctx'[k] = ctx[k]
  BY <1>1, <1>2, <1>3, CtxUpdate
<1>5. TypeOK'
  BY <1>4 DEF TypeOK, CloseFile, env, callers
<1>6. wpc' = wpc /\ nIndex' = nIndex /\ mp4handle' = mp4handle /\ ~Recording'
  BY DEF CloseFile, Recording
<1>7. WriterInv'
  BY <1>3, <1>4, <1>6 DEF WriterInv
<1>8. CountInv'
  BY DEF CountInv, CloseFile, callers
<1>9. RecorderOwnsFile' /\ OneOpenFile'
  BY <1>3, <1>4, <1>6 DEF RecorderOwnsFile, OneOpenFile
<1> QED BY <1>5, <1>7, <1>8, <1>9

(* Sequences of one and of two elements.                                   *)
LEMMA Pair ==
    ASSUME NEW S, NEW p \in S, NEW q \in S
    PROVE  /\ <<p>> \o <<q>> = <<p, q>> /\ <<p, q>> \in Seq(S)
           /\ Len(<<p, q>>) = 2 /\ <<p, q>>[1] = p /\ <<p, q>>[2] = q
<1>1. <<p>> \in Seq(S) /\ <<q>> \in Seq(S) /\ <<p, q>> \in Seq(S)
  OBVIOUS
<1>2. Len(<<p>>) = 1 /\ Len(<<q>>) = 1 /\ Len(<<p, q>>) = 2
  OBVIOUS
<1>3. <<p>>[1] = p /\ <<q>>[1] = q /\ <<p, q>>[1] = p /\ <<p, q>>[2] = q
  OBVIOUS
<1>4. <<p>> \o <<q>> = <<p, q>>
  <2> DEFINE s == <<p>> \o <<q>>
             t == <<p, q>>
  <2>1. s \in Seq(S) /\ Len(s) = 2 /\ s[1] = p /\ s[2] = q
    BY <1>1, <1>2, <1>3, ConcatProperties
  <2>2. t \in Seq(S) /\ Len(t) = 2 /\ t[1] = p /\ t[2] = q
    BY <1>1, <1>2, <1>3
  <2> HIDE DEF s, t
  <2>3. s = t
    BY <2>1, <2>2, SeqEqual
  <2> QED BY <2>3 DEF s, t
<1> QED BY <1>1, <1>2, <1>3, <1>4

(* Likewise for one element and the empty sequence.                        *)
LEMMA Single ==
    ASSUME NEW S, NEW p \in S
    PROVE  /\ <<p>> \o <<>> = <<p>> /\ <<>> \o <<p>> = <<p>> /\ <<p>> \in Seq(S)
           /\ Len(<<p>>) = 1 /\ <<p>>[1] = p
<1>1. <<p>> \in Seq(S)
  OBVIOUS
<1>2. Len(<<p>>) = 1 /\ <<p>>[1] = p
  OBVIOUS
<1> QED BY <1>1, <1>2, ConcatEmptySeq

(* What is kept of a round of select: nothing, one frame, or a video frame *)
(* and an audio frame, numbered from the frames accepted so far, and nothing *)
(* before a key frame.                                                     *)
LEMMA KeptIs ==
    ASSUME NEW v \in {"none", "I", "P"}, NEW a \in BOOLEAN, ctx[mp4handle].taken \in Nat
    PROVE  LET n == ctx[mp4handle].taken
               s == Kept(v, a)
           IN  \/ s = <<>> /\ v # "I"
               \/ \E x \in Frame : s = <<x>> /\ x.no = n /\ (x.type = "I" <=> v = "I")
                                 /\ (iFrameFlag \/ v = "I")
               \/ \E x, y \in Frame : /\ s = <<x, y>> /\ x.no = n /\ y.no = n + 1
                                     /\ (x.type = "I" <=> v = "I") /\ y.type = "A"
                                     /\ (iFrameFlag \/ v = "I")
<1> DEFINE n == ctx[mp4handle].taken
           x == [type |-> v, no |-> n]
           y(k) == [type |-> "A", no |-> k]
           hasVideo == v = "I" \/ (v = "P" /\ iFrameFlag)
           hasAudio == a /\ (iFrameFlag \/ v = "I")
<1>1. y(n) \in Frame /\ y(n + 1) \in Frame /\ y(n).no = n /\ y(n + 1).no = n + 1
      /\ y(n).type = "A" /\ y(n + 1).type = "A"
  BY DEF Frame, FrameType
<1>2. CASE ~hasVideo /\ ~hasAudio
  BY <1>2 DEF Kept
<1>3. CASE ~hasVideo /\ hasAudio
  <2>1. Kept(v, a) = <<>> \o <<[type |-> "A", no |-> n + Len(<<>>)]>>
    BY <1>3 DEF Kept
  <2>2. Len(<<>>) = 0 /\ n + 0 = n
    OBVIOUS
  <2>3. Kept(v, a) = <<>> \o <<y(n)>>
    BY <2>1, <2>2
  <2>4. Kept(v, a) = <<y(n)>>
    BY <2>3, <1>1, Single
  <2> QED BY <1>1, <1>3, <2>4
<1>4. CASE hasVideo
  <2>1. x \in Frame /\ x.no = n /\ (x.type = "I" <=> v = "I") /\ (iFrameFlag \/ v = "I")
    BY <1>4 DEF Frame, FrameType
  <2>2. CASE ~hasAudio
    <3>1. Kept(v, a) = <<x>> \o <<>>
      BY <1>4, <2>2 DEF Kept
    <3>2. Kept(v, a) = <<x>>
      BY <2>1, <3>1, Single
    <3> QED BY <2>1, <3>2
  <2>3. CASE hasAudio
    <3>1. Kept(v, a) = <<x>> \o <<[type |-> "A", no |-> n + Len(<<x>>)]>>
      BY <1>4, <2>3 DEF Kept
    <3>2. Len(<<x>>) = 1
      OBVIOUS
    <3>3. Kept(v, a) = <<x>> \o <<y(n + 1)>>
      BY <3>1, <3>2
    <3>4. Kept(v, a) = <<x, y(n + 1)>>
      BY <1>1, <2>1, <3>3, Pair
    <3> QED BY <1>1, <2>1, <3>4
  <2> QED BY <2>2, <2>3
<1> QED BY <1>2, <1>3, <1>4

(* A round of select.                                                      *)
LEMMA ReceiveStep ==
    ASSUME RecorderInv, NEW v \in {"none", "I", "P"}, NEW a \in BOOLEAN, Receive(v, a)
    PROVE  RecorderInv'
<1> USE DEF RecorderInv
<1>1. mp4handle \in Handle /\ ctx[mp4handle].taken \in Nat /\ ctx[mp4handle].left > 0
  BY DEF Receive, Found, TypeOK, CtxType
<1>2. todo' = Kept(v, a)
  BY DEF Receive
<1>3. todo' \in Seq(Frame) /\ (\A i \in 1..Len(todo') : i > 1 => ~IsVideo(todo'[i]))
  <2>1. CASE todo' = <<>>
    BY <2>1
  <2>2. ASSUME NEW x \in Frame, todo' = <<x>>
        PROVE  todo' \in Seq(Frame) /\ (\A i \in 1..Len(todo') : i > 1 => ~IsVideo(todo'[i]))
    BY <2>2
  <2>3. ASSUME NEW x \in Frame, NEW y \in Frame, todo' = <<x, y>>, y.type = "A"
        PROVE  todo' \in Seq(Frame) /\ (\A i \in 1..Len(todo') : i > 1 => ~IsVideo(todo'[i]))
    <3>1. todo' \in Seq(Frame) /\ Len(todo') = 2 /\ todo'[2] = y
      BY <2>3, Pair
    <3>2. \A i \in 1..Len(todo') : i > 1 => i = 2
      BY <3>1
    <3> QED BY <2>3, <3>1, <3>2 DEF IsVideo
  <2> QED BY <1>1, <1>2, <2>1, <2>2, <2>3, KeptIs
<1>6. /\ recPc = "loop" /\ recPc' \in {"power", "put"} /\ (recPc' = "put" => todo' # <<>>)
      /\ iFrameFlag' \in BOOLEAN
      /\ UNCHANGED <<env, process, sd, recLeft, mp4handle, nIndex,
                     ctx, fifo, file, wpc, callers>>
  BY DEF Receive, TypeOK
<1>7. TypeOK'
  BY <1>3, <1>6 DEF TypeOK, env, callers
<1>8. CountInv'
  BY <1>1, <1>3, <1>6 DEF CountInv, callers
<1>9. WriterInv' /\ RecorderOwnsFile' /\ OneOpenFile'
  BY <1>6 DEF WriterInv, RecorderOwnsFile, OneOpenFile, Recording, Found
<1> QED BY <1>7, <1>8, <1>9

-----------------------------------------------------------------------------
(* The steps of the writers, the callers and main.                         *)

(* The writer's steps that leave the contexts alone.                       *)
LEMMA WriterStep ==
    ASSUME RecorderInv, NEW h \in Handle, FindEmpty(h) \/ CheckClose(h) \/ WriteFrame(h) \/ Finish(h) \/ ClipRequested(h)
           \/ ClipAfterFree(h)
    PROVE  RecorderInv'
<1> USE DEF RecorderInv
<1>kept. /\ ctx' = ctx /\ SameStatus
      /\ UNCHANGED <<env, recorder, callers>>
  BY DEF FindEmpty, CheckClose, WriteFrame, Finish, ClipRequested, ClipAfterFree, SameStatus
<1>count. CountInv'
  BY <1>kept, CountKept DEF recorder, callers
<1>parts. ASSUME WriterInv', RecorderOwnsFile', OneOpenFile', TypeOK' PROVE RecorderInv'
  BY <1>count, <1>parts
<1>1. CASE FindEmpty(h) \/ CheckClose(h) \/ Finish(h) \/ ClipRequested(h) \/ ClipAfterFree(h)
  <2>1. PICK pc \in {"get", "check", "close", "finish", "clip", "noclip", "remove"} :
          /\ wpc' = [wpc EXCEPT ![h] = pc]
          /\ pc \in {"get", "check"} \/ ctx[h].closeFlag
    <3>1. CASE FindEmpty(h)
      BY <3>1 DEF FindEmpty
    <3>2. CASE CheckClose(h)
      BY <3>2 DEF CheckClose
    <3>3. CASE Finish(h) 
      <4>1. ctx[h].closeFlag
         BY <3>3 DEF Finish, WriterInv
      <4>2. wpc = [wpc EXCEPT ![h] = wpc[h]] /\ wpc[h] = "finish"
         BY <3>3 DEF Finish, TypeOK
      <4> QED BY <3>3, <4>1, <4>2 DEF Finish
    <3>4. CASE ClipRequested(h)
      BY <3>4 DEF ClipRequested, WriterInv
    <3>5. CASE ClipAfterFree(h)
      <4>1. ctx[h].closeFlag
         BY <3>5 DEF ClipAfterFree, WriterInv
      <4>2. wpc = [wpc EXCEPT ![h] = wpc[h]] /\ wpc[h] \in {"clip", "noclip"}
         BY <3>5 DEF ClipAfterFree, TypeOK
      <4> QED BY <3>5, <4>1, <4>2 DEF ClipAfterFree
    <3> QED BY <1>1, <3>1, <3>2, <3>3, <3>4, <3>5
  <2>2. wpc[h] \notin {"none", "done"} /\ fifo' = fifo /\ file' = file /\ process' \in {"up", "crashed", "rebooted"}
    BY <1>1 DEF FindEmpty, CheckClose, Finish, ClipRequested, ClipAfterFree, TypeOK
  <2>3. WriterInv' /\ RecorderOwnsFile' /\ OneOpenFile'
    BY <1>kept, <2>1, <2>2, WriterMoves DEF recorder
  <2>4. TypeOK'
    BY <1>kept, <2>1, <2>2 DEF TypeOK, env, recorder, callers
  <2> QED BY <1>parts, <2>3, <2>4
<1>2. CASE WriteFrame(h)
  <2>1. wpc' = wpc /\ process' = process
    BY <1>2 DEF WriteFrame
  <2>2. WriterInv' /\ RecorderOwnsFile' /\ OneOpenFile'
    BY <1>kept, <2>1, StatusKept DEF recorder, Recording
  <2>3. fifo[h] \in Seq(Frame) /\ fifo[h] # <<>>
    BY <1>2 DEF WriteFrame, TypeOK
  <2>4. Head(fifo[h]) \in Frame /\ Tail(fifo[h]) \in Seq(Frame)
    BY <2>3
  <2>5. Head(fifo[h]).type \in FrameType /\ Head(fifo[h]).no \in Nat
    BY <2>4 DEF Frame
  <2>6. fifo' \in [Handle -> Seq(Frame)]
    BY <1>2, <2>4 DEF WriteFrame, TypeOK
  <2> DEFINE F == [samples : Nat, first : FrameType \cup {"none"}, last : Nat \cup {-1}]
             s == file[h].samples + 1
             t == IF file[h].samples = 0 THEN Head(fifo[h]).type ELSE file[h].first
             l == Head(fifo[h]).no
             r == [samples |-> s, first |-> t, last |-> l]
  <2>7. file \in [Handle -> F] /\ file[h] \in F
    BY DEF TypeOK
  <2>8. s \in Nat /\ t \in FrameType \cup {"none"} /\ l \in Nat \cup {-1}
    BY <2>5, <2>7
  <2>9. file' = [file EXCEPT ![h] = r]
    BY <1>2 DEF WriteFrame
  <2> HIDE DEF s, t, l
  <2>10. r \in F
    BY <2>8
  <2> HIDE DEF r
  <2>11. file' \in [Handle -> F]
    BY <2>7, <2>9, <2>10
  <2>12. TypeOK'
    BY <1>kept, <2>1, <2>6, <2>11 DEF TypeOK, env, recorder, callers
  <2> QED BY <1>parts, <2>2, <2>12
<1> QED BY <1>1, <1>2

(* MP4Close, and the length of the clip.                                   *)
LEMMA CloseEncoderStep == ASSUME RecorderInv, NEW h \in Handle, CloseEncoder(h) PROVE RecorderInv'
<1> USE DEF RecorderInv
<1> DEFINE l == ctx[h].cutFrame \div Fps
           r == [ctx[h] EXCEPT !.cutLen = l]
<1>1. ctx[h] \in CtxType /\ ctx[h].cutFrame \in Nat
  BY DEF TypeOK, CtxType
<1>2. l \in Nat
  BY <1>1, RecorderAssumption, Z3
<1>3. ctx' = [ctx EXCEPT ![h] = r]
  BY DEF CloseEncoder
<1> HIDE DEF l
<1>4. r \in CtxType /\ r.inList = ctx[h].inList /\ r.closeFlag = ctx[h].closeFlag /\ r.left = ctx[h].left
  BY <1>1, <1>2 DEF CtxType
<1> HIDE DEF r
<1>5. ctx' \in [Handle -> CtxType] /\ SameStatus /\ \A k \in Handle : ctx'[k].left = ctx[k].left
  BY <1>3, <1>4, CtxUpdate, UpdateKeepsStatus
<1>6. TypeOK'
  BY <1>5 DEF TypeOK, CloseEncoder, env, recorder, callers
<1>7. CountInv'
  BY <1>5, CountKept DEF CloseEncoder, recorder, callers
<1>8. WriterInv' /\ RecorderOwnsFile' /\ OneOpenFile'
  <2>1. wpc[h] = "close" /\ wpc' = [wpc EXCEPT ![h] = "finish"] /\ ctx[h].closeFlag
    BY DEF CloseEncoder, WriterInv
  <2>2. UNCHANGED recorder
    BY DEF CloseEncoder
  <2> QED BY <1>5, <2>1, <2>2, WriterMoves, ZenonT(30) DEF recorder
<1> QED BY <1>6, <1>7, <1>8

(* A freed context is not the one being recorded.                          *)
LEMMA RemoveContextStep == ASSUME RecorderInv, NEW h \in Handle, RemoveContext(h) PROVE RecorderInv'
<1> USE DEF RecorderInv
<1>1. wpc[h] = "remove" /\ wpc' = [wpc EXCEPT ![h] = "done"] /\ ctx[h].closeFlag
  BY DEF RemoveContext, WriterInv
<1>2. ctx' = [ctx EXCEPT ![h] = NoCtx]
  BY DEF RemoveContext
<1>3. /\ ctx' \in [Handle -> CtxType] /\ ctx'[h] = NoCtx
      /\ \A k \in Handle : k # h => ctx'[k] = ctx[k]
  BY <1>2, NewCtxType, CtxUpdate
<1>4. wpc'[h] = "done" /\ \A k \in Handle : k # h => wpc'[k] = wpc[k]
  BY <1>1 DEF TypeOK
<1>5. UNCHANGED <<env, process, recorder, fifo, file, callers>>
  BY DEF RemoveContext
<1>6. TypeOK'
  BY <1>1, <1>3, <1>5, ZenonT(30) DEF TypeOK, env, recorder, callers
<1>7. Recording => mp4handle # h
  BY <1>1 DEF RecorderOwnsFile
<1>8. CountInv'
  BY <1>3, <1>5, <1>7, CountKept DEF recorder, callers
<1>9. WriterInv'
  BY <1>1, <1>3, <1>4, <1>5, NewCtxType DEF WriterInv, recorder
<1>10. RecorderOwnsFile' /\ OneOpenFile'
  BY <1>3, <1>4, <1>5, <1>7, NewCtxType DEF RecorderOwnsFile, OneOpenFile, Recording, Found, recorder
<1> QED BY <1>6, <1>8, <1>9, <1>10

(* A step of cdr_AssociatedVideo that writes to one context.               *)
LEMMA CallerStep ==
    ASSUME RecorderInv, NEW c \in Caller, NEW h \in Handle, NEW r \in CtxType,
           ctx' = [ctx EXCEPT ![h] = r],
           r.inList = ctx[h].inList, r.closeFlag = ctx[h].closeFlag,
           r.left = ctx[h].left \/ r.left > 0,
           NEW pc \in {"info", "output", "idle"}, callPc' = [callPc EXCEPT ![c] = pc],
           callLeft' \in [Caller -> Nat], \A d \in Caller : d # c => callLeft'[d] = callLeft[d],
           callHandle' \in [Caller -> Handle \cup {-1}],
           UNCHANGED <<env, process, recorder, fifo, file, wpc, callFlag, calls>>
    PROVE  RecorderInv'
<1> USE DEF RecorderInv
<1>1. /\ ctx' \in [Handle -> CtxType] /\ ctx'[h] = r /\ SameStatus
      /\ \A k \in Handle : k # h => ctx'[k] = ctx[k]
  BY CtxUpdate, UpdateKeepsStatus
<1>2. TypeOK'
  <2>1. callPc' \in [Caller -> {"idle", "store", "info", "picture", "output"}]
    BY DEF TypeOK
  <2> QED BY <1>1, <2>1 DEF TypeOK, env, recorder
<1>3. WriterInv' /\ RecorderOwnsFile' /\ OneOpenFile'
  BY <1>1, StatusKept DEF recorder, Recording
<1>4. CountInv'
  <2>1. callPc'[c] = pc /\ \A d \in Caller : d # c => callPc'[d] = callPc[d]
    BY DEF TypeOK
  <2>2. recPc = "put" => mp4handle \in Handle
    BY DEF RecorderOwnsFile, Recording, Found
  <2>3. recPc = "put" /\ IsVideo(todo[1]) => ctx'[mp4handle].left > 0
    <3>1. CASE mp4handle = h
      BY <1>1, <3>1 DEF CountInv
    <3>2. CASE mp4handle # h
      BY <1>1, <2>2, <3>2 DEF CountInv
    <3> QED BY <3>1, <3>2
  <2> QED BY <2>1, <2>3 DEF CountInv, recorder, IsVideo
<1> QED BY <1>2, <1>3, <1>4

(* The steps of cdr_AssociatedVideo.  A caller that found a context before *)
(* it was freed and a handle that names none are both covered.             *)
LEMMA AssociatedVideoStep == ASSUME RecorderInv, NEW c \in Caller, AssociatedVideo(c) PROVE RecorderInv'
<1> USE DEF RecorderInv
<1>kept. UNCHANGED <<env, process, recorder, fifo, file, wpc>>
  BY DEF AssociatedVideo, SetLenLoad, SetLenStore, GetExtraInfo, SetExtraInfo, SetOutputFlag
<1>status. ASSUME ctx' = ctx PROVE WriterInv' /\ RecorderOwnsFile' /\ OneOpenFile'
  BY <1>kept, <1>status, StatusKept DEF SameStatus, recorder, Recording
<1>1. ASSUME NEW flag \in {1, 2}, SetLenLoad(c, flag) PROVE RecorderInv'
  <2> DEFINE l == (ctx[mp4handle].left % Fps) + CutSeconds * Fps
  <2>1. ctx' = ctx
    BY <1>1 DEF SetLenLoad
  <2>2. Found(mp4handle) => l \in Nat /\ l > 0
    <3>1. SUFFICES ASSUME Found(mp4handle) PROVE l \in Nat /\ l > 0
      OBVIOUS
    <3>2. ctx[mp4handle].left \in Nat
      BY <3>1 DEF Found, TypeOK, CtxType
    <3>3. ctx[mp4handle].left % Fps \in Nat
      BY <3>2, RecorderAssumption, Z3
    <3>4. CutSeconds * Fps \in Nat /\ CutSeconds * Fps > 0
      BY RecorderAssumption
    <3> DEFINE a == ctx[mp4handle].left % Fps
               b == CutSeconds * Fps
    <3> HIDE DEF a, b
    <3>5. a + b \in Nat /\ a + b > 0
      BY <3>3, <3>4 DEF a, b
    <3> QED BY <3>5 DEF a, b
  <2> HIDE DEF l
  <2>3. CASE Found(mp4handle)
    <3>1. /\ callHandle' = [callHandle EXCEPT ![c] = mp4handle]
          /\ callLeft' = [callLeft EXCEPT ![c] = l]
          /\ callPc' = [callPc EXCEPT ![c] = "store"]
          /\ callFlag' = [callFlag EXCEPT ![c] = flag]
          /\ calls' = calls + 1
      BY <1>1, <2>3 DEF SetLenLoad, l
    <3>2. TypeOK'
      BY <1>kept, <2>1, <2>2, <2>3, <3>1 DEF TypeOK, Found, env, recorder
    <3>3. CountInv'
      BY <1>kept, <2>1, <2>2, <2>3, <3>1 DEF CountInv, TypeOK, recorder, IsVideo
    <3> QED BY <1>status, <2>1, <3>2, <3>3
  <2>4. CASE ~Found(mp4handle)
    <3>1. /\ callHandle' = callHandle /\ callLeft' = callLeft
          /\ callPc' = [callPc EXCEPT ![c] = "info"]
          /\ callFlag' = [callFlag EXCEPT ![c] = flag]
          /\ calls' = calls + 1
      BY <1>1, <2>4 DEF SetLenLoad
    <3>2. TypeOK'
      BY <1>kept, <2>1, <3>1 DEF TypeOK, env, recorder
    <3>3. CountInv'
      BY <1>kept, <2>1, <3>1 DEF CountInv, TypeOK, recorder, IsVideo
    <3> QED BY <1>status, <2>1, <3>2, <3>3
  <2> QED BY <2>3, <2>4
<1>2. CASE SetLenStore(c)
  <2> DEFINE h == callHandle[c]
             n == ctx[h].cuts + 1
             r == [ctx[h] EXCEPT !.left = callLeft[c], !.cutFlag = TRUE, !.cuts = n]
  <2>1. callLeft[c] \in Nat /\ callLeft[c] > 0 /\ callPc[c] = "store"
    BY <1>2 DEF SetLenStore, CountInv, TypeOK
  <2>2. /\ ctx' = [ctx EXCEPT ![h] = r]
        /\ callPc' = [callPc EXCEPT ![c] = "info"]
        /\ callHandle' = [callHandle EXCEPT ![c] = -1]
        /\ callLeft' = [callLeft EXCEPT ![c] = 0]
        /\ UNCHANGED <<callFlag, calls>>
    BY <1>2 DEF SetLenStore
  <2>3. /\ callHandle' \in [Caller -> Handle \cup {-1}] /\ callLeft' \in [Caller -> Nat]
        /\ \A d \in Caller : d # c => callLeft'[d] = callLeft[d]
    BY <2>2 DEF TypeOK
  <2>4. CASE h \in Handle
    <3>1. ctx[h] \in CtxType
      BY <2>4 DEF TypeOK
    <3>2. n \in Nat
      BY <3>1 DEF CtxType
    <3> HIDE DEF n
    <3>3. r \in CtxType /\ r.inList = ctx[h].inList /\ r.closeFlag = ctx[h].closeFlag /\ r.left > 0
      BY <2>1, <3>1, <3>2 DEF CtxType
    <3> HIDE DEF r
    <3> QED BY <1>kept, <2>2, <2>3, <2>4, <3>3, CallerStep
  <2>5. CASE h \notin Handle
    <3>1. ctx' = ctx
      <4> HIDE DEF r
      <4> QED BY <2>2, <2>5 DEF TypeOK
    <3>2. TypeOK'
      BY <1>kept, <2>2, <2>3, <3>1, ZenonT(30) DEF TypeOK, env, recorder
    <3>3. CountInv'
      BY <1>kept, <2>2, <3>1 DEF CountInv, TypeOK, recorder, IsVideo
    <3> QED BY <1>status, <3>1, <3>2, <3>3
  <2> QED BY <2>4, <2>5
<1>3. CASE GetExtraInfo(c)
  <2>1. /\ ctx' = ctx /\ UNCHANGED <<callFlag, callHandle, callLeft, calls>>
        /\ callPc' = [callPc EXCEPT ![c] = "picture"] \/ callPc' = [callPc EXCEPT ![c] = "idle"]
    BY <1>3 DEF GetExtraInfo
  <2>2. TypeOK'
    <3>1. callPc' \in [Caller -> {"idle", "store", "info", "picture", "output"}]
      BY <2>1 DEF TypeOK
    <3> QED BY <1>kept, <2>1, <3>1 DEF TypeOK, env, recorder
  <2>3. CountInv'
    <3>1. \A d \in Caller : callPc'[d] = "store" => callPc[d] = "store"
      BY <2>1 DEF TypeOK
    <3> QED BY <1>kept, <2>1, <3>1 DEF CountInv, recorder, IsVideo
  <2> QED BY <1>status, <2>1, <2>2, <2>3
<1>4. ASSUME SetExtraInfo(c) \/ SetOutputFlag(c) PROVE RecorderInv'
  <2>1. /\ UNCHANGED <<callFlag, callHandle, callLeft, calls>>
        /\ callPc' = [callPc EXCEPT ![c] = "output"] \/ callPc' = [callPc EXCEPT ![c] = "idle"]
    BY <1>4 DEF SetExtraInfo, SetOutputFlag
  <2>2. CASE ctx' = ctx
    <3>1. TypeOK'
      <4>1. callPc' \in [Caller -> {"idle", "store", "info", "picture", "output"}]
        BY <2>1 DEF TypeOK
      <4> QED BY <1>kept, <2>1, <2>2, <4>1 DEF TypeOK, env, recorder
    <3>2. CountInv'
      <4>1. \A d \in Caller : callPc'[d] = "store" => callPc[d] = "store"
        BY <2>1 DEF TypeOK
      <4> QED BY <1>kept, <2>1, <2>2, <4>1 DEF CountInv, recorder, IsVideo
    <3> QED BY <1>status, <2>2, <3>1, <3>2
  <2>3. CASE ctx' # ctx
    <3> DEFINE h == mp4handle
               r == [ctx[h] EXCEPT !.cutFlag = TRUE, !.picFlag = TRUE]
               s == [ctx[h] EXCEPT !.outFlag = TRUE]
    <3>1. h \in Handle /\ ctx[h] \in CtxType
      BY <1>4, <2>3 DEF SetExtraInfo, SetOutputFlag, Found, TypeOK
    <3>2. ctx' = [ctx EXCEPT ![h] = r] \/ ctx' = [ctx EXCEPT ![h] = s]
      BY <1>4, <2>3 DEF SetExtraInfo, SetOutputFlag
    <3>3. r \in CtxType /\ r.inList = ctx[h].inList /\ r.closeFlag = ctx[h].closeFlag /\ r.left = ctx[h].left
      BY <3>1 DEF CtxType
    <3>4. s \in CtxType /\ s.inList = ctx[h].inList /\ s.closeFlag = ctx[h].closeFlag /\ s.left = ctx[h].left
      BY <3>1 DEF CtxType
    <3>5. callLeft' \in [Caller -> Nat] /\ callHandle' \in [Caller -> Handle \cup {-1}]
      BY <2>1 DEF TypeOK
    <3> HIDE DEF r, s
    <3> QED BY <1>kept, <2>1, <3>1, <3>2, <3>3, <3>4, <3>5, CallerStep
  <2> QED BY <2>2, <2>3
<1> QED BY <1>1, <1>2, <1>3, <1>4 DEF AssociatedVideo

(* The steps of the recording thread and of main that leave the contexts   *)
(* and the writers alone.                                                  *)
LEMMA OtherStep ==
    ASSUME RecorderInv, LoadSd \/ RecorderExit \/ CreateFails \/ LengthReached \/ CheckPower
           \/ PowerChange \/ FreeDirectory \/ Reboot
    PROVE RecorderInv'
<1> USE DEF RecorderInv
<1>1. /\ ctx' = ctx /\ wpc' = wpc /\ nIndex' = nIndex /\ todo' = todo /\ recLeft' = recLeft
      /\ iFrameFlag' = iFrameFlag
      /\ UNCHANGED <<fifo, file, callers>>
      /\ recPc' \in {recPc, "loop", "power", "close", "exit"} \ {"put", "count"} \/ recPc' = recPc
      /\ Recording' => Recording /\ mp4handle' = mp4handle
      /\ Recording => Recording'
  BY DEF LoadSd, RecorderExit, CreateFails, LengthReached, CheckPower, PowerChange, FreeDirectory,
         Reboot, Recording, recorder
<1>2. TypeOK'
  <2>1. sd' \in {0, 1, 2} /\ mp4handle' \in Handle \cup {-1}
    BY DEF TypeOK, LoadSd, RecorderExit, CreateFails, LengthReached, CheckPower, PowerChange,
       FreeDirectory, Reboot, recorder
  <2>2. power' \in BOOLEAN
    BY Zenon DEF TypeOK, LoadSd, RecorderExit, CreateFails, LengthReached, CheckPower,
       PowerChange, FreeDirectory, Reboot, env
  <2>5. powerChanges' \in Nat
    BY DEF TypeOK, LoadSd, RecorderExit, CreateFails, LengthReached, CheckPower, PowerChange,
       FreeDirectory, Reboot, env
  <2>3. mainPc' \in {"wait", "freed"} /\ process' \in {"up", "crashed", "rebooted"}
    BY DEF TypeOK, LoadSd, RecorderExit, CreateFails, LengthReached, CheckPower, PowerChange,
       FreeDirectory, Reboot, env
  <2>4. recPc' \in {"top", "loop", "put", "count", "power", "close", "exit"}
    BY <1>1 DEF TypeOK
  <2> QED BY <1>1, <2>1, <2>2, <2>3, <2>4, <2>5 DEF TypeOK, callers
<1>3. WriterInv' /\ RecorderOwnsFile' /\ OneOpenFile'
  BY <1>1 DEF WriterInv, RecorderOwnsFile, OneOpenFile, Found
<1>4. CountInv'
  BY <1>1 DEF CountInv, callers, Recording, IsVideo
<1> QED BY <1>2, <1>3, <1>4

-----------------------------------------------------------------------------
(* The invariant of the recorder.                                          *)

(* The invariant holds before the first file ...                           *)
LEMMA RecorderInvInit == Init => RecorderInv
<1> SUFFICES ASSUME Init PROVE RecorderInv
  OBVIOUS
<1>1. TypeOK
  <2>1. power \in BOOLEAN /\ iFrameFlag \in BOOLEAN
    BY Zenon DEF Init
  <2>7. todo \in Seq(Frame)
    BY DEF Init
  <2>8. powerChanges \in Nat /\ sd \in {0, 1, 2} /\ mainPc \in {"wait", "freed"}
        /\ process \in {"up", "crashed", "rebooted"} /\ recPc \in {"top"} /\ recLeft \in Nat
        /\ mp4handle = -1 /\ calls \in Nat
    BY DEF Init
  <2>2. nIndex \in 0..MaxFile
    BY RecorderAssumption DEF Init
  <2>3. ctx \in [Handle -> CtxType] /\ fifo \in [Handle -> Seq(Frame)]
    BY NewCtxType DEF Init
  <2>4. NewFile \in [samples : Nat, first : FrameType \cup {"none"}, last : Nat \cup {-1}]
    BY DEF NewFile
  <2>5. file \in [Handle -> [samples : Nat, first : FrameType \cup {"none"}, last : Nat \cup {-1}]]
    BY <2>4 DEF Init
  <2>6. /\ wpc \in [Handle -> {"none", "get", "check", "close", "finish", "clip", "noclip", "remove", "done"}]
        /\ callPc \in [Caller -> {"idle", "store", "info", "picture", "output"}]
        /\ callFlag \in [Caller -> {1, 2}] /\ callHandle \in [Caller -> Handle \cup {-1}]
        /\ callLeft \in [Caller -> Nat]
    BY DEF Init
  <2> QED BY <2>1, <2>2, <2>3, <2>5, <2>6, <2>7, <2>8 DEF TypeOK
<1>2. WriterInv
  BY NewCtxType, RecorderAssumption DEF Init, WriterInv, Handle
<1>3. CountInv /\ RecorderOwnsFile /\ OneOpenFile
  BY NewCtxType DEF Init, CountInv, RecorderOwnsFile, OneOpenFile, Recording
<1> QED BY <1>1, <1>2, <1>3 DEF RecorderInv

(* ... and every step keeps it.                                            *)
LEMMA RecorderInvStep == RecorderInv /\ [Next]_vars => RecorderInv'
<1> SUFFICES ASSUME RecorderInv, [Next]_vars PROVE RecorderInv'
  OBVIOUS
<1>1. CASE Record
  BY <1>1, CreateFileStep, ReceiveStep, PutFrameStep, CountFrameStep, CloseFileStep, OtherStep
     DEF Record
<1>2. ASSUME NEW h \in Handle, Writer(h) PROVE RecorderInv'
  BY <1>2, WriterStep, CloseEncoderStep, RemoveContextStep DEF Writer
<1>3. ASSUME NEW c \in Caller, AssociatedVideo(c) PROVE RecorderInv'
  BY <1>3, AssociatedVideoStep
<1>4. CASE PowerChange \/ FreeDirectory \/ Reboot
  BY <1>4, OtherStep
<1>5. CASE UNCHANGED vars
  BY <1>5 DEF vars, env, recorder, callers, RecorderInv, TypeOK, WriterInv, CountInv,
     RecorderOwnsFile, OneOpenFile, Recording, Found, IsVideo
<1> QED BY <1>1, <1>2, <1>3, <1>4, <1>5 DEF Next

-----------------------------------------------------------------------------
(* The invariant of the frames.                                            *)

(* A step that leaves rings, files and accepted counts alone keeps the     *)
(* invariant of the frames, unless it brings a writer back to its loop.    *)
LEMMA FrameInvKept ==
    ASSUME RecorderInv, RecorderInv', FrameInv,
           fifo' = fifo, file' = file, todo' = todo,
           Recording' => Recording /\ mp4handle' = mp4handle /\ iFrameFlag' = iFrameFlag,
           recPc' = recPc \/ (recPc # "put" /\ recPc' \notin {"put", "count"}),
           \A h \in Handle : wpc'[h] \in {"get", "check"} => wpc[h] \in {"get", "check"},
           \A h \in Handle : wpc'[h] = "none" => wpc[h] = "none",
           \A h \in Handle :
               ctx'[h].taken = ctx[h].taken \/ wpc'[h] = "done"
    PROVE  OrderInv' /\ KeyFrameInv'
<1>1. Recording' => /\ Recording /\ mp4handle \in Handle /\ mp4handle' = mp4handle
                    /\ iFrameFlag' = iFrameFlag
                    /\ ctx'[mp4handle].taken = ctx[mp4handle].taken
  BY DEF RecorderInv, RecorderOwnsFile, Found
<1>2. \A h \in Handle : wpc'[h] \in {"get", "check"} =>
          wpc[h] \in {"get", "check"} /\ ctx'[h].taken = ctx[h].taken
  OBVIOUS
<1>3. OrderInv'
  <2>1. recPc' \in {"put", "count"} => Recording' /\ recPc = recPc'
    BY DEF Recording
  <2> QED BY <1>1, <1>2, <2>1 DEF FrameInv, OrderInv
<1>4. KeyFrameInv'
  <2>1. recPc' = "put" => Recording' /\ recPc = "put"
    BY DEF Recording
  <2>2. Recording' /\ recPc' # "put" => recPc # "put"
    OBVIOUS
  <2>3. StartsWithKeyFrame'
    BY DEF FrameInv, KeyFrameInv, StartsWithKeyFrame
  <2>4. recPc' = "count" => Recording' /\ recPc = "count"
    BY DEF Recording
  <2>5. recPc' \in {"put", "count"} => iFrameFlag'
    BY <1>1, <2>1, <2>4 DEF FrameInv, KeyFrameInv
  <2> QED BY <1>1, <1>2, <2>1, <2>2, <2>3, <2>5 DEF FrameInv, KeyFrameInv
<1> QED BY <1>3, <1>4

(* The invariant of the frames for a new file ...                          *)
LEMMA CreateFileFrames ==
    ASSUME RecorderInv, RecorderInv', FrameInv, CreateFile PROVE OrderInv' /\ KeyFrameInv'
<1>1. nIndex \in Handle /\ wpc[nIndex] = "none" /\ mp4handle' = nIndex
  BY RecorderAssumption DEF CreateFile, Handle, RecorderInv, TypeOK, WriterInv
<1>2. /\ ctx'[nIndex] = NewCtx /\ \A k \in Handle : k # nIndex => ctx'[k] = ctx[k]
  BY <1>1, NewCtxType, CtxUpdate DEF CreateFile, RecorderInv
<1>3. wpc'[nIndex] = "get" /\ \A k \in Handle : k # nIndex => wpc'[k] = wpc[k]
  BY <1>1 DEF CreateFile, RecorderInv, TypeOK
<1>4. fifo' = fifo /\ file' = file /\ todo' = todo /\ recPc' \in {"top", "loop"} /\ ~iFrameFlag'
  BY DEF CreateFile
<1>5. fifo[nIndex] = <<>> /\ file[nIndex] = NewFile
  BY <1>1 DEF FrameInv, OrderInv
<1>6. NewFile.samples = 0 /\ NewFile.last = -1
  BY DEF NewFile
<1>7. NewCtx.taken = 0
  BY DEF NewCtx
<1>8. OrderInv'
  BY <1>1, <1>2, <1>3, <1>4, <1>5, <1>6, <1>7, SMTT(20) DEF FrameInv, OrderInv
<1>9. KeyFrameInv'
  BY <1>1, <1>2, <1>3, <1>4, <1>5, <1>6, <1>7 DEF FrameInv, KeyFrameInv, StartsWithKeyFrame
<1> QED BY <1>8, <1>9

(* ... a round of select ...                                               *)
LEMMA ReceiveFrames ==
    ASSUME RecorderInv, RecorderInv', FrameInv,
           NEW v \in {"none", "I", "P"}, NEW a \in BOOLEAN, Receive(v, a)
    PROVE  OrderInv' /\ KeyFrameInv'
<1> DEFINE n == ctx[mp4handle].taken
<1>1. /\ todo' = Kept(v, a) /\ recPc = "loop" /\ recPc' = IF todo' = <<>> THEN "power" ELSE "put"
      /\ iFrameFlag' = (iFrameFlag \/ v = "I")
      /\ UNCHANGED <<mp4handle, ctx, fifo, file, wpc>>
  BY DEF Receive
<1>2. mp4handle \in Handle /\ n \in Nat
  BY DEF Receive, Found, RecorderInv, TypeOK, CtxType
<1>3. iFrameFlag => n > 0
  BY <1>1 DEF FrameInv, KeyFrameInv, Recording
<1>4. /\ \A i \in 1..Len(todo') : todo'[i].no = n + i - 1
      /\ todo' # <<>> => iFrameFlag \/ (v = "I" /\ todo'[1].type = "I")
      /\ todo' = <<>> => v # "I"
  <2>1. CASE todo' = <<>> /\ v # "I"
    BY <2>1
  <2>2. ASSUME NEW x \in Frame, todo' = <<x>>, x.no = n, x.type = "I" <=> v = "I",
               iFrameFlag \/ v = "I"
        PROVE  <1>4!1 /\ <1>4!2 /\ <1>4!3
    BY <1>2, <2>2, Single
  <2>3. ASSUME NEW x \in Frame, NEW y \in Frame, todo' = <<x, y>>, x.no = n, y.no = n + 1,
               x.type = "I" <=> v = "I", iFrameFlag \/ v = "I"
        PROVE  <1>4!1 /\ <1>4!2 /\ <1>4!3
    <3>1. Len(todo') = 2 /\ todo'[1] = x /\ todo'[2] = y
      BY <2>3
    <3>2. \A i \in 1..Len(todo') : i = 1 \/ i = 2
      BY <3>1
    <3> QED BY <1>2, <2>3, <3>1, <3>2
  <2> QED BY <1>1, <1>2, <2>1, <2>2, <2>3, KeptIs
<1>5. OrderInv'
  BY <1>1, <1>4 DEF FrameInv, OrderInv
<1>6. KeyFrameInv'
  <2>1. StartsWithKeyFrame'
    BY <1>1 DEF FrameInv, KeyFrameInv, StartsWithKeyFrame
  <2>2. \A h \in Handle :
           wpc'[h] \in {"get", "check"} /\ file'[h].samples = 0 =>
               IF fifo'[h] = <<>> THEN ctx'[h].taken = 0 ELSE fifo'[h][1].type = "I"
    BY <1>1 DEF FrameInv, KeyFrameInv
  <2>3. recPc' = "put" /\ ctx'[mp4handle'].taken = 0 => todo'[1].type = "I"
    BY <1>1, <1>3, <1>4
  <2>4. iFrameFlag' /\ recPc' # "put" => ctx'[mp4handle'].taken > 0
    BY <1>1, <1>3, <1>4
  <2>5. recPc' = "put" => iFrameFlag'
    BY <1>1, <1>4
  <2> QED BY <1>1, <2>1, <2>2, <2>3, <2>4, <2>5 DEF KeyFrameInv
<1> QED BY <1>5, <1>6

(* ... a frame put into the ring, or dropped because the ring is full ...  *)
LEMMA PutFrameFrames ==
    ASSUME RecorderInv, RecorderInv', FrameInv, PutFrame PROVE OrderInv' /\ KeyFrameInv'
<1> DEFINE h == mp4handle
           f == Head(todo)
           l == ctx[h].taken + 1
           k == ctx[h].takenVideo + (IF IsVideo(f) THEN 1 ELSE 0)
           r == [ctx[h] EXCEPT !.taken = l, !.takenVideo = k]
           q == IF Len(fifo[h]) < QUEUE_SIZE THEN Append(fifo[h], f) ELSE fifo[h]
<1>1. /\ h \in Handle /\ ctx[h] \in CtxType /\ todo \in Seq(Frame) /\ todo # <<>> /\ recPc = "put"
      /\ wpc[h] \in {"get", "check"} /\ fifo[h] \in Seq(Frame)
  BY DEF RecorderInv, PutFrame, TypeOK, RecorderOwnsFile, Recording, Found, CountInv
<1>2. k \in Nat /\ l \in Nat /\ l = ctx[h].taken + 1 /\ ctx[h].taken \in Nat
  BY <1>1, SMTT(20) DEF CtxType
<1>3. ctx' = [ctx EXCEPT ![h] = r]
  BY DEF PutFrame
<1> HIDE DEF k, l
<1>4. r \in CtxType /\ r.taken = l
  BY <1>1, <1>2 DEF CtxType
<1> HIDE DEF r
<1>5. ctx'[h] = r /\ \A j \in Handle : j # h => ctx'[j] = ctx[j]
  BY <1>1, <1>3, <1>4, CtxUpdate DEF RecorderInv
<1>6. f \in Frame /\ f = todo[1] /\ f.no = ctx[h].taken
  <2>1. f \in Frame /\ f = todo[1] /\ 1 \in 1..Len(todo)
    BY <1>1
  <2>2. \A i \in 1..Len(todo) : todo[i].no = ctx[h].taken + i - 1
    BY <1>1 DEF FrameInv, OrderInv
  <2> QED BY <1>2, <2>1, <2>2
<1>7. fifo'[h] = q /\ (\A j \in Handle : j # h => fifo'[j] = fifo[j])
  BY <1>1 DEF PutFrame, RecorderInv, TypeOK
<1>8. /\ todo' = Tail(todo) /\ wpc' = wpc /\ file' = file /\ mp4handle' = h
      /\ iFrameFlag' = iFrameFlag
      /\ recPc' \in {"count", "power", "put"} /\ (recPc' = "count" => IsVideo(f))
  BY DEF PutFrame
<1>9. \A i \in 1..Len(todo') : todo'[i].no = ctx'[h].taken + i - 1
  <2>1. \A i \in 1..Len(Tail(todo)) : i \in Nat /\ i + 1 \in 1..Len(todo) /\ Tail(todo)[i] = todo[i + 1]
    BY <1>1
  <2>2. \A i \in 1..Len(todo) : todo[i].no = ctx[h].taken + i - 1
    BY <1>1 DEF FrameInv, OrderInv
  <2>3. ctx'[h].taken = ctx[h].taken + 1
    BY <1>2, <1>4, <1>5
  <2> SUFFICES ASSUME NEW i \in 1..Len(Tail(todo)) PROVE Tail(todo)[i].no = ctx'[h].taken + i - 1
    BY <1>8
  <2>4. Tail(todo)[i].no = ctx[h].taken + (i + 1) - 1 /\ i \in Nat
    BY <2>1, <2>2
  <2> QED BY <1>2, <2>3, <2>4
<1>10. /\ file[h].last < ctx[h].taken
       /\ \A i \in 1..Len(fifo[h]) : /\ file[h].last < fifo[h][i].no
                                     /\ fifo[h][i].no < ctx[h].taken /\ fifo[h][i].no \in Nat
       /\ \A i, j \in 1..Len(fifo[h]) : i < j => fifo[h][i].no < fifo[h][j].no
       /\ file[h].last \in Int
  <2>1. \A i \in 1..Len(fifo[h]) : fifo[h][i].no \in Nat
    <3>1. \A i \in 1..Len(fifo[h]) : fifo[h][i] \in Frame
      BY <1>1
    <3> QED BY <3>1 DEF Frame
  <2>2. file[h].last \in Int
    BY <1>1 DEF RecorderInv, TypeOK
  <2> QED BY <1>1, <2>1, <2>2 DEF FrameInv, OrderInv
<1>11. /\ file[h].last < l
       /\ \A i \in 1..Len(q) : file[h].last < q[i].no /\ q[i].no < l
       /\ \A i, j \in 1..Len(q) : i < j => q[i].no < q[j].no
  <2>1. CASE Len(fifo[h]) < QUEUE_SIZE
    <3>1. q = Append(fifo[h], f)
      BY <2>1
    <3>2. /\ Len(q) = Len(fifo[h]) + 1 /\ q[Len(fifo[h]) + 1] = f /\ Len(fifo[h]) \in Nat
          /\ \A i \in 1..Len(fifo[h]) : q[i] = fifo[h][i]
      BY <1>1, <1>6, <3>1, AppendProperties
    <3> HIDE DEF q
    <3>3. \A i \in 1..Len(q) : i \in 1..Len(fifo[h]) \/ (i = Len(fifo[h]) + 1 /\ q[i] = f)
      BY <3>2
    <3>4. ASSUME NEW i \in 1..Len(q) PROVE file[h].last < q[i].no /\ q[i].no < l
      <4>1. CASE i \in 1..Len(fifo[h])
        <5>1. q[i] = fifo[h][i]
          BY <3>2, <4>1
        <5> QED BY <1>2, <1>10, <4>1, <5>1, SMTT(20)
      <4>2. CASE q[i] = f
        BY <1>2, <1>6, <1>10, <4>2
      <4> QED BY <3>3, <4>1, <4>2
    <3>5. ASSUME NEW i \in 1..Len(q), NEW j \in 1..Len(q), i < j PROVE q[i].no < q[j].no
      <4>1. i \in 1..Len(fifo[h])
        BY <3>2, <3>5
      <4> QED BY <1>2, <1>6, <1>10, <3>2, <3>3, <3>5, <4>1
    <3> QED BY <1>2, <1>10, <3>4, <3>5
  <2>2. CASE ~(Len(fifo[h]) < QUEUE_SIZE)
    <3>1. q = fifo[h]
      BY <2>2
    <3> HIDE DEF q
    <3> QED BY <1>2, <1>10, <3>1
  <2> QED BY <2>1, <2>2
<1>12. file[h].samples = 0 => q # <<>> /\ q[1].type = "I"
  <2>1. SUFFICES ASSUME file[h].samples = 0 PROVE q # <<>> /\ q[1].type = "I"
    OBVIOUS
  <2>2. CASE fifo[h] = <<>>
    <3>1. ctx[h].taken = 0
      BY <1>1, <2>1, <2>2 DEF FrameInv, KeyFrameInv
    <3>2. f.type = "I"
      BY <1>1, <1>6, <3>1 DEF FrameInv, KeyFrameInv
    <3>3. q = Append(fifo[h], f)
      BY <2>2, RecorderAssumption
    <3>4. q # <<>> /\ q[1] = f
      BY <1>6, <2>2, <3>3
    <3> QED BY <3>2, <3>4
  <2>3. CASE fifo[h] # <<>>
    <3>1. fifo[h][1].type = "I"
      BY <1>1, <2>1, <2>3 DEF FrameInv, KeyFrameInv
    <3>2. q # <<>> /\ q[1] = fifo[h][1]
      BY <1>1, <1>6, <2>3
    <3> QED BY <3>1, <3>2
  <2> QED BY <2>2, <2>3
<1> HIDE DEF q, f
<1>13. OrderInv'
  <2>1. \A j \in Handle :
           wpc[j] \in {"get", "check"} =>
               /\ file[j].last < ctx'[j].taken
               /\ \A i \in 1..Len(fifo'[j]) :
                      file[j].last < fifo'[j][i].no /\ fifo'[j][i].no < ctx'[j].taken
               /\ \A i, m \in 1..Len(fifo'[j]) : i < m => fifo'[j][i].no < fifo'[j][m].no
    <3>1. SUFFICES ASSUME NEW j \in Handle, wpc[j] \in {"get", "check"}
                   PROVE /\ file[j].last < ctx'[j].taken
                         /\ \A i \in 1..Len(fifo'[j]) :
                                file[j].last < fifo'[j][i].no /\ fifo'[j][i].no < ctx'[j].taken
                         /\ \A i, m \in 1..Len(fifo'[j]) : i < m => fifo'[j][i].no < fifo'[j][m].no
      OBVIOUS
    <3>2. CASE j = h
      BY <1>4, <1>5, <1>7, <1>11, <3>2
    <3>3. CASE j # h
      BY <1>5, <1>7, <3>1, <3>3 DEF FrameInv, OrderInv
    <3> QED BY <3>2, <3>3
  <2>2. \A j \in Handle : wpc[j] = "none" => fifo'[j] = <<>> /\ file[j] = NewFile
    BY <1>1, <1>7 DEF FrameInv, OrderInv
  <2> QED BY <1>8, <1>9, <2>1, <2>2 DEF OrderInv
<1>14. KeyFrameInv'
  <2>1. StartsWithKeyFrame'
    BY <1>8 DEF FrameInv, KeyFrameInv, StartsWithKeyFrame
  <2>2. \A j \in Handle :
           wpc[j] \in {"get", "check"} /\ file[j].samples = 0 =>
               IF fifo'[j] = <<>> THEN ctx'[j].taken = 0 ELSE fifo'[j][1].type = "I"
    BY <1>5, <1>7, <1>12 DEF FrameInv, KeyFrameInv
  <2>3. ctx'[h].taken > 0
    BY <1>2, <1>4, <1>5
  <2>4. ctx'[h].taken # 0
    BY <1>2, <1>4, <1>5
  <2>5. iFrameFlag
    BY <1>1 DEF FrameInv, KeyFrameInv
  <2> QED BY <1>8, <2>1, <2>2, <2>3, <2>4, <2>5 DEF KeyFrameInv
<1> QED BY <1>13, <1>14

(* ... a frame counted ...                                                 *)
LEMMA CountFrameFrames ==
    ASSUME RecorderInv, RecorderInv', FrameInv, CountFrame PROVE OrderInv' /\ KeyFrameInv'
<1> DEFINE h == mp4handle
           l == recLeft - 1
           k == ctx[h].cutFrame + (IF ctx[h].cutFlag THEN 1 ELSE 0)
           r == [ctx[h] EXCEPT !.left = l, !.cutFrame = k]
<1>1. h \in Handle /\ ctx[h] \in CtxType /\ l \in Nat /\ recPc = "count" /\ recPc' \in {"power", "put"}
  BY DEF CountFrame, RecorderInv, TypeOK, RecorderOwnsFile, Recording, Found, CountInv
<1>2. k \in Nat
  BY <1>1 DEF CtxType
<1>3. ctx' = [ctx EXCEPT ![h] = r]
  BY DEF CountFrame
<1> HIDE DEF k, l
<1>4. r \in CtxType /\ r.taken = ctx[h].taken
  BY <1>1, <1>2 DEF CtxType
<1> HIDE DEF r
<1>5. ctx'[h] = r /\ \A j \in Handle : j # h => ctx'[j] = ctx[j]
  BY <1>1, <1>3, <1>4, CtxUpdate DEF RecorderInv
<1>6. UNCHANGED <<fifo, file, wpc, todo, mp4handle, iFrameFlag>>
  BY DEF CountFrame
<1>7. \A j \in Handle : ctx'[j].taken = ctx[j].taken
  BY <1>4, <1>5
<1>8. ctx[h].taken # 0
  BY <1>1 DEF FrameInv, KeyFrameInv, Recording
<1>9. OrderInv'
  BY <1>1, <1>6, <1>7 DEF FrameInv, OrderInv
<1>10. KeyFrameInv'
  BY <1>1, <1>6, <1>7, <1>8 DEF FrameInv, KeyFrameInv, StartsWithKeyFrame, Recording
<1> QED BY <1>9, <1>10

(* ... and a frame written to the file.                                    *)
LEMMA WriteFrameFrames ==
    ASSUME RecorderInv, RecorderInv', FrameInv, NEW h \in Handle, WriteFrame(h) PROVE OrderInv' /\ KeyFrameInv'
<1> DEFINE q == fifo[h]
           s == file[h].samples + 1
           t == IF file[h].samples = 0 THEN Head(q).type ELSE file[h].first
           l == Head(q).no
           r == [samples |-> s, first |-> t, last |-> l]
<1>1. wpc[h] = "get" /\ q \in Seq(Frame) /\ q # <<>> /\ file[h].samples \in Nat
  BY DEF WriteFrame, RecorderInv, TypeOK
<1>2. /\ file' = [file EXCEPT ![h] = r] /\ fifo' = [fifo EXCEPT ![h] = Tail(q)]
      /\ UNCHANGED <<recorder, ctx, wpc>>
  BY DEF WriteFrame
<1>3. Head(q) = q[1] /\ 1 \in 1..Len(q)
  BY <1>1
<1>4. t = "I"
  <2>1. CASE file[h].samples = 0
    BY <1>1, <1>3, <2>1 DEF FrameInv, KeyFrameInv
  <2>2. CASE file[h].samples # 0
    <3>1. file[h].samples > 0
      BY <1>1, <2>2
    <3> QED BY <2>2, <3>1 DEF FrameInv, KeyFrameInv, StartsWithKeyFrame
  <2> QED BY <2>1, <2>2
<1>5. s \in Nat /\ s > 0
  BY <1>1
<1> HIDE DEF s, t
<1>6. r.samples = s /\ r.first = "I" /\ r.last = q[1].no
  BY <1>3, <1>4
<1> HIDE DEF r
<1>7. /\ file'[h] = r /\ (\A j \in Handle : j # h => file'[j] = file[j])
      /\ fifo'[h] = Tail(q) /\ (\A j \in Handle : j # h => fifo'[j] = fifo[j])
  BY <1>2 DEF RecorderInv, TypeOK
<1>8. \A i \in 1..Len(Tail(q)) : i \in Nat /\ i + 1 \in 1..Len(q) /\ Tail(q)[i] = q[i + 1]
  BY <1>1
<1>9. /\ file[h].last < ctx[h].taken
      /\ \A i \in 1..Len(q) : file[h].last < q[i].no /\ q[i].no < ctx[h].taken
      /\ \A i, j \in 1..Len(q) : i < j => q[i].no < q[j].no
  BY <1>1 DEF FrameInv, OrderInv
<1>10. /\ r.last < ctx[h].taken
       /\ \A i \in 1..Len(Tail(q)) : r.last < Tail(q)[i].no /\ Tail(q)[i].no < ctx[h].taken
       /\ \A i, j \in 1..Len(Tail(q)) : i < j => Tail(q)[i].no < Tail(q)[j].no
  <2>1. r.last < ctx[h].taken
    BY <1>3, <1>6, <1>9
  <2>2. ASSUME NEW i \in 1..Len(Tail(q))
        PROVE  r.last < Tail(q)[i].no /\ Tail(q)[i].no < ctx[h].taken
    <3>1. i + 1 \in 1..Len(q) /\ Tail(q)[i] = q[i + 1] /\ 1 < i + 1
      BY <1>8
    <3> QED BY <1>3, <1>6, <1>9, <3>1
  <2>3. ASSUME NEW i \in 1..Len(Tail(q)), NEW j \in 1..Len(Tail(q)), i < j
        PROVE  Tail(q)[i].no < Tail(q)[j].no
    <3>1. /\ i + 1 \in 1..Len(q) /\ Tail(q)[i] = q[i + 1]
          /\ j + 1 \in 1..Len(q) /\ Tail(q)[j] = q[j + 1] /\ i + 1 < j + 1
      BY <1>8, <2>3
    <3> QED BY <1>9, <3>1
  <2> QED BY <2>1, <2>2, <2>3
<1>11. OrderInv'
  <2>1. \A j \in Handle :
           wpc[j] \in {"get", "check"} =>
               /\ file'[j].last < ctx[j].taken
               /\ \A i \in 1..Len(fifo'[j]) :
                      file'[j].last < fifo'[j][i].no /\ fifo'[j][i].no < ctx[j].taken
               /\ \A i, m \in 1..Len(fifo'[j]) : i < m => fifo'[j][i].no < fifo'[j][m].no
    <3>1. SUFFICES ASSUME NEW j \in Handle, wpc[j] \in {"get", "check"}
                   PROVE /\ file'[j].last < ctx[j].taken
                         /\ \A i \in 1..Len(fifo'[j]) :
                                file'[j].last < fifo'[j][i].no /\ fifo'[j][i].no < ctx[j].taken
                         /\ \A i, m \in 1..Len(fifo'[j]) : i < m => fifo'[j][i].no < fifo'[j][m].no
      OBVIOUS
    <3>2. CASE j = h
      BY <1>7, <1>10, <3>2
    <3>3. CASE j # h
      BY <1>7, <3>1, <3>3 DEF FrameInv, OrderInv
    <3> QED BY <3>2, <3>3
  <2>2. \A j \in Handle : wpc[j] = "none" => fifo'[j] = <<>> /\ file'[j] = NewFile
    BY <1>1, <1>7 DEF FrameInv, OrderInv
  <2> QED BY <1>2, <2>1, <2>2 DEF FrameInv, OrderInv, recorder
<1>12. KeyFrameInv'
  <2>1. StartsWithKeyFrame'
    BY <1>6, <1>7 DEF FrameInv, KeyFrameInv, StartsWithKeyFrame
  <2>2. \A j \in Handle :
           wpc[j] \in {"get", "check"} /\ file'[j].samples = 0 =>
               IF fifo'[j] = <<>> THEN ctx[j].taken = 0 ELSE fifo'[j][1].type = "I"
    BY <1>5, <1>6, <1>7 DEF FrameInv, KeyFrameInv
  <2> QED BY <1>2, <2>1, <2>2 DEF FrameInv, KeyFrameInv, recorder, Recording
<1> QED BY <1>11, <1>12

(* The length of the file: what a fresh context has left, ...              *)
LEMMA FreshLength ==
    /\ FileSeconds * Fps \in Nat /\ FileSeconds * Fps >= 1
    /\ CutFrames \in Nat
    /\ NewCtx.takenVideo = 0 /\ NewCtx.left = FileSeconds * Fps - 1 /\ NewCtx.cuts = 0
    /\ NoCtx.takenVideo = 0 /\ NoCtx.left = FileSeconds * Fps - 1 /\ NoCtx.cuts = 0
<1>1. FileSeconds * Fps \in Nat /\ FileSeconds * Fps >= 1
  BY RecorderAssumption
<1>2. CutFrames \in Nat
  <2> DEFINE n == CutSeconds * Fps
  <2>1. n \in Nat /\ Fps \in Nat /\ Fps >= 1
    BY RecorderAssumption
  <2> HIDE DEF n
  <2>2. n + Fps - 1 \in Nat
    BY <2>1
  <2> QED BY <2>2 DEF CutFrames, n
<1>3. NewCtx.takenVideo = 0 /\ NewCtx.left = FileSeconds * Fps - 1 /\ NewCtx.cuts = 0
  BY DEF NewCtx
<1>4. NoCtx.takenVideo = 0 /\ NoCtx.left = FileSeconds * Fps - 1 /\ NoCtx.cuts = 0
  BY DEF NoCtx, NewCtx
<1> QED BY <1>1, <1>2, <1>3, <1>4

(* The invariant of the frames holds before the first file.                *)
LEMMA FrameInvInit == Init => FrameInv
<1> SUFFICES ASSUME Init PROVE FrameInv
  OBVIOUS
<1>1. NewFile.samples = 0
  BY DEF NewFile
<1>2. OrderInv /\ KeyFrameInv
  BY <1>1 DEF Init, OrderInv, KeyFrameInv, StartsWithKeyFrame, Recording
<1>3. LengthInv
  BY FreshLength DEF Init, LengthInv, Longest
<1> QED BY <1>2, <1>3 DEF FrameInv

(* The counts of accepted frames, of the frames to come and of the cuts    *)
(* stay.                                                                   *)
SameCounts ==
    \A k \in Handle : /\ ctx'[k].taken = ctx[k].taken
                      /\ ctx'[k].takenVideo = ctx[k].takenVideo
                      /\ ctx'[k].left = ctx[k].left
                      /\ ctx'[k].cuts = ctx[k].cuts

(* An update of one context that leaves its counts alone.                  *)
LEMMA UpdateKeepsCounts ==
    ASSUME TypeOK, NEW h \in Handle, NEW r, ctx' = [ctx EXCEPT ![h] = r],
           r.taken = ctx[h].taken, r.takenVideo = ctx[h].takenVideo,
           r.left = ctx[h].left, r.cuts = ctx[h].cuts
    PROVE  SameCounts
  BY DEF TypeOK, SameCounts

(* Setting the flag leaves the counts alone.                               *)
LEMMA CloseFileKeepsCounts == ASSUME RecorderInv, CloseFile PROVE SameCounts
<1> DEFINE r == [ctx[mp4handle] EXCEPT !.closeFlag = TRUE]
<1>1. mp4handle \in Handle /\ ctx[mp4handle] \in CtxType
  BY DEF CloseFile, RecorderInv, TypeOK, RecorderOwnsFile, Recording, Found
<1>2. ctx' = [ctx EXCEPT ![mp4handle] = r]
  BY DEF CloseFile
<1>3. /\ r.taken = ctx[mp4handle].taken /\ r.takenVideo = ctx[mp4handle].takenVideo
      /\ r.left = ctx[mp4handle].left /\ r.cuts = ctx[mp4handle].cuts
  BY <1>1 DEF CtxType
<1> HIDE DEF r
<1> QED BY <1>1, <1>2, <1>3, UpdateKeepsCounts DEF RecorderInv

(* So does closing the file ...                                            *)
LEMMA CloseEncoderKeepsCounts ==
    ASSUME RecorderInv, NEW h \in Handle, CloseEncoder(h) PROVE SameCounts
<1> DEFINE l == ctx[h].cutFrame \div Fps
           r == [ctx[h] EXCEPT !.cutLen = l]
<1>1. ctx[h] \in CtxType
  BY DEF RecorderInv, TypeOK
<1>2. ctx' = [ctx EXCEPT ![h] = r]
  BY DEF CloseEncoder
<1> HIDE DEF l
<1>3. /\ r.taken = ctx[h].taken /\ r.takenVideo = ctx[h].takenVideo
      /\ r.left = ctx[h].left /\ r.cuts = ctx[h].cuts
  BY <1>1 DEF CtxType
<1> HIDE DEF r
<1> QED BY <1>2, <1>3, UpdateKeepsCounts DEF RecorderInv

(* ... and every step of cdr_AssociatedVideo but the store of              *)
(* cdr_mp4_setlen, ...                                                     *)
LEMMA CallerKeepsCounts ==
    ASSUME RecorderInv, NEW c \in Caller, AssociatedVideo(c), ~SetLenStore(c) PROVE SameCounts
<1>1. CASE ctx' = ctx
  BY <1>1 DEF SameCounts
<1>2. TypeOK /\ \A h \in Handle : ctx[h] \in CtxType
  BY DEF RecorderInv, TypeOK
<1>3. CASE SetExtraInfo(c) /\ ctx' # ctx
  <2> DEFINE h == mp4handle
             r == [ctx[h] EXCEPT !.cutFlag = TRUE, !.picFlag = TRUE]
  <2>1. ctx' = [ctx EXCEPT ![h] = r] /\ h \in Handle
    BY <1>3 DEF SetExtraInfo, Found
  <2>2. /\ r.taken = ctx[h].taken /\ r.takenVideo = ctx[h].takenVideo
        /\ r.left = ctx[h].left /\ r.cuts = ctx[h].cuts
    BY <1>2, <2>1 DEF CtxType
  <2> HIDE DEF r, h
  <2> QED BY <1>2, <2>1, <2>2, UpdateKeepsCounts
<1>4. CASE SetOutputFlag(c) /\ ctx' # ctx
  <2> DEFINE h == mp4handle
             r == [ctx[h] EXCEPT !.outFlag = TRUE]
  <2>1. ctx' = [ctx EXCEPT ![h] = r] /\ h \in Handle
    BY <1>4 DEF SetOutputFlag, Found
  <2>2. /\ r.taken = ctx[h].taken /\ r.takenVideo = ctx[h].takenVideo
        /\ r.left = ctx[h].left /\ r.cuts = ctx[h].cuts
    BY <1>2, <2>1 DEF CtxType
  <2> HIDE DEF r, h
  <2> QED BY <1>2, <2>1, <2>2, UpdateKeepsCounts
<1>5. CASE GetExtraInfo(c) \/ \E flag \in {1, 2} : SetLenLoad(c, flag)
  BY <1>1, <1>5 DEF GetExtraInfo, SetLenLoad
<1> QED BY <1>1, <1>3, <1>4, <1>5 DEF AssociatedVideo

(* ... which gives the file what its caller computed and counts a cut.     *)
LEMMA SetLenStoreCounts ==
    ASSUME RecorderInv, NEW c \in Caller, SetLenStore(c)
    PROVE  \A k \in Handle :
               /\ ctx'[k].taken = ctx[k].taken /\ ctx'[k].takenVideo = ctx[k].takenVideo
               /\ \/ ctx'[k].left = ctx[k].left /\ ctx'[k].cuts = ctx[k].cuts
                  \/ ctx'[k].left = callLeft[c] /\ ctx'[k].cuts = ctx[k].cuts + 1
<1> DEFINE h == callHandle[c]
           l == callLeft[c]
           n == ctx[h].cuts + 1
           r == [ctx[h] EXCEPT !.left = l, !.cutFlag = TRUE, !.cuts = n]
<1>1. ctx' = [ctx EXCEPT ![h] = r]
  BY DEF SetLenStore
<1>2. ctx \in [Handle -> CtxType]
  BY DEF RecorderInv, TypeOK
<1>3. CASE h \in Handle
  <2>1. r.taken = ctx[h].taken /\ r.takenVideo = ctx[h].takenVideo /\ r.left = l /\ r.cuts = n
    <3> HIDE DEF l, n
    <3> QED BY <1>2, <1>3 DEF CtxType
  <2> HIDE DEF r
  <2> QED BY <1>1, <1>2, <1>3, <2>1
<1>4. CASE h \notin Handle
  <2> HIDE DEF r, h
  <2> QED BY <1>1, <1>2, <1>4
<1> QED BY <1>3, <1>4

(* What a file and its ring hold is kept by every step.                    *)
LEMMA ContentsStep ==
    ASSUME RecorderInv, RecorderInv', FrameInv, [Next]_vars PROVE OrderInv' /\ KeyFrameInv'
<1>1. CASE LoadSd \/ RecorderExit \/ CreateFails \/ LengthReached \/ CheckPower
           \/ PowerChange \/ FreeDirectory \/ Reboot
  <2>1. /\ UNCHANGED <<fifo, file, todo, wpc, ctx>>
        /\ Recording' => Recording /\ mp4handle' = mp4handle /\ iFrameFlag' = iFrameFlag
        /\ recPc' = recPc \/ (recPc # "put" /\ recPc' \notin {"put", "count"})
    BY <1>1 DEF LoadSd, RecorderExit, CreateFails, LengthReached, CheckPower, PowerChange,
       FreeDirectory, Reboot, Recording, recorder
  <2> QED BY <2>1, FrameInvKept
<1>2. CASE CloseFile
  <2>1. UNCHANGED <<fifo, file, todo, wpc>> /\ ~Recording' /\ recPc = "close" /\ recPc' = "top"
    BY <1>2 DEF CloseFile, Recording
  <2> QED BY <1>2, <2>1, CloseFileKeepsCounts, FrameInvKept DEF SameCounts
<1>3. ASSUME NEW h \in Handle, Writer(h) PROVE OrderInv' /\ KeyFrameInv'
  <2>1. CASE WriteFrame(h)
    BY <2>1, WriteFrameFrames
  <2>2. CASE FindEmpty(h) \/ CheckClose(h) \/ Finish(h) \/ ClipRequested(h) \/ ClipAfterFree(h)
    <3>1. /\ UNCHANGED <<fifo, file, ctx, recorder>>
          /\ \A k \in Handle : wpc'[k] \in {"get", "check"} => wpc[k] \in {"get", "check"}
          /\ \A k \in Handle : wpc'[k] = "none" => wpc[k] = "none"
      <4>1. CASE FindEmpty(h)
        BY <4>1 DEF FindEmpty, RecorderInv, TypeOK
      <4>2. CASE CheckClose(h)
        BY <4>2 DEF CheckClose, RecorderInv, TypeOK
      <4>3. CASE Finish(h)
        BY <4>3, SMTT(20) DEF Finish, RecorderInv, TypeOK
      <4>4. CASE ClipRequested(h) \/ ClipAfterFree(h)
        BY <4>4 DEF ClipRequested, ClipAfterFree, RecorderInv, TypeOK
      <4> QED BY <2>2, <4>1, <4>2, <4>3, <4>4
    <3> QED BY <3>1, FrameInvKept DEF recorder, Recording
  <2>3. CASE CloseEncoder(h)
    <3>5. /\ UNCHANGED <<fifo, file, recorder>>
          /\ \A k \in Handle : wpc'[k] \in {"get", "check"} => wpc[k] \in {"get", "check"}
          /\ \A k \in Handle : wpc'[k] = "none" => wpc[k] = "none"
      BY <2>3 DEF CloseEncoder, RecorderInv, TypeOK
    <3> QED BY <2>3, <3>5, CloseEncoderKeepsCounts, FrameInvKept DEF SameCounts, recorder, Recording
  <2>4. CASE RemoveContext(h)
    <3>1. ctx' = [ctx EXCEPT ![h] = NoCtx] /\ wpc' = [wpc EXCEPT ![h] = "done"]
          /\ UNCHANGED <<fifo, file, recorder>>
      BY <2>4 DEF RemoveContext
    <3>3. /\ ctx'[h] = NoCtx /\ (\A k \in Handle : k # h => ctx'[k] = ctx[k])
          /\ wpc'[h] = "done" /\ (\A k \in Handle : k # h => wpc'[k] = wpc[k])
      BY <3>1 DEF RecorderInv, TypeOK
    <3>4. \A k \in Handle : ctx'[k] = ctx[k] \/ wpc'[k] = "done"
      BY <3>3
    <3> QED BY <3>1, <3>3, <3>4, FrameInvKept DEF recorder, Recording
  <2> QED BY <1>3, <2>1, <2>2, <2>3, <2>4 DEF Writer
<1>4. ASSUME NEW c \in Caller, AssociatedVideo(c) PROVE OrderInv' /\ KeyFrameInv'
  <2>1. UNCHANGED <<recorder, fifo, file, wpc>>
    BY <1>4 DEF AssociatedVideo, SetLenLoad, SetLenStore, GetExtraInfo, SetExtraInfo, SetOutputFlag
  <2>2. \A h \in Handle : ctx'[h].taken = ctx[h].taken
    BY <1>4, CallerKeepsCounts, SetLenStoreCounts DEF SameCounts
  <2> QED BY <2>1, <2>2, FrameInvKept DEF recorder, Recording
<1>5. CASE UNCHANGED vars
  BY <1>5, FrameInvKept DEF vars, recorder, Recording
<1> QED BY <1>1, <1>2, <1>3, <1>4, <1>5, CreateFileFrames, ReceiveFrames, PutFrameFrames,
           CountFrameFrames DEF Next, Record

(* A step keeps the bound on a file's length if each context keeps its     *)
(* counts or is a fresh one, and neither the count in the recording        *)
(* thread's hands nor a caller's is touched.                               *)
LEMMA LengthKept ==
    ASSUME RecorderInv, LengthInv,
           \A h \in Handle :
               \/ /\ ctx'[h].takenVideo = ctx[h].takenVideo
                  /\ ctx'[h].left = ctx[h].left /\ ctx'[h].cuts = ctx[h].cuts
               \/ /\ ctx'[h].takenVideo = 0 /\ ctx'[h].left = FileSeconds * Fps - 1
                  /\ ctx'[h].cuts = 0
                  /\ ~(recPc = "count" /\ h = mp4handle),
           recPc' = "count" <=> recPc = "count",
           recPc = "count" => mp4handle' = mp4handle /\ recLeft' = recLeft,
           \A c \in Caller : callPc'[c] = "store" => callLeft'[c] <= CutFrames
    PROVE  LengthInv'
<1>1. recPc = "count" => mp4handle \in Handle
  BY DEF RecorderInv, RecorderOwnsFile, Recording, Found
<1>2. \A h \in Handle : Longest(h)' = FileSeconds * Fps - 1 + ctx'[h].cuts * CutFrames
  BY DEF Longest
<1>3. \A h \in Handle : ctx'[h].cuts = ctx[h].cuts => Longest(h)' = Longest(h)
  BY DEF Longest
<1>4. \A h \in Handle : ctx'[h].cuts = 0 => Longest(h)' = FileSeconds * Fps - 1
  BY <1>2, FreshLength
<1> DEFINE L(h) == Longest(h)'
<1> HIDE DEF L
<1>5. \A h \in Handle : ctx'[h].takenVideo + ctx'[h].left
          <= L(h) + (IF recPc' = "count" /\ h = mp4handle' THEN 1 ELSE 0)
  <2> TAKE h \in Handle
  <2>1. CASE ctx'[h].takenVideo = ctx[h].takenVideo /\ ctx'[h].left = ctx[h].left
             /\ ctx'[h].cuts = ctx[h].cuts
    <3>1. L(h) = Longest(h)
      BY <1>3, <2>1 DEF L
    <3> QED BY <2>1, <3>1 DEF LengthInv
  <2>2. CASE ctx'[h].takenVideo = 0 /\ ctx'[h].left = FileSeconds * Fps - 1
             /\ ctx'[h].cuts = 0 /\ ~(recPc = "count" /\ h = mp4handle)
    <3>1. L(h) = FileSeconds * Fps - 1
      BY <1>4, <2>2 DEF L
    <3> QED BY <2>2, <3>1, FreshLength
  <2> QED BY <2>1, <2>2
<1>6. recPc' = "count" => ctx'[mp4handle'].takenVideo + recLeft' <= L(mp4handle) + 1
  <2> SUFFICES ASSUME recPc = "count"
               PROVE  ctx'[mp4handle].takenVideo + recLeft <= L(mp4handle) + 1
    OBVIOUS
  <2>1. ctx'[mp4handle].takenVideo = ctx[mp4handle].takenVideo /\ ctx'[mp4handle].cuts = ctx[mp4handle].cuts
    BY <1>1
  <2>2. L(mp4handle) = Longest(mp4handle)
    BY <1>1, <1>3, <2>1 DEF L
  <2> QED BY <2>1, <2>2 DEF LengthInv
<1>7. recPc' = "count" => mp4handle' = mp4handle
  OBVIOUS
<1> QED BY <1>5, <1>6, <1>7 DEF LengthInv, Longest, L

(* A frame put into the ring or dropped is one more that was given; the    *)
(* recording thread has the count of those to come in its hands ...        *)
LEMMA PutFrameLength == ASSUME RecorderInv, LengthInv, PutFrame PROVE LengthInv'
<1> DEFINE h == mp4handle
           f == Head(todo)
           l == ctx[h].taken + 1
           k == ctx[h].takenVideo + (IF IsVideo(f) THEN 1 ELSE 0)
           r == [ctx[h] EXCEPT !.taken = l, !.takenVideo = k]
<1>1. /\ h \in Handle /\ ctx[h] \in CtxType /\ todo \in Seq(Frame) /\ todo # <<>> /\ recPc = "put"
      /\ f = todo[1]
  BY DEF RecorderInv, PutFrame, TypeOK, RecorderOwnsFile, Recording, Found, CountInv
<1>2. ctx' = [ctx EXCEPT ![h] = r]
  BY DEF PutFrame
<1>3. /\ mp4handle' = mp4handle /\ callPc' = callPc /\ callLeft' = callLeft
      /\ recPc' = "count" <=> IsVideo(f)
      /\ IsVideo(f) => recLeft' = ctx[h].left
  BY <1>1 DEF PutFrame, callers
<1>4. /\ k = ctx[h].takenVideo + (IF IsVideo(f) THEN 1 ELSE 0)
      /\ ctx[h].takenVideo \in Nat /\ ctx[h].left \in Nat
      /\ IsVideo(f) => ctx[h].left > 0
  BY <1>1 DEF CtxType, RecorderInv, CountInv
<1> HIDE DEF k, l
<1>5. r.takenVideo = k /\ r.left = ctx[h].left /\ r.cuts = ctx[h].cuts
  BY <1>1 DEF CtxType
<1> HIDE DEF r
<1>6. ctx'[h] = r /\ \A j \in Handle : j # h => ctx'[j] = ctx[j]
  BY <1>1, <1>2 DEF RecorderInv, TypeOK
<1>7. \A j \in Handle : Longest(j)' = Longest(j)
  BY <1>5, <1>6 DEF Longest
<1> DEFINE L(j) == Longest(j)'
<1>8. L(h) = Longest(h) /\ ctx[h].takenVideo + ctx[h].left <= Longest(h) /\ Longest(h) \in Int
  <2>1. Longest(h) \in Int
    <3>1. ctx[h].cuts \in Nat
      BY <1>1 DEF CtxType
    <3>2. ctx[h].cuts * CutFrames \in Int
      BY <3>1, FreshLength
    <3> QED BY <3>2, FreshLength DEF Longest
  <2>2. ctx[h].takenVideo + ctx[h].left <= Longest(h) + 0
    BY <1>1 DEF LengthInv
  <2>3. L(h) = Longest(h)
    BY <1>1, <1>3, <1>7
  <2> QED BY <1>4, <2>1, <2>2, <2>3
<1> HIDE DEF L
<1>9. \A j \in Handle : ctx'[j].takenVideo + ctx'[j].left
          <= L(j) + (IF recPc' = "count" /\ j = h THEN 1 ELSE 0)
  <2> TAKE j \in Handle
  <2>1. CASE j = h
    BY <1>3, <1>4, <1>5, <1>6, <1>8, <2>1
  <2>2. CASE j # h
    <3>1. L(j) = Longest(j) /\ ctx'[j] = ctx[j]
      BY <1>6, <1>7, <2>2 DEF L
    <3>2. ctx[j].takenVideo + ctx[j].left <= Longest(j) + 0
      BY <1>1, <2>2 DEF LengthInv
    <3> QED BY <2>2, <3>1, <3>2
  <2> QED BY <2>1, <2>2
<1>10. recPc' = "count" => ctx'[h].takenVideo + recLeft' <= L(h) + 1
  BY <1>3, <1>4, <1>5, <1>6, <1>8
<1> QED BY <1>3, <1>9, <1>10 DEF LengthInv, Longest, L

(* ... and writes it back, less one.                                       *)
LEMMA CountFrameLength == ASSUME RecorderInv, LengthInv, CountFrame PROVE LengthInv'
<1> DEFINE h == mp4handle
           l == recLeft - 1
           k == ctx[h].cutFrame + (IF ctx[h].cutFlag THEN 1 ELSE 0)
           r == [ctx[h] EXCEPT !.left = l, !.cutFrame = k]
<1>1. /\ h \in Handle /\ ctx[h] \in CtxType /\ recPc = "count" /\ recPc' # "count"
      /\ mp4handle' = mp4handle /\ callPc' = callPc /\ callLeft' = callLeft
  BY DEF RecorderInv, CountFrame, TypeOK, RecorderOwnsFile, Recording, Found, callers
<1>2. ctx' = [ctx EXCEPT ![h] = r]
  BY DEF CountFrame
<1>3. l = recLeft - 1 /\ recLeft \in Nat
  BY DEF RecorderInv, TypeOK
<1> HIDE DEF k, l
<1>4. r.takenVideo = ctx[h].takenVideo /\ r.left = l /\ r.cuts = ctx[h].cuts
  BY <1>1 DEF CtxType
<1> HIDE DEF r
<1>5. ctx'[h] = r /\ \A j \in Handle : j # h => ctx'[j] = ctx[j]
  BY <1>1, <1>2 DEF RecorderInv, TypeOK
<1>6. \A j \in Handle : Longest(j)' = Longest(j)
  BY <1>4, <1>5 DEF Longest
<1> DEFINE L(j) == Longest(j)'
<1>7. L(h) = Longest(h) /\ ctx[h].takenVideo + recLeft <= Longest(h) + 1 /\ Longest(h) \in Int
  <2>1. Longest(h) \in Int
    <3>1. ctx[h].cuts \in Nat
      BY <1>1 DEF CtxType
    <3>2. ctx[h].cuts * CutFrames \in Int
      BY <3>1, FreshLength
    <3> QED BY <3>2, FreshLength DEF Longest
  <2> QED BY <1>1, <1>6, <2>1 DEF LengthInv
<1>8. ctx[h].takenVideo \in Nat
  BY <1>1 DEF CtxType
<1> HIDE DEF L
<1>9. \A j \in Handle : ctx'[j].takenVideo + ctx'[j].left <= L(j) + 0
  <2> TAKE j \in Handle
  <2>1. CASE j = h
    BY <1>3, <1>4, <1>5, <1>7, <1>8, <2>1
  <2>2. CASE j # h
    <3>1. L(j) = Longest(j) /\ ctx'[j] = ctx[j]
      BY <1>5, <1>6, <2>2 DEF L
    <3>2. ctx[j].takenVideo + ctx[j].left <= Longest(j) + 0
      BY <1>1, <2>2 DEF LengthInv
    <3> QED BY <3>1, <3>2
  <2> QED BY <2>1, <2>2
<1> QED BY <1>1, <1>9 DEF LengthInv, Longest, L

(* A caller computes no more than a cut ...                                *)
LEMMA SetLenLoadLength ==
    ASSUME RecorderInv, LengthInv, NEW c \in Caller, NEW flag \in {1, 2}, SetLenLoad(c, flag)
    PROVE  LengthInv'
<1> DEFINE n == CutSeconds * Fps
           m == ctx[mp4handle].left % Fps
<1>1. CASE Found(mp4handle)
  <2>1. callPc' = [callPc EXCEPT ![c] = "store"] /\ callLeft' = [callLeft EXCEPT ![c] = m + n]
    BY <1>1 DEF SetLenLoad
  <2>2. n \in Nat /\ m \in Nat /\ m <= Fps - 1 /\ Fps \in Nat
    <3>1. ctx[mp4handle].left \in Nat
      BY <1>1 DEF Found, RecorderInv, TypeOK, CtxType
    <3> QED BY <3>1, RecorderAssumption
  <2>3. CutFrames = n + Fps - 1
    BY DEF CutFrames
  <2> HIDE DEF n, m
  <2>4. m + n <= CutFrames
    BY <2>2, <2>3
  <2>5. \A d \in Caller : callPc'[d] = "store" => callLeft'[d] <= CutFrames
    BY <2>1, <2>4 DEF RecorderInv, TypeOK, LengthInv
  <2> QED BY <2>5, LengthKept DEF SetLenLoad, recorder
<1>2. CASE ~Found(mp4handle)
  <2>1. \A d \in Caller : callPc'[d] = "store" => callLeft'[d] <= CutFrames
    BY <1>2 DEF SetLenLoad, RecorderInv, TypeOK, LengthInv
  <2> QED BY <2>1, LengthKept DEF SetLenLoad, recorder
<1> QED BY <1>1, <1>2

(* ... and gives it to the file, whatever the recording thread has in its  *)
(* hands then.                                                             *)
LEMMA SetLenStoreLength ==
    ASSUME RecorderInv, LengthInv, NEW c \in Caller, SetLenStore(c) PROVE LengthInv'
<1>1. /\ UNCHANGED <<recPc, mp4handle, recLeft>>
      /\ callPc[c] = "store" /\ callPc' = [callPc EXCEPT ![c] = "info"]
      /\ callLeft' = [callLeft EXCEPT ![c] = 0]
  BY DEF SetLenStore, recorder
<1>2. /\ ctx \in [Handle -> CtxType] /\ recLeft \in Nat /\ callLeft[c] \in Nat
      /\ recPc = "count" => mp4handle \in Handle /\ recLeft > 0
  BY <1>1 DEF RecorderInv, TypeOK, CountInv, RecorderOwnsFile, Recording, Found
<1>3. callLeft[c] <= CutFrames /\ CutFrames \in Nat
  BY <1>1, FreshLength DEF LengthInv
<1> DEFINE L(j) == Longest(j)'
<1>4. ASSUME NEW h \in Handle
      PROVE  /\ Longest(h) \in Int /\ L(h) \in Int /\ ctx[h].takenVideo \in Nat /\ ctx[h].left \in Nat
             /\ ctx'[h].takenVideo = ctx[h].takenVideo
             /\ \/ ctx'[h].left = ctx[h].left /\ L(h) = Longest(h)
                \/ ctx'[h].left = callLeft[c] /\ L(h) = Longest(h) + CutFrames
  <2> DEFINE n == FileSeconds * Fps
             u == ctx[h].cuts
             v == ctx'[h].cuts
             p == u * CutFrames
             q == v * CutFrames
  <2>1. u \in Nat /\ ctx[h].takenVideo \in Nat /\ ctx[h].left \in Nat
    BY <1>2 DEF CtxType
  <2>2. /\ ctx'[h].takenVideo = ctx[h].takenVideo
        /\ \/ ctx'[h].left = ctx[h].left /\ v = u
           \/ ctx'[h].left = callLeft[c] /\ v = u + 1
    BY SetLenStoreCounts
  <2>3. Longest(h) = n - 1 + p /\ L(h) = n - 1 + q /\ n \in Nat
    BY FreshLength DEF Longest
  <2>4. p \in Int /\ (v = u => q = p) /\ (v = u + 1 => q = p + CutFrames)
    <3> HIDE DEF u, v
    <3> QED BY <1>3, <2>1
  <2> HIDE DEF L, p, q, n, u, v
  <2> QED BY <1>3, <2>1, <2>2, <2>3, <2>4
<1> HIDE DEF L
<1>5. \A h \in Handle : ctx'[h].takenVideo + ctx'[h].left
          <= L(h) + (IF recPc = "count" /\ h = mp4handle THEN 1 ELSE 0)
  <2> TAKE h \in Handle
  <2> DEFINE b == IF recPc = "count" /\ h = mp4handle THEN 1 ELSE 0
  <2>1. ctx[h].takenVideo + ctx[h].left <= Longest(h) + b /\ b \in Nat
    BY DEF LengthInv
  <2> HIDE DEF b
  <2>2. ctx'[h].takenVideo + ctx'[h].left <= L(h) + b
    BY <1>2, <1>3, <1>4, <2>1
  <2> QED BY <2>2 DEF b
<1>6. recPc = "count" => ctx'[mp4handle].takenVideo + recLeft <= L(mp4handle) + 1
  <2> SUFFICES ASSUME recPc = "count"
               PROVE  ctx'[mp4handle].takenVideo + recLeft <= L(mp4handle) + 1
    OBVIOUS
  <2>1. ctx[mp4handle].takenVideo + recLeft <= Longest(mp4handle) + 1
    BY DEF LengthInv
  <2> QED BY <1>2, <1>3, <1>4, <2>1
<1>7. \A d \in Caller : callPc'[d] = "store" => callLeft'[d] <= CutFrames
  BY <1>1 DEF RecorderInv, TypeOK, LengthInv
<1> QED BY <1>1, <1>5, <1>6, <1>7 DEF LengthInv, Longest, L

(* The bound on the length is kept by every step, ...                      *)
LEMMA LengthStep == ASSUME RecorderInv, LengthInv, [Next]_vars PROVE LengthInv'
<1>1. ASSUME UNCHANGED <<callPc, callLeft>>
      PROVE  \A c \in Caller : callPc'[c] = "store" => callLeft'[c] <= CutFrames
  BY <1>1 DEF LengthInv
<1>2. CASE LoadSd \/ RecorderExit \/ CreateFails \/ LengthReached \/ CheckPower
           \/ PowerChange \/ FreeDirectory \/ Reboot \/ UNCHANGED vars
           \/ \E v \in {"none", "I", "P"}, a \in BOOLEAN : Receive(v, a)
  <2>1. /\ UNCHANGED <<ctx, callPc, callLeft>>
        /\ recPc' = "count" <=> recPc = "count"
        /\ recPc = "count" => mp4handle' = mp4handle /\ recLeft' = recLeft
    BY <1>2 DEF LoadSd, RecorderExit, CreateFails, LengthReached, CheckPower, PowerChange,
       FreeDirectory, Reboot, Receive, recorder, callers, vars
  <2> QED BY <1>1, <2>1, LengthKept
<1>3. CASE CloseFile
  <2>1. UNCHANGED <<callPc, callLeft>> /\ recPc # "count" /\ recPc' # "count"
    BY <1>3 DEF CloseFile, callers
  <2> QED BY <1>1, <1>3, <2>1, CloseFileKeepsCounts, LengthKept DEF SameCounts
<1>4. CASE CreateFile
  <2>1. UNCHANGED <<callPc, callLeft>> /\ recPc # "count" /\ recPc' # "count"
        /\ ctx' = [ctx EXCEPT ![nIndex] = NewCtx]
    BY <1>4 DEF CreateFile, callers
  <2>2. \A h \in Handle : ctx'[h] = ctx[h] \/ ctx'[h] = NewCtx
    BY <2>1 DEF RecorderInv, TypeOK
  <2> QED BY <1>1, <2>1, <2>2, FreshLength, LengthKept
<1>5. ASSUME NEW h \in Handle, Writer(h) PROVE LengthInv'
  <2>1. UNCHANGED <<recPc, recLeft, mp4handle, callPc, callLeft>>
    BY <1>5 DEF Writer, WriteFrame, FindEmpty, CheckClose, CloseEncoder, Finish, ClipRequested,
       ClipAfterFree, RemoveContext, recorder, callers
  <2>2. CASE RemoveContext(h)
    <3>1. ctx' = [ctx EXCEPT ![h] = NoCtx] /\ wpc[h] = "remove"
      BY <2>2 DEF RemoveContext
    <3>2. ~(recPc = "count" /\ h = mp4handle)
      BY <3>1 DEF RecorderInv, RecorderOwnsFile, Recording
    <3>3. ctx'[h] = NoCtx /\ \A k \in Handle : k # h => ctx'[k] = ctx[k]
      BY <3>1 DEF RecorderInv, TypeOK
    <3> QED BY <1>1, <2>1, <3>2, <3>3, FreshLength, LengthKept
  <2>3. CASE CloseEncoder(h)
    BY <1>1, <2>1, <2>3, CloseEncoderKeepsCounts, LengthKept DEF SameCounts
  <2>4. CASE ctx' = ctx
    BY <1>1, <2>1, <2>4, LengthKept
  <2> QED BY <1>5, <2>2, <2>3, <2>4 DEF Writer, WriteFrame, FindEmpty, CheckClose, Finish,
             ClipRequested, ClipAfterFree
<1>6. ASSUME NEW c \in Caller, AssociatedVideo(c) PROVE LengthInv'
  <2>1. CASE \E flag \in {1, 2} : SetLenLoad(c, flag)
    BY <2>1, SetLenLoadLength
  <2>2. CASE SetLenStore(c)
    BY <2>2, SetLenStoreLength
  <2>3. CASE GetExtraInfo(c) \/ SetExtraInfo(c) \/ SetOutputFlag(c)
    <3>1. ~SetLenStore(c) /\ SameCounts
      <4>1. ~SetLenStore(c)
        BY <2>3 DEF GetExtraInfo, SetExtraInfo, SetOutputFlag, SetLenStore
      <4> QED BY <1>6, <4>1, CallerKeepsCounts
    <3>2. UNCHANGED <<recPc, recLeft, mp4handle, callLeft>>
          /\ \A d \in Caller : callPc'[d] = "store" => callPc[d] = "store"
      BY <2>3 DEF GetExtraInfo, SetExtraInfo, SetOutputFlag, recorder, RecorderInv, TypeOK
    <3>3. \A d \in Caller : callPc'[d] = "store" => callLeft'[d] <= CutFrames
      BY <3>2 DEF LengthInv
    <3> QED BY <3>1, <3>2, <3>3, LengthKept DEF SameCounts
  <2> QED BY <1>6, <2>1, <2>2, <2>3 DEF AssociatedVideo
<1> QED BY <1>2, <1>3, <1>4, <1>5, <1>6, PutFrameLength, CountFrameLength DEF Next, Record

(* ... and with it the invariant of the frames.                            *)
LEMMA FrameInvStep == RecorderInv /\ RecorderInv' /\ FrameInv /\ [Next]_vars => FrameInv'
  BY ContentsStep, LengthStep DEF FrameInv

(* It bounds the frames a file was given.                                  *)
LEMMA LengthBounds == RecorderInv /\ LengthInv => FileIsBounded
<1> SUFFICES ASSUME RecorderInv, LengthInv, NEW h \in Handle
             PROVE  ctx[h].takenVideo <= Longest(h)
  BY DEF FileIsBounded
<1>1. /\ ctx[h].takenVideo \in Nat /\ ctx[h].left \in Nat /\ ctx[h].cuts \in Nat
      /\ recLeft \in Nat
  BY DEF RecorderInv, TypeOK, CtxType
<1>2. Longest(h) \in Int
  <2>1. ctx[h].cuts * CutFrames \in Int
    BY <1>1, FreshLength
  <2> QED BY <2>1, FreshLength DEF Longest
<1>3. CASE recPc = "count" /\ h = mp4handle
  <2>1. ctx[h].takenVideo + recLeft <= Longest(h) + 1 /\ recLeft > 0
    BY <1>3 DEF LengthInv, RecorderInv, CountInv
  <2> QED BY <1>1, <1>2, <2>1
<1>4. CASE ~(recPc = "count" /\ h = mp4handle)
  <2>1. ctx[h].takenVideo + ctx[h].left <= Longest(h) + 0
    BY <1>4 DEF LengthInv
  <2> QED BY <1>1, <1>2, <2>1
<1> QED BY <1>3, <1>4

(* Only a writer's WriteFrame changes a file.                              *)
LEMMA OnlyWriterWrites == ASSUME [Next]_vars, file' # file PROVE \E k \in Handle : WriteFrame(k)
<1>1. ~Record
  BY DEF Record, LoadSd, RecorderExit, CreateFile, CreateFails, Receive, LengthReached,
     PutFrame, CountFrame, CheckPower, CloseFile
<1>2. ~(\E c \in Caller : AssociatedVideo(c))
  BY DEF AssociatedVideo, SetLenLoad, SetLenStore, GetExtraInfo, SetExtraInfo, SetOutputFlag
<1>3. ~(PowerChange \/ FreeDirectory \/ Reboot)
  BY DEF PowerChange, FreeDirectory, Reboot
<1>4. \A k \in Handle : Writer(k) => WriteFrame(k)
  BY DEF Writer, FindEmpty, CheckClose, CloseEncoder, Finish, ClipRequested, ClipAfterFree, RemoveContext
<1> QED BY <1>1, <1>2, <1>3, <1>4 DEF Next, vars

-----------------------------------------------------------------------------
(* Theorems.                                                               *)

(* For any number of files, callers and frames: the types, how a writer's  *)
(* place, the list and the flag go together, that nFrameleft does not run  *)
(* below zero while two threads read it and write it back, and the ownership *)
(* of the file being recorded.                                             *)
THEOREM RecorderInvariant == Safety => []RecorderInv
<1>1. Init => RecorderInv
  BY RecorderInvInit
<1>2. RecorderInv /\ [Next]_vars => RecorderInv'
  BY RecorderInvStep
<1> QED BY <1>1, <1>2, PTL DEF Safety

(* Likewise for the frames in the rings and in the files.                  *)
THEOREM FrameInvariant == Safety => []FrameInv
<1>1. Init => FrameInv
  BY FrameInvInit
<1>2. RecorderInv /\ RecorderInv' /\ FrameInv /\ [Next]_vars => FrameInv'
  BY FrameInvStep
<1> QED BY <1>1, <1>2, RecorderInvariant, PTL DEF Safety

(* No frame is handed to a freed context or to a closed file, and every file *)
(* but the one being recorded (and handle 0) has been flagged closed.      *)
THEOREM FileOwnership == Safety => []RecorderOwnsFile
<1>1. RecorderInv => RecorderOwnsFile
  BY DEF RecorderInv
<1> QED BY <1>1, RecorderInvariant, PTL

(* At most the file being recorded is in the list and not flagged closed   *)
(* (the first handle, 0, apart, which is taken for a failure).             *)
THEOREM FileOpen == Safety => []OneOpenFile
<1>1. RecorderInv => OneOpenFile
  BY DEF RecorderInv
<1> QED BY <1>1, RecorderInvariant, PTL

(* A file that holds a frame begins with a key frame.                      *)
THEOREM FileContents == Safety => []StartsWithKeyFrame
<1>1. FrameInv => StartsWithKeyFrame
  BY DEF FrameInv, KeyFrameInv
<1> QED BY <1>1, FrameInvariant, PTL

(* Whatever updates of nFrameleft are lost between the recording thread    *)
(* and cdr_mp4_setlen, a file is given no more video than its length and   *)
(* one cut for each call made on it.                                       *)
THEOREM BoundedFiles == Safety => []FileIsBounded
<1>1. RecorderInv /\ FrameInv => FileIsBounded
  BY LengthBounds DEF FrameInv
<1> QED BY <1>1, RecorderInvariant, FrameInvariant, PTL

(* Frames reach a file in the order they were accepted, none twice.        *)
THEOREM OrderedFrames == Safety => FramesInOrder
<1>1. RecorderInv /\ FrameInv /\ [Next]_vars
        => [\A h \in Handle : file'[h] # file[h] => file'[h].last > file[h].last]_vars
  <2> SUFFICES ASSUME RecorderInv, FrameInv, [Next]_vars, NEW h \in Handle, file'[h] # file[h]
                 PROVE  file'[h].last > file[h].last
    OBVIOUS
  <2>2. PICK k \in Handle : WriteFrame(k)
    BY OnlyWriterWrites
  <2>3. k = h /\ file'[h].last = Head(fifo[h]).no
    <3>1. k = h
      BY <2>2 DEF WriteFrame, RecorderInv, TypeOK
    <3> DEFINE s == file[h].samples + 1
               f == IF file[h].samples = 0 THEN Head(fifo[h]).type ELSE file[h].first
    <3>2. file' = [file EXCEPT ![h] = [samples |-> s, first |-> f, last |-> Head(fifo[h]).no]]
      BY <2>2, <3>1 DEF WriteFrame
    <3> HIDE DEF s, f
    <3> QED BY <3>1, <3>2 DEF RecorderInv, TypeOK
  <2>4. wpc[h] = "get" /\ fifo[h] \in Seq(Frame) /\ fifo[h] # <<>>
    BY <2>2, <2>3 DEF WriteFrame, RecorderInv, TypeOK
  <2>5. Head(fifo[h]) = fifo[h][1] /\ 1 \in 1..Len(fifo[h]) /\ fifo[h][1] \in Frame
    BY <2>4
  <2>6. file[h].last < fifo[h][1].no
    BY <2>4, <2>5 DEF FrameInv, OrderInv
  <2>7. fifo[h][1].no \in Int /\ file[h].last \in Int
    BY <2>5 DEF Frame, RecorderInv, TypeOK
  <2> QED BY <2>3, <2>5, <2>6, <2>7
<1> QED BY <1>1, RecorderInvariant, FrameInvariant, PTL DEF Safety, FramesInOrder

(* A file whose MP4Close has run does not change any more.                 *)
THEOREM ClosedFilesStay == Safety => ClosedFileStays
<1>1. RecorderInv /\ [Next]_vars
        => [\A h \in Handle : FileIsFinal(h) =>
               file'[h] = file[h] /\ FileIsFinal(h)' /\ ctx'[h].taken <= ctx[h].taken]_vars
  <2> SUFFICES ASSUME RecorderInv, Next, NEW h \in Handle, FileIsFinal(h)
                 PROVE  file'[h] = file[h] /\ FileIsFinal(h)' /\ ctx'[h].taken <= ctx[h].taken
    OBVIOUS
  <2>2. /\ wpc[h] \in {"finish", "clip", "noclip", "remove", "done"} /\ h < nIndex
        /\ (Recording => h # mp4handle) /\ h # nIndex
    BY RecorderAssumption DEF FileIsFinal, RecorderInv, WriterInv, RecorderOwnsFile, TypeOK, Handle
  <2>3. file'[h] = file[h]
    <3>1. CASE file' = file
      BY <3>1
    <3>2. CASE file' # file
      <4>1. PICK k \in Handle : WriteFrame(k)
        BY <3>2, OnlyWriterWrites
      <4> QED BY <2>2, <4>1 DEF WriteFrame, RecorderInv, TypeOK
    <3> QED BY <3>1, <3>2
  <2>4. FileIsFinal(h)' /\ ctx'[h].taken <= ctx[h].taken
    <3>1. ctx[h].taken \in Nat
      BY DEF RecorderInv, TypeOK, CtxType
    <3>2. ASSUME wpc'[h] = wpc[h], ctx'[h].taken = ctx[h].taken PROVE <2>4
      BY <3>1, <3>2 DEF FileIsFinal
    <3>3. ASSUME NEW k \in Handle, Writer(k) PROVE <2>4
      <4>1. CASE WriteFrame(k)
        BY <3>2, <4>1 DEF WriteFrame
      <4>2. CASE FindEmpty(k)
        BY <2>2, <3>1, <4>2 DEF FindEmpty, FileIsFinal, RecorderInv, TypeOK
      <4>3. CASE CheckClose(k)
        BY <2>2, <3>1, <4>3 DEF CheckClose, FileIsFinal, RecorderInv, TypeOK
      <4>4. CASE CloseEncoder(k)
        <5>1. ctx'[h].taken = ctx[h].taken
          BY <4>4, CloseEncoderKeepsCounts DEF SameCounts
        <5> QED BY <2>2, <3>1, <4>4, <5>1 DEF CloseEncoder, FileIsFinal, RecorderInv, TypeOK
      <4>5. CASE Finish(k)
        BY <2>2, <3>1, <4>5 DEF Finish, FileIsFinal, RecorderInv, TypeOK
      <4>6. CASE ClipRequested(k)
        BY <2>2, <3>1, <4>6 DEF ClipRequested, FileIsFinal, RecorderInv, TypeOK
      <4>7. CASE ClipAfterFree(k)
        BY <3>2, <4>7 DEF ClipAfterFree
      <4>8. CASE RemoveContext(k)
        <5>1. NoCtx.taken = 0
          BY DEF NoCtx, NewCtx
        <5>2. /\ ctx' = [ctx EXCEPT ![k] = NoCtx] /\ wpc' = [wpc EXCEPT ![k] = "done"]
          BY <4>8 DEF RemoveContext
        <5> QED BY <2>2, <3>1, <5>1, <5>2 DEF FileIsFinal, RecorderInv, TypeOK
      <4> QED BY <3>3, <4>1, <4>2, <4>3, <4>4, <4>5, <4>6, <4>7, <4>8 DEF Writer
    <3>4. ASSUME NEW c \in Caller, AssociatedVideo(c) PROVE <2>4
      <4>1. wpc' = wpc
        BY <3>4 DEF AssociatedVideo, SetLenLoad, SetLenStore, GetExtraInfo, SetExtraInfo, SetOutputFlag
      <4>2. ctx'[h].taken = ctx[h].taken
        BY <3>4, CallerKeepsCounts, SetLenStoreCounts DEF SameCounts
      <4> QED BY <3>2, <4>1, <4>2
    <3>5. CASE Record
      <4>1. CASE CreateFile
        BY <2>2, <3>2, <4>1 DEF CreateFile, RecorderInv, TypeOK
      <4>2. CASE PutFrame
        BY <2>2, <3>2, <4>2 DEF PutFrame, Recording, RecorderInv, TypeOK
      <4>3. CASE CountFrame
        BY <2>2, <3>2, <4>3 DEF CountFrame, Recording, RecorderInv, TypeOK
      <4>4. CASE CloseFile
        BY <2>2, <3>2, <4>4 DEF CloseFile, Recording, RecorderInv, TypeOK
      <4>5. ASSUME ctx' = ctx, wpc' = wpc PROVE <2>4
        BY <3>2, <4>5
      <4> QED BY <3>5, <4>1, <4>2, <4>3, <4>4, <4>5 DEF Record, LoadSd, RecorderExit, CreateFails,
           Receive, LengthReached, CheckPower
    <3>6. CASE PowerChange \/ FreeDirectory \/ Reboot
      BY <3>2, <3>6 DEF PowerChange, FreeDirectory, Reboot
    <3> QED BY <3>3, <3>4, <3>5, <3>6 DEF Next
  <2> QED BY <2>3, <2>4
<1> QED BY <1>1, RecorderInvariant, PTL DEF Safety, ClosedFileStays
=============================================================================
