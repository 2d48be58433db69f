--------------------------- MODULE MCMp4Directory ---------------------------
(* Clips of the phone, one of which the portal may ask for too, and of the *)
(* G sensor, whose directory differs.                                      *)
EXTENDS Mp4Directory

Across == [tm |-> 1, len |-> 2, dir |-> "tmp"]
AtStart == [tm |-> 0, len |-> 1, dir |-> "GVIDEO"]
Within == [tm |-> 3, len |-> 1, dir |-> "tmp"]

MCClip == {Across, AtStart, Within}
MCKeyFrames == [f \in File |-> IF f = 1 THEN {1, 4} ELSE {1, 3}]
MCAsks == [r \in Requester |-> {c \in Clip : CASE r = "phone"   -> c.dir = "tmp"
                                               [] r = "portal"  -> c = Within
                                               [] r = "gsensor" -> c.dir = "GVIDEO"}]

(* Two clips; a clip, or replay, while a file goes; replay with a seek; and *)
(* replay beside a clip.                                                   *)
Budget(requests, reads, seeks, deletes) ==
    [requests |-> requests, reads |-> reads, seeks |-> seeks, deletes |-> deletes]
MCBudgets == {Budget(2, 0, 0, 0), Budget(1, 0, 0, 1), Budget(0, 5, 0, 1), Budget(0, 7, 1, 0),
              Budget(1, 5, 0, 0)}

(* One clip that goes on to the next file, and a seek after it.            *)
MCOneClip == {Across}
MCClipAndSeek == {Budget(1, 0, 1, 0)}

(* Two clips that each stay within a file.                                 *)
MCInside == {Within, [Within EXCEPT !.dir = "GVIDEO"]}
MCTwoClips == {Budget(2, 0, 0, 0)}
=============================================================================
