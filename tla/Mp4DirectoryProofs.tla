-------------------------- MODULE Mp4DirectoryProofs --------------------------
(***************************************************************************)
(* The list of files and the request list of Mp4Directory, for every card, *)
(* every set of clips and requesters and any bound.                        *)
(***************************************************************************)
EXTENDS Mp4Directory, TLAPS, SequenceTheorems, WellFoundedInduction

-----------------------------------------------------------------------------
(* Lists.                                                                  *)

(* Where the elements are after one was put in at place p.                 *)
LEMMA Inserted ==
    ASSUME NEW s \in Seq(Nat), NEW p \in 1..(Len(s) + 1), NEW e \in Nat
    PROVE  LET t == SubSeq(s, 1, p - 1) \o <<e>> \o SubSeq(s, p, Len(s)) IN
           /\ t \in Seq(Nat) /\ Len(t) = Len(s) + 1
           /\ \A j \in 1..Len(t) : t[j] = IF j < p THEN s[j] ELSE IF j = p THEN e ELSE s[j - 1]
<1> DEFINE a == SubSeq(s, 1, p - 1)
           b == SubSeq(s, p, Len(s))
           c == a \o <<e>>
           t == c \o b
<1>1. /\ a \in Seq(Nat) /\ Len(a) = p - 1
      /\ \A i \in 1..(p - 1) : a[i] = s[i]
  <2>1. \A i \in 1..(p - 1) : i \in 1..Len(s) /\ s[i] \in Nat
    BY LenProperties, ElementOfSeq
  <2>2. Len(s) \in Nat
    BY LenProperties
  <2> QED BY <2>1, <2>2, SMT
<1>2. /\ b \in Seq(Nat) /\ Len(b) = Len(s) - p + 1
      /\ \A i \in 1..(Len(s) - p + 1) : b[i] = s[p + i - 1]
  <2>1. \A i \in 1..(Len(s) - p + 1) : p + i - 1 \in 1..Len(s)
    BY LenProperties
  <2>2. Len(s) \in Nat
    BY LenProperties
  <2> QED BY <2>1, <2>2, SMT
<1>3. /\ c \in Seq(Nat) /\ Len(c) = p
      /\ \A i \in 1..p : c[i] = IF i < p THEN s[i] ELSE e
  <2> HIDE DEF a
  <2> QED BY <1>1, SMT
<1>4. t = c \o b
  OBVIOUS
<1> HIDE DEF a, b, c, t
<1>5. /\ c \o b \in Seq(Nat) /\ Len(c \o b) = Len(c) + Len(b)
      /\ \A i \in 1..(Len(c) + Len(b)) : (c \o b)[i] = IF i <= Len(c) THEN c[i] ELSE b[i - Len(c)]
  BY <1>2, <1>3, ConcatProperties
<1>6. Len(s) \in Nat /\ p \in Nat /\ p - 1 <= Len(s)
  BY LenProperties
<1>7. t \in Seq(Nat) /\ Len(t) = Len(s) + 1
  <2>1. Len(t) = Len(c) + Len(b) /\ t \in Seq(Nat)
    BY <1>4, <1>5, Zenon
  <2>2. Len(c) = p /\ Len(b) = Len(s) - p + 1
    BY <1>2, <1>3
  <2>3. p + (Len(s) - p + 1) = Len(s) + 1
    BY <1>6
  <2> QED BY <2>1, <2>2, <2>3
<1>8. ASSUME NEW j \in 1..Len(t)
      PROVE  t[j] = IF j < p THEN s[j] ELSE IF j = p THEN e ELSE s[j - 1]
  <2>1. t[j] = IF j <= p THEN c[j] ELSE b[j - p]
    <3>1. (c \o b)[j] = IF j <= Len(c) THEN c[j] ELSE b[j - Len(c)]
      BY <1>4, <1>5
    <3> QED BY <1>3, <1>4, <3>1
  <2>2. CASE j <= p
    BY <1>3, <1>6, <1>7, <2>1, <2>2
  <2>3. CASE j > p
    <3>1. j \in Nat /\ j <= Len(s) + 1
      BY <1>6, <1>7
    <3>2. j - p \in 1..(Len(s) - p + 1) /\ p + (j - p) - 1 = j - 1
      BY <1>6, <2>3, <3>1
    <3>3. b[j - p] = s[j - 1]
      BY <1>2, <3>2
    <3>4. ~(j <= p) /\ ~(j < p) /\ j # p
      BY <1>6, <2>3, <3>1
    <3> QED BY <2>1, <3>3, <3>4, Zenon
  <2> QED BY <1>6, <1>7, <2>2, <2>3
<1> QED BY <1>7, <1>8 DEF a, b, c, t

(* A set of numbers that is not empty has a least one.                     *)
LEMMA LeastOf ==
    ASSUME NEW T, T \subseteq Nat, T # {}
    PROVE  \E x \in T : \A y \in T : x <= y
<1>1. PICK x \in T : \A y \in T : <<y, x>> \notin OpToRel(<, Nat)
  BY NatLessThanWellFounded, WFMin, Zenon
<1>2. \A y \in T : ~(y < x)
  BY <1>1, Zenon DEF OpToRel
<1> QED BY <1>2

(* An entry the list names first.                                          *)
LEMMA FirstIs ==
    ASSUME fileList \in Seq(Nat), NEW S
    PROVE  LET p == First(S) IN
           /\ p \in 0..Len(fileList)
           /\ p = 0 => \A i \in Places : Named(i) \notin S
           /\ p # 0 => Named(p) \in S /\ \A i \in 1..(p - 1) : Named(i) \notin S
<1> DEFINE T == {i \in Places : Named(i) \in S}
<1>1. Len(fileList) \in Nat /\ T \subseteq Nat
  BY LenProperties DEF Places
<1>2. CASE T # {}
  <2>1. PICK n \in T : \A m \in T : n <= m
    BY <1>1, <1>2, LeastOf
  <2>2. n \in Places /\ Named(n) \in S /\ n \in 1..Len(fileList)
    BY DEF Places
  <2>3. ASSUME NEW j \in 1..(n - 1)
        PROVE  Named(j) \notin S
    <3>1. j \in Places /\ ~(n <= j)
      BY <1>1, <2>2 DEF Places
    <3> QED BY <2>1, <3>1
  <2>4. \E i \in Places : Named(i) \in S /\ \A j \in 1..(i - 1) : Named(j) \notin S
    BY <2>2, <2>3
  <2>5. /\ First(S) \in Places /\ Named(First(S)) \in S
        /\ \A j \in 1..(First(S) - 1) : Named(j) \notin S
    BY <2>2, <2>4, Zenon DEF First
  <2> QED BY <1>1, <2>5 DEF Places
<1>3. CASE T = {}
  BY <1>1, <1>3 DEF First
<1> QED BY <1>2, <1>3

-----------------------------------------------------------------------------
(* The list of files.                                                      *)

CutFields == {"req", "item", "file", "idx", "start", "left", "open", "last"}
StreamFields == {"item", "idx", "open"}

Entries == 1..Len(item)

ListType ==
    /\ item \in Seq(File)
    /\ fileList \in Seq(Nat) /\ \A i \in Places : fileList[i] \in Entries
    /\ freed \subseteq Entries
    /\ scanned \subseteq File
    /\ addPc \in [File -> {"record", "check", "push", "look", "remove", "done"}]

(* Whoever points to an entry points to one that was made.                 *)
PointerType ==
    /\ cutList \in Seq([clip : Clip, item : Nat])
    /\ \A i \in 1..Len(cutList) : cutList[i].item \in Entries
    /\ reqClip \in [Requester -> Clip]
    /\ DOMAIN cut = CutFields
    /\ cut.item \in Entries \cup {NoItem} /\ cut.left \in Nat
    /\ cutPc # "idle" => cutList # <<>> /\ cut.req \in [clip : Clip, item : Entries]
    /\ DOMAIN stream = StreamFields /\ stream.item \in Entries \cup {NoItem}
    /\ DOMAIN sought = StreamFields /\ sought.item \in Entries \cup {NoItem}

Sorted == \A i, j \in Places : i < j => Named(i) <= Named(j)
Distinct == \A i, j \in Places : i # j => fileList[i] # fileList[j]

(* A file is in the list because its writer added it, or because the       *)
(* thread that reads the card met it; twice because of both.               *)
Added(f) == f > OnCard /\ addPc[f] \in {"look", "remove", "done"}
Known == \A f \in File : (\E i \in Places : Named(i) = f) => f \in scanned \/ Added(f)
Doubled == \A i, j \in Places : i # j /\ Named(i) = Named(j) => Named(i) \in scanned \ 1..OnCard

ListOrder ==
    /\ \A f \in 1..OnCard : addPc[f] = "done"
    /\ Distinct
    /\ cut.item # NoItem => crossed
    /\ ~crossed => Sorted /\ Known /\ Doubled /\ \A i \in Places : fileList[i] \notin freed

ListInv == ListType /\ PointerType /\ ListOrder

(* Files are numbers, and there is a clip.                                 *)
LEMMA FileFacts ==
    /\ File \subseteq Nat /\ 1..OnCard \subseteq File /\ OnCard \in Nat
    /\ AnyClip \in Clip
<1>1. AnyClip \in Clip
  BY DirectoryAssumption, Zenon DEF AnyClip
<1> QED BY <1>1, DirectoryAssumption DEF File

(* What is not later is the same or earlier.                               *)
LEMMA NotLater ==
    ASSUME NEW f \in File, NEW g \in File, g \notin Later(f)
    PROVE  g <= f
<1>1. f \in Nat /\ g \in Nat
  BY FileFacts
<1>2. ~(g > f)
  BY DEF Later
<1> QED BY <1>1, <1>2

(* A new entry comes last among the entries, and in the list before the    *)
(* first entry of a later file.                                            *)
LEMMA Pushed ==
    ASSUME ListType, NEW f \in File, PushIf(f)
    PROVE  /\ freed' = freed
           /\ item' \in Seq(File) /\ Len(item') = Len(item) + 1 /\ Len(item) \in Nat
           /\ item'[Len(item) + 1] = f /\ \A e \in Entries : item'[e] = item[e]
           /\ fileList' \in Seq(Nat) /\ Len(fileList') = Len(fileList) + 1 /\ Len(fileList) \in Nat
           /\ \E p \in 1..(Len(fileList) + 1) :
                /\ \A j \in 1..(Len(fileList) + 1) : fileList'[j] =
                     IF j < p THEN fileList[j] ELSE IF j = p THEN Len(item) + 1 ELSE fileList[j - 1]
                /\ \A j \in Places : j < p => Named(j) <= f
                /\ p \in Places => f < Named(p)
<1> DEFINE q == First(Later(f))
           p == IF q = 0 THEN Len(fileList) + 1 ELSE q
<1>1. Len(item) \in Nat /\ Len(fileList) \in Nat
  BY LenProperties DEF ListType
<1>2. /\ q \in 0..Len(fileList)
      /\ q = 0 => \A i \in Places : Named(i) \notin Later(f)
      /\ q # 0 => Named(q) \in Later(f) /\ \A i \in 1..(q - 1) : Named(i) \notin Later(f)
  BY FirstIs DEF ListType
<1>3. \A i \in Places : Named(i) \in File
  <2> SUFFICES ASSUME NEW i \in Places PROVE Named(i) \in File
    OBVIOUS
  <2>1. fileList[i] \in 1..Len(item)
    BY DEF ListType, Entries
  <2> QED BY <2>1, ElementOfSeq DEF ListType, Named
<1>4. item' = Append(item, f) /\ fileList' = InsertAtPlace(p, Len(item) + 1) /\ freed' = freed
  BY DEF PushIf
<1> HIDE DEF q
<1>5. p \in 1..(Len(fileList) + 1) /\ Len(item) + 1 \in Nat
  BY <1>1, <1>2
<1>6. item' \in Seq(File) /\ Len(item') = Len(item) + 1
      /\ item'[Len(item) + 1] = f /\ \A e \in Entries : item'[e] = item[e]
  BY <1>4, AppendProperties DEF ListType, Entries
<1>7. \A j \in Places : j < p => Named(j) <= f
  <2> SUFFICES ASSUME NEW j \in Places, j < p PROVE Named(j) <= f
    OBVIOUS
  <2>1. Named(j) \notin Later(f)
    BY <1>1, <1>2 DEF Places
  <2>2. Named(j) \in File
    BY <1>3
  <2> QED BY <2>1, <2>2, NotLater
<1>8. p \in Places => f < Named(p)
  <2>1. p \in Places => q # 0
    BY <1>1 DEF Places
  <2>2. q # 0 => Named(q) > f
    BY <1>2 DEF Later
  <2>3. q # 0 => p = q /\ q \in Places
    BY <1>1, <1>2 DEF Places
  <2> QED BY <1>3, <2>1, <2>2, <2>3, FileFacts
<1> HIDE DEF p
<1>9. /\ fileList' \in Seq(Nat) /\ Len(fileList') = Len(fileList) + 1
      /\ \A j \in 1..(Len(fileList) + 1) : fileList'[j] =
           IF j < p THEN fileList[j] ELSE IF j = p THEN Len(item) + 1 ELSE fileList[j - 1]
  <2> DEFINE t == SubSeq(fileList, 1, p - 1) \o <<Len(item) + 1>> \o SubSeq(fileList, p, Len(fileList))
  <2>1. fileList' = t
    BY <1>4 DEF InsertAtPlace
  <2>2. /\ t \in Seq(Nat) /\ Len(t) = Len(fileList) + 1
        /\ \A j \in 1..Len(t) : t[j] =
             IF j < p THEN fileList[j] ELSE IF j = p THEN Len(item) + 1 ELSE fileList[j - 1]
    <3>1. fileList \in Seq(Nat) /\ p \in 1..(Len(fileList) + 1) /\ Len(item) + 1 \in Nat
      BY <1>5 DEF ListType
    <3> QED BY <3>1, Inserted, ZenonT(60)
  <2> HIDE DEF t
  <2> QED BY <2>1, <2>2
<1> QED BY <1>1, <1>4, <1>5, <1>6, <1>7, <1>8, <1>9

-----------------------------------------------------------------------------
(* ListInv is inductive.                                                   *)

Pointers == <<cutList, reqClip, cutPc, cut, stream, sought>>

(* The base: both lists are empty, and nobody points to an entry.          *)
LEMMA ListInit == Init => ListInv
<1> SUFFICES ASSUME Init PROVE ListInv
  OBVIOUS
<1>1. Len(item) = 0 /\ Len(fileList) = 0 /\ Len(cutList) = 0 /\ Places = {}
  BY DEF Init, Places
<1>2. ListType
  BY <1>1 DEF Init, ListType
<1>3. DOMAIN cut = CutFields /\ cut.item = NoItem /\ cut.left = 0
  BY DEF Init, NoCut, CutFields
<1>4. DOMAIN NoStream = StreamFields /\ NoStream.item = NoItem
  BY DEF NoStream, StreamFields
<1>5. PointerType
  BY <1>1, <1>3, <1>4, FileFacts DEF Init, PointerType
<1>6. ListOrder
  BY <1>1, <1>3, FileFacts DEF Init, ListOrder, Distinct, Sorted, Known, Doubled
<1> QED BY <1>2, <1>5, <1>6 DEF ListInv

(* The parts of ListOrder depend on the list and how it was filled alone.  *)
LEMMA OrderKept ==
    ASSUME UNCHANGED <<item, fileList, scanned, addPc>>
    PROVE  /\ Distinct <=> Distinct'
           /\ Sorted <=> Sorted'
           /\ Known <=> Known'
           /\ Doubled <=> Doubled'
<1>1. Distinct <=> Distinct'
  BY DEF Distinct, Places
<1>2. Sorted <=> Sorted'
  BY DEF Sorted, Places, Named
<1>3. Known <=> Known'
  BY DEF Known, Added, Places, Named
<1>4. Doubled <=> Doubled'
  BY DEF Doubled, Places, Named
<1> QED BY <1>1, <1>2, <1>3, <1>4

(* What the steps need that do not touch the list.                         *)
LEMMA ListKept ==
    ASSUME ListInv, UNCHANGED <<list, adders>>, crossed => crossed',
           PointerType', cut'.item # NoItem => crossed'
    PROVE  ListInv'
<1>1. ListType'
  BY DEF ListInv, ListType, list, adders, Entries, Places
<1>2. Distinct' /\ (Sorted <=> Sorted') /\ (Known <=> Known') /\ (Doubled <=> Doubled')
  BY OrderKept DEF ListInv, ListOrder, list, adders
<1>3. ListOrder'
  BY <1>2 DEF ListInv, ListOrder, Places, list, adders
<1> QED BY <1>1, <1>3 DEF ListInv

(* Pointers that stay remain pointers to entries.                          *)
LEMMA PointersKept ==
    ASSUME PointerType, UNCHANGED Pointers, Entries \subseteq Entries'
    PROVE  PointerType'
<1>1. cutPc' # "idle" => cut'.req \in [clip : Clip, item : Entries']
  <2> SUFFICES ASSUME cutPc # "idle" PROVE cut.req \in [clip : Clip, item : Entries']
    BY DEF Pointers
  <2>1. cut.req \in [clip : Clip, item : Entries]
    BY DEF PointerType
  <2> QED BY <2>1
<1> QED BY <1>1 DEF PointerType, Pointers

(* A writer goes on, and the list stays.                                   *)
LEMMA AdderKept ==
    ASSUME ListInv, UNCHANGED <<list, scanned, Pointers, crossed>>,
           NEW f \in File, NEW pc \in {"check", "push", "look", "remove", "done"},
           addPc[f] # "done", addPc[f] \in {"look", "remove"} => pc \in {"look", "remove", "done"},
           addPc' = [addPc EXCEPT ![f] = pc]
    PROVE  ListInv'
<1>1. f > OnCard
  BY FileFacts DEF ListInv, ListOrder, File
<1>2. ListType'
  BY DEF ListInv, ListType, list, Entries, Places
<1>3. PointerType'
  BY PointersKept DEF ListInv, list, Entries
<1>4. Distinct' /\ (Sorted <=> Sorted') /\ (Doubled <=> Doubled')
  BY DEF ListInv, ListOrder, Distinct, Sorted, Doubled, Places, Named, list
<1>5. Known => Known'
  <2> SUFFICES ASSUME Known, NEW g \in File, \E i \in Places' : Named(i)' = g
               PROVE  g \in scanned' \/ Added(g)'
    BY DEF Known
  <2>1. \E i \in Places : Named(i) = g
    BY DEF Places, Named, list
  <2>2. g \in scanned \/ Added(g)
    BY <2>1 DEF Known
  <2>3. addPc'[g] = IF g = f THEN pc ELSE addPc[g]
    BY DEF ListInv, ListType
  <2> QED BY <2>2, <2>3 DEF Added
<1>6. \A g \in 1..OnCard : addPc'[g] = "done"
  BY <1>1, FileFacts DEF ListInv, ListType, ListOrder
<1>7. ListOrder'
  BY <1>4, <1>5, <1>6 DEF ListInv, ListOrder, Places, list, Pointers
<1> QED BY <1>2, <1>3, <1>7 DEF ListInv

(* An entry that was put in: every other place holds what it or the one    *)
(* before held, and the new place holds the new entry.                     *)
LEMMA PushKeeps ==
    ASSUME ListInv, NEW f \in File, PushIf(f), UNCHANGED <<Pointers, crossed>>,
           \/ f \notin scanned /\ scanned' = scanned \cup {f} /\ addPc' = addPc
           \/ addPc[f] = "push" /\ addPc' = [addPc EXCEPT ![f] = "look"] /\ scanned' = scanned
    PROVE  ListInv'
<1> DEFINE n == Len(fileList)
           m == Len(item) + 1
<1>0. /\ freed' = freed
      /\ item' \in Seq(File) /\ Len(item') = m /\ Len(item) \in Nat
      /\ item'[m] = f /\ \A e \in Entries : item'[e] = item[e]
      /\ fileList' \in Seq(Nat) /\ Len(fileList') = n + 1 /\ n \in Nat
  BY Pushed DEF ListInv
<1>1. PICK p \in 1..(n + 1) :
        /\ \A j \in 1..(n + 1) : fileList'[j] =
             IF j < p THEN fileList[j] ELSE IF j = p THEN m ELSE fileList[j - 1]
        /\ \A j \in Places : j < p => Named(j) <= f
        /\ p \in Places => f < Named(p)
  BY Pushed DEF ListInv
<1> DEFINE old(j) == IF j < p THEN j ELSE j - 1
<1>2. Places' = 1..(n + 1) /\ Places = 1..n
  BY <1>0 DEF Places
<1>3. Entries \subseteq Entries' /\ m \in Entries' /\ m \notin Entries
  BY <1>0 DEF Entries
<1>4. \A e \in Entries : e \in Nat /\ item[e] \in File
  BY ElementOfSeq DEF ListInv, ListType, Entries
<1>5. \A j \in Places : fileList[j] \in Entries /\ Named(j) \in File
  BY <1>4 DEF ListInv, ListType, Named
<1>6. ASSUME NEW j \in Places', j # p
      PROVE  /\ old(j) \in Places /\ fileList'[j] = fileList[old(j)]
             /\ Named(j)' = Named(old(j)) /\ (j < p <=> old(j) < p)
  <2>1. old(j) \in Places /\ (j < p <=> old(j) < p)
    BY <1>0, <1>1, <1>2, <1>6
  <2>2. fileList'[j] = fileList[old(j)]
    BY <1>1, <1>2, <1>6
  <2>3. fileList[old(j)] \in Entries
    BY <1>5, <2>1
  <2>4. item'[fileList'[j]] = item[fileList[old(j)]]
    <3> HIDE DEF old, n, m
    <3> QED BY <1>0, <2>2, <2>3
  <2> QED BY <2>1, <2>2, <2>4 DEF Named
<1>7. p \in Places' /\ fileList'[p] = m /\ Named(p)' = f
  BY <1>0, <1>1, <1>2 DEF Named
<1>8. \A i, j \in Places' : i # p /\ j # p => (i < j <=> old(i) < old(j)) /\ (i = j <=> old(i) = old(j))
  <2> SUFFICES ASSUME NEW i \in Places', NEW j \in Places', i # p, j # p
               PROVE  (i < j <=> old(i) < old(j)) /\ (i = j <=> old(i) = old(j))
    OBVIOUS
  <2>1. i \in Nat /\ j \in Nat /\ p \in Nat
    BY <1>0, <1>2
  <2> QED BY <2>1
<1> HIDE DEF old, n, m
<1>9. ListType'
  <2>1. \A j \in Places' : fileList'[j] \in Entries'
    BY <1>3, <1>5, <1>6, <1>7
  <2>2. /\ scanned' \subseteq File
        /\ addPc' \in [File -> {"record", "check", "push", "look", "remove", "done"}]
    BY DEF ListInv, ListType
  <2>3. freed' \subseteq Entries'
    BY <1>0, <1>3 DEF ListInv, ListType
  <2> QED BY <1>0, <2>1, <2>2, <2>3 DEF ListType
<1>10. PointerType'
  BY <1>3, PointersKept DEF ListInv
<1>11. Distinct'
  <2> SUFFICES ASSUME NEW i \in Places', NEW j \in Places', i # j
               PROVE  fileList'[i] # fileList'[j]
    BY DEF Distinct
  <2>1. CASE i # p /\ j # p
    BY <1>6, <1>8, <2>1 DEF ListInv, ListOrder, Distinct
  <2>2. CASE i = p
    BY <1>3, <1>5, <1>6, <1>7, <2>2
  <2>3. CASE j = p
    BY <1>3, <1>5, <1>6, <1>7, <2>3
  <2> QED BY <2>1, <2>2, <2>3
<1>12. \A g \in 1..OnCard : addPc'[g] = "done"
  BY FileFacts DEF ListInv, ListOrder, ListType
<1>13. ASSUME Sorted PROVE Sorted'
  <2> SUFFICES ASSUME NEW i \in Places', NEW j \in Places', i < j
               PROVE  Named(i)' <= Named(j)'
    BY DEF Sorted
  <2>1. i \in Nat /\ j \in Nat /\ p \in Nat
    BY <1>0, <1>2
  <2>2. CASE i # p /\ j # p
    BY <1>6, <1>8, <1>13, <2>2 DEF Sorted
  <2>3. CASE i # p /\ j = p
    BY <1>1, <1>6, <1>7, <2>3
  <2>4. CASE i = p
    <3>1. j # p /\ ~(j < p)
      BY <2>1, <2>4
    <3>2. old(j) \in Places /\ Named(j)' = Named(old(j)) /\ ~(old(j) < p)
      BY <1>6, <3>1
    <3>3. p \in Places /\ (p < old(j) \/ p = old(j))
      <4>1. old(j) \in Nat /\ p <= old(j) /\ 1 <= p /\ old(j) <= Len(fileList)
        BY <2>1, <3>2, <1>2 DEF Places
      <4> QED BY <1>0, <2>1, <4>1 DEF Places
    <3>5. f \in Nat /\ Named(p) \in Nat /\ Named(old(j)) \in Nat
      BY <1>5, <3>2, <3>3, FileFacts
    <3>4. f < Named(p) /\ Named(p) <= Named(old(j))
      <4>1. p = old(j) => Named(p) <= Named(old(j))
        BY <3>5
      <4>2. p < old(j) => Named(p) <= Named(old(j))
        BY <1>13, <3>2, <3>3 DEF Sorted
      <4> QED BY <1>1, <3>3, <4>1, <4>2
    <3> QED BY <1>7, <2>4, <3>2, <3>4, <3>5
  <2> QED BY <2>2, <2>3, <2>4
<1>14. ASSUME Known PROVE Known'
  <2> SUFFICES ASSUME NEW g \in File, NEW j \in Places', Named(j)' = g
               PROVE  g \in scanned' \/ Added(g)'
    BY DEF Known
  <2>1. CASE j = p
    <3>1. g = f
      BY <1>7, <2>1
    <3>2. addPc[f] = "push" => f > OnCard
      BY FileFacts DEF ListInv, ListOrder, File
    <3> QED BY <3>1, <3>2 DEF ListInv, ListType, Added
  <2>2. CASE j # p
    <3>1. \E k \in Places : Named(k) = g
      BY <1>6, <2>2
    <3>2. g \in scanned \/ Added(g)
      BY <1>14, <3>1 DEF Known
    <3> QED BY <3>2 DEF Added, ListInv, ListType
  <2> QED BY <2>1, <2>2
<1>15. ASSUME Known, Doubled PROVE Doubled'
  <2>1. ASSUME NEW k \in Places, Named(k) = f PROVE f \in scanned' \ 1..OnCard
    <3>1. f \in scanned \/ Added(f)
      BY <1>15, <2>1 DEF Known
    <3>2. addPc[f] = "push" => f > OnCard
      BY FileFacts DEF ListInv, ListOrder, File
    <3>3. f > OnCard /\ f \in scanned'
      BY <3>1, <3>2 DEF Added
    <3> QED BY <3>3, FileFacts
  <2> SUFFICES ASSUME NEW i \in Places', NEW j \in Places', i # j, Named(i)' = Named(j)'
               PROVE  Named(i)' \in scanned' \ 1..OnCard
    BY DEF Doubled
  <2>2. CASE i # p /\ j # p
    <3>1. Named(old(i)) \in scanned \ 1..OnCard
      BY <1>6, <1>8, <1>15, <2>2 DEF Doubled
    <3> QED BY <1>6, <2>2, <3>1
  <2>3. CASE i = p
    BY <1>6, <1>7, <2>1, <2>3
  <2>4. CASE j = p
    BY <1>6, <1>7, <2>1, <2>4
  <2> QED BY <2>2, <2>3, <2>4
<1>16. ASSUME \A i \in Places : fileList[i] \notin freed
       PROVE  \A i \in Places' : fileList'[i] \notin freed'
  <2>1. m \notin freed
    BY <1>3 DEF ListInv, ListType
  <2> QED BY <1>0, <1>6, <1>7, <1>16, <2>1
<1>17. ListOrder'
  BY <1>11, <1>12, <1>13, <1>14, <1>15, <1>16 DEF ListInv, ListOrder, Pointers
<1> QED BY <1>9, <1>10, <1>17 DEF ListInv

(* remove_front: every place holds what the next one held.                 *)
LEMMA FrontRemoved ==
    ASSUME ListInv, fileList # <<>>, fileList' = Tail(fileList), item' = item, scanned' = scanned,
           freed' = freed \cup {fileList[1]}, UNCHANGED <<Pointers, crossed>>,
           NEW f \in File, addPc[f] = "remove", addPc' = [addPc EXCEPT ![f] = "look"]
    PROVE  ListInv'
<1> DEFINE n == Len(fileList)
<1>1. n \in Nat /\ n # 0
  BY LenProperties, EmptySeq DEF ListInv, ListType
<1>2. /\ fileList' \in Seq(Nat) /\ Len(fileList') = n - 1
      /\ \A j \in 1..(n - 1) : fileList'[j] = fileList[j + 1]
  BY HeadTailProperties DEF ListInv, ListType
<1>3. Places' = 1..(n - 1) /\ Places = 1..n /\ 1 \in Places
  BY <1>1, <1>2 DEF Places
<1>4. Entries' = Entries /\ fileList[1] \in Entries
  BY <1>3 DEF Entries, ListInv, ListType
<1>5. ASSUME NEW j \in Places'
      PROVE  j \in Nat /\ j + 1 \in Places /\ j + 1 # 1 /\ fileList'[j] = fileList[j + 1] /\ Named(j)' = Named(j + 1)
  BY <1>1, <1>2, <1>3 DEF Named
<1> HIDE DEF n
<1>6. ListType'
  <2>1. \A j \in Places' : fileList'[j] \in Entries'
    BY <1>4, <1>5 DEF ListInv, ListType
  <2> QED BY <1>2, <1>4, <2>1 DEF ListInv, ListType
<1>7. PointerType'
  BY <1>4, PointersKept DEF ListInv
<1>8. Distinct'
  <2>1. Distinct
    BY DEF ListInv, ListOrder
  <2> SUFFICES ASSUME NEW i \in Places', NEW j \in Places', i # j PROVE fileList'[i] # fileList'[j]
    BY DEF Distinct
  <2>2. i + 1 # j + 1
    BY <1>5
  <2> QED BY <1>5, <2>1, <2>2 DEF Distinct
<1>9. \A g \in 1..OnCard : addPc'[g] = "done"
  BY FileFacts DEF ListInv, ListOrder, ListType
<1>10. ASSUME Sorted PROVE Sorted'
  <2> SUFFICES ASSUME NEW i \in Places', NEW j \in Places', i < j PROVE Named(i)' <= Named(j)'
    BY DEF Sorted
  <2>1. i + 1 < j + 1
    BY <1>5
  <2> QED BY <1>5, <1>10, <2>1 DEF Sorted
<1>11. ASSUME Known PROVE Known'
  <2> SUFFICES ASSUME NEW g \in File, NEW j \in Places', Named(j)' = g
               PROVE  g \in scanned' \/ Added(g)'
    BY DEF Known
  <2>1. g \in scanned \/ Added(g)
    BY <1>5, <1>11 DEF Known
  <2> QED BY <2>1 DEF Added, ListInv, ListType
<1>12. ASSUME Doubled PROVE Doubled'
  <2> SUFFICES ASSUME NEW i \in Places', NEW j \in Places', i # j, Named(i)' = Named(j)'
               PROVE  Named(i)' \in scanned' \ 1..OnCard
    BY DEF Doubled
  <2>1. i + 1 # j + 1
    BY <1>5
  <2>2. Named(i + 1) \in scanned \ 1..OnCard
    BY <1>5, <1>12, <2>1 DEF Doubled
  <2> QED BY <1>5, <2>2
<1>13. ASSUME \A i \in Places : fileList[i] \notin freed
       PROVE  \A i \in Places' : fileList'[i] \notin freed'
  <2> SUFFICES ASSUME NEW i \in Places' PROVE fileList'[i] \notin freed'
    OBVIOUS
  <2>1. fileList[i + 1] # fileList[1]
    BY <1>3, <1>5 DEF ListInv, ListOrder, Distinct
  <2> QED BY <1>5, <1>13, <2>1
<1>14. ListOrder'
  BY <1>8, <1>9, <1>10, <1>11, <1>12, <1>13 DEF ListInv, ListOrder, Pointers
<1> QED BY <1>6, <1>7, <1>14 DEF ListInv

(* get_next returns NULL or an entry.                                      *)
LEMMA NextIsEntry ==
    ASSUME ListType, NEW f
    PROVE  NextOf(f) \in Entries \cup {NoItem}
<1>1. First({f}) \in 0..Len(fileList) /\ Len(fileList) \in Nat
  BY FirstIs, LenProperties DEF ListType
<1>2. First({f}) # 0 =>
        (IF First({f}) = Len(fileList) THEN 1 ELSE First({f}) + 1) \in 1..Len(fileList)
  BY <1>1
<1> QED BY <1>2 DEF NextOf, ListType, Places

(* The steps of the requesters, of the cut thread, and of replay.          *)
LEMMA ContinueKeeps ==
    ASSUME ListInv, NEW idx, NEW left \in Nat, Continue(idx, left),
           UNCHANGED <<list, adders, cutList, reqClip, stream, sought>>,
           cutPc # "idle", cutPc' # "idle"
    PROVE  ListInv'
<1>1. NextOf(CurFile) \in Entries \cup {NoItem}
  BY NextIsEntry DEF ListInv
<1>2. /\ DOMAIN cut' = CutFields /\ cut'.item = NextOf(CurFile) /\ cut'.left = left
      /\ cut'.req = cut.req
  BY DEF Continue, ListInv, PointerType, CutFields
<1>3. PointerType'
  BY <1>1, <1>2 DEF ListInv, PointerType, Entries, list
<1>4. crossed'
  BY DEF Continue
<1> QED BY <1>3, <1>4, ListKept

(* The cut thread: only CutToAudio and CutEnd touch the entries.           *)
LEMMA CutKeeps ==
    ASSUME ListInv, Cut
    PROVE  ListInv'
<1> USE DEF ListInv, cutter, requesters, replay
<1>1. CASE CutBegin
  <2> DEFINE e == cutList[1]
  <2>1. e \in [clip : Clip, item : Nat] /\ e.item \in Entries
    <3>1. 1 \in 1..Len(cutList)
      BY <1>1, EmptySeq, LenProperties DEF CutBegin, PointerType
    <3>2. e \in [clip : Clip, item : Nat]
      BY <3>1, ElementOfSeq DEF PointerType
    <3>3. e.item \in Entries
      BY <3>1 DEF PointerType
    <3> QED BY <3>2, <3>3
  <2>2. e \in [clip : Clip, item : Entries] /\ e.clip \in Clip
    BY <2>1
  <2>3. e.clip.len * Rate \in Nat
    BY <2>2, DirectoryAssumption
  <2>4. cut' = BeginAt(e) /\ UNCHANGED <<list, adders, cutList, reqClip, stream, sought, crossed>>
    BY <1>1 DEF CutBegin
  <2> HIDE DEF e
  <2>5. DOMAIN NoCut = CutFields /\ NoCut.item = NoItem
    BY DEF NoCut, CutFields
  <2>6. DOMAIN cut' = CutFields /\ cut'.item = NoItem /\ cut'.left = e.clip.len * Rate /\ cut'.req = e
    BY <2>4, <2>5 DEF BeginAt, CutFields
  <2>7. PointerType'
    <3>1. cutList # <<>>
      BY <1>1 DEF CutBegin
    <3> QED BY <2>2, <2>3, <2>4, <2>6, <3>1 DEF PointerType, Entries, list
  <2> QED BY <2>4, <2>6, <2>7, ListKept
<1>2. CASE CutNextFile
  BY <1>2, ContinueKeeps DEF CutNextFile, Cutting, PointerType
<1>3. CASE CutFrame
  <2>1. /\ UNCHANGED <<list, adders, cutList, reqClip, stream, sought, crossed, cutPc>>
        /\ cut.left > 0
    BY <1>3 DEF CutFrame
  <2>2. /\ DOMAIN cut' = CutFields /\ cut'.item = cut.item /\ cut'.left = cut.left - 1
        /\ cut'.req = cut.req
    BY <1>3 DEF CutFrame, PointerType, CutFields
  <2>3. PointerType'
    BY <2>1, <2>2 DEF PointerType, Entries, list
  <2> QED BY <2>1, <2>2, <2>3, ListKept DEF ListOrder
<1>4. CASE CutToAudio
  <2>1. /\ UNCHANGED <<freed, fileList, adders, cutList, reqClip, stream, sought, crossed>>
        /\ cutPc = "video"
    BY <1>4 DEF CutToAudio
  <2>2. cut.req \in [clip : Clip, item : Entries] /\ item[cut.req.item] \in File
    BY <2>1, ElementOfSeq DEF PointerType, ListType, Entries
  <2>3. CASE cut.item = NoItem
    <3>1. /\ UNCHANGED item /\ DOMAIN cut' = CutFields /\ cut'.item = cut.item
          /\ cut'.left = cut.left /\ cut'.req = cut.req
      BY <1>4, <2>3 DEF CutToAudio, PointerType, CutFields
    <3>2. PointerType'
      BY <2>1, <3>1 DEF PointerType, Entries
    <3> QED BY <2>1, <2>3, <3>1, <3>2, ListKept DEF list
  <2>4. CASE cut.item # NoItem
    <3>1. item' = [item EXCEPT ![cut.item] = item[cut.req.item]] /\ UNCHANGED cut
      BY <1>4, <2>4 DEF CutToAudio
    <3>2. item' \in Seq(File) /\ Len(item') = Len(item)
      <4>1. cut.item \in 1..Len(item) /\ item \in Seq(File)
        BY <2>4 DEF ListType, PointerType, Entries
      <4> QED BY <2>2, <3>1, <4>1, ExceptSeq
    <3>3. Entries' = Entries /\ Places' = Places
      BY <2>1, <3>2 DEF Entries, Places
    <3>4. ListType'
      BY <2>1, <3>2, <3>3 DEF ListType, adders
    <3>5. PointerType'
      BY <2>1, <2>2, <3>1, <3>3 DEF PointerType
    <3>6. crossed /\ ListOrder'
      BY <2>1, <2>4, <3>1, <3>3 DEF ListOrder, Distinct, adders
    <3> QED BY <3>4, <3>5, <3>6
  <2> QED BY <2>3, <2>4
<1>5. CASE CutAudioBegin
  <2>1. UNCHANGED <<list, adders, cutList, reqClip, stream, sought>> /\ cutPc = "turn" /\ cutPc' = "audio"
    BY <1>5 DEF CutAudioBegin
  <2>2. AudioLength \in Nat
    BY <2>1, DirectoryAssumption DEF AudioLength, PointerType
  <2>3. CASE AudioElsewhere
    BY <1>5, <2>1, <2>2, <2>3, ContinueKeeps DEF CutAudioBegin
  <2>4. CASE ~AudioElsewhere
    <3>1. /\ UNCHANGED crossed /\ DOMAIN cut' = CutFields /\ cut'.item = cut.item
          /\ cut'.left = AudioLength /\ cut'.req = cut.req
      BY <1>5, <2>4 DEF CutAudioBegin, PointerType, CutFields
    <3>2. PointerType'
      BY <2>1, <2>2, <3>1 DEF PointerType, Entries, list
    <3> QED BY <2>1, <3>1, <3>2, ListKept DEF ListOrder
  <2> QED BY <2>3, <2>4
<1>6. CASE CutEnd
  <2>1. /\ UNCHANGED <<item, fileList, adders, cutList, reqClip, stream, sought, cut, crossed>>
        /\ cutPc = "audio" /\ freed' = freed \cup ({cut.item} \ {NoItem})
    BY <1>6 DEF CutEnd
  <2>2. Entries' = Entries /\ Places' = Places
    BY <2>1 DEF Entries, Places
  <2>3. ListType'
    BY <2>1, <2>2 DEF ListType, PointerType, adders
  <2>4. PointerType'
    BY <2>1, <2>2 DEF PointerType
  <2>5. ~crossed => freed' = freed
    BY <2>1 DEF ListOrder
  <2>6. Distinct' /\ (Sorted <=> Sorted') /\ (Known <=> Known') /\ (Doubled <=> Doubled')
    BY <2>1, OrderKept DEF ListOrder, adders
  <2>7. ListOrder'
    BY <2>1, <2>2, <2>5, <2>6 DEF ListOrder, adders
  <2> QED BY <2>3, <2>4, <2>7
<1>7. CASE CutRemove
  <2>1. /\ UNCHANGED <<list, adders, reqClip, stream, sought, crossed>>
        /\ cutPc' = "idle" /\ cut' = NoCut /\ cutList' = Tail(cutList)
    BY <1>7 DEF CutRemove
  <2>2. DOMAIN cut' = CutFields /\ cut'.item = NoItem /\ cut'.left = 0
    BY <2>1 DEF NoCut, CutFields
  <2>3. cutList' \in Seq([clip : Clip, item : Nat]) /\ \A i \in 1..Len(cutList') : cutList'[i].item \in Entries
    <3>1. cutList # <<>>
      BY <1>7 DEF CutRemove, PointerType
    <3> QED BY <2>1, <3>1, HeadTailProperties DEF PointerType
  <2>4. PointerType'
    BY <2>1, <2>2, <2>3 DEF PointerType, Entries, list
  <2> QED BY <2>1, <2>2, <2>4, ListKept
<1> QED BY <1>1, <1>2, <1>3, <1>4, <1>5, <1>6, <1>7 DEF Cut

(* Replay and seek only move pointers.                                     *)
LEMMA ReplayKeeps ==
    ASSUME ListInv, Replay \/ SeekSet \/ (\E tm \in Time : Seek(tm))
    PROVE  ListInv'
<1> USE DEF ListInv
<1>1. UNCHANGED <<list, adders, cutList, reqClip, cutPc, cut, crossed>>
  BY DEF Replay, RecCheck, RecNext, RecOpen, RecRead, RecAdvance, SeekSet, Seek, cutter, requesters
<1>2. fileList # <<>> => fileList[1] \in Entries
  BY EmptySeq, LenProperties DEF ListType, Places
<1>3. /\ DOMAIN stream' = StreamFields /\ stream'.item \in Entries \cup {NoItem}
      /\ DOMAIN sought' = StreamFields /\ sought'.item \in Entries \cup {NoItem}
  <2>1. DOMAIN NoStream = StreamFields /\ NoStream.item = NoItem
    BY DEF NoStream, StreamFields
  <2>2. CASE RecCheck
    BY <1>2, <2>2 DEF RecCheck, PointerType, StreamFields
  <2>3. CASE RecNext
    <3>1. NextOf(item[stream.item]) \in Entries \cup {NoItem}
      BY NextIsEntry
    <3> QED BY <2>3, <3>1 DEF RecNext, PointerType, StreamFields
  <2>4. CASE RecOpen
    BY <2>4 DEF RecOpen, PointerType, StreamFields
  <2>5. CASE RecRead
    BY <2>5 DEF RecRead, PointerType
  <2>6. CASE RecAdvance
    BY <2>6 DEF RecAdvance, PointerType, StreamFields
  <2>7. CASE SeekSet
    BY <2>1, <2>7 DEF SeekSet, PointerType
  <2>8. CASE \E tm \in Time : Seek(tm)
    <3> SUFFICES ASSUME NEW tm \in Time, Seek(tm)
                 PROVE  /\ DOMAIN stream' = StreamFields /\ stream'.item \in Entries \cup {NoItem}
                        /\ DOMAIN sought' = StreamFields /\ sought'.item \in Entries \cup {NoItem}
      BY <2>8
    <3> DEFINE p == First({FileAt(tm)})
    <3>1. p \in 0..Len(fileList)
      BY FirstIs DEF ListType
    <3>2. p # 0 => fileList[p] \in Entries
      BY <3>1, LenProperties DEF ListType, Places
    <3> QED BY <2>1, <3>2 DEF Seek, PointerType, StreamFields
  <2> QED BY <2>2, <2>3, <2>4, <2>5, <2>6, <2>7, <2>8 DEF Replay
<1>4. PointerType'
  BY <1>1, <1>3 DEF PointerType, Entries, list
<1> QED BY <1>1, <1>4, ListKept DEF ListOrder

(* A request that is pushed points to an entry of the list.                *)
LEMMA RequestKeeps ==
    ASSUME ListInv, NEW r \in Requester, Request(r) \/ \E c \in Clip : ReqList(r, c)
    PROVE  ListInv'
<1> USE DEF ListInv
<1>1. UNCHANGED <<list, adders, cutPc, cut, crossed, stream, sought>>
  BY DEF Request, ReqFile, ReqRemove, ReqPush, ReqList, cutter, replay
<1>2. reqClip' \in [Requester -> Clip]
  BY FileFacts DEF Request, ReqFile, ReqRemove, ReqPush, ReqList, PointerType, requesters
<1>3. /\ cutList' \in Seq([clip : Clip, item : Nat])
      /\ \A i \in 1..Len(cutList') : cutList'[i].item \in Entries
      /\ cutPc # "idle" => cutList' # <<>>
  <2>1. CASE cutList' = cutList
    BY <2>1 DEF PointerType
  <2>2. CASE cutList' # cutList
    <3> DEFINE p == First({FileAt(reqClip[r].tm)})
               e == [clip |-> reqClip[r], item |-> fileList[p]]
    <3>1. p # 0 /\ cutList' = <<e>> \o cutList
      BY <2>2 DEF Request, ReqFile, ReqRemove, ReqPush, ReqList
    <3>2. p \in 0..Len(fileList)
      BY FirstIs DEF ListType
    <3>3. fileList[p] \in Entries /\ fileList[p] \in Nat
      BY <3>1, <3>2, LenProperties DEF ListType, Places, Entries
    <3>4. e \in [clip : Clip, item : Nat] /\ e.item \in Entries
      BY <3>3 DEF PointerType
    <3> HIDE DEF e
    <3>5. /\ <<e>> \o cutList \in Seq([clip : Clip, item : Nat])
          /\ Len(<<e>> \o cutList) = 1 + Len(cutList) /\ Len(cutList) \in Nat
          /\ \A i \in 1..(1 + Len(cutList)) :
               (<<e>> \o cutList)[i] = IF i = 1 THEN e ELSE cutList[i - 1]
      BY <3>4 DEF PointerType
    <3>6. \A i \in 1..Len(cutList') : cutList'[i].item \in Entries
      BY <3>1, <3>4, <3>5 DEF PointerType
    <3> QED BY <3>1, <3>5, <3>6
  <2> QED BY <2>1, <2>2
<1>4. PointerType'
  BY <1>1, <1>2, <1>3 DEF PointerType, Entries, list
<1> QED BY <1>1, <1>4, ListKept DEF ListOrder

(* The writers and the thread that reads the card.                         *)
LEMMA AddKeeps ==
    ASSUME ListInv, NEW f \in File, FinishFile(f) \/ Scan(f) \/ Add(f)
    PROVE  ListInv'
<1>1. UNCHANGED <<Pointers, crossed>>
  BY DEF FinishFile, Scan, Add, AddCheck, AddPush, TrimLook, TrimRemove,
         requesters, cutter, replay, Pointers
<1>2. CASE FinishFile(f)
  BY <1>1, <1>2, AdderKept DEF FinishFile
<1>3. CASE Scan(f)
  BY <1>1, <1>3, PushKeeps DEF Scan, Meets
<1>4. CASE AddCheck(f)
  <2>1. PICK pc \in {"push", "done"} : addPc' = [addPc EXCEPT ![f] = pc]
    BY <1>4 DEF AddCheck
  <2> QED BY <1>1, <1>4, <2>1, AdderKept DEF AddCheck
<1>5. CASE AddPush(f)
  <2>1. CASE card[f] = "there"
    BY <1>1, <1>5, <2>1, PushKeeps DEF AddPush
  <2>2. CASE card[f] # "there"
    BY <1>1, <1>5, <2>2, AdderKept DEF AddPush
  <2> QED BY <2>1, <2>2
<1>6. CASE TrimLook(f)
  <2>1. PICK pc \in {"remove", "done"} : addPc' = [addPc EXCEPT ![f] = pc]
    BY <1>6 DEF TrimLook
  <2> QED BY <1>1, <1>6, <2>1, AdderKept DEF TrimLook
<1>7. CASE TrimRemove(f)
  <2>1. CASE fileList = <<>>
    BY <1>1, <1>7, <2>1, AdderKept DEF TrimRemove
  <2>2. CASE fileList # <<>>
    BY <1>1, <1>7, <2>2, FrontRemoved DEF TrimRemove
  <2> QED BY <2>1, <2>2
<1> QED BY <1>2, <1>3, <1>4, <1>5, <1>6, <1>7 DEF Add

(* The step: one case per action of Next.                                  *)
LEMMA ListStep == ListInv /\ [Next]_vars => ListInv'
<1> SUFFICES ASSUME ListInv, [Next]_vars PROVE ListInv'
  OBVIOUS
<1>1. ASSUME UNCHANGED <<list, adders, Pointers, crossed>> PROVE ListInv'
  <2>1. Entries' = Entries
    BY <1>1 DEF Entries, list
  <2>2. PointerType'
    BY <1>1, <2>1, PointersKept DEF ListInv
  <2> QED BY <1>1, <2>2, ListKept DEF ListInv, ListOrder, Pointers
<1>2. CASE \E f \in File : FinishFile(f) \/ Scan(f) \/ Add(f)
  BY <1>2, AddKeeps
<1>3. CASE \E f \in File : DeleteFile(f)
  BY <1>1, <1>3 DEF DeleteFile, requesters, cutter, replay, Pointers
<1>4. CASE \E r \in Requester : Request(r) \/ \E c \in Clip : ReqList(r, c)
  BY <1>4, RequestKeeps
<1>5. CASE Cut
  BY <1>5, CutKeeps
<1>6. CASE Replay \/ SeekSet \/ (\E tm \in Time : Seek(tm))
  BY <1>6, ReplayKeeps
<1>7. CASE Misuse
  BY <1>1, <1>7 DEF Misuse, requesters, cutter, replay, Pointers
<1>8. CASE UNCHANGED vars
  BY <1>1, <1>8 DEF vars, requesters, cutter, replay, Pointers
<1> QED BY <1>2, <1>3, <1>4, <1>5, <1>6, <1>7, <1>8 DEF Next

(* ListInv holds in every state: by its base and its step.                 *)
THEOREM ListInvHolds == Safety => []ListInv
<1> QED BY ListInit, ListStep, PTL DEF Safety

(* Types of the list and of what points into it; and as long as no cut     *)
(* went on to another file, the list names files in order, holds no freed  *)
(* entry, and has a file twice only if the thread that reads the card met  *)
(* one recorded after the start: for any number of files, clips, requests  *)
(* and seeks.                                                              *)
THEOREM ListCorrect == Safety => []DirInv
<1>1. ListInv => DirInv
  <2> SUFFICES ASSUME ListInv PROVE DirInv
    OBVIOUS
  <2> USE DEF ListInv
  <2>1. \A i \in 1..Len(item) : item[i] \in File
    BY ElementOfSeq DEF ListType
  <2>2. Listed \cup freed \subseteq 1..Len(item)
    BY DEF ListType, Listed, Entries
  <2>3. cut.item \in 0..Len(item) /\ stream.item \in 0..Len(item)
    <3>1. Len(item) \in Nat
      BY LenProperties DEF ListType
    <3> QED BY <3>1 DEF PointerType, Entries, NoItem
  <2>4. cut.left \in Nat /\ \A i \in 1..Len(cutList) : cutList[i].item \in 1..Len(item)
    BY DEF PointerType, Entries
  <2>5. ~crossed =>
          /\ \A i, j \in Places : i < j => Named(i) <= Named(j)
          /\ Listed \cap freed = {}
          /\ \A i, j \in Places : i # j /\ Named(i) = Named(j) => Named(i) \in scanned \ 1..OnCard
    BY DEF ListOrder, Sorted, Doubled, Listed
  <2> QED BY <2>1, <2>2, <2>3, <2>4, <2>5 DEF DirInv
<1> QED BY <1>1, ListInvHolds, PTL

-----------------------------------------------------------------------------
(* Requests and the clip being written.                                    *)

Writing == cutPc \in {"video", "turn", "audio"}

(* A requester past the check of the list has a clip that is not in it,    *)
(* and that no other such requester has, unless two asked for it at once.  *)
ReqInv ==
    /\ reqPc \in [Requester -> {"idle", "file", "remove", "look"}]
    /\ \A r \in Requester : reqPc[r] # "idle" => ~InCutList(reqClip[r]) \/ reqClip[r] \in rivals
    /\ \A r, s \in Requester :
          r # s /\ reqPc[r] # "idle" /\ reqPc[s] # "idle" /\ reqClip[r] = reqClip[s] =>
              reqClip[r] \in rivals
    /\ clipFile \in [Clip -> {"none", "writing", "made"}]
    /\ \A c \in Clip : clipFile[c] = "writing" => Writing /\ cut.req.clip = c
    /\ Writing => /\ InCutList(cut.req.clip)
                  /\ clipFile[cut.req.clip] = "writing" \/ cut.req.clip \in rivals

(* The base: nothing is asked for, and no clip is there.                   *)
LEMMA ReqInit == Init => ReqInv
<1> SUFFICES ASSUME Init PROVE ReqInv
  OBVIOUS
<1>1. cutPc = "idle" /\ \A c \in Clip : clipFile[c] = "none"
  BY DEF Init
<1> QED BY <1>1 DEF Init, ReqInv, Writing

(* A step of the cut thread that goes on writing the same clip.            *)
LEMMA WritesOn ==
    ASSUME ReqInv, UNCHANGED <<reqPc, reqClip, rivals, clipFile, cutList>>,
           cut'.req = cut.req, Writing, Writing'
    PROVE  ReqInv'
BY DEF ReqInv, InCutList

(* The cut thread starts, goes on with and finishes one clip.              *)
LEMMA CutWrites ==
    ASSUME ListInv, ReqInv, Cut
    PROVE  ReqInv'
<1>1. PointerType
  BY DEF ListInv
<1>2. CASE CutBegin
  <2> DEFINE e == cutList[1]
  <2>1. /\ cutPc = "idle" /\ cutPc' = "video" /\ cut' = BeginAt(e)
        /\ clipFile' = [clipFile EXCEPT ![e.clip] = "writing"]
        /\ UNCHANGED <<reqPc, reqClip, rivals, cutList>> /\ cutList # <<>>
    BY <1>2 DEF CutBegin, requesters
  <2>2. 1 \in 1..Len(cutList)
    BY <1>1, <2>1, EmptySeq, LenProperties DEF PointerType
  <2>3. e \in [clip : Clip, item : Nat]
    BY <1>1, <2>2, ElementOfSeq DEF PointerType
  <2>4. cut'.req = e
    <3> HIDE DEF e
    <3>1. DOMAIN NoCut = CutFields
      BY DEF NoCut, CutFields
    <3> QED BY <2>1, <3>1 DEF BeginAt, CutFields
  <2>5. InCutList(cut.req.clip)'
    BY <2>1, <2>2, <2>4 DEF InCutList
  <2> HIDE DEF e
  <2>6. /\ \A c \in Clip : clipFile'[c] = "writing" => Writing' /\ cut'.req.clip = c
        /\ clipFile'[cut'.req.clip] = "writing"
    BY <2>1, <2>3, <2>4 DEF ReqInv, Writing
  <2>7. \A r \in Requester : reqPc'[r] # "idle" => ~InCutList(reqClip[r])' \/ reqClip'[r] \in rivals'
    BY <2>1 DEF ReqInv, InCutList
  <2> QED BY <2>1, <2>3, <2>5, <2>6, <2>7 DEF ReqInv
<1>3. CASE CutNextFile
  BY <1>1, <1>3, WritesOn DEF CutNextFile, Continue, Cutting, Writing, PointerType, CutFields, requesters
<1>4. CASE CutFrame
  BY <1>1, <1>4, WritesOn DEF CutFrame, Cutting, Writing, PointerType, CutFields, requesters
<1>5. CASE CutToAudio
  BY <1>1, <1>5, WritesOn DEF CutToAudio, Writing, PointerType, CutFields, requesters
<1>6. CASE CutAudioBegin
  <2>1. cut'.req = cut.req
    BY <1>1, <1>6 DEF CutAudioBegin, Continue, PointerType, CutFields
  <2> QED BY <1>6, <2>1, WritesOn DEF CutAudioBegin, Writing, requesters
<1>7. CASE CutEnd
  <2>1. /\ UNCHANGED <<reqPc, reqClip, rivals, cutList>> /\ cutPc' = "report" /\ Writing
        /\ clipFile' = [clipFile EXCEPT ![cut.req.clip] = IF @ = "writing" THEN "made" ELSE @]
    BY <1>7 DEF CutEnd, requesters, Writing
  <2>2. \A c \in Clip : clipFile'[c] # "writing"
    BY <2>1 DEF ReqInv
  <2> QED BY <2>1, <2>2 DEF ReqInv, InCutList, Writing
<1>8. CASE CutRemove
  <2>1. /\ UNCHANGED <<reqPc, reqClip, rivals, clipFile>> /\ cutList' = Tail(cutList)
        /\ ~Writing /\ ~Writing' /\ cutList # <<>>
    BY <1>1, <1>8 DEF CutRemove, requesters, Writing, PointerType
  <2>2. \A c \in Clip : InCutList(c)' => InCutList(c)
    <3> SUFFICES ASSUME NEW c \in Clip, NEW i \in 1..Len(cutList'), cutList'[i].clip = c
                 PROVE  InCutList(c)
      BY DEF InCutList
    <3>1. i + 1 \in 1..Len(cutList) /\ cutList'[i] = cutList[i + 1]
      BY <1>1, <2>1, HeadTailProperties, LenProperties DEF PointerType
    <3> QED BY <3>1 DEF InCutList
  <2> QED BY <1>1, <2>1, <2>2 DEF ReqInv, PointerType
<1> QED BY <1>2, <1>3, <1>4, <1>5, <1>6, <1>7, <1>8 DEF Cut

(* push_front.                                                             *)
LEMMA PushedRequest ==
    ASSUME PointerType, NEW r \in Requester, ReqPush(r), cutList' # cutList
    PROVE  /\ Len(cutList') = 1 + Len(cutList) /\ Len(cutList) \in Nat
           /\ cutList'[1].clip = reqClip[r]
           /\ \A i \in 1..Len(cutList) : i + 1 \in 1..Len(cutList') /\ cutList'[i + 1] = cutList[i]
           /\ \A i \in 1..Len(cutList') :
                i # 1 => i - 1 \in 1..Len(cutList) /\ cutList'[i] = cutList[i - 1]
<1> DEFINE e == [clip |-> reqClip[r], item |-> fileList[First({FileAt(reqClip[r].tm)})]]
<1>1. cutList' = <<e>> \o cutList /\ e.clip = reqClip[r]
  BY DEF ReqPush
<1>2. Len(cutList) \in Nat
  BY LenProperties DEF PointerType
<1> HIDE DEF e
<1> QED BY <1>1, <1>2 DEF PointerType

(* A requester removes no file of a clip in the list, unless another asked *)
(* for the clip at the same time.                                          *)
LEMMA RequestWrites ==
    ASSUME ListInv, ReqInv, NEW r \in Requester,
           Request(r) \/ \E c \in Clip : ReqList(r, c)
    PROVE  ReqInv'
<1>1. PointerType /\ UNCHANGED <<cutPc, cut>>
  BY DEF ListInv, Request, ReqFile, ReqRemove, ReqPush, ReqList, cutter
<1>2. CASE \E c \in Clip : ReqList(r, c)
  <2> PICK c \in Clip : ReqList(r, c)
    BY <1>2
  <2>1. UNCHANGED <<cutList, clipFile>> /\ reqPc[r] = "idle"
    BY DEF ReqList
  <2>2. CASE InCutList(c)
    BY <1>1, <2>1, <2>2 DEF ReqList, ReqInv, InCutList, Writing, requesters
  <2>3. CASE ~InCutList(c)
    <3>1. /\ reqPc' = [reqPc EXCEPT ![r] = "file"] /\ reqClip' = [reqClip EXCEPT ![r] = c]
          /\ rivals \subseteq rivals'
          /\ \A q \in Requester : reqPc[q] # "idle" /\ reqClip[q] = c => c \in rivals'
      BY <2>3 DEF ReqList, Asking
    <3>2. \A s \in Requester : reqPc'[s] # "idle" => ~InCutList(reqClip'[s]) \/ reqClip'[s] \in rivals'
      BY <1>1, <2>1, <2>3, <3>1 DEF ReqInv, PointerType
    <3>3. \A p, q \in Requester :
             p # q /\ reqPc'[p] # "idle" /\ reqPc'[q] # "idle" /\ reqClip'[p] = reqClip'[q] =>
                 reqClip'[p] \in rivals'
      BY <1>1, <3>1 DEF ReqInv, PointerType
    <3>4. reqPc' \in [Requester -> {"idle", "file", "remove", "look"}]
      BY <3>1 DEF ReqInv
    <3> QED BY <1>1, <2>1, <3>1, <3>2, <3>3, <3>4 DEF ReqInv, InCutList, Writing
  <2> QED BY <2>2, <2>3
<1>3. CASE ReqFile(r)
  <2>1. UNCHANGED <<cutList, clipFile, rivals>> /\ reqPc[r] = "file"
    BY <1>3 DEF ReqFile
  <2>2. PICK next \in {"idle", "look", "remove"} :
            /\ reqPc' = [reqPc EXCEPT ![r] = next]
            /\ \A s \in Requester : reqPc'[s] # "idle" => reqPc[s] # "idle" /\ reqClip'[s] = reqClip[s]
    <3>1. clipFile[reqClip[r]] \in {"none", "writing", "made"}
      BY <1>1 DEF ReqInv, PointerType
    <3>2. CASE clipFile[reqClip[r]] = "made"
      BY <1>1, <1>3, <3>2 DEF ReqFile, ReqInv, PointerType
    <3>3. CASE clipFile[reqClip[r]] = "writing"
      BY <1>1, <1>3, <3>3 DEF ReqFile, ReqInv, PointerType
    <3>4. CASE clipFile[reqClip[r]] = "none"
      BY <1>1, <1>3, <3>4 DEF ReqFile, ReqInv, PointerType
    <3> QED BY <3>1, <3>2, <3>3, <3>4
  <2>3. reqPc' \in [Requester -> {"idle", "file", "remove", "look"}]
    BY <2>2 DEF ReqInv
  <2>4. \A s \in Requester : reqPc'[s] # "idle" => ~InCutList(reqClip'[s]) \/ reqClip'[s] \in rivals
    BY <2>2 DEF ReqInv
  <2>5. \A p, q \in Requester :
           p # q /\ reqPc'[p] # "idle" /\ reqPc'[q] # "idle" /\ reqClip'[p] = reqClip'[q] =>
               reqClip'[p] \in rivals
    BY <2>2 DEF ReqInv
  <2> QED BY <1>1, <2>1, <2>3, <2>4, <2>5 DEF ReqInv, InCutList, Writing
<1>4. CASE ReqRemove(r)
  <2>1. /\ UNCHANGED <<cutList, reqClip, rivals>> /\ reqPc[r] = "remove"
        /\ reqPc' = [reqPc EXCEPT ![r] = "look"]
        /\ clipFile' = [clipFile EXCEPT ![reqClip[r]] = "none"]
    BY <1>4 DEF ReqRemove
  <2>2. reqClip[r] \in Clip
    BY <1>1 DEF PointerType
  <2>3. Writing /\ cut.req.clip = reqClip[r] => cut.req.clip \in rivals
    BY <2>1 DEF ReqInv
  <2>4. /\ clipFile' \in [Clip -> {"none", "writing", "made"}]
        /\ \A c \in Clip : clipFile'[c] = "writing" => Writing /\ cut.req.clip = c
        /\ Writing => clipFile'[cut.req.clip] = "writing" \/ cut.req.clip \in rivals
    BY <1>1, <2>1, <2>2, <2>3 DEF ReqInv, PointerType
  <2>5. /\ reqPc' \in [Requester -> {"idle", "file", "remove", "look"}]
        /\ \A s \in Requester : reqPc'[s] # "idle" => reqPc[s] # "idle"
    BY <2>1 DEF ReqInv
  <2> QED BY <1>1, <2>1, <2>4, <2>5 DEF ReqInv, InCutList, Writing
<1>5. CASE ReqPush(r)
  <2>1. /\ UNCHANGED <<clipFile, rivals>> /\ reqPc[r] = "look" /\ reqPc' = [reqPc EXCEPT ![r] = "idle"]
        /\ reqClip' = [reqClip EXCEPT ![r] = AnyClip]
    BY <1>5 DEF ReqPush
  <2>2. \A c \in Clip : InCutList(c) => InCutList(c)'
    <3> SUFFICES ASSUME NEW c \in Clip, NEW i \in 1..Len(cutList), cutList[i].clip = c
                 PROVE  InCutList(c)'
      BY DEF InCutList
    <3>1. \E j \in 1..Len(cutList') : cutList'[j] = cutList[i]
      <4>1. CASE cutList' = cutList
        BY <4>1
      <4>2. CASE cutList' # cutList
        <5>1. i + 1 \in 1..Len(cutList') /\ cutList'[i + 1] = cutList[i]
          BY <1>1, <1>5, <4>2, PushedRequest
        <5> QED BY <5>1
      <4> QED BY <4>1, <4>2
    <3> QED BY <3>1 DEF InCutList
  <2>3. \A c \in Clip : InCutList(c)' => InCutList(c) \/ c = reqClip[r]
    <3> SUFFICES ASSUME NEW c \in Clip, NEW i \in 1..Len(cutList'), cutList'[i].clip = c
                 PROVE  InCutList(c) \/ c = reqClip[r]
      BY DEF InCutList
    <3>1. CASE cutList' = cutList
      BY <3>1 DEF InCutList
    <3>2. CASE cutList' # cutList
      BY <1>1, <1>5, <3>2, PushedRequest DEF InCutList
    <3> QED BY <3>1, <3>2
  <2>4. ASSUME NEW s \in Requester, reqPc'[s] # "idle"
        PROVE  ~InCutList(reqClip[s])' \/ reqClip[s] \in rivals
    <3>1. s # r /\ reqPc[s] # "idle" /\ reqClip'[s] = reqClip[s]
      BY <1>1, <2>1, <2>4 DEF ReqInv, PointerType
    <3>2. CASE reqClip[s] = reqClip[r]
      BY <2>1, <3>1, <3>2 DEF ReqInv
    <3>3. CASE reqClip[s] # reqClip[r] /\ ~InCutList(reqClip[s])
      <4>1. \A c \in Clip : InCutList(c)' = \E i \in 1..Len(cutList') : cutList'[i].clip = c
        BY DEF InCutList
      <4>2. reqClip[s] \in Clip
        BY <1>1 DEF PointerType
      <4>3. ~InCutList(reqClip[s])'
        BY <2>3, <3>1, <3>3, <4>1, <4>2 DEF InCutList
      <4> QED BY <4>3
    <3> QED BY <3>1, <3>2, <3>3 DEF ReqInv
  <2>5. Writing => InCutList(cut.req.clip)'
    BY <1>1, <2>2 DEF ReqInv, PointerType, Writing, InCutList
  <2>6. /\ reqPc' \in [Requester -> {"idle", "file", "remove", "look"}]
        /\ \A s \in Requester : reqPc'[s] # "idle" => reqPc[s] # "idle" /\ reqClip'[s] = reqClip[s]
    BY <1>1, <2>1 DEF ReqInv, PointerType
  <2>7. \A s \in Requester : reqPc'[s] # "idle" => ~InCutList(reqClip[s])' \/ reqClip'[s] \in rivals
    BY <2>4, <2>6
  <2>8. \A p, q \in Requester :
           p # q /\ reqPc'[p] # "idle" /\ reqPc'[q] # "idle" /\ reqClip'[p] = reqClip'[q] =>
               reqClip'[p] \in rivals
    BY <2>6 DEF ReqInv
  <2> QED BY <1>1, <2>1, <2>5, <2>6, <2>7, <2>8 DEF ReqInv, Writing
<1> QED BY <1>2, <1>3, <1>4, <1>5 DEF Request

(* The step: the others leave requests and clips alone.                    *)
LEMMA ReqStep == ListInv /\ ReqInv /\ [Next]_vars => ReqInv'
<1> SUFFICES ASSUME ListInv, ReqInv, [Next]_vars PROVE ReqInv'
  OBVIOUS
<1>1. ASSUME UNCHANGED <<reqPc, reqClip, rivals, clipFile, cutList, cutPc, cut>> PROVE ReqInv'
  BY <1>1 DEF ReqInv, InCutList, Writing
<1>2. CASE \E f \in File : FinishFile(f) \/ DeleteFile(f) \/ Scan(f) \/ Add(f)
  BY <1>1, <1>2 DEF FinishFile, DeleteFile, Scan, Add, AddCheck, AddPush, TrimLook, TrimRemove,
                    requesters, cutter
<1>3. CASE \E r \in Requester : Request(r) \/ \E c \in Clip : ReqList(r, c)
  BY <1>3, RequestWrites
<1>4. CASE Cut
  BY <1>4, CutWrites
<1>5. CASE Replay \/ SeekSet \/ (\E tm \in Time : Seek(tm))
  BY <1>1, <1>5 DEF Replay, RecCheck, RecNext, RecOpen, RecRead, RecAdvance, SeekSet, Seek,
                    requesters, cutter
<1>6. CASE Misuse
  BY <1>1, <1>6 DEF Misuse, requesters, cutter
<1>7. CASE UNCHANGED vars
  BY <1>1, <1>7 DEF vars, requesters, cutter
<1> QED BY <1>2, <1>3, <1>4, <1>5, <1>6, <1>7 DEF Next

(* However many threads ask for clips, and for the same one: while a clip  *)
(* is cut its request is in the list, and its file is removed only if two  *)
(* requesters were between the checks of cdr_read_mp4_ex for it at once.   *)
THEOREM UnfinishedClipKept == Safety => []UnfinishedClipStays
<1>1. ListInv /\ ReqInv => UnfinishedClipStays
  BY DEF ReqInv, UnfinishedClipStays, Writing
<1>2. ListInv /\ ReqInv /\ [Next]_vars => ReqInv'
  BY ReqStep
<1> QED BY <1>1, <1>2, ReqInit, ListInvHolds, PTL DEF Safety

-----------------------------------------------------------------------------
(* The order of the frames a cut writes and replay reads.                  *)

(* A file has frames, and its key frames, the first frame among them, are  *)
(* frames.                                                                 *)
LEMMA FrameFacts ==
    /\ VideoFrames \in Nat \ {0}
    /\ \A f \in File : KeyFrames[f] \subseteq 1..VideoFrames /\ 1 \in KeyFrames[f]
<1>1. \A a, b \in Nat \ {0} : a * b \in Nat \ {0}
  OBVIOUS
<1>2. VideoFrames \in Nat \ {0}
  BY <1>1, DirectoryAssumption DEF VideoFrames
<1> QED BY <1>2, DirectoryAssumption DEF VideoFrames, File

(* In a list in order, get_next gives the entry of the next file, and the  *)
(* entry of the oldest behind the newest.                                  *)
LEMMA NextIsListed ==
    ASSUME ListType, InOrder, NEW f, NextOf(f) # NoItem
    PROVE  item[NextOf(f)] = NextListed(f)
<1> DEFINE p == First({f})
           n == Len(fileList)
           q == IF p = n THEN 1 ELSE p + 1
           S == {item[e] : e \in Listed}
           T == {g \in S : g > f}
           U == IF T = {} THEN S ELSE T
<1>1. p \in 1..n /\ Named(p) = f /\ n \in Nat /\ Places = 1..n
  BY FirstIs, LenProperties DEF ListType, NextOf, Places
<1>2. q \in Places /\ NextOf(f) = fileList[q] /\ item[NextOf(f)] = Named(q)
  BY <1>1 DEF NextOf, Named
<1>3. \A i \in Places : Named(i) \in S /\ Named(i) \in Nat
  <2> SUFFICES ASSUME NEW i \in Places PROVE Named(i) \in S /\ Named(i) \in Nat
    OBVIOUS
  <2>1. fileList[i] \in Entries /\ fileList[i] \in Listed
    BY DEF ListType, Listed
  <2>2. item[fileList[i]] \in File
    BY <2>1, ElementOfSeq DEF ListType, Entries
  <2> QED BY <2>1, <2>2, FileFacts DEF Named
<1>4. \A x \in S : \E i \in Places : x = Named(i)
  BY DEF Listed, Named
<1>5. \A i, j \in Places : i < j => Named(i) < Named(j)
  BY DEF InOrder
<1>6. Named(q) \in U /\ U \subseteq Nat /\ \A h \in U : Named(q) <= h
  <2>1. CASE p = n
    <3>1. T = {}
      <4> SUFFICES ASSUME NEW i \in Places PROVE ~(Named(i) > f)
        BY <1>4
      <4> QED BY <1>1, <1>3, <1>5, <2>1
    <3>2. \A i \in Places : Named(1) <= Named(i)
      BY <1>1, <1>3, <1>5
    <3> QED BY <1>2, <1>3, <1>4, <2>1, <3>1, <3>2
  <2>2. CASE p # n
    <3>1. q = p + 1 /\ Named(q) > f /\ Named(q) \in T
      <4>1. q = p + 1 /\ p \in Places /\ p < q
        BY <1>1, <2>2
      <4>2. Named(p) < Named(q) /\ Named(q) \in S /\ Named(q) \in Nat /\ Named(p) \in Nat
        BY <1>2, <1>3, <1>5, <4>1
      <4>3. Named(q) > f
        BY <1>1, <4>2
      <4> QED BY <4>1, <4>2, <4>3
    <3>2. ASSUME NEW i \in Places, Named(i) > f PROVE Named(q) <= Named(i)
      <4>1. i > p
        BY <1>1, <1>3, <1>5, <3>2
      <4>2. i = q \/ q < i
        BY <1>1, <3>1, <4>1
      <4> QED BY <1>2, <1>3, <1>5, <4>2
    <3> QED BY <1>3, <1>4, <3>1, <3>2
  <2> QED BY <2>1, <2>2
<1>7. NextListed(f) = CHOOSE g \in U : \A h \in U : g <= h
  BY DEF NextListed
<1> HIDE DEF U, q
<1>8. \A x, y \in U : (\A h \in U : x <= h) /\ (\A h \in U : y <= h) => x = y
  BY <1>6
<1> QED BY <1>2, <1>6, <1>7, <1>8

(* Where the cut stands while it writes video: before its first frame at a *)
(* key frame or a file's end, then behind the frame it wrote last, in the  *)
(* same file or at the start of the one it went on to.                     *)
ClipPlace ==
    cutPc = "video" =>
        /\ CurFile \in File
        /\ cut.idx \in Nat
        /\ cut.last = NoFrame => cut.idx \in KeyFrames[CurFile] \cup {VideoFrames + 1}
        /\ cut.last # NoFrame =>
             /\ cut.last[2] \in 1..VideoFrames
             /\ cut.last = <<CurFile, cut.idx - 1>> \/ (cut.last[2] = VideoFrames /\ cut.idx = 1)

(* Where replay stands since it showed a frame: about to count it, or      *)
(* behind it in the same file, or at the start of the next.                *)
ReplayPlace ==
    shown # NoFrame =>
        /\ stream.idx \in Nat
        /\ shown[1] # NoFile /\ shown[2] \in 1..VideoFrames
        /\ recPc = "advance" => shown = <<stream.open, stream.idx>>
        /\ recPc # "advance" =>
             shown = <<stream.open, stream.idx - 1>> \/ (shown[2] = VideoFrames /\ stream.idx = 1)
        /\ recPc = "next" => shown[2] = VideoFrames

(* Entries that others point to keep their files, but for CutToAudio.      *)
LEMMA FilesKept ==
    ASSUME ListInv, Next, ~CutToAudio, NEW e \in Entries
    PROVE  item'[e] = item[e]
<1>1. ASSUME NEW f \in File, PushIf(f) PROVE item'[e] = item[e]
  BY <1>1, Pushed DEF ListInv
<1>2. ASSUME NEW f \in File, Scan(f) \/ Add(f) PROVE item'[e] = item[e]
  BY <1>1, <1>2 DEF Scan, Add, AddCheck, AddPush, TrimLook, TrimRemove, list
<1>3. ASSUME NEW f \in File, FinishFile(f) \/ DeleteFile(f) PROVE item'[e] = item[e]
  BY <1>3 DEF FinishFile, DeleteFile, list
<1>4. ASSUME NEW r \in Requester, Request(r) \/ \E c \in Clip : ReqList(r, c) PROVE item'[e] = item[e]
  BY <1>4 DEF Request, ReqFile, ReqRemove, ReqPush, ReqList, list
<1>5. ASSUME Cut PROVE item'[e] = item[e]
  BY <1>5 DEF Cut, CutBegin, CutNextFile, CutFrame, CutAudioBegin, CutEnd, CutRemove, list
<1>6. ASSUME Replay \/ SeekSet \/ (\E tm \in Time : Seek(tm)) PROVE item'[e] = item[e]
  BY <1>6 DEF Replay, RecCheck, RecNext, RecOpen, RecRead, RecAdvance, SeekSet, Seek, list
<1>7. ASSUME Misuse PROVE item'[e] = item[e]
  BY <1>7 DEF Misuse, list
<1> QED BY <1>2, <1>3, <1>4, <1>5, <1>6, <1>7 DEF Next

(* Only the cut thread changes where it stands, only replay and whoever    *)
(* seeks where replay stands.                                              *)
LEMMA OthersRest ==
    ASSUME Next
    PROVE  /\ Cut \/ (cut' = cut /\ cutPc' = cutPc)
           /\ Replay \/ SeekSet \/ (stream' = stream /\ recPc' = recPc /\ shown' = shown)
<1>1. ASSUME NEW f \in File, Scan(f) \/ Add(f) \/ FinishFile(f) \/ DeleteFile(f)
      PROVE  UNCHANGED cutter /\ UNCHANGED replay
  BY <1>1 DEF Scan, Add, AddCheck, AddPush, TrimLook, TrimRemove, FinishFile, DeleteFile
<1>2. ASSUME NEW r \in Requester, Request(r) \/ \E c \in Clip : ReqList(r, c)
      PROVE  UNCHANGED cutter /\ UNCHANGED replay
  BY <1>2 DEF Request, ReqFile, ReqRemove, ReqPush, ReqList, requesters
<1>3. ASSUME Misuse PROVE UNCHANGED cutter /\ UNCHANGED replay
  BY <1>3 DEF Misuse
<1>4. ASSUME NEW tm \in Time, Seek(tm)
      PROVE  UNCHANGED cutter /\ stream' = stream /\ recPc' = recPc /\ shown' = shown
  BY <1>4 DEF Seek
<1>5. ASSUME Replay \/ SeekSet PROVE UNCHANGED cutter
  BY <1>5 DEF Replay, RecCheck, RecNext, RecOpen, RecRead, RecAdvance, SeekSet
<1>6. ASSUME Cut PROVE UNCHANGED replay
  BY <1>6 DEF Cut, CutBegin, CutNextFile, CutFrame, CutToAudio, CutAudioBegin, CutEnd, CutRemove
<1> QED BY <1>1, <1>2, <1>3, <1>4, <1>5, <1>6 DEF Next, cutter, replay

LEMMA ClipPlaceStep == ListInv /\ ClipPlace /\ [Next]_vars => ClipPlace'
<1> SUFFICES ASSUME ListInv, ClipPlace, [Next]_vars, cutPc' = "video" PROVE ClipPlace'
  BY DEF ClipPlace
<1> USE DEF ListInv
<1>1. DOMAIN cut = CutFields /\ cut.item \in Entries \cup {NoItem}
  BY DEF PointerType
<1>2. \A e \in Entries : item[e] \in File
  BY ElementOfSeq DEF ListType, Entries
<1>3. CASE UNCHANGED <<cutPc, cut>> /\ Next
  <2>1. ~CutToAudio
    BY <1>3 DEF CutToAudio
  <2>2. CurFile' = CurFile
    BY <1>1, <1>3, <2>1, FilesKept DEF CurFile
  <2> QED BY <1>3, <2>2 DEF ClipPlace
<1>4. CASE UNCHANGED vars
  BY <1>4 DEF vars, cutter, list, ClipPlace, CurFile
<1>5. CASE CutBegin
  <2> DEFINE e == cutList[1]
             f == item[e.item]
             i == SyncAfter(f, (e.clip.tm - Begins(f)) * Rate, card[f] = "there")
  <2>1. f \in File
    <3>1. 1 \in 1..Len(cutList)
      BY <1>5, EmptySeq, LenProperties DEF CutBegin, PointerType
    <3> QED BY <1>2, <3>1 DEF PointerType
  <2>2. i \in KeyFrames[f] \cup {VideoFrames + 1}
    BY DEF SyncAfter
  <2>3. cut'.item = NoItem /\ cut'.file = f /\ cut'.idx = i /\ cut'.last = NoFrame
    BY <1>5, Zenon DEF CutBegin, BeginAt, NoCut
  <2>4. CurFile' = f
    BY <2>3 DEF CurFile
  <2>5. cut'.idx \in Nat
    BY <2>1, <2>2, <2>3, FrameFacts
  <2> QED BY <2>1, <2>2, <2>3, <2>4, <2>5, FrameFacts DEF ClipPlace
<1>6. CASE CutNextFile
  <2>1. /\ cutPc = "video" /\ cut.idx > VideoFrames /\ item' = item
        /\ NextOf(CurFile) # NoItem /\ cut'.item = NextOf(CurFile)
        /\ cut'.idx = 1 /\ cut'.last = cut.last
    BY <1>1, <1>6 DEF CutNextFile, Cutting, PerFile, Continue, SafeNext, CutFields, list
  <2>2. NextOf(CurFile) \in Entries
    BY <2>1, NextIsEntry
  <2>3. CurFile' \in File
    BY <1>2, <2>1, <2>2 DEF CurFile
  <2>4. cut.last # NoFrame => cut.last[2] = VideoFrames
    BY <2>1, FrameFacts DEF ClipPlace
  <2> QED BY <2>1, <2>3, <2>4, FrameFacts DEF ClipPlace
<1>7. CASE CutFrame
  <2>1. /\ cutPc = "video" /\ cut.idx \in 1..VideoFrames /\ item' = item
        /\ cut'.item = cut.item /\ cut'.file = cut.file
        /\ cut'.idx = cut.idx + 1 /\ cut'.last = <<CurFile, cut.idx>>
    BY <1>1, <1>7 DEF CutFrame, Cutting, PerFile, CutFields, list
  <2>2. CurFile' = CurFile /\ CurFile \in File
    BY <2>1 DEF CurFile, ClipPlace
  <2>3. cut'.last # NoFrame /\ cut'.last[2] = cut.idx
    BY <2>1 DEF NoFrame
  <2> QED BY <2>1, <2>2, <2>3 DEF ClipPlace
<1>8. CASE CutToAudio \/ CutAudioBegin \/ CutEnd \/ CutRemove
  BY <1>8 DEF CutToAudio, CutAudioBegin, CutEnd, CutRemove
<1> QED BY <1>3, <1>4, <1>5, <1>6, <1>7, <1>8, OthersRest DEF Cut

(* The video of a clip leaves out no frame and goes on with the file       *)
(* recorded next, whatever the writers, the other requesters and replay do *)
(* to the list meanwhile.                                                  *)
THEOREM ClipsInOrder == Safety => ClipInOrder
<1>1. Init => ClipPlace
  BY DEF Init, ClipPlace
<1>2. ListInv /\ ClipPlace /\ [Next]_vars =>
        [/\ cut'.last \notin {cut.last, NoFrame} =>
              IF cut.last = NoFrame THEN cut'.last[2] \in KeyFrames[cut'.last[1]]
              ELSE Follows(cut.last, cut'.last)
         /\ cutPc = "video" /\ cutPc' = "video" /\ cut'.item # cut.item /\ InOrder =>
              CurFile' = NextListed(CurFile)]_vars
  <2> SUFFICES ASSUME ListInv, ClipPlace, Next
               PROVE  /\ cut'.last \notin {cut.last, NoFrame} =>
                           IF cut.last = NoFrame THEN cut'.last[2] \in KeyFrames[cut'.last[1]]
                           ELSE Follows(cut.last, cut'.last)
                      /\ cutPc = "video" /\ cutPc' = "video" /\ cut'.item # cut.item /\ InOrder =>
                           CurFile' = NextListed(CurFile)
    OBVIOUS
  <2>1. DOMAIN cut = CutFields
    BY DEF ListInv, PointerType
  <2>2. CASE CutFrame
    <3>1. cut'.item = cut.item
      BY <2>1, <2>2 DEF CutFrame, CutFields
    <3>2. CASE cutPc = "video"
      <4>1. cut.idx \in 1..VideoFrames /\ cut'.last = <<CurFile, cut.idx>>
        BY <2>1, <2>2, <3>2 DEF CutFrame, PerFile, CutFields
      <4>2. CASE cut.last = NoFrame
        BY <3>1, <3>2, <4>1, <4>2, FrameFacts DEF ClipPlace
      <4>3. CASE cut.last # NoFrame
        BY <3>1, <3>2, <4>1, <4>3 DEF ClipPlace, Follows
      <4> QED BY <4>2, <4>3
    <3>3. CASE cutPc # "video"
      BY <2>1, <2>2, <3>1, <3>3 DEF CutFrame, CutFields
    <3> QED BY <3>2, <3>3
  <2>3. CASE CutNextFile
    <3>1. /\ item' = item /\ NextOf(CurFile) # NoItem
          /\ cut'.item = NextOf(CurFile) /\ cut'.last = cut.last
      BY <2>1, <2>3 DEF CutNextFile, Continue, SafeNext, CutFields, list
    <3>2. CurFile' = item[NextOf(CurFile)]
      BY <3>1 DEF CurFile
    <3> QED BY <3>1, <3>2, NextIsListed DEF ListInv
  <2>4. CASE CutBegin
    <3>1. cut'.last = NoFrame /\ cutPc # "video"
      BY <2>4 DEF CutBegin, BeginAt, NoCut
    <3> QED BY <3>1
  <2>5. CASE CutToAudio \/ CutAudioBegin \/ CutEnd
    <3>1. cut'.last = cut.last /\ cutPc' # "video"
      BY <2>1, <2>5 DEF CutToAudio, CutAudioBegin, CutEnd, Continue, CutFields
    <3> QED BY <3>1
  <2>6. CASE CutRemove
    BY <2>6 DEF CutRemove, NoCut
  <2>7. CASE cut' = cut
    BY <2>7
  <2> QED BY <2>2, <2>3, <2>4, <2>5, <2>6, <2>7, OthersRest DEF Cut
<1> QED BY <1>1, <1>2, ListInvHolds, ClipPlaceStep, PTL DEF Safety, ClipInOrder

LEMMA ReplayPlaceStep == ListInv /\ ReplayPlace /\ [Next]_vars => ReplayPlace'
<1> SUFFICES ASSUME ListInv, ReplayPlace, [Next]_vars, shown' # NoFrame PROVE ReplayPlace'
  BY DEF ReplayPlace
<1> USE DEF ListInv
<1>1. DOMAIN stream = StreamFields
  BY DEF PointerType
<1>3. CASE UNCHANGED <<stream, recPc, shown>>
  BY <1>3 DEF ReplayPlace
<1>4. CASE RecCheck
  <2>1. /\ shown' = shown /\ recPc = "idle"
        /\ recPc' = IF stream'.idx > VideoFrames THEN "next" ELSE "open"
        /\ stream # NoStream => stream' = stream
    BY <1>4 DEF RecCheck
  <2>2. stream # NoStream
    BY <2>1, FrameFacts DEF ReplayPlace, NoStream
  <2> QED BY <2>1, <2>2, FrameFacts DEF ReplayPlace
<1>5. CASE RecNext
  <2>1. shown' = shown /\ recPc = "next" /\ recPc' = "open" /\ stream'.idx = 1
    BY <1>5 DEF RecNext
  <2> QED BY <2>1 DEF ReplayPlace
<1>6. CASE RecOpen
  <2>1. /\ shown' = shown /\ recPc = "open" /\ recPc' = "read" /\ stream'.idx = stream.idx
        /\ stream.open # NoFile => stream'.open = stream.open
    BY <1>1, <1>6 DEF RecOpen, StreamFields
  <2> QED BY <2>1 DEF ReplayPlace
<1>7. CASE RecRead
  <2> DEFINE found == stream.open # NoFile /\ stream.idx \in 1..VideoFrames
  <2>1. stream' = stream /\ recPc = "read"
    BY <1>7 DEF RecRead
  <2>2. CASE found
    <3>1. shown' = <<stream.open, stream.idx>> /\ recPc' = "advance"
      BY <1>7, <2>2 DEF RecRead
    <3> QED BY <2>1, <2>2, <3>1 DEF ReplayPlace
  <2>3. CASE ~found
    BY <1>7, <2>1, <2>3 DEF RecRead, ReplayPlace
  <2> QED BY <2>2, <2>3
<1>8. CASE RecAdvance
  <2>1. /\ shown' = shown /\ recPc = "advance" /\ recPc' = "idle"
        /\ stream'.idx = stream.idx + 1 /\ stream'.open = stream.open
    BY <1>1, <1>8 DEF RecAdvance, StreamFields
  <2> QED BY <2>1 DEF ReplayPlace
<1>9. CASE SeekSet
  BY <1>9 DEF SeekSet
<1>10. CASE UNCHANGED vars
  BY <1>3, <1>10 DEF vars, replay
<1> QED BY <1>3, <1>4, <1>5, <1>6, <1>7, <1>8, <1>9, <1>10, OthersRest DEF Replay

(* The same for replay, between two seeks.                                 *)
THEOREM ReplaysInOrder == Safety => ReplayInOrder
<1>1. Init => ReplayPlace
  BY DEF Init, ReplayPlace
<1>2. ListInv /\ ReplayPlace /\ [Next]_vars =>
        [/\ shown' \notin {shown, NoFrame} /\ shown # NoFrame => Follows(shown, shown')
         /\ recPc = "next" /\ recPc' = "open" /\ InOrder =>
              item[stream.item]' = NextListed(item[stream.item])]_vars
  <2> SUFFICES ASSUME ListInv, ReplayPlace, Next
               PROVE  /\ shown' \notin {shown, NoFrame} /\ shown # NoFrame => Follows(shown, shown')
                      /\ recPc = "next" /\ recPc' = "open" /\ InOrder =>
                           item'[stream'.item] = NextListed(item[stream.item])
    BY DEF vars, replay, list
  <2>1. CASE RecRead
    <3>1. /\ recPc = "read" /\ shown' \in {shown, <<stream.open, stream.idx>>}
      BY <2>1 DEF RecRead
    <3>2. shown' # shown => stream.idx \in 1..VideoFrames
      BY <2>1 DEF RecRead
    <3> QED BY <3>1, <3>2 DEF ReplayPlace, Follows
  <2>2. CASE RecNext
    <3>1. /\ item' = item /\ shown' = shown /\ NextOf(item[stream.item]) # NoItem
          /\ stream'.item = NextOf(item[stream.item])
      BY <2>2 DEF RecNext, SafeNext, list
    <3> QED BY <3>1, NextIsListed DEF ListInv
  <2>3. CASE RecCheck \/ RecOpen \/ RecAdvance
    BY <2>3 DEF RecCheck, RecOpen, RecAdvance
  <2>4. CASE SeekSet
    BY <2>4 DEF SeekSet
  <2>5. CASE UNCHANGED <<stream, recPc, shown>>
    BY <2>5
  <2> QED BY <2>1, <2>2, <2>3, <2>4, <2>5, OthersRest DEF Replay
<1> QED BY <1>1, <1>2, ListInvHolds, ReplayPlaceStep, PTL DEF Safety, ReplayInOrder
=============================================================================
