------------------------- MODULE ChatLibraryProofs --------------------------
(***************************************************************************)
(* For any number of chats, folders, tags, copies and crashes: ChatLibrary *)
(* keeps its types, the links of chats and their shared copies stay        *)
(* together, copies and tags leave with the chats, and no chat is hidden,  *)
(* with the exceptions that the properties name.                           *)
(*                                                                         *)
(* The argument for the copies: a chat without a link has none, but for    *)
(* the one whose commit its link follows, or after a crash between the two *)
(* commits.  So sharing makes a first copy, and what deletes a chat or its *)
(* link deletes all there is.  For the folders: one on a cycle goes round  *)
(* with its parents, so that no root reaches it, and what a deletion that  *)
(* fails there takes away lies beside the cycle.                           *)
(***************************************************************************)
EXTENDS ChatLibrary, FiniteSetTheorems, TLAPS

\* A chat that does not exist is not shared, and one that never did has no copy.
OnlyLiveShared ==
  /\ \A c \in Chat : state[c] # "live" => share[c] = None
  /\ \A k \in Copy : copy[k].of # None => state[copy[k].of] # "new"

\* Between the two commits the copy is there and the link is not.
SharingUnderWay ==
  sharing # Nothing =>
    /\ sharing.chat \in Live /\ share[sharing.chat] = None
    /\ sharing.copy \in CopiesOf(sharing.chat)

\* A chat without a link has no copy but the one that is being shared.
UnlinkedUncopied ==
  crashes = 0 =>
    \A c \in Live : share[c] = None =>
      \A k \in CopiesOf(c) : sharing = [chat |-> c, copy |-> k]

SharingInv ==
  OnlyLiveShared /\ SharingUnderWay /\ UnlinkedUncopied /\ ShareLinkValid /\ OneCopy

IInv == TypeOK /\ SharingInv

-----------------------------------------------------------------------------
(* Initial states                                                          *)

LEMMA InitIInv == Init => IInv
<1> SUFFICES ASSUME Init PROVE IInv
  OBVIOUS
<1> USE LibraryAssumption DEF Init
<1>1. TypeOK
  BY DEF TypeOK, NoCopy, Nothing
<1>2. SharingInv
  BY DEF SharingInv, OnlyLiveShared, SharingUnderWay, UnlinkedUncopied, ShareLinkValid,
         OneCopy, Live, NoCopy
<1> QED BY <1>1, <1>2 DEF IInv

-----------------------------------------------------------------------------
(* Requests that leave links and copies alone                              *)

\* What the invariant speaks of.
LEMMA SharingFrame ==
  ASSUME SharingInv, UNCHANGED <<state, share, copy, sharing, crashes>>
  PROVE  SharingInv'
BY DEF SharingInv, OnlyLiveShared, SharingUnderWay, UnlinkedUncopied, ShareLinkValid,
       OneCopy, Live, CopiesOf

LEMMA TagsKeep ==
  ASSUME IInv,
         \/ \E c \in Chat, t \in Tag : AddTag(c, t) \/ RemoveTag(c, t)
         \/ \E c \in Chat, some \in SUBSET Tag : UpdateTags(c, some)
         \/ \E c \in Chat : RemoveAllTags(c)
         \/ \E t \in Tag : LookUpTag(t)
  PROVE  IInv'
<1> USE DEF AddTag, RemoveTag, RemoveAllTags, UpdateTags, LookUpTag, chatVars, shareVars, folderVars
<1>1. SharingInv'
  BY SharingFrame DEF IInv
<1>2. tags' \in [Chat -> SUBSET Tag]
  <2>1. ASSUME NEW c \in Chat, NEW t \in Tag, AddTag(c, t) \/ RemoveTag(c, t)
        PROVE  tags' \in [Chat -> SUBSET Tag]
    BY <2>1 DEF IInv, TypeOK
  <2>2. ASSUME NEW c \in Chat, NEW some \in SUBSET Tag, UpdateTags(c, some) \/ RemoveAllTags(c)
        PROVE  tags' \in [Chat -> SUBSET Tag]
    BY <2>2 DEF IInv, TypeOK
  <2>3. ASSUME NEW t \in Tag, LookUpTag(t)
        PROVE  tags' \in [Chat -> SUBSET Tag]
    BY <2>3 DEF IInv, TypeOK
  <2> HIDE DEF AddTag, RemoveTag, RemoveAllTags, UpdateTags, LookUpTag
  <2> QED BY <2>1, <2>2, <2>3
<1>3. rows' \in SUBSET Tag
  BY DEF IInv, TypeOK, Orphans
<1> QED BY <1>1, <1>2, <1>3 DEF IInv, TypeOK

LEMMA PlacesKeep ==
  ASSUME IInv,
         \/ \E c \in Chat, dir \in Folder \cup {None} : MoveChat(c, dir)
         \/ \E c \in Chat : ToggleArchive(c)
         \/ \E value \in BOOLEAN : ArchiveAll(value)
  PROVE  IInv'
<1> USE DEF MoveChat, ToggleArchive, ArchiveAll, chatVars, shareVars, folderVars
<1>1. SharingInv'
  BY SharingFrame DEF IInv
<1>2. folder' \in [Chat -> Folder \cup {None}]
  BY DEF IInv, TypeOK
<1>3. archived' \in [Chat -> BOOLEAN]
  <2>1. ASSUME NEW c \in Chat, ToggleArchive(c) PROVE archived' \in [Chat -> BOOLEAN]
    BY <2>1 DEF IInv, TypeOK
  <2>2. ASSUME NEW value \in BOOLEAN, ArchiveAll(value) PROVE archived' \in [Chat -> BOOLEAN]
    BY <2>2 DEF IInv, TypeOK
  <2>3. ASSUME UNCHANGED archived PROVE archived' \in [Chat -> BOOLEAN]
    BY <2>3 DEF IInv, TypeOK
  <2> QED BY <2>1, <2>2, <2>3
<1>4. rows' \in SUBSET Tag
  BY DEF IInv, TypeOK, Orphans, Live
<1> QED BY <1>1, <1>2, <1>3, <1>4 DEF IInv, TypeOK

LEMMA FoldersKeep ==
  ASSUME IInv,
         \/ \E f \in Folder, dir \in Folder \cup {None} : CreateFolder(f, dir) \/ MoveFolder(f, dir)
         \/ ListFolders
  PROVE  IInv'
<1> USE DEF CreateFolder, MoveFolder, ListFolders, chatVars, shareVars, folderVars
<1>1. SharingInv'
  BY SharingFrame DEF IInv
<1>2. exists' \in [Folder -> {"new", "live", "gone"}] /\ parent' \in [Folder -> Folder \cup {None}]
  BY DEF IInv, TypeOK
<1> QED BY <1>1, <1>2 DEF IInv, TypeOK

-----------------------------------------------------------------------------
(* Chats come and go                                                       *)

\* A new chat is not shared and has no copies.
LEMMA InsertKeeps ==
  ASSUME IInv, NEW c \in Chat, NEW dir \in Folder \cup {None}, NEW some \in SUBSET Tag,
         Insert(c, dir, some)
  PROVE  IInv'
<1> USE DEF Insert, shareVars, folderVars
<1>1. TypeOK'
  BY DEF IInv, TypeOK
<1>2. Live' = Live \cup {c}
  BY DEF IInv, TypeOK, Live
<1>3. share[c] = None /\ CopiesOf(c) = {}
  BY LibraryAssumption DEF IInv, SharingInv, OnlyLiveShared, CopiesOf
<1>4. \A d \in Chat : CopiesOf(d)' = CopiesOf(d)
  BY DEF CopiesOf
<1>5. OnlyLiveShared'
  BY DEF IInv, TypeOK, SharingInv, OnlyLiveShared
<1>6. SharingUnderWay'
  BY DEF Free, SharingUnderWay
<1>7. UnlinkedUncopied' /\ ShareLinkValid' /\ OneCopy'
  BY <1>2, <1>3, <1>4 DEF IInv, SharingInv, UnlinkedUncopied, ShareLinkValid, OneCopy, Live
<1> QED BY <1>1, <1>5, <1>6, <1>7 DEF IInv, SharingInv

LEMMA ArrivalKeeps ==
  ASSUME IInv,
         \/ \E c \in Chat, some \in SUBSET Tag : Import(c, some)
         \/ \E c \in Chat, dir \in Folder \cup {None} : Create(c, dir)
         \/ \E c, old \in Chat : Clone(c, old)
         \/ \E c \in Chat, k \in Copy : CloneShared(c, k)
  PROVE  IInv'
<1>1. \E c \in Chat, dir \in Folder \cup {None}, some \in SUBSET Tag : Insert(c, dir, some)
  BY DEF Import, Create, Clone, CloneShared, IInv, TypeOK
<1> QED BY <1>1, InsertKeeps

\* However chats are deleted, with or without their copies, those that stay keep
\* theirs.
LEMMA RemoveKeeps ==
  ASSUME IInv, Free, NEW some \in SUBSET Live, NEW copies \in SUBSET Copy,
         \A k \in copies : copy[k].of \in some,
         Remove(some, copies)
  PROVE  /\ state' \in [Chat -> {"new", "live", "gone"}]
         /\ archived' \in [Chat -> BOOLEAN]
         /\ folder' \in [Chat -> Folder \cup {None}]
         /\ tags' \in [Chat -> SUBSET Tag]
         /\ share' \in [Chat -> Copy \cup {None}]
         /\ copy' \in [Copy -> [of : Chat \cup {None}, folder : Folder \cup {None}, tags : SUBSET Tag]]
         /\ SharingInv'
<1> USE DEF Remove
<1>1. /\ state' \in [Chat -> {"new", "live", "gone"}]
      /\ archived' \in [Chat -> BOOLEAN]
      /\ folder' \in [Chat -> Folder \cup {None}]
      /\ tags' \in [Chat -> SUBSET Tag]
      /\ share' \in [Chat -> Copy \cup {None}]
      /\ copy' \in [Copy -> [of : Chat \cup {None}, folder : Folder \cup {None}, tags : SUBSET Tag]]
  BY DEF IInv, TypeOK, NoCopy
<1>2. Live' = Live \ some
  BY DEF IInv, TypeOK, Live
<1>3. \A c \in Live' : share'[c] = share[c] /\ CopiesOf(c)' = CopiesOf(c)
  BY <1>2, LibraryAssumption DEF Live, CopiesOf, NoCopy
<1>4. OnlyLiveShared'
  <2>1. \A c \in Chat : state'[c] # "live" => share'[c] = None
    BY DEF IInv, TypeOK, SharingInv, OnlyLiveShared
  <2>2. \A k \in Copy : copy'[k].of # None => state'[copy'[k].of] # "new"
    BY <1>1 DEF IInv, TypeOK, SharingInv, OnlyLiveShared, NoCopy
  <2> QED BY <2>1, <2>2 DEF OnlyLiveShared
<1>5. SharingUnderWay'
  BY DEF Free, SharingUnderWay
<1> HIDE DEF Remove
<1>6. UNCHANGED <<sharing, crashes>>
  BY DEF Remove
<1>7. UnlinkedUncopied'
  BY <1>2, <1>3, <1>6 DEF IInv, SharingInv, UnlinkedUncopied
<1>8. ShareLinkValid' /\ OneCopy'
  BY <1>2, <1>3, <1>6 DEF IInv, SharingInv, ShareLinkValid, OneCopy
<1> QED BY <1>1, <1>4, <1>5, <1>7, <1>8 DEF SharingInv

LEMMA DeletionKeeps ==
  ASSUME IInv, (\E c \in Chat : DeleteChat(c)) \/ DeleteAll
  PROVE  IInv'
<1>1. ASSUME NEW c \in Chat, DeleteChat(c) PROVE IInv'
  <2>1. c \in Live /\ Free /\ Remove({c}, CopiesOf(c))
    BY <1>1 DEF DeleteChat
  <2>2. \A k \in CopiesOf(c) : copy[k].of \in {c}
    BY DEF CopiesOf
  <2>3. rows' \in SUBSET Tag /\ UNCHANGED <<parent, exists, sharing, crashes>>
    BY <1>1 DEF DeleteChat, IInv, TypeOK, Orphans, Remove, folderVars
  <2>4. {c} \in SUBSET Live /\ CopiesOf(c) \in SUBSET Copy
    BY <2>1 DEF CopiesOf
  <2> QED BY <2>1, <2>2, <2>3, <2>4, RemoveKeeps DEF IInv, TypeOK
<1>2. CASE DeleteAll
  <2> DEFINE copies == UNION {CopiesOf(d) : d \in Live}
  <2>1. Free /\ Remove(Live, copies)
    BY <1>2 DEF DeleteAll
  <2>2. copies \in SUBSET Copy /\ \A k \in copies : copy[k].of \in Live
    BY DEF CopiesOf
  <2>3. UNCHANGED <<rows, parent, exists, sharing, crashes>>
    BY <1>2 DEF DeleteAll, Remove, folderVars
  <2> HIDE DEF copies
  <2> QED BY <2>1, <2>2, <2>3, RemoveKeeps DEF IInv, TypeOK
<1> QED BY <1>1, <1>2

\* Whichever folders go, cycle or not.
LEMMA FolderDeletionKeeps ==
  ASSUME IInv, NEW f \in Folder, NEW delete_contents \in BOOLEAN, DeleteFolder(f, delete_contents)
  PROVE  IInv'
<1>1. PICK d \in Deletions(f) :
        /\ exists' = [g \in Folder |-> IF g \in d.gone THEN "gone" ELSE exists[g]]
        /\ parent' = [g \in Folder |-> IF g \in d.gone THEN None ELSE parent[g]]
        /\ LET held == {c \in Live : folder[c] \in d.ids}
           IN  IF delete_contents THEN Remove(held, {})
               ELSE /\ folder' = [c \in Chat |-> IF c \in held THEN None ELSE folder[c]]
                    /\ UNCHANGED <<state, archived, tags, shareVars>>
  BY DEF DeleteFolder
<1> DEFINE held == {c \in Live : folder[c] \in d.ids}
<1>2. exists' \in [Folder -> {"new", "live", "gone"}] /\ parent' \in [Folder -> Folder \cup {None}]
  BY <1>1 DEF IInv, TypeOK
<1>3. Free /\ UNCHANGED rows
  BY DEF DeleteFolder
<1>4. CASE delete_contents
  <2>1. Remove(held, {}) /\ held \in SUBSET Live
    BY <1>1, <1>4
  <2>2. UNCHANGED <<sharing, crashes>>
    BY <2>1 DEF Remove
  <2> HIDE DEF held
  <2> QED BY <1>2, <1>3, <2>1, <2>2, RemoveKeeps DEF IInv, TypeOK
<1>5. CASE ~delete_contents
  <2>1. folder' \in [Chat -> Folder \cup {None}] /\ UNCHANGED <<state, archived, tags, shareVars>>
    BY <1>1, <1>5 DEF IInv, TypeOK
  <2>2. SharingInv'
    BY <2>1, SharingFrame DEF IInv, shareVars
  <2> QED BY <1>2, <1>3, <2>1, <2>2 DEF IInv, TypeOK, shareVars
<1> QED BY <1>4, <1>5

-----------------------------------------------------------------------------
(* Sharing                                                                 *)

\* The first commit makes the only copy.
LEMMA ShareInsertKeeps ==
  ASSUME IInv, NEW c \in Chat, NEW k \in Copy, ShareInsert(c, k)
  PROVE  IInv'
<1> USE DEF ShareInsert, Snapshot, chatVars, folderVars
<1>1. TypeOK'
  BY DEF IInv, TypeOK
<1>2. /\ copy'[k].of = c /\ copy[k].of = None
      /\ \A l \in Copy \ {k} : copy'[l] = copy[l]
  BY DEF IInv, TypeOK, NoCopy
<1>3. \A d \in Chat : CopiesOf(d)' = IF d = c THEN CopiesOf(c) \cup {k} ELSE CopiesOf(d)
  BY <1>2, LibraryAssumption DEF CopiesOf
<1>4. crashes = 0 => CopiesOf(c) = {}
  BY LibraryAssumption DEF IInv, SharingInv, UnlinkedUncopied, Free, Nothing
<1>5. OnlyLiveShared'
  BY <1>2 DEF IInv, TypeOK, SharingInv, OnlyLiveShared, Live
<1>6. SharingUnderWay'
  BY <1>3 DEF SharingUnderWay, Live
<1>7. UnlinkedUncopied'
  BY <1>3, <1>4, LibraryAssumption DEF IInv, SharingInv, UnlinkedUncopied, Live, Free, Nothing
<1>8. ShareLinkValid' /\ OneCopy'
  BY <1>3, <1>4 DEF IInv, SharingInv, ShareLinkValid, OneCopy, Live
<1> QED BY <1>1, <1>5, <1>6, <1>7, <1>8 DEF IInv, SharingInv

\* The second commit links it; a crash before it leaves a copy without a link.
LEMMA ShareLinkKeeps ==
  ASSUME IInv, ShareLink \/ Crash
  PROVE  IInv'
<1> DEFINE c == sharing.chat  k == sharing.copy
<1>1. sharing # Nothing /\ c \in Live /\ c \in Chat /\ share[c] = None /\ k \in Copy /\ copy[k].of = c
  BY DEF ShareLink, Crash, Free, IInv, SharingInv, SharingUnderWay, CopiesOf, Live
<1>2. Live' = Live /\ \A d \in Chat : CopiesOf(d)' = CopiesOf(d)
  BY DEF ShareLink, Crash, chatVars, Live, CopiesOf
<1>3. CASE ShareLink
  <2> USE DEF ShareLink, chatVars, folderVars
  <2>1. TypeOK'
    BY <1>1, <1>3, LibraryAssumption DEF IInv, TypeOK, Nothing
  <2>2. share'[c] = k /\ \A d \in Chat \ {c} : share'[d] = share[d]
    BY <1>1, <1>3 DEF IInv, TypeOK
  <2>3. OnlyLiveShared'
    BY <1>1, <1>3, <2>2 DEF IInv, SharingInv, OnlyLiveShared, Live
  <2>4. SharingUnderWay'
    BY <1>3 DEF SharingUnderWay, Nothing
  <2>5. UnlinkedUncopied'
    <3> SUFFICES ASSUME crashes = 0, NEW d \in Live, share'[d] = None, NEW l \in CopiesOf(d)
                 PROVE  FALSE
      BY <1>2, <1>3 DEF UnlinkedUncopied, Live
    <3>1. d # c
      BY <1>1, <2>2, LibraryAssumption
    <3>2. sharing = [chat |-> d, copy |-> l]
      BY <2>2, <3>1 DEF IInv, SharingInv, UnlinkedUncopied, Live
    <3> QED BY <3>1, <3>2
  <2>6. ShareLinkValid'
    BY <1>1, <1>2, <1>3, <2>2 DEF IInv, SharingInv, ShareLinkValid, Live, CopiesOf
  <2>7. OneCopy'
    BY <1>2, <1>3 DEF IInv, SharingInv, OneCopy, Live
  <2> QED BY <2>1, <2>3, <2>4, <2>5, <2>6, <2>7 DEF IInv, SharingInv
<1>4. CASE Crash
  <2> USE DEF Crash, chatVars, folderVars
  <2>1. TypeOK' /\ crashes' # 0
    BY <1>4, LibraryAssumption DEF IInv, TypeOK, Nothing
  <2>2. OnlyLiveShared' /\ ShareLinkValid'
    BY <1>2, <1>4 DEF IInv, SharingInv, OnlyLiveShared, ShareLinkValid, Live
  <2>3. SharingUnderWay' /\ UnlinkedUncopied' /\ OneCopy'
    BY <1>4, <2>1 DEF SharingUnderWay, UnlinkedUncopied, OneCopy
  <2> QED BY <2>1, <2>2, <2>3 DEF IInv, SharingInv
<1> QED BY <1>3, <1>4

LEMMA ShareAgainKeeps ==
  ASSUME IInv, NEW c \in Chat, ShareAgain(c)
  PROVE  IInv'
<1> USE DEF ShareAgain, Snapshot, chatVars, folderVars
<1>1. PICK k \in CopiesOf(c) : copy' = [copy EXCEPT ![k] = Snapshot(c)]
  OBVIOUS
<1>2. TypeOK'
  BY <1>1 DEF IInv, TypeOK, CopiesOf
<1>3. \A l \in Copy : copy'[l].of = copy[l].of
  BY <1>1 DEF IInv, TypeOK, CopiesOf
<1>4. Live' = Live /\ \A d \in Chat : CopiesOf(d)' = CopiesOf(d)
  BY <1>3 DEF Live, CopiesOf
<1>5. OnlyLiveShared'
  BY <1>3 DEF IInv, SharingInv, OnlyLiveShared
<1>6. SharingUnderWay'
  BY DEF Free, SharingUnderWay
<1>7. UnlinkedUncopied' /\ ShareLinkValid' /\ OneCopy'
  BY <1>4 DEF IInv, SharingInv, UnlinkedUncopied, ShareLinkValid, OneCopy, Live
<1> QED BY <1>2, <1>5, <1>6, <1>7 DEF IInv, SharingInv

\* With the link all copies go.
LEMMA UnshareKeeps ==
  ASSUME IInv, NEW c \in Chat, Unshare(c)
  PROVE  IInv'
<1> USE DEF Unshare, chatVars, folderVars
<1>1. TypeOK'
  BY DEF IInv, TypeOK, NoCopy
<1>2. Live' = Live /\ CopiesOf(c)' = {} /\ \A d \in Chat \ {c} : CopiesOf(d)' = CopiesOf(d)
  BY LibraryAssumption DEF Live, CopiesOf, NoCopy
<1>3. share'[c] = None /\ \A d \in Chat \ {c} : share'[d] = share[d]
  BY DEF IInv, TypeOK
<1>4. OnlyLiveShared'
  BY <1>3 DEF IInv, TypeOK, SharingInv, OnlyLiveShared, NoCopy
<1>5. SharingUnderWay'
  BY DEF Free, SharingUnderWay
<1>6. UnlinkedUncopied' /\ ShareLinkValid' /\ OneCopy'
  BY <1>2, <1>3 DEF IInv, SharingInv, UnlinkedUncopied, ShareLinkValid, OneCopy, Live
<1> QED BY <1>1, <1>4, <1>5, <1>6 DEF IInv, SharingInv

-----------------------------------------------------------------------------
(* The theorems                                                            *)

LEMMA NextIInv == IInv /\ [Next]_vars => IInv'
<1> SUFFICES ASSUME IInv, [Next]_vars PROVE IInv'
  OBVIOUS
<1>1. CASE \/ \E c \in Chat, t \in Tag : AddTag(c, t) \/ RemoveTag(c, t)
           \/ \E c \in Chat, some \in SUBSET Tag : UpdateTags(c, some)
           \/ \E c \in Chat : RemoveAllTags(c)
           \/ \E t \in Tag : LookUpTag(t)
  BY <1>1, TagsKeep
<1>2. CASE \/ \E c \in Chat, dir \in Folder \cup {None} : MoveChat(c, dir)
           \/ \E c \in Chat : ToggleArchive(c)
           \/ \E value \in BOOLEAN : ArchiveAll(value)
  BY <1>2, PlacesKeep
<1>3. CASE \/ \E f \in Folder, dir \in Folder \cup {None} : CreateFolder(f, dir) \/ MoveFolder(f, dir)
           \/ ListFolders
  BY <1>3, FoldersKeep
<1>4. CASE \/ \E c \in Chat, some \in SUBSET Tag : Import(c, some)
           \/ \E c \in Chat, dir \in Folder \cup {None} : Create(c, dir)
           \/ \E c, old \in Chat : Clone(c, old)
           \/ \E c \in Chat, k \in Copy : CloneShared(c, k)
  BY <1>4, ArrivalKeeps
<1>5. CASE (\E c \in Chat : DeleteChat(c)) \/ DeleteAll
  BY <1>5, DeletionKeeps
<1>6. CASE \E f \in Folder, delete_contents \in BOOLEAN : DeleteFolder(f, delete_contents)
  BY <1>6, FolderDeletionKeeps
<1>7. CASE \/ \E c \in Chat, k \in Copy : ShareInsert(c, k)
           \/ \E c \in Chat : ShareAgain(c) \/ Unshare(c)
           \/ ShareLink \/ Crash
  BY <1>7, ShareInsertKeeps, ShareAgainKeeps, UnshareKeeps, ShareLinkKeeps
<1>8. CASE UNCHANGED vars
  BY <1>8, SharingFrame DEF IInv, TypeOK, vars, chatVars, shareVars, folderVars
<1> QED BY <1>1, <1>2, <1>3, <1>4, <1>5, <1>6, <1>7, <1>8 DEF Next

LEMMA Invariance == Spec => []IInv
<1> QED BY InitIInv, NextIInv, PTL DEF Spec

\* The state stays well formed, whatever requests and folder cycles there are.
THEOREM TypeCorrect == Spec => []TypeOK
<1>1. IInv => TypeOK
  BY DEF IInv
<1> QED BY <1>1, Invariance, PTL

\* For any number of chats, copies and crashes between the two commits, the link
\* of a chat leads to a copy of it, which is the only one unless a process has
\* crashed (chats.py:536-620).
THEOREM SharingStaysConsistent == Spec => []SharingConsistent
<1>1. IInv => SharingConsistent
  BY DEF IInv, SharingInv, SharingConsistent
<1> QED BY <1>1, Invariance, PTL


-----------------------------------------------------------------------------
(* Copies and tags leave with the chats                                    *)

\* Only three requests delete chats.
LEMMA WhoDeletes ==
  ASSUME TypeOK, [Next]_vars, NEW c \in Live, state'[c] = "gone"
  PROVE  \/ \E d \in Chat : DeleteChat(d)
         \/ DeleteAll
         \/ \E f \in Folder, delete_contents \in BOOLEAN : DeleteFolder(f, delete_contents)
<1>1. state[c] = "live" /\ c \in Chat
  BY DEF Live
<1>2. ASSUME NEW d \in Chat, NEW dir, NEW some, Insert(d, dir, some) PROVE state'[c] = "live"
  BY <1>1, <1>2 DEF Insert, TypeOK
<1>3. CASE UNCHANGED state
  BY <1>1, <1>3
<1> QED BY <1>1, <1>2, <1>3
        DEF Next, vars, chatVars, AddTag, RemoveTag, RemoveAllTags, UpdateTags, LookUpTag,
            Import, Create, Clone, CloneShared, ToggleArchive, ArchiveAll, MoveChat, ShareInsert,
            ShareLink, Crash, ShareAgain, Unshare, CreateFolder, MoveFolder, ListFolders

\* chats.py:1014 and :490: with a chat its copies go, but for those of a folder.
THEOREM CopiesGo == Spec => CopiesLeaveWithChat
<1>1. ASSUME TypeOK, [Next]_vars, NEW c \in Live, NEW k \in Copy,
             state'[c] = "gone", copy'[k].of = c
      PROVE  exists' # exists
  <2>1. c \in Chat /\ c # None /\ state[c] = "live"
    BY LibraryAssumption DEF Live
  <2>2. ASSUME NEW d \in Chat, DeleteChat(d) PROVE FALSE
    <3>1. c = d
      BY <1>1, <2>1, <2>2 DEF DeleteChat, Remove
    <3> QED BY <1>1, <2>1, <2>2, <3>1 DEF DeleteChat, Remove, CopiesOf, NoCopy
  <2>3. CASE DeleteAll
    BY <1>1, <2>1, <2>3 DEF DeleteAll, Remove, CopiesOf, NoCopy
  <2>4. ASSUME NEW f \in Folder, NEW delete_contents \in BOOLEAN, DeleteFolder(f, delete_contents)
        PROVE  exists' # exists
    <3>1. PICK d \in Deletions(f) :
            /\ exists' = [g \in Folder |-> IF g \in d.gone THEN "gone" ELSE exists[g]]
            /\ \/ Remove({h \in Live : folder[h] \in d.ids}, {})
               \/ UNCHANGED state
      BY <2>4 DEF DeleteFolder
    <3>2. d.ids # {}
      BY <1>1, <2>1, <3>1 DEF Remove
    <3>3. f \in d.gone
      BY <3>2 DEF Deletions
    <3>4. exists'[f] = "gone" /\ exists[f] = "live"
      BY <2>4, <3>1, <3>3 DEF DeleteFolder, Folders
    <3> QED BY <3>4
  <2> QED BY <1>1, <2>2, <2>3, <2>4, WhoDeletes
<1>2. ASSUME TypeOK, [Next]_vars
      PROVE  [\A c \in Live, k \in Copy :
                state'[c] = "gone" /\ copy'[k].of = c => exists' # exists]_vars
  BY <1>1, <1>2
<1> QED BY TypeCorrect, <1>2, PTL DEF Spec, CopiesLeaveWithChat

\* Chats arrive one at a time.
LEMMA FewLive ==
  ASSUME TypeOK, [Next]_vars
  PROVE  \E c : Live' \subseteq Live \cup {c}
<1>1. ASSUME NEW c \in Chat, NEW dir, NEW some, Insert(c, dir, some)
      PROVE  Live' \subseteq Live \cup {c}
  BY <1>1 DEF Insert, Live, TypeOK
<1>2. ASSUME NEW some, NEW copies, Remove(some, copies) PROVE Live' \subseteq Live
  BY <1>2 DEF Remove, Live
<1>3. CASE UNCHANGED state
  BY <1>3 DEF Live
<1>4. ASSUME NEW f \in Folder, NEW delete_contents \in BOOLEAN, DeleteFolder(f, delete_contents)
      PROVE  Live' \subseteq Live
  <2>1. (\E some : Remove(some, {})) \/ UNCHANGED state
    BY <1>4 DEF DeleteFolder
  <2>2. CASE UNCHANGED state
    BY <2>2 DEF Live
  <2>3. ASSUME NEW some, Remove(some, {}) PROVE Live' \subseteq Live
    BY <1>2, <2>3
  <2> QED BY <2>1, <2>2, <2>3
<1>5. CASE \/ \E c \in Chat, some \in SUBSET Tag : Import(c, some)
           \/ \E c \in Chat, dir \in Folder \cup {None} : Create(c, dir)
           \/ \E c, old \in Chat : Clone(c, old)
           \/ \E c \in Chat, k \in Copy : CloneShared(c, k)
  BY <1>1, <1>5 DEF Import, Create, Clone, CloneShared
<1> QED BY <1>2, <1>3, <1>4, <1>5
        DEF Next, vars, chatVars, AddTag, RemoveTag, RemoveAllTags, UpdateTags, LookUpTag,
            DeleteChat, DeleteAll, ToggleArchive, ArchiveAll, MoveChat, ShareInsert,
            ShareLink, Crash, ShareAgain, Unshare, CreateFolder, MoveFolder, ListFolders

\* However many chats there may be, at every moment there are finitely many.
LEMMA FinitelyMany == Spec => []IsFiniteSet(Live)
<1>1. Init => IsFiniteSet(Live)
  <2>1. Init => Live = {}
    BY DEF Init, Live
  <2> QED BY <2>1, FS_EmptySet
<1>2. ASSUME TypeOK, IsFiniteSet(Live), [Next]_vars PROVE IsFiniteSet(Live)'
  <2>1. PICK c : Live' \subseteq Live \cup {c}
    BY <1>2, FewLive
  <2> QED BY <1>2, <2>1, FS_AddElement, FS_Subset
<1> QED BY <1>1, <1>2, TypeCorrect, PTL DEF Spec

\* count_chats_by_tag_name_and_user_id counts a chat that is not archived.
LEMMA CountIs ==
  ASSUME NEW live, IsFiniteSet(live), NEW arch, NEW tagged, NEW t
  PROVE  /\ Count(live, arch, tagged, t) <= 0 =>
              \A c \in live : t \in tagged[c] => arch[c]
         /\ Count(live, arch, tagged, t) <= 1 =>
              \A c, d \in live : t \in tagged[c] /\ t \in tagged[d] /\ ~arch[c] => c = d \/ arch[d]
<1> DEFINE S == {c \in live : ~arch[c] /\ t \in tagged[c]}
<1>1. IsFiniteSet(S) /\ Cardinality(S) \in Nat
  BY FS_Subset, FS_CardinalityType
<1>2. ASSUME NEW c \in S PROVE Cardinality(S \ {c}) = Cardinality(S) - 1 /\ Cardinality(S) # 0
  BY <1>1, FS_RemoveElement, FS_EmptySet
<1>3. ASSUME NEW c \in S, NEW d \in S, c # d PROVE Cardinality(S) > 1
  <2>1. IsFiniteSet(S \ {c}) /\ d \in S \ {c}
    BY <1>1, <1>3, FS_RemoveElement
  <2>2. Cardinality(S \ {c}) # 0 /\ Cardinality(S \ {c}) \in Nat
    BY <2>1, FS_EmptySet, FS_CardinalityType
  <2> QED BY <1>1, <1>2, <2>2
<1>4. Count(live, arch, tagged, t) = Cardinality(S)
  BY DEF Count
<1>5. \A c \in live : t \in tagged[c] /\ ~arch[c] => c \in S
  OBVIOUS
<1> HIDE DEF S
<1>6. ASSUME Cardinality(S) <= 0, NEW c \in live, t \in tagged[c] PROVE arch[c]
  <2>1. Cardinality(S) = 0
    BY <1>1, <1>6
  <2>2. \A e \in S : Cardinality(S) # 0
    BY <1>2
  <2>3. S = {}
    BY <2>1, <2>2
  <2> QED BY <1>5, <1>6, <2>3
<1>7. ASSUME Cardinality(S) <= 1, NEW c \in live, NEW d \in live,
             t \in tagged[c], t \in tagged[d], ~arch[c]
      PROVE  c = d \/ arch[d]
  BY <1>1, <1>3, <1>5, <1>7
<1> QED BY <1>4, <1>6, <1>7

\* chats.py:1332 and :1046: with the last chat that shows it a tag loses its row,
\* and with none before, unless an archived chat is deleted.
THEOREM RowsGo == Spec => RowsLeaveWithLastUse
<1> DEFINE Unused(t) == \A c \in Chat : state'[c] = "live" /\ t \in tags'[c] => archived'[c]
           ArchivedGone == \E c \in Live : archived[c] /\ state'[c] = "gone"
<1>1. ASSUME TypeOK, IsFiniteSet(Live), [Next]_vars, NEW t \in rows \ rows'
      PROVE  Unused(t) \/ ArchivedGone
  <2>1. \/ \E c \in Chat, u \in Tag : RemoveTag(c, u)
        \/ \E c \in Chat, some \in SUBSET Tag : UpdateTags(c, some)
        \/ \E u \in Tag : LookUpTag(u)
        \/ \E c \in Chat : RemoveAllTags(c) \/ ToggleArchive(c) \/ DeleteChat(c)
    BY <1>1 DEF Next, vars, AddTag, Insert, Import, Create, Clone, CloneShared, ArchiveAll,
                MoveChat, DeleteAll, ShareInsert, ShareLink, Crash, ShareAgain, Unshare,
                CreateFolder, MoveFolder, ListFolders, DeleteFolder
  <2>2. ASSUME Count(Live, archived', tags', t) <= 0, UNCHANGED state PROVE Unused(t)
    BY <1>1, <2>2, CountIs DEF Live
  <2>3. ASSUME NEW c \in Chat, NEW u \in Tag, RemoveTag(c, u) PROVE Unused(t)
    BY <1>1, <2>2, <2>3 DEF RemoveTag, Orphans
  <2>4. ASSUME NEW c \in Chat, NEW some \in SUBSET Tag, UpdateTags(c, some) PROVE Unused(t)
    BY <1>1, <2>2, <2>4 DEF UpdateTags, Orphans
  <2>5. ASSUME NEW u \in Tag, LookUpTag(u) PROVE Unused(t)
    <3>1. t = u /\ UNCHANGED <<state, archived, tags>>
      BY <1>1, <2>5 DEF LookUpTag, chatVars
    <3>2. CASE \A c \in Live : t \notin tags[c]
      BY <3>1, <3>2 DEF Live
    <3>3. CASE Count(Live, archived, tags, t) = 0
      BY <2>2, <3>1, <3>3
    <3> QED BY <2>5, <3>1, <3>2, <3>3 DEF LookUpTag
  <2>6. ASSUME NEW c \in Chat, RemoveAllTags(c) PROVE Unused(t)
    BY <1>1, <2>2, <2>6 DEF RemoveAllTags, Orphans
  <2>7. ASSUME NEW c \in Chat, ToggleArchive(c) PROVE Unused(t)
    <3>1. t \in Orphans(tags[c], 0, Live, archived', tags) /\ UNCHANGED <<state, tags>>
      BY <1>1, <2>7 DEF ToggleArchive
    <3> QED BY <2>2, <3>1 DEF Orphans
  <2>8. ASSUME NEW c \in Chat, DeleteChat(c) PROVE Unused(t) \/ ArchivedGone
    <3>1. c \in Live /\ t \in tags[c] /\ Count(Live, archived, tags, t) <= 1
      BY <1>1, <2>8 DEF DeleteChat, Orphans
    <3>2. /\ state'[c] = "gone"
          /\ \A d \in Chat \ {c} : /\ state'[d] = state[d] /\ tags'[d] = tags[d]
                                   /\ archived'[d] = archived[d]
      BY <1>1, <2>8 DEF DeleteChat, Remove, TypeOK
    <3>3. CASE archived[c]
      BY <3>1, <3>2, <3>3
    <3>4. CASE ~archived[c]
      <4>1. \A d \in Live : t \in tags[d] => d = c \/ archived[d]
        BY <1>1, <3>1, <3>4, CountIs
      <4> QED BY <3>2, <4>1 DEF Live
    <3> QED BY <3>3, <3>4
  <2> HIDE DEF Unused, ArchivedGone
  <2> QED BY <2>1, <2>3, <2>4, <2>5, <2>6, <2>7, <2>8
<1>2. ASSUME TypeOK, IsFiniteSet(Live), [Next]_vars
      PROVE  [\A t \in rows \ rows' :
                \/ \A c \in Chat : state'[c] = "live" /\ t \in tags'[c] => archived'[c]
                \/ \E c \in Live : archived[c] /\ state'[c] = "gone"]_vars
  BY <1>1, <1>2
<1> QED BY TypeCorrect, FinitelyMany, <1>2, PTL DEF Spec, RowsLeaveWithLastUse

-----------------------------------------------------------------------------
(* Folders                                                                 *)

\* What is below a folder holds its own children.
LEMMA BelowClosed ==
  ASSUME NEW f
  PROVE  Children({f} \cup Below(f)) \subseteq Below(f)
BY DEF Children, Below

\* It is the least such set.
LEMMA BelowLeast ==
  ASSUME NEW f, NEW some \in SUBSET Folders, Children({f} \cup some) \subseteq some
  PROVE  Below(f) \subseteq some
BY DEF Below

LEMMA BelowTransitive ==
  ASSUME NEW f, NEW g \in Below(f)
  PROVE  Below(g) \subseteq Below(f)
<1>1. Children({g} \cup Below(f)) \subseteq Below(f) /\ Below(f) \in SUBSET Folders
  BY BelowClosed DEF Children, Below
<1> QED BY <1>1, BelowLeast

LEMMA ParentOfBelow ==
  ASSUME NEW f, NEW g \in Below(f)
  PROVE  parent[g] \in {f} \cup Below(f)
<1> SUFFICES ASSUME parent[g] \notin {f} \cup Below(f) PROVE FALSE
  OBVIOUS
<1>1. Children({f} \cup (Below(f) \ {g})) \subseteq Below(f) \ {g}
  BY BelowClosed DEF Children
<1>2. Below(f) \ {g} \in SUBSET Folders
  BY DEF Below
<1> QED BY <1>1, <1>2, BelowLeast

\* A folder that is below itself goes round with its parents, which are no roots.
LEMMA CycleClosed ==
  ASSUME NEW f, OnCycle(f), NEW Z, Z = {g \in Below(f) : f \in Below(g)}
  PROVE  /\ f \in Z /\ Z \subseteq Folders
         /\ \A g \in Z : OnCycle(g) /\ parent[g] \in Z
<1>1. f \in Z /\ Z \subseteq Folders
  BY DEF OnCycle, Below
<1>2. ASSUME NEW g \in Z PROVE OnCycle(g)
  BY BelowTransitive DEF OnCycle
<1>3. ASSUME NEW g \in Z PROVE parent[g] \in Z
  <2>1. parent[g] \in Below(f)
    BY ParentOfBelow, <1>1
  <2>2. g \in Below(parent[g])
    BY <1>1, BelowClosed DEF Children
  <2>3. f \in Below(parent[g])
    BY <2>2, BelowTransitive
  <2> QED BY <2>1, <2>3
<1> QED BY <1>1, <1>2, <1>3

\* Nothing that goes with the folders beside a cycle is on it.
LEMMA CycleStays ==
  ASSUME NEW f, OnCycle(f), NEW g \in Below(f), ~OnCycle(g), NEW z \in {g} \cup Below(g)
  PROVE  f \notin Below(z)
<1> SUFFICES ASSUME f \in Below(z) PROVE FALSE
  OBVIOUS
<1>1. f \in Below(g)
  BY BelowTransitive
<1>2. g \in Below(g)
  BY <1>1, BelowTransitive
<1> QED BY <1>2 DEF OnCycle

\* A set of folders with their parents is reached from no root.
LEMMA CycleUnreached ==
  ASSUME NEW Z, Z \subseteq Folders', \A g \in Z : parent'[g] \in Z
  PROVE  Z \cap Reached' = {}
<1> DEFINE roots == {r \in Folders' : parent'[r] \notin Folders'}
<1>1. \A r \in roots : r \notin Z
  OBVIOUS
<1>2. ASSUME NEW r \in roots PROVE Z \cap Below(r)' = {}
  <2>1. (Children({r} \cup (Folders \ Z)))' \subseteq Folders' \ Z'
    BY <1>1 DEF Children
  <2>2. Folders' \ Z \in SUBSET Folders'
    OBVIOUS
  <2>3. Below(r)' \subseteq Folders' \ Z
    BY <2>1, <2>2 DEF Below
  <2> QED BY <2>3
<1> QED BY <1>1, <1>2 DEF Reached

\* folders.py:275: a request that deletes a folder on a cycle leaves the cycle
\* unreached; any other takes along or moves out the chats of what it deletes.
LEMMA DeletionHides ==
  ASSUME NEW f \in Folder, NEW delete_contents \in BOOLEAN, DeleteFolder(f, delete_contents),
         TypeOK, Reached' = Folders', NEW c \in Live, folder[c] \in Folders, folder'[c] = folder[c]
  PROVE  folder'[c] \in Folders'
<1>1. PICK d \in Deletions(f) :
        /\ exists' = [g \in Folder |-> IF g \in d.gone THEN "gone" ELSE exists[g]]
        /\ parent' = [g \in Folder |-> IF g \in d.gone THEN None ELSE parent[g]]
        /\ LET held == {h \in Live : folder[h] \in d.ids}
           IN  Remove(held, {}) \/ folder' = [h \in Chat |-> IF h \in held THEN None ELSE folder[h]]
  BY DEF DeleteFolder
<1>2. f \in Folders
  BY DEF DeleteFolder
<1>3. folder[c] \in Folder /\ folder[c] # None /\ c \in Chat
  BY LibraryAssumption DEF Folders, Live
<1>4. Folders' = Folders \ d.gone
  BY <1>1 DEF Folders
<1>5. CASE ~OnCycle(f)
  <2>1. d.gone = d.ids
    BY <1>5 DEF Deletions
  <2>2. folder[c] \notin d.ids
    BY <1>1, <1>3 DEF Remove
  <2> QED BY <1>4, <2>1, <2>2
<1>6. CASE OnCycle(f)
  <2>1. PICK Z : Z = {g \in Below(f) : f \in Below(g)}
    OBVIOUS
  <2>2. f \in Z /\ Z \subseteq Folders /\ \A g \in Z : parent[g] \in Z
    BY <1>6, <2>1, CycleClosed
  <2>3. d.gone \cap Z = {}
    <3>1. PICK some \in SUBSET {g \in Below(f) : ~OnCycle(g) /\ OnCycle(parent[g])} :
            d.gone = UNION {{g} \cup Below(g) : g \in some}
      BY <1>6 DEF Deletions
    <3> QED BY <1>6, <2>1, <3>1, CycleStays
  <2>4. Z \subseteq Folders' /\ \A g \in Z : parent'[g] = parent[g]
    BY <1>1, <1>4, <2>2, <2>3 DEF Folders
  <2>5. Z \cap Reached' = {}
    BY <2>2, <2>4, CycleUnreached
  <2> QED BY <2>2, <2>4, <2>5
<1> QED BY <1>5, <1>6

\* chats.py:1237 and folders.py:218: for any number of chats and folders, nested
\* in any way, only moves to a missing folder or below itself hide a chat.
THEOREM NothingGetsHidden == Spec => NothingHidden
<1>1. ASSUME TypeOK, [Next]_vars, Reached' = Folders', NEW c \in Live, Listed(c),
             folder'[c] = folder[c]
      PROVE  Listed(c)'
  <2>1. folder[c] = None \/ folder[c] \in Folders
    BY <1>1 DEF Listed, Reached, Below
  <2>2. ASSUME folder[c] \in Folders PROVE folder'[c] \in Folders'
    <3>1. ASSUME NEW f \in Folder, NEW delete_contents \in BOOLEAN,
                 DeleteFolder(f, delete_contents)
          PROVE  folder'[c] \in Folders'
      BY <1>1, <2>2, <3>1, DeletionHides
    <3>2. CASE UNCHANGED exists
      BY <1>1, <2>2, <3>2 DEF Folders
    <3>3. ASSUME NEW f \in Folder, NEW dir \in Folder \cup {None}, CreateFolder(f, dir)
          PROVE  folder'[c] \in Folders'
      BY <1>1, <2>2, <3>3 DEF CreateFolder, Folders, TypeOK
    <3> QED BY <1>1, <3>1, <3>2, <3>3
            DEF Next, vars, folderVars, AddTag, RemoveTag, RemoveAllTags, UpdateTags, LookUpTag,
                Insert, Import, Create, Clone, CloneShared, DeleteChat, DeleteAll, ToggleArchive,
                ArchiveAll, MoveChat, ShareInsert, ShareLink, Crash, ShareAgain, Unshare,
                MoveFolder, ListFolders
  <2> QED BY <1>1, <2>1, <2>2 DEF Listed
<1>2. ASSUME NEW c \in Live, folder'[c] = None PROVE Listed(c)'
  BY <1>2 DEF Listed
<1>3. ASSUME TypeOK, [Next]_vars
      PROVE  [\/ UNCHANGED <<folder, folderVars>>
              \/ Reached' # Folders'
              \/ \A c \in Live : Listed(c) => Listed(c)' \/ folder'[c] \notin {folder[c], None}]_vars
  BY <1>1, <1>2, <1>3
<1> QED BY TypeCorrect, <1>3, PTL DEF Spec, NothingHidden

=============================================================================
