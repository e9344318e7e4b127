---------------------------- MODULE ChatLibrary -----------------------------
(***************************************************************************)
(* The chats of one user with their tags, folders and shared copies:       *)
(* routers/chats.py and routers/folders.py over the tables chat, tag and   *)
(* folder.                                                                 *)
(*                                                                         *)
(* The handlers call the database synchronously on the event loop, so a    *)
(* request is one step.  Sharing a chat commits twice, and the process may *)
(* stop in between.                                                        *)
(***************************************************************************)
EXTENDS Naturals, FiniteSets

CONSTANTS
  Chat, Tag, Folder,
  Copy,        \* ids of shared copies
  MaxCrashes,  \* bound on crashes
  None

ASSUME LibraryAssumption ==
  /\ None \notin Chat \cup Tag \cup Folder \cup Copy
  /\ Chat \cap Copy = {} /\ MaxCrashes \in Nat

VARIABLES
  state,     \* [Chat -> whether it exists]
  archived, folder, tags,
  share,     \* [Chat -> share_id]
  copy,      \* [Copy -> the shared copy: its original, folder and tags]
  rows,      \* tags that have a row
  parent,    \* [Folder -> parent_id of a folder that exists]
  exists,    \* [Folder -> whether it exists]
  sharing,   \* the chat that is being shared, and its copy
  crashes    \* crashes so far

chatVars   == <<state, archived, folder, tags>>
shareVars  == <<share, copy, sharing, crashes>>
folderVars == <<parent, exists>>
vars == <<chatVars, shareVars, rows, folderVars>>

NoCopy == [of |-> None, folder |-> None, tags |-> {}]
Nothing == [chat |-> None, copy |-> None]

\* The domains of the variables.
TypeOK ==
  /\ state \in [Chat -> {"new", "live", "gone"}]
  /\ archived \in [Chat -> BOOLEAN]
  /\ folder \in [Chat -> Folder \cup {None}]
  /\ tags \in [Chat -> SUBSET Tag]
  /\ share \in [Chat -> Copy \cup {None}]
  /\ copy \in [Copy -> [of : Chat \cup {None}, folder : Folder \cup {None}, tags : SUBSET Tag]]
  /\ rows \in SUBSET Tag
  /\ parent \in [Folder -> Folder \cup {None}]
  /\ exists \in [Folder -> {"new", "live", "gone"}]
  /\ sharing \in [chat : Chat \cup {None}, copy : Copy \cup {None}]
  /\ crashes \in 0..MaxCrashes

Init ==
  /\ state = [c \in Chat |-> "new"]
  /\ archived = [c \in Chat |-> FALSE]
  /\ folder = [c \in Chat |-> None]
  /\ tags = [c \in Chat |-> {}]
  /\ share = [c \in Chat |-> None]
  /\ copy = [k \in Copy |-> NoCopy]
  /\ rows = {}
  /\ parent = [f \in Folder |-> None]
  /\ exists = [f \in Folder |-> "new"]
  /\ sharing = Nothing /\ crashes = 0

\* No request is between two commits.
Free == sharing = Nothing

Live == {c \in Chat : state[c] = "live"}
Folders == {f \in Folder : exists[f] = "live"}

\* Folders a client may know of, one of them deleted in another tab.
Known == {f \in Folder : exists[f] # "new"} \cup {None}

CopiesOf(c) == {k \in Copy : copy[k].of = c}

-----------------------------------------------------------------------------
(* Tags                                                                    *)

\* count_chats_by_tag_name_and_user_id, of chats in the state after a step.
Count(live, arch, tagged, t) == Cardinality({c \in live : ~arch[c] /\ t \in tagged[c]})

\* delete_orphan_tags_for_user.
Orphans(some, threshold, live, arch, tagged) ==
  {t \in some : Count(live, arch, tagged, t) <= threshold}

AddTag(c, t) ==
  /\ Free /\ c \in Live /\ t \notin tags[c]
  /\ rows' = rows \cup {t}
  /\ tags' = [tags EXCEPT ![c] = @ \cup {t}]
  /\ UNCHANGED <<state, archived, folder, shareVars, folderVars>>

\* Mutant of RemoveTag: the chats that still have the tag are not counted.
RemoveTagAlways(c, t) ==
  /\ Free /\ c \in Live
  /\ tags' = [tags EXCEPT ![c] = @ \ {t}]
  /\ rows' = rows \ {t}
  /\ UNCHANGED <<state, archived, folder, shareVars, folderVars>>

RemoveTag(c, t) ==
  /\ Free /\ c \in Live
  /\ tags' = [tags EXCEPT ![c] = @ \ {t}]
  /\ rows' = rows \ Orphans({t}, 0, Live, archived, tags')
  /\ UNCHANGED <<state, archived, folder, shareVars, folderVars>>

RemoveAllTags(c) ==
  /\ Free /\ c \in Live
  /\ tags' = [tags EXCEPT ![c] = {}]
  /\ rows' = rows \ Orphans(tags[c], 0, Live, archived, tags')
  /\ UNCHANGED <<state, archived, folder, shareVars, folderVars>>

\* update_chat_tags_by_id: the tags a model has generated replace the old ones.
UpdateTags(c, new) ==
  /\ Free /\ c \in Live
  /\ tags' = [tags EXCEPT ![c] = new]
  /\ rows' = (rows \cup new) \ Orphans(tags[c] \ new, 0, Live, archived, tags')
  /\ UNCHANGED <<state, archived, folder, shareVars, folderVars>>

\* The chats with a tag are listed: a tag of none, or of archived ones only
\* when it is searched for, loses its row.
LookUpTag(t) ==
  /\ Free /\ t \in rows
  /\ \/ \A c \in Live : t \notin tags[c]
     \/ Count(Live, archived, tags, t) = 0
  /\ rows' = rows \ {t}
  /\ UNCHANGED <<chatVars, shareVars, folderVars>>

-----------------------------------------------------------------------------
(* Chats                                                                   *)

\* insert_new_chat and import_chats: an imported or cloned chat brings its
\* folder and tags along.
Insert(c, dir, some) ==
  /\ Free /\ state[c] = "new"
  /\ state' = [state EXCEPT ![c] = "live"]
  /\ folder' = [folder EXCEPT ![c] = dir]
  /\ tags' = [tags EXCEPT ![c] = some]
  /\ UNCHANGED <<archived, shareVars, rows, folderVars>>

Create(c, dir) == dir \in Known /\ Insert(c, dir, {})
Import(c, some) == Insert(c, None, some)
Clone(c, old) == old \in Live /\ Insert(c, folder[old], tags[old])

\* A linked copy can be cloned by everybody who knows its id, here the user.
CloneShared(c, k) ==
  /\ \E d \in Live : share[d] = k
  /\ Insert(c, copy[k].folder, copy[k].tags)

\* An archived chat leaves its folder and no longer counts for its tags.
ToggleArchive(c) ==
  /\ Free /\ c \in Live
  /\ archived' = [archived EXCEPT ![c] = ~@]
  /\ folder' = [folder EXCEPT ![c] = None]
  /\ rows' = IF archived'[c] THEN rows \ Orphans(tags[c], 0, Live, archived', tags)
             ELSE rows \cup tags[c]
  /\ UNCHANGED <<state, tags, shareVars, folderVars>>

\* archive_all_chats and unarchive_all_chats change nothing else.
ArchiveAll(value) ==
  /\ Free
  /\ archived' = [c \in Chat |-> IF c \in Live THEN value ELSE archived[c]]
  /\ UNCHANGED <<state, folder, tags, shareVars, rows, folderVars>>

\* update_chat_folder_id_by_id, to any folder a client names.
MoveChat(c, dir) ==
  /\ Free /\ c \in Live /\ dir \in Known
  /\ folder' = [folder EXCEPT ![c] = dir]
  /\ UNCHANGED <<state, archived, tags, shareVars, rows, folderVars>>

\* The rows of some chats are deleted, and the copies given.
Remove(some, copies) ==
  /\ state' = [c \in Chat |-> IF c \in some THEN "gone" ELSE state[c]]
  /\ archived' = [c \in Chat |-> archived[c] /\ c \notin some]
  /\ folder' = [c \in Chat |-> IF c \in some THEN None ELSE folder[c]]
  /\ tags' = [c \in Chat |-> IF c \in some THEN {} ELSE tags[c]]
  /\ share' = [c \in Chat |-> IF c \in some THEN None ELSE share[c]]
  /\ copy' = [k \in Copy |-> IF k \in copies THEN NoCopy ELSE copy[k]]
  /\ UNCHANGED <<sharing, crashes>>

\* Mutant of DeleteChat: the shared copies stay.
DeleteChatOnly(c) ==
  /\ Free /\ c \in Live
  /\ rows' = rows \ Orphans(tags[c], 1, Live, archived, tags)
  /\ Remove({c}, {})
  /\ UNCHANGED folderVars

\* delete_chat_by_id: tags of at most one chat, this one or another, go first.
DeleteChat(c) ==
  /\ Free /\ c \in Live
  /\ rows' = rows \ Orphans(tags[c], 1, Live, archived, tags)
  /\ Remove({c}, CopiesOf(c))
  /\ UNCHANGED folderVars

\* delete_all_user_chats.
DeleteAll ==
  /\ Free
  /\ Remove(Live, UNION {CopiesOf(c) : c \in Live})
  /\ UNCHANGED <<rows, folderVars>>

-----------------------------------------------------------------------------
(* Shared copies                                                           *)

Snapshot(c) == [of |-> c, folder |-> folder[c], tags |-> tags[c]]

\* Mutant of ShareInsert: also for a chat that is shared.
ShareInsertAlways(c, k) ==
  /\ Free /\ c \in Live
  /\ copy[k] = NoCopy
  /\ copy' = [copy EXCEPT ![k] = Snapshot(c)]
  /\ sharing' = [chat |-> c, copy |-> k]
  /\ UNCHANGED <<chatVars, share, crashes, rows, folderVars>>

\* insert_shared_chat_by_chat_id commits the copy ...
ShareInsert(c, k) ==
  /\ Free /\ c \in Live /\ share[c] = None
  /\ copy[k] = NoCopy
  /\ copy' = [copy EXCEPT ![k] = Snapshot(c)]
  /\ sharing' = [chat |-> c, copy |-> k]
  /\ UNCHANGED <<chatVars, share, crashes, rows, folderVars>>

\* Mutant of ShareLink: the id of the chat itself is stored.
ShareLinkSelf ==
  /\ ~Free
  /\ share' = [share EXCEPT ![sharing.chat] = sharing.chat]
  /\ sharing' = Nothing
  /\ UNCHANGED <<chatVars, copy, crashes, rows, folderVars>>

\* ... and then the share_id of the chat.
ShareLink ==
  /\ ~Free
  /\ share' = [share EXCEPT ![sharing.chat] = sharing.copy]
  /\ sharing' = Nothing
  /\ UNCHANGED <<chatVars, copy, crashes, rows, folderVars>>

\* The process stops between the two commits.
Crash ==
  /\ ~Free /\ crashes < MaxCrashes
  /\ crashes' = crashes + 1
  /\ sharing' = Nothing
  /\ UNCHANGED <<chatVars, share, copy, rows, folderVars>>

\* Sharing again: update_shared_chat_by_chat_id updates a copy of the chat.
ShareAgain(c) ==
  /\ Free /\ c \in Live /\ share[c] # None
  /\ \E k \in CopiesOf(c) : copy' = [copy EXCEPT ![k] = Snapshot(c)]
  /\ UNCHANGED <<chatVars, share, sharing, crashes, rows, folderVars>>

Unshare(c) ==
  /\ Free /\ c \in Live /\ share[c] # None
  /\ copy' = [k \in Copy |-> IF k \in CopiesOf(c) THEN NoCopy ELSE copy[k]]
  /\ share' = [share EXCEPT ![c] = None]
  /\ UNCHANGED <<chatVars, sharing, crashes, rows, folderVars>>

-----------------------------------------------------------------------------
(* Folders                                                                 *)

\* Neither creation nor a move asks whether the parent exists, or where it is.
CreateFolder(f, dir) ==
  /\ Free /\ exists[f] = "new" /\ dir \in Known
  /\ exists' = [exists EXCEPT ![f] = "live"]
  /\ parent' = [parent EXCEPT ![f] = dir]
  /\ UNCHANGED <<chatVars, shareVars, rows>>

MoveFolder(f, dir) ==
  /\ Free /\ f \in Folders /\ dir \in Known
  /\ parent' = [parent EXCEPT ![f] = dir]
  /\ UNCHANGED <<chatVars, shareVars, rows, exists>>

\* get_folders: a folder whose parent is missing becomes a root.
ListFolders ==
  /\ Free
  /\ parent' = [f \in Folder |-> IF parent[f] \in Folders THEN parent[f] ELSE None]
  /\ UNCHANGED <<chatVars, shareVars, rows, exists>>

Children(some) == {f \in Folders : parent[f] \in some}

\* The children of a folder, their children and so on.
Below(f) == {g \in Folders : \A some \in SUBSET Folders :
                              Children({f} \cup some) \subseteq some => g \in some}

OnCycle(f) == f \in Below(f)

\* delete_folder_by_id_and_user_id: what it deletes and what it returns.  On a
\* cycle the recursion does not end: the exception is caught, and what was
\* deleted before, subtrees beside the cycle, is not returned.
Deletions(f) ==
  IF ~OnCycle(f) THEN {[gone |-> {f} \cup Below(f), ids |-> {f} \cup Below(f)]}
  ELSE {[gone |-> UNION {{g} \cup Below(g) : g \in some}, ids |-> {}] :
          some \in SUBSET {g \in Below(f) : ~OnCycle(g) /\ OnCycle(parent[g])}}

\* Mutant of DeleteFolder: only the chats of the folder itself are moved.
DeleteFolderOwnChats(f, delete_contents) ==
  /\ Free /\ f \in Folders
  /\ \E d \in Deletions(f) :
       /\ exists' = [g \in Folder |-> IF g \in d.gone THEN "gone" ELSE exists[g]]
       /\ parent' = [g \in Folder |-> IF g \in d.gone THEN None ELSE parent[g]]
       /\ LET held == {c \in Live : folder[c] = f}
          IN  IF delete_contents THEN Remove(held, {})
              ELSE /\ folder' = [c \in Chat |-> IF c \in held THEN None ELSE folder[c]]
                   /\ UNCHANGED <<state, archived, tags, shareVars>>
  /\ UNCHANGED rows

\* delete_folder_by_id: the chats of the folders returned are deleted, without
\* their tags and copies, or moved out.
DeleteFolder(f, delete_contents) ==
  /\ Free /\ f \in Folders
  /\ \E d \in Deletions(f) :
       /\ exists' = [g \in Folder |-> IF g \in d.gone THEN "gone" ELSE exists[g]]
       /\ parent' = [g \in Folder |-> IF g \in d.gone THEN None ELSE parent[g]]
       /\ LET held == {c \in Live : folder[c] \in d.ids}
          IN  IF delete_contents THEN Remove(held, {})
              ELSE /\ folder' = [c \in Chat |-> IF c \in held THEN None ELSE folder[c]]
                   /\ UNCHANGED <<state, archived, tags, shareVars>>
  /\ UNCHANGED rows

-----------------------------------------------------------------------------
Next ==
  \/ \E c \in Chat, t \in Tag : AddTag(c, t) \/ RemoveTag(c, t)
  \/ \E c \in Chat, some \in SUBSET Tag : UpdateTags(c, some) \/ Import(c, some)
  \/ \E t \in Tag : LookUpTag(t)
  \/ \E c \in Chat, d \in Folder \cup {None} : Create(c, d) \/ MoveChat(c, d)
  \/ \E c, old \in Chat : Clone(c, old)
  \/ \E c \in Chat, k \in Copy : CloneShared(c, k) \/ ShareInsert(c, k)
  \/ \E c \in Chat : \/ RemoveAllTags(c) \/ ToggleArchive(c) \/ DeleteChat(c)
                     \/ ShareAgain(c) \/ Unshare(c)
  \/ \E value \in BOOLEAN : ArchiveAll(value)
  \/ DeleteAll \/ ShareLink \/ Crash \/ ListFolders
  \/ \E f \in Folder, d \in Folder \cup {None} : CreateFolder(f, d) \/ MoveFolder(f, d)
  \/ \E f \in Folder, delete_contents \in BOOLEAN : DeleteFolder(f, delete_contents)

Spec == Init /\ [][Next]_vars

-----------------------------------------------------------------------------
(* Properties                                                              *)

\* The link of a shared chat leads to a copy of that chat
\* (get_chat_by_share_id, chats.py:883), whatever else is deleted.
ShareLinkValid == \A c \in Live : share[c] # None => share[c] \in CopiesOf(c)

\* As long as no process stops between the two commits, a chat has one copy, so
\* that sharing it again updates the one that is linked (chats.py:563).
OneCopy ==
  crashes = 0 => \A c \in Live : \A k, l \in CopiesOf(c) : k = l

\* Sharing and unsharing, deletions and clones in any order keep the link of a
\* chat and its copies together.
SharingConsistent == ShareLinkValid /\ OneCopy

\* A tag loses its row with the last chat that shows it (chats.py:1332), except
\* that deleting an archived chat, which is not counted, takes the row from
\* another chat.
RowsLeaveWithLastUse ==
  [][\A t \in rows \ rows' :
       \/ \A c \in Chat : state'[c] = "live" /\ t \in tags'[c] => archived'[c]
       \/ \E c \in Live : archived[c] /\ state'[c] = "gone"]_vars

\* Copies are deleted with their chat, except when a folder is deleted with its
\* chats (chats.py:1431).
CopiesLeaveWithChat ==
  [][\A c \in Live, k \in Copy :
       state'[c] = "gone" /\ copy'[k].of = c => exists' # exists]_vars

\* The folders a user can open from the root: one whose parent is missing is
\* made a root when the folders are listed.
Reached ==
  LET roots == {f \in Folders : parent[f] \notin Folders}
  IN  roots \cup UNION {Below(f) : f \in roots}

\* A chat that is not archived is found.
Listed(c) == folder[c] = None \/ folder[c] \in Reached

\* No request hides a chat but one that moves it to a missing folder
\* (chats.py:1237) or that moves a folder below itself (folders.py:218).
NothingHidden ==
  [][\/ UNCHANGED <<folder, folderVars>>
     \/ Reached' # Folders'
     \/ \A c \in Live : Listed(c) => Listed(c)' \/ folder'[c] \notin {folder[c], None}]_vars

=============================================================================
