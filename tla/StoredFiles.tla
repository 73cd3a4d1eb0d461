---------------------------- MODULE StoredFiles ----------------------------
(***************************************************************************)
(* One picture that a database row names and the storage holds: a user's   *)
(* avatar, which the user and the console replace, an administrator's, the *)
(* image of a group, or the logo of the workspace.                         *)
(*                                                                         *)
(* Grain.  One action is one access to the database or to the storage.     *)
(* Every upload writes a file under a fresh name.  The checks of type and  *)
(* size come before the first access and change nothing.                   *)
(***************************************************************************)
EXTENDS Naturals

CONSTANTS
  Files,          \* bound: the names that are ever made up
  NoFile,
  FileCalls       \* bound: the handlers that run at the same time

ASSUME StoredFilesAssumption == NoFile \notin Files

Pictures == {"user", "admin", "group", "logo"}

VARIABLES
  picture,        \* which of the pictures it is
  owned,          \* the row exists
  key,            \* avatarKey or logoKey
  files,          \* what the storage holds
  made,           \* history: the names made up so far
  change          \* the handlers in flight

filesVars == <<picture, owned, key, files, made, change>>

FilePCs == {"idle", "put", "name", "clear", "audit", "delete"}

(* old: the file the row named when the handler began; new: the upload's.  *)
FileCall == [pc: FilePCs, old: Files \cup {NoFile}, new: Files \cup {NoFile}]

FilesTypeOK ==
  /\ picture \in Pictures /\ owned \in BOOLEAN
  /\ key \in Files \cup {NoFile}
  /\ files \subseteq Files /\ made \subseteq Files
  /\ change \in [FileCalls -> FileCall]

NoChange == [pc |-> "idle", old |-> NoFile, new |-> NoFile]

FilesInit ==
  /\ picture \in Pictures /\ owned = TRUE
  /\ key = NoFile /\ files = {} /\ made = {}
  /\ change = [c \in FileCalls |-> NoChange]

FileGoto(c, pc) == change' = [change EXCEPT ![c].pc = pc]
FileDone(c)     == change' = [change EXCEPT ![c] = NoChange]

-----------------------------------------------------------------------------
(* Every handler first finds the row. *)

FindFor(c, p, pc) ==
  /\ change[c].pc = "idle" /\ picture = p /\ owned
  /\ change' = [change EXCEPT ![c] = [pc |-> pc, old |-> key, new |-> NoFile]]
  /\ UNCHANGED <<picture, owned, key, files, made>>

UploadAvatar(c)      == FindFor(c, "user", "put")
UploadByConsole(c)   == FindFor(c, "user", "put")
UploadAdminAvatar(c) == FindFor(c, "admin", "put")
UploadGroupImage(c)  == FindFor(c, "group", "put")
SetLogo(c)           == FindFor(c, "logo", "put")

RemoveAvatar(c)      == key # NoFile /\ FindFor(c, "user", "clear")
RemoveByConsole(c)   == key # NoFile /\ FindFor(c, "user", "clear")
RemoveAdminAvatar(c) == key # NoFile /\ FindFor(c, "admin", "clear")
RemoveGroupImage(c)  == key # NoFile /\ FindFor(c, "group", "clear")
ClearLogo(c)         == key # NoFile /\ FindFor(c, "logo", "clear")

(* storage.put under a name nobody has used. *)
PutFile(c) ==
  /\ change[c].pc = "put"
  /\ \E f \in Files \ made :
       /\ files' = files \cup {f} /\ made' = made \cup {f}
       /\ change' = [change EXCEPT ![c] = [@ EXCEPT !.pc = "name", !.new = f]]
  /\ UNCHANGED <<picture, owned, key>>

(* A group's change is written to the audit trail before the old file goes. *)
AfterNaming == IF picture = "group" THEN "audit" ELSE "delete"

(* The update of a row that is gone throws: the upload stays, unnamed. *)
NameFile(c) ==
  /\ change[c].pc \in {"name", "clear"}
  /\ IF owned THEN key' = change[c].new /\ FileGoto(c, AfterNaming)
              ELSE UNCHANGED key /\ FileDone(c)
  /\ UNCHANGED <<picture, owned, files, made>>

AuditChange(c) ==
  /\ change[c].pc = "audit"
  /\ FileGoto(c, "delete")
  /\ UNCHANGED <<picture, owned, key, files, made>>

(* Mutation: the file to be deleted is looked up when it is deleted. *)
DeleteOld_Current(c) ==
  /\ change[c].pc = "delete"
  /\ files' = IF change[c].old = NoFile THEN files ELSE files \ {key}
  /\ FileDone(c)
  /\ UNCHANGED <<picture, owned, key, made>>

(* The file the row named before.  A failure is logged and forgotten. *)
DeleteOld(c) ==
  /\ change[c].pc = "delete"
  /\ files' \in {files, files \ {change[c].old}}
  /\ FileDone(c)
  /\ UNCHANGED <<picture, owned, key, made>>

(* The user, the administrator or the group is deleted; there is always a  *)
(* workspace.  No file is looked for.                                      *)
RowDeleted ==
  /\ owned /\ picture # "logo" /\ owned' = FALSE
  /\ UNCHANGED <<picture, key, files, made, change>>

FileAbandon(c) ==
  /\ change[c].pc # "idle"
  /\ FileDone(c)
  /\ UNCHANGED <<picture, owned, key, files, made>>

Upload(c) == \/ UploadAvatar(c) \/ UploadByConsole(c) \/ UploadAdminAvatar(c)
             \/ UploadGroupImage(c) \/ SetLogo(c)

Remove(c) == \/ RemoveAvatar(c) \/ RemoveByConsole(c) \/ RemoveAdminAvatar(c)
             \/ RemoveGroupImage(c) \/ ClearLogo(c)

FilesNext ==
  \/ \E c \in FileCalls : \/ Upload(c) \/ Remove(c) \/ PutFile(c) \/ NameFile(c)
                          \/ AuditChange(c) \/ DeleteOld(c) \/ FileAbandon(c)
  \/ RowDeleted

FilesSpec == FilesInit /\ [][FilesNext]_filesVars
-----------------------------------------------------------------------------
(* Properties. *)

(* The picture a row names can be shown: whatever uploads and removals run *)
(* at the same time, none deletes the file another one has just named.     *)
NamedFileStored == owned /\ key # NoFile => key \in files
=============================================================================
