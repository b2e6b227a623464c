-------------------------------- MODULE Disk --------------------------------
(***************************************************************************)
(* What a power loss leaves of a directory.  A file is created, renamed    *)
(* into place or unlinked at once for every process, but for the disk only *)
(* when its directory is synced; until then a power loss keeps or undoes   *)
(* each change on its own.  A directory is a function from names to        *)
(* entries.                                                                *)
(***************************************************************************)

\* What a directory entry can be: never created (or durably removed), renamed
\* into place but not yet synced, durable, removed but not yet synced.
Entry == {"absent", "visible", "durable", "unlinked"}
OnDisk(entry) == entry \in {"visible", "durable"}

\* A rename over an entry that is already durable leaves an entry whatever
\* a power loss does: the file before or the file after the rename.
Published(entry) == IF entry = "durable" THEN "durable" ELSE "visible"

Removed(entry) == IF OnDisk(entry) THEN "unlinked" ELSE entry

Synced(entry) == IF OnDisk(entry) THEN "durable" ELSE "absent"

\* syncDirectory: every entry of the directory becomes durable.
SyncDir(dir) == [e \in DOMAIN dir |-> Synced(dir[e])]

\* Entries a power loss may keep or drop.
Unsynced(dir) == {e \in DOMAIN dir : dir[e] \in {"visible", "unlinked"}}
AfterPowerLoss(dir, kept) ==
  [e \in DOMAIN dir |-> IF e \notin Unsynced(dir) THEN dir[e]
                        ELSE IF e \in kept THEN "durable" ELSE "absent"]
=============================================================================
