--------------------------- MODULE ApProvisioner ----------------------------
(***************************************************************************)
(* The phone-facing access point of a macOS node                           *)
(* (node/wifi_ap/internet_sharing.py): start() saves the host's sharing    *)
(* settings once, merges the deployment's network into them, and stop()    *)
(* moves the saved file back.  The user may change the settings while the  *)
(* node is down.  The hostapd backend leaves nothing behind to restore.    *)
(*                                                                         *)
(* os.replace and a rename are atomic; shutil.copy2 is not: it creates the *)
(* target and then fills it.  shutil.move is a rename, since backup and    *)
(* file are in one directory; the copy it makes where a rename is refused  *)
(* is left out.  What a file holds is the user's part of the settings and  *)
(* whether the node's network is merged into it.                           *)
(***************************************************************************)
CONSTANTS
    Choices,        \* what the user may set sharing to
    NoFile, Torn,   \* a file that does not exist, one that is cut off
    DiskFails       \* whether open, copy, write and rename may raise OSError

VARIABLES
    plist,      \* NAT_PLIST
    backup,     \* NAT_PLIST_BACKUP
    ap,         \* how far start() is
    \* For the properties.
    wanted,     \* what the user last set, or NoFile
    spoiled     \* a copy was cut off, or the user edited under an old backup

\* {} in place of the user's part: there was no file, or none that parses.
Default == "default"

Settings == [user : Choices \cup {Default}, merged : BOOLEAN]
Files == Settings \cup {NoFile, Torn}

\* idle: start() has not been called; off: nothing to provision here.
ApSteps == {"idle", "off", "copy", "write", "failed", "up"}

ApInit ==
    /\ plist \in {NoFile} \cup [user : Choices, merged : {FALSE}]
    /\ backup = NoFile
    /\ ap = "idle"
    /\ wanted = plist
    /\ spoiled = FALSE

-----------------------------------------------------------------------------
(* start() *)

\* Provisioning is off, or not for this platform, the deployment file is
\* missing, the node is not root, or the backend is hostapd.
Skip ==
    /\ ap = "idle"
    /\ ap' = "off"
    /\ UNCHANGED <<plist, backup, wanted, spoiled>>

\* The settings are saved on every start.
LoadAndSaveAgain ==
    /\ ap = "idle"
    /\ IF plist = NoFile
       THEN ap' = "write" /\ UNCHANGED backup
       ELSE \/ ap' = "copy" /\ backup' = Torn
            \/ DiskFails /\ ap' = "failed" /\ UNCHANGED backup
    /\ UNCHANGED <<plist, wanted, spoiled>>

\* _write_sharing_config: copy2 opens its target unless a backup exists.
Load ==
    /\ ap = "idle"
    /\ IF plist = NoFile \/ backup # NoFile
       THEN ap' = "write" /\ UNCHANGED backup
       ELSE \/ ap' = "copy" /\ backup' = Torn
            \/ DiskFails /\ ap' = "failed" /\ UNCHANGED backup
    /\ UNCHANGED <<plist, wanted, spoiled>>

\* A file that is cut off inside its XML raises ExpatError, which nobody
\* catches; one that is cut off to nothing counts as {}.
Abort ==
    /\ ap = "idle"
    /\ plist = Torn
    /\ UNCHANGED <<plist, backup, ap, wanted, spoiled>>

\* copy2 completes, or raises and leaves its target as it is.
Copy ==
    /\ ap = "copy"
    /\ \/ ap' = "write" /\ backup' = plist /\ UNCHANGED spoiled
       \/ DiskFails /\ ap' = "failed" /\ spoiled' = TRUE /\ UNCHANGED backup
    /\ UNCHANGED <<plist, wanted>>

Merge(file) ==
    [user |-> IF file \in {NoFile, Torn} THEN Default ELSE file.user, merged |-> TRUE]

\* The merged settings are written beside the file and replace it; whether the
\* sharing job then runs and verify_consistency agrees is only logged.
Write ==
    /\ ap = "write"
    /\ \/ ap' = "up" /\ plist' = Merge(plist)
       \/ DiskFails /\ ap' = "failed" /\ UNCHANGED plist
    /\ UNCHANGED <<backup, wanted, spoiled>>

\* start() has returned.
Provisioned == ap \in {"off", "failed", "up"}

-----------------------------------------------------------------------------

\* stop(), also after a start() that failed.
Restore ==
    /\ Provisioned
    /\ ap' = "idle"
    /\ \/ /\ ap # "off" /\ backup # NoFile
          /\ plist' = backup /\ backup' = NoFile
       \/ /\ ap = "off" \/ backup = NoFile \/ DiskFails
          /\ UNCHANGED <<plist, backup>>
    /\ UNCHANGED <<wanted, spoiled>>

\* The process ends without stop().
Vanish ==
    /\ ap' = "idle"
    /\ spoiled' = (spoiled \/ ap = "copy")
    /\ UNCHANGED <<plist, backup, wanted>>

\* While the node is down the user sets up sharing in the system's settings.
Edit(choice) ==
    /\ ap = "idle"
    /\ plist' = [user |-> choice, merged |-> FALSE]
    /\ wanted' = plist'
    /\ spoiled' = (spoiled \/ backup # NoFile)
    /\ UNCHANGED <<backup, ap>>

-----------------------------------------------------------------------------

\* Type correctness of the host's settings.
ApTypeOK ==
    /\ plist \in Files /\ backup \in Files /\ wanted \in Settings \cup {NoFile}
    /\ ap \in ApSteps
    /\ spoiled \in BOOLEAN

\* "back the original up once for stop() to restore"
\* (internet_sharing.py:132): at every moment, over any crashes, failed steps
\* and restarts, what the user last set exists untouched, in the file itself
\* while there is nothing to move back and in the backup from then on.  So
\* the next stop() that runs to its end gives it back.  Excepted are a copy
\* that was cut off and an edit under the backup of a node that crashed.
OriginalIsSafe ==
    wanted # NoFile /\ ~spoiled =>
        IF backup = NoFile \/ ap = "copy" THEN plist = wanted ELSE backup = wanted
=============================================================================
