--------------------------- MODULE OfflineCaches ----------------------------
(***************************************************************************)
(* What a node keeps on disk to run without internet, over boots, crashes  *)
(* and backend outages: the organiser's public key                         *)
(* (node/attestation/organiser_key.py) and the user directory              *)
(* (node/directory/cache.py), in the order main.py brings them up.         *)
(*                                                                         *)
(* Both files are written with write_text, which first truncates the file; *)
(* a crash or a full disk in between leaves it Torn.  An uncaught          *)
(* exception ends the process, or the directory-sync thread if it happens  *)
(* there.                                                                  *)
(***************************************************************************)
EXTENDS Naturals, FiniteSets

CONSTANTS
    Listings,   \* directories the backend may list, none of them empty
    Empty,      \* the directory without users
    Replies,    \* what else a request may meet: a subset of Faults
    DiskFails,  \* whether mkdir, open and write may raise OSError
    NoFile, Torn,   \* a file that does not exist, one that is cut off
    MaxBoots,   \* bound on boots
    MaxChanges  \* bound on changes of the backend

\* No connection.  A body that does not parse, or an object without the field
\* that is read from it.  A directory of another shape: a list where an object is
\* expected (TypeError), or a row without a key.
Faults == {"offline", "garbled", "badrow"}

ASSUME RepliesAssumption == Replies \subseteq Faults /\ DiskFails \in BOOLEAN
ASSUME ListingsAssumption ==
    Listings \cap (Faults \cup {NoFile, Torn, Empty}) = {} /\ NoFile # Torn
ASSUME BoundsAssumption == MaxBoots \in Nat /\ MaxChanges \in Nat

VARIABLES
    backend,    \* a listing or a fault
    phase,      \* how far the process is in main()
    key,        \* organiser_pubkey: "none", "torn" or "good"
    keyFile,    \* ORGANISER_KEY_CACHE, likewise
    index,      \* _by_username and _by_ed_id: Empty or a listing
    dirFile,    \* the directory's _cache_path: NoFile, Torn or a listing
    writing,    \* the listing refresh is writing, or NoFile
    syncing,    \* the directory-sync thread is alive
    boots, changes,
    \* For the properties.
    served      \* well-formed listings the backend has served so far

vars == <<backend, phase, key, keyFile, index, dirFile, writing, syncing, boots, changes,
          served>>

Phases == {"down", "key", "attest", "directory", "sync", "up"}

Init ==
    /\ backend \in Listings \cup Replies
    /\ phase = "down"
    /\ key = "none" /\ keyFile = "none"
    /\ index = Empty /\ dirFile = NoFile /\ writing = NoFile
    /\ syncing = FALSE
    /\ boots = 0 /\ changes = 0
    /\ served = {}

\* The process ends: a crash, a reboot, or an exception that reaches main.
Die ==
    /\ phase' = "down" /\ key' = "none" /\ index' = Empty
    /\ writing' = NoFile /\ syncing' = FALSE

-----------------------------------------------------------------------------
(* load_organiser_pubkey *)

\* The handler of OSError: the cached copy, or RuntimeError.
FallBack ==
    IF keyFile # "none"
    THEN key' = keyFile /\ phase' = "attest"
    ELSE phase' = "down" /\ UNCHANGED key

\* Without a cached copy the node runs on, unable to check any token.
FetchKeyOpen ==
    /\ phase = "down" /\ boots < MaxBoots
    /\ boots' = boots + 1
    /\ key' = keyFile /\ phase' = "attest"
    /\ UNCHANGED <<backend, keyFile, index, dirFile, writing, syncing, changes, served>>

\* One request; the answer is written to the cache file before it is used.
FetchKey ==
    /\ phase = "down" /\ boots < MaxBoots
    /\ boots' = boots + 1
    /\ \/ /\ backend = "offline" \/ (DiskFails /\ backend # "garbled")
          /\ FallBack /\ UNCHANGED keyFile
       \/ /\ backend = "garbled"        \* ValueError, KeyError, TypeError: not caught
          /\ UNCHANGED <<phase, key, keyFile>>
       \/ /\ backend \notin {"offline", "garbled"}
          /\ keyFile' = "torn" /\ phase' = "key" /\ UNCHANGED key
    /\ UNCHANGED <<backend, index, dirFile, writing, syncing, changes, served>>

\* write_text completes, or its OSError is taken for an unreachable backend.
WriteKey ==
    /\ phase = "key"
    /\ \/ /\ keyFile' = "good" /\ key' = "good" /\ phase' = "attest"
       \/ /\ DiskFails
          /\ FallBack /\ UNCHANGED keyFile
    /\ UNCHANGED <<backend, index, dirFile, writing, syncing, boots, changes, served>>

\* AttestationCache (external) may or may not refuse a key that is cut off.
Attest ==
    /\ phase = "attest"
    /\ \/ /\ phase' = "directory" /\ UNCHANGED <<key, index, writing, syncing>>
       \/ /\ key = "torn" /\ Die
    /\ UNCHANGED <<backend, keyFile, dirFile, boots, changes, served>>

-----------------------------------------------------------------------------
(* DirectoryCache *)

\* A file that was cut off is indexed as far as it goes.
LoadedLeniently(file) ==
    IF file = NoFile THEN Empty ELSE IF file = Torn THEN CHOOSE l \in Listings : TRUE ELSE file

\* __init__ ignores a cache file that does not parse.
Loaded(file) == IF file \in {NoFile, Torn} THEN Empty ELSE file

LoadDirectory ==
    /\ phase = "directory"
    /\ phase' = "sync" /\ index' = Loaded(dirFile)
    /\ UNCHANGED <<backend, key, keyFile, dirFile, writing, syncing, boots, changes, served>>

\* start() calls refresh once, then the sync thread calls it for ever.
Refreshing == writing = NoFile /\ (phase = "sync" \/ (phase = "up" /\ syncing))

\* refresh returns.
Return == phase' = "up" /\ syncing' = TRUE

\* refresh raises: out of start() and main(), or out of the thread.
Raise ==
    IF phase = "sync" THEN Die
    ELSE syncing' = FALSE /\ writing' = NoFile /\ UNCHANGED <<phase, key, index>>

\* OSError, ValueError and KeyError of the request and its body are caught.
RefreshFails ==
    /\ Refreshing
    /\ backend \in {"offline", "garbled"}
    /\ Return
    /\ UNCHANGED <<backend, key, keyFile, index, dirFile, writing, boots, changes, served>>

\* The index is replaced row by row, and the bad row ends it.
RefreshIndexesBadRow ==
    /\ Refreshing
    /\ backend = "badrow"
    /\ index' = backend
    /\ phase' = "up" /\ syncing' = FALSE
    /\ UNCHANGED <<backend, key, keyFile, dirFile, writing, boots, changes, served>>

\* The body is no object, which raises TypeError past the except clause, or
\* _index raises on one of its rows; nothing has been replaced yet.
RefreshMeetsBadRow ==
    /\ Refreshing
    /\ backend = "badrow"
    /\ Raise
    /\ UNCHANGED <<backend, keyFile, dirFile, boots, changes, served>>

\* A directory that is already there is only written to disk.
RefreshOnce ==
    /\ Refreshing
    /\ backend \in Listings
    /\ served' = served \cup {backend}
    /\ index' = IF index = Empty THEN backend ELSE index
    /\ writing' = backend /\ dirFile' = Torn
    /\ UNCHANGED <<backend, phase, key, keyFile, syncing, boots, changes>>

\* The index is replaced, then the file is opened for writing.
RefreshIndexes ==
    /\ Refreshing
    /\ backend \in Listings
    /\ served' = served \cup {backend}
    /\ \/ /\ index' = backend /\ writing' = backend /\ dirFile' = Torn
          /\ UNCHANGED <<phase, key, syncing>>
       \/ /\ DiskFails /\ phase = "up"
          /\ index' = backend /\ syncing' = FALSE
          /\ UNCHANGED <<phase, key, writing, dirFile>>
       \/ /\ DiskFails /\ phase = "sync"
          /\ Die /\ UNCHANGED dirFile
    /\ UNCHANGED <<backend, keyFile, boots, changes>>

WriteDirectory ==
    /\ writing # NoFile
    /\ \/ /\ dirFile' = writing /\ writing' = NoFile
          /\ Return /\ UNCHANGED <<key, index>>
       \/ /\ DiskFails
          /\ Raise /\ UNCHANGED <<dirFile>>
    /\ UNCHANGED <<backend, keyFile, boots, changes, served>>

-----------------------------------------------------------------------------

\* At any moment: a power cut, a kill, or an orderly stop.
Crash ==
    /\ phase # "down"
    /\ Die
    /\ UNCHANGED <<backend, keyFile, dirFile, boots, changes, served>>

ChangeBackend(reply) ==
    /\ changes < MaxChanges
    /\ changes' = changes + 1
    /\ backend' = reply
    /\ UNCHANGED <<phase, key, keyFile, index, dirFile, writing, syncing, boots, served>>

Refresh == RefreshFails \/ RefreshMeetsBadRow \/ RefreshIndexes \/ WriteDirectory

Next ==
    \/ FetchKey \/ WriteKey \/ Attest \/ LoadDirectory \/ Refresh \/ Crash
    \/ \E reply \in Listings \cup Replies : ChangeBackend(reply)

Spec == Init /\ [][Next]_vars

\* The sync thread's timer keeps firing, and its requests end (timeout_s).
FairSpec == Spec /\ WF_vars(Refresh)

-----------------------------------------------------------------------------

\* Type correctness of the caches.
TypeOK ==
    /\ backend \in Listings \cup Replies
    /\ phase \in Phases
    /\ key \in {"none", "torn", "good"} /\ keyFile \in {"none", "torn", "good"}
    /\ index \in Listings \cup {Empty}
    /\ dirFile \in Listings \cup {NoFile, Torn}
    /\ writing \in Listings \cup {NoFile}
    /\ syncing \in BOOLEAN
    /\ boots \in 0 .. MaxBoots /\ changes \in 0 .. MaxChanges
    /\ served \subseteq Listings

\* Identities are resolved only against a listing the backend really served,
\* in full: never against part of one, whatever crash or disk failure cut the
\* cache file off and whatever the backend answered since.
IndexWasServed == index # Empty => index \in served

\* "running step 7 open would silently re-open the Sybil hole": a node that
\* got past the key has a key, and has the good one unless an interrupted or
\* failed write cut its cache file off.
NoNodeWithoutKey ==
    /\ phase \in {"attest", "directory", "sync", "up"} => key # "none"
    /\ key = "torn" => keyFile = "torn"

\* When the backend comes back and stays, the directory of a running node
\* whose sync thread is alive becomes what the backend lists, after any run of
\* outages, garbled answers and restarts from old cache files.
DirectoryTracksBackend ==
    \A l \in Listings : <>[](phase = "up" /\ syncing /\ backend = l) => <>[](index = l)

\* cache.py:9: the directory is "refreshed from GET /directory/sync at the
\* heartbeat cadence", and refresh "keeps the previous copy on any failure":
\* after any failure, a running node catches up with the backend.
DirectoryCatchesUp ==
    \A l \in Listings : <>[](phase = "up" /\ backend = l) => <>[](index = l)
=============================================================================
