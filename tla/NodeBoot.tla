------------------------------ MODULE NodeBoot ------------------------------
(***************************************************************************)
(* main.py from boot to boot: the organiser's key, the access point and    *)
(* the user directory, in the order main() brings them up, and what is     *)
(* left on disk when the process ends in between.                          *)
(*                                                                         *)
(* The access point is provisioned long before the try whose finally calls *)
(* its stop(): whatever main() raises before run_forever, and any crash,   *)
(* leaves the host with the node's settings until a later boot stops in    *)
(* order.                                                                  *)
(***************************************************************************)
EXTENDS OfflineCaches

CONSTANTS
    Choices,    \* see ApProvisioner
    MaxEdits    \* bound on the user's edits

ASSUME EditsAssumption == MaxEdits \in Nat

VARIABLES plist, backup, ap, wanted, spoiled, edits

INSTANCE ApProvisioner

apVars == <<plist, backup, ap, wanted, spoiled>>
bootVars == <<vars, apVars, edits>>

BootInit == Init /\ ApInit /\ edits = 0

\* The access point, when a step of the caches may have ended the process.
ApFollows == (IF phase' = "down" THEN Vanish ELSE UNCHANGED apVars) /\ UNCHANGED edits

BootKey == (FetchKey \/ WriteKey \/ Attest) /\ ApFollows

\* _provision_ap, between the key and the directory.
Provision ==
    /\ phase = "directory"
    /\ Skip \/ Load \/ Copy \/ Write
    /\ UNCHANGED <<vars, edits>>

ProvisionAborts ==
    /\ phase = "directory"
    /\ Abort /\ Die
    /\ UNCHANGED <<backend, keyFile, dirFile, boots, changes, served, edits>>

BootDirectory == Provisioned /\ LoadDirectory /\ UNCHANGED <<apVars, edits>>

SyncDirectory == Refresh /\ ApFollows

\* The finally of main(): directory.stop(), then, last, the access point's.
ShutDown ==
    /\ phase = "up"
    /\ Die /\ Restore
    /\ UNCHANGED <<backend, keyFile, dirFile, boots, changes, served, edits>>

CrashNode == Crash /\ ApFollows

UserEdits(choice) ==
    /\ phase = "down" /\ edits < MaxEdits
    /\ edits' = edits + 1
    /\ Edit(choice)
    /\ UNCHANGED vars

BackendTurns(reply) == ChangeBackend(reply) /\ UNCHANGED <<apVars, edits>>

BootNext ==
    \/ BootKey \/ Provision \/ ProvisionAborts \/ BootDirectory \/ SyncDirectory
    \/ ShutDown \/ CrashNode
    \/ \E choice \in Choices : UserEdits(choice)
    \/ \E reply \in Listings \cup Replies : BackendTurns(reply)

BootSpec == BootInit /\ [][BootNext]_bootVars

\* As in OfflineCaches: the sync thread's timer fires and its requests end.
FairBootSpec == BootSpec /\ WF_bootVars(SyncDirectory)

-----------------------------------------------------------------------------

\* Type correctness of a node from boot to boot.
BootTypeOK == TypeOK /\ ApTypeOK /\ edits \in 0 .. MaxEdits
=============================================================================
