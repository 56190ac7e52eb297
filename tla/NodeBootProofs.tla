--------------------------- MODULE NodeBootProofs ---------------------------
(***************************************************************************)
(* Proofs about the boots of a node, for any set of listings and settings, *)
(* any faults of the backend and the disk, and any number of boots.  What  *)
(* is proved of the caches alone (OfflineCaches) holds of the whole boot,  *)
(* since the composition with the access point implements them, and the    *)
(* user's sharing settings are safe in it.                                 *)
(***************************************************************************)
EXTENDS NodeBoot, TLAPS

-----------------------------------------------------------------------------
(* The caches alone. *)

\* Initially the types hold.
LEMMA InitTypes == Init => TypeOK
  <1> SUFFICES ASSUME Init PROVE TypeOK
    OBVIOUS
  <1>1. boots \in 0 .. MaxBoots /\ changes \in 0 .. MaxChanges
    BY BoundsAssumption DEF Init
  <1>2. syncing \in BOOLEAN
    BY DEF Init
  <1> QED
    BY <1>1, <1>2 DEF Init, TypeOK, Phases

\* Every action, and so every step, preserves the types.
LEMMA StepTypes == TypeOK /\ [Next]_vars => TypeOK'
  <1> SUFFICES ASSUME TypeOK, [Next]_vars PROVE TypeOK'
    OBVIOUS
  <1> USE RepliesAssumption, ListingsAssumption, BoundsAssumption DEF TypeOK, Phases
  <1>1. CASE FetchKey
    BY <1>1 DEF FetchKey, FallBack
  <1>2. CASE WriteKey
    BY <1>2 DEF WriteKey, FallBack
  <1>3. CASE LoadDirectory
    BY <1>3 DEF LoadDirectory, Loaded
  <1>4. CASE RefreshFails
    BY <1>4 DEF RefreshFails, Return
  <1>5. CASE RefreshMeetsBadRow
    BY <1>5 DEF RefreshMeetsBadRow, Raise, Die
  <1>6. CASE RefreshIndexes
    BY <1>6 DEF RefreshIndexes, Die
  <1>7. CASE WriteDirectory
    BY <1>7 DEF WriteDirectory, Return, Raise, Die
  <1>8. CASE Crash
    BY <1>8 DEF Crash, Die
  <1>9. ASSUME NEW reply \in Listings \cup Replies, ChangeBackend(reply)
        PROVE  TypeOK'
    BY <1>9 DEF ChangeBackend
  <1>10. CASE Attest
    BY <1>10 DEF Attest, Die
  <1>11. CASE UNCHANGED vars
    BY <1>11 DEF vars
  <1> QED
    BY <1>1, <1>2, <1>3, <1>4, <1>5, <1>6, <1>7, <1>8, <1>9, <1>10, <1>11 DEF Next, Refresh

\* The caches always have their types.
THEOREM TypeCorrect == Spec => []TypeOK
  BY InitTypes, StepTypes, PTL DEF Spec

-----------------------------------------------------------------------------

\* The file and what is being written to it come from the backend too; without
\* this a restart could load anything.
FilesWereServed ==
    /\ dirFile \in Listings => dirFile \in served
    /\ writing # NoFile => writing \in served

ServedInv == TypeOK /\ FilesWereServed /\ IndexWasServed

\* A step keeps the index and the file among the listings served so far.
LEMMA StepServed == ServedInv /\ [Next]_vars => ServedInv'
  <1> SUFFICES ASSUME ServedInv, [Next]_vars PROVE FilesWereServed' /\ IndexWasServed'
    BY StepTypes DEF ServedInv
  <1> USE ListingsAssumption DEF ServedInv, FilesWereServed, IndexWasServed
  <1>1. CASE FetchKey
    BY <1>1 DEF FetchKey
  <1>2. CASE WriteKey
    BY <1>2 DEF WriteKey
  <1>3. CASE LoadDirectory
    BY <1>3 DEF LoadDirectory, Loaded, TypeOK
  <1>4. CASE RefreshFails
    BY <1>4 DEF RefreshFails
  <1>5. CASE RefreshMeetsBadRow
    BY <1>5 DEF RefreshMeetsBadRow, Raise, Die
  <1>6. CASE RefreshIndexes
    BY <1>6 DEF RefreshIndexes, Die
  <1>7. CASE WriteDirectory
    BY <1>7 DEF WriteDirectory, Return, Raise, Die
  <1>8. CASE Crash
    BY <1>8 DEF Crash, Die
  <1>9. ASSUME NEW reply \in Listings \cup Replies, ChangeBackend(reply)
        PROVE  FilesWereServed' /\ IndexWasServed'
    BY <1>9 DEF ChangeBackend
  <1>10. CASE Attest
    BY <1>10 DEF Attest, Die
  <1>11. CASE UNCHANGED vars
    BY <1>11 DEF vars
  <1> QED
    BY <1>1, <1>2, <1>3, <1>4, <1>5, <1>6, <1>7, <1>8, <1>9, <1>10, <1>11 DEF Next, Refresh

\* Identities are only ever resolved against a listing the backend served in
\* full, whatever is cut off by crashes and disk failures.
THEOREM ServedIndex == Spec => []IndexWasServed
  <1>1. Init => ServedInv
    BY InitTypes, ListingsAssumption
    DEF Init, ServedInv, FilesWereServed, IndexWasServed
  <1>2. ServedInv => IndexWasServed
    BY DEF ServedInv
  <1> QED
    BY <1>1, <1>2, StepServed, PTL DEF Spec

-----------------------------------------------------------------------------

\* refresh writes the file only after the key was loaded.
WritesWhenKeyed == writing # NoFile => phase \in {"sync", "up"}

KeyInv == TypeOK /\ WritesWhenKeyed /\ NoNodeWithoutKey

\* A step leaves no running node without a key.
LEMMA StepKey == KeyInv /\ [Next]_vars => KeyInv'
  <1> SUFFICES ASSUME KeyInv, [Next]_vars PROVE WritesWhenKeyed' /\ NoNodeWithoutKey'
    BY StepTypes DEF KeyInv
  <1> USE DEF KeyInv, WritesWhenKeyed, NoNodeWithoutKey
  <1>1. CASE FetchKey
    BY <1>1 DEF FetchKey, FallBack
  <1>2. CASE WriteKey
    BY <1>2 DEF WriteKey, FallBack
  <1>3. CASE LoadDirectory
    BY <1>3 DEF LoadDirectory
  <1>4. CASE RefreshFails
    BY <1>4 DEF RefreshFails, Refreshing, Return
  <1>5. CASE RefreshMeetsBadRow
    BY <1>5 DEF RefreshMeetsBadRow, Raise, Die
  <1>6. CASE RefreshIndexes
    BY <1>6 DEF RefreshIndexes, Refreshing, Die
  <1>7. CASE WriteDirectory
    BY <1>7 DEF WriteDirectory, Return, Raise, Die
  <1>8. CASE Crash
    BY <1>8 DEF Crash, Die
  <1>9. ASSUME NEW reply \in Listings \cup Replies, ChangeBackend(reply)
        PROVE  WritesWhenKeyed' /\ NoNodeWithoutKey'
    BY <1>9 DEF ChangeBackend
  <1>10. CASE Attest
    BY <1>10 DEF Attest, Die
  <1>11. CASE UNCHANGED vars
    BY <1>11 DEF vars
  <1> QED
    BY <1>1, <1>2, <1>3, <1>4, <1>5, <1>6, <1>7, <1>8, <1>9, <1>10, <1>11 DEF Next, Refresh

\* A node that is past load_organiser_pubkey has a key, and a wrong one only
\* where its cache file was cut off.
THEOREM KeyedNodes == Spec => []NoNodeWithoutKey
  <1>1. Init => KeyInv
    BY InitTypes DEF Init, KeyInv, WritesWhenKeyed, NoNodeWithoutKey
  <1>2. KeyInv => NoNodeWithoutKey
    BY DEF KeyInv
  <1> QED
    BY <1>1, <1>2, StepKey, PTL DEF Spec

-----------------------------------------------------------------------------
(* The composition with the access point. *)

\* Every step of a booting node is a step of the caches or leaves them alone:
\* to them an orderly stop, and an abort in _provision_ap, is a crash.
LEMMA StepsOfCaches == [BootNext]_bootVars => [Next]_vars
  <1> SUFFICES ASSUME [BootNext]_bootVars PROVE [Next]_vars
    OBVIOUS
  <1>1. CASE BootKey
    BY <1>1 DEF BootKey, Next
  <1>2. CASE Provision
    BY <1>2 DEF Provision
  <1>3. CASE ProvisionAborts
    <2>1. Crash
      BY <1>3 DEF ProvisionAborts, Crash
    <2> QED
      BY <2>1 DEF Next
  <1>4. CASE BootDirectory
    BY <1>4 DEF BootDirectory, Next
  <1>5. CASE SyncDirectory
    BY <1>5 DEF SyncDirectory, Next
  <1>6. CASE ShutDown
    <2>1. Crash
      BY <1>6 DEF ShutDown, Crash
    <2> QED
      BY <2>1 DEF Next
  <1>7. CASE CrashNode
    BY <1>7 DEF CrashNode, Next
  <1>8. ASSUME NEW choice \in Choices, UserEdits(choice)
        PROVE  [Next]_vars
    BY <1>8 DEF UserEdits
  <1>9. ASSUME NEW reply \in Listings \cup Replies, BackendTurns(reply)
        PROVE  [Next]_vars
    BY <1>9 DEF BackendTurns, Next
  <1>10. CASE UNCHANGED bootVars
    BY <1>10 DEF bootVars
  <1> QED
    BY <1>1, <1>2, <1>3, <1>4, <1>5, <1>6, <1>7, <1>8, <1>9, <1>10 DEF BootNext

\* A booting node implements OfflineCaches: the access point, its failures and
\* its restore never disturb what the node keeps to run without internet.
THEOREM BootImplementsCaches == BootSpec => Spec
  <1>1. BootInit => Init
    BY DEF BootInit
  <1> QED
    BY <1>1, StepsOfCaches, PTL DEF BootSpec, Spec

\* So whatever the access point does to a boot, a node that is up has a key and
\* resolves identities only against a listing the backend served.
THEOREM BootedNodes == BootSpec => [](NoNodeWithoutKey /\ IndexWasServed)
  BY BootImplementsCaches, KeyedNodes, ServedIndex, PTL

-----------------------------------------------------------------------------

\* start() gets to its write without a backup only if there was nothing to save.
WritesWhenSaved == ap = "write" /\ backup = NoFile => plist = NoFile

SafeInv == WritesWhenSaved /\ OriginalIsSafe

\* A step of the access point.
ApStep ==
    \/ Skip \/ Load \/ Copy \/ Write \/ Restore \/ Vanish
    \/ \E choice \in Choices : Edit(choice)
    \/ UNCHANGED apVars

LEMMA StepsOfAccessPoint == [BootNext]_bootVars => ApStep
  <1> SUFFICES ASSUME [BootNext]_bootVars PROVE ApStep
    OBVIOUS
  <1> USE DEF ApStep
  <1>1. CASE BootKey \/ SyncDirectory \/ CrashNode
    BY <1>1 DEF BootKey, SyncDirectory, CrashNode, ApFollows
  <1>2. CASE Provision
    BY <1>2 DEF Provision
  <1>3. CASE ProvisionAborts
    BY <1>3 DEF ProvisionAborts, Abort, apVars
  <1>4. CASE BootDirectory
    BY <1>4 DEF BootDirectory
  <1>5. CASE ShutDown
    BY <1>5 DEF ShutDown
  <1>6. CASE \E choice \in Choices : UserEdits(choice)
    BY <1>6 DEF UserEdits
  <1>7. CASE \E reply \in Listings \cup Replies : BackendTurns(reply)
    BY <1>7 DEF BackendTurns
  <1>8. CASE UNCHANGED bootVars
    BY <1>8 DEF bootVars, apVars
  <1> QED
    BY <1>1, <1>2, <1>3, <1>4, <1>5, <1>6, <1>7, <1>8 DEF BootNext

LEMMA StepApTypes == ApTypeOK /\ ApStep => ApTypeOK'
  <1> SUFFICES ASSUME ApTypeOK, ApStep PROVE ApTypeOK'
    OBVIOUS
  <1> USE DEF ApTypeOK, ApSteps
  <1>1. CASE Skip
    BY <1>1 DEF Skip
  <1>2. CASE Load
    BY <1>2 DEF Load, Files
  <1>3. CASE Copy
    BY <1>3 DEF Copy
  <1>4. CASE Write
    <2>1. Merge(plist) \in Files
      BY DEF Merge, Files, Settings
    <2> QED
      BY <1>4, <2>1 DEF Write
  <1>5. CASE Restore
    BY <1>5 DEF Restore, Files
  <1>6. CASE Vanish
    BY <1>6 DEF Vanish
  <1>7. ASSUME NEW choice \in Choices, Edit(choice) PROVE ApTypeOK'
    BY <1>7 DEF Edit, Files, Settings
  <1>8. CASE UNCHANGED apVars
    BY <1>8 DEF apVars
  <1> QED
    BY <1>1, <1>2, <1>3, <1>4, <1>5, <1>6, <1>7, <1>8 DEF ApStep

LEMMA StepEdits == edits \in 0 .. MaxEdits /\ [BootNext]_bootVars => (edits \in 0 .. MaxEdits)'
  BY EditsAssumption DEF BootNext, BootKey, Provision, ProvisionAborts, BootDirectory,
     SyncDirectory, ShutDown, CrashNode, UserEdits, BackendTurns, ApFollows, bootVars

\* A node has its types from boot to boot, the host's settings included.
THEOREM BootTypeCorrect == BootSpec => []BootTypeOK
  <1>1. BootInit => ApTypeOK /\ edits \in 0 .. MaxEdits
    <2> SUFFICES ASSUME BootInit PROVE ApTypeOK /\ edits \in 0 .. MaxEdits
      OBVIOUS
    <2>1. plist \in Settings \cup {NoFile}
      BY DEF BootInit, ApInit, Settings
    <2>2. ApTypeOK
      BY <2>1 DEF BootInit, ApInit, ApTypeOK, ApSteps, Files
    <2>3. edits \in 0 .. MaxEdits
      BY EditsAssumption DEF BootInit
    <2> QED
      BY <2>2, <2>3
  <1>2. BootSpec => [](ApTypeOK /\ edits \in 0 .. MaxEdits)
    BY <1>1, StepsOfAccessPoint, StepApTypes, StepEdits, PTL DEF BootSpec
  <1> QED
    BY <1>2, BootImplementsCaches, TypeCorrect, PTL DEF BootTypeOK

\* No step loses the settings the user made, or overwrites them unsaved.
LEMMA StepSafe == SafeInv /\ ApStep => SafeInv'
  <1> SUFFICES ASSUME SafeInv, ApStep PROVE SafeInv'
    OBVIOUS
  <1> USE ListingsAssumption DEF SafeInv, WritesWhenSaved, OriginalIsSafe
  <1>1. CASE Skip
    BY <1>1 DEF Skip
  <1>2. CASE Load
    BY <1>2 DEF Load
  <1>3. CASE Copy
    BY <1>3 DEF Copy
  <1>4. CASE Write
    BY <1>4 DEF Write
  <1>5. CASE Restore
    BY <1>5 DEF Restore, Provisioned
  <1>6. CASE Vanish
    BY <1>6 DEF Vanish
  <1>7. ASSUME NEW choice \in Choices, Edit(choice) PROVE SafeInv'
    BY <1>7 DEF Edit
  <1>8. CASE UNCHANGED apVars
    BY <1>8 DEF apVars
  <1> QED
    BY <1>1, <1>2, <1>3, <1>4, <1>5, <1>6, <1>7, <1>8 DEF ApStep

\* Whatever sequence of boots, crashes, disk failures, aborts and stops, the
\* settings the user last made are in the file or in the backup, untouched.
THEOREM SettingsSafe == BootSpec => []OriginalIsSafe
  <1>1. BootInit => SafeInv
    BY DEF BootInit, ApInit, SafeInv, WritesWhenSaved, OriginalIsSafe
  <1>2. SafeInv /\ [BootNext]_bootVars => SafeInv'
    BY StepSafe, StepsOfAccessPoint
  <1>3. SafeInv => OriginalIsSafe
    BY DEF SafeInv
  <1> QED
    BY <1>1, <1>2, <1>3, PTL DEF BootSpec
=============================================================================
