----------------------- MODULE NodeCertDurabilityProofs -----------------------
(***************************************************************************)
(* What survives a power loss implements IdentityStore too, for every set  *)
(* of identities, when the only fault is the loss of power.                *)
(***************************************************************************)
EXTENDS NodeCertStoreProofs

USE DEF Files, CurrentSlot, PrevSlot, CERT_FILE, KEY_FILE, CERT_FILE_PREV,
        KEY_FILE_PREV

(* The machine may lose power; hence the build is the unix one.            *)
Unpowered == Tolerated /\ "power" \in Faults

(* How far the durable names are behind the running system's. Outside a    *)
(* rotation only deletions of .prev are behind, and none when .prev is     *)
(* what a load would fall back on; in the current slot only the name being *)
(* written is. The rest is where the new identity may already be.          *)
DurableInv ==
  /\ phase \notin WritePhases => incoming = None
  /\ \A f \in Files : disk[f] \in minted \cup {None} /\ stable[f] \in minted \cup {None}
  /\ incoming # None /\ incoming \in {disk[KEY_FILE], stable[KEY_FILE]}
       => file = KEY_FILE /\ phase = "syncdir"
  /\ incoming # None => \A f \in PrevSlot : incoming \notin {disk[f], stable[f]}
  /\ Writing({CERT_FILE_PREV}) => disk[KEY_FILE_PREV] = None
                               /\ disk[CERT_FILE_PREV] \in {None, retiring}
  /\ Writing({KEY_FILE_PREV}) => /\ stable[CERT_FILE_PREV] = retiring
                                 /\ disk[KEY_FILE_PREV] \in {None, retiring}
                                 /\ stable[KEY_FILE_PREV] \in {None, retiring}
  /\ ~ Writing(PrevSlot) => \A f \in PrevSlot : disk[f] \in {None, stable[f]}
  /\ DurableIdentity = None \/ Writing(CurrentSlot) => \A f \in PrevSlot : stable[f] = disk[f]
  /\ \A f \in CurrentSlot : stable[f] = disk[f] \/ (f = file /\ phase = "syncdir")
  /\ Writing({CERT_FILE}) => DurableIdentity \in {None, retiring}
  /\ phase = "retireCert" => disk[KEY_FILE_PREV] = None

DInv == IInv /\ DurableInv

LEMMA DurableInit == Init => DurableInv
  BY StoreAssumption
  DEF Init, DurableInv, NoFiles, Writing, WritePhases, DurableIdentity, from_parts

LEMMA DurableNext == Unpowered /\ DInv /\ [Next]_vars => DurableInv'
<1> SUFFICES ASSUME Unpowered, DInv, [Next]_vars PROVE DurableInv'
  OBVIOUS
<1> USE DEF DInv, IInv, TypeInv, TypeOK, WriteInv, LiveInv, DurableInv, WritePhases,
            Staged, CurHolds, PrevHolds, Settled, Writing, Phases, Unpowered, Tolerated,
            Separate, DurableIdentity
<1>1. CASE LoadExisting
  BY <1>1 DEF LoadExisting, fsVars, callVars
<1>2. CASE LoadRejected \/ RotateRefused
  BY <1>2 DEF LoadRejected, RotateRefused, vars, fsVars, callVars, histVars
<1>3. CASE Generate
  BY <1>3, StoreAssumption DEF Generate, Mint, Start, exists, from_parts
<1>4. CASE Rotate
  BY <1>4, StoreAssumption
  DEF Rotate, CanRotate, PrevOccupied, exists, Mint, Start, fsVars, CurrentIdentity,
      from_parts
<1>5. CASE RetirePrevious
  BY <1>5 DEF RetirePrevious, fsVars
<1>6. CASE StageOpen
  BY <1>6 DEF StageOpen, histVars
<1>7. CASE StageFill
  BY <1>7 DEF StageFill, histVars
<1>8. CASE StageSync
  BY <1>8 DEF StageSync, histVars
<1>9. CASE Rename \/ RenameAgain
  BY <1>9, StoreAssumption
  DEF Rename, RenameAgain, MoveStaged, histVars, from_parts
<1>10. CASE RemoveTarget
  BY <1>10, StoreAssumption DEF RemoveTarget
<1>11. CASE SyncDirMore
  BY <1>11, StoreAssumption
  DEF SyncDirMore, WriteBackNames, Start, NextFile, histVars, from_parts
<1>12. CASE SyncDirReturn
  BY <1>12, StoreAssumption DEF SyncDirReturn, WriteBackNames, from_parts
<1>13. CASE RetireKey
  BY <1>13, StoreAssumption DEF RetireKey, histVars, from_parts
<1>14. CASE RetireCert
  BY <1>14, StoreAssumption DEF RetireCert, from_parts
<1>15. CASE IoError \/ Crash
  BY <1>15 DEF IoError, Crash
<1>16. CASE PowerLoss
  BY <1>16 DEF PowerLoss, EndCall, histVars
<1>17. CASE WriteBack
  BY <1>17 DEF WriteBack, callVars, histVars, from_parts
<1>18. CASE UNCHANGED vars
  BY <1>18 DEF vars, fsVars, callVars, histVars
<1> QED
  BY <1>1, <1>2, <1>3, <1>4, <1>5, <1>6, <1>7, <1>8, <1>9, <1>10, <1>11, <1>12,
     <1>13, <1>14, <1>15, <1>16, <1>17, <1>18
  DEF Next, Call, AtomicWrite, Retire, Environment

LEMMA DInvAlways == ASSUME Unpowered PROVE Spec => []DInv
<1>1. Init => DInv
  BY TypeInit, LiveInit, DurableInit DEF DInv, IInv, Unpowered
<1>2. DInv /\ [Next]_vars => DInv'
  BY TypeNext, LiveNext, DurableNext DEF DInv, IInv, Unpowered
<1> QED
  BY <1>1, <1>2, PTL DEF Spec

-----------------------------------------------------------------------------
(* The refinement mapping, by name *)

current  == DurableRecoverable
previous == IF DurablePrevious = DurableRecoverable THEN None ELSE DurablePrevious
staged   == IF incoming = DurableIdentity THEN None ELSE incoming

(* The two ways the durable names can change between two steps: the past   *)
(* retirement shows, or the new identity takes the place of the old one.   *)
RetirementShows ==
  /\ current' = current /\ previous' \in {previous, None}
  /\ incoming = DurableIdentity <=> incoming = DurableIdentity'

IncomingShows ==
  /\ staged # None /\ current' = staged /\ DurableIdentity' = incoming
  /\ \/ current = None /\ previous' = previous
     \/ current # None /\ previous = None /\ previous' = current

(* Whichever names are written back, in whatever order, by fsync_dir, by   *)
(* the kernel or not before the power is lost: no other change is seen.    *)
LEMMA WrittenBack ==
  ASSUME Unpowered, DInv, \A f \in Files : stable'[f] \in {stable[f], disk[f]}
  PROVE  RetirementShows \/ IncomingShows
<1> USE DEF DInv, IInv, TypeInv, TypeOK, WriteInv, LiveInv, DurableInv, WritePhases,
            Staged, CurHolds, PrevHolds, Settled, Writing, Phases, Unpowered
<1>1. CASE phase \in WritePhases /\ file = CERT_FILE_PREV
  <2>1. DurableIdentity = retiring /\ DurableIdentity' = retiring /\ retiring \in Ids
    BY <1>1 DEF DurableIdentity, from_parts
  <2>2. DurablePrevious' \in {DurablePrevious, None, retiring}
    BY <1>1, <2>1, StoreAssumption DEF DurablePrevious, from_parts
  <2> QED
    BY <2>1, <2>2, StoreAssumption DEF RetirementShows, current, previous, DurableRecoverable
<1>2. CASE phase \in WritePhases /\ file = KEY_FILE_PREV
  <2>1. DurableIdentity = retiring /\ DurableIdentity' = retiring /\ retiring \in Ids
    BY <1>2 DEF DurableIdentity, from_parts
  <2>2. DurablePrevious' \in {None, retiring}
    BY <1>2, <2>1, StoreAssumption DEF DurablePrevious, from_parts
  <2> QED
    BY <2>1, <2>2, StoreAssumption DEF RetirementShows, current, previous, DurableRecoverable
<1>3. CASE phase \in WritePhases /\ file = CERT_FILE
  <2>1. DurablePrevious' = DurablePrevious
    BY <1>3 DEF DurablePrevious
  <2>2. incoming \in Ids /\ incoming \notin {DurableIdentity, DurableIdentity'}
    BY <1>3, StoreAssumption DEF DurableIdentity, from_parts
  <2>3. DurableIdentity' \in {None, DurableIdentity}
    BY <1>3, <2>2, StoreAssumption DEF DurableIdentity, from_parts
  <2>4. DurableIdentity \in {None, DurablePrevious}
    BY <1>3 DEF DurablePrevious, from_parts
  <2> QED
    BY <2>1, <2>2, <2>3, <2>4 DEF RetirementShows, current, previous, DurableRecoverable
<1>4. CASE phase \in WritePhases /\ file = KEY_FILE
  <2>1. DurablePrevious' = DurablePrevious /\ DurablePrevious # incoming /\ incoming \in Ids
    BY <1>4, StoreAssumption DEF DurablePrevious, from_parts
  <2>2. stable[CERT_FILE] = incoming /\ stable'[CERT_FILE] = incoming
    BY <1>4
  <2>3. DurableIdentity \in {None, incoming} /\ DurableIdentity' \in {None, incoming}
    BY <2>2 DEF DurableIdentity, from_parts
  <2>4. DurableIdentity = incoming => DurableIdentity' = incoming
    BY <1>4, <2>1, <2>2, StoreAssumption DEF DurableIdentity, from_parts
  <2> QED
    BY <2>1, <2>3, <2>4, StoreAssumption
    DEF RetirementShows, IncomingShows, current, previous, staged, DurableRecoverable
<1>5. CASE phase \notin WritePhases
  <2>1. DurableIdentity' = DurableIdentity
    BY <1>5 DEF DurableIdentity
  <2>2. DurablePrevious' \in {DurablePrevious, None}
    BY <1>5, StoreAssumption DEF DurablePrevious, from_parts
  <2>3. DurableIdentity = None => DurablePrevious' = DurablePrevious
    BY <1>5 DEF DurablePrevious
  <2> QED
    BY <2>1, <2>2, <2>3, StoreAssumption
    DEF RetirementShows, current, previous, DurableRecoverable
<1> QED
  BY <1>1, <1>2, <1>3, <1>4, <1>5

(* A name holds after a power loss what it held before, or what was last   *)
(* written back: no bytes are lost, since none are dirty.                  *)
LEMMA PowerLossKeeps ==
  ASSUME Unpowered, DInv, PowerLoss
  PROVE  \A f \in Files : stable'[f] \in {stable[f], disk[f]}
  BY DEF PowerLoss, DInv, IInv, TypeInv, TypeOK, WriteInv, LiveInv, Unpowered

-----------------------------------------------------------------------------
(* The refinement *)

LEMMA DurableStoreInit == Init => DurableStore!Init
  BY StoreAssumption
  DEF Init, DurableStore!Init, DurableRecoverable, DurableIdentity, DurablePrevious,
      from_parts, NoFiles

LEMMA DurableStoreStep ==
  ASSUME Unpowered, DInv, [Next]_vars
  PROVE  [DurableStore!Next]_DurableStore!storeVars
<1> USE DEF DurableStore!Next, DurableStore!storeVars
<1>1. CASE Generate \/ Rotate
  <2>1. UNCHANGED stable /\ incoming = None /\ Mint
    BY <1>1 DEF Generate, Rotate, fsVars, DInv, DurableInv, WritePhases
  <2>2. DurableIdentity \in minted \cup {None}
    BY DEF DInv, DurableInv, DurableIdentity, from_parts
  <2>3. UNCHANGED <<DurableIdentity, DurablePrevious>>
    BY <2>1 DEF DurableIdentity, DurablePrevious
  <2>4. PICK i \in Ids \ minted : incoming' = i /\ minted' = minted \cup {i}
    BY <2>1 DEF Mint
  <2>5. staged = None /\ staged' = i
    BY <2>1, <2>2, <2>3, <2>4, StoreAssumption DEF staged
  <2>6. DurableStore!Stage
    BY <2>3, <2>4, <2>5 DEF DurableStore!Stage, staged, DurableRecoverable
  <2> QED
    BY <2>6
<1>2. CASE WriteBack \/ SyncDirMore
  <2>1. \A f \in Files : stable'[f] \in {stable[f], disk[f]}
    BY <1>2, StoreAssumption
    DEF WriteBack, SyncDirMore, WriteBackNames, DInv, IInv, TypeInv, WriteInv
  <2>2. UNCHANGED <<incoming, minted>>
    BY <1>2 DEF WriteBack, SyncDirMore, callVars, histVars
  <2>3. CASE RetirementShows
    <3>1. staged' = staged
      BY <2>2, <2>3 DEF RetirementShows, staged
    <3>2. UNCHANGED DurableStore!storeVars \/ DurableStore!Retire
      BY <2>2, <2>3, <3>1 DEF RetirementShows, DurableStore!Retire, current, previous, staged
    <3> QED
      BY <3>2
  <2>4. CASE IncomingShows
    <3>1. staged' = None
      BY <2>2, <2>4 DEF IncomingShows, staged
    <3>2. DurableStore!Create \/ DurableStore!Replace
      BY <2>2, <2>4, <3>1
      DEF IncomingShows, DurableStore!Create, DurableStore!Replace, current, previous, staged
    <3> QED
      BY <3>2
  <2> QED
    BY <2>1, <2>3, <2>4, WrittenBack
<1>3. CASE PowerLoss \/ SyncDirReturn
  <2>1. \A f \in Files : stable'[f] \in {stable[f], disk[f]}
    BY <1>3, PowerLossKeeps
    DEF SyncDirReturn, WriteBackNames, DInv, IInv, TypeInv, TypeOK, WriteInv
  <2>2. staged' = None /\ UNCHANGED minted
    BY <1>3 DEF PowerLoss, EndCall, SyncDirReturn, histVars, staged
  <2>3. CASE RetirementShows
    <3>1. \/ UNCHANGED DurableStore!storeVars
          \/ DurableStore!Retire
          \/ DurableStore!Abandon
      BY <2>2, <2>3
      DEF RetirementShows, DurableStore!Retire, DurableStore!Abandon, current, previous, staged
    <3> QED
      BY <3>1
  <2>4. CASE IncomingShows
    <3>1. DurableStore!Create \/ DurableStore!Replace
      BY <2>2, <2>4
      DEF IncomingShows, DurableStore!Create, DurableStore!Replace, current, previous, staged
    <3> QED
      BY <3>1
  <2> QED
    BY <2>1, <2>3, <2>4, WrittenBack
<1>4. CASE IoError \/ Crash
  BY <1>4 DEF IoError, Crash, Unpowered, Tolerated, Separate
<1>5. CASE LoadExisting \/ LoadRejected \/ RotateRefused \/ RetirePrevious \/ StageOpen
           \/ StageFill \/ StageSync \/ Rename \/ RemoveTarget \/ RenameAgain \/ RetireKey
           \/ RetireCert \/ UNCHANGED vars
  <2>1. UNCHANGED <<stable, incoming, minted>>
    BY <1>5 DEF LoadExisting, LoadRejected, RotateRefused, RetirePrevious, StageOpen,
                StageFill, StageSync, Rename, RemoveTarget, RenameAgain, MoveStaged,
                RetireKey, RetireCert, vars, fsVars, callVars, histVars
  <2>2. UNCHANGED DurableStore!storeVars
    BY <2>1 DEF DurableRecoverable, DurableIdentity, DurablePrevious
  <2> QED
    BY <2>2
<1> QED
  BY <1>1, <1>2, <1>3, <1>4, <1>5
  DEF Next, Call, AtomicWrite, Retire, Environment

(* A power loss at any moment leaves the identity before the call or the   *)
(* one after it, and a retirement, once durable, is never undone.          *)
THEOREM DurablyImplements ==
  ASSUME Unpowered PROVE Spec => DurablyImplementsIdentityStore
  BY DurableStoreInit, DurableStoreStep, DInvAlways, PTL
  DEF Spec, DurableStore!Spec, DurablyImplementsIdentityStore

=============================================================================
