----------------------- MODULE NodeCertRefinementProofs -----------------------
(***************************************************************************)
(* NodeCertStore implements IdentityStore, for every set of identities and *)
(* on both platforms, when calls fail and processes die but the machine    *)
(* keeps its power.                                                        *)
(***************************************************************************)
EXTENDS NodeCertStoreProofs

USE DEF Files, CurrentSlot, PrevSlot, CERT_FILE, KEY_FILE, CERT_FILE_PREV,
        KEY_FILE_PREV

(* What a running call has not written yet: nothing holds the new identity *)
(* until the key of the current pair does, a rotation finds .prev empty,   *)
(* and a retirement deletes the key first.                                 *)
StagedInv ==
  /\ phase \notin WritePhases => incoming = None
  /\ \A f \in Files : disk[f] \in minted \cup {None}
  /\ incoming # None /\ disk[KEY_FILE] = incoming => file = KEY_FILE /\ phase = "syncdir"
  /\ incoming # None => \A f \in PrevSlot : disk[f] # incoming
  /\ Writing({CERT_FILE_PREV}) =>
       /\ disk[KEY_FILE_PREV] = None
       /\ phase # "syncdir" => disk[CERT_FILE_PREV] = None
  /\ Writing({KEY_FILE_PREV}) /\ phase # "syncdir" => disk[KEY_FILE_PREV] = None
  /\ Writing({CERT_FILE}) => CurrentIdentity \in {None, retiring}
  /\ phase = "retireCert" => disk[KEY_FILE_PREV] = None

RInv == IInv /\ StagedInv

LEMMA StagedInit == Init => StagedInv
  BY DEF Init, StagedInv, NoFiles, Writing, WritePhases, CurrentIdentity, from_parts

LEMMA StagedNext == Powered /\ RInv /\ [Next]_vars => StagedInv'
<1> SUFFICES ASSUME Powered, RInv, [Next]_vars PROVE StagedInv'
  OBVIOUS
<1> USE DEF RInv, IInv, TypeInv, TypeOK, WriteInv, LiveInv, StagedInv, WritePhases,
            Staged, CurHolds, PrevHolds, Writing, Phases, Powered
<1>1. CASE LoadExisting
  BY <1>1 DEF LoadExisting, fsVars, callVars, CurrentIdentity
<1>2. CASE LoadRejected \/ RotateRefused
  BY <1>2 DEF LoadRejected, RotateRefused, vars, fsVars, callVars, histVars, CurrentIdentity
<1>3. CASE Generate
  BY <1>3, StoreAssumption DEF Generate, Mint, Start, exists, CurrentIdentity, from_parts
<1>4. CASE Rotate
  BY <1>4, StoreAssumption
  DEF Rotate, CanRotate, PrevOccupied, exists, Mint, Start, fsVars, CurrentIdentity,
      from_parts
<1>5. CASE RetirePrevious
  BY <1>5 DEF RetirePrevious, fsVars
<1>6. CASE StageOpen
  BY <1>6 DEF StageOpen, histVars, CurrentIdentity
<1>7. CASE StageFill
  BY <1>7 DEF StageFill, histVars, CurrentIdentity
<1>8. CASE StageSync
  BY <1>8 DEF StageSync, histVars, CurrentIdentity
<1>9. CASE Rename \/ RenameAgain
  BY <1>9, StoreAssumption
  DEF Rename, RenameAgain, MoveStaged, histVars, CurrentIdentity, from_parts
<1>10. CASE RemoveTarget
  BY <1>10, StoreAssumption DEF RemoveTarget, histVars, exists, CurrentIdentity, from_parts
<1>11. CASE SyncDirMore
  BY <1>11 DEF SyncDirMore, Start, NextFile, histVars, CurrentIdentity, from_parts
<1>12. CASE SyncDirReturn
  BY <1>12 DEF SyncDirReturn
<1>13. CASE RetireKey
  BY <1>13, StoreAssumption DEF RetireKey, histVars
<1>14. CASE RetireCert
  BY <1>14, StoreAssumption DEF RetireCert
<1>15. CASE IoError
  BY <1>15 DEF IoError, EndCall, fsVars, histVars
<1>16. CASE Crash
  BY <1>16 DEF Crash, EndCall, fsVars, histVars
<1>17. CASE PowerLoss \/ WriteBack
  BY <1>17 DEF PowerLoss, WriteBack
<1>18. CASE UNCHANGED vars
  BY <1>18 DEF vars, fsVars, callVars, histVars, CurrentIdentity
<1> QED
  BY <1>1, <1>2, <1>3, <1>4, <1>5, <1>6, <1>7, <1>8, <1>9, <1>10, <1>11, <1>12,
     <1>13, <1>14, <1>15, <1>16, <1>17, <1>18
  DEF Next, Call, AtomicWrite, Retire, Environment

LEMMA RInvAlways == ASSUME Powered PROVE Spec => []RInv
<1>1. Init => RInv
  BY TypeInit, LiveInit, StagedInit DEF RInv, IInv, Powered
<1>2. RInv /\ [Next]_vars => RInv'
  BY TypeNext, LiveNext, StagedNext DEF RInv, IInv, Powered
<1> QED
  BY <1>1, <1>2, PTL DEF Spec

-----------------------------------------------------------------------------
(* The refinement mapping, by name *)

current  == Recoverable
previous == IF load_previous = Recoverable THEN None ELSE load_previous
staged   == IF incoming = CurrentIdentity THEN None ELSE incoming

Invisible == UNCHANGED <<current, previous, staged, minted>>

(* A step that moves neither slot, nor the new identity, is not seen.      *)
LEMMA StutterUnseen ==
  ASSUME UNCHANGED <<CurrentIdentity, load_previous, incoming, minted>>
  PROVE  Invisible
  BY DEF Invisible, current, previous, staged, Recoverable

(* A call generates its identity and has written nothing yet: Stage.       *)
LEMMA MintStages ==
  ASSUME Powered, RInv, Generate \/ Rotate
  PROVE  /\ staged = None /\ UNCHANGED <<current, previous>>
         /\ \E i \in Ids \ minted : staged' = i /\ minted' = minted \cup {i}
<1>1. UNCHANGED disk /\ Mint /\ phase = "idle"
  BY DEF Generate, Rotate, fsVars
<1>2. incoming = None /\ staged = None
  BY <1>1 DEF staged, RInv, StagedInv, WritePhases
<1>3. CurrentIdentity \in minted \cup {None}
  BY DEF RInv, StagedInv, CurrentIdentity, from_parts
<1>4. PICK i \in Ids \ minted : incoming' = i /\ minted' = minted \cup {i}
  BY <1>1 DEF Mint
<1>5. staged' = i
  BY <1>1, <1>3, <1>4, SlotsFollowDisk, StoreAssumption DEF staged
<1> QED
  BY <1>1, <1>2, <1>4, <1>5, SlotsFollowDisk DEF current, previous, Recoverable

(* The rename of node.key, the last of the call, is the step that creates  *)
(* or replaces the current identity; the other three are not seen.         *)
LEMMA RenameReplaces ==
  ASSUME Powered, RInv, Rename \/ RenameAgain
  PROVE  \/ Invisible
         \/ /\ staged # None /\ current' = staged /\ staged' = None /\ minted' = minted
            /\ \/ current = None /\ previous' = previous
               \/ current # None /\ previous = None /\ previous' = current
<1> USE DEF RInv, IInv, TypeInv, TypeOK, WriteInv, LiveInv, StagedInv, WritePhases,
            Staged, CurHolds, PrevHolds, Writing, Phases
<1>1. /\ phase \in {"rename", "replace"} /\ disk' = [disk EXCEPT ![file] = Staged]
      /\ UNCHANGED <<file, incoming, retiring, minted>>
  BY DEF Rename, RenameAgain, MoveStaged, histVars
<1>2. CASE file = CERT_FILE_PREV
  <2>1. UNCHANGED <<CurrentIdentity, load_previous>>
    BY <1>1, <1>2, StoreAssumption DEF CurrentIdentity, load_previous, from_parts
  <2> QED
    BY <1>1, <2>1, StutterUnseen
<1>3. CASE file = KEY_FILE_PREV
  <2>1. CurrentIdentity = retiring /\ retiring \in Ids
    BY <1>1, <1>3 DEF CurrentIdentity, from_parts
  <2>2. CurrentIdentity' = CurrentIdentity
    BY <1>1, <1>3 DEF CurrentIdentity
  <2>3. load_previous = None /\ load_previous' = retiring
    BY <1>1, <1>3, <2>1, StoreAssumption DEF load_previous, from_parts
  <2> QED
    BY <1>1, <2>1, <2>2, <2>3, StoreAssumption
    DEF Invisible, current, previous, staged, Recoverable
<1>4. CASE file = CERT_FILE
  <2>1. load_previous' = load_previous
    BY <1>1, <1>4 DEF load_previous
  <2>2. CurrentIdentity' = None /\ incoming \in Ids
    BY <1>1, <1>4, StoreAssumption DEF CurrentIdentity, from_parts
  <2>3. CurrentIdentity \in {None, load_previous} /\ CurrentIdentity # incoming
    BY <1>1, <1>4, <2>2, StoreAssumption DEF CurrentIdentity, load_previous, from_parts
  <2> QED
    BY <1>1, <2>1, <2>2, <2>3, StoreAssumption
    DEF Invisible, current, previous, staged, Recoverable
<1>5. CASE file = KEY_FILE
  <2>1. load_previous' = load_previous /\ load_previous # incoming
    BY <1>1, <1>5, StoreAssumption DEF load_previous, from_parts
  <2>2. CurrentIdentity' = incoming /\ incoming \in Ids
    BY <1>1, <1>5 DEF CurrentIdentity, from_parts
  <2>3. CurrentIdentity = None
    BY <1>1, <1>5, <2>2 DEF CurrentIdentity, from_parts
  <2> QED
    BY <1>1, <2>1, <2>2, <2>3, StoreAssumption DEF current, previous, staged, Recoverable
<1> QED
  BY <1>2, <1>3, <1>4, <1>5 DEF TypeInv

(* Removing the target, on windows, is not seen: the pair it breaks is one *)
(* being replaced, whose identity .prev already holds.                     *)
LEMMA RemoveUnseen ==
  ASSUME Powered, RInv, RemoveTarget
  PROVE  Invisible
<1> USE DEF RInv, IInv, TypeInv, TypeOK, WriteInv, LiveInv, StagedInv, WritePhases,
            Staged, CurHolds, PrevHolds, Writing, Phases
<1>1. /\ phase = "rename" /\ disk' = [disk EXCEPT ![file] = None]
      /\ file \in CurrentSlot /\ UNCHANGED <<incoming, minted>>
  BY DEF RemoveTarget, exists, histVars
<1>2. load_previous' = load_previous
  BY <1>1 DEF load_previous
<1>3. CurrentIdentity' = None /\ incoming \in Ids
  BY <1>1, StoreAssumption DEF CurrentIdentity, from_parts
<1>4. CurrentIdentity \in {None, load_previous} /\ CurrentIdentity # incoming
  BY <1>1, <1>3, StoreAssumption DEF CurrentIdentity, load_previous, from_parts
<1> QED
  BY <1>1, <1>2, <1>3, <1>4, StoreAssumption
  DEF Invisible, current, previous, staged, Recoverable

(* Deleting the previous key is the step that retires, if it retires.      *)
LEMMA UnlinkRetires ==
  ASSUME Powered, RInv, RetireKey
  PROVE  \/ Invisible
         \/ previous # None /\ previous' = None /\ UNCHANGED <<current, staged, minted>>
<1>1. CurrentIdentity \in Ids /\ CurrentIdentity' = CurrentIdentity
  BY DEF RetireKey, RInv, IInv, TypeInv, TypeOK, LiveInv, CurHolds, CurrentIdentity,
         from_parts
<1>2. load_previous' = None
  BY StoreAssumption DEF RetireKey, RInv, IInv, TypeInv, TypeOK, load_previous, from_parts
<1>3. UNCHANGED <<incoming, minted>>
  BY DEF RetireKey, histVars
<1> QED
  BY <1>1, <1>2, <1>3, StoreAssumption DEF Invisible, current, previous, staged, Recoverable

-----------------------------------------------------------------------------
(* The refinement *)

LEMMA StoreInit == Init => Store!Init
  BY StoreAssumption
  DEF Init, Store!Init, Recoverable, CurrentIdentity, load_previous, from_parts, NoFiles

LEMMA StoreStep ==
  ASSUME Powered, RInv, [Next]_vars
  PROVE  [Store!Next]_Store!storeVars
<1> USE DEF Store!Next, Store!storeVars
<1>0. ASSUME Invisible PROVE UNCHANGED Store!storeVars
  BY <1>0 DEF Invisible, current, previous, staged
<1>1. CASE Generate \/ Rotate
  <2>1. Store!Stage
    BY <1>1, MintStages DEF Store!Stage, current, previous, staged
  <2> QED
    BY <2>1
<1>2. CASE Rename \/ RenameAgain
  <2>1. Invisible \/ Store!Create \/ Store!Replace
    BY <1>2, RenameReplaces DEF Store!Create, Store!Replace, current, previous, staged
  <2> QED
    BY <1>0, <2>1
<1>3. CASE RemoveTarget
  BY <1>0, <1>3, RemoveUnseen
<1>4. CASE RetireKey
  <2>1. Invisible \/ Store!Retire
    BY <1>4, UnlinkRetires DEF Store!Retire, current, previous, staged
  <2> QED
    BY <1>0, <2>1
<1>5. CASE RetireCert
  <2>1. load_previous = None /\ load_previous' = None
    BY <1>5, StoreAssumption
    DEF RetireCert, RInv, StagedInv, IInv, TypeInv, TypeOK, load_previous, from_parts
  <2>2. UNCHANGED <<CurrentIdentity, incoming, minted>>
    BY <1>5 DEF RetireCert, CurrentIdentity
  <2> QED
    BY <1>0, <2>1, <2>2, StutterUnseen
<1>6. CASE SyncDirReturn
  <2>1. CurrentIdentity = incoming /\ UNCHANGED disk /\ incoming' = None /\ UNCHANGED minted
    BY <1>6 DEF SyncDirReturn, RInv, IInv, TypeInv, TypeOK, WriteInv, LiveInv, Writing,
                WritePhases, Staged, CurrentIdentity, from_parts
  <2>2. Invisible
    BY <2>1, SlotsFollowDisk DEF Invisible, current, previous, staged, Recoverable
  <2> QED
    BY <1>0, <2>2
<1>7. CASE IoError \/ Crash
  <2>1. UNCHANGED disk /\ incoming' = None /\ UNCHANGED minted
    BY <1>7 DEF IoError, Crash, EndCall, fsVars, histVars
  <2>2. staged' = None /\ UNCHANGED <<current, previous, minted>>
    BY <2>1, SlotsFollowDisk DEF current, previous, staged, Recoverable
  <2>3. Invisible \/ Store!Abandon
    BY <2>2 DEF Invisible, Store!Abandon, current, previous, staged
  <2> QED
    BY <1>0, <2>3
<1>8. CASE PowerLoss \/ WriteBack
  BY <1>8 DEF PowerLoss, WriteBack, Powered
<1>9. CASE LoadExisting \/ LoadRejected \/ RotateRefused \/ RetirePrevious \/ StageOpen
           \/ StageFill \/ StageSync \/ SyncDirMore \/ UNCHANGED vars
  <2>1. UNCHANGED disk /\ UNCHANGED <<incoming, minted>>
    BY <1>9 DEF LoadExisting, LoadRejected, RotateRefused, RetirePrevious, StageOpen,
                StageFill, StageSync, SyncDirMore, Start, vars, fsVars, callVars, histVars
  <2> QED
    BY <1>0, <2>1, SlotsFollowDisk, StutterUnseen
<1> QED
  BY <1>1, <1>2, <1>3, <1>4, <1>5, <1>6, <1>7, <1>8, <1>9
  DEF Next, Call, AtomicWrite, Retire, Environment

(* Every behaviour of the dozen file operations of a call, its failures    *)
(* and process deaths is one of the abstract store: each call takes effect *)
(* in one step or never.                                                   *)
THEOREM Implements == ASSUME Powered PROVE Spec => ImplementsIdentityStore
  BY StoreInit, StoreStep, RInvAlways, PTL DEF Spec, Store!Spec, ImplementsIdentityStore

-----------------------------------------------------------------------------
(* Where the keys are *)

(* A key is staged only on its way to a name that does not hold it, and a  *)
(* staged key that was left behind is that of no identity in a slot: when  *)
(* the previous key is unlinked, no other file has it.                     *)
ErasedInv ==
  /\ RetiredKeyErased
  /\ retired \subseteq minted /\ retiring \in minted \cup {None}
  /\ \A f \in Files : tmp[f] \in minted \cup {None, Torn}
  /\ incoming # None => /\ incoming \notin retired /\ incoming # retiring
                        /\ tmp[KEY_FILE_PREV] # incoming
  /\ disk[KEY_FILE_PREV] # None => tmp[KEY_FILE_PREV] = None
  /\ tmp[KEY_FILE] \in Ids =>
       tmp[KEY_FILE] \notin {disk[KEY_FILE], disk[KEY_FILE_PREV], retiring, tmp[KEY_FILE_PREV]}
  /\ phase \in {"retireKey", "retireCert"} => held # None
  /\ phase = "retireKey" => retiring \in {None, disk[KEY_FILE_PREV]}
  /\ phase = "retireCert" /\ retiring # None => tmp[KEY_FILE_PREV] = None

LEMMA ErasedInit == Init => ErasedInv
  BY StoreAssumption DEF Init, ErasedInv, RetiredKeyErased, NoFiles

LEMMA ErasedNext == Powered /\ RInv /\ ErasedInv /\ [Next]_vars => ErasedInv'
<1> SUFFICES ASSUME Powered, RInv, ErasedInv, [Next]_vars PROVE ErasedInv'
  OBVIOUS
<1> USE DEF RInv, IInv, TypeInv, TypeOK, WriteInv, LiveInv, StagedInv, WritePhases,
            Staged, CurHolds, PrevHolds, Writing, Phases, ErasedInv, RetiredKeyErased
<1>1. CASE LoadExisting
  BY <1>1 DEF LoadExisting, fsVars, callVars
<1>2. CASE LoadRejected \/ RotateRefused
  BY <1>2 DEF LoadRejected, RotateRefused, vars, fsVars, callVars, histVars
<1>3. CASE Generate
  BY <1>3, StoreAssumption DEF Generate, Mint, Start
<1>4. CASE Rotate
  BY <1>4, StoreAssumption
  DEF Rotate, CanRotate, Mint, Start, fsVars, CurrentIdentity, from_parts
<1>5. CASE RetirePrevious
  BY <1>5, StoreAssumption
  DEF RetirePrevious, MayRetire, fsVars, load_previous, from_parts, Powered, Tolerated
<1>6. CASE StageOpen
  BY <1>6, StoreAssumption DEF StageOpen, histVars
<1>7. CASE StageFill
  BY <1>7, StoreAssumption DEF StageFill, histVars
<1>8. CASE StageSync
  BY <1>8 DEF StageSync, histVars
<1>9. CASE Rename \/ RenameAgain
  BY <1>9, StoreAssumption DEF Rename, RenameAgain, MoveStaged, histVars
<1>10. CASE RemoveTarget
  BY <1>10, StoreAssumption DEF RemoveTarget, exists, histVars
<1>11. CASE SyncDirMore
  BY <1>11 DEF SyncDirMore, Start, NextFile, histVars
<1>12. CASE SyncDirReturn
  BY <1>12, StoreAssumption DEF SyncDirReturn
<1>13. CASE RetireKey
  BY <1>13, StoreAssumption DEF RetireKey, histVars
<1>14. CASE RetireCert
  BY <1>14, StoreAssumption DEF RetireCert
<1>15. CASE IoError
  BY <1>15, StoreAssumption DEF IoError, EndCall, fsVars, histVars
<1>16. CASE Crash
  BY <1>16, StoreAssumption DEF Crash, EndCall, fsVars, histVars
<1>17. CASE PowerLoss \/ WriteBack
  BY <1>17 DEF PowerLoss, WriteBack, Powered
<1>18. CASE UNCHANGED vars
  BY <1>18 DEF vars, fsVars, callVars, histVars
<1> QED
  BY <1>1, <1>2, <1>3, <1>4, <1>5, <1>6, <1>7, <1>8, <1>9, <1>10, <1>11, <1>12,
     <1>13, <1>14, <1>15, <1>16, <1>17, <1>18
  DEF Next, Call, AtomicWrite, Retire, Environment

(* When retire_previous has returned Ok, neither a file nor a staging file *)
(* has the retired key, whatever failed or died before.                    *)
THEOREM Erased == ASSUME Powered PROVE Spec => []RetiredKeyErased
<1>1. RInv /\ ErasedInv /\ [Next]_vars => ErasedInv'
  BY ErasedNext
<1>2. ErasedInv => RetiredKeyErased
  BY DEF ErasedInv
<1> QED
  BY <1>1, <1>2, ErasedInit, RInvAlways, PTL DEF Spec

=============================================================================
