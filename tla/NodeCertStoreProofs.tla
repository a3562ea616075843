------------------------- MODULE NodeCertStoreProofs -------------------------
(***************************************************************************)
(* Safety of NodeCertStore for every set of identities and every set of    *)
(* faults the theorems allow.                                              *)
(***************************************************************************)
EXTENDS NodeCertStore, TLAPS

(* Where an atomic_write is: what it staged, what it has put in place, and *)
(* that it never puts in place what it has not flushed.                    *)
WriteInv ==
  /\ dirty = {}
  /\ \A f \in Files : disk[f] # Torn /\ stable[f] # Torn
  /\ phase \in {"sync", "rename", "replace"} => tmp[file] = Staged
  /\ phase \in {"rename", "replace"} => flushed
  /\ phase = "syncdir" => disk[file] = Staged

TypeInv == TypeOK /\ WriteInv

USE DEF Files, CurrentSlot, PrevSlot, CERT_FILE, KEY_FILE, CERT_FILE_PREV,
        KEY_FILE_PREV

-----------------------------------------------------------------------------
(* Typing, and the progress of one atomic_write *)

(* What an atomic_write stages is always a whole identity (Staged).        *)
LEMMA StagedIsIdentity ==
  ASSUME TypeOK, phase \in WritePhases
  PROVE  Staged \in Ids
  BY DEF TypeOK, Staged

(* A slot reads as an identity or as nothing (from_parts).                 *)
LEMMA SlotType ==
  /\ CurrentIdentity \in Ids \cup {None}
  /\ load_previous \in Ids \cup {None}
  BY DEF CurrentIdentity, load_previous, from_parts

(* What the slots read as is a matter of the files alone.                  *)
LEMMA SlotsFollowDisk ==
  ASSUME UNCHANGED disk
  PROVE  UNCHANGED <<CurrentIdentity, load_previous>>
  BY DEF CurrentIdentity, load_previous

LEMMA TypeInit == Init => TypeInv
  BY StoreAssumption
  DEF Init, TypeInv, TypeOK, WriteInv, NoFiles, Contents, Phases, WritePhases

(* Every step keeps the types and the progress of the running write.       *)
LEMMA TypeNext == TypeInv /\ [Next]_vars => TypeInv'
<1> SUFFICES ASSUME TypeInv, [Next]_vars PROVE TypeInv'
  OBVIOUS
<1> USE DEF TypeInv, TypeOK, WriteInv, Phases, WritePhases, Staged, Contents
<1>1. CASE LoadExisting
  BY <1>1, SlotType DEF LoadExisting, fsVars, callVars
<1>2. CASE LoadRejected \/ RotateRefused
  BY <1>2 DEF LoadRejected, RotateRefused, vars, fsVars, callVars, histVars
<1>3. CASE Generate
  BY <1>3 DEF Generate, Mint, Start
<1>4. CASE Rotate
  BY <1>4, SlotType DEF Rotate, CanRotate, Mint, Start, fsVars
<1>5. CASE RetirePrevious
  BY <1>5, SlotType DEF RetirePrevious, fsVars
<1>6. CASE StageOpen
  BY <1>6, StoreAssumption DEF StageOpen, histVars
<1>7. CASE StageFill
  BY <1>7, StagedIsIdentity DEF StageFill, histVars
<1>8. CASE StageSync
  BY <1>8 DEF StageSync, histVars
<1>9. CASE Rename \/ RenameAgain
  BY <1>9, StagedIsIdentity, StoreAssumption DEF Rename, RenameAgain, MoveStaged, histVars
<1>10. CASE RemoveTarget
  BY <1>10, StoreAssumption DEF RemoveTarget, histVars
<1>11. CASE SyncDirMore
  BY <1>11, StagedIsIdentity DEF SyncDirMore, WriteBackNames, Start, NextFile, histVars
<1>12. CASE SyncDirReturn
  BY <1>12 DEF SyncDirReturn, WriteBackNames
<1>13. CASE RetireKey
  BY <1>13, StoreAssumption DEF RetireKey, histVars
<1>14. CASE RetireCert
  BY <1>14, StoreAssumption DEF RetireCert
<1>15. CASE IoError
  BY <1>15 DEF IoError, EndCall, fsVars, histVars
<1>16. CASE Crash
  BY <1>16 DEF Crash, EndCall, fsVars, histVars
<1>17. CASE PowerLoss
  BY <1>17, StoreAssumption DEF PowerLoss, EndCall, histVars, NoFiles
<1>18. CASE WriteBack
  BY <1>18 DEF WriteBack, callVars, histVars
<1>19. CASE UNCHANGED vars
  BY <1>19 DEF vars, fsVars, callVars, histVars
<1> QED
  BY <1>1, <1>2, <1>3, <1>4, <1>5, <1>6, <1>7, <1>8, <1>9, <1>10, <1>11, <1>12,
     <1>13, <1>14, <1>15, <1>16, <1>17, <1>18, <1>19
  DEF Next, Call, AtomicWrite, Retire, Environment

(* Every reachable state is well typed, and a call writes only identities. *)
THEOREM TypeCorrect == Spec => []TypeOK
<1>1. TypeInv => TypeOK
  BY DEF TypeInv
<1> QED
  BY <1>1, TypeInit, TypeNext, PTL DEF Spec

(* No file is ever torn, whatever the faults: each rename installs bytes   *)
(* that were written in full and flushed first.                            *)
THEOREM NeverTorn == Spec => []NoTornFile
<1>1. TypeInv => NoTornFile
  BY DEF TypeInv, WriteInv, NoTornFile
<1> QED
  BY <1>1, TypeInit, TypeNext, PTL DEF Spec

-----------------------------------------------------------------------------
(* Which slot holds the live identity *)

(* A process that dies or fails leaves changes only the page cache knows   *)
(* of, and a load then returns an identity a later power loss takes back;  *)
(* so the two kinds of faults are covered one at a time.                   *)
Separate == "power" \in Faults => Faults = {"power"} /\ DirPreexists

(* The conditions under which an identity is never lost: besides, the      *)
(* caller retires only when its identity has converged.                    *)
Tolerated == Separate /\ Discipline = "converged"

(* Calls fail and processes die, but the machine keeps its power.          *)
Powered == Tolerated /\ "power" \notin Faults

(* The name f survives a power loss as it is. *)
Settled(f) == "power" \in Faults => stable[f] = disk[f]

CurHolds(i)  == \A f \in CurrentSlot : disk[f] = i /\ Settled(f)
PrevHolds(i) == \A f \in PrevSlot    : disk[f] = i /\ Settled(f)

Writing(S) == phase \in WritePhases /\ file \in S

(* rotate and load_or_generate write in an order that leaves the identity  *)
(* being replaced in one whole slot: the current one until .prev is done,  *)
(* the .prev one from then on.                                             *)
LiveInv ==
  /\ held # None => held = live
  /\ "power" \in Faults => dir = "stable"
  /\ ~ Writing(CurrentSlot) => \A f \in CurrentSlot : Settled(f)
  /\ Writing(PrevSlot) => /\ CurHolds(retiring)
                          /\ live # None => live = retiring
  /\ Writing({KEY_FILE_PREV}) => disk[CERT_FILE_PREV] = retiring
  /\ Writing({KEY_FILE}) => disk[CERT_FILE] = incoming
  /\ Writing(CurrentSlot) => /\ retiring # None => PrevHolds(retiring)
                             /\ live # None => PrevHolds(live)
  /\ phase \in {"retireKey", "retireCert"} => live # None /\ CurHolds(live)
  /\ phase = "idle" => retiring = None
  /\ phase = "idle" /\ live # None => CurHolds(live) \/ PrevHolds(live)

IInv == TypeInv /\ LiveInv

LEMMA LiveInit == Tolerated /\ Init => LiveInv
  BY StoreAssumption
  DEF Tolerated, Separate, Init, LiveInv, CurHolds, PrevHolds, Settled, Writing,
      WritePhases, NoFiles

(* Every step keeps the live identity in one whole slot.                   *)
LEMMA LiveNext == Tolerated /\ IInv /\ [Next]_vars => LiveInv'
<1> SUFFICES ASSUME Tolerated, IInv, [Next]_vars PROVE LiveInv'
  OBVIOUS
<1> USE DEF IInv, TypeInv, TypeOK, WriteInv, LiveInv, WritePhases, Staged,
            CurHolds, PrevHolds, Settled, Writing, Tolerated, Separate, Phases
<1>1. CASE LoadExisting
  BY <1>1 DEF LoadExisting, fsVars, callVars, CurrentIdentity, from_parts
<1>2. CASE LoadRejected \/ RotateRefused
  BY <1>2 DEF LoadRejected, RotateRefused, vars, fsVars, callVars, histVars
<1>3. CASE Generate
  BY <1>3 DEF Generate, Mint, Start, exists
<1>4. CASE Rotate
  BY <1>4 DEF Rotate, CanRotate, PrevOccupied, exists, Mint, Start, fsVars,
              CurrentIdentity, from_parts
<1>5. CASE RetirePrevious
  BY <1>5 DEF RetirePrevious, MayRetire, fsVars, CurrentIdentity, from_parts
<1>6. CASE StageOpen
  BY <1>6 DEF StageOpen, histVars
<1>7. CASE StageFill
  BY <1>7 DEF StageFill, histVars
<1>8. CASE StageSync
  BY <1>8 DEF StageSync, histVars
<1>9. CASE Rename \/ RenameAgain
  BY <1>9 DEF Rename, RenameAgain, MoveStaged, histVars
<1>10. CASE RemoveTarget
  BY <1>10, StoreAssumption DEF RemoveTarget, histVars
<1>11. CASE SyncDirMore
  BY <1>11, StoreAssumption
  DEF SyncDirMore, WriteBackNames, Start, NextFile, histVars
<1>12. CASE SyncDirReturn
  BY <1>12, StoreAssumption DEF SyncDirReturn, WriteBackNames
<1>13. CASE RetireKey
  BY <1>13 DEF RetireKey, histVars
<1>14. CASE RetireCert
  BY <1>14 DEF RetireCert
<1>15. CASE IoError
  BY <1>15 DEF IoError, EndCall, fsVars, histVars
<1>16. CASE Crash
  BY <1>16 DEF Crash, EndCall, fsVars, histVars
<1>17. CASE PowerLoss
  BY <1>17 DEF PowerLoss, EndCall, histVars
<1>18. CASE WriteBack
  BY <1>18 DEF WriteBack, callVars, histVars
<1>19. CASE UNCHANGED vars
  BY <1>19 DEF vars, fsVars, callVars, histVars
<1> QED
  BY <1>1, <1>2, <1>3, <1>4, <1>5, <1>6, <1>7, <1>8, <1>9, <1>10, <1>11, <1>12,
     <1>13, <1>14, <1>15, <1>16, <1>17, <1>18, <1>19
  DEF Next, Call, AtomicWrite, Retire, Environment

LEMMA IInvAlways == ASSUME Tolerated PROVE Spec => []IInv
<1>1. Init => IInv
  BY TypeInit, LiveInit DEF IInv
<1>2. IInv /\ [Next]_vars => IInv'
  BY TypeNext, LiveNext DEF IInv
<1> QED
  BY <1>1, <1>2, PTL DEF Spec

(* The identity last handed out is always loadable from one of the slots.  *)
THEOREM NeverLost == ASSUME Tolerated PROVE Spec => []IdentityNotLost
<1>1. IInv => IdentityNotLost
  <2> SUFFICES ASSUME IInv, live # None PROVE live \in {CurrentIdentity, load_previous}
    BY DEF IdentityNotLost
  <2>1. live \in Ids
    BY DEF IInv, TypeInv, TypeOK
  <2>2. CurHolds(live) \/ PrevHolds(live)
    BY DEF IInv, LiveInv, TypeInv, TypeOK, Phases, Writing
  <2> QED
    BY <2>1, <2>2 DEF CurHolds, PrevHolds, CurrentIdentity, load_previous, from_parts
<1> QED
  BY <1>1, IInvAlways, PTL

(* Whenever the caller is handed another identity than before, the old one *)
(* is the .prev one at that moment.                                        *)
THEOREM ChangeAnnounced == ASSUME Tolerated PROVE Spec => ChangeKeepsPrevious
<1>1. IInv /\ [Next]_vars => [live # None /\ live' # live => load_previous' = live]_vars
  <2> SUFFICES ASSUME IInv, Next, live # None, live' # live
               PROVE  load_previous' = live
    OBVIOUS
  <2>1. live \in Ids
    BY DEF IInv, TypeInv, TypeOK
  <2>2. LoadExisting \/ SyncDirReturn
    BY DEF Next, Call, AtomicWrite, Retire, Environment, LoadRejected, Generate,
           Rotate, RotateRefused, RetirePrevious, StageOpen, StageFill, StageSync,
           Rename, RemoveTarget, RenameAgain, MoveStaged, SyncDirMore, RetireKey,
           RetireCert, IoError, Crash, PowerLoss, WriteBack, histVars, vars
  <2>3. CASE LoadExisting
    <3>1. live # CurrentIdentity /\ phase = "idle" /\ UNCHANGED disk
      BY <2>3 DEF LoadExisting, fsVars
    <3>2. PrevHolds(live)
      BY <2>1, <3>1 DEF IInv, LiveInv, CurHolds, CurrentIdentity, from_parts
    <3> QED
      BY <2>1, <3>1, <3>2 DEF PrevHolds, load_previous, from_parts
  <2>4. CASE SyncDirReturn
    <3>1. Writing(CurrentSlot) /\ UNCHANGED disk
      BY <2>4 DEF SyncDirReturn, Writing, WritePhases
    <3>2. PrevHolds(live)
      BY <3>1 DEF IInv, LiveInv
    <3> QED
      BY <2>1, <3>1, <3>2 DEF PrevHolds, load_previous, from_parts
  <2> QED
    BY <2>2, <2>3, <2>4
<1> QED
  BY <1>1, IInvAlways, PTL DEF Spec, ChangeKeepsPrevious

-----------------------------------------------------------------------------
(* The identity in its overlap *)

(* The only fault excluded: a directory that a power loss may take with    *)
(* it, since create_dir_all leaves its entry unsynced.                     *)
DirDurable == "power" \in Faults => DirPreexists

(* rotate leaves .prev whole and durable before it touches the current     *)
(* pair, and it starts only when .prev is empty.                           *)
OverlapInv ==
  /\ "power" \in Faults => dir = "stable"
  /\ phase = "idle" => retiring = None
  /\ Writing({KEY_FILE_PREV}) => disk[CERT_FILE_PREV] = retiring
  /\ Writing(CurrentSlot) /\ retiring # None => PrevHolds(retiring)
  /\ overlap # None => /\ PrevHolds(overlap)
                       /\ ~ Writing(PrevSlot)
                       /\ phase \notin {"retireKey", "retireCert"}

LEMMA OverlapInit == DirDurable /\ Init => OverlapInv
  BY StoreAssumption DEF DirDurable, Init, OverlapInv, Writing, WritePhases

(* Every step keeps the identity in overlap in .prev, on disk and stable.  *)
LEMMA OverlapNext == DirDurable /\ TypeInv /\ OverlapInv /\ [Next]_vars => OverlapInv'
<1> SUFFICES ASSUME DirDurable, TypeInv, OverlapInv, [Next]_vars PROVE OverlapInv'
  OBVIOUS
<1> USE DEF TypeInv, TypeOK, WriteInv, OverlapInv, WritePhases, Staged,
            PrevHolds, Settled, Writing, Phases
<1>1. CASE LoadExisting
  BY <1>1 DEF LoadExisting, fsVars, callVars
<1>2. CASE LoadRejected \/ RotateRefused
  BY <1>2 DEF LoadRejected, RotateRefused, vars, fsVars, callVars, histVars
<1>3. CASE Generate
  BY <1>3 DEF Generate, Mint, Start
<1>4. CASE Rotate
  BY <1>4 DEF Rotate, CanRotate, PrevOccupied, exists, Mint, Start, fsVars
<1>5. CASE RetirePrevious
  BY <1>5 DEF RetirePrevious, fsVars
<1>6. CASE StageOpen
  BY <1>6 DEF StageOpen, histVars
<1>7. CASE StageFill
  BY <1>7 DEF StageFill, histVars
<1>8. CASE StageSync
  BY <1>8 DEF StageSync, histVars
<1>9. CASE Rename \/ RenameAgain
  BY <1>9 DEF Rename, RenameAgain, MoveStaged, histVars
<1>10. CASE RemoveTarget
  BY <1>10, StoreAssumption DEF RemoveTarget, histVars
<1>11. CASE SyncDirMore
  BY <1>11, StoreAssumption
  DEF SyncDirMore, WriteBackNames, Start, NextFile, histVars
<1>12. CASE SyncDirReturn
  BY <1>12, StoreAssumption DEF SyncDirReturn, WriteBackNames
<1>13. CASE RetireKey
  BY <1>13 DEF RetireKey, histVars
<1>14. CASE RetireCert
  BY <1>14 DEF RetireCert
<1>15. CASE IoError
  BY <1>15 DEF IoError, EndCall, fsVars, histVars
<1>16. CASE Crash
  BY <1>16 DEF Crash, EndCall, fsVars, histVars
<1>17. CASE PowerLoss
  BY <1>17 DEF PowerLoss, EndCall, histVars
<1>18. CASE WriteBack
  BY <1>18 DEF WriteBack, callVars, histVars
<1>19. CASE UNCHANGED vars
  BY <1>19 DEF vars, fsVars, callVars, histVars
<1> QED
  BY <1>1, <1>2, <1>3, <1>4, <1>5, <1>6, <1>7, <1>8, <1>9, <1>10, <1>11, <1>12,
     <1>13, <1>14, <1>15, <1>16, <1>17, <1>18, <1>19
  DEF Next, Call, AtomicWrite, Retire, Environment

(* An identity in its overlap stays loadable until it is retired: under    *)
(* every combination of I/O errors, process deaths and power losses, and   *)
(* whenever the caller may retire.                                         *)
THEOREM OverlapKept == ASSUME DirDurable PROVE Spec => []OverlapSurvives
<1>1. Init => TypeInv /\ OverlapInv
  BY TypeInit, OverlapInit
<1>2. TypeInv /\ OverlapInv /\ [Next]_vars => (TypeInv /\ OverlapInv)'
  BY TypeNext, OverlapNext
<1>3. TypeInv /\ OverlapInv => OverlapSurvives
  BY DEF OverlapInv, TypeInv, TypeOK, OverlapSurvives, PrevHolds, load_previous, from_parts
<1> QED
  BY <1>1, <1>2, <1>3, PTL DEF Spec

-----------------------------------------------------------------------------
(* Where a rename replaces its target in one step, the names of the        *)
(* current pair, once there, stay.                                         *)
KeptInv ==
  /\ "power" \in Faults => dir = "stable"
  /\ ~ Writing(CurrentSlot) => \A f \in CurrentSlot : Settled(f)
  /\ Writing({KEY_FILE}) => disk[CERT_FILE] = incoming
  /\ Platform = "unix" /\ live # None =>
       \A f \in CurrentSlot : disk[f] # None /\ ("power" \in Faults => stable[f] # None)

LEMMA KeptInit == Separate /\ Init => KeptInv
  BY StoreAssumption DEF Separate, Init, KeptInv, Settled, Writing, WritePhases, NoFiles

LEMMA KeptNext == Separate /\ TypeInv /\ KeptInv /\ [Next]_vars => KeptInv'
<1> SUFFICES ASSUME Separate, TypeInv, KeptInv, [Next]_vars PROVE KeptInv'
  OBVIOUS
<1> USE DEF TypeInv, TypeOK, WriteInv, WritePhases, Staged, Settled, Writing, Separate,
            Phases, KeptInv
<1>1. CASE LoadExisting
  BY <1>1 DEF LoadExisting, fsVars, callVars, exists
<1>2. CASE LoadRejected \/ RotateRefused \/ UNCHANGED vars
  BY <1>2 DEF LoadRejected, RotateRefused, vars, fsVars, callVars, histVars
<1>3. CASE Generate
  BY <1>3 DEF Generate, Mint, Start
<1>4. CASE Rotate
  BY <1>4 DEF Rotate, Mint, Start, fsVars
<1>5. CASE RetirePrevious
  BY <1>5 DEF RetirePrevious, fsVars
<1>6. CASE StageOpen \/ StageFill \/ StageSync
  BY <1>6 DEF StageOpen, StageFill, StageSync, histVars
<1>7. CASE Rename \/ RenameAgain
  BY <1>7, StoreAssumption DEF Rename, RenameAgain, MoveStaged, histVars
<1>8. CASE RemoveTarget
  BY <1>8, StoreAssumption DEF RemoveTarget, histVars
<1>9. CASE SyncDirMore
  BY <1>9, StoreAssumption DEF SyncDirMore, WriteBackNames, Start, NextFile, histVars
<1>10. CASE SyncDirReturn
  BY <1>10, StoreAssumption DEF SyncDirReturn, WriteBackNames
<1>11. CASE RetireKey \/ RetireCert
  BY <1>11 DEF RetireKey, RetireCert, histVars
<1>12. CASE IoError
  BY <1>12 DEF IoError, EndCall, fsVars, histVars
<1>13. CASE Crash
  BY <1>13 DEF Crash, EndCall, fsVars, histVars
<1>14. CASE PowerLoss
  BY <1>14 DEF PowerLoss, EndCall, histVars
<1>15. CASE WriteBack
  BY <1>15 DEF WriteBack, callVars, histVars
<1> QED
  BY <1>1, <1>2, <1>3, <1>4, <1>5, <1>6, <1>7, <1>8, <1>9, <1>10, <1>11, <1>12, <1>13,
     <1>14, <1>15
  DEF Next, Call, AtomicWrite, Retire, Environment

(* On unix load_or_generate never mints over an identity it has handed     *)
(* out, not even for the caller that has lost it by the advice of rotate's *)
(* refusal. (On windows it does: the run windows_remint shows how.)        *)
THEOREM NeverReminted ==
  ASSUME Separate, Platform = "unix" PROVE Spec => NoSilentRemint
<1>1. Init => TypeInv /\ KeptInv
  BY TypeInit, KeptInit
<1>2. TypeInv /\ KeptInv /\ [Next]_vars => (TypeInv /\ KeptInv)'
  BY TypeNext, KeptNext
<1>3. KeptInv /\ [Next]_vars => [Generate => live = None]_vars
  BY DEF KeptInv, Generate, exists
<1> QED
  BY <1>1, <1>2, <1>3, PTL DEF Spec, NoSilentRemint

=============================================================================
