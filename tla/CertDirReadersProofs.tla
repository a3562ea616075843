------------------------- MODULE CertDirReadersProofs -------------------------
(***************************************************************************)
(* What loads that race rotate, retire_previous and crashes may return,    *)
(* for every number of readers.                                            *)
(***************************************************************************)
EXTENDS CertDirReaders, NodeCertStoreProofs

USE DEF Files, CurrentSlot, PrevSlot, CERT_FILE, KEY_FILE, CERT_FILE_PREV,
        KEY_FILE_PREV

LEMMA OwnerStep == ReadersNext \/ UNCHANGED allVars => [Next]_vars
  BY DEF ReadersNext, Owner, allVars

(* The machine keeps its power: calls may fail and processes die at any    *)
(* moment, and the caller may retire whenever it likes.                    *)
SteadyPower == "power" \notin Faults

(* What is known of the owner's files, whoever reads beside it.            *)
OwnerInv == TypeInv /\ OverlapInv /\ KeptInv

LEMMA OwnerAlways == ASSUME SteadyPower PROVE ReadersSpec => []OwnerInv
<1>0. Separate /\ DirDurable
  BY DEF SteadyPower, Separate, DirDurable
<1>1. ReadersInit => OwnerInv
  BY <1>0, TypeInit, OverlapInit, KeptInit DEF ReadersInit, OwnerInv
<1>2. OwnerInv /\ [ReadersNext]_allVars => OwnerInv'
  BY <1>0, OwnerStep, TypeNext, OverlapNext, KeptNext DEF OwnerInv
<1> QED
  BY <1>1, <1>2, PTL DEF ReadersSpec

LEMMA OwnerTypeAlways == ReadersSpec => []TypeInv
<1>1. ReadersInit => TypeInv
  BY TypeInit DEF ReadersInit
<1>2. TypeInv /\ [ReadersNext]_allVars => TypeInv'
  BY OwnerStep, TypeNext
<1> QED
  BY <1>1, <1>2, PTL DEF ReadersSpec

-----------------------------------------------------------------------------
(* Typing *)

ReadersTypeInv ==
  /\ at \in [Readers -> {"idle"} \cup Reading \cup Outcomes]
  /\ slot \in [Readers -> {"current", "previous"}]
  /\ read \in [Readers -> Contents] /\ result \in [Readers -> Ids \cup {None}]
  /\ during \in [Readers -> SUBSET (Ids \cup {None})]
  /\ knew \in [Readers -> Ids \cup {None}]

LEMMA InstantType == InOneInstant("current") \in Ids \cup {None}
                     /\ InOneInstant("previous") \in Ids \cup {None}
  BY SlotType DEF InOneInstant

LEMMA ReadersTypeNext ==
  TypeInv /\ TypeInv' /\ ReadersTypeInv /\ [ReadersNext]_allVars => ReadersTypeInv'
<1> SUFFICES ASSUME TypeInv, TypeInv', ReadersTypeInv, [ReadersNext]_allVars
             PROVE  ReadersTypeInv'
  OBVIOUS
<1> USE DEF ReadersTypeInv, Reading, Outcomes, Go
<1>1. CASE Owner
  <2>1. \A r \in Readers : InOneInstant(slot[r])' \in Ids \cup {None}
    BY <1>1 DEF Owner, InOneInstant, CurrentIdentity, load_previous, from_parts
  <2> QED
    BY <1>1, <2>1 DEF Owner
<1>2. ASSUME NEW r \in Readers, Begin(r) PROVE ReadersTypeInv'
  BY <1>2, InstantType DEF Begin, TypeInv, TypeOK, Contents
<1>3. ASSUME NEW r \in Readers, StatCert(r) \/ StatKey(r) PROVE ReadersTypeInv'
  BY <1>3 DEF StatCert, StatKey
<1>4. ASSUME NEW r \in Readers, ReadCert(r) PROVE ReadersTypeInv'
  BY <1>4 DEF ReadCert, CertOf, TypeInv, TypeOK
<1>5. ASSUME NEW r \in Readers, ReadKey(r) PROVE ReadersTypeInv'
  BY <1>5 DEF ReadKey, from_parts
<1>6. CASE UNCHANGED allVars
  BY <1>6 DEF allVars, readerVars
<1> QED
  BY <1>1, <1>2, <1>3, <1>4, <1>5, <1>6 DEF ReadersNext, Load

-----------------------------------------------------------------------------
(* What a reader has seen *)

(* The slot as it is now is one of the instants of the call. A certificate *)
(* is only read before its key: if the key is not there yet, the instant   *)
(* it comes is one in which the slot holds that very pair.                 *)
SeenInv ==
  \A r \in Readers :
    /\ at[r] \in Reading => /\ InOneInstant(slot[r]) \in during[r]
                            /\ knew[r] # None => live # None
    /\ at[r] = "readKey" /\ read[r] \in Ids /\ disk[KeyOf(r)] = read[r] =>
         read[r] \in during[r]
    /\ at[r] = "loaded" => result[r] \in during[r]
    /\ at[r] = "absent" => /\ None \in during[r]
                           /\ Platform = "unix" /\ slot[r] = "current" => knew[r] = None

(* A key comes into place only beside its certificate (NextFile).          *)
LEMMA KeyArrives ==
  ASSUME SteadyPower, OwnerInv, [Next]_vars, NEW s \in {"current", "previous"},
         LET key == IF s = "current" THEN KEY_FILE ELSE KEY_FILE_PREV
         IN  disk'[key] # disk[key] /\ disk'[key] # None
  PROVE  LET key == IF s = "current" THEN KEY_FILE ELSE KEY_FILE_PREV
         IN  InOneInstant(s)' = disk'[key]
<1> USE DEF OwnerInv, TypeInv, TypeOK, WriteInv, OverlapInv, KeptInv, WritePhases, Staged, Writing
<1>1. CASE Rename \/ RenameAgain
  BY <1>1 DEF Rename, RenameAgain, MoveStaged, InOneInstant, CurrentIdentity,
              load_previous, from_parts
<1>2. CASE RemoveTarget \/ RetireKey \/ RetireCert
  BY <1>2 DEF RemoveTarget, RetireKey, RetireCert
<1>3. CASE PowerLoss \/ WriteBack
  BY <1>3 DEF PowerLoss, WriteBack, SteadyPower
<1> QED
  BY <1>1, <1>2, <1>3
  DEF Next, Call, AtomicWrite, Retire, Environment, LoadExisting, LoadRejected, Generate,
      Rotate, RotateRefused, RetirePrevious, StageOpen, StageFill, StageSync, SyncDirMore,
      SyncDirReturn, IoError, Crash, vars, fsVars, callVars

(* Once handed out, there is always an identity the caller has.            *)
LEMMA LiveStays == ASSUME TypeInv, [Next]_vars, live # None PROVE live' # None
<1>1. CASE LoadExisting
  BY <1>1 DEF LoadExisting
<1>2. CASE SyncDirReturn
  BY <1>2, StoreAssumption DEF SyncDirReturn, TypeInv, TypeOK, WritePhases, WriteInv, Staged
<1>3. CASE ~ LoadExisting /\ ~ SyncDirReturn
  BY <1>3
  DEF Next, Call, AtomicWrite, Retire, Environment, LoadRejected, Generate, Rotate,
      RotateRefused, RetirePrevious, StageOpen, StageFill, StageSync, SyncDirMore, IoError,
      Crash, Rename, RenameAgain, MoveStaged, RemoveTarget, RetireKey, RetireCert, PowerLoss,
      WriteBack, vars, histVars
<1> QED
  BY <1>1, <1>2, <1>3

LEMMA SeenNext ==
  ASSUME SteadyPower, OwnerInv, ReadersTypeInv, SeenInv, [ReadersNext]_allVars
  PROVE  SeenInv'
<1> USE DEF ReadersTypeInv, SeenInv, Reading, Outcomes, Go, KeyOf, CertOf
<1>1. CASE Owner
  <2> SUFFICES ASSUME NEW r \in Readers
               PROVE  /\ at[r] \in Reading => /\ InOneInstant(slot[r])' \in during'[r]
                                              /\ knew[r] # None => live' # None
                      /\ at[r] = "readKey" /\ read[r] \in Ids /\ disk'[KeyOf(r)] = read[r]
                           => read[r] \in during'[r]
                      /\ during[r] \subseteq during'[r]
    BY <1>1 DEF Owner
  <2> QED
    BY <1>1, KeyArrives, LiveStays, StoreAssumption DEF Owner, OwnerInv
<1>2. ASSUME NEW r \in Readers, Begin(r), UNCHANGED vars PROVE SeenInv'
  <2>1. UNCHANGED <<CurrentIdentity, load_previous>> /\ UNCHANGED <<disk, live>>
    BY <1>2, SlotsFollowDisk DEF vars, fsVars, histVars
  <2> QED
    BY <1>2, <2>1 DEF Begin, InOneInstant
<1>3. ASSUME NEW r \in Readers, UNCHANGED vars, UNCHANGED <<slot, during, knew>>,
             UNCHANGED <<disk, live>>, \A k \in Readers : InOneInstant(slot[k])' = InOneInstant(slot[k])
      PROVE  StatCert(r) \/ StatKey(r) \/ ReadCert(r) \/ ReadKey(r) => SeenInv'
  <2>1. CASE StatCert(r) \/ StatKey(r)
    <3>1. disk[CertOf(r)] = None \/ disk[KeyOf(r)] = None => InOneInstant(slot[r]) = None
      BY StoreAssumption DEF InOneInstant, CurrentIdentity, load_previous, from_parts
    <3>2. Platform = "unix" /\ slot[r] = "current" /\ live # None =>
            disk[CertOf(r)] # None /\ disk[KeyOf(r)] # None
      BY DEF OwnerInv, KeptInv
    <3> QED
      BY <1>3, <2>1, <3>1, <3>2 DEF StatCert, StatKey, exists
  <2>2. CASE ReadCert(r)
    <3>1. disk[CertOf(r)] \in Ids /\ disk[KeyOf(r)] = disk[CertOf(r)] =>
            InOneInstant(slot[r]) = disk[CertOf(r)]
      BY DEF InOneInstant, CurrentIdentity, load_previous, from_parts
    <3> QED
      BY <1>3, <2>2, <3>1 DEF ReadCert
  <2>3. CASE ReadKey(r)
    BY <1>3, <2>3 DEF ReadKey, from_parts
  <2> QED
    BY <2>1, <2>2, <2>3
<1>4. ASSUME NEW r \in Readers, Load(r), UNCHANGED vars PROVE SeenInv'
  <2>1. CASE Begin(r)
    BY <1>2, <1>4, <2>1
  <2>2. CASE StatCert(r) \/ StatKey(r) \/ ReadCert(r) \/ ReadKey(r)
    <3>1. UNCHANGED <<slot, during, knew>> /\ UNCHANGED <<disk, live>>
      BY <1>4, <2>2 DEF StatCert, StatKey, ReadCert, ReadKey, vars, fsVars, histVars
    <3>2. \A k \in Readers : InOneInstant(slot[k])' = InOneInstant(slot[k])
      BY <3>1 DEF InOneInstant, CurrentIdentity, load_previous
    <3> QED
      BY <1>3, <1>4, <2>2, <3>1, <3>2
  <2> QED
    BY <1>4, <2>1, <2>2 DEF Load
<1>5. CASE UNCHANGED allVars
  BY <1>5 DEF allVars, vars, fsVars, histVars, readerVars, InOneInstant, CurrentIdentity,
              load_previous
<1> QED
  BY <1>1, <1>4, <1>5 DEF ReadersNext

LEMMA ReadersTypeAlways == ReadersSpec => [](TypeInv /\ ReadersTypeInv)
<1>1. ReadersInit => ReadersTypeInv
  BY DEF ReadersInit, Init, ReadersTypeInv, Contents
<1> QED
  BY <1>1, ReadersTypeNext, OwnerTypeAlways, PTL DEF ReadersSpec

LEMMA SeenAlways == ASSUME SteadyPower PROVE ReadersSpec => []SeenInv
<1>1. ReadersInit => SeenInv
  BY DEF ReadersInit, SeenInv, Reading
<1>2. OwnerInv /\ ReadersTypeInv /\ SeenInv /\ [ReadersNext]_allVars => SeenInv'
  BY SeenNext
<1> QED
  BY <1>1, <1>2, OwnerAlways, ReadersTypeAlways, PTL DEF ReadersSpec

(* Every reachable state of the owner and its readers is well typed,       *)
(* whatever the faults.                                                    *)
THEOREM ReadersTypeCorrect == ReadersSpec => []ReadersTypeOK
<1>1. TypeInv /\ ReadersTypeInv => ReadersTypeOK
  BY DEF TypeInv, ReadersTypeInv, ReadersTypeOK
<1> QED
  BY <1>1, ReadersTypeAlways, PTL

(* However a load races the writer, it returns one whole identity that was *)
(* the slot's at an instant of the call.                                   *)
THEOREM ReadersAtomic == ASSUME SteadyPower PROVE ReadersSpec => []LoadIsAtomic
<1>1. SeenInv => LoadIsAtomic
  BY DEF SeenInv, LoadIsAtomic
<1> QED
  BY <1>1, SeenAlways, PTL

(* On unix a load never takes the current pair for missing while there is  *)
(* one, and load_previous says "none" only if there was none.              *)
THEOREM ReadersAbsent ==
  ASSUME SteadyPower, Platform = "unix" PROVE ReadersSpec => []AbsentIsTrue
<1>1. SeenInv => AbsentIsTrue
  BY DEF SeenInv, AbsentIsTrue
<1> QED
  BY <1>1, SeenAlways, PTL

=============================================================================
