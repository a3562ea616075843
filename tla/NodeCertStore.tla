---------------------------- MODULE NodeCertStore ----------------------------
(***************************************************************************)
(* The persistence and rotation of a peer's identity: src/src/node_cert.rs *)
(* (load_or_generate, rotate, load_previous, retire_previous, and the      *)
(* atomic_write they are built from) over the directory it is given.       *)
(*                                                                         *)
(* An identity is one TLS leaf key pair, hence one SPKI and one peer_id.   *)
(* Its certificate and its private key live in two files, so a slot (the   *)
(* current pair, the .prev pair) is replaced by two renames, not by one.   *)
(* The module follows every file operation of the calls, one action each,  *)
(* with the faults of Faults between any two of them.                      *)
(*                                                                         *)
(* One process changes the directory; it may die and be restarted at any   *)
(* time. Processes that load beside it are the subject of CertDirReaders.  *)
(***************************************************************************)

CONSTANTS
  Ids,          \* the identities KeyPair::generate_for can return
  None,         \* no file, no identity
  Torn,         \* bytes that are not one whole PEM: truncated or half written
  Platform,     \* the cfg the crate is built for: "unix" or "windows"
  Faults,       \* what may go wrong: a subset of FaultKinds
  DirPreexists, \* TRUE: the caller gives a directory that is already durable
  Discipline    \* when the caller retires: "converged" or "advised" (MayRetire)

FaultKinds == {"crash", "io", "power"}

(* What MoveFileExW leaves behind after a power loss is not modelled. *)
ASSUME StoreAssumption ==
  /\ None \notin Ids /\ Torn \notin Ids /\ None # Torn
  /\ Platform \in {"unix", "windows"}
  /\ Faults \subseteq FaultKinds
  /\ Platform = "windows" => "power" \notin Faults
  /\ DirPreexists \in BOOLEAN
  /\ Discipline \in {"converged", "advised"}

CERT_FILE      == "node.crt"
KEY_FILE       == "node.key"
CERT_FILE_PREV == "node.crt.prev"
KEY_FILE_PREV  == "node.key.prev"

CurrentSlot == {CERT_FILE, KEY_FILE}
PrevSlot    == {CERT_FILE_PREV, KEY_FILE_PREV}
Files       == CurrentSlot \cup PrevSlot
Contents    == Ids \cup {None, Torn}
NoFiles     == [f \in Files |-> None]

VARIABLES
  disk,     \* what each file name holds, as the running system sees it
  tmp,      \* the same of its staging sibling, tmp_path(f)
  flushed,  \* TRUE when the bytes staged for `file` were fsynced
  dirty,    \* the file names whose bytes were never fsynced
  stable,   \* what each name held when the directory was last written back
  dir,      \* the directory itself: "missing", "volatile" or "stable"
  phase,    \* where the running call is, "idle" between calls
  file,     \* the file the running atomic_write replaces
  incoming, \* the identity the running call has minted
  retiring, \* the identity the running call moves to .prev, or deletes
  held,     \* the NodeCert the process got from its last successful call
  minted,   \* history: every identity generated so far
  live,     \* history: the identity last returned to a caller as current
  overlap,  \* history: the previous identity of a completed, unretired rotate
  retired   \* history: the identities whose retire_previous returned Ok

fsVars   == <<disk, tmp, flushed, dirty, stable, dir>>
callVars == <<phase, file, incoming, retiring>>
histVars == <<minted, live, overlap, retired>>
vars     == <<fsVars, callVars, held, histVars>>

WritePhases == {"open", "fill", "sync", "rename", "replace", "syncdir"}
Phases      == {"idle", "retireKey", "retireCert"} \cup WritePhases

(* The types of the state, and that a call writes only identities: the one *)
(* it minted and, before it touches the current pair, the one it retires.  *)
TypeOK ==
  /\ disk \in [Files -> Contents] /\ tmp \in [Files -> Contents]
  /\ stable \in [Files -> Contents]
  /\ flushed \in BOOLEAN /\ dirty \in SUBSET Files
  /\ dir \in {"missing", "volatile", "stable"}
  /\ phase \in Phases /\ file \in Files
  /\ incoming \in Ids \cup {None} /\ retiring \in Ids \cup {None}
  /\ held \in Ids \cup {None} /\ live \in Ids \cup {None}
  /\ overlap \in Ids \cup {None}
  /\ minted \in SUBSET Ids /\ retired \in SUBSET Ids
  /\ phase \in WritePhases => incoming \in minted
  /\ phase \in WritePhases /\ file \in PrevSlot => retiring \in Ids

Init ==
  /\ disk = NoFiles /\ tmp = NoFiles /\ stable = NoFiles
  /\ flushed = FALSE /\ dirty = {}
  /\ dir = IF DirPreexists THEN "stable" ELSE "missing"
  /\ phase = "idle" /\ file = CERT_FILE
  /\ incoming = None /\ retiring = None /\ held = None
  /\ minted = {} /\ live = None /\ overlap = None /\ retired = {}

-----------------------------------------------------------------------------
(* Reading a slot *)

exists(f) == disk[f] # None

(* The key decides the peer_id, and the certificate must certify that key. *)
from_parts(cert, key) == IF key \in Ids /\ cert = key THEN key ELSE None

CurrentIdentity == from_parts(disk[CERT_FILE], disk[KEY_FILE])

(* None stands for Ok(None) and for a rejected pair alike. *)
load_previous == from_parts(disk[CERT_FILE_PREV], disk[KEY_FILE_PREV])

-----------------------------------------------------------------------------
(* Starting a call. A call whose outcome is an error changes nothing. *)

Start(ph, f) == phase' = ph /\ file' = f

Mint == \E i \in Ids \ minted : incoming' = i /\ minted' = minted \cup {i}

LoadExisting ==
  /\ phase = "idle"
  /\ exists(CERT_FILE) /\ exists(KEY_FILE)
  /\ CurrentIdentity # None
  /\ held' = CurrentIdentity /\ live' = CurrentIdentity
  /\ UNCHANGED <<fsVars, callVars, minted, overlap, retired>>

LoadRejected ==
  /\ phase = "idle"
  /\ exists(CERT_FILE) /\ exists(KEY_FILE)
  /\ CurrentIdentity = None
  /\ UNCHANGED vars

(* Faulty variant: a pair that does not load is replaced by a new identity. *)
GenerateUnlessLoadable ==
  /\ phase = "idle"
  /\ CurrentIdentity = None
  /\ Mint
  /\ dir' = IF dir = "missing" THEN "volatile" ELSE dir
  /\ Start("open", CERT_FILE)
  /\ UNCHANGED <<disk, tmp, flushed, dirty, stable, retiring, held,
                 live, overlap, retired>>

(* Faulty variant: it runs the four writes of rotate. *)
GenerateAsRotate ==
  /\ phase = "idle"
  /\ ~ (exists(CERT_FILE) /\ exists(KEY_FILE))
  /\ Mint
  /\ dir' = IF dir = "missing" THEN "volatile" ELSE dir
  /\ Start("open", CERT_FILE_PREV)
  /\ UNCHANGED <<disk, tmp, flushed, dirty, stable, retiring, held,
                 live, overlap, retired>>

Generate ==
  /\ phase = "idle"
  /\ ~ (exists(CERT_FILE) /\ exists(KEY_FILE))
  /\ Mint
  /\ dir' = IF dir = "missing" THEN "volatile" ELSE dir
  /\ Start("open", CERT_FILE)
  /\ UNCHANGED <<disk, tmp, flushed, dirty, stable, retiring, held,
                 live, overlap, retired>>

PrevOccupied == exists(CERT_FILE_PREV) \/ exists(KEY_FILE_PREV)

(* Faulty variant: an occupied .prev is overwritten. *)
CanRotateAgain == exists(CERT_FILE) /\ exists(KEY_FILE) /\ CurrentIdentity # None

CanRotate ==
  /\ exists(CERT_FILE) /\ exists(KEY_FILE)
  /\ ~ PrevOccupied
  /\ CurrentIdentity # None

Rotate ==
  /\ phase = "idle"
  /\ CanRotate
  /\ retiring' = CurrentIdentity
  /\ Mint
  /\ Start("open", CERT_FILE_PREV)
  /\ UNCHANGED <<fsVars, held, live, overlap, retired>>

RotateRefused ==
  /\ phase = "idle"
  /\ ~ CanRotate
  /\ UNCHANGED vars

-----------------------------------------------------------------------------
(* atomic_write(file, contents): stage, fsync, rename, fsync the directory *)

Staged == IF file \in PrevSlot THEN retiring ELSE incoming

StageOpen ==
  /\ phase = "open"
  /\ tmp' = [tmp EXCEPT ![file] = Torn]
  /\ flushed' = FALSE
  /\ phase' = "fill"
  /\ UNCHANGED <<disk, dirty, stable, dir, file, incoming, retiring, held, histVars>>

StageFill ==
  /\ phase = "fill"
  /\ tmp' = [tmp EXCEPT ![file] = Staged]
  /\ phase' = "sync"
  /\ UNCHANGED <<disk, flushed, dirty, stable, dir, file, incoming, retiring,
                 held, histVars>>

(* Faulty variant: no fsync of the staged bytes. *)
StageUnsynced ==
  /\ phase = "sync"
  /\ flushed' = FALSE
  /\ phase' = "rename"
  /\ UNCHANGED <<disk, tmp, dirty, stable, dir, file, incoming, retiring, held,
                 histVars>>

StageSync ==
  /\ phase = "sync"
  /\ flushed' = TRUE
  /\ phase' = "rename"
  /\ UNCHANGED <<disk, tmp, dirty, stable, dir, file, incoming, retiring, held,
                 histVars>>

MoveStaged ==
  /\ disk' = [disk EXCEPT ![file] = tmp[file]]
  /\ tmp' = [tmp EXCEPT ![file] = None]
  /\ dirty' = IF flushed THEN dirty \ {file} ELSE dirty \cup {file}
  /\ phase' = "syncdir"
  /\ UNCHANGED <<flushed, stable, dir, file, incoming, retiring, held, histVars>>

Rename == phase = "rename" /\ MoveStaged

(* Faulty variant: the fallback is compiled for every platform.            *)
RemoveTargetAnywhere ==
  /\ phase = "rename"
  /\ exists(file)
  /\ disk' = [disk EXCEPT ![file] = None]
  /\ phase' = "replace"
  /\ UNCHANGED <<tmp, flushed, dirty, stable, dir, file, incoming, retiring,
                 held, histVars>>

(* Windows only: the first rename failed although the target exists. *)
RemoveTarget ==
  /\ Platform = "windows"
  /\ phase = "rename"
  /\ exists(file)
  /\ disk' = [disk EXCEPT ![file] = None]
  /\ phase' = "replace"
  /\ UNCHANGED <<tmp, flushed, dirty, stable, dir, file, incoming, retiring,
                 held, histVars>>

RenameAgain == phase = "replace" /\ MoveStaged

(* Faulty variants: both certificates before both keys; the old key is not kept. *)
NextFilePairwise ==
  CASE file = CERT_FILE_PREV                    -> CERT_FILE
    [] file = CERT_FILE /\ retiring # None      -> KEY_FILE_PREV
    [] OTHER                                    -> KEY_FILE

NextFileCertOnly == IF file = CERT_FILE_PREV THEN CERT_FILE ELSE KEY_FILE

(* The order of the writes: rotate starts at the first, load_or_generate   *)
(* at the third.                                                           *)
NextFile ==
  CASE file = CERT_FILE_PREV -> KEY_FILE_PREV
    [] file = KEY_FILE_PREV  -> CERT_FILE
    [] OTHER                 -> KEY_FILE

(* Faulty variant: no fsync of the directory. *)
WriteBackNothing == UNCHANGED stable

(* fsync_dir writes back the names, not the bytes of the files. *)
WriteBackNames ==
  stable' = IF Platform = "unix"
            THEN [f \in Files |-> IF f \in dirty THEN Torn ELSE disk[f]]
            ELSE stable

SyncDirMore ==
  /\ phase = "syncdir" /\ file # KEY_FILE
  /\ WriteBackNames
  /\ Start("open", NextFile)
  /\ UNCHANGED <<disk, tmp, flushed, dirty, dir, incoming, retiring, held, histVars>>

(* The last write is done and the call returns Ok. *)
SyncDirReturn ==
  /\ phase = "syncdir" /\ file = KEY_FILE
  /\ WriteBackNames
  /\ phase' = "idle"
  /\ held' = incoming /\ live' = incoming
  /\ overlap' = IF retiring = None THEN overlap ELSE retiring
  /\ incoming' = None /\ retiring' = None
  /\ UNCHANGED <<disk, tmp, flushed, dirty, dir, file, minted, retired>>

-----------------------------------------------------------------------------
(* retire_previous: the key, then the certificate, and no fsync_dir.       *)
(* MayRetire is the caller's side of it. A disciplined caller retires once *)
(* the identity it presents has converged, and that one is the current     *)
(* slot's. Discipline = "advised" adds the caller that does what the       *)
(* refusal of rotate tells it: "call retire_previous before rotating       *)
(* again".                                                                 *)

MayRetire ==
  \/ held # None /\ CurrentIdentity = held
  \/ /\ Discipline = "advised"
     /\ exists(CERT_FILE) /\ exists(KEY_FILE) /\ PrevOccupied

RetirePrevious ==
  /\ phase = "idle"
  /\ MayRetire
  /\ phase' = "retireKey"
  /\ retiring' = load_previous
  /\ overlap' = None
  /\ UNCHANGED <<fsVars, file, incoming, held, minted, live, retired>>

(* Faulty variant: only the certificate is deleted. *)
RetireKeyKept ==
  /\ phase = "retireKey"
  /\ phase' = "retireCert"
  /\ UNCHANGED <<fsVars, file, incoming, retiring, held, histVars>>

RetireKey ==
  /\ phase = "retireKey"
  /\ disk' = [disk EXCEPT ![KEY_FILE_PREV] = None]
  /\ phase' = "retireCert"
  /\ UNCHANGED <<tmp, flushed, dirty, stable, dir, file, incoming, retiring,
                 held, histVars>>

RetireCert ==
  /\ phase = "retireCert"
  /\ disk' = [disk EXCEPT ![CERT_FILE_PREV] = None]
  /\ phase' = "idle"
  /\ retired' = retired \cup ({retiring} \ {None, held})
  /\ retiring' = None
  /\ UNCHANGED <<tmp, flushed, dirty, stable, dir, file, incoming, held,
                 minted, live, overlap>>

-----------------------------------------------------------------------------
(* Faults and the operating system *)

EndCall == phase' = "idle" /\ incoming' = None /\ retiring' = None /\ UNCHANGED file

(* A file operation fails: `?` leaves the call, everything done so far     *)
(* stays, and the process keeps the NodeCert it had.                       *)
IoError ==
  /\ "io" \in Faults
  /\ phase # "idle"
  /\ EndCall
  /\ UNCHANGED <<fsVars, held, histVars>>

(* The process dies; the system, with its page cache, lives on. *)
Crash ==
  /\ "crash" \in Faults
  /\ EndCall
  /\ held' = None
  /\ UNCHANGED <<fsVars, histVars>>

(* The machine loses power. Each name is what was last written back or     *)
(* what it was changed to since; bytes never fsynced may be lost; so may a *)
(* directory whose own entry was never written back, and staging files.    *)
PowerLoss ==
  /\ "power" \in Faults
  /\ EndCall
  /\ held' = None
  /\ \/ /\ dir = "volatile"
        /\ dir' = "missing" /\ disk' = NoFiles /\ tmp' = NoFiles /\ dirty' = {}
     \/ /\ dir' = IF dir = "volatile" THEN "stable" ELSE dir
        /\ \E kept \in SUBSET Files, intact \in SUBSET dirty :
             disk' = [f \in Files |-> IF f \notin kept THEN stable[f]
                                      ELSE IF f \in dirty \ intact THEN Torn
                                      ELSE disk[f]]
        /\ tmp' \in {tmp, NoFiles}
        /\ dirty' = {}
  /\ stable' = disk'
  /\ UNCHANGED <<flushed, histVars>>

(* The system writes any part of this back in its own time. *)
WriteBack ==
  /\ "power" \in Faults
  /\ \E S \in SUBSET Files :
       /\ stable' = [f \in Files |-> IF f \in S THEN disk[f] ELSE stable[f]]
       /\ dirty' = dirty \ S
  /\ dir' = IF dir = "volatile" THEN "stable" ELSE dir
  /\ UNCHANGED <<disk, tmp, flushed, callVars, held, histVars>>

-----------------------------------------------------------------------------
Call == LoadExisting \/ LoadRejected \/ Generate \/ Rotate \/ RotateRefused
        \/ RetirePrevious

AtomicWrite == StageOpen \/ StageFill \/ StageSync \/ Rename \/ RemoveTarget
               \/ RenameAgain \/ SyncDirMore \/ SyncDirReturn

Retire == RetireKey \/ RetireCert

Environment == IoError \/ Crash \/ PowerLoss \/ WriteBack

Next == Call \/ AtomicWrite \/ Retire \/ Environment

Spec == Init /\ [][Next]_vars

-----------------------------------------------------------------------------
(* No crash, failed call or power loss leaves half a file under one of the *)
(* four names: "never a torn/truncated half-write" (atomic_write).         *)
NoTornFile == \A f \in Files : disk[f] # Torn

(* Whatever interrupts load_or_generate, rotate or retire_previous, the    *)
(* identity last handed to the caller can still be loaded: as the current  *)
(* pair or, while it is being replaced, as the .prev pair.                 *)
IdentityNotLost == live # None => live \in {CurrentIdentity, load_previous}

(* From the return of rotate to the caller's retire_previous the old       *)
(* identity stays in .prev, whatever other calls and restarts happen: a    *)
(* second rotate may not discard it.                                       *)
OverlapSurvives == overlap # None => load_previous = overlap

(* Once retire_previous returned Ok no file of the directory, staging      *)
(* files included, holds the private key of the identity it retired.       *)
RetiredKeyErased ==
  \A f \in {KEY_FILE, KEY_FILE_PREV} :
    disk[f] \notin retired /\ tmp[f] \notin retired

(* load_or_generate never replaces an identity it once returned: a peer_id *)
(* is stable across restarts, and only rotate changes it.                  *)
NoSilentRemint == [][Generate => live = None]_vars

(* When the caller is handed another identity than before, by rotate or by *)
(* the load that follows an interrupted rotate, load_previous returns the  *)
(* old one, so that it can be presented next to the new one.               *)
ChangeKeepsPrevious ==
  [][live # None /\ live' # live => load_previous' = live]_vars

(* A crash at any point leaves the intact old or the intact new current    *)
(* identity in node.crt and node.key (the comment in rotate).              *)
CurrentSlotIntact == phase = "idle" /\ live # None => CurrentIdentity # None

(* A retired identity never comes back.                                    *)
RetiredStaysRetired == load_previous \notin retired

-----------------------------------------------------------------------------
(* What the directory stands for: the current pair or, while that one is   *)
(* being replaced, the .prev pair. One rename of atomic_write decides.     *)
Recoverable == IF CurrentIdentity # None THEN CurrentIdentity ELSE load_previous

Store == INSTANCE IdentityStore WITH
  current  <- Recoverable,
  previous <- IF load_previous = Recoverable THEN None ELSE load_previous,
  staged   <- IF incoming = CurrentIdentity THEN None ELSE incoming,
  fresh    <- Ids \ minted

(* With the dozen file operations of a call, its failures, process deaths  *)
(* and restarts, the directory behaves as the abstract store: every call   *)
(* takes effect at one rename (or unlink of the retired key), or never.    *)
ImplementsIdentityStore == Store!Spec

(* What a power loss would leave, read in the same way.                    *)
DurableIdentity == from_parts(stable[CERT_FILE], stable[KEY_FILE])
DurablePrevious == from_parts(stable[CERT_FILE_PREV], stable[KEY_FILE_PREV])
DurableRecoverable == IF DurableIdentity # None THEN DurableIdentity ELSE DurablePrevious

DurableStore == INSTANCE IdentityStore WITH
  current  <- DurableRecoverable,
  previous <- IF DurablePrevious = DurableRecoverable THEN None ELSE DurablePrevious,
  staged   <- IF incoming = DurableIdentity THEN None ELSE incoming,
  fresh    <- Ids \ minted

(* What would survive a power loss behaves as the abstract store as well:  *)
(* a call becomes durable at once or never. A retirement does so some time *)
(* after its call (retire_previous has no fsync_dir), at the latest when   *)
(* the next rotate is under way, and is never undone once it has.          *)
DurablyImplementsIdentityStore == DurableStore!Spec

=============================================================================
