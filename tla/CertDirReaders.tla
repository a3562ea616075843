---------------------------- MODULE CertDirReaders ----------------------------
(***************************************************************************)
(* Other processes that load identities from the directory NodeCertStore   *)
(* is changing: a tool beside the daemon, or the daemon's next instance    *)
(* started before the last one is gone. Nothing in node_cert.rs locks the  *)
(* directory: load_or_generate and load_previous look at the two files of  *)
(* a slot by four system calls, and any step of the writer, its death and  *)
(* its restart included, may come between two of them.                     *)
(*                                                                         *)
(* A load that finds no current pair would generate one and so become a    *)
(* second writer; the module shows when that cannot happen and does not    *)
(* follow it further.                                                      *)
(***************************************************************************)
EXTENDS NodeCertStore

CONSTANT Readers

VARIABLES
  at,      \* where each reader is
  slot,    \* the slot it loads: "current" or "previous"
  read,    \* the certificate it has read
  result,  \* what its last load returned, None unless an identity
  during,  \* history: what a load of the slot in one instant would have
           \* returned, at each instant since the call began
  knew     \* history: the live identity when the call began

readerVars == <<at, slot, read, result, during, knew>>
allVars    == <<vars, readerVars>>

Reading  == {"statCert", "statKey", "readCert", "readKey"}
Outcomes == {"loaded", "absent", "failed"}

ReadersTypeOK ==
  /\ TypeOK
  /\ at \in [Readers -> {"idle"} \cup Reading \cup Outcomes]
  /\ slot \in [Readers -> {"current", "previous"}]
  /\ read \in [Readers -> Contents] /\ result \in [Readers -> Ids \cup {None}]
  /\ during \in [Readers -> SUBSET (Ids \cup {None})]
  /\ knew \in [Readers -> Ids \cup {None}]

ReadersInit ==
  /\ Init
  /\ at = [r \in Readers |-> "idle"] /\ slot = [r \in Readers |-> "current"]
  /\ read = [r \in Readers |-> None] /\ result = [r \in Readers |-> None]
  /\ during = [r \in Readers |-> {}] /\ knew = [r \in Readers |-> None]

-----------------------------------------------------------------------------
CertOf(r) == IF slot[r] = "current" THEN CERT_FILE ELSE CERT_FILE_PREV
KeyOf(r)  == IF slot[r] = "current" THEN KEY_FILE ELSE KEY_FILE_PREV

InOneInstant(s) == IF s = "current" THEN CurrentIdentity ELSE load_previous

Begin(r) ==
  /\ at[r] \in {"idle"} \cup Outcomes
  /\ at' = [at EXCEPT ![r] = "statCert"]
  /\ \E s \in {"current", "previous"} :
       /\ slot' = [slot EXCEPT ![r] = s]
       /\ during' = [during EXCEPT ![r] = {InOneInstant(s)}]
  /\ read' = [read EXCEPT ![r] = None] /\ result' = [result EXCEPT ![r] = None]
  /\ knew' = [knew EXCEPT ![r] = live]

Go(r, from, to) == at[r] = from /\ at' = [at EXCEPT ![r] = to]

(* cert_path.exists() && key_path.exists(). A load of the current slot     *)
(* would go on to generate; load_previous returns Ok(None).                *)
StatCert(r) ==
  /\ Go(r, "statCert", IF exists(CertOf(r)) THEN "statKey" ELSE "absent")
  /\ UNCHANGED <<slot, read, result, during, knew>>

StatKey(r) ==
  /\ Go(r, "statKey", IF exists(KeyOf(r)) THEN "readCert" ELSE "absent")
  /\ UNCHANGED <<slot, read, result, during, knew>>

(* fs::read_to_string of a file that is gone by now is an error.           *)
ReadCert(r) ==
  /\ Go(r, "readCert", IF exists(CertOf(r)) THEN "readKey" ELSE "failed")
  /\ read' = [read EXCEPT ![r] = disk[CertOf(r)]]
  /\ UNCHANGED <<slot, result, during, knew>>

(* Faulty variant: from_pem without the check that the certificate is the  *)
(* key's.                                                                  *)
ReadKeyUnmatched(r) ==
  /\ Go(r, "readKey", IF disk[KeyOf(r)] \in Ids THEN "loaded" ELSE "failed")
  /\ result' = [result EXCEPT ![r] = IF disk[KeyOf(r)] \in Ids THEN read[r] ELSE None]
  /\ UNCHANGED <<slot, read, during, knew>>

ReadKey(r) ==
  LET identity == from_parts(read[r], disk[KeyOf(r)])
  IN  /\ Go(r, "readKey", IF identity # None THEN "loaded" ELSE "failed")
      /\ result' = [result EXCEPT ![r] = identity]
      /\ UNCHANGED <<slot, read, during, knew>>

Load(r) == Begin(r) \/ StatCert(r) \/ StatKey(r) \/ ReadCert(r) \/ ReadKey(r)

(* A step of the process that owns the directory, or of its environment.   *)
Owner ==
  /\ Next
  /\ UNCHANGED <<at, slot, read, result, knew>>
  /\ during' = [r \in Readers |-> IF at[r] \in Reading
                                  THEN during[r] \cup {InOneInstant(slot[r])'}
                                  ELSE during[r]]

ReadersNext == Owner \/ \E r \in Readers : Load(r) /\ UNCHANGED vars

ReadersSpec == ReadersInit /\ [][ReadersNext]_allVars

-----------------------------------------------------------------------------
(* A load that races rotate or retire_previous returns an identity only if *)
(* a load in a single instant of the call would have returned it: never    *)
(* the certificate of one identity with the key of another, and never one  *)
(* that was not, or no longer, in that slot.                               *)
LoadIsAtomic ==
  \A r \in Readers : at[r] = "loaded" => result[r] \in during[r]

(* load_previous says that nothing is in its overlap only if, at one       *)
(* instant of the call, nothing was. And load_or_generate, on unix, never  *)
(* finds the current pair missing once an identity has been handed out, so *)
(* that no reader generates one over it.                                   *)
AbsentIsTrue ==
  \A r \in Readers : at[r] = "absent" =>
    /\ None \in during[r]
    /\ slot[r] = "current" => knew[r] = None

=============================================================================
