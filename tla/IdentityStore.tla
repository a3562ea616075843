---------------------------- MODULE IdentityStore ----------------------------
(***************************************************************************)
(* What a certificate directory promises its caller (src/src/node_cert.rs, *)
(* SPEC.md 2): one current identity and, during the overlap of a rotation, *)
(* the previous one. Each call takes effect in one step or not at all.     *)
(***************************************************************************)
CONSTANTS Ids, None

VARIABLES
  current,  \* the identity the directory stands for
  previous, \* the identity in its overlap
  staged,   \* the identity a running call has generated
  fresh     \* the identities not generated yet

storeVars == <<current, previous, staged, fresh>>

Init == current = None /\ previous = None /\ staged = None /\ fresh = Ids

(* A call begins and generates its identity; it may fail, and then this    *)
(* identity is never seen again. What ends the call may complete an earlier*)
(* retirement.                                                             *)
Stage ==
  /\ staged = None
  /\ \E i \in fresh : staged' = i /\ fresh' = fresh \ {i}
  /\ UNCHANGED <<current, previous>>

Abandon ==
  /\ staged # None
  /\ staged' = None /\ previous' \in {previous, None}
  /\ UNCHANGED <<current, fresh>>

(* load_or_generate in a directory without an identity. *)
Create ==
  /\ staged # None /\ current = None
  /\ current' = staged /\ staged' = None
  /\ UNCHANGED <<previous, fresh>>

(* rotate: the current identity is kept, never overwriting one in overlap. *)
Replace ==
  /\ staged # None /\ current # None /\ previous = None
  /\ previous' = current /\ current' = staged /\ staged' = None
  /\ UNCHANGED fresh

(* retire_previous. *)
Retire ==
  /\ previous # None
  /\ previous' = None
  /\ UNCHANGED <<current, staged, fresh>>

Next == Stage \/ Abandon \/ Create \/ Replace \/ Retire

Spec == Init /\ [][Next]_storeVars

=============================================================================
