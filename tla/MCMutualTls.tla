----------------------------- MODULE MCMutualTls -----------------------------
(* Model checking of MutualTls: one peer of every kind the two verifiers    *)
(* tell apart; both ends may be of the same kind.                           *)
EXTENDS MutualTls

CONSTANTS s1, s2, k1, bad, dig, other

Holder(cert) == [cert |-> cert, minted |-> 0, owns |-> TRUE]

OtherCa == from_pem(generate_dig_ca(other, 0), other)
Own     == generate_signed(s1, k1, 0)
Legacy  == [generate_signed(s2, k1, 1) EXCEPT !.ext = [kind |-> "none"]]

(* The legacy leaf is minted a minute after the others, and the fourth is   *)
(* bound by a point that is no key.                                         *)
MCCredentials ==
  { Holder(Own),
    [Holder(Legacy) EXCEPT !.minted = 1],
    Holder(generate_signed_by(OtherCa, s2, k1, 0)),
    Holder([generate_signed(s2, k1, 0) EXCEPT !.ext = attach_binding(s2, bad)]),
    Holder([Own EXCEPT !.parses = FALSE]),
    [Holder(Own) EXCEPT !.owns = FALSE] }

(* The first minute at which a leaf minted at 0 is valid and the first at   *)
(* which it has expired: the minute before the legacy leaf becomes valid,    *)
(* and the last at which it is.                                              *)
MCClocks == {-60, LEAF_LIFETIME + 1}

=============================================================================
