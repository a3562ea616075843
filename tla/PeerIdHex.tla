------------------------------ MODULE PeerIdHex ------------------------------
(***************************************************************************)
(* The hexadecimal form of a peer_id: to_hex and from_hex of               *)
(* src/src/identity.rs. A string is the sequence of its bytes, a peer_id   *)
(* the sequence of its 32.                                                 *)
(***************************************************************************)
EXTENDS Integers, Sequences, TLAPS

CONSTANT None  \* Option::None

LEN     == 32
Bytes   == 0 .. 255
PeerIds == [1 .. LEN -> Bytes]
Strings == [1 .. 2 * LEN -> Bytes]

from_digit(d) == IF d < 10 THEN 48 + d ELSE 87 + d

(* -1 for None: no digit of base 16, upper or lower case.                  *)
to_digit(c) ==
  IF      c \in 48 .. 57  THEN c - 48
  ELSE IF c \in 97 .. 102 THEN c - 87
  ELSE IF c \in 65 .. 70  THEN c - 55
  ELSE -1

to_hex(id) ==
  [i \in 1 .. 2 * LEN |->
     IF i % 2 = 1 THEN from_digit(id[(i + 1) \div 2] \div 16)
                  ELSE from_digit(id[i \div 2] % 16)]

IsHex(s) == \A i \in 1 .. 2 * LEN : to_digit(s[i]) # -1

from_hex(s) ==
  IF Len(s) = 2 * LEN /\ IsHex(s)
  THEN [i \in 1 .. LEN |-> 16 * to_digit(s[2 * i - 1]) + to_digit(s[2 * i])]
  ELSE None

-----------------------------------------------------------------------------
(* The lower case of a hexadecimal string.                                 *)
Lower(s) == [i \in 1 .. 2 * LEN |-> IF s[i] \in 65 .. 70 THEN s[i] + 32 ELSE s[i]]

LEMMA DigitRoundTrip ==
  ASSUME NEW d \in 0 .. 15
  PROVE  /\ from_digit(d) \in Bytes
         /\ to_digit(from_digit(d)) = d
  BY DEF from_digit, to_digit, Bytes

LEMMA CharRoundTrip ==
  ASSUME NEW c \in Bytes, to_digit(c) # -1
  PROVE  /\ to_digit(c) \in 0 .. 15
         /\ from_digit(to_digit(c)) = IF c \in 65 .. 70 THEN c + 32 ELSE c
  BY DEF from_digit, to_digit, Bytes

LEMMA Halves ==
  ASSUME NEW b \in Bytes
  PROVE  /\ b \div 16 \in 0 .. 15 /\ b % 16 \in 0 .. 15
         /\ (16 * (b \div 16)) + (b % 16) = b
  BY DEF Bytes

LEMMA Joined ==
  ASSUME NEW hi \in 0 .. 15, NEW lo \in 0 .. 15
  PROVE  /\ 16 * hi + lo \in Bytes
         /\ (16 * hi + lo) \div 16 = hi /\ (16 * hi + lo) % 16 = lo
  BY DEF Bytes

(* from_hex reads either case and accepts nothing else than 64 hexadecimal *)
(* characters: what it accepts, to_hex prints again, in lower case.        *)
THEOREM HexCanonical ==
  ASSUME NEW s \in Seq(Bytes), NEW id, from_hex(s) = id, None \notin PeerIds, id # None
  PROVE  id \in PeerIds /\ to_hex(id) = Lower(s)
<1>1. Len(s) = 2 * LEN /\ IsHex(s)
  BY DEF from_hex
<1>2. ASSUME NEW i \in 1 .. 2 * LEN
      PROVE  s[i] \in Bytes /\ to_digit(s[i]) \in 0 .. 15
  <2>1. s[i] \in Bytes
    BY <1>1
  <2>2. to_digit(s[i]) # -1
    BY <1>1 DEF IsHex
  <2> QED
    BY <2>1, <2>2, CharRoundTrip
<1>3. id = [i \in 1 .. LEN |-> 16 * to_digit(s[2 * i - 1]) + to_digit(s[2 * i])]
  BY <1>1 DEF from_hex
<1>4. id \in PeerIds
  <2>1. ASSUME NEW i \in 1 .. LEN
        PROVE  16 * to_digit(s[2 * i - 1]) + to_digit(s[2 * i]) \in Bytes
    <3>1. 2 * i - 1 \in 1 .. 2 * LEN /\ 2 * i \in 1 .. 2 * LEN
      BY DEF LEN
    <3> QED
      BY <1>2, <3>1, Joined
  <2> QED
    BY <1>3, <2>1 DEF PeerIds
<1>5. ASSUME NEW i \in 1 .. 2 * LEN
      PROVE  to_hex(id)[i] = from_digit(to_digit(s[i]))
  <2>1. CASE i % 2 = 1
    <3>1. PICK j \in 1 .. LEN : i = 2 * j - 1 /\ j = (i + 1) \div 2
      BY <2>1 DEF LEN
    <3>2. id[j] = 16 * to_digit(s[i]) + to_digit(s[i + 1]) /\ i + 1 \in 1 .. 2 * LEN
      BY <1>3, <3>1 DEF LEN
    <3>3. to_digit(s[i]) \in 0 .. 15 /\ to_digit(s[i + 1]) \in 0 .. 15
      BY <1>2, <3>2
    <3>4. id[j] \div 16 = to_digit(s[i])
      BY <3>2, <3>3, Joined
    <3> QED
      BY <2>1, <3>1, <3>4 DEF to_hex
  <2>2. CASE i % 2 # 1
    <3>1. PICK j \in 1 .. LEN : i = 2 * j /\ j = i \div 2
      BY <2>2 DEF LEN
    <3>2. id[j] = 16 * to_digit(s[i - 1]) + to_digit(s[i]) /\ i - 1 \in 1 .. 2 * LEN
      BY <1>3, <3>1 DEF LEN
    <3>3. to_digit(s[i - 1]) \in 0 .. 15 /\ to_digit(s[i]) \in 0 .. 15
      BY <1>2, <3>2
    <3>4. id[j] % 16 = to_digit(s[i])
      BY <3>2, <3>3, Joined
    <3> QED
      BY <2>2, <3>1, <3>4 DEF to_hex
  <2> QED
    BY <2>1, <2>2
<1>6. ASSUME NEW i \in 1 .. 2 * LEN PROVE to_hex(id)[i] = Lower(s)[i]
  BY <1>1, <1>5, CharRoundTrip DEF Lower, IsHex
<1>7. to_hex(id) = [i \in 1 .. 2 * LEN |-> to_hex(id)[i]]
  BY DEF to_hex
<1>8. Lower(s) = [i \in 1 .. 2 * LEN |-> Lower(s)[i]]
  BY DEF Lower
<1> QED
  BY <1>4, <1>6, <1>7, <1>8

(* to_hex yields 64 hexadecimal characters from which from_hex restores    *)
(* the peer_id: what a status API prints names the peer it came from, and  *)
(* no two peers print alike.                                               *)
THEOREM HexRoundTrip ==
  ASSUME NEW id \in PeerIds
  PROVE  to_hex(id) \in Strings /\ from_hex(to_hex(id)) = id
<1>1. ASSUME NEW i \in 1 .. LEN
      PROVE  /\ to_hex(id)[2 * i - 1] = from_digit(id[i] \div 16)
             /\ to_hex(id)[2 * i] = from_digit(id[i] % 16)
  BY DEF to_hex, LEN
<1>2. ASSUME NEW i \in 1 .. 2 * LEN
      PROVE  \E d \in 0 .. 15 : to_hex(id)[i] = from_digit(d)
  <2>1. CASE i % 2 = 1
    BY <2>1, Halves DEF to_hex, LEN, PeerIds
  <2>2. CASE i % 2 # 1
    BY <2>2, Halves DEF to_hex, LEN, PeerIds
  <2> QED
    BY <2>1, <2>2
<1>3. to_hex(id) \in Strings /\ IsHex(to_hex(id))
  <2>1. ASSUME NEW i \in 1 .. 2 * LEN
        PROVE  to_hex(id)[i] \in Bytes /\ to_digit(to_hex(id)[i]) # -1
    BY <1>2, DigitRoundTrip
  <2>2. to_hex(id) = [i \in 1 .. 2 * LEN |-> to_hex(id)[i]]
    BY DEF to_hex
  <2> QED
    BY <2>1, <2>2 DEF Strings, IsHex
<1>4. Len(to_hex(id)) = 2 * LEN
  BY <1>3 DEF Strings, LEN
<1>5. ASSUME NEW i \in 1 .. LEN PROVE from_hex(to_hex(id))[i] = id[i]
  <2>1. id[i] \in Bytes
    BY DEF PeerIds
  <2>2. from_hex(to_hex(id))[i]
          = 16 * to_digit(to_hex(id)[2 * i - 1]) + to_digit(to_hex(id)[2 * i])
    BY <1>3, <1>4 DEF from_hex
  <2>3. /\ to_digit(to_hex(id)[2 * i - 1]) = id[i] \div 16
        /\ to_digit(to_hex(id)[2 * i]) = id[i] % 16
    BY <1>1, <2>1, Halves, DigitRoundTrip
  <2> QED
    BY <2>1, <2>2, <2>3, Halves
<1>6. from_hex(to_hex(id)) = [i \in 1 .. LEN |-> from_hex(to_hex(id))[i]]
  BY <1>3, <1>4 DEF from_hex
<1>7. id = [i \in 1 .. LEN |-> id[i]]
  BY DEF PeerIds
<1> QED
  BY <1>3, <1>5, <1>6, <1>7

=============================================================================
