--------------------------- MODULE MutualTlsProofs ---------------------------
(***************************************************************************)
(* Safety of MutualTls for every set of credentials, keys, clocks,         *)
(* policies and protocol versions.                                         *)
(***************************************************************************)
EXTENDS MutualTls, CertBindingProofs

(* Every leaf is dated by its minter's clock, as generate_signed_by does;  *)
(* who signed it and what it binds is open.                                *)
Dated ==
  \A cr \in Credentials :
    /\ cr.minted \in Int
    /\ cr.cert.not_before = cr.minted - CLOCK_SKEW_BACKDATE
    /\ cr.cert.not_after = cr.minted + LEAF_LIFETIME

Usage(e) == IF e = "client" THEN "serverAuth" ELSE "clientAuth"

(* What end e makes of its peer, a matter of `world` alone, and that its   *)
(* cells say so.                                                           *)
Approves(e) == Verdict(e, Usage(e)).ok /\ cred[Peer(e)].owns

Cells(e) == [peer_id |-> Verdict(e, Usage(e)).peer_id,
             bls_pub |-> Verdict(e, Usage(e)).bls_pub]

Trusts(e) == Approves(e) /\ captured[e] = Cells(e)

-----------------------------------------------------------------------------
(* The decision of a verifier *)

(* The policy of every configuration is one of the three.                  *)
LEMMA ConfigPolicy == ASSUME NEW c \in Configs PROVE c.binding_policy \in Policies
  BY DEF Configs, ServerConfigs, ClientConfigs, server_config, client_config,
         server_config_spki_pinned, client_config_spki_pinned, new,
         new_spki_pinned, Verifier

(* An accepting verdict passed the chain, the pin and the binding.         *)
LEMMA VerdictOk ==
  ASSUME NEW e \in Ends, NEW usage, Verdict(e, usage).ok
  PROVE  /\ ChainOk(e, usage) /\ Leaf(e).parses /\ PinOk(e) /\ Binding(e).ok
         /\ Verdict(e, usage).peer_id = peer_id_from_tls_spki_der(Leaf(e).spki)
         /\ Verdict(e, usage).bls_pub = Binding(e).bls_pub
<1>1. ChainOk(e, usage)
  BY Zenon DEF Verdict
<1>2. Verdict(e, usage) = pin_and_bind(e)
  BY <1>1, Zenon DEF Verdict
<1> DEFINE ok == Leaf(e).parses /\ PinOk(e) /\ Binding(e).ok
<1>3. pin_and_bind(e).ok = ok
  BY Zenon DEF pin_and_bind, Captures
<1>4. ok
  BY <1>2, <1>3
<1>5. /\ pin_and_bind(e).peer_id = peer_id_from_tls_spki_der(Leaf(e).spki)
      /\ pin_and_bind(e).bls_pub = Binding(e).bls_pub
  BY <1>4 DEF pin_and_bind, Captures
<1> QED
  BY <1>1, <1>2, <1>4, <1>5

(* An end that trusts its peer knows who it is: verify_server_cert and     *)
(* verify_client_cert accept only what the documentation admits, and the   *)
(* cells name the very leaf they accepted.                                 *)
THEOREM TrustIsKnowledge ==
  ASSUME Dated, NEW e \in Ends, config[e] \in Configs, clock[e] \in Int,
         cred[Peer(e)] \in Credentials, Trusts(e)
  PROVE  Knows(e)
<1> DEFINE peer == cred[Peer(e)]
<1>1. /\ ChainOk(e, Usage(e)) /\ Leaf(e).parses /\ PinOk(e) /\ Binding(e).ok /\ peer.owns
      /\ captured[e].peer_id = peer_id_from_tls_spki_der(Leaf(e).spki)
      /\ captured[e].bls_pub = Binding(e).bls_pub
  BY VerdictOk DEF Trusts, Approves, Cells
<1>2. config[e].require_ca_chain =>
        /\ peer.cert.signed_by = DIG_CA_KEY
        /\ clock[e] \in peer.minted - CLOCK_SKEW_BACKDATE .. peer.minted + LEAF_LIFETIME
  <2> SUFFICES ASSUME config[e].require_ca_chain
               PROVE  /\ peer.cert.signed_by = DIG_CA_KEY
                      /\ clock[e] \in peer.minted - CLOCK_SKEW_BACKDATE
                                      .. peer.minted + LEAF_LIFETIME
    OBVIOUS
  <2>1. verify_chain_to_dig_ca(peer.cert, clock[e], Usage(e))
    BY <1>1, Zenon DEF ChainOk, Leaf
  <2> QED
    BY <2>1 DEF verify_chain_to_dig_ca, embedded_ca_cert_der, generate_dig_ca, Dated,
                CLOCK_SKEW_BACKDATE, LEAF_LIFETIME, Day
<1>3. config[e].expected \in {NoPeer, peer_id_from_tls_spki_der(peer.cert.spki)}
  BY <1>1 DEF PinOk, Leaf
<1>4. /\ \/ config[e].binding_policy = "Off"
         \/ BoundKeys(peer.cert) # {}
         \/ config[e].binding_policy = "Opportunistic" /\ peer.cert.ext.kind = "none"
      /\ captured[e].bls_pub = NoBls \/ captured[e].bls_pub \in BoundKeys(Leaf(e))
      /\ config[e].binding_policy = "Required" => captured[e].bls_pub # NoBls
  <2>1. peer.cert.ext \in Extensions
    BY MutualAssumption
  <2>2. config[e].binding_policy \in Policies
    BY ConfigPolicy
  <2> QED
    BY <1>1, <2>1, <2>2, AcceptedBinding DEF Binding, Leaf
<1> QED
  BY <1>1, <1>2, <1>3, <1>4 DEF Knows, Admits, Leaf

-----------------------------------------------------------------------------
(* What is under way *)

In(m, q) == \E i \in 1 .. Len(q) : q[i] = m

(* The messages an end finds after a step were there before it, or have    *)
(* just been sent (Append1, Answer, LoseLink).                             *)
LEMMA InAppend ==
  ASSUME NEW q \in Seq(Messages), NEW m, NEW a, In(m, Append1(q, a))
  PROVE  In(m, q) \/ m = a
  BY DEF In, Append1

LEMMA InTail ==
  ASSUME NEW q \in Seq(Messages), q # <<>>, NEW m, In(m, Tail(q))
  PROVE  In(m, q)
  BY DEF In

LEMMA InHead ==
  ASSUME NEW q \in Seq(Messages), q # <<>>
  PROVE  In(Head(q), q)
  BY DEF In

LEMMA InPrefix ==
  ASSUME NEW q \in Seq(Messages), NEW n \in 0 .. Len(q), NEW m, In(m, SubSeq(q, 1, n))
  PROVE  In(m, q)
  BY DEF In

(* What sending and reading do to a queue.                                 *)
LEMMA AppendType ==
  ASSUME NEW q \in Seq(Messages), NEW a \in Messages \cup {"nothing"}
  PROVE  /\ Append1(q, a) \in Seq(Messages)
         /\ Len(Append1(q, a)) <= Len(q) + 1
  BY DEF Append1

LEMMA TailType ==
  ASSUME NEW q \in Seq(Messages), q # <<>>
  PROVE  Tail(q) \in Seq(Messages) /\ Len(Tail(q)) = Len(q) - 1
  OBVIOUS

LEMMA PrefixType ==
  ASSUME NEW q \in Seq(Messages), NEW n \in 0 .. Len(q)
  PROVE  SubSeq(q, 1, n) \in Seq(Messages) /\ Len(SubSeq(q, 1, n)) = n
  OBVIOUS

-----------------------------------------------------------------------------
(* Typing *)

TypeInv ==
  /\ config \in [Ends -> Configs] /\ cred \in [Ends -> Credentials]
  /\ clock \in [Ends -> Clocks] /\ version \in Versions
  /\ pc \in [Ends -> Waiting \cup Final]
  /\ inbox \in [Ends -> Seq(Messages)]
  /\ link \in {"up"} \cup Losses
  /\ captured \in [Ends -> [peer_id : PeerIds \cup {NoPeer}, bls_pub : BlsKeys \cup {NoBls}]]

LEMMA TypeInit == Init => TypeInv
  BY DEF Init, TypeInv, Ends, Empty, Waiting, Final, Messages, Configs

(* The shape of a step that reads a message and answers it.                *)
LEMMA AnswerType ==
  ASSUME TypeInv, NEW e \in Ends, NEW from, NEW m, NEW a \in Messages \cup {"nothing"},
         NEW to \in Waiting \cup Final, Answer(e, from, m, a, to)
  PROVE  pc' \in [Ends -> Waiting \cup Final] /\ inbox' \in [Ends -> Seq(Messages)]
<1>1. inbox[e] \in Seq(Messages) /\ inbox[Peer(e)] \in Seq(Messages) /\ Peer(e) # e
      /\ Peer(e) \in Ends
  BY DEF TypeInv, Ends, Peer
<1>2. Tail(inbox[e]) \in Seq(Messages) /\ Append1(inbox[Peer(e)], a) \in Seq(Messages)
  BY <1>1, TailType, AppendType DEF Answer
<1> QED
  BY <1>1, <1>2 DEF Answer, TypeInv

LEMMA VerdictType ==
  ASSUME TypeInv, NEW e \in Ends, NEW usage
  PROVE  /\ Verdict(e, usage).peer_id \in PeerIds \cup {NoPeer}
         /\ Verdict(e, usage).bls_pub \in BlsKeys \cup {NoBls}
<1>1. Leaf(e).spki \in Spkis /\ Leaf(e).ext \in Extensions
  BY MutualAssumption DEF TypeInv, Leaf, Peer, Ends
<1>2. Binding(e).bls_pub \in BlsKeys \cup {NoBls}
  BY <1>1, EvaluatedType, ConfigPolicy DEF Binding, TypeInv
<1>3. peer_id_from_tls_spki_der(Leaf(e).spki) \in PeerIds
  BY <1>1 DEF PeerIds
<1> QED
  BY <1>2, <1>3 DEF Verdict, pin_and_bind, Captures

LEMMA TypeNext == TypeInv /\ [Next]_vars => TypeInv'
<1> SUFFICES ASSUME TypeInv, [Next]_vars PROVE TypeInv'
  OBVIOUS
<1>1. ASSUME NEW e \in Ends, NEW from, NEW m, NEW a \in Messages \cup {"nothing"},
             NEW to \in Waiting \cup Final, Answer(e, from, m, a, to),
             UNCHANGED <<world, link, captured>>
      PROVE  TypeInv'
  BY <1>1, AnswerType DEF TypeInv, world
<1>2. ASSUME NEW e \in Ends, NEW from, NEW m, NEW usage, NEW a \in Messages \cup {"nothing"},
             NEW to \in Waiting \cup Final, Judge(e, from, m, usage, a, to)
      PROVE  TypeInv'
  <2>1. PICK a1 \in Messages \cup {"nothing"}, to1 \in Waiting \cup Final :
          Answer(e, from, m, a1, to1)
    BY <1>2 DEF Judge, Messages, Final
  <2>2. captured' \in [Ends -> [peer_id : PeerIds \cup {NoPeer}, bls_pub : BlsKeys \cup {NoBls}]]
    BY <1>2, VerdictType DEF Judge, TypeInv
  <2> QED
    BY <1>2, <2>1, <2>2, AnswerType DEF Judge, TypeInv, world
<1>3. CASE ClientHello \/ ClientRequest
  <2>1. /\ inbox["server"] \in Seq(Messages)
        /\ \A m \in Messages : Append1(inbox["server"], m) \in Seq(Messages)
    BY AppendType DEF TypeInv, Ends
  <2> QED
    BY <1>3, <2>1 DEF ClientHello, ClientRequest, Send, TypeInv, world, Ends, Peer,
                      Messages, Waiting
<1>4. CASE ServerFlight \/ ServerFinished \/ ServerReply \/ ClientDone
  BY <1>1, <1>4 DEF ServerFlight, ServerFinished, ServerReply, ClientDone, Ends, Messages,
                    Waiting, Final
<1>5. CASE VerifyServerCert
  BY <1>2, <1>5 DEF VerifyServerCert, Ends, Messages, Waiting
<1>6. CASE VerifyClientCert
  BY <1>2, <1>6 DEF VerifyClientCert, Ends, Messages, Waiting
<1>7. ASSUME NEW e \in Ends, Fail(e) PROVE TypeInv'
  BY <1>7 DEF Fail, TypeInv, world, Final
<1>8. CASE LoseLink
  <2>1. PICK n \in [Ends -> 0 .. 2] :
          /\ \A e \in Ends : n[e] <= Len(inbox[e])
          /\ inbox' = [e \in Ends |-> SubSeq(inbox[e], 1, n[e])]
    BY <1>8 DEF LoseLink
  <2>2. ASSUME NEW e \in Ends PROVE SubSeq(inbox[e], 1, n[e]) \in Seq(Messages)
    <3>1. inbox[e] \in Seq(Messages)
      BY DEF TypeInv
    <3>2. n[e] \in 0 .. Len(inbox[e])
      BY <2>1, <3>1
    <3> QED
      BY <3>1, <3>2, PrefixType
  <2> QED
    BY <1>8, <2>1, <2>2 DEF LoseLink, TypeInv, world
<1>9. CASE UNCHANGED vars
  BY <1>9 DEF vars, TypeInv, world
<1> QED
  BY <1>3, <1>4, <1>5, <1>6, <1>7, <1>8, <1>9 DEF Next, Client, Server, Ends

-----------------------------------------------------------------------------
(* Which end trusts the other, by where the ends are and what is under way *)

TrustInv ==
  /\ pc["client"] \in {"finished", "established", "reply", "talked"} => Trusts("client")
  /\ In("auth", inbox["server"]) => Trusts("client")
  /\ pc["server"] \in Established => Trusts("client") /\ Trusts("server")
  /\ In("y", inbox["client"]) => pc["server"] = "talked"
  /\ pc["client"] = "talked" => pc["server"] = "talked"

LEMMA TrustInit == Init => TrustInv
  BY DEF Init, TrustInv, In, Ends, Established

(* A peer that is trusted stays so: the verdict depends on `world`, and    *)
(* judging the peer anew would write the same cells (pin_and_bind).        *)
LEMMA TrustStays ==
  ASSUME TypeInv, [Next]_vars, NEW e \in Ends, Trusts(e)
  PROVE  Trusts(e)'
<1>1. UNCHANGED world
  BY DEF Next, Client, Server, ClientHello, VerifyServerCert, ServerFinished,
         ClientRequest, ClientDone, ServerFlight, VerifyClientCert, ServerReply, Fail,
         LoseLink, Judge, vars
<1>2. Approves(e)' /\ Cells(e)' = Cells(e)
  BY <1>1 DEF Trusts, Approves, Cells, Verdict, ChainOk, pin_and_bind, Captures, PinOk,
              Binding,
              Leaf, Peer, Usage, world
<1>3. captured'[e] = Cells(e)
  <2>1. CASE UNCHANGED captured
    BY <2>1 DEF Trusts
  <2>2. CASE VerifyServerCert
    BY <2>2 DEF VerifyServerCert, Judge, Trusts, Cells, Usage, TypeInv, Ends
  <2>3. CASE VerifyClientCert
    BY <2>3 DEF VerifyClientCert, Judge, Trusts, Cells, Usage, TypeInv, Ends
  <2> QED
    BY <2>1, <2>2, <2>3
    DEF Next, Client, Server, ClientHello, ServerFinished, ClientRequest, ClientDone,
        ServerFlight, ServerReply, Fail, LoseLink, vars
<1> QED
  BY <1>2, <1>3 DEF Trusts

(* What an end finds was there, or is the answer just sent to it.          *)
LEMMA AnswerSends ==
  ASSUME TypeInv, NEW e \in Ends, NEW from, NEW m, NEW a, NEW to,
         Answer(e, from, m, a, to), NEW k \in Ends, NEW y, In(y, inbox'[k])
  PROVE  In(y, inbox[k]) \/ (k = Peer(e) /\ y = a)
<1>1. inbox[k] \in Seq(Messages) /\ Peer(e) # e /\ Peer(e) \in Ends
  BY DEF TypeInv, Ends, Peer
<1>2. CASE k = e
  BY <1>1, <1>2, InTail DEF Answer, TypeInv
<1>3. CASE k = Peer(e)
  BY <1>1, <1>3, InAppend DEF Answer, TypeInv
<1> QED
  BY <1>2, <1>3 DEF Ends, Peer

LEMMA AnswerMoves ==
  ASSUME TypeInv, NEW e \in Ends, NEW from, NEW m, NEW a, NEW to, Answer(e, from, m, a, to)
  PROVE  /\ pc[e] = from /\ pc'[e] = to /\ pc'[Peer(e)] = pc[Peer(e)]
         /\ In(m, inbox[e])
  BY InHead DEF Answer, TypeInv, Ends, Peer

(* A verifier's end either trusts its peer and goes on, or sends an alert. *)
LEMMA JudgeTrusts ==
  ASSUME TypeInv, NEW e \in Ends, NEW from, NEW m, NEW a, NEW to,
         Judge(e, from, m, Usage(e), a, to)
  PROVE  \/ Trusts(e)' /\ Answer(e, from, m, a, to)
         \/ Answer(e, from, m, "alert", "refused")
<1>1. CASE Approves(e)
  <2>1. UNCHANGED world /\ captured'[e] = Cells(e)
    BY DEF Judge, Cells, TypeInv
  <2>2. Approves(e)' /\ Cells(e)' = Cells(e)
    BY <1>1, <2>1 DEF Approves, Cells, Verdict, ChainOk, pin_and_bind, Captures, PinOk,
              Binding,
                      Leaf, Peer, Usage, world
  <2> QED
    BY <1>1, <2>1, <2>2 DEF Judge, Approves, Trusts
<1>2. CASE ~ Approves(e)
  BY <1>2 DEF Judge, Approves
<1> QED
  BY <1>1, <1>2

LEMMA TrustNext == TypeInv /\ TrustInv /\ [Next]_vars => TrustInv'
<1> SUFFICES ASSUME TypeInv, TrustInv, [Next]_vars PROVE TrustInv'
  OBVIOUS
<1>0. /\ Trusts("client") => Trusts("client")'
      /\ Trusts("server") => Trusts("server")'
  BY TrustStays DEF Ends
<1>q. inbox["client"] \in Seq(Messages) /\ inbox["server"] \in Seq(Messages)
  BY DEF TypeInv, Ends
<1> USE DEF TrustInv, Established, Ends, Peer
<1>1. CASE ClientHello
  <2>1. \A y : In(y, inbox'["server"]) => In(y, inbox["server"]) \/ y = "hello"
    BY <1>1, <1>q, InAppend DEF ClientHello, Send, TypeInv
  <2> QED
    BY <1>0, <1>1, <2>1 DEF ClientHello, Send, TypeInv
<1>2. CASE ClientRequest
  <2>1. \A y : In(y, inbox'["server"]) => In(y, inbox["server"]) \/ y = "x"
    BY <1>2, <1>q, InAppend DEF ClientRequest, Send, TypeInv
  <2> QED
    BY <1>0, <1>2, <2>1 DEF ClientRequest, Send, TypeInv
<1>3. CASE VerifyServerCert
  <2>1. PICK a, to : /\ Answer("client", "flight", "flight", a, to)
                     /\ to \in {"established", "finished", "refused"}
                     /\ a \in {"auth", "alert"}
                     /\ to # "refused" \/ a = "auth" => Trusts("client")'
    BY <1>3, JudgeTrusts DEF VerifyServerCert, Usage
  <2>2. /\ pc'["client"] = to /\ pc'["server"] = pc["server"]
        /\ In("auth", inbox'["server"]) => In("auth", inbox["server"]) \/ a = "auth"
        /\ In("y", inbox'["client"]) => In("y", inbox["client"])
    BY <2>1, AnswerMoves, AnswerSends
  <2> QED
    BY <1>0, <2>1, <2>2
<1>4. CASE VerifyClientCert
  <2>1. PICK a, to : /\ Answer("server", "auth", "auth", a, to)
                     /\ to \in {"established", "refused"}
                     /\ a \in {"finished", "nothing", "alert"}
                     /\ to = "established" => Trusts("server")'
    BY <1>4, JudgeTrusts DEF VerifyClientCert, Usage
  <2>2. /\ pc'["server"] = to /\ pc'["client"] = pc["client"] /\ pc["server"] = "auth"
        /\ In("auth", inbox["server"])
        /\ In("auth", inbox'["server"]) => In("auth", inbox["server"])
        /\ In("y", inbox'["client"]) => In("y", inbox["client"])
    BY <2>1, AnswerMoves, AnswerSends
  <2> QED
    BY <1>0, <2>1, <2>2
<1>5. CASE ServerFlight
  <2>1. Answer("server", "accept", "hello", "flight", "auth")
    BY <1>5 DEF ServerFlight
  <2> QED
    BY <1>0, <2>1, AnswerMoves, AnswerSends
<1>6. CASE ServerFinished
  <2>1. Answer("client", "finished", "finished", "nothing", "established")
    BY <1>6 DEF ServerFinished
  <2> QED
    BY <1>0, <2>1, AnswerMoves, AnswerSends
<1>7. CASE ServerReply
  <2>1. Answer("server", "established", "x", "y", "talked")
    BY <1>7 DEF ServerReply
  <2> QED
    BY <1>0, <2>1, AnswerMoves, AnswerSends
<1>8. CASE ClientDone
  <2>1. Answer("client", "reply", "y", "nothing", "talked")
    BY <1>8 DEF ClientDone
  <2> QED
    BY <1>0, <2>1, AnswerMoves, AnswerSends
<1>9. ASSUME NEW e \in Ends, Fail(e) PROVE TrustInv'
  BY <1>0, <1>9 DEF Fail, TypeInv, Waiting
<1>10. CASE LoseLink
  <2>1. PICK n \in [Ends -> 0 .. 2] :
          /\ \A e \in Ends : n[e] <= Len(inbox[e])
          /\ inbox' = [e \in Ends |-> SubSeq(inbox[e], 1, n[e])]
    BY <1>10 DEF LoseLink
  <2>2. /\ n["client"] \in 0 .. Len(inbox["client"])
        /\ n["server"] \in 0 .. Len(inbox["server"])
    BY <2>1, <1>q
  <2>3. \A y : /\ In(y, inbox'["client"]) => In(y, inbox["client"])
               /\ In(y, inbox'["server"]) => In(y, inbox["server"])
    BY <2>1, <2>2, <1>q, InPrefix
  <2> QED
    BY <1>0, <1>10, <2>3 DEF LoseLink
<1>11. CASE UNCHANGED vars
  BY <1>0, <1>11 DEF vars
<1> QED
  BY <1>1, <1>2, <1>3, <1>4, <1>5, <1>6, <1>7, <1>8, <1>9, <1>10, <1>11
  DEF Next, Client, Server

LEMMA TrustAlways == Spec => [](TypeInv /\ TrustInv)
  BY TypeInit, TypeNext, TrustInit, TrustNext, PTL DEF Spec

(* An end that trusts its peer knows it, at every reachable state.         *)
LEMMA Knowledge ==
  ASSUME Dated, TypeInv, NEW e \in Ends, Trusts(e)
  PROVE  Knows(e)
  BY TrustIsKnowledge, MutualAssumption DEF TypeInv, Ends, Peer

(* Whatever the two configurations, leaves, clocks and the version: a      *)
(* server that has a client knows it, and is known to it.                  *)
THEOREM ServerIsMutual == ASSUME Dated PROVE Spec => []ServerEndIsMutual
<1>1. TypeInv /\ TrustInv => ServerEndIsMutual
  BY Knowledge DEF TrustInv, ServerEndIsMutual, Ends
<1> QED
  BY <1>1, TrustAlways, PTL

(* A client that got an answer got it from a server that accepted it.      *)
THEOREM ReplyIsMutual == ASSUME Dated PROVE Spec => []ReplyMeansMutual
<1>1. TypeInv /\ TrustInv => ReplyMeansMutual
  BY Knowledge DEF TrustInv, ReplyMeansMutual, Established, Ends
<1> QED
  BY <1>1, TrustAlways, PTL

-----------------------------------------------------------------------------
(* How much is under way, and that the two ends cannot drift apart *)

(* An end answers before it is sent more; while the transport lasts, the   *)
(* server that has answered a request finds the client still waiting.      *)
FlowInv ==
  LET c  == pc["client"]
      s  == pc["server"]
      ci == inbox["client"]
      si == inbox["server"]
  IN  /\ Len(ci) <= 2 /\ Len(si) <= 2
      /\ s = "accept" => ci = <<>> /\ Len(si) <= 1 /\ c \in {"start", "flight", "failed"}
      /\ s = "auth" => Len(ci) <= 1 /\ (ci = <<>> \/ si = <<>>)
      /\ s \in {"established", "refused"} => Len(ci) <= 1
      /\ c = "start" => si = <<>> /\ ci = <<>> /\ s \in {"accept", "failed"}
      /\ c = "flight" => /\ Len(si) <= 1 /\ (ci # <<>> => si = <<>>)
                         /\ s \in {"accept", "auth", "failed"}
      /\ c \in {"finished", "established", "refused"} => Len(si) <= 1
      /\ In("auth", si) \/ In("x", si) => c \notin {"start", "flight"}
      /\ In("finished", ci) => s \notin {"accept", "auth"}
      /\ version = "1.2" /\ s \in {"accept", "auth"} => c \notin {"established", "reply", "talked"}
      /\ link = "up" /\ s \in {"auth", "established"} =>
           /\ c \in {"established", "reply"} => ci = <<>>
           /\ In("x", si) => c = "reply"
      /\ link = "up" /\ s = "talked" =>
           c = "talked" \/ (c = "reply" /\ ci # <<>> /\ Head(ci) = "y")

LEMMA FlowInit == Init => FlowInv
  BY DEF Init, FlowInv, Ends, In

(* The queues after a step that reads a message and answers it.            *)
LEMMA AnswerQueues ==
  ASSUME TypeInv, NEW e \in Ends, NEW from, NEW m, NEW a \in Messages \cup {"nothing"}, NEW to,
         Answer(e, from, m, a, to)
  PROVE  /\ inbox[e] # <<>> /\ Head(inbox[e]) = m
         /\ inbox'[e] = Tail(inbox[e]) /\ Len(inbox'[e]) = Len(inbox[e]) - 1
         /\ inbox'[Peer(e)] = Append1(inbox[Peer(e)], a)
         /\ Len(inbox'[Peer(e)]) <= Len(inbox[Peer(e)]) + 1
<1>1. inbox[e] \in Seq(Messages) /\ inbox[Peer(e)] \in Seq(Messages) /\ Peer(e) # e
      /\ Peer(e) \in Ends
  BY DEF TypeInv, Ends, Peer
<1> QED
  BY <1>1, TailType, AppendType DEF Answer, TypeInv

LEMMA FlowNext == TypeInv /\ TypeInv' /\ TrustInv /\ FlowInv /\ [Next]_vars => FlowInv'
<1> SUFFICES ASSUME TypeInv, TypeInv', TrustInv, FlowInv, [Next]_vars PROVE FlowInv'
  OBVIOUS
<1>q. /\ inbox["client"] \in Seq(Messages) /\ inbox["server"] \in Seq(Messages)
      /\ inbox'["client"] \in Seq(Messages) /\ inbox'["server"] \in Seq(Messages)
  BY DEF TypeInv, Ends
<1> USE DEF FlowInv, Ends, Peer
<1>1. CASE ClientHello
  <2>1. /\ pc["client"] = "start" /\ pc' = [pc EXCEPT !["client"] = "flight"]
        /\ inbox'["client"] = inbox["client"]
        /\ inbox'["server"] = Append1(inbox["server"], "hello")
        /\ UNCHANGED <<link, version>>
    BY <1>1 DEF ClientHello, Send, TypeInv, world
  <2>2. Len(inbox'["server"]) <= 1
    BY <1>q, <2>1, AppendType DEF Messages
  <2>3. ~ In("auth", inbox'["server"]) /\ ~ In("x", inbox'["server"])
    <3>1. inbox["server"] = <<>>
      BY <2>1
    <3>2. ~ In("auth", inbox["server"]) /\ ~ In("x", inbox["server"])
      BY <3>1 DEF In
    <3> QED
      BY <1>q, <2>1, <3>2, InAppend
  <2> QED
    BY <1>q, <2>1, <2>2, <2>3 DEF TypeInv
<1>2. CASE ClientRequest
  <2>1. /\ pc["client"] = "established" /\ pc' = [pc EXCEPT !["client"] = "reply"]
        /\ inbox'["client"] = inbox["client"]
        /\ inbox'["server"] = Append1(inbox["server"], "x")
        /\ UNCHANGED <<link, version>>
    BY <1>2 DEF ClientRequest, Send, TypeInv, world
  <2>2. /\ Len(inbox'["server"]) <= Len(inbox["server"]) + 1
        /\ link # "up" => inbox'["server"] = inbox["server"]
    BY <1>q, <2>1, AppendType DEF Messages, Append1
  <2> QED
    BY <1>q, <2>1, <2>2 DEF TypeInv, TrustInv
<1>3. CASE VerifyServerCert
  <2>1. PICK a, to : /\ Answer("client", "flight", "flight", a, to)
                     /\ a \in {"auth", "alert"}
                     /\ to \in {"established", "finished", "refused"}
                     /\ version = "1.2" => to # "established"
    BY <1>3 DEF VerifyServerCert, Judge
  <2>2. UNCHANGED <<link, version>>
    BY <1>3 DEF VerifyServerCert, Judge, world
  <2>3. /\ pc["client"] = "flight" /\ pc' = [pc EXCEPT !["client"] = to]
        /\ inbox["client"] # <<>>
        /\ Len(inbox'["client"]) = Len(inbox["client"]) - 1
        /\ Len(inbox'["server"]) <= Len(inbox["server"]) + 1
    BY <2>1, AnswerQueues DEF Answer, Messages
  <2>4. /\ In("x", inbox'["server"]) => In("x", inbox["server"])
        /\ In("finished", inbox'["client"]) => In("finished", inbox["client"])
    BY <2>1, AnswerSends
  <2> QED
    BY <1>q, <2>1, <2>2, <2>3, <2>4 DEF TypeInv
<1>4. CASE VerifyClientCert
  <2>1. PICK a, to : /\ Answer("server", "auth", "auth", a, to)
                     /\ a \in {"finished", "nothing", "alert"}
                     /\ to \in {"established", "refused"}
                     /\ to = "established" => a \in {"finished", "nothing"}
                     /\ a = "finished" => version = "1.2"
    BY <1>4 DEF VerifyClientCert, Judge
  <2>2. UNCHANGED <<link, version>>
    BY <1>4 DEF VerifyClientCert, Judge, world
  <2>3. /\ pc["server"] = "auth" /\ pc' = [pc EXCEPT !["server"] = to]
        /\ inbox["server"] # <<>>
        /\ Len(inbox'["server"]) = Len(inbox["server"]) - 1
        /\ Len(inbox'["client"]) <= Len(inbox["client"]) + 1
        /\ inbox'["client"] = Append1(inbox["client"], a)
    BY <2>1, AnswerQueues DEF Answer, Messages
  <2>4. /\ In("auth", inbox["server"])
        /\ In("auth", inbox'["server"]) => In("auth", inbox["server"])
        /\ In("x", inbox'["server"]) => In("x", inbox["server"])
    BY <2>1, AnswerSends, AnswerMoves
  <2>5. a = "nothing" => inbox'["client"] = inbox["client"]
    BY <2>3 DEF Append1
  <2> QED
    BY <1>q, <2>1, <2>2, <2>3, <2>4, <2>5 DEF TypeInv
<1>5. CASE ServerFlight
  <2>1. /\ Answer("server", "accept", "hello", "flight", "auth") /\ UNCHANGED <<link, version>>
    BY <1>5 DEF ServerFlight, world
  <2>2. /\ pc["server"] = "accept" /\ pc' = [pc EXCEPT !["server"] = "auth"]
        /\ inbox["server"] # <<>>
        /\ Len(inbox'["server"]) = Len(inbox["server"]) - 1
        /\ Len(inbox'["client"]) <= Len(inbox["client"]) + 1
    BY <2>1, AnswerQueues DEF Answer, Messages
  <2>3. /\ In("auth", inbox'["server"]) => In("auth", inbox["server"])
        /\ In("x", inbox'["server"]) => In("x", inbox["server"])
        /\ In("finished", inbox'["client"]) => In("finished", inbox["client"])
    BY <2>1, AnswerSends
  <2>4. inbox'["server"] = <<>> /\ Len(inbox'["client"]) <= 1
    BY <1>q, <2>2
  <2>5. pc["client"] \in {"flight", "failed"} /\ pc'["client"] = pc["client"]
        /\ pc'["server"] = "auth"
    BY <1>q, <2>2 DEF TypeInv
  <2>6. ~ In("auth", inbox'["server"]) /\ ~ In("x", inbox'["server"])
        /\ ~ In("finished", inbox'["client"])
    <3>1. ~ In("finished", inbox["client"])
      BY <2>2
    <3> QED
      BY <2>3, <2>4, <3>1 DEF In
  <2> QED
    BY <1>q, <2>1, <2>4, <2>5, <2>6
<1>6. CASE ServerFinished
  <2>1. Answer("client", "finished", "finished", "nothing", "established")
        /\ UNCHANGED <<link, version>>
    BY <1>6 DEF ServerFinished, world
  <2>2. /\ pc["client"] = "finished" /\ pc' = [pc EXCEPT !["client"] = "established"]
        /\ inbox["client"] # <<>>
        /\ Len(inbox'["client"]) = Len(inbox["client"]) - 1
        /\ inbox'["server"] = inbox["server"]
    BY <2>1, AnswerQueues DEF Answer, Append1
  <2>3. /\ In("finished", inbox["client"])
        /\ In("finished", inbox'["client"]) => In("finished", inbox["client"])
    BY <2>1, AnswerSends, AnswerMoves
  <2> QED
    BY <1>q, <2>1, <2>2, <2>3 DEF TypeInv
<1>7. CASE ServerReply
  <2>1. Answer("server", "established", "x", "y", "talked") /\ UNCHANGED <<link, version>>
    BY <1>7 DEF ServerReply, world
  <2>2. /\ pc["server"] = "established" /\ pc' = [pc EXCEPT !["server"] = "talked"]
        /\ Len(inbox'["server"]) = Len(inbox["server"]) - 1
        /\ Len(inbox'["client"]) <= Len(inbox["client"]) + 1
        /\ inbox'["client"] = Append1(inbox["client"], "y")
    BY <2>1, AnswerQueues DEF Answer, Messages
  <2>3. /\ In("x", inbox["server"])
        /\ In("auth", inbox'["server"]) => In("auth", inbox["server"])
        /\ In("x", inbox'["server"]) => In("x", inbox["server"])
    BY <2>1, AnswerSends, AnswerMoves
  <2>4. link = "up" => pc["client"] = "reply" /\ inbox["client"] = <<>>
    BY <2>2, <2>3
  <2>5. link = "up" => inbox'["client"] # <<>> /\ Head(inbox'["client"]) = "y"
    <3>1. Append(<<>>, "y") # <<>> /\ Head(Append(<<>>, "y")) = "y"
      OBVIOUS
    <3> QED
      BY <2>2, <2>4, <3>1 DEF Append1
  <2> QED
    BY <1>q, <2>1, <2>2, <2>3, <2>4, <2>5 DEF TypeInv
<1>8. CASE ClientDone
  <2>1. Answer("client", "reply", "y", "nothing", "talked") /\ UNCHANGED <<link, version>>
    BY <1>8 DEF ClientDone, world
  <2>2. /\ pc["client"] = "reply" /\ pc' = [pc EXCEPT !["client"] = "talked"]
        /\ Len(inbox'["client"]) = Len(inbox["client"]) - 1
        /\ inbox'["server"] = inbox["server"]
    BY <2>1, AnswerQueues DEF Answer, Append1
  <2>3. pc["server"] = "talked"
    BY <2>1, AnswerMoves DEF TrustInv
  <2>4. In("finished", inbox'["client"]) => In("finished", inbox["client"])
    BY <2>1, AnswerSends
  <2> QED
    BY <1>q, <2>1, <2>2, <2>3, <2>4 DEF TypeInv
<1>9. ASSUME NEW e \in Ends, Fail(e) PROVE FlowInv'
  <2>1. /\ UNCHANGED <<inbox, link, version>> /\ pc' = [pc EXCEPT ![e] = "failed"]
        /\ pc[e] \in Waiting
        /\ inbox[e] = <<>> => Told(e) \/ (link = "up" /\ pc[Peer(e)] \in Final)
        /\ inbox[e] # <<>> => Head(inbox[e]) = "alert"
    BY <1>9 DEF Fail, world
  <2>2. CASE e = "client"
    <3>1. ~ (link = "up" /\ pc["server"] = "talked")
      BY <2>1, <2>2 DEF Waiting, TypeInv
    <3>2. link = "up" /\ pc["server"] \in {"auth", "established"} => pc["client"] # "reply"
      BY <2>1, <2>2 DEF Told, Final
    <3> QED
      BY <2>1, <2>2, <3>1, <3>2 DEF TypeInv
  <2>3. CASE e = "server"
    BY <2>1, <2>3 DEF TypeInv
  <2> QED
    BY <2>2, <2>3
<1>10. CASE LoseLink
  <2>1. PICK n \in [Ends -> 0 .. 2] :
          /\ \A e \in Ends : n[e] <= Len(inbox[e])
          /\ inbox' = [e \in Ends |-> SubSeq(inbox[e], 1, n[e])]
    BY <1>10 DEF LoseLink
  <2>2. /\ n["client"] \in 0 .. Len(inbox["client"])
        /\ n["server"] \in 0 .. Len(inbox["server"])
    BY <2>1, <1>q
  <2>3. \A y : /\ In(y, inbox'["client"]) => In(y, inbox["client"])
               /\ In(y, inbox'["server"]) => In(y, inbox["server"])
    BY <2>1, <2>2, <1>q, InPrefix
  <2>4. /\ Len(inbox'["client"]) <= Len(inbox["client"])
        /\ Len(inbox'["server"]) <= Len(inbox["server"])
    BY <2>1, <2>2, <1>q, PrefixType
  <2>5. UNCHANGED <<pc, version>> /\ link' # "up"
    BY <1>10 DEF LoseLink, Losses, Ends, world
  <2> QED
    BY <1>q, <2>3, <2>4, <2>5
<1>11. CASE UNCHANGED vars
  BY <1>11 DEF vars, world
<1> QED
  BY <1>1, <1>2, <1>3, <1>4, <1>5, <1>6, <1>7, <1>8, <1>9, <1>10, <1>11
  DEF Next, Client, Server

LEMMA FlowAlways == Spec => [](TypeInv /\ TrustInv /\ FlowInv)
  BY TypeInit, TypeNext, TrustInit, TrustNext, FlowInit, FlowNext, PTL DEF Spec

(* Every reachable state is well typed, with at most two messages under    *)
(* way to either end.                                                      *)
THEOREM MutualTypeCorrect == Spec => []TypeOK
<1>1. TypeInv /\ FlowInv => TypeOK
  BY DEF TypeInv, FlowInv, TypeOK, Ends
<1> QED
  BY <1>1, FlowAlways, PTL

-----------------------------------------------------------------------------
(* Nobody is stuck *)

(* Where the ends can be, what is first in their queues, and that with the *)
(* transport up the end whose turn it is has something to read.            *)
TurnInv ==
  LET c  == pc["client"]
      s  == pc["server"]
      ci == inbox["client"]
      si == inbox["server"]
  IN  /\ c \in {"start", "flight", "finished", "established", "reply"} \cup Final
      /\ s \in {"accept", "auth", "established"} \cup Final
      /\ c = "finished" => version # "1.3"
      /\ Len(ci) <= 1
      /\ ci # <<>> =>
           /\ c = "flight" => ci[1] = "flight"
           /\ c = "finished" => ci[1] \in {"finished", "alert"}
           /\ c \in {"established", "reply"} => ci[1] \in {"y", "alert"}
      /\ si # <<>> =>
           /\ s = "accept" => si[1] = "hello"
           /\ s = "auth" => si[1] = "auth" \/ (si[1] = "alert" /\ c = "refused")
           /\ s = "established" => si[1] = "x"
      /\ s = "auth" /\ Len(si) > 1 => si[2] = "x"
      /\ link = "up" =>
           /\ c = "start"       => s = "accept"
           /\ c = "flight"      => (s = "accept" /\ si # <<>>) \/ (s = "auth" /\ ci # <<>>)
           /\ c = "finished"    => (s = "auth" /\ si # <<>>) \/ ci # <<>>
           /\ c = "established" /\ s = "auth" => si # <<>>
           /\ c = "reply" => \/ s = "auth" /\ Len(si) > 1
                             \/ s = "established" /\ si # <<>>
                             \/ s \in Final

LEMMA TurnInit == Init => TurnInv
  BY MutualAssumption DEF Init, TurnInv, Ends, Final

(* The first messages of a queue after a read, a send and a loss.          *)
LEMMA TailFirst ==
  ASSUME NEW q \in Seq(Messages), q # <<>>
  PROVE  /\ Len(Tail(q)) = Len(q) - 1
         /\ Tail(q) # <<>> => Len(q) > 1 /\ Tail(q)[1] = q[2]
<1>1. Tail(q) \in Seq(Messages) /\ Len(Tail(q)) = Len(q) - 1
  OBVIOUS
<1>2. Tail(q) # <<>> => Len(q) > 1
  BY <1>1
<1>3. Len(q) > 1 => Tail(q)[1] = q[2]
  OBVIOUS
<1> QED
  BY <1>1, <1>2, <1>3

LEMMA AppendFirst ==
  ASSUME NEW q \in Seq(Messages), NEW a \in Messages
  PROVE  /\ link # "up" => Append1(q, a) = q
         /\ link = "up" =>
              /\ Len(Append1(q, a)) = Len(q) + 1
              /\ q = <<>> => Append1(q, a)[1] = a
              /\ q # <<>> => Append1(q, a)[1] = q[1]
              /\ q # <<>> /\ Len(q) <= 1 => Append1(q, a)[2] = a
<1>1. a # "nothing"
  BY DEF Messages
<1>2. CASE link = "up"
  <2>1. Append1(q, a) = Append(q, a)
    BY <1>1, <1>2 DEF Append1
  <2>2. /\ Len(Append(q, a)) = Len(q) + 1 /\ Append(q, a)[Len(q) + 1] = a
        /\ \A i \in 1 .. Len(q) : Append(q, a)[i] = q[i]
    OBVIOUS
  <2>3. q # <<>> => Len(q) > 0
    OBVIOUS
  <2>4. q = <<>> => Len(q) = 0
    OBVIOUS
  <2> QED
    BY <1>2, <2>1, <2>2, <2>3, <2>4
<1>3. CASE link # "up"
  BY <1>1, <1>3 DEF Append1
<1> QED
  BY <1>2, <1>3

LEMMA PrefixFirst ==
  ASSUME NEW q \in Seq(Messages), NEW n \in 0 .. Len(q)
  PROVE  \A i \in 1 .. n : SubSeq(q, 1, n)[i] = q[i]
  OBVIOUS

LEMMA TurnNext ==
  TypeInv /\ TypeInv' /\ TrustInv /\ FlowInv /\ TurnInv /\ [Next]_vars => TurnInv'
<1> SUFFICES ASSUME TypeInv, TypeInv', TrustInv, FlowInv, TurnInv, [Next]_vars PROVE TurnInv'
  OBVIOUS
<1>q. /\ inbox["client"] \in Seq(Messages) /\ inbox["server"] \in Seq(Messages)
      /\ inbox'["client"] \in Seq(Messages) /\ inbox'["server"] \in Seq(Messages)
      /\ pc \in [Ends -> Waiting \cup Final]
      /\ version \in {"1.2", "1.3"}
  BY MutualAssumption DEF TypeInv, Ends
<1>e. /\ Len(inbox["client"]) \in Nat /\ (inbox["client"] = <<>> <=> Len(inbox["client"]) = 0)
      /\ Len(inbox["server"]) \in Nat /\ (inbox["server"] = <<>> <=> Len(inbox["server"]) = 0)
      /\ Len(inbox'["client"]) \in Nat /\ (inbox'["client"] = <<>> <=> Len(inbox'["client"]) = 0)
      /\ Len(inbox'["server"]) \in Nat /\ (inbox'["server"] = <<>> <=> Len(inbox'["server"]) = 0)
  <2>1. \A q \in Seq(Messages) : Len(q) \in Nat /\ (q = <<>> <=> Len(q) = 0)
    OBVIOUS
  <2> QED
    BY <1>q, <2>1
<1> USE DEF Ends, Peer
<1>1. CASE ClientHello
  <2>1. /\ pc["client"] = "start" /\ pc'["client"] = "flight" /\ pc'["server"] = pc["server"]
        /\ inbox'["client"] = inbox["client"]
        /\ inbox'["server"] = Append1(inbox["server"], "hello")
        /\ UNCHANGED <<link, version>>
    BY <1>1 DEF ClientHello, Send, TypeInv, world
  <2>2. link = "up" => /\ Len(inbox'["server"]) = Len(inbox["server"]) + 1
                       /\ inbox["server"] = <<>> => inbox'["server"][1] = "hello"
    BY <1>q, <1>e, <2>1, AppendFirst DEF Messages
  <2>3. link # "up" => inbox'["server"] = inbox["server"]
    BY <1>q, <2>1, AppendFirst DEF Messages
  <2> QED
    BY <1>q, <1>e, <2>1, <2>2, <2>3 DEF FlowInv, TurnInv, Final
<1>2. CASE ClientRequest
  <2>1. /\ pc["client"] = "established" /\ pc'["client"] = "reply" /\ pc'["server"] = pc["server"]
        /\ inbox'["client"] = inbox["client"]
        /\ inbox'["server"] = Append1(inbox["server"], "x")
        /\ UNCHANGED <<link, version>>
    BY <1>2 DEF ClientRequest, Send, TypeInv, world
  <2>2. link = "up" => /\ Len(inbox'["server"]) = Len(inbox["server"]) + 1
                       /\ inbox["server"] = <<>> => inbox'["server"][1] = "x"
                       /\ inbox["server"] # <<>> /\ Len(inbox["server"]) <= 1
                            => inbox'["server"][2] = "x"
                       /\ inbox["server"] # <<>> => inbox'["server"][1] = inbox["server"][1]
    BY <1>q, <1>e, <2>1, AppendFirst DEF Messages
  <2>3. link # "up" => inbox'["server"] = inbox["server"]
    BY <1>q, <2>1, AppendFirst DEF Messages
  <2>4. /\ pc["server"] # "accept"
        /\ link = "up" /\ pc["server"] = "auth" => inbox["server"] # <<>>
        /\ Len(inbox["server"]) <= 1
    BY <2>1 DEF FlowInv, TurnInv
  <2>5. link = "up" => inbox'["server"] # <<>>
    BY <1>q, <1>e, <2>2
  <2> QED
    BY <1>q, <1>e, <2>1, <2>2, <2>3, <2>4, <2>5 DEF TurnInv, Final
<1>3. CASE VerifyServerCert
  <2>1. PICK a, to : /\ Answer("client", "flight", "flight", a, to)
                     /\ a \in {"auth", "alert"}
                     /\ to \in {"established", "finished", "refused"}
                     /\ version = "1.3" => to # "finished"
                     /\ a = "alert" => to = "refused"
    BY <1>3 DEF VerifyServerCert, Judge
  <2>2. UNCHANGED <<link, version>>
    BY <1>3 DEF VerifyServerCert, Judge, world
  <2>3. /\ pc["client"] = "flight" /\ pc'["client"] = to /\ pc'["server"] = pc["server"]
        /\ inbox["client"] # <<>> /\ inbox'["client"] = Tail(inbox["client"])
        /\ inbox'["server"] = Append1(inbox["server"], a)
    BY <2>1, AnswerQueues, AnswerMoves DEF Messages
  <2>4. Len(inbox'["client"]) = Len(inbox["client"]) - 1
    BY <1>q, <2>3, TailFirst
  <2>5. /\ link = "up" => Len(inbox'["server"]) = Len(inbox["server"]) + 1
        /\ link = "up" /\ inbox["server"] = <<>> => inbox'["server"][1] = a
        /\ link = "up" /\ inbox["server"] # <<>> => inbox'["server"][1] = inbox["server"][1]
        /\ link # "up" => inbox'["server"] = inbox["server"]
    BY <1>q, <1>e, <2>1, <2>3, AppendFirst DEF Messages
  <2>6. inbox["server"] = <<>> /\ pc["server"] \in {"auth", "failed"}
    BY <2>3 DEF FlowInv
  <2>7. Len(inbox["client"]) <= 1
    BY DEF TurnInv
  <2>8. inbox'["client"] = <<>>
    BY <1>q, <1>e, <2>4, <2>7
  <2>9. /\ inbox'["server"] # <<>> => inbox'["server"][1] = a
        /\ Len(inbox'["server"]) <= 1
        /\ link = "up" => inbox'["server"] # <<>>
    <3>1. Len(inbox["server"]) <= 0
      BY <1>e, <2>6
    <3>2. CASE link = "up"
      <4>1. Len(inbox'["server"]) = Len(inbox["server"]) + 1 /\ inbox'["server"][1] = a
        BY <2>5, <2>6, <3>2
      <4>2. Len(inbox'["server"]) <= 1 /\ Len(inbox'["server"]) > 0
        BY <1>e, <3>1, <4>1
      <4> QED
        BY <1>e, <4>1, <4>2
    <3>3. CASE link # "up"
      <4>1. inbox'["server"] = inbox["server"]
        BY <2>5, <3>3
      <4>2. Len(inbox'["server"]) <= 1
        BY <3>1, <4>1
      <4> QED
        BY <2>6, <3>3, <4>1, <4>2
    <3> QED
      BY <1>q, <3>2, <3>3
  <2> QED
    BY <1>q, <1>e, <2>1, <2>2, <2>3, <2>6, <2>8, <2>9 DEF TurnInv, Final
<1>4. CASE VerifyClientCert
  <2>1. PICK a, to : /\ Answer("server", "auth", "auth", a, to)
                     /\ a \in {"finished", "nothing", "alert"}
                     /\ to \in {"established", "refused"}
                     /\ to = "refused" => a = "alert"
                     /\ to = "established" => (a = "finished" <=> version = "1.2")
                     /\ to = "established" => a # "alert"
    BY <1>4 DEF VerifyClientCert, Judge
  <2>2. UNCHANGED <<link, version>>
    BY <1>4 DEF VerifyClientCert, Judge, world
  <2>3. /\ pc["server"] = "auth" /\ pc'["server"] = to /\ pc'["client"] = pc["client"]
        /\ inbox["server"] # <<>> /\ inbox'["server"] = Tail(inbox["server"])
        /\ inbox'["client"] = Append1(inbox["client"], a)
    BY <2>1, AnswerQueues, AnswerMoves DEF Messages
  <2>4. a = "nothing" => inbox'["client"] = inbox["client"]
    BY <2>3 DEF Append1
  <2>5. /\ Len(inbox'["server"]) = Len(inbox["server"]) - 1
        /\ inbox'["server"] # <<>> => /\ Len(inbox["server"]) > 1
                                     /\ inbox'["server"][1] = inbox["server"][2]
    BY <1>q, <2>3, TailFirst
  <2>6. /\ link = "up" /\ a # "nothing" => Len(inbox'["client"]) = Len(inbox["client"]) + 1
        /\ link = "up" /\ a # "nothing" /\ inbox["client"] = <<>> => inbox'["client"][1] = a
        /\ link # "up" => inbox'["client"] = inbox["client"]
    BY <1>q, <1>e, <2>1, <2>3, <2>4, AppendFirst DEF Messages
  <2>7. inbox["client"] = <<>>
    BY <2>3 DEF FlowInv
  <2>8. link = "up" => pc["client"] # "flight"
    BY <2>3, <2>7 DEF TurnInv
  <2>9. /\ pc["client"] \in {"established", "reply"} => a # "finished"
        /\ pc["client"] = "finished" => a # "nothing"
    <3>1. /\ version = "1.2" => pc["client"] \notin {"established", "reply"}
          /\ pc["client"] = "finished" => version # "1.3"
      BY <2>3 DEF FlowInv, TurnInv
    <3> QED
      BY <1>q, <2>1, <3>1
  <2>10. inbox'["server"] # <<>> => inbox'["server"][1] = "x"
    BY <2>3, <2>5 DEF TurnInv
  <2>11. pc["client"] = "reply" /\ link = "up" => inbox'["server"] # <<>>
    <3>1. pc["client"] = "reply" /\ link = "up" => Len(inbox["server"]) > 1
      BY <2>3 DEF TurnInv, Final
    <3> QED
      BY <1>e, <2>5, <3>1
  <2>12. /\ inbox'["client"] # <<>> => inbox'["client"][1] = a /\ a # "nothing"
         /\ Len(inbox'["client"]) <= 1
         /\ link = "up" /\ a # "nothing" => inbox'["client"] # <<>>
    <3>1. Len(inbox["client"]) <= 0
      BY <1>e, <2>7
    <3>2. CASE link = "up" /\ a # "nothing"
      <4>1. Len(inbox'["client"]) = Len(inbox["client"]) + 1 /\ inbox'["client"][1] = a
        BY <2>6, <2>7, <3>2
      <4>2. Len(inbox'["client"]) <= 1 /\ Len(inbox'["client"]) > 0
        BY <1>e, <3>1, <4>1
      <4> QED
        BY <1>e, <3>2, <4>1, <4>2
    <3>3. CASE link # "up" \/ a = "nothing"
      <4>1. inbox'["client"] = inbox["client"]
        BY <2>4, <2>6, <3>3
      <4>2. Len(inbox'["client"]) <= 1
        BY <3>1, <4>1
      <4> QED
        BY <2>7, <3>3, <4>1, <4>2
    <3> QED
      BY <1>q, <3>2, <3>3
  <2>13. /\ pc["client"] \in {"start", "flight", "finished", "established", "reply"} \cup Final
         /\ pc["client"] = "finished" => version # "1.3"
         /\ link = "up" => pc["client"] # "start"
    BY <2>3 DEF TurnInv
  <2>14. pc["client"] = "flight" => inbox'["client"] = <<>>
    BY <1>q, <2>6, <2>7, <2>8
  <2>15. inbox'["client"] # <<>> =>
           /\ pc["client"] = "finished" => inbox'["client"][1] \in {"finished", "alert"}
           /\ pc["client"] \in {"established", "reply"} => inbox'["client"][1] \in {"y", "alert"}
    BY <2>1, <2>9, <2>12
  <2> QED
    BY <1>q, <2>1, <2>2, <2>3, <2>8, <2>9, <2>10, <2>11, <2>12, <2>13, <2>14, <2>15
    DEF TurnInv, Final
<1>5. CASE ServerFlight
  <2>1. Answer("server", "accept", "hello", "flight", "auth") /\ UNCHANGED <<link, version>>
    BY <1>5 DEF ServerFlight, world
  <2>2. /\ pc["server"] = "accept" /\ pc'["server"] = "auth" /\ pc'["client"] = pc["client"]
        /\ inbox["server"] # <<>> /\ inbox'["server"] = Tail(inbox["server"])
        /\ inbox'["client"] = Append1(inbox["client"], "flight")
    BY <2>1, AnswerQueues, AnswerMoves DEF Messages
  <2>3. Len(inbox'["server"]) = Len(inbox["server"]) - 1
    BY <1>q, <2>2, TailFirst
  <2>4. /\ link = "up" => Len(inbox'["client"]) = Len(inbox["client"]) + 1
        /\ link = "up" /\ inbox["client"] = <<>> => inbox'["client"][1] = "flight"
        /\ link # "up" => inbox'["client"] = inbox["client"]
    BY <1>q, <1>e, <2>2, AppendFirst DEF Messages
  <2> QED
    BY <1>q, <1>e, <2>1, <2>2, <2>3, <2>4 DEF FlowInv, TurnInv, Final
<1>6. CASE ServerFinished
  <2>1. Answer("client", "finished", "finished", "nothing", "established")
        /\ UNCHANGED <<link, version>>
    BY <1>6 DEF ServerFinished, world
  <2>2. /\ pc["client"] = "finished" /\ pc'["client"] = "established" /\ pc'["server"] = pc["server"]
        /\ inbox["client"] # <<>> /\ inbox'["client"] = Tail(inbox["client"])
        /\ inbox'["server"] = Append1(inbox["server"], "nothing")
        /\ In("finished", inbox["client"])
    BY <2>1, AnswerQueues, AnswerMoves
  <2>3. Len(inbox'["client"]) = Len(inbox["client"]) - 1
    BY <1>q, <2>2, TailFirst
  <2>4. inbox'["server"] = inbox["server"]
    BY <2>2 DEF Append1
  <2> QED
    BY <1>q, <1>e, <2>1, <2>2, <2>3, <2>4 DEF FlowInv, TurnInv, Final
<1>7. CASE ServerReply
  <2>1. Answer("server", "established", "x", "y", "talked") /\ UNCHANGED <<link, version>>
    BY <1>7 DEF ServerReply, world
  <2>2. /\ pc["server"] = "established" /\ pc'["server"] = "talked" /\ pc'["client"] = pc["client"]
        /\ inbox["server"] # <<>> /\ inbox'["server"] = Tail(inbox["server"])
        /\ inbox'["client"] = Append1(inbox["client"], "y")
        /\ In("x", inbox["server"])
    BY <2>1, AnswerQueues, AnswerMoves DEF Messages
  <2>3. Len(inbox'["server"]) = Len(inbox["server"]) - 1
    BY <1>q, <2>2, TailFirst
  <2>4. /\ link = "up" => Len(inbox'["client"]) = Len(inbox["client"]) + 1
        /\ link = "up" /\ inbox["client"] = <<>> => inbox'["client"][1] = "y"
        /\ link # "up" => inbox'["client"] = inbox["client"]
    BY <1>q, <1>e, <2>2, AppendFirst DEF Messages
  <2> QED
    BY <1>q, <1>e, <2>1, <2>2, <2>3, <2>4 DEF FlowInv, TurnInv, Final
<1>8. CASE ClientDone
  <2>1. Answer("client", "reply", "y", "nothing", "talked") /\ UNCHANGED <<link, version>>
    BY <1>8 DEF ClientDone, world
  <2>2. /\ pc["client"] = "reply" /\ pc'["client"] = "talked" /\ pc'["server"] = pc["server"]
        /\ inbox["client"] # <<>> /\ inbox'["client"] = Tail(inbox["client"])
        /\ inbox'["server"] = Append1(inbox["server"], "nothing")
    BY <2>1, AnswerQueues, AnswerMoves
  <2>3. Len(inbox'["client"]) = Len(inbox["client"]) - 1
    BY <1>q, <2>2, TailFirst
  <2>4. inbox'["server"] = inbox["server"]
    BY <2>2 DEF Append1
  <2> QED
    BY <1>q, <1>e, <2>1, <2>2, <2>3, <2>4 DEF FlowInv, TurnInv, Final
<1>9. ASSUME NEW e \in Ends, Fail(e) PROVE TurnInv'
  <2>1. /\ UNCHANGED <<inbox, link, version>> /\ pc' = [pc EXCEPT ![e] = "failed"]
        /\ pc[e] \in Waiting
        /\ inbox[e] = <<>> => Told(e) \/ (link = "up" /\ pc[Peer(e)] \in Final)
        /\ inbox[e] # <<>> => Head(inbox[e]) = "alert" /\ inbox[e][1] = "alert"
    BY <1>9 DEF Fail, world
  <2>2. CASE e = "client"
    BY <1>q, <1>e, <2>1, <2>2 DEF FlowInv, TurnInv, Final, Waiting
  <2>3. CASE e = "server"
    <3>1. /\ pc'["server"] = "failed" /\ pc'["client"] = pc["client"]
          /\ pc["server"] \in {"accept", "auth", "established"}
          /\ inbox["server"] = <<>> => link # "up" \/ pc["client"] \in Final
          /\ inbox["server"] # <<>> => inbox["server"][1] = "alert"
      BY <1>q, <2>1, <2>3 DEF Told, TurnInv, Final, Waiting
    <3>2. link = "up" => pc["client"] \notin {"start", "flight"}
      BY <1>q, <3>1 DEF FlowInv, TurnInv, Final
    <3>3. link = "up" /\ pc["client"] = "finished" => inbox["client"] # <<>>
      BY <1>q, <3>1 DEF TurnInv, Final
    <3> QED
      BY <1>q, <2>1, <3>1, <3>2, <3>3 DEF TurnInv, Final
  <2> QED
    BY <2>2, <2>3
<1>10. CASE LoseLink
  <2>1. PICK n \in [Ends -> 0 .. 2] :
          /\ \A e \in Ends : n[e] <= Len(inbox[e])
          /\ inbox' = [e \in Ends |-> SubSeq(inbox[e], 1, n[e])]
    BY <1>10 DEF LoseLink
  <2>2. /\ n["client"] \in 0 .. Len(inbox["client"])
        /\ n["server"] \in 0 .. Len(inbox["server"])
    BY <2>1, <1>q
  <2>3. /\ Len(inbox'["client"]) <= Len(inbox["client"])
        /\ Len(inbox'["server"]) <= Len(inbox["server"])
        /\ \A i \in 1 .. Len(inbox'["client"]) : inbox'["client"][i] = inbox["client"][i]
        /\ \A i \in 1 .. Len(inbox'["server"]) : inbox'["server"][i] = inbox["server"][i]
    <3>1. \A e \in Ends : /\ inbox'[e] = SubSeq(inbox[e], 1, n[e])
                          /\ inbox[e] \in Seq(Messages) /\ n[e] \in 0 .. Len(inbox[e])
      BY <1>q, <2>1, <2>2
    <3>2. \A e \in Ends : /\ Len(inbox'[e]) = n[e]
                          /\ \A i \in 1 .. n[e] : inbox'[e][i] = inbox[e][i]
      BY <3>1, PrefixType, PrefixFirst
    <3> QED
      BY <3>1, <3>2
  <2>4. UNCHANGED <<pc, version>> /\ link' # "up"
    BY <1>10 DEF LoseLink, Losses, Ends, world
  <2> QED
    BY <1>q, <1>e, <2>3, <2>4 DEF FlowInv, TurnInv, Final
<1>11. CASE UNCHANGED vars
  BY <1>11 DEF vars, world, TurnInv
<1> QED
  BY <1>1, <1>2, <1>3, <1>4, <1>5, <1>6, <1>7, <1>8, <1>9, <1>10, <1>11
  DEF Next, Client, Server

LEMMA TurnAlways == Spec => [](TypeInv /\ FlowInv /\ TurnInv)
  BY TypeInit, TypeNext, TrustInit, TrustNext, FlowInit, FlowNext, TurnInit, TurnNext, PTL
  DEF Spec

(* For every pair of configurations, leaves, clocks and versions, and      *)
(* whatever was refused or lost: an end that waits has something to do, or *)
(* its peer has while the transport lasts; only one that is never told of  *)
(* the loss of the transport can be stuck.                                 *)
THEOREM NeverStuck == Spec => []NobodyStuck
<1>1. TypeInv /\ FlowInv /\ TurnInv => NobodyStuck
  <2> SUFFICES ASSUME TypeInv, FlowInv, TurnInv, NEW e \in Ends, pc[e] \in Waiting,
                      ~ CutOff(e)
               PROVE  CanAct(e) \/ (link = "up" /\ CanAct(Peer(e)))
    BY DEF NobodyStuck
  <2>q. /\ inbox["client"] \in Seq(Messages) /\ inbox["server"] \in Seq(Messages)
        /\ inbox["client"] # <<>> => Head(inbox["client"]) = inbox["client"][1]
        /\ inbox["server"] # <<>> => Head(inbox["server"]) = inbox["server"][1]
        /\ link # "up" => Told(e)
    BY DEF TypeInv, Ends, CutOff
  <2> USE DEF FlowInv, TurnInv, CanAct, Awaited, Peer, Waiting, Final
  <2>1. CASE link # "up"
    <3>1. CASE e = "client"
      BY <2>q, <2>1, <3>1
    <3>2. CASE e = "server"
      BY <2>q, <2>1, <3>2
    <3> QED
      BY <3>1, <3>2 DEF Ends
  <2>2. CASE link = "up" /\ e = "client"
    BY <2>q, <2>2
  <2>3. CASE link = "up" /\ e = "server"
    BY <2>q, <2>3
  <2> QED
    BY <2>1, <2>2, <2>3 DEF Ends
<1> QED
  BY <1>1, TurnAlways, PTL

(* How far the connection has come: where each end is in its own order,    *)
(* and whether the transport is lost.                                      *)
Stage(e) ==
  CASE pc[e] \in {"start", "accept"}    -> 0
    [] pc[e] \in {"flight", "auth"}     -> 1
    [] pc[e] = "finished"               -> 2
    [] pc[e] = "established"            -> 3
    [] pc[e] = "reply"                  -> 4
    [] OTHER                            -> 5

Progress == Stage("client") + Stage("server") + (IF link # "up" THEN 1 ELSE 0)

(* Nothing is retried: every step of an end or of the transport brings the *)
(* connection further, in a range of twelve values: there are at most      *)
(* eleven steps.                                                           *)
THEOREM EveryStepProgresses ==
  Spec => [](Progress \in 0 .. 11) /\ [][Progress' > Progress]_vars
<1>1. ASSUME NEW e \in Ends
      PROVE  /\ Stage(e) \in 0 .. 5
             /\ pc[e] \in {"start", "accept"} => Stage(e) = 0
             /\ pc[e] \in {"flight", "auth"} => Stage(e) = 1
             /\ pc[e] = "finished" => Stage(e) = 2
             /\ pc[e] = "established" => Stage(e) = 3
             /\ pc[e] = "reply" => Stage(e) = 4
             /\ pc[e] \in Final => Stage(e) = 5
  BY DEF Stage, Final
<1>2. ASSUME NEW e \in Ends
      PROVE  /\ Stage(e)' \in 0 .. 5
             /\ pc'[e] \in {"start", "accept"} => Stage(e)' = 0
             /\ pc'[e] \in {"flight", "auth"} => Stage(e)' = 1
             /\ pc'[e] = "finished" => Stage(e)' = 2
             /\ pc'[e] = "established" => Stage(e)' = 3
             /\ pc'[e] = "reply" => Stage(e)' = 4
             /\ pc'[e] \in Final => Stage(e)' = 5
  BY DEF Stage, Final
<1>3. Progress \in 0 .. 11
  BY <1>1 DEF Progress, Ends
<1>4. ASSUME NEW e \in Ends, Stage(e)' > Stage(e), Stage(Peer(e))' = Stage(Peer(e)), link' = link
      PROVE  Progress' > Progress
  BY <1>1, <1>2, <1>4 DEF Progress, Ends, Peer
<1>5. ASSUME TypeInv, NEW e \in Ends, NEW from, NEW m, NEW a, NEW to,
             Answer(e, from, m, a, to), link' = link,
             <<from, to>> \in ({"accept"} \X {"auth"})
                            \cup ({"flight"} \X {"finished", "established", "refused"})
                            \cup ({"auth"} \X {"established", "refused"})
                            \cup ({"finished"} \X {"established"})
                            \cup ({"established", "reply"} \X {"talked"})
      PROVE  Progress' > Progress
  <2>1. pc[e] = from /\ pc'[e] = to /\ pc'[Peer(e)] = pc[Peer(e)] /\ Peer(e) \in Ends
    BY <1>5, AnswerMoves DEF Ends, Peer
  <2>2. Stage(Peer(e))' = Stage(Peer(e))
    BY <2>1 DEF Stage
  <2>3. Stage(e)' > Stage(e)
    BY <1>1, <1>2, <1>5, <2>1 DEF Final
  <2> QED
    BY <1>4, <1>5, <2>2, <2>3
<1>6. TypeInv /\ [Next]_vars => [Progress' > Progress]_vars
  <2> SUFFICES ASSUME TypeInv, Next PROVE Progress' > Progress
    OBVIOUS
  <2>1. CASE ClientHello \/ ClientRequest
    <3>1. /\ pc'["server"] = pc["server"] /\ link' = link
          /\ \/ pc["client"] = "start" /\ pc'["client"] = "flight"
             \/ pc["client"] = "established" /\ pc'["client"] = "reply"
      BY <2>1 DEF ClientHello, ClientRequest, TypeInv, Ends
    <3>2. Stage("server")' = Stage("server")
      BY <3>1 DEF Stage
    <3> QED
      BY <1>1, <1>2, <1>4, <3>1, <3>2 DEF Ends, Peer
  <2>2. CASE VerifyServerCert
    BY <1>5, <2>2 DEF VerifyServerCert, Judge, Ends
  <2>3. CASE VerifyClientCert
    BY <1>5, <2>3 DEF VerifyClientCert, Judge, Ends
  <2>4. CASE ServerFlight \/ ServerFinished \/ ServerReply \/ ClientDone
    BY <1>5, <2>4 DEF ServerFlight, ServerFinished, ServerReply, ClientDone, Ends
  <2>5. ASSUME NEW e \in Ends, Fail(e) PROVE Progress' > Progress
    <3>1. /\ pc[e] \in Waiting /\ pc'[e] = "failed" /\ pc'[Peer(e)] = pc[Peer(e)]
          /\ Peer(e) \in Ends /\ link' = link
      BY <2>5 DEF Fail, TypeInv, Ends, Peer
    <3>2. Stage(Peer(e))' = Stage(Peer(e))
      BY <3>1 DEF Stage
    <3>3. Stage(e)' > Stage(e)
      BY <1>1, <1>2, <3>1 DEF Waiting, Final
    <3> QED
      BY <1>4, <3>1, <3>2, <3>3
  <2>6. CASE LoseLink
    <3>1. pc' = pc /\ link = "up" /\ link' # "up"
      BY <2>6 DEF LoseLink, Losses, Ends
    <3>2. Stage("client")' = Stage("client") /\ Stage("server")' = Stage("server")
      BY <3>1 DEF Stage
    <3> QED
      BY <1>1, <3>1, <3>2 DEF Progress, Ends
  <2> QED
    BY <2>1, <2>2, <2>3, <2>4, <2>5, <2>6 DEF Next, Client, Server, Ends
<1> QED
  BY <1>3, <1>6, TrustAlways, PTL DEF Spec

-----------------------------------------------------------------------------
(* Peers that satisfy each other *)

(* A leaf signed with the key of the DigNetwork CA was issued by           *)
(* generate_signed_by, in the CA's name and for both usages.               *)
Issued ==
  \A cr \in Credentials :
    cr.cert.signed_by = DIG_CA_KEY =>
      cr.cert.issuer = CA_COMMON_NAME /\ cr.cert.ekus = BothUsages

(* The converse of TrustIsKnowledge: the verifier of an end refuses nobody *)
(* that the documentation admits.                                          *)
THEOREM AdmittedIsApproved ==
  ASSUME Dated, Issued, NEW e \in Ends, config[e] \in Configs, clock[e] \in Int,
         cred[Peer(e)] \in Credentials, Admits(e), cred[Peer(e)].owns
  PROVE  Approves(e)
<1>1. ChainOk(e, Usage(e))
  <2> SUFFICES ASSUME config[e].require_ca_chain
               PROVE  verify_chain_to_dig_ca(Leaf(e), clock[e], Usage(e))
    BY DEF ChainOk
  <2>1. /\ Leaf(e).signed_by = DIG_CA_KEY
        /\ clock[e] \in cred[Peer(e)].minted - CLOCK_SKEW_BACKDATE
                        .. cred[Peer(e)].minted + LEAF_LIFETIME
    BY DEF Admits, Leaf
  <2>2. Leaf(e).not_before <= clock[e] /\ clock[e] <= Leaf(e).not_after
    BY <2>1 DEF Dated, Leaf, CLOCK_SKEW_BACKDATE, LEAF_LIFETIME, Day
  <2>3. Leaf(e).issuer = CA_COMMON_NAME /\ Usage(e) \in Leaf(e).ekus
    BY <2>1 DEF Issued, Leaf, Usage, BothUsages, Ends
  <2> QED
    BY <2>1, <2>2, <2>3 DEF verify_chain_to_dig_ca, embedded_ca_cert_der, generate_dig_ca
<1>2. PinOk(e)
  BY DEF Admits, PinOk, Leaf
<1>3. Binding(e).ok
  <2>1. /\ Leaf(e).ext \in Extensions /\ Leaf(e).parses
        /\ config[e].binding_policy \in Policies
    BY MutualAssumption, ConfigPolicy DEF Admits, Leaf
  <2> QED
    BY <2>1, AdmissibleAccepted DEF Admits, Binding, Leaf
<1>4. Verdict(e, Usage(e)).ok
  <2>1. Verdict(e, Usage(e)) = pin_and_bind(e)
    BY <1>1, Zenon DEF Verdict
  <2>2. pin_and_bind(e).ok = (Leaf(e).parses /\ PinOk(e) /\ Binding(e).ok)
    BY Zenon DEF pin_and_bind, Captures
  <2> QED
    BY <1>2, <1>3, <2>1, <2>2 DEF Admits, Leaf
<1> QED
  BY <1>4 DEF Approves

CompatInv ==
  Compatible /\ link = "up" =>
    \A e \in Ends : pc[e] \notin {"refused", "failed"} /\ ~ In("alert", inbox[e])

LEMMA CompatInit == Init => CompatInv
  BY DEF Init, CompatInv, Ends, In

LEMMA CompatNext ==
  ASSUME Dated, Issued
  PROVE  TypeInv /\ TrustInv /\ FlowInv /\ CompatInv /\ [Next]_vars => CompatInv'
<1> SUFFICES ASSUME TypeInv, TrustInv, FlowInv, CompatInv, [Next]_vars,
                    Compatible', link' = "up"
             PROVE  \A e \in Ends : pc'[e] \notin {"refused", "failed"} /\ ~ In("alert", inbox'[e])
  BY DEF CompatInv
<1>1. UNCHANGED world
  BY DEF Next, Client, Server, ClientHello, VerifyServerCert, ServerFinished,
         ClientRequest, ClientDone, ServerFlight, VerifyClientCert, ServerReply, Fail,
         LoseLink, Judge, vars
<1>2. Compatible
  BY <1>1 DEF Compatible, Admits, Peer, world
<1>3. link = "up"
  BY DEF Next, Client, Server, ClientHello, VerifyServerCert, ServerFinished,
         ClientRequest, ClientDone, ServerFlight, VerifyClientCert, ServerReply, Fail,
         LoseLink, Losses, Ends, Judge, vars
<1>4. \A e \in Ends : pc[e] \notin {"refused", "failed"} /\ ~ In("alert", inbox[e])
  BY <1>2, <1>3 DEF CompatInv
<1>5. ASSUME NEW e \in Ends PROVE Approves(e)
  <2>1. /\ config[e] \in Configs /\ clock[e] \in Int /\ cred[Peer(e)] \in Credentials
        /\ Admits(e) /\ cred[Peer(e)].owns
    BY <1>2, MutualAssumption DEF TypeInv, Compatible, Ends, Peer
  <2> QED
    BY <2>1, AdmittedIsApproved
<1>6. ASSUME NEW e \in Ends, NEW from, NEW m, NEW a, NEW to, Answer(e, from, m, a, to),
             a # "alert", to \notin {"refused", "failed"}
      PROVE  \A k \in Ends : pc'[k] \notin {"refused", "failed"} /\ ~ In("alert", inbox'[k])
  <2>1. \A k \in Ends : In("alert", inbox'[k]) => In("alert", inbox[k])
    BY <1>6, AnswerSends
  <2>2. pc'[e] = to /\ pc'[Peer(e)] = pc[Peer(e)]
    BY <1>6, AnswerMoves
  <2> QED
    BY <1>4, <1>6, <2>1, <2>2 DEF Ends, Peer
<1>7. CASE ClientHello \/ ClientRequest
  <2>1. PICK m \in {"hello", "x"} :
          /\ inbox'["client"] = inbox["client"]
          /\ inbox'["server"] = Append1(inbox["server"], m)
          /\ pc'["server"] = pc["server"] /\ pc'["client"] \in {"flight", "reply"}
    BY <1>7 DEF ClientHello, ClientRequest, Send, TypeInv, Ends, Peer
  <2>2. In("alert", inbox'["server"]) => In("alert", inbox["server"])
    BY <2>1, InAppend DEF TypeInv, Ends
  <2> QED
    BY <1>4, <2>1, <2>2 DEF Ends
<1>8. CASE VerifyServerCert
  <2>1. PICK to \in {"established", "finished"} : Answer("client", "flight", "flight", "auth", to)
    BY <1>5, <1>8 DEF VerifyServerCert, Judge, Approves, Usage, Ends
  <2> QED
    BY <1>6, <2>1 DEF Ends
<1>9. CASE VerifyClientCert
  <2>1. PICK a \in {"finished", "nothing"} : Answer("server", "auth", "auth", a, "established")
    BY <1>5, <1>9 DEF VerifyClientCert, Judge, Approves, Usage, Ends
  <2> QED
    BY <1>6, <2>1 DEF Ends
<1>10. CASE ServerFlight \/ ServerFinished \/ ServerReply \/ ClientDone
  BY <1>6, <1>10 DEF ServerFlight, ServerFinished, ServerReply, ClientDone, Ends
<1>11. ASSUME NEW e \in Ends PROVE ~ Fail(e)
  <2> SUFFICES ASSUME Fail(e) PROVE FALSE
    OBVIOUS
  <2>1. inbox[e] = <<>> /\ pc[e] \in Waiting /\ pc[Peer(e)] = "talked"
    <3>1. inbox[e] # <<>> => Head(inbox[e]) # "alert"
      BY <1>4, InHead DEF TypeInv
    <3> QED
      BY <1>3, <1>4, <3>1 DEF Fail, Told, Final, Ends, Peer
  <2>2. CASE e = "client"
    BY <1>3, <2>1, <2>2 DEF FlowInv, Peer, Waiting
  <2>3. CASE e = "server"
    BY <2>1, <2>3 DEF TrustInv, Peer, Waiting
  <2> QED
    BY <2>2, <2>3 DEF Ends
<1>12. ~ LoseLink
  BY DEF LoseLink, Losses, Ends
<1>13. CASE UNCHANGED vars
  BY <1>4, <1>13 DEF vars
<1> QED
  BY <1>7, <1>8, <1>9, <1>10, <1>11, <1>12, <1>13 DEF Next, Client, Server, Ends

(* Two peers within the allowed hour of each other's clocks that satisfy   *)
(* each other's policy: neither refuses, sends an alert or gives up while  *)
(* the transport lasts, in either protocol version.                        *)
THEOREM CompatiblePeersNeverFail ==
  ASSUME Dated, Issued PROVE Spec => []CompatibleNeverFail
<1>1. CompatInv => CompatibleNeverFail
  BY DEF CompatInv, CompatibleNeverFail
<1> QED
  BY <1>1, FlowAlways, CompatInit, CompatNext, PTL DEF Spec

=============================================================================
