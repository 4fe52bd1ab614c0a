--------------------------- MODULE SessionPairInv ---------------------------
(***************************************************************************)
(* What keeps two ends of SessionPair in step.  There is one root key for  *)
(* both directions and no end tells the other what it has mixed into it,   *)
(* so that a message can be read rests on a relation of the two ends and   *)
(* of all the messages between them: InStep, which is inductive under the  *)
(* faults the ratchet survives.                                            *)
(***************************************************************************)
EXTENDS SessionPair

(* Chains arrive in order, rotations do not cross, and the session is the  *)
(* one the initiator has; within a chain messages may be lost, overtaken,  *)
(* repeated or damaged, counters too; a send or the fetch of a signature   *)
(* key may fail.                                                           *)
Calm == Faults \subseteq {"reorder", "damage", "counter", "no_sig", "raises"}

(* Messages arrive once, undamaged and in the order of sending.            *)
Orderly == Faults \subseteq {"no_sig", "raises"}

-----------------------------------------------------------------------------
(***************************************************************************)
(* What each end knows of its peer.  The responder's end, before it opens, *)
(* is taken for the session the header of the initiator will make it.      *)
(***************************************************************************)
FirstRoot == HandshakeRoot(session[Initiator].session_id, EK)

Root(p) == IF p \in open THEN session[p].root_key ELSE FirstRoot.root
Remote(p) == IF p \in open THEN session[p].dh_remote ELSE EK
Receiving(p) == IF p \in open THEN session[p].receiving_chain_key ELSE FirstRoot.chain

(* How many chains p began that its peer does not follow yet.              *)
Lead(p) == session[p].dh_self.n - Remote(Peer(p)).n

(* The seed is the root key of n secrets that `root' was extended from.    *)
PrefixOf(seed, root, n) ==
  Len(seed) = n /\ n <= Len(root) /\ \A i \in 1 .. n : seed[i] = root[i]

(* The seed of p's chain of rank n, as its peer has it or will derive it.  *)
SeedOf(p, n, seed) ==
  LET q == Peer(p)
  IN  /\ n = Remote(q).n => seed = Receiving(q).seed
      /\ n > Remote(q).n => PrefixOf(seed, Root(p), Len(Root(q)) + n - Remote(q).n)

-----------------------------------------------------------------------------
(* Both ends, and every message, are of the session start_session made.    *)
Handshaken ==
  /\ \E opk \in BOOLEAN :
       /\ session[Initiator].session_id = Root0(EK, opk)
       /\ pending => opk
       /\ \A m \in sent : m.opk => opk
  /\ \A p \in open : session[p].session_id = session[Initiator].session_id
  /\ \A m \in sent : m.session_id = session[Initiator].session_id
  /\ Initiator \in open

(* An end follows a key pair its peer has made, and no later one is cached. *)
Owners ==
  /\ \A p \in Party : session[p].dh_self.owner = p /\ Remote(p).owner = Peer(p)
  /\ \A m \in sent : m.ephemeral.owner = m.from
  /\ \A p \in Party : \A e \in session[p].previous_keys :
       e.chain.owner = Peer(p) /\ e.chain.n <= Remote(p).n

(* At most one end is ahead of its peer, and its root key is the peer's    *)
(* with the secrets of the key pairs it is ahead by.                       *)
Roots ==
  /\ \A p \in Party : Lead(p) >= 0 /\ (Lead(p) = 0 \/ Lead(Peer(p)) = 0)
  /\ \A p \in Party : LET q == Peer(p) IN
       Lead(q) = 0 =>
         /\ PrefixOf(Root(q), Root(p), Len(Root(q)))
         /\ Len(Root(p)) = Len(Root(q)) + Lead(p)
         /\ \A j \in 1 .. Lead(p) :
              Root(p)[Len(Root(q)) + j] =
                {[owner |-> p, n |-> Remote(q).n + j], session[q].dh_self}

(* Chain keys stand where the counters say.  The seed of every chain and   *)
(* of every message is the one its receiver has, or will derive; so is     *)
(* that of a key it cached.                                                *)
Chains ==
  /\ \A p \in Party :
       /\ session[p].chain_key.step = session[p].send_counter
       /\ Receiving(p).step = session[p].recv_counter
       /\ SeedOf(p, session[p].dh_self.n, session[p].chain_key.seed)
  /\ \A m \in sent :
       /\ m.key.step = m.counter
       /\ m.ephemeral.n <= session[m.from].dh_self.n
       /\ SeedOf(m.from, m.ephemeral.n, m.key.seed)
  /\ \A p \in Party : \A e \in session[p].previous_keys :
       /\ e.key.step = e.counter
       /\ e.chain = Remote(p) => /\ e.key.seed = Receiving(p).seed
                                /\ e.counter < session[p].recv_counter

(* Messages of an end's chain come before its next one.  Its peer's        *)
(* counter may be anywhere: a damaged message moves it.                    *)
Counters ==
  \A m \in sent :
    m.ephemeral = session[m.from].dh_self => m.counter < session[m.from].send_counter

(* Below the counter of the chain an end follows, a message was accepted   *)
(* or spoiled at every position, or the position's key is cached.          *)
Passed ==
  \A p \in Party : \A n \in 0 .. session[p].recv_counter - 1 :
    \/ \E a \in log[p].accepted \cup log[p].spoiled :
         a.ephemeral = Remote(p) /\ a.counter = n
    \/ \E e \in session[p].previous_keys : e.chain = Remote(p) /\ e.counter = n

Unsigned(p, m) == m.mode = VERIFIABLE /\ ~session[p].peer_sig_known

(* Only what arrived as it was made was accepted; what took a key off the  *)
(* chain and was not accepted was damaged, or is a signature no key is     *)
(* known for.                                                              *)
Outcomes ==
  \A p \in Party :
    /\ \A m \in log[p].tried \cup log[p].accepted : m \in sent /\ m.from = Peer(p)
    /\ \A m \in log[p].spoiled :
         m \in log[p].damaged \/ (m \in log[p].tried /\ Unsigned(p, m))

(* While chains arrive in order and rotations do not cross, the two ends   *)
(* stay in step: each can derive the chain of every message on its way,    *)
(* from the root key, the key pair and the position it holds               *)
(* (_ratchet_send, _ratchet_receive, process_incoming_message).            *)
InStep ==
  /\ Handshaken /\ Owners /\ Roots /\ Chains /\ Counters /\ CacheSound
  /\ Passed /\ Outcomes /\ FirstDeliveryAccepted
=============================================================================
