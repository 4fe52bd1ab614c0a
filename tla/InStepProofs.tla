---------------------------- MODULE InStepProofs ----------------------------
(***************************************************************************)
(* What is proved of two ends of a session while chains arrive in order    *)
(* and rotations do not cross, for any intervals and bounds: they stay in  *)
(* step, so each accepts what reaches it undamaged, and caches the right   *)
(* keys and all of them; they implement the delivery window; and, in the   *)
(* order of sending, a MAC key is disclosed after its message was read.    *)
(*                                                                         *)
(* Every step is of one of two kinds.  OwnStep: an end makes a message, or *)
(* fails to, and goes on with its chain or begins the next.  PeerStep: a   *)
(* message of its peer makes an end stay with the chain it follows, or     *)
(* follow the next one.  Each conjunct of InStep is shown to be kept by    *)
(* each kind, and each kind to be a step of the window.                    *)
(***************************************************************************)
EXTENDS SessionPairInv, SessionPairProofs, SequenceTheorems

LEMMA PeerOther ==
  \A p \in Party : /\ Peer(p) \in Party /\ Peer(p) # p /\ Peer(Peer(p)) = p
                   /\ \A q \in Party : q # p => q = Peer(p)
  BY PartiesDiffer DEF Peer, Party

(* The types of what the ends know, and what no lead means.                *)
LEMMA KnownTypes ==
  ASSUME TypeOK
  PROVE  /\ \A p \in Party : /\ session[p] \in SessionState
                             /\ Root(p) \in Seq(Secret) /\ Remote(p) \in KeyPair
                             /\ Receiving(p) \in ChainKey /\ Lead(p) \in Int
         /\ sent \in SUBSET Message
         /\ \A m \in sent : /\ m \in Message /\ m.ephemeral \in KeyPair /\ m.key \in ChainKey
                            /\ m.key.seed \in Seq(Secret) /\ m.counter \in Nat
                            /\ m.from \in Party
  <1>1. /\ \A p \in Party : session[p] \in SessionState
        /\ sent \in SUBSET Message
    BY DEF TypeOK
  <1>2. session[Initiator].session_id \in Secret
    BY <1>1 DEF SessionState, Party
  <1>3. FirstRoot.root \in RootKey /\ FirstRoot.chain \in ChainKey
    <2>1. <<session[Initiator].session_id>> \in RootKey /\ Exchange(EK, SPK) \in Secret
      BY <1>2, FirstKeysType, ExchangeType DEF RootKey
    <2> QED
      BY <2>1, KdfRootType DEF FirstRoot, HandshakeRoot
  <1>4. \A p \in Party : /\ Root(p) \in Seq(Secret) /\ Remote(p) \in KeyPair
                         /\ Receiving(p) \in ChainKey
    BY <1>1, <1>3, FirstKeysType DEF Root, Remote, Receiving, SessionState, RootKey
  <1>5. \A p \in Party : Lead(p) \in Int
    BY <1>1, <1>4, PeerOther DEF Lead, SessionState, KeyPair
  <1>6. \A m \in sent : /\ m \in Message /\ m.ephemeral \in KeyPair /\ m.key \in ChainKey
                        /\ m.key.seed \in Seq(Secret) /\ m.counter \in Nat
                        /\ m.from \in Party
    BY <1>1 DEF Message, ChainKey, RootKey
  <1> QED
    BY <1>1, <1>4, <1>5, <1>6

LEMMA NoLead ==
  ASSUME TypeOK, Owners, NEW p \in Party
  PROVE  Lead(p) = 0 <=> Remote(Peer(p)) = session[p].dh_self
  <1>1. /\ session[p].dh_self \in KeyPair /\ Remote(Peer(p)) \in KeyPair
        /\ session[p].dh_self.owner = p /\ Remote(Peer(p)).owner = p
    BY KnownTypes, PeerOther DEF SessionState, Owners
  <1> QED
    BY <1>1 DEF Lead, KeyPair

-----------------------------------------------------------------------------
(***************************************************************************)
(* What message m of its peer makes of p's end before its key is looked    *)
(* up: s.  Either s follows the chain it followed, or the next one, which  *)
(* the peer alone began.  In both the receiving chain has m's seed.        *)
(***************************************************************************)
Same(p, s) ==
  /\ s.root_key = Root(p) /\ s.dh_remote = Remote(p)
  /\ s.receiving_chain_key = Receiving(p) /\ s.recv_counter = session[p].recv_counter

NextOf(p, s, m) ==
  /\ p \in open /\ Lead(p) = 0 /\ Lead(Peer(p)) > 0
  /\ m.ephemeral.n = Remote(p).n + 1
  /\ s.root_key = m.key.seed /\ Len(m.key.seed) = Len(Root(p)) + 1
  /\ s.recv_counter = 0

Reached(p, s, m) ==
  /\ s \in SessionState
  /\ s.session_id = session[Initiator].session_id
  /\ s.dh_self = session[p].dh_self /\ s.chain_key = session[p].chain_key
  /\ s.send_counter = session[p].send_counter
  /\ s.previous_keys = session[p].previous_keys
  /\ p \in open => s.peer_sig_known = session[p].peer_sig_known
  /\ s.dh_remote = m.ephemeral
  /\ s.receiving_chain_key.seed = m.key.seed /\ s.receiving_chain_key.step = s.recv_counter
  /\ Same(p, s) \/ NextOf(p, s, m)

(* A message as it arrives: one that was made, but for the counter when it *)
(* was damaged.                                                            *)
Carries(m, made) ==
  /\ m \in Message /\ made \in sent
  /\ m.from = made.from /\ m.session_id = made.session_id /\ m.opk = made.opk
  /\ m.index = made.index /\ m.mode = made.mode /\ m.key = made.key
  /\ m.ephemeral = made.ephemeral
  /\ m.counter \in {made.counter} \cup MisreadCounters

Carried(m) == \E made \in sent : Carries(m, made)

LEMMA CalmArrival ==
  ASSUME Calm, TypeOK, NEW m, NEW intact \in BOOLEAN, Arrives(m, intact)
  PROVE  \E made \in sent : Carries(m, made) /\ (intact => m = made)
  <1>1. MisreadKeyPairs = {}
    BY DEF Calm, MisreadKeyPairs
  <1> QED
    BY <1>1, Arrival DEF Carries

LEMMA CarriedIs ==
  ASSUME TypeOK, InStep, NEW m, Carried(m)
  PROVE  /\ m \in Message /\ m.ephemeral \in KeyPair /\ m.key \in ChainKey
         /\ m.key.seed \in Seq(Secret) /\ m.counter \in Nat /\ m.from \in Party
         /\ m.session_id = session[Initiator].session_id
         /\ m.ephemeral.owner = m.from
         /\ m.ephemeral.n <= session[m.from].dh_self.n
         /\ SeedOf(m.from, m.ephemeral.n, m.key.seed)
  <1>1. PICK made \in sent : Carries(m, made)
    BY DEF Carried
  <1>2. /\ made.ephemeral \in KeyPair /\ made.key \in ChainKey
        /\ made.key.seed \in Seq(Secret) /\ made.from \in Party
        /\ made.session_id = session[Initiator].session_id
        /\ made.ephemeral.owner = made.from
        /\ made.ephemeral.n <= session[made.from].dh_self.n
        /\ SeedOf(made.from, made.ephemeral.n, made.key.seed)
    BY KnownTypes DEF InStep, Handshaken, Owners, Chains
  <1>3. m \in Message /\ m.counter \in Nat
    BY <1>1 DEF Carries, Message
  <1> QED
    BY <1>1, <1>2, <1>3 DEF Carries

(* The network and the client treat it as the message it was.              *)
LEMMA CarriedDelivers ==
  ASSUME NEW p \in Party, NEW m, NEW made, Carries(m, made), Deliverable(p, m)
  PROVE  Deliverable(p, made) /\ Holding(p, made) = Holding(p, m)
  BY DEF Carries, Deliverable, InOrder, Arrived, Opens, Holding

(* The session receive_message finds or makes is the one described here.   *)
LEMMA HeldIs ==
  ASSUME Calm, TypeOK, Closed, InStep, NEW p \in Party, NEW m \in sent, Deliverable(p, m),
         NEW held \in Holding(p, m)
  PROVE  /\ held \in SessionState
         /\ held.session_id = session[Initiator].session_id
         /\ held.dh_self = session[p].dh_self /\ held.chain_key = session[p].chain_key
         /\ held.send_counter = session[p].send_counter
         /\ held.previous_keys = session[p].previous_keys
         /\ p \in open => held.peer_sig_known = session[p].peer_sig_known
         /\ Same(p, held)
         /\ p \notin open => m.ephemeral = EK
  <1>0. m \in Message /\ held \in SessionState
    BY KnownTypes, HoldingType
  <1>1. CASE p \in open
    BY <1>0, <1>1 DEF Holding, Same, Root, Remote, Receiving, InStep, Handshaken
  <1>2. CASE p \notin open
    <2>1. session[p] = NoSession /\ p = Responder
      BY <1>2 DEF Closed
    <2>2. "overtaken" \notin Faults /\ "no_opk" \notin Faults
      BY DEF Calm
    <2>3. PICK answered \in BOOLEAN : held = ResponderSession(m.ephemeral, m.opk, answered)
      <3>1. PICK found \in MayFail("no_opk"), answered \in MayFail("no_sig") :
              held = ResponderSession(m.ephemeral, m.opk /\ found, answered)
        BY <1>2 DEF Holding
      <3>2. found = TRUE /\ answered \in BOOLEAN
        BY <2>2 DEF MayFail
      <3>3. (m.opk /\ found) = m.opk
        BY <1>0, <3>2 DEF Message
      <3> QED
        BY <3>1, <3>2, <3>3
    <2>4. m.session_id = Root0(m.ephemeral, m.opk)
      BY <1>2, <2>2 DEF Deliverable, Opens
    <2>5. m.session_id = session[Initiator].session_id
      BY DEF InStep, Handshaken
    <2>6. m.ephemeral = EK
      <3>1. PICK opk \in BOOLEAN : session[Initiator].session_id = Root0(EK, opk)
        BY DEF InStep, Handshaken
      <3>2. m.ephemeral \in Root0(EK, opk)
        BY <2>4, <2>5, <3>1 DEF Root0
      <3>3. m.ephemeral.owner = Initiator
        BY <2>1, <1>0, PeerOther DEF InStep, Owners, Deliverable, Peer
      <3>4. SPK.owner # Initiator /\ OPK.owner # Initiator
        BY PartiesDiffer DEF SPK, OPK
      <3> QED
        BY <3>2, <3>3, <3>4 DEF Root0
    <2>7. HandshakeRoot(Root0(m.ephemeral, m.opk), m.ephemeral) = FirstRoot
      BY <2>4, <2>5, <2>6 DEF FirstRoot
    <2>8. held = NewSession(session[Initiator].session_id, FirstRoot.root, NoKey,
                            FirstRoot.chain, SPK, EK, answered)
      BY <2>3, <2>4, <2>5, <2>6, <2>7 DEF ResponderSession
    <2>9. /\ held.session_id = session[Initiator].session_id
          /\ held.root_key = FirstRoot.root /\ held.receiving_chain_key = FirstRoot.chain
          /\ held.chain_key = NoKey /\ held.send_counter = 0 /\ held.recv_counter = 0
          /\ held.previous_keys = {} /\ held.dh_self = SPK /\ held.dh_remote = EK
      BY <2>8 DEF NewSession
    <2>10. /\ session[p].chain_key = NoKey /\ session[p].send_counter = 0
           /\ session[p].recv_counter = 0 /\ session[p].previous_keys = {}
           /\ session[p].dh_self = SPK
      BY <2>1 DEF NoSession, NewSession
    <2>11. Same(p, held)
      BY <1>2, <2>9, <2>10 DEF Same, Root, Remote, Receiving
    <2> QED
      BY <1>0, <1>2, <2>6, <2>9, <2>10, <2>11
  <1> QED
    BY <1>1, <1>2

LEMMA ReachedBy ==
  ASSUME Calm, TypeOK, Closed, InStep, NEW p \in Party, NEW m \in sent, Deliverable(p, m),
         NEW held \in Holding(p, m)
  PROVE  Reached(p, Following(held, m.ephemeral), m)
  <1> DEFINE s == Following(held, m.ephemeral)
             q == Peer(p)
  <1> SUFFICES Reached(p, s, m)
    OBVIOUS
  <1>1. /\ held \in SessionState
        /\ held.session_id = session[Initiator].session_id
        /\ held.dh_self = session[p].dh_self /\ held.chain_key = session[p].chain_key
        /\ held.send_counter = session[p].send_counter
        /\ held.previous_keys = session[p].previous_keys
        /\ p \in open => held.peer_sig_known = session[p].peer_sig_known
        /\ Same(p, held)
        /\ p \notin open => m.ephemeral = EK
    BY HeldIs
  <1>2. /\ m.ephemeral \in KeyPair /\ m.from = q /\ q \in Party /\ Peer(q) = p
        /\ m.ephemeral.owner = q /\ Remote(p).owner = q /\ Remote(p) \in KeyPair
        /\ m.key.step = m.counter /\ m.ephemeral.n <= session[q].dh_self.n
        /\ SeedOf(q, m.ephemeral.n, m.key.seed)
        /\ session[p] \in SessionState /\ session[q] \in SessionState
        /\ Root(p) \in Seq(Secret) /\ Root(q) \in Seq(Secret) /\ m.key.seed \in Seq(Secret)
        /\ Receiving(p).step = session[p].recv_counter
    BY KnownTypes, PeerOther DEF Deliverable, InStep, Owners, Chains
  <1>3. CASE m.ephemeral = Remote(p)
    <2>1. s = held
      BY <1>1, <1>3 DEF Following, Same
    <2>2. m.key.seed = Receiving(p).seed
      BY <1>2, <1>3 DEF SeedOf
    <2> QED
      BY <1>1, <1>2, <1>3, <2>1, <2>2 DEF Reached, Same
  <1>4. CASE m.ephemeral # Remote(p)
    <2>1. p \in open /\ Remote(p) = session[p].dh_remote
      BY <1>1, <1>4 DEF Remote
    <2>2. m.ephemeral.n # Remote(p).n
      BY <1>2, <1>4 DEF KeyPair
    <2>3. m.ephemeral.n = Remote(p).n + 1
      <3>1. "stale" \notin Faults /\ "skip" \notin Faults
        BY DEF Calm
      <3>2. m.ephemeral.n >= Remote(p).n /\ m.ephemeral.n <= Remote(p).n + 1
        BY <2>1, <3>1 DEF Deliverable
      <3> QED
        BY <1>2, <2>2, <3>2 DEF KeyPair
    <2>4. Lead(q) > 0 /\ Lead(q) \in Int /\ Lead(p) = 0
      <3>1. /\ session[q].dh_self.n \in Nat /\ Remote(p).n \in Nat /\ m.ephemeral.n \in Nat
            /\ Lead(q) = session[q].dh_self.n - Remote(p).n
        BY <1>2 DEF Lead, KeyPair, SessionState
      <3>2. Lead(q) > 0 /\ Lead(q) \in Int
        BY <1>2, <2>3, <3>1
      <3> QED
        BY <1>2, <3>2 DEF InStep, Roots
    <2>5. PrefixOf(m.key.seed, Root(q), Len(Root(p)) + 1)
      BY <1>2, <2>3 DEF SeedOf, KeyPair
    <2>6. /\ PrefixOf(Root(p), Root(q), Len(Root(p)))
          /\ Root(q)[Len(Root(p)) + 1] =
               {[owner |-> q, n |-> Remote(p).n + 1], session[p].dh_self}
      <3>1. 1 \in 1 .. Lead(q)
        BY <2>4
      <3> QED
        BY <1>2, <2>4, <3>1 DEF InStep, Roots
    <2>7. m.ephemeral = [owner |-> q, n |-> Remote(p).n + 1]
      BY <1>2, <2>3 DEF KeyPair
    <2> DEFINE mixed == Append(Root(p), Exchange(session[p].dh_self, m.ephemeral))
    <2>8. /\ Exchange(session[p].dh_self, m.ephemeral) \in Secret
          /\ session[p].dh_self \in KeyPair
      BY <1>2, ExchangeType DEF SessionState
    <2>9. mixed = m.key.seed
      <3>1. Exchange(session[p].dh_self, m.ephemeral) = Root(q)[Len(Root(p)) + 1]
        BY <2>6, <2>7 DEF Exchange
      <3>2. /\ mixed \in Seq(Secret) /\ Len(mixed) = Len(Root(p)) + 1
            /\ \A i \in 1 .. Len(Root(p)) : mixed[i] = Root(p)[i]
            /\ mixed[Len(Root(p)) + 1] = Root(q)[Len(Root(p)) + 1]
        BY <1>2, <2>8, <3>1, AppendProperties
      <3>3. Len(m.key.seed) = Len(Root(p)) + 1 /\ Len(Root(p)) \in Nat
        BY <1>2, <2>5, LenProperties DEF PrefixOf
      <3> HIDE DEF mixed
      <3>4. ASSUME NEW i \in 1 .. Len(mixed) PROVE mixed[i] = m.key.seed[i]
        <4>1. m.key.seed[i] = Root(q)[i]
          BY <2>5, <3>2, <3>3 DEF PrefixOf
        <4>2. CASE i \in 1 .. Len(Root(p))
          BY <2>6, <3>2, <4>1, <4>2 DEF PrefixOf
        <4>3. CASE i = Len(Root(p)) + 1
          BY <3>2, <4>1, <4>3
        <4> QED
          BY <3>2, <3>3, <4>2, <4>3
      <3> QED
        BY <1>2, <3>2, <3>3, <3>4, SeqEqual
    <2>10. Len(m.key.seed) = Len(Root(p)) + 1
      BY <2>5 DEF PrefixOf
    <2>11. s = [held EXCEPT !.dh_remote = m.ephemeral, !.root_key = m.key.seed,
                            !.receiving_chain_key = [seed |-> m.key.seed, step |-> 0],
                            !.recv_counter = 0]
      BY <1>1, <1>4, <2>9 DEF Following, RatchetReceive, KdfRoot, Same
    <2>12. s \in SessionState
      BY <1>1, <1>2, FollowingType
    <2> HIDE DEF s
    <2>13. /\ s.dh_remote = m.ephemeral /\ s.root_key = m.key.seed
           /\ s.receiving_chain_key = [seed |-> m.key.seed, step |-> 0] /\ s.recv_counter = 0
           /\ s.session_id = held.session_id /\ s.dh_self = held.dh_self
           /\ s.chain_key = held.chain_key /\ s.send_counter = held.send_counter
           /\ s.previous_keys = held.previous_keys /\ s.peer_sig_known = held.peer_sig_known
      BY <1>1, <2>11 DEF SessionState
    <2>14. NextOf(p, s, m)
      BY <2>1, <2>3, <2>4, <2>10, <2>13 DEF NextOf
    <2>15. /\ s.session_id = session[Initiator].session_id
           /\ s.dh_self = session[p].dh_self /\ s.chain_key = session[p].chain_key
           /\ s.send_counter = session[p].send_counter
           /\ s.previous_keys = session[p].previous_keys
           /\ p \in open => s.peer_sig_known = session[p].peer_sig_known
      BY <1>1, <2>13
    <2>16. s.receiving_chain_key.seed = m.key.seed /\ s.receiving_chain_key.step = s.recv_counter
      BY <2>13
    <2> QED
      BY <2>12, <2>13, <2>14, <2>15, <2>16 DEF Reached
  <1> QED
    BY <1>3, <1>4

LEMMA ReachedOn ==
  ASSUME NEW p \in Party, NEW s, NEW m, NEW made, Carries(m, made), Reached(p, s, made)
  PROVE  Reached(p, s, m)
  BY DEF Carries, Reached, NextOf

(* What a message leaves of the session it is made in.                     *)
LEMMA AfterSendIs ==
  ASSUME NEW s \in SessionState, NEW mode \in Mode
  PROVE  LET t == AfterSend(s, mode)
         IN  /\ t.session_id = s.session_id /\ t.dh_self = s.dh_self
             /\ t.dh_remote = s.dh_remote /\ t.root_key = s.root_key
             /\ t.receiving_chain_key = s.receiving_chain_key
             /\ t.recv_counter = s.recv_counter /\ t.previous_keys = s.previous_keys
             /\ t.peer_sig_known = s.peer_sig_known
             /\ t.chain_key.seed = s.chain_key.seed
             /\ t.chain_key.step = s.chain_key.step + 1
             /\ t.send_counter = s.send_counter + 1
  <1> DEFINE index == s.outgoing_index + 1
             queue == PendingAfter(s, mode)
             chain == KdfChain(s.chain_key).next
             counter == s.send_counter + 1
             t == [s EXCEPT !.outgoing_index = index, !.pending_mac_keys = queue,
                            !.chain_key = chain, !.send_counter = counter]
  <1>1. AfterSend(s, mode) = t
    BY DEF AfterSend
  <1>2. chain.seed = s.chain_key.seed /\ chain.step = s.chain_key.step + 1
    BY DEF KdfChain, SessionState, ChainKey
  <1> HIDE DEF index, queue, chain, counter
  <1>3. /\ t.session_id = s.session_id /\ t.dh_self = s.dh_self
        /\ t.dh_remote = s.dh_remote /\ t.root_key = s.root_key
        /\ t.receiving_chain_key = s.receiving_chain_key
        /\ t.recv_counter = s.recv_counter /\ t.previous_keys = s.previous_keys
        /\ t.peer_sig_known = s.peer_sig_known
        /\ t.chain_key = chain /\ t.send_counter = counter
    BY DEF SessionState
  <1> HIDE DEF t
  <1> QED
    BY <1>1, <1>2, <1>3 DEF counter

-----------------------------------------------------------------------------
(***************************************************************************)
(* The two kinds of steps, by what they do to what the ends know.  An end  *)
(* that makes a message, or fails to, goes on with its chain or begins one *)
(* its peer does not know, from a root key that extends its own.           *)
(***************************************************************************)
Unmoved(p) ==
  /\ Remote(p)' = Remote(p) /\ Receiving(p)' = Receiving(p)
  /\ session'[p].session_id = session[p].session_id
  /\ session'[p].recv_counter = session[p].recv_counter
  /\ session'[p].previous_keys = session[p].previous_keys
  /\ session'[p].peer_sig_known = session[p].peer_sig_known

GoesOn(p) ==
  /\ Root(p)' = Root(p) /\ session'[p].dh_self = session[p].dh_self
  /\ session'[p].chain_key.seed = session[p].chain_key.seed
  /\ session'[p].send_counter >= session[p].send_counter

Begins(p) ==
  LET fresh == Generate(session[p].dh_self)
  IN  /\ Lead(Peer(p)) = 0
      /\ session'[p].dh_self = fresh
      /\ Root(p)' = Append(Root(p), Exchange(fresh, session[Peer(p)].dh_self))
      /\ session'[p].chain_key.seed = Root(p)'

Makes(p, m) ==
  /\ m \in Message /\ m.from = p
  /\ m.session_id = session[p].session_id /\ (m.opk => pending)
  /\ m.ephemeral = session'[p].dh_self
  /\ m.key.seed = session'[p].chain_key.seed /\ m.key.step = m.counter
  /\ m.counter + 1 = session'[p].send_counter
  /\ GoesOn(p) => m.counter = session[p].send_counter
  /\ sent' = sent \cup {m}

OwnStep(p) ==
  /\ p \in open /\ open' = open /\ log' = log /\ (pending' => pending)
  /\ \A r \in Party : Unmoved(r)
  /\ session'[Peer(p)] = session[Peer(p)] /\ Root(Peer(p))' = Root(Peer(p))
  /\ session'[p].chain_key.step = session'[p].send_counter
  /\ GoesOn(p) \/ Begins(p)
  /\ sent' = sent \/ \E m : Makes(p, m)

LEMMA ReadyIs ==
  ASSUME Calm, TypeOK, InStep, NEW p \in Party, CanSend(p)
  PROVE  LET ready == ReadyToSend(session[p])
             fresh == Generate(session[p].dh_self)
         IN  /\ ready \in SessionState
             /\ ready.session_id = session[p].session_id
             /\ ready.dh_remote = session[p].dh_remote
             /\ ready.receiving_chain_key = session[p].receiving_chain_key
             /\ ready.recv_counter = session[p].recv_counter
             /\ ready.previous_keys = session[p].previous_keys
             /\ ready.peer_sig_known = session[p].peer_sig_known
             /\ ready.chain_key.step = ready.send_counter
             /\ \/ ~MaybeRotate(session[p]) /\ ready = session[p]
                \/ /\ MaybeRotate(session[p]) /\ Lead(Peer(p)) = 0
                   /\ ready.dh_self = fresh
                   /\ ready.root_key =
                        Append(session[p].root_key, Exchange(fresh, session[Peer(p)].dh_self))
                   /\ ready.chain_key.seed = ready.root_key
                   /\ ready.send_counter = 0
  <1> DEFINE fresh == Generate(session[p].dh_self)
  <1>1. ReadyToSend(session[p]) \in SessionState /\ session[p] \in SessionState
    BY KnownTypes, ReadyToSendType
  <1>2. CASE ~MaybeRotate(session[p])
    BY <1>1, <1>2 DEF ReadyToSend, InStep, Chains
  <1>3. CASE MaybeRotate(session[p])
    <2>1. ReadyToSend(session[p]) = RatchetSend(session[p])
      BY <1>3 DEF ReadyToSend
    <2>2. session[p].dh_remote = session[Peer(p)].dh_self /\ p \in open
      BY <1>3 DEF CanSend, MayRotate, Calm
    <2>3. Lead(Peer(p)) = 0
      <3>1. Remote(p) = session[Peer(p)].dh_self
        BY <2>2 DEF Remote
      <3> QED
        BY <3>1, NoLead, PeerOther DEF InStep
    <2> DEFINE mixed == Append(session[p].root_key, Exchange(fresh, session[p].dh_remote))
    <2>4. RatchetSend(session[p]) =
            [session[p] EXCEPT !.dh_self = fresh, !.root_key = mixed,
                               !.chain_key = [seed |-> mixed, step |-> 0], !.send_counter = 0]
      BY DEF RatchetSend, KdfRoot
    <2> HIDE DEF fresh, mixed
    <2>5. /\ RatchetSend(session[p]).dh_self = fresh
          /\ RatchetSend(session[p]).root_key = mixed
          /\ RatchetSend(session[p]).chain_key = [seed |-> mixed, step |-> 0]
          /\ RatchetSend(session[p]).send_counter = 0
          /\ RatchetSend(session[p]).session_id = session[p].session_id
          /\ RatchetSend(session[p]).dh_remote = session[p].dh_remote
          /\ RatchetSend(session[p]).receiving_chain_key = session[p].receiving_chain_key
          /\ RatchetSend(session[p]).recv_counter = session[p].recv_counter
          /\ RatchetSend(session[p]).previous_keys = session[p].previous_keys
          /\ RatchetSend(session[p]).peer_sig_known = session[p].peer_sig_known
      BY <1>1, <2>4 DEF SessionState
    <2> QED
      BY <1>1, <1>3, <2>1, <2>2, <2>3, <2>5 DEF fresh, mixed
  <1> QED
    BY <1>2, <1>3

(* The session of p becomes a ready one, or the one after a send.          *)
LEMMA BecomesOwn ==
  ASSUME Calm, TypeOK, InStep, NEW p \in Party, CanSend(p), open' = open,
         \A r \in Party : r # p => session'[r] = session[r],
         session'[p].session_id = session[p].session_id,
         session'[p].dh_self = ReadyToSend(session[p]).dh_self,
         session'[p].dh_remote = session[p].dh_remote,
         session'[p].root_key = ReadyToSend(session[p]).root_key,
         session'[p].receiving_chain_key = session[p].receiving_chain_key,
         session'[p].recv_counter = session[p].recv_counter,
         session'[p].previous_keys = session[p].previous_keys,
         session'[p].peer_sig_known = session[p].peer_sig_known,
         session'[p].chain_key.seed = ReadyToSend(session[p]).chain_key.seed,
         session'[p].send_counter >= ReadyToSend(session[p]).send_counter
  PROVE  /\ \A r \in Party : Unmoved(r)
         /\ session'[Peer(p)] = session[Peer(p)] /\ Root(Peer(p))' = Root(Peer(p))
         /\ IF MaybeRotate(session[p]) THEN Begins(p) ELSE GoesOn(p)
  <1> DEFINE ready == ReadyToSend(session[p])
  <1>1. \A r \in Party : r # p => session'[r] = session[r]
    OBVIOUS
  <1>2. /\ Peer(p) \in Party /\ Peer(p) # p /\ Initiator \in Party
        /\ session'[Peer(p)] = session[Peer(p)]
    BY <1>1, PeerOther DEF Party
  <1>3. FirstRoot' = FirstRoot
    <2>1. session'[Initiator].session_id = session[Initiator].session_id
      BY <1>1, <1>2
    <2> QED
      BY <2>1 DEF FirstRoot
  <1>4. \A r \in Party : Unmoved(r) /\ (r # p => Root(r)' = Root(r))
    BY <1>1, <1>3 DEF Unmoved, Remote, Receiving, Root
  <1>5. p \in open /\ Root(p) = session[p].root_key /\ Root(p)' = session'[p].root_key
    BY <1>1 DEF CanSend, Root
  <1>6. CASE ~MaybeRotate(session[p])
    <2>1. ready = session[p]
      BY <1>6, ReadyIs
    <2> QED
      BY <1>1, <1>2, <1>4, <1>5, <1>6, <2>1 DEF GoesOn
  <1>7. CASE MaybeRotate(session[p])
    <2>1. /\ Lead(Peer(p)) = 0
          /\ ready.dh_self = Generate(session[p].dh_self)
          /\ ready.root_key = Append(session[p].root_key,
               Exchange(Generate(session[p].dh_self), session[Peer(p)].dh_self))
          /\ ready.chain_key.seed = ready.root_key
      BY <1>7, ReadyIs
    <2> QED
      BY <1>1, <1>2, <1>4, <1>5, <1>7, <2>1 DEF Begins
  <1> QED
    BY <1>6, <1>7

LEMMA SendIsOwn ==
  ASSUME Calm, TypeOK, InStep, NEW p \in Party, NEW mode \in Mode, Send(p, mode)
  PROVE  OwnStep(p)
  <1> DEFINE ready == ReadyToSend(session[p])
             t == AfterSend(ready, mode)
             m == Outgoing(p, ready, mode, Header(p))
  <1>1. /\ CanSend(p) /\ session' = [session EXCEPT ![p] = t] /\ sent' = sent \cup {m}
        /\ p \in open /\ open' = open /\ log' = log /\ (pending' => pending)
    BY DEF Send, PopHeader, CanSend
  <1>2. /\ ready \in SessionState
        /\ ready.session_id = session[p].session_id
        /\ ready.dh_remote = session[p].dh_remote
        /\ ready.receiving_chain_key = session[p].receiving_chain_key
        /\ ready.recv_counter = session[p].recv_counter
        /\ ready.previous_keys = session[p].previous_keys
        /\ ready.peer_sig_known = session[p].peer_sig_known
        /\ ready.chain_key.step = ready.send_counter
        /\ ~MaybeRotate(session[p]) => ready = session[p]
    BY <1>1, ReadyIs
  <1>3. t \in SessionState /\ m \in Message
    BY <1>2, AfterSendType, OutgoingType DEF TypeOK, Header
  <1>4. /\ t.session_id = ready.session_id /\ t.dh_self = ready.dh_self
        /\ t.dh_remote = ready.dh_remote /\ t.root_key = ready.root_key
        /\ t.receiving_chain_key = ready.receiving_chain_key
        /\ t.recv_counter = ready.recv_counter /\ t.previous_keys = ready.previous_keys
        /\ t.peer_sig_known = ready.peer_sig_known
        /\ t.chain_key.seed = ready.chain_key.seed
        /\ t.chain_key.step = ready.chain_key.step + 1
        /\ t.send_counter = ready.send_counter + 1
    BY <1>2, AfterSendIs
  <1>5. /\ m.from = p /\ m.session_id = ready.session_id /\ (m.opk => pending)
        /\ m.ephemeral = ready.dh_self /\ m.key = ready.chain_key
        /\ m.counter = ready.send_counter
    BY DEF Outgoing, Header, KdfChain
  <1>6. ready.send_counter \in Nat
    BY <1>2 DEF SessionState
  <1> HIDE DEF t, m
  <1>a. session'[p] = t /\ \A r \in Party : r # p => session'[r] = session[r]
    BY <1>1 DEF TypeOK
  <1>7. /\ \A r \in Party : Unmoved(r)
        /\ session'[Peer(p)] = session[Peer(p)] /\ Root(Peer(p))' = Root(Peer(p))
        /\ IF MaybeRotate(session[p]) THEN Begins(p) ELSE GoesOn(p)
    BY <1>1, <1>2, <1>4, <1>6, <1>a, BecomesOwn DEF ready
  <1> HIDE DEF ready
  <1>8. session'[p].chain_key.step = session'[p].send_counter
    BY <1>2, <1>4, <1>6, <1>a
  <1>9. GoesOn(p) => ready = session[p]
    <2>1. session[p].dh_self \in KeyPair
      BY KnownTypes DEF SessionState
    <2>2. GoesOn(p) => ~Begins(p)
      BY <2>1 DEF GoesOn, Begins, Generate, KeyPair
    <2> QED
      BY <1>2, <1>7, <2>2
  <1>10. Makes(p, m)
    BY <1>1, <1>2, <1>3, <1>4, <1>5, <1>6, <1>9, <1>a DEF Makes
  <1> QED
    BY <1>1, <1>7, <1>8, <1>10 DEF OwnStep

LEMMA RaisesIsOwn ==
  ASSUME Calm, TypeOK, InStep, NEW p \in Party, SendRaises(p)
  PROVE  OwnStep(p)
  <1> DEFINE t == ReadyToSend(session[p])
  <1>1. /\ CanSend(p) /\ session' = [session EXCEPT ![p] = t] /\ sent' = sent
        /\ p \in open /\ open' = open /\ log' = log /\ (pending' => pending)
    BY DEF SendRaises, PopHeader, CanSend
  <1>2. /\ t \in SessionState
        /\ t.session_id = session[p].session_id
        /\ t.dh_remote = session[p].dh_remote
        /\ t.receiving_chain_key = session[p].receiving_chain_key
        /\ t.recv_counter = session[p].recv_counter
        /\ t.previous_keys = session[p].previous_keys
        /\ t.peer_sig_known = session[p].peer_sig_known
        /\ t.chain_key.step = t.send_counter
    BY <1>1, ReadyIs
  <1>3. t.send_counter \in Nat
    BY <1>2 DEF SessionState
  <1> HIDE DEF t
  <1>a. session'[p] = t /\ \A r \in Party : r # p => session'[r] = session[r]
    BY <1>1 DEF TypeOK
  <1>4. /\ \A r \in Party : Unmoved(r)
        /\ session'[Peer(p)] = session[Peer(p)] /\ Root(Peer(p))' = Root(Peer(p))
        /\ IF MaybeRotate(session[p]) THEN Begins(p) ELSE GoesOn(p)
    BY <1>1, <1>2, <1>3, <1>a, BecomesOwn DEF t
  <1> QED
    BY <1>1, <1>2, <1>4, <1>a DEF OwnStep

-----------------------------------------------------------------------------
(* Prefixes. *)

LEMMA PrefixEqual ==
  ASSUME NEW a \in Seq(Secret), NEW b \in Seq(Secret), NEW root \in Seq(Secret), NEW n,
         PrefixOf(a, root, n), PrefixOf(b, root, n)
  PROVE  a = b
  <1>1. Len(a) = Len(b) /\ \A i \in 1 .. Len(a) : a[i] = b[i]
    BY DEF PrefixOf
  <1> QED
    BY <1>1, SeqEqual

LEMMA PrefixExtends ==
  ASSUME NEW a, NEW root \in Seq(Secret), NEW longer \in Seq(Secret), NEW n \in Int,
         PrefixOf(a, root, n), PrefixOf(root, longer, Len(root))
  PROVE  PrefixOf(a, longer, n)
  <1>1. Len(root) \in Nat /\ Len(longer) \in Nat
    BY LenProperties
  <1>2. n <= Len(longer) /\ 1 .. n \subseteq 1 .. Len(root)
    BY <1>1 DEF PrefixOf
  <1> QED
    BY <1>1, <1>2 DEF PrefixOf

LEMMA PrefixWhole == \A root \in Seq(Secret) : PrefixOf(root, root, Len(root))
  BY LenProperties DEF PrefixOf

LEMMA PrefixAppend ==
  ASSUME NEW root \in Seq(Secret), NEW secret \in Secret
  PROVE  LET longer == Append(root, secret)
         IN  /\ longer \in Seq(Secret) /\ Len(longer) = Len(root) + 1
             /\ longer[Len(root) + 1] = secret
             /\ PrefixOf(root, longer, Len(root))
  BY AppendProperties, LenProperties DEF PrefixOf

-----------------------------------------------------------------------------
(* An end's own step. *)

(* The leads and the root key after it.                                    *)
LEMMA OwnLeads ==
  ASSUME TypeOK, TypeOK', InStep, NEW p \in Party, OwnStep(p)
  PROVE  LET q == Peer(p)
             n == session[p].dh_self.n
         IN  /\ q \in Party /\ Peer(q) = p /\ p # q
             /\ session[p].dh_self \in KeyPair /\ session'[p].dh_self \in KeyPair
             /\ session'[p].dh_self.owner = p
             /\ Lead(q)' = Lead(q) /\ session'[q] = session[q]
             /\ Root(q)' = Root(q)
             /\ Root(p) \in Seq(Secret) /\ Root(p)' \in Seq(Secret)
             /\ PrefixOf(Root(p), Root(p)', Len(Root(p)))
             /\ \/ /\ GoesOn(p) /\ session'[p].dh_self = session[p].dh_self
                   /\ Lead(p)' = Lead(p) /\ Root(p)' = Root(p)
                \/ /\ Begins(p) /\ session'[p].dh_self.n = n + 1
                   /\ Lead(q) = 0
                   /\ Lead(p)' = Lead(p) + 1
                   /\ Len(Root(p)') = Len(Root(p)) + 1
                   /\ Root(p)'[Len(Root(p)) + 1] =
                        {session'[p].dh_self, session[q].dh_self}
  <1> DEFINE q == Peer(p)
  <1>1. /\ q \in Party /\ Peer(q) = p /\ p # q
        /\ session[p].dh_self \in KeyPair /\ session[p].dh_self.owner = p
        /\ session[q].dh_self \in KeyPair
        /\ session[p].dh_self.n \in Nat /\ Remote(q).n \in Nat
        /\ Root(p) \in Seq(Secret)
    BY PeerOther, KnownTypes DEF InStep, Owners, SessionState, KeyPair
  <1>2. /\ session'[q] = session[q] /\ Root(q)' = Root(q)
        /\ Remote(p)' = Remote(p) /\ Remote(q)' = Remote(q)
    BY <1>1 DEF OwnStep, Unmoved
  <1>3. /\ Lead(q) = session[q].dh_self.n - Remote(p).n
        /\ Lead(q)' = session'[q].dh_self.n - Remote(p)'.n
        /\ Lead(p) = session[p].dh_self.n - Remote(q).n
        /\ Lead(p)' = session'[p].dh_self.n - Remote(q)'.n
    BY <1>1 DEF Lead
  <1>4. Lead(q)' = Lead(q)
    BY <1>2, <1>3
  <1>5. CASE GoesOn(p)
    <2>1. Root(p)' = Root(p) /\ session'[p].dh_self = session[p].dh_self
      BY <1>5 DEF GoesOn
    <2>2. Lead(p)' = Lead(p)
      BY <1>2, <1>3, <2>1
    <2> QED
      BY <1>1, <1>2, <1>4, <1>5, <2>1, <2>2, PrefixWhole
  <1>6. CASE Begins(p)
    <2> DEFINE fresh == Generate(session[p].dh_self)
    <2>1. fresh \in KeyPair /\ fresh.owner = p /\ fresh.n = session[p].dh_self.n + 1
      BY <1>1 DEF Generate, KeyPair
    <2>2. /\ session'[p].dh_self = fresh
          /\ Root(p)' = Append(Root(p), Exchange(fresh, session[q].dh_self))
          /\ Lead(q) = 0
      BY <1>6 DEF Begins
    <2>3. Exchange(fresh, session[q].dh_self) \in Secret
      BY <1>1, <2>1, ExchangeType
    <2>4. /\ Root(p)' \in Seq(Secret) /\ Len(Root(p)') = Len(Root(p)) + 1
          /\ Root(p)'[Len(Root(p)) + 1] = Exchange(fresh, session[q].dh_self)
          /\ PrefixOf(Root(p), Root(p)', Len(Root(p)))
      BY <1>1, <2>2, <2>3, PrefixAppend
    <2>5. Lead(p)' = Lead(p) + 1
      BY <1>1, <1>2, <1>3, <2>1, <2>2
    <2> HIDE DEF fresh
    <2> QED
      BY <1>1, <1>2, <1>4, <1>6, <2>1, <2>2, <2>4, <2>5 DEF Exchange
  <1> QED
    BY <1>5, <1>6 DEF OwnStep

LEMMA OwnKeepsHandshaken ==
  ASSUME TypeOK, InStep, NEW p \in Party, OwnStep(p)
  PROVE  Handshaken'
  <1>1. \A r \in Party : session'[r].session_id = session[r].session_id
    BY DEF OwnStep, Unmoved
  <1>2. open' = open /\ p \in open /\ Initiator \in Party /\ (pending' => pending)
    BY DEF OwnStep, Party
  <1>3. \A m \in sent' :
          m \in sent \/ (m.session_id = session[p].session_id /\ (m.opk => pending))
    BY DEF OwnStep, Makes
  <1>4. PICK opk \in BOOLEAN : /\ session[Initiator].session_id = Root0(EK, opk)
                               /\ pending => opk
                               /\ \A m \in sent : m.opk => opk
    BY DEF InStep, Handshaken
  <1>5. \A r \in open : session[r].session_id = session[Initiator].session_id /\ r \in Party
    BY DEF InStep, Handshaken, TypeOK
  <1>6. \A m \in sent' : m.session_id = session[Initiator].session_id /\ (m.opk => opk)
    BY <1>2, <1>3, <1>4, <1>5 DEF InStep, Handshaken
  <1>7. Initiator \in open
    BY DEF InStep, Handshaken
  <1> QED
    BY <1>1, <1>2, <1>4, <1>5, <1>6, <1>7 DEF Handshaken

LEMMA OwnKeepsOwners ==
  ASSUME TypeOK, TypeOK', InStep, NEW p \in Party, OwnStep(p)
  PROVE  Owners'
  <1>1. /\ session'[p].dh_self.owner = p
        /\ \A r \in Party : r # p => session'[r] = session[r]
    BY OwnLeads, PeerOther
  <1>2. \A r \in Party : Remote(r)' = Remote(r)
                         /\ session'[r].previous_keys = session[r].previous_keys
    BY DEF OwnStep, Unmoved
  <1>3. \A m \in sent' : m \in sent \/ (m.from = p /\ m.ephemeral = session'[p].dh_self)
    BY DEF OwnStep, Makes
  <1> QED
    BY <1>1, <1>2, <1>3 DEF InStep, Owners

LEMMA OwnKeepsRoots ==
  ASSUME TypeOK, TypeOK', InStep, NEW p \in Party, OwnStep(p)
  PROVE  Roots'
  <1> DEFINE q == Peer(p)
  <1>1. /\ q \in Party /\ Peer(q) = p /\ \A r \in Party : r = p \/ r = q
        /\ Lead(p) \in Int /\ Lead(q) \in Int /\ Lead(p) >= 0 /\ Lead(q) >= 0
        /\ Lead(p) = 0 \/ Lead(q) = 0
        /\ Root(p) \in Seq(Secret) /\ Root(q) \in Seq(Secret)
        /\ Len(Root(p)) \in Nat /\ Len(Root(q)) \in Nat
    BY PeerOther, KnownTypes, LenProperties DEF InStep, Roots
  <1>2. /\ Lead(q)' = Lead(q) /\ session'[q] = session[q] /\ Root(q)' = Root(q)
        /\ Remote(q)' = Remote(q) /\ Remote(p)' = Remote(p)
        /\ Root(p)' \in Seq(Secret) /\ PrefixOf(Root(p), Root(p)', Len(Root(p)))
    BY <1>1, OwnLeads DEF OwnStep, Unmoved
  <1>3. CASE /\ session'[p].dh_self = session[p].dh_self
             /\ Lead(p)' = Lead(p) /\ Root(p)' = Root(p)
    <2>1. \A r \in Party : /\ Lead(r)' = Lead(r) /\ Root(r)' = Root(r)
                           /\ Remote(r)' = Remote(r)
                           /\ session'[r].dh_self = session[r].dh_self /\ Peer(r) \in Party
      BY <1>1, <1>2, <1>3
    <2> QED
      BY <2>1 DEF InStep, Roots
  <1>4. CASE /\ session'[p].dh_self.n = session[p].dh_self.n + 1 /\ Lead(q) = 0
             /\ Lead(p)' = Lead(p) + 1
             /\ Len(Root(p)') = Len(Root(p)) + 1
             /\ Root(p)'[Len(Root(p)) + 1] = {session'[p].dh_self, session[q].dh_self}
    <2>1. /\ PrefixOf(Root(q), Root(p), Len(Root(q)))
          /\ Len(Root(p)) = Len(Root(q)) + Lead(p)
          /\ \A j \in 1 .. Lead(p) :
               Root(p)[Len(Root(q)) + j] =
                 {[owner |-> p, n |-> Remote(q).n + j], session[q].dh_self}
      BY <1>1, <1>4 DEF InStep, Roots
    <2>2. PrefixOf(Root(q), Root(p)', Len(Root(q)))
      BY <1>1, <1>2, <2>1, PrefixExtends
    <2>3. Len(Root(p)') = Len(Root(q)) + Lead(p)'
      BY <1>1, <1>4, <2>1
    <2>4. session'[p].dh_self = [owner |-> p, n |-> Remote(q).n + Lead(p)']
      <3>1. /\ session'[p].dh_self \in KeyPair /\ session'[p].dh_self.owner = p
            /\ Lead(p)' = session'[p].dh_self.n - Remote(q).n /\ Remote(q).n \in Nat
        BY <1>1, <1>2, OwnLeads, KnownTypes DEF Lead, KeyPair
      <3> QED
        BY <3>1 DEF KeyPair
    <2>5. ASSUME NEW j \in 1 .. Lead(p)'
          PROVE  Root(p)'[Len(Root(q)) + j] =
                   {[owner |-> p, n |-> Remote(q).n + j], session[q].dh_self}
      <3>1. CASE j = Lead(p)'
        <4>1. Len(Root(q)) + j = Len(Root(p)) + 1
          BY <1>1, <1>4, <2>1, <3>1
        <4> QED
          BY <1>4, <2>4, <3>1, <4>1
      <3>2. CASE j # Lead(p)'
        <4>1. j \in 1 .. Lead(p) /\ Len(Root(q)) + j \in 1 .. Len(Root(p))
          BY <1>1, <1>4, <2>1, <3>2
        <4>2. Root(p)'[Len(Root(q)) + j] = Root(p)[Len(Root(q)) + j]
          BY <1>2, <4>1 DEF PrefixOf
        <4> QED
          BY <2>1, <4>1, <4>2
      <3> QED
        BY <3>1, <3>2
    <2>6. Lead(p)' > 0 /\ Lead(q)' = 0
      BY <1>1, <1>2, <1>4
    <2>7. ASSUME NEW r \in Party
          PROVE  Lead(r)' >= 0 /\ (Lead(r)' = 0 \/ Lead(Peer(r))' = 0)
      <3>1. CASE r = p
        BY <1>1, <1>4, <2>6, <3>1
      <3>2. CASE r = q
        BY <2>6, <3>2
      <3> QED
        BY <1>1, <3>1, <3>2
    <2>8. ASSUME NEW r \in Party, Lead(Peer(r))' = 0
          PROVE  /\ PrefixOf(Root(Peer(r))', Root(r)', Len(Root(Peer(r))'))
                 /\ Len(Root(r)') = Len(Root(Peer(r))') + Lead(r)'
                 /\ \A j \in 1 .. Lead(r)' :
                      Root(r)'[Len(Root(Peer(r))') + j] =
                        {[owner |-> r, n |-> Remote(Peer(r))'.n + j], session'[Peer(r)].dh_self}
      <3>1. r = p /\ Peer(r) = q
        BY <1>1, <2>6, <2>8
      <3> QED
        BY <1>2, <2>2, <2>3, <2>5, <3>1
    <2> QED
      BY <2>7, <2>8 DEF Roots
  <1> QED
    BY <1>3, <1>4, OwnLeads

(* A chain's seed stays what its receiver has or will derive.              *)
LEMMA OwnKeepsSeeds ==
  ASSUME TypeOK, TypeOK', InStep, NEW p \in Party, OwnStep(p), NEW r \in Party,
         NEW n \in Nat, n <= session[r].dh_self.n, NEW seed, SeedOf(r, n, seed)
  PROVE  SeedOf(r, n, seed)'
  <1> DEFINE q == Peer(p)
  <1>1. /\ q \in Party /\ Peer(q) = p /\ \A x \in Party : x = p \/ x = q
        /\ Remote(p) \in KeyPair /\ Remote(q) \in KeyPair
        /\ Remote(p).n \in Nat /\ Remote(q).n \in Nat
        /\ Root(p) \in Seq(Secret) /\ Root(q) \in Seq(Secret)
        /\ Len(Root(p)) \in Nat /\ Len(Root(q)) \in Nat
        /\ session[q].dh_self.n \in Nat
    BY PeerOther, KnownTypes, LenProperties DEF KeyPair, SessionState
  <1>2. /\ Root(q)' = Root(q)
        /\ Remote(q)' = Remote(q) /\ Remote(p)' = Remote(p)
        /\ Receiving(q)' = Receiving(q) /\ Receiving(p)' = Receiving(p)
        /\ Root(p)' \in Seq(Secret) /\ PrefixOf(Root(p), Root(p)', Len(Root(p)))
    BY <1>1, OwnLeads DEF OwnStep, Unmoved
  <1>3. CASE r = p
    <2>1. /\ n = Remote(q).n => seed = Receiving(q).seed
          /\ n > Remote(q).n => PrefixOf(seed, Root(p), Len(Root(q)) + n - Remote(q).n)
      BY <1>3 DEF SeedOf
    <2>2. n > Remote(q).n => PrefixOf(seed, Root(p)', Len(Root(q)) + n - Remote(q).n)
      BY <1>1, <1>2, <2>1, PrefixExtends
    <2> QED
      BY <1>2, <1>3, <2>1, <2>2 DEF SeedOf
  <1>4. CASE r = q
    <2>1. /\ n = Remote(p).n => seed = Receiving(p).seed
          /\ n > Remote(p).n => PrefixOf(seed, Root(q), Len(Root(p)) + n - Remote(p).n)
      BY <1>1, <1>4 DEF SeedOf
    <2>2. n > Remote(p).n => Root(p)' = Root(p)
      <3>1. Root(p)' = Root(p) \/ Lead(q) = 0
        BY OwnLeads
      <3>2. Lead(q) = session[q].dh_self.n - Remote(p).n
        BY <1>1 DEF Lead
      <3> QED
        BY <1>1, <1>4, <3>1, <3>2
    <2>3. n > Remote(p).n => PrefixOf(seed, Root(q)', Len(Root(p)') + n - Remote(p).n)
      BY <1>2, <2>1, <2>2
    <2> QED
      BY <1>1, <1>2, <1>4, <2>1, <2>3 DEF SeedOf
  <1> QED
    BY <1>1, <1>3, <1>4

(* The chain an end sends on after it.                                     *)
LEMMA OwnChain ==
  ASSUME TypeOK, TypeOK', InStep, Roots', NEW p \in Party, OwnStep(p), NEW r \in Party
  PROVE  /\ SeedOf(r, session[r].dh_self.n, session[r].chain_key.seed)'
         /\ session'[r].dh_self.n >= session[r].dh_self.n
  <1> DEFINE q == Peer(p)
  <1>1. /\ q \in Party /\ Peer(q) = p /\ p # q /\ \A x \in Party : x = p \/ x = q
        /\ \A x \in Party : session[x].dh_self.n \in Nat
        /\ Remote(q).n \in Nat /\ Len(Root(q)) \in Nat
    BY PeerOther, KnownTypes, LenProperties DEF KeyPair, SessionState
  <1>2. SeedOf(r, session[r].dh_self.n, session[r].chain_key.seed)
    BY DEF InStep, Chains
  <1>3. CASE /\ session'[r].dh_self = session[r].dh_self
             /\ session'[r].chain_key.seed = session[r].chain_key.seed
    <2>1. \A n \in Nat : \A seed : n <= session[r].dh_self.n /\ SeedOf(r, n, seed)
            => /\ n = Remote(Peer(r))'.n => seed = Receiving(Peer(r))'.seed
               /\ n > Remote(Peer(r))'.n =>
                    PrefixOf(seed, Root(r)', Len(Root(Peer(r))') + n - Remote(Peer(r))'.n)
      BY OwnKeepsSeeds DEF SeedOf
    <2> DEFINE n == session[r].dh_self.n
               seed == session[r].chain_key.seed
    <2>a. /\ n = Remote(Peer(r))'.n => seed = Receiving(Peer(r))'.seed
          /\ n > Remote(Peer(r))'.n =>
               PrefixOf(seed, Root(r)', Len(Root(Peer(r))') + n - Remote(Peer(r))'.n)
      <3>1. n \in Nat /\ n <= session[r].dh_self.n /\ SeedOf(r, n, seed)
        BY <1>1, <1>2
      <3> HIDE DEF n, seed
      <3> QED
        BY <2>1, <3>1
    <2>2. SeedOf(r, session[r].dh_self.n, session[r].chain_key.seed)'
      BY <1>3, <2>a DEF SeedOf
    <2> QED
      BY <1>1, <1>3, <2>2
  <1>4. CASE r = p /\ Begins(p)
    <2>1. /\ session'[p].chain_key.seed = Root(p)' /\ Lead(q)' = 0
          /\ session'[p].dh_self.n = session[p].dh_self.n + 1
          /\ Root(p)' \in Seq(Secret)
          /\ Lead(p) >= 0 /\ Lead(p) = session[p].dh_self.n - Remote(q).n
          /\ Lead(p)' = session'[p].dh_self.n - Remote(q)'.n
          /\ Remote(q)' = Remote(q)
      <3>1. ~GoesOn(p)
        BY <1>1, <1>4, OwnLeads DEF GoesOn, Begins, Generate, KeyPair
      <3> QED
        BY <1>1, <1>4, <3>1, OwnLeads DEF Begins, Lead, InStep, Roots, OwnStep, Unmoved
    <2>2. Len(Root(p)') = Len(Root(q)') + Lead(p)'
      BY <1>1, <2>1 DEF Roots
    <2>3. /\ session'[p].dh_self.n > Remote(q)'.n
          /\ Len(Root(q)') + session'[p].dh_self.n - Remote(q)'.n = Len(Root(p)')
      <3>1. Len(Root(q)') \in Nat
        BY <1>1 DEF OwnStep
      <3> QED
        BY <1>1, <2>1, <2>2, <3>1
    <2>4. PrefixOf(Root(p)', Root(p)', Len(Root(p)'))
      BY <2>1, PrefixWhole
    <2> QED
      BY <1>1, <1>4, <2>1, <2>3, <2>4 DEF SeedOf
  <1> QED
    BY <1>1, <1>3, <1>4 DEF OwnStep, GoesOn

LEMMA OwnKeepsChains ==
  ASSUME TypeOK, TypeOK', InStep, Roots', NEW p \in Party, OwnStep(p)
  PROVE  Chains'
  <1>1. \A r \in Party : /\ Remote(r)' = Remote(r) /\ Receiving(r)' = Receiving(r)
                         /\ session'[r].recv_counter = session[r].recv_counter
                         /\ session'[r].previous_keys = session[r].previous_keys
    BY DEF OwnStep, Unmoved
  <1>2. /\ session'[p].chain_key.step = session'[p].send_counter
        /\ \A r \in Party : r # p => session'[r] = session[r]
    BY PeerOther DEF OwnStep
  <1>3. ASSUME NEW r \in Party
        PROVE  /\ session'[r].chain_key.step = session'[r].send_counter
               /\ Receiving(r)'.step = session'[r].recv_counter
               /\ SeedOf(r, session[r].dh_self.n, session[r].chain_key.seed)'
    BY <1>1, <1>2, OwnChain DEF InStep, Chains
  <1>4. ASSUME NEW m \in sent'
        PROVE  /\ m.key.step = m.counter
               /\ m.ephemeral.n <= session'[m.from].dh_self.n
               /\ SeedOf(m.from, m.ephemeral.n, m.key.seed)'
    <2>1. CASE m \in sent
      <3>1. /\ m.from \in Party /\ m.ephemeral.n \in Nat /\ m.key.step = m.counter
            /\ m.ephemeral.n <= session[m.from].dh_self.n
            /\ SeedOf(m.from, m.ephemeral.n, m.key.seed)
            /\ session[m.from].dh_self.n \in Nat
        BY <2>1, KnownTypes DEF InStep, Chains, KeyPair, SessionState
      <3>2. session'[m.from].dh_self.n >= session[m.from].dh_self.n
            /\ session'[m.from].dh_self.n \in Nat
        BY <3>1, OwnChain DEF TypeOK, SessionState, KeyPair
      <3> QED
        BY <3>1, <3>2, OwnKeepsSeeds
    <2>2. CASE m \notin sent
      <3>1. /\ m.from = p /\ m.ephemeral = session'[p].dh_self
            /\ m.key.seed = session'[p].chain_key.seed /\ m.key.step = m.counter
        BY <2>2 DEF OwnStep, Makes
      <3>2. session'[p].dh_self.n \in Nat
        BY DEF TypeOK, SessionState, KeyPair
      <3> QED
        BY <1>3, <3>1, <3>2 DEF SeedOf
    <2> QED
      BY <2>1, <2>2
  <1>5. ASSUME NEW r \in Party, NEW e \in session'[r].previous_keys
        PROVE  /\ e.key.step = e.counter
               /\ e.chain = Remote(r)' =>
                    /\ e.key.seed = Receiving(r)'.seed
                    /\ e.counter < session'[r].recv_counter
    BY <1>1 DEF InStep, Chains
  <1> QED
    BY <1>3, <1>4, <1>5 DEF Chains

LEMMA OwnKeepsCounters ==
  ASSUME TypeOK, TypeOK', InStep, NEW p \in Party, OwnStep(p)
  PROVE  Counters'
  <1> DEFINE q == Peer(p)
  <1> SUFFICES ASSUME NEW m \in sent', m.ephemeral = session'[m.from].dh_self
               PROVE  m.counter < session'[m.from].send_counter
    BY DEF Counters
  <1>1. /\ q \in Party /\ Peer(q) = p /\ p # q /\ \A r \in Party : r = p \/ r = q
        /\ session'[q] = session[q]
        /\ \A r \in Party : session[r].send_counter \in Nat /\ session'[r].send_counter \in Nat
    BY PeerOther, KnownTypes DEF OwnStep, TypeOK, SessionState
  <1>2. \/ /\ session'[p].dh_self = session[p].dh_self
           /\ session'[p].send_counter >= session[p].send_counter
        \/ session'[p].dh_self.n = session[p].dh_self.n + 1
    BY OwnLeads DEF GoesOn
  <1>3. CASE m \in sent
    <2>1. /\ m.from \in Party /\ m.counter \in Nat
          /\ m.ephemeral.n <= session[m.from].dh_self.n
          /\ session[m.from].dh_self.n \in Nat /\ m.ephemeral.n \in Nat
          /\ m.ephemeral = session[m.from].dh_self
               => m.counter < session[m.from].send_counter
      BY <1>3, KnownTypes DEF InStep, Chains, Counters, KeyPair, SessionState
    <2>2. CASE m.from = q
      BY <1>1, <2>1, <2>2
    <2>3. CASE m.from = p
      <3>1. session'[p].dh_self = session[p].dh_self
            /\ session'[p].send_counter >= session[p].send_counter
        BY <1>2, <2>1, <2>3
      <3> QED
        BY <1>1, <2>1, <2>3, <3>1
    <2> QED
      BY <1>1, <2>1, <2>2, <2>3
  <1>4. CASE m \notin sent
    <2>1. m \in Message /\ m.from = p /\ m.counter + 1 = session'[p].send_counter
      BY <1>4 DEF OwnStep, Makes
    <2>2. m.counter \in Nat
      BY <2>1 DEF Message
    <2> QED
      BY <2>1, <2>2
  <1> QED
    BY <1>3, <1>4

(* After a step, too, the receiving chain of an end names the keys of the  *)
(* messages of the chain it follows, cached or not.                        *)
LEMMA FollowedKeys ==
  ASSUME TypeOK', Owners', Chains', NEW p \in Party, NEW m \in sent',
         m.ephemeral = Remote(p)'
  PROVE  /\ m.from = Peer(p)
         /\ m.key = [seed |-> Receiving(p)'.seed, step |-> m.counter]
         /\ \A e \in session'[p].previous_keys :
              e.chain = m.ephemeral /\ e.counter = m.counter => e.key = m.key
  <1>1. /\ m.key \in ChainKey /\ m.from \in Party
        /\ session'[p].previous_keys \in SUBSET CachedKey
    BY DEF TypeOK, Message, SessionState
  <1>2. /\ m.from = Peer(p) /\ m.key.step = m.counter
        /\ SeedOf(m.from, m.ephemeral.n, m.key.seed)'
    BY DEF Owners, Chains
  <1>3. m.key.seed = Receiving(p)'.seed
    BY <1>2, PeerOther DEF SeedOf
  <1>4. m.key = [seed |-> Receiving(p)'.seed, step |-> m.counter]
    BY <1>1, <1>2, <1>3 DEF ChainKey
  <1>5. ASSUME NEW e \in session'[p].previous_keys, e.chain = m.ephemeral, e.counter = m.counter
        PROVE  e.key = m.key
    <2>1. e.key \in ChainKey /\ e.key.step = e.counter /\ e.key.seed = Receiving(p)'.seed
      BY <1>1, <1>5 DEF Chains, CachedKey
    <2> QED
      BY <1>4, <1>5, <2>1 DEF ChainKey
  <1> QED
    BY <1>2, <1>4, <1>5

LEMMA OwnKeepsCacheSound ==
  ASSUME TypeOK, TypeOK', InStep, Owners', Chains', NEW p \in Party, OwnStep(p)
  PROVE  CacheSound'
  <1> SUFFICES ASSUME NEW r \in Party, NEW e \in session'[r].previous_keys, NEW m \in sent',
                      m.ephemeral = e.chain, m.counter = e.counter
               PROVE  m.key = e.key
    BY DEF CacheSound
  <1>1. /\ e \in session[r].previous_keys /\ Remote(r)' = Remote(r)
        /\ Peer(r) \in Party /\ session[Peer(r)].dh_self.n \in Nat
        /\ Remote(r).n \in Nat /\ Remote(r) \in KeyPair
    BY PeerOther, KnownTypes DEF OwnStep, Unmoved, SessionState, KeyPair
  <1>2. e.chain.owner = Peer(r) /\ e.chain.n <= Remote(r).n /\ e.chain \in KeyPair
        /\ Remote(r).owner = Peer(r)
    <2>1. session[r].previous_keys \in SUBSET CachedKey
      BY KnownTypes DEF SessionState
    <2>2. e.chain \in KeyPair
      BY <1>1, <2>1 DEF CachedKey
    <2>3. Owners
      BY DEF InStep
    <2> QED
      BY <1>1, <2>2, <2>3 DEF Owners
  <1>3. CASE m \in sent
    BY <1>1, <1>3 DEF InStep, CacheSound
  <1>4. CASE m \notin sent
    <2>1. m.from = p /\ m.ephemeral = session'[p].dh_self /\ session'[p].dh_self.owner = p
      BY <1>4 DEF OwnStep, Makes, Owners
    <2>2. Peer(r) = p
      BY <1>2, <2>1
    <2>3. session'[p].dh_self.n >= session[p].dh_self.n /\ session'[p].dh_self.n \in Nat
      BY <1>1, <2>2, OwnLeads DEF KeyPair
    <2>4. Lead(p) >= 0 /\ Lead(p) = session[p].dh_self.n - Remote(r).n
      BY <2>2, PeerOther DEF InStep, Roots, Lead
    <2>5. e.chain.n = Remote(r).n
      <3>1. e.chain = session'[p].dh_self /\ session[p].dh_self.n \in Nat
        BY <1>1, <2>1, <2>2
      <3> QED
        BY <1>1, <1>2, <2>3, <2>4, <3>1
    <2>6. e.chain = Remote(r)'
      BY <1>1, <1>2, <2>5 DEF KeyPair
    <2> QED
      BY <2>6, FollowedKeys
  <1> QED
    BY <1>3, <1>4

LEMMA OwnKeepsPassed ==
  ASSUME InStep, NEW p \in Party, OwnStep(p)
  PROVE  Passed'
  <1>1. /\ log' = log
        /\ \A r \in Party : /\ Remote(r)' = Remote(r)
                            /\ session'[r].recv_counter = session[r].recv_counter
                            /\ session'[r].previous_keys = session[r].previous_keys
    BY DEF OwnStep, Unmoved
  <1> QED
    BY <1>1 DEF InStep, Passed

LEMMA OwnKeepsOutcomes ==
  ASSUME InStep, NEW p \in Party, OwnStep(p)
  PROVE  Outcomes' /\ FirstDeliveryAccepted'
  <1>1. log' = log /\ sent \subseteq sent'
        /\ \A r \in Party : session'[r].peer_sig_known = session[r].peer_sig_known
    BY DEF OwnStep, Unmoved, Makes
  <1> QED
    BY <1>1 DEF InStep, Outcomes, Unsigned, FirstDeliveryAccepted

LEMMA OwnKeepsInStep ==
  ASSUME TypeOK, TypeOK', InStep, NEW p \in Party, OwnStep(p)
  PROVE  InStep'
  <1>1. /\ Handshaken' /\ Owners' /\ Roots' /\ Counters'
        /\ Outcomes' /\ FirstDeliveryAccepted'
    BY OwnKeepsHandshaken, OwnKeepsOwners, OwnKeepsRoots, OwnKeepsCounters, OwnKeepsOutcomes
  <1>2. Chains' /\ Passed'
    BY <1>1, OwnKeepsChains, OwnKeepsPassed
  <1>3. CacheSound'
    BY <1>1, <1>2, OwnKeepsCacheSound
  <1> QED
    BY <1>1, <1>2, <1>3 DEF InStep

(* What the key of a message leaves of the session that follows its chain. *)
LEMMA FastForwardIs ==
  ASSUME NEW s \in SessionState, NEW counter \in Nat, counter >= s.recv_counter
  PROVE  LET t == FastForward(s, counter)
             skipped == Skipped(s, counter)
         IN  /\ t.session_id = s.session_id /\ t.dh_self = s.dh_self
             /\ t.chain_key = s.chain_key /\ t.send_counter = s.send_counter
             /\ t.peer_sig_known = s.peer_sig_known
             /\ t.root_key = s.root_key /\ t.dh_remote = s.dh_remote
             /\ t.recv_counter = counter + 1
             /\ t.receiving_chain_key.seed = s.receiving_chain_key.seed
             /\ t.receiving_chain_key.step =
                  s.receiving_chain_key.step + (counter + 1 - s.recv_counter)
             /\ \A e \in t.previous_keys :
                  \/ e \in s.previous_keys
                  \/ /\ e.chain = s.dh_remote /\ e.counter \in skipped
                     /\ e.key = ChainAt(s, e.counter)
             /\ \A e \in s.previous_keys : \E f \in t.previous_keys :
                  f.chain = e.chain /\ f.counter = e.counter
             /\ \A n \in skipped : \E f \in t.previous_keys :
                  f.chain = s.dh_remote /\ f.counter = n
  <1> DEFINE skipped == Skipped(s, counter)
             entry(n) == [chain |-> s.dh_remote, counter |-> n,
                          key |-> KdfChain(ChainAt(s, n)).message]
             kept == {e \in s.previous_keys : ~(e.chain = s.dh_remote /\ e.counter \in skipped)}
             cache == kept \cup {entry(n) : n \in skipped}
             chain == KdfChain(ChainAt(s, counter)).next
             t == [s EXCEPT !.previous_keys = cache, !.receiving_chain_key = chain,
                            !.recv_counter = counter + 1]
  <1>1. FastForward(s, counter) = t
    BY DEF FastForward
  <1>2. /\ chain.seed = s.receiving_chain_key.seed
        /\ chain.step = s.receiving_chain_key.step + (counter + 1 - s.recv_counter)
    <2>1. /\ s.receiving_chain_key.step \in Nat /\ s.recv_counter \in Nat
          /\ ChainAt(s, counter) \in ChainKey
          /\ ChainAt(s, counter).seed = s.receiving_chain_key.seed
          /\ ChainAt(s, counter).step = s.receiving_chain_key.step + (counter - s.recv_counter)
      BY ChainAtType DEF SessionState, ChainKey
    <2>2. /\ chain.seed = ChainAt(s, counter).seed
          /\ chain.step = ChainAt(s, counter).step + 1
      BY <2>1 DEF KdfChain, ChainKey
    <2> QED
      BY <2>1, <2>2
  <1>3. \A n : entry(n).chain = s.dh_remote /\ entry(n).counter = n /\ entry(n).key = ChainAt(s, n)
    BY DEF KdfChain
  <1> HIDE DEF chain, entry
  <1>4. /\ \A e \in cache : \/ e \in s.previous_keys
                            \/ /\ e.chain = s.dh_remote /\ e.counter \in skipped
                               /\ e.key = ChainAt(s, e.counter)
        /\ \A e \in s.previous_keys : \E f \in cache : f.chain = e.chain /\ f.counter = e.counter
        /\ \A n \in skipped : \E f \in cache : f.chain = s.dh_remote /\ f.counter = n
    BY <1>3
  <1> HIDE DEF cache, skipped
  <1>5. /\ t.session_id = s.session_id /\ t.dh_self = s.dh_self
        /\ t.chain_key = s.chain_key /\ t.send_counter = s.send_counter
        /\ t.peer_sig_known = s.peer_sig_known
        /\ t.root_key = s.root_key /\ t.dh_remote = s.dh_remote
        /\ t.recv_counter = counter + 1 /\ t.receiving_chain_key = chain
        /\ t.previous_keys = cache
    BY DEF SessionState
  <1> HIDE DEF t
  <1> QED
    BY <1>1, <1>2, <1>4, <1>5 DEF skipped

-----------------------------------------------------------------------------
(***************************************************************************)
(* A message of the peer reaches an end.  The end stays with the chain it  *)
(* follows, or follows the next one.                                       *)
(***************************************************************************)
Stays(p) ==
  /\ Root(p)' = Root(p) /\ Remote(p)' = Remote(p)
  /\ Receiving(p)'.seed = Receiving(p).seed
  /\ session'[p].recv_counter >= session[p].recv_counter

Follows(p) ==
  LET q == Peer(p)
  IN  /\ p \in open /\ Lead(p) = 0 /\ Lead(q) > 0
      /\ Remote(p)'.n = Remote(p).n + 1
      /\ Root(p)' = Receiving(p)'.seed
      /\ Len(Root(p)') = Len(Root(p)) + 1 /\ PrefixOf(Root(p)', Root(q), Len(Root(p)'))

PeerStep(p, s, m) ==
  /\ Carried(m) /\ m.from = Peer(p) /\ Reached(p, s, m)
  /\ sent' = sent /\ pending' = pending /\ open' = open \cup {p}
  /\ \A r \in Party : r # p =>
       /\ session'[r] = session[r] /\ log'[r] = log[r]
       /\ Root(r)' = Root(r) /\ Remote(r)' = Remote(r) /\ Receiving(r)' = Receiving(r)
  /\ session'[p] = AfterKey(s, m)
  /\ session'[p].session_id = session[Initiator].session_id
  /\ session'[Initiator].session_id = session[Initiator].session_id
  /\ session'[p].dh_self = session[p].dh_self
  /\ session'[p].chain_key = session[p].chain_key
  /\ session'[p].send_counter = session[p].send_counter
  /\ p \in open => session'[p].peer_sig_known = session[p].peer_sig_known
  /\ Remote(p)' = m.ephemeral /\ Receiving(p)'.seed = m.key.seed
  /\ Receiving(p)'.step = session'[p].recv_counter
  /\ session'[p].recv_counter = IF IsOld(s, m) THEN s.recv_counter ELSE m.counter + 1
  /\ \/ Stays(p) /\ s.recv_counter = session[p].recv_counter
     \/ Follows(p) /\ s.recv_counter = 0
  /\ \A e \in session'[p].previous_keys :
       \/ e \in session[p].previous_keys
       \/ /\ e.chain = m.ephemeral /\ e.counter \in Skipped(s, m.counter)
          /\ e.key = [seed |-> m.key.seed, step |-> e.counter] /\ ~IsOld(s, m)
  /\ \A e \in session[p].previous_keys : \E f \in session'[p].previous_keys :
       f.chain = e.chain /\ f.counter = e.counter
  /\ ~IsOld(s, m) => \A n \in Skipped(s, m.counter) : \E f \in session'[p].previous_keys :
       f.chain = m.ephemeral /\ f.counter = n

(* Every message that is delivered is of the session, and is processed.    *)
LEMMA ReceiveProcesses ==
  ASSUME Calm, TypeOK, Closed, InStep, NEW p \in Party, NEW m, NEW intact \in BOOLEAN,
         Arrives(m, intact), Receive(p, m, intact)
  PROVE  \E held \in Holding(p, m) :
           LET s == Following(held, m.ephemeral)
           IN  /\ Carried(m) /\ Deliverable(p, m) /\ Reached(p, s, m)
               /\ m.from = Peer(p) /\ sent' = sent /\ pending' = pending
               /\ open' = open \cup {p}
               /\ session' = [session EXCEPT ![p] = AfterKey(s, m)]
               /\ log' = [log EXCEPT ![p] =
                            Record(@, m, intact, Authentic(s, m, intact), ~IsOld(s, m))]
  <1>1. Deliverable(p, m) /\ sent' = sent /\ pending' = pending /\ open' = open \cup {p}
    BY DEF Receive
  <1>2. PICK held \in Holding(p, m) : Refuse(p, held, m, intact) \/ Process(p, held, m, intact)
    BY DEF Receive
  <1>3. PICK made \in sent : Carries(m, made)
    BY CalmArrival
  <1>4. Deliverable(p, made) /\ held \in Holding(p, made) /\ m.ephemeral = made.ephemeral
    BY <1>1, <1>3, CarriedDelivers DEF Carries
  <1>5. held.session_id = session[Initiator].session_id
    BY <1>4, HeldIs
  <1>6. m.session_id = session[Initiator].session_id
    BY <1>3 DEF Carries, InStep, Handshaken
  <1>7. Process(p, held, m, intact)
    BY <1>2, <1>5, <1>6 DEF Refuse
  <1>8. Reached(p, Following(held, m.ephemeral), m)
    <2>1. Reached(p, Following(held, made.ephemeral), made)
      BY <1>4, ReachedBy
    <2> QED
      BY <1>3, <1>4, <2>1, ReachedOn
  <1>9. m.from = Peer(p)
    BY <1>1 DEF Deliverable
  <1> QED
    BY <1>1, <1>3, <1>7, <1>8, <1>9 DEF Process, Carried

LEMMA ReachedKey ==
  ASSUME TypeOK, InStep, NEW p \in Party, NEW m \in Message, NEW s, Reached(p, s, m)
  PROVE  LET t == AfterKey(s, m)
         IN  /\ t \in SessionState
             /\ t.session_id = session[Initiator].session_id
             /\ t.dh_self = session[p].dh_self /\ t.chain_key = session[p].chain_key
             /\ t.send_counter = session[p].send_counter
             /\ p \in open => t.peer_sig_known = session[p].peer_sig_known
             /\ t.root_key = s.root_key /\ t.dh_remote = m.ephemeral
             /\ t.receiving_chain_key.seed = m.key.seed
             /\ t.receiving_chain_key.step = t.recv_counter
             /\ t.recv_counter = IF IsOld(s, m) THEN s.recv_counter ELSE m.counter + 1
             /\ \A e \in t.previous_keys :
                  \/ e \in session[p].previous_keys
                  \/ /\ e.chain = m.ephemeral /\ e.counter \in Skipped(s, m.counter)
                     /\ e.key = [seed |-> m.key.seed, step |-> e.counter] /\ ~IsOld(s, m)
             /\ \A e \in session[p].previous_keys : \E f \in t.previous_keys :
                  f.chain = e.chain /\ f.counter = e.counter
             /\ ~IsOld(s, m) => \A n \in Skipped(s, m.counter) : \E f \in t.previous_keys :
                  f.chain = m.ephemeral /\ f.counter = n
  <1>1. /\ s \in SessionState /\ m \in Message /\ m.counter \in Nat
        /\ s.recv_counter \in Nat /\ s.receiving_chain_key \in ChainKey
    BY DEF Reached, SessionState, Message
  <1>2. AfterKey(s, m) \in SessionState
    BY <1>1, AfterKeyType
  <1>3. CASE IsOld(s, m)
    BY <1>1, <1>2, <1>3 DEF AfterKey, Reached
  <1>4. CASE ~IsOld(s, m)
    <2>1. m.counter >= s.recv_counter /\ AfterKey(s, m) = FastForward(s, m.counter)
      BY <1>1, <1>4 DEF IsOld, AfterKey
    <2>2. ASSUME NEW n \in Skipped(s, m.counter)
          PROVE  ChainAt(s, n) = [seed |-> m.key.seed, step |-> n]
      <3>1. n \in Nat /\ n >= s.recv_counter
        BY <1>1, <2>2 DEF Skipped
      <3>2. /\ ChainAt(s, n) \in ChainKey
            /\ ChainAt(s, n).seed = s.receiving_chain_key.seed
            /\ ChainAt(s, n).step = s.receiving_chain_key.step + (n - s.recv_counter)
        BY <1>1, <3>1, ChainAtType
      <3>3. ChainAt(s, n).seed = m.key.seed /\ ChainAt(s, n).step = n
        BY <1>1, <3>1, <3>2 DEF Reached
      <3> QED
        BY <3>2, <3>3 DEF ChainKey
    <2> DEFINE t == FastForward(s, m.counter)
    <2>3. /\ t.session_id = s.session_id /\ t.dh_self = s.dh_self
          /\ t.chain_key = s.chain_key /\ t.send_counter = s.send_counter
          /\ t.peer_sig_known = s.peer_sig_known
          /\ t.root_key = s.root_key /\ t.dh_remote = s.dh_remote
          /\ t.recv_counter = m.counter + 1
          /\ t.receiving_chain_key.seed = s.receiving_chain_key.seed
          /\ t.receiving_chain_key.step =
               s.receiving_chain_key.step + (m.counter + 1 - s.recv_counter)
          /\ \A e \in t.previous_keys :
               \/ e \in s.previous_keys
               \/ /\ e.chain = s.dh_remote /\ e.counter \in Skipped(s, m.counter)
                  /\ e.key = ChainAt(s, e.counter)
          /\ \A e \in s.previous_keys : \E f \in t.previous_keys :
               f.chain = e.chain /\ f.counter = e.counter
          /\ \A n \in Skipped(s, m.counter) : \E f \in t.previous_keys :
               f.chain = s.dh_remote /\ f.counter = n
      BY <1>1, <2>1, FastForwardIs
    <2> HIDE DEF t
    <2>4. t.receiving_chain_key.step = t.recv_counter
      BY <1>1, <2>3 DEF Reached, ChainKey
    <2>5. /\ s.session_id = session[Initiator].session_id
          /\ s.dh_self = session[p].dh_self /\ s.chain_key = session[p].chain_key
          /\ s.send_counter = session[p].send_counter
          /\ s.previous_keys = session[p].previous_keys
          /\ p \in open => s.peer_sig_known = session[p].peer_sig_known
          /\ s.dh_remote = m.ephemeral
          /\ s.receiving_chain_key.seed = m.key.seed
      BY DEF Reached
    <2>6. \A e \in t.previous_keys :
            \/ e \in session[p].previous_keys
            \/ /\ e.chain = m.ephemeral /\ e.counter \in Skipped(s, m.counter)
               /\ e.key = [seed |-> m.key.seed, step |-> e.counter] /\ ~IsOld(s, m)
      BY <1>4, <2>2, <2>3, <2>5
    <2> QED
      BY <1>2, <1>4, <2>1, <2>3, <2>4, <2>5, <2>6 DEF t
  <1> QED
    BY <1>3, <1>4

LEMMA ReceiveIsPeer ==
  ASSUME Calm, TypeOK, Closed, InStep, NEW p \in Party, NEW m, NEW intact \in BOOLEAN,
         Arrives(m, intact), Receive(p, m, intact)
  PROVE  \E s : /\ PeerStep(p, s, m)
                /\ log'[p] = Record(log[p], m, intact, Authentic(s, m, intact), ~IsOld(s, m))
  <1> DEFINE q == Peer(p)
  <1>1. PICK held \in Holding(p, m) :
          LET s == Following(held, m.ephemeral)
          IN  /\ Carried(m) /\ Deliverable(p, m) /\ Reached(p, s, m)
              /\ m.from = Peer(p) /\ sent' = sent /\ pending' = pending
              /\ open' = open \cup {p}
              /\ session' = [session EXCEPT ![p] = AfterKey(s, m)]
              /\ log' = [log EXCEPT ![p] =
                           Record(@, m, intact, Authentic(s, m, intact), ~IsOld(s, m))]
    BY ReceiveProcesses
  <1> DEFINE s == Following(held, m.ephemeral)
             t == AfterKey(s, m)
  <1>2. /\ Carried(m) /\ m \in Message /\ Reached(p, s, m)
        /\ m.from = q /\ sent' = sent /\ pending' = pending
        /\ open' = open \cup {p}
        /\ session'[p] = t /\ \A r \in Party : r # p => session'[r] = session[r]
        /\ log'[p] = Record(log[p], m, intact, Authentic(s, m, intact), ~IsOld(s, m))
        /\ \A r \in Party : r # p => log'[r] = log[r]
    BY <1>1, CarriedIs DEF TypeOK
  <1> HIDE DEF s
  <1>3. /\ t.session_id = session[Initiator].session_id
        /\ t.dh_self = session[p].dh_self /\ t.chain_key = session[p].chain_key
        /\ t.send_counter = session[p].send_counter
        /\ p \in open => t.peer_sig_known = session[p].peer_sig_known
        /\ t.root_key = s.root_key /\ t.dh_remote = m.ephemeral
        /\ t.receiving_chain_key.seed = m.key.seed
        /\ t.receiving_chain_key.step = t.recv_counter
        /\ t.recv_counter = IF IsOld(s, m) THEN s.recv_counter ELSE m.counter + 1
        /\ \A e \in t.previous_keys :
             \/ e \in session[p].previous_keys
             \/ /\ e.chain = m.ephemeral /\ e.counter \in Skipped(s, m.counter)
                /\ e.key = [seed |-> m.key.seed, step |-> e.counter] /\ ~IsOld(s, m)
        /\ \A e \in session[p].previous_keys : \E f \in t.previous_keys :
             f.chain = e.chain /\ f.counter = e.counter
        /\ ~IsOld(s, m) => \A n \in Skipped(s, m.counter) : \E f \in t.previous_keys :
             f.chain = m.ephemeral /\ f.counter = n
    BY <1>2, ReachedKey
  <1> HIDE DEF t
  <1>4. session'[Initiator].session_id = session[Initiator].session_id
    BY <1>2, <1>3 DEF Party
  <1>5. /\ Root(p)' = t.root_key /\ Remote(p)' = t.dh_remote
        /\ Receiving(p)' = t.receiving_chain_key
    BY <1>2 DEF Root, Remote, Receiving
  <1>6. ASSUME NEW r \in Party, r # p
        PROVE  Root(r)' = Root(r) /\ Remote(r)' = Remote(r) /\ Receiving(r)' = Receiving(r)
    <2>1. FirstRoot' = FirstRoot
      BY <1>4 DEF FirstRoot
    <2> QED
      BY <1>2, <1>6, <2>1 DEF Root, Remote, Receiving
  <1>7. /\ m.counter \in Nat /\ session[p].recv_counter \in Nat
        /\ m.ephemeral.n \in Nat /\ Remote(p).n \in Nat /\ Len(Root(p)) \in Nat
    BY <1>2, CarriedIs, KnownTypes, LenProperties DEF SessionState, KeyPair
  <1>a. ASSUME \/ Stays(p) /\ s.recv_counter = session[p].recv_counter
               \/ Follows(p) /\ s.recv_counter = 0
        PROVE  PeerStep(p, s, m)
    <2>1. /\ session'[p] = AfterKey(s, m)
          /\ Receiving(p)'.seed = m.key.seed /\ Receiving(p)'.step = session'[p].recv_counter
          /\ Remote(p)' = m.ephemeral
      BY <1>2, <1>3, <1>5 DEF t
    <2>2. session'[p] = t
      BY <1>2
    <2> QED
      BY <1>2, <1>3, <1>4, <1>6, <1>a, <2>1, <2>2 DEF PeerStep
  <1>8. CASE Same(p, s)
    <2>1. /\ s.root_key = Root(p) /\ s.dh_remote = Remote(p)
          /\ s.receiving_chain_key = Receiving(p) /\ s.recv_counter = session[p].recv_counter
          /\ s.dh_remote = m.ephemeral /\ s.receiving_chain_key.seed = m.key.seed
      BY <1>2, <1>8 DEF Same, Reached
    <2>2. t.recv_counter >= session[p].recv_counter
      BY <1>3, <1>7, <2>1 DEF IsOld
    <2>3. Stays(p)
      BY <1>2, <1>3, <1>5, <2>1, <2>2 DEF Stays
    <2> QED
      BY <1>2, <1>a, <2>1, <2>3
  <1>9. CASE NextOf(p, s, m)
    <2>1. /\ p \in open /\ Lead(p) = 0 /\ Lead(q) > 0
          /\ m.ephemeral.n = Remote(p).n + 1
          /\ s.root_key = m.key.seed /\ Len(m.key.seed) = Len(Root(p)) + 1
          /\ s.recv_counter = 0
      BY <1>9 DEF NextOf
    <2>2. PrefixOf(m.key.seed, Root(q), Len(Root(p)) + 1)
      <3>1. SeedOf(q, m.ephemeral.n, m.key.seed) /\ Peer(q) = p
        BY <1>2, CarriedIs, PeerOther
      <3>2. PrefixOf(m.key.seed, Root(q), Len(Root(p)) + m.ephemeral.n - Remote(p).n)
        BY <1>7, <2>1, <3>1 DEF SeedOf
      <3>3. Len(Root(p)) + m.ephemeral.n - Remote(p).n = Len(Root(p)) + 1
        BY <1>7, <2>1
      <3> QED
        BY <3>2, <3>3
    <2>3. Follows(p)
      BY <1>3, <1>5, <2>1, <2>2 DEF Follows
    <2> QED
      BY <1>2, <1>a, <2>1, <2>3
  <1> QED
    BY <1>2, <1>8, <1>9 DEF Reached

LEMMA PeerKeepsHandshaken ==
  ASSUME TypeOK, InStep, NEW p \in Party, NEW s, NEW m, PeerStep(p, s, m)
  PROVE  Handshaken'
  <1>1. sent' = sent /\ pending' = pending /\ open' = open \cup {p}
        /\ session'[Initiator].session_id = session[Initiator].session_id
        /\ session'[p].session_id = session[Initiator].session_id
    BY DEF PeerStep
  <1>2. \A r \in open' : session'[r].session_id = session[Initiator].session_id
    <2>1. \A r \in Party : r # p => session'[r] = session[r]
      BY DEF PeerStep
    <2> SUFFICES ASSUME NEW r \in open', r # p
                 PROVE  session'[r].session_id = session[Initiator].session_id
      BY <1>1
    <2>2. r \in open /\ session[r].session_id = session[Initiator].session_id
      BY <1>1 DEF InStep, Handshaken
    <2> QED
      BY <2>1, <2>2 DEF TypeOK
  <1> QED
    BY <1>1, <1>2 DEF InStep, Handshaken

(* The leads after it.                                                     *)
LEMMA PeerLeads ==
  ASSUME TypeOK, TypeOK', InStep, NEW p \in Party, NEW s, NEW m, PeerStep(p, s, m)
  PROVE  LET q == Peer(p)
         IN  /\ q \in Party /\ Peer(q) = p /\ p # q /\ \A r \in Party : r = p \/ r = q
             /\ Lead(p)' = Lead(p)
             /\ \A r \in Party : /\ session'[r].dh_self = session[r].dh_self
                                 /\ session'[r].chain_key = session[r].chain_key
                                 /\ session'[r].send_counter = session[r].send_counter
             /\ Remote(q)' = Remote(q) /\ Root(q)' = Root(q)
             /\ Remote(p)' \in KeyPair /\ Remote(p)'.owner = q
             /\ \/ Stays(p) /\ Lead(q)' = Lead(q)
                \/ Follows(p) /\ Lead(q)' = Lead(q) - 1
  <1> DEFINE q == Peer(p)
  <1>1. /\ q \in Party /\ Peer(q) = p /\ p # q /\ \A r \in Party : r = p \/ r = q
        /\ Remote(p).n \in Nat /\ session[q].dh_self.n \in Nat
    BY PeerOther, KnownTypes DEF SessionState, KeyPair
  <1>2. /\ \A r \in Party : /\ session'[r].dh_self = session[r].dh_self
                            /\ session'[r].chain_key = session[r].chain_key
                            /\ session'[r].send_counter = session[r].send_counter
        /\ Remote(q)' = Remote(q) /\ Root(q)' = Root(q)
        /\ Remote(p)' = m.ephemeral /\ Carried(m) /\ m.from = q
        /\ Stays(p) \/ Follows(p)
    BY <1>1 DEF PeerStep
  <1>3. /\ Lead(q) = session[q].dh_self.n - Remote(p).n
        /\ Lead(q)' = session'[q].dh_self.n - Remote(p)'.n
        /\ Lead(p) = session[p].dh_self.n - Remote(q).n
        /\ Lead(p)' = session'[p].dh_self.n - Remote(q)'.n
    BY <1>1 DEF Lead
  <1>4. Remote(p)' \in KeyPair /\ Remote(p)'.owner = q
    BY <1>2, CarriedIs
  <1>5. Lead(p)' = Lead(p)
    BY <1>2, <1>3
  <1>6. CASE Stays(p)
    BY <1>1, <1>2, <1>3, <1>4, <1>5, <1>6 DEF Stays
  <1>7. CASE Follows(p)
    <2>1. Lead(q)' = Lead(q) - 1
      BY <1>1, <1>2, <1>3, <1>7 DEF Follows
    <2> QED
      BY <1>1, <1>2, <1>4, <1>5, <1>7, <2>1
  <1> QED
    BY <1>2, <1>6, <1>7

LEMMA PeerKeepsOwners ==
  ASSUME TypeOK, TypeOK', InStep, NEW p \in Party, NEW s, NEW m, PeerStep(p, s, m)
  PROVE  Owners'
  <1>1. \A r \in Party : /\ session'[r].dh_self = session[r].dh_self
                         /\ r # p => session'[r] = session[r] /\ Remote(r)' = Remote(r)
    BY PeerLeads DEF PeerStep
  <1>2. Remote(p)' \in KeyPair /\ Remote(p)'.owner = Peer(p) /\ sent' = sent
    BY PeerLeads DEF PeerStep
  <1>3. Remote(p)'.n >= Remote(p).n /\ Remote(p).n \in Nat
    <2>1. Remote(p).n \in Nat
      BY KnownTypes DEF KeyPair
    <2>2. Remote(p)'.n \in {Remote(p).n, Remote(p).n + 1}
      BY PeerLeads DEF Stays, Follows
    <2> QED
      BY <2>1, <2>2
  <1>4. ASSUME NEW e \in session'[p].previous_keys
        PROVE  e.chain.owner = Peer(p) /\ e.chain.n <= Remote(p)'.n
    <2>1. e \in session[p].previous_keys \/ e.chain = Remote(p)'
      BY DEF PeerStep
    <2>2. CASE e \in session[p].previous_keys
      <3>1. e.chain.owner = Peer(p) /\ e.chain.n <= Remote(p).n
        BY <2>2 DEF InStep, Owners
      <3>2. e.chain.n \in Nat
        BY <2>2, KnownTypes DEF SessionState, CachedKey, KeyPair
      <3> QED
        BY <1>2, <1>3, <3>1, <3>2 DEF KeyPair
    <2>3. CASE e.chain = Remote(p)'
      BY <1>2, <2>3 DEF KeyPair
    <2> QED
      BY <2>1, <2>2, <2>3
  <1>5. ASSUME NEW r \in Party
        PROVE  /\ session'[r].dh_self.owner = r /\ Remote(r)'.owner = Peer(r)
               /\ \A e \in session'[r].previous_keys :
                    e.chain.owner = Peer(r) /\ e.chain.n <= Remote(r)'.n
    BY <1>1, <1>2, <1>4 DEF InStep, Owners
  <1> QED
    BY <1>2, <1>5 DEF InStep, Owners

LEMMA PeerKeepsRoots ==
  ASSUME TypeOK, TypeOK', InStep, NEW p \in Party, NEW s, NEW m, PeerStep(p, s, m)
  PROVE  Roots'
  <1> DEFINE q == Peer(p)
  <1>1. /\ q \in Party /\ Peer(q) = p /\ p # q /\ \A r \in Party : r = p \/ r = q
        /\ Lead(p)' = Lead(p)
        /\ session'[p].dh_self = session[p].dh_self /\ session'[q].dh_self = session[q].dh_self
        /\ Remote(q)' = Remote(q) /\ Root(q)' = Root(q)
    BY PeerLeads
  <1>2. /\ Lead(p) \in Int /\ Lead(q) \in Int /\ Lead(p) >= 0 /\ Lead(q) >= 0
        /\ Root(p) \in Seq(Secret) /\ Root(q) \in Seq(Secret)
        /\ Len(Root(p)) \in Nat /\ Len(Root(q)) \in Nat /\ Remote(p).n \in Nat
    BY <1>1, KnownTypes, LenProperties DEF InStep, Roots, KeyPair
  <1>3. CASE Stays(p) /\ Lead(q)' = Lead(q)
    <2>1. Root(p)' = Root(p) /\ Remote(p)' = Remote(p)
      BY <1>3 DEF Stays
    <2>2. \A r \in Party : /\ Root(r)' = Root(r) /\ Remote(r)' = Remote(r)
                           /\ Lead(r)' = Lead(r) /\ session'[r].dh_self = session[r].dh_self
      BY <1>1, <1>3, <2>1
    <2> QED
      BY <2>2, PeerOther DEF InStep, Roots
  <1>4. CASE Follows(p) /\ Lead(q)' = Lead(q) - 1
    <2>1. /\ Lead(p) = 0 /\ Lead(q) > 0 /\ Remote(p)'.n = Remote(p).n + 1
          /\ Len(Root(p)') = Len(Root(p)) + 1 /\ PrefixOf(Root(p)', Root(q), Len(Root(p)'))
      BY <1>4 DEF Follows
    <2>2. /\ Len(Root(q)) = Len(Root(p)) + Lead(q)
          /\ \A j \in 1 .. Lead(q) :
               Root(q)[Len(Root(p)) + j] =
                 {[owner |-> q, n |-> Remote(p).n + j], session[p].dh_self}
      BY <1>1, <2>1 DEF InStep, Roots
    <2>3. \A j \in 1 .. Lead(q)' :
            Root(q)[Len(Root(p)') + j] =
              {[owner |-> q, n |-> Remote(p)'.n + j], session[p].dh_self}
      <3> SUFFICES ASSUME NEW j \in 1 .. Lead(q)'
                   PROVE  Root(q)[Len(Root(p)') + j] =
                            {[owner |-> q, n |-> Remote(p)'.n + j], session[p].dh_self}
        OBVIOUS
      <3>1. j \in Int /\ j + 1 \in 1 .. Lead(q)
        BY <1>2, <1>4
      <3>2. Len(Root(p)') + j = Len(Root(p)) + (j + 1)
        BY <1>2, <2>1, <3>1
      <3>3. Remote(p)'.n + j = Remote(p).n + (j + 1)
        <4>1. /\ Remote(p)'.n = Remote(p).n + 1 /\ Remote(p).n \in Int /\ j \in Int
          BY <1>2, <2>1, <3>1
        <4> QED
          BY <4>1
      <3> QED
        BY <2>2, <3>1, <3>2, <3>3
    <2>4. Len(Root(q)) = Len(Root(p)') + Lead(q)'
      BY <1>2, <1>4, <2>1, <2>2
    <2>5. Lead(q)' = 0 => PrefixOf(Root(q), Root(p)', Len(Root(q)))
      BY <1>2, <2>1, <2>4 DEF PrefixOf
    <2>6. Lead(p)' = 0 /\ Lead(q)' >= 0
      BY <1>1, <1>2, <1>4, <2>1
    <2>7. \A r \in Party : Lead(r)' >= 0 /\ (Lead(r)' = 0 \/ Lead(Peer(r))' = 0)
      BY <1>1, <2>6
    <2>8. ASSUME NEW r \in Party, Lead(Peer(r))' = 0
          PROVE  /\ PrefixOf(Root(Peer(r))', Root(r)', Len(Root(Peer(r))'))
                 /\ Len(Root(r)') = Len(Root(Peer(r))') + Lead(r)'
                 /\ \A j \in 1 .. Lead(r)' :
                      Root(r)'[Len(Root(Peer(r))') + j] =
                        {[owner |-> r, n |-> Remote(Peer(r))'.n + j], session'[Peer(r)].dh_self}
      <3>1. CASE r = q
        BY <1>1, <2>1, <2>3, <2>4, <3>1
      <3>2. CASE r = p
        <4>1. Lead(q)' = 0
          BY <2>8, <3>2
        <4>2. PrefixOf(Root(q)', Root(p)', Len(Root(q)'))
          BY <1>1, <2>5, <4>1
        <4>3. Len(Root(p)') = Len(Root(q)') + Lead(p)'
          BY <1>1, <1>2, <2>1, <2>4, <2>6, <4>1
        <4>4. \A j \in 1 .. Lead(p)' : FALSE
          BY <2>6
        <4> QED
          BY <3>2, <4>2, <4>3, <4>4
      <3> QED
        BY <1>1, <3>1, <3>2
    <2> QED
      BY <2>7, <2>8 DEF Roots
  <1> QED
    BY <1>3, <1>4, PeerLeads

(* The key pair m names and what its receiver follows afterwards.          *)
LEMMA PeerKeepsChains ==
  ASSUME TypeOK, TypeOK', InStep, Roots', NEW p \in Party, NEW s, NEW m, PeerStep(p, s, m)
  PROVE  Chains'
  <1> DEFINE q == Peer(p)
  <1>1. /\ q \in Party /\ Peer(q) = p /\ p # q /\ \A r \in Party : r = p \/ r = q
        /\ Lead(p)' = Lead(p)
        /\ \A r \in Party : /\ session'[r].dh_self = session[r].dh_self
                            /\ session'[r].chain_key = session[r].chain_key
                            /\ session'[r].send_counter = session[r].send_counter
        /\ Remote(q)' = Remote(q) /\ Root(q)' = Root(q)
        /\ Remote(p)' \in KeyPair /\ Remote(p)'.owner = q
        /\ \/ Stays(p) /\ Lead(q)' = Lead(q)
           \/ Follows(p) /\ Lead(q)' = Lead(q) - 1
    BY PeerLeads
  <1>2. /\ Carried(m) /\ m.from = q /\ sent' = sent
        /\ session'[q] = session[q] /\ Receiving(q)' = Receiving(q)
        /\ Receiving(p)'.step = session'[p].recv_counter
    BY <1>1 DEF PeerStep
  <1>3. /\ Remote(p).n \in Nat /\ Remote(q).n \in Nat /\ Remote(p)'.n \in Nat
        /\ Len(Root(p)) \in Nat /\ Len(Root(q)) \in Nat
        /\ session[p].dh_self.n \in Nat
        /\ Lead(p) = session[p].dh_self.n - Remote(q).n
    BY <1>1, KnownTypes, LenProperties DEF KeyPair, SessionState, Lead
  <1>4. ASSUME NEW n \in Nat, NEW seed, n <= session[p].dh_self.n, SeedOf(p, n, seed)
        PROVE  SeedOf(p, n, seed)'
    <2>1. CASE Stays(p)
      BY <1>1, <1>2, <1>4, <2>1 DEF SeedOf, Stays
    <2>2. CASE Follows(p)
      <3>1. n <= Remote(q).n
        BY <1>3, <1>4, <2>2 DEF Follows
      <3>2. ~(n > Remote(q)'.n) /\ (n = Remote(q)'.n => seed = Receiving(q)'.seed)
        BY <1>1, <1>2, <1>3, <1>4, <3>1 DEF SeedOf
      <3> QED
        BY <3>2 DEF SeedOf
    <2> QED
      BY <1>1, <2>1, <2>2
  <1>5. ASSUME NEW n \in Nat, NEW seed \in Seq(Secret), SeedOf(q, n, seed)
        PROVE  SeedOf(q, n, seed)'
    <2>1. CASE Stays(p)
      BY <1>1, <1>2, <1>5, <2>1 DEF SeedOf, Stays
    <2>2. CASE Follows(p)
      <3>1. /\ Remote(p)'.n = Remote(p).n + 1 /\ Root(p)' = Receiving(p)'.seed
            /\ Len(Root(p)') = Len(Root(p)) + 1 /\ PrefixOf(Root(p)', Root(q), Len(Root(p)'))
        BY <2>2 DEF Follows
      <3>2. n > Remote(p).n => PrefixOf(seed, Root(q), Len(Root(p)) + n - Remote(p).n)
        BY <1>1, <1>5 DEF SeedOf
      <3>a. /\ Remote(p)'.n = Remote(p).n + 1 /\ Len(Root(p)') = Len(Root(p)) + 1
            /\ Remote(p).n \in Int /\ Len(Root(p)) \in Int /\ n \in Int
        BY <1>3, <3>1
      <3>3. n = Remote(p)'.n => seed = Receiving(p)'.seed
        <4> SUFFICES ASSUME n = Remote(p)'.n PROVE seed = Root(p)'
          BY <3>1
        <4>1. n > Remote(p).n /\ Len(Root(p)) + n - Remote(p).n = Len(Root(p)')
          BY <3>a
        <4>2. PrefixOf(seed, Root(q), Len(Root(p)'))
          BY <3>2, <4>1
        <4>3. Root(p)' \in Seq(Secret) /\ Root(q) \in Seq(Secret)
          <5>1. Root(p)' = session'[p].root_key /\ session'[p].root_key \in RootKey
            BY <2>2 DEF TypeOK, SessionState, Root, PeerStep, Follows
          <5> QED
            BY <1>1, <5>1, KnownTypes DEF RootKey
        <4> QED
          BY <1>5, <3>1, <4>2, <4>3, PrefixEqual
      <3>4. n > Remote(p)'.n => PrefixOf(seed, Root(q)', Len(Root(p)') + n - Remote(p)'.n)
        <4> SUFFICES ASSUME n > Remote(p)'.n
                     PROVE  PrefixOf(seed, Root(q), Len(Root(p)') + n - Remote(p)'.n)
          BY <1>1
        <4>1. n > Remote(p).n
          BY <1>3, <3>1
        <4>2. Len(Root(p)) + n - Remote(p).n = Len(Root(p)') + n - Remote(p)'.n
          <5>1. \A a, b, c \in Int : a + b - c = (a + 1) + b - (c + 1)
            OBVIOUS
          <5>2. Len(Root(p)') + n - Remote(p)'.n = (Len(Root(p)) + 1) + n - (Remote(p).n + 1)
            BY <3>a, Zenon
          <5>3. Len(Root(p)) + n - Remote(p).n = (Len(Root(p)) + 1) + n - (Remote(p).n + 1)
            BY <3>a, <5>1, Zenon
          <5> QED
            BY <5>2, <5>3, Zenon
        <4> QED
          BY <3>2, <4>1, <4>2
      <3> QED
        BY <1>1, <3>3, <3>4 DEF SeedOf
    <2> QED
      BY <1>1, <2>1, <2>2
  <1>6. ASSUME NEW r \in Party
        PROVE  /\ session'[r].chain_key.step = session'[r].send_counter
               /\ Receiving(r)'.step = session'[r].recv_counter
               /\ SeedOf(r, session[r].dh_self.n, session[r].chain_key.seed)'
    <2>1. /\ session[r].chain_key.step = session[r].send_counter
          /\ Receiving(r).step = session[r].recv_counter
          /\ SeedOf(r, session[r].dh_self.n, session[r].chain_key.seed)
      BY DEF InStep, Chains
    <2>2. session[r].dh_self.n \in Nat /\ session[r].chain_key.seed \in Seq(Secret)
      BY KnownTypes DEF SessionState, KeyPair, ChainKey, RootKey
    <2>3. \A n \in Nat : \A seed \in Seq(Secret) :
            n <= session[r].dh_self.n /\ SeedOf(r, n, seed) => SeedOf(r, n, seed)'
      BY <1>1, <1>4, <1>5
    <2>4. \A n, seed : n = session'[r].dh_self.n /\ seed = session'[r].chain_key.seed
                       => SeedOf(r, n, seed)'
      BY <1>1, <1>3, <2>1, <2>2, <2>3
    <2> QED
      BY <1>1, <1>2, <2>1, <2>4 DEF SeedOf
  <1>7. ASSUME NEW x \in sent'
        PROVE  /\ x.key.step = x.counter
               /\ x.ephemeral.n <= session'[x.from].dh_self.n
               /\ SeedOf(x.from, x.ephemeral.n, x.key.seed)'
    <2>1. /\ x.from \in Party /\ x.ephemeral.n \in Nat /\ x.key.seed \in Seq(Secret)
          /\ x.key.step = x.counter
          /\ x.ephemeral.n <= session[x.from].dh_self.n
          /\ SeedOf(x.from, x.ephemeral.n, x.key.seed)
      BY <1>2, KnownTypes DEF InStep, Chains, KeyPair
    <2>2. SeedOf(x.from, x.ephemeral.n, x.key.seed)'
      <3>1. CASE x.from = p
        BY <1>4, <2>1, <3>1
      <3>2. CASE x.from = q
        BY <1>5, <2>1, <3>2
      <3> QED
        BY <1>1, <2>1, <3>1, <3>2
    <2> QED
      BY <1>1, <2>1, <2>2
  <1>8. ASSUME NEW e \in session'[p].previous_keys
        PROVE  /\ e.key.step = e.counter
               /\ e.chain = Remote(p)' =>
                    /\ e.key.seed = Receiving(p)'.seed
                    /\ e.counter < session'[p].recv_counter
    <2>1. CASE e \in session[p].previous_keys
      <3>1. /\ e.key.step = e.counter /\ e.chain.n <= Remote(p).n
            /\ e.chain = Remote(p) => /\ e.key.seed = Receiving(p).seed
                                      /\ e.counter < session[p].recv_counter
        BY <2>1 DEF InStep, Chains, Owners
      <3>2. /\ e.counter \in Nat /\ e.chain.n \in Nat /\ session[p].recv_counter \in Nat
            /\ session'[p].recv_counter \in Nat
        BY <2>1, KnownTypes DEF TypeOK, SessionState, CachedKey, KeyPair
      <3>3. CASE Stays(p)
        BY <3>1, <3>2, <3>3 DEF Stays
      <3>4. CASE Follows(p)
        <4>1. e.chain # Remote(p)'
          BY <1>3, <3>1, <3>2, <3>4 DEF Follows
        <4> QED
          BY <3>1, <4>1
      <3> QED
        BY <1>1, <3>3, <3>4
    <2>2. CASE e \notin session[p].previous_keys
      <3>1. /\ e.counter \in Skipped(s, m.counter)
            /\ e.key = [seed |-> m.key.seed, step |-> e.counter]
            /\ Receiving(p)'.seed = m.key.seed
            /\ session'[p].recv_counter = m.counter + 1
        BY <2>2 DEF PeerStep
      <3>2. e.counter \in Int /\ m.counter \in Nat /\ e.counter < m.counter
        <4>1. s.recv_counter \in Int /\ m.counter \in Nat
          BY <1>2, CarriedIs DEF PeerStep, Reached, SessionState
        <4> QED
          BY <3>1, <4>1 DEF Skipped
      <3> QED
        BY <3>1, <3>2
    <2> QED
      BY <2>1, <2>2
  <1>9. ASSUME NEW e \in session'[q].previous_keys
        PROVE  /\ e.key.step = e.counter
               /\ e.chain = Remote(q)' =>
                    /\ e.key.seed = Receiving(q)'.seed
                    /\ e.counter < session'[q].recv_counter
    BY <1>1, <1>2, <1>9 DEF InStep, Chains
  <1> QED
    BY <1>1, <1>6, <1>7, <1>8, <1>9 DEF Chains

LEMMA PeerKeepsCounters ==
  ASSUME TypeOK, TypeOK', InStep, NEW p \in Party, NEW s, NEW m, PeerStep(p, s, m)
  PROVE  Counters'
  <1>1. \A r \in Party : /\ session'[r].dh_self = session[r].dh_self
                         /\ session'[r].send_counter = session[r].send_counter
    BY PeerLeads
  <1>2. sent' = sent
    BY DEF PeerStep
  <1> QED
    BY <1>1, <1>2, KnownTypes DEF InStep, Counters

LEMMA PeerKeepsCacheSound ==
  ASSUME TypeOK, TypeOK', InStep, Owners', Chains', NEW p \in Party, NEW s, NEW m, PeerStep(p, s, m)
  PROVE  CacheSound'
  <1> SUFFICES ASSUME NEW r \in Party, NEW e \in session'[r].previous_keys, NEW x \in sent',
                      x.ephemeral = e.chain, x.counter = e.counter
               PROVE  x.key = e.key
    BY DEF CacheSound
  <1>1. /\ sent' = sent /\ Remote(p)' = m.ephemeral
        /\ \A o \in Party : o # p => session'[o] = session[o]
    BY DEF PeerStep
  <1>2. CASE e \in session[r].previous_keys
    BY <1>1, <1>2 DEF InStep, CacheSound
  <1>3. CASE e \notin session[r].previous_keys
    <2>1. r = p
      BY <1>1, <1>3
    <2>2. e.chain = m.ephemeral
      BY <1>3, <2>1 DEF PeerStep
    <2> QED
      BY <1>1, <2>1, <2>2, FollowedKeys
  <1> QED
    BY <1>2, <1>3

(* What is recorded of the message that reached p, for the invariant.      *)
Recorded(p, s, m) ==
  \E intact \in BOOLEAN :
    /\ IF intact THEN m \in sent ELSE "damage" \in Faults
    /\ log'[p] = Record(log[p], m, intact, Authentic(s, m, intact), ~IsOld(s, m))

LEMMA RecordedIs ==
  ASSUME TypeOK, NEW p \in Party, NEW s, NEW m, Recorded(p, s, m)
  PROVE  \E intact \in BOOLEAN :
           /\ IF intact THEN m \in sent ELSE "damage" \in Faults
           /\ \A x : /\ x \in log'[p].tried <=> x \in log[p].tried \/ (intact /\ x = m)
                     /\ x \in log'[p].damaged <=> x \in log[p].damaged \/ (~intact /\ x = m)
                     /\ x \in log'[p].accepted <=>
                          x \in log[p].accepted \/ (Authentic(s, m, intact) /\ x = m)
                     /\ x \in log'[p].spoiled <=>
                          \/ x \in log[p].spoiled
                          \/ ~Authentic(s, m, intact) /\ ~IsOld(s, m) /\ x = m
  <1>1. PICK intact \in BOOLEAN :
          /\ IF intact THEN m \in sent ELSE "damage" \in Faults
          /\ log'[p] = Record(log[p], m, intact, Authentic(s, m, intact), ~IsOld(s, m))
    BY DEF Recorded
  <1> DEFINE h == log[p]
             accepts == Authentic(s, m, intact)
             fresh == ~IsOld(s, m)
             t == IF intact THEN h.tried \cup {m} ELSE h.tried
             d == IF intact THEN h.damaged ELSE h.damaged \cup {m}
             a == IF accepts THEN h.accepted \cup {m} ELSE h.accepted
             c == IF accepts /\ fresh THEN h.direct \cup {m} ELSE h.direct
             r == IF accepts /\ m \in h.accepted THEN h.replayed \cup {m} ELSE h.replayed
             l == IF ~accepts /\ fresh THEN h.spoiled \cup {m} ELSE h.spoiled
  <1>2. log'[p] = [h EXCEPT !.tried = t, !.damaged = d, !.accepted = a,
                            !.direct = c, !.replayed = r, !.spoiled = l]
    BY <1>1, Zenon DEF Record
  <1>3. \A x : /\ x \in t <=> x \in h.tried \/ (intact /\ x = m)
               /\ x \in d <=> x \in h.damaged \/ (~intact /\ x = m)
               /\ x \in a <=> x \in h.accepted \/ (accepts /\ x = m)
               /\ x \in l <=> x \in h.spoiled \/ (~accepts /\ fresh /\ x = m)
    BY Zenon
  <1>4. h \in History
    BY DEF TypeOK
  <1> HIDE DEF h, t, d, a, c, r, l
  <1>5. log'[p].tried = t /\ log'[p].damaged = d /\ log'[p].accepted = a /\ log'[p].spoiled = l
    BY <1>2, <1>4 DEF History
  <1> QED
    BY <1>1, <1>3, <1>5, Zenon DEF h

LEMMA PeerKeepsPassed ==
  ASSUME TypeOK, InStep, NEW p \in Party, NEW s, NEW m, PeerStep(p, s, m), Recorded(p, s, m)
  PROVE  Passed'
  <1>1. /\ Carried(m) /\ Reached(p, s, m) /\ Remote(p)' = m.ephemeral
        /\ \A r \in Party : r # p =>
             session'[r] = session[r] /\ log'[r] = log[r] /\ Remote(r)' = Remote(r)
        /\ session'[p].recv_counter = IF IsOld(s, m) THEN s.recv_counter ELSE m.counter + 1
        /\ \/ Stays(p) /\ s.recv_counter = session[p].recv_counter
           \/ Follows(p) /\ s.recv_counter = 0
        /\ \A e \in session[p].previous_keys : \E f \in session'[p].previous_keys :
             f.chain = e.chain /\ f.counter = e.counter
        /\ ~IsOld(s, m) => \A n \in Skipped(s, m.counter) : \E f \in session'[p].previous_keys :
             f.chain = m.ephemeral /\ f.counter = n
    BY DEF PeerStep
  <1>2. /\ log[p].accepted \subseteq log'[p].accepted /\ log[p].spoiled \subseteq log'[p].spoiled
        /\ ~IsOld(s, m) => m \in log'[p].accepted \cup log'[p].spoiled
    BY RecordedIs
  <1>3. /\ s.recv_counter \in Nat /\ m.counter \in Nat /\ session[p].recv_counter \in Nat
    BY <1>1, CarriedIs, KnownTypes DEF Reached, SessionState
  <1>4. ASSUME NEW n \in 0 .. session'[p].recv_counter - 1
        PROVE  \/ \E a \in log'[p].accepted \cup log'[p].spoiled :
                    a.ephemeral = Remote(p)' /\ a.counter = n
               \/ \E e \in session'[p].previous_keys : e.chain = Remote(p)' /\ e.counter = n
    <2>1. n \in Nat /\ n < session'[p].recv_counter
      BY <1>1, <1>3
    <2>2. CASE n < s.recv_counter
      <3>1. Stays(p) /\ s.recv_counter = session[p].recv_counter
        BY <1>1, <2>1, <2>2
      <3>2. Remote(p)' = Remote(p) /\ n \in 0 .. session[p].recv_counter - 1
        BY <1>3, <2>1, <2>2, <3>1 DEF Stays
      <3>3. \/ \E a \in log[p].accepted \cup log[p].spoiled :
                 a.ephemeral = Remote(p) /\ a.counter = n
            \/ \E e \in session[p].previous_keys : e.chain = Remote(p) /\ e.counter = n
        BY <3>2 DEF InStep, Passed
      <3> QED
        BY <1>1, <1>2, <3>2, <3>3
    <2>3. CASE ~(n < s.recv_counter)
      <3>1. ~IsOld(s, m) /\ n <= m.counter
        BY <1>1, <1>3, <2>1, <2>3
      <3>2. CASE n = m.counter
        BY <1>1, <1>2, <3>1, <3>2
      <3>3. CASE n # m.counter
        <4>1. n \in Skipped(s, m.counter)
          BY <1>3, <2>1, <2>3, <3>1, <3>3 DEF Skipped
        <4> QED
          BY <1>1, <3>1, <4>1
      <3> QED
        BY <3>2, <3>3
    <2> QED
      BY <2>2, <2>3
  <1> QED
    BY <1>1, <1>4 DEF InStep, Passed

(* Two messages of the chain an end follows with one counter are one.      *)
LEMMA OnePerPosition ==
  ASSUME TypeOK, InStep, KeysDistinct(sent), NEW p \in Party, NEW m \in sent, NEW x \in sent,
         m.from = Peer(p), x.from = Peer(p),
         m.ephemeral = Remote(p), x.ephemeral = Remote(p), m.counter = x.counter
  PROVE  m = x
  <1>1. /\ m.key \in ChainKey /\ x.key \in ChainKey
        /\ m.key.step = m.counter /\ x.key.step = x.counter
        /\ SeedOf(Peer(p), m.ephemeral.n, m.key.seed)
        /\ SeedOf(Peer(p), x.ephemeral.n, x.key.seed)
    BY KnownTypes DEF InStep, Chains
  <1>2. m.key.seed = Receiving(p).seed /\ x.key.seed = Receiving(p).seed
    BY <1>1, PeerOther DEF SeedOf
  <1>3. m.key = x.key
    BY <1>1, <1>2 DEF ChainKey
  <1> QED
    BY <1>3 DEF KeysDistinct

(* What arrives as it was made is read, but for a signature, unless its    *)
(* position was spent before: on it, or on a damaged message.              *)
Spent(p, m) ==
  \/ m \in log[p].accepted
  \/ m \in log[p].spoiled /\ Unsigned(p, m)
  \/ \E a \in log[p].damaged \cap log[p].spoiled : SamePosition(a, m)

LEMMA Readable ==
  ASSUME TypeOK, InStep, KeysDistinct(sent), NEW p \in Party, NEW s, NEW m \in sent,
         PeerStep(p, s, m)
  PROVE  /\ session'[p].peer_sig_known = s.peer_sig_known
         /\ ~IsOld(s, m) => m.key \in MessageKeys(s, m)
         /\ IsOld(s, m) /\ ~Spent(p, m) => m.key \in MessageKeys(s, m)
  <1>1. /\ m.from = Peer(p) /\ Reached(p, s, m) /\ session'[p] = AfterKey(s, m)
        /\ Remote(p)' = m.ephemeral
        /\ \/ Stays(p) /\ s.recv_counter = session[p].recv_counter
           \/ Follows(p) /\ s.recv_counter = 0
    BY DEF PeerStep
  <1>2. /\ s \in SessionState /\ s.recv_counter \in Nat /\ m.counter \in Nat
        /\ m.key \in ChainKey /\ m.key.step = m.counter
        /\ s.dh_remote = m.ephemeral /\ s.previous_keys = session[p].previous_keys
        /\ s.receiving_chain_key.seed = m.key.seed /\ s.receiving_chain_key.step = s.recv_counter
    BY <1>1, KnownTypes DEF Reached, SessionState, InStep, Chains
  <1>3. session'[p].peer_sig_known = s.peer_sig_known
    <2>1. CASE IsOld(s, m)
      BY <1>1, <2>1 DEF AfterKey
    <2>2. CASE ~IsOld(s, m)
      <3>1. m.counter >= s.recv_counter /\ AfterKey(s, m) = FastForward(s, m.counter)
        BY <1>2, <2>2 DEF IsOld, AfterKey
      <3> QED
        BY <1>1, <1>2, <3>1, FastForwardIs
    <2> QED
      BY <2>1, <2>2
  <1>4. ASSUME ~IsOld(s, m) PROVE m.key \in MessageKeys(s, m)
    <2>1. m.counter >= s.recv_counter
      BY <1>2, <1>4 DEF IsOld
    <2>2. /\ ChainAt(s, m.counter) \in ChainKey
          /\ ChainAt(s, m.counter).seed = s.receiving_chain_key.seed
          /\ ChainAt(s, m.counter).step = s.receiving_chain_key.step + (m.counter - s.recv_counter)
      BY <1>2, <2>1, ChainAtType
    <2>3. ChainAt(s, m.counter).seed = m.key.seed /\ ChainAt(s, m.counter).step = m.key.step
      BY <1>2, <2>2
    <2>4. ChainAt(s, m.counter) = m.key
      BY <1>2, <2>2, <2>3 DEF ChainKey
    <2> QED
      BY <1>4, <2>4 DEF MessageKeys, KdfChain
  <1>5. ASSUME IsOld(s, m), ~Spent(p, m)
        PROVE  m.key \in MessageKeys(s, m)
    <2>1. Stays(p) /\ m.counter \in 0 .. session[p].recv_counter - 1
      <3>1. m.counter < s.recv_counter
        BY <1>5 DEF IsOld
      <3>2. Stays(p) /\ s.recv_counter = session[p].recv_counter
        BY <1>1, <1>2, <3>1
      <3> QED
        BY <1>2, <3>1, <3>2
    <2>2. m.ephemeral = Remote(p)
      BY <1>1, <2>1 DEF Stays
    <2>3. \/ \E a \in log[p].accepted \cup log[p].spoiled :
               a.ephemeral = Remote(p) /\ a.counter = m.counter
          \/ \E e \in session[p].previous_keys : e.chain = Remote(p) /\ e.counter = m.counter
      BY <2>1 DEF InStep, Passed
    <2>4. ASSUME NEW a \in log[p].accepted \cup log[p].spoiled,
                 a.ephemeral = Remote(p), a.counter = m.counter
          PROVE  FALSE
      <3>1. CASE a \in log[p].spoiled /\ a \in log[p].damaged
        BY <1>5, <2>2, <2>4, <3>1 DEF Spent, SamePosition
      <3>2. CASE a \in log[p].accepted \/ (a \in log[p].tried /\ Unsigned(p, a))
        <4>1. a \in sent /\ a.from = Peer(p)
          BY <3>2 DEF InStep, Outcomes
        <4>2. a = m
          BY <1>1, <2>2, <2>4, <4>1, OnePerPosition
        <4> QED
          BY <1>5, <2>4, <3>2, <4>2 DEF Spent
      <3> QED
        BY <2>4, <3>1, <3>2 DEF InStep, Outcomes
    <2>5. PICK e \in session[p].previous_keys : e.chain = m.ephemeral /\ e.counter = m.counter
      BY <2>2, <2>3, <2>4
    <2>6. m.key = e.key
      BY <2>5 DEF InStep, CacheSound
    <2> QED
      BY <1>2, <1>5, <2>5, <2>6 DEF MessageKeys, Cached
  <1> QED
    BY <1>3, <1>4, <1>5

LEMMA PeerKeepsOutcomes ==
  ASSUME TypeOK, Closed, InStep, KeysDistinct(sent), NEW p \in Party, NEW s, NEW m,
         PeerStep(p, s, m), Recorded(p, s, m)
  PROVE  Outcomes' /\ FirstDeliveryAccepted'
  <1>1. PICK intact \in BOOLEAN :
          /\ IF intact THEN m \in sent ELSE "damage" \in Faults
          /\ \A x : /\ x \in log'[p].tried <=> x \in log[p].tried \/ (intact /\ x = m)
                    /\ x \in log'[p].damaged <=> x \in log[p].damaged \/ (~intact /\ x = m)
                    /\ x \in log'[p].accepted <=>
                         x \in log[p].accepted \/ (Authentic(s, m, intact) /\ x = m)
                    /\ x \in log'[p].spoiled <=>
                         \/ x \in log[p].spoiled
                         \/ ~Authentic(s, m, intact) /\ ~IsOld(s, m) /\ x = m
    BY RecordedIs
  <1>2. /\ m.from = Peer(p) /\ sent' = sent
        /\ p \in open => session'[p].peer_sig_known = session[p].peer_sig_known
        /\ \A r \in Party : r # p => session'[r] = session[r] /\ log'[r] = log[r]
    BY DEF PeerStep
  <1>3. ASSUME log[p] # NoHistory
        PROVE  session'[p].peer_sig_known = session[p].peer_sig_known
    BY <1>2, <1>3 DEF Closed
  <1>4. /\ \A x \in log[p].tried \cup log[p].accepted : x \in sent /\ x.from = Peer(p)
        /\ \A x \in log[p].spoiled :
             x \in log[p].damaged \/ (x \in log[p].tried /\ Unsigned(p, x))
        /\ \A x \in log[p].tried :
             \/ x \in log[p].accepted \/ Unsigned(p, x)
             \/ \E a \in log[p].damaged \cap log[p].spoiled : SamePosition(a, x)
    BY DEF InStep, Outcomes, FirstDeliveryAccepted, Unsigned
  <1> DEFINE unsigned(x) == x.mode = VERIFIABLE /\ ~session'[p].peer_sig_known
  <1>5. \A x : log[p] # NoHistory => (Unsigned(p, x) <=> unsigned(x))
    BY <1>3 DEF Unsigned
  <1>6. /\ log[p].tried # {} => log[p] # NoHistory
        /\ log[p].spoiled # {} => log[p] # NoHistory
        /\ log[p].accepted # {} => log[p] # NoHistory
    BY DEF NoHistory
  <1>7. Authentic(s, m, intact) => intact
    BY DEF Authentic
  <1>8. ASSUME intact, ~Authentic(s, m, intact)
        PROVE  \/ unsigned(m)
               \/ /\ IsOld(s, m)
                  /\ \/ m \in log[p].accepted
                     \/ \E a \in log[p].damaged \cap log[p].spoiled : SamePosition(a, m)
    <2>1. /\ session'[p].peer_sig_known = s.peer_sig_known
          /\ ~IsOld(s, m) => m.key \in MessageKeys(s, m)
          /\ IsOld(s, m) /\ ~Spent(p, m) => m.key \in MessageKeys(s, m)
      BY <1>1, <1>8, Readable
    <2>2. CASE m.key \in MessageKeys(s, m)
      BY <1>8, <2>1, <2>2 DEF Authentic
    <2>3. CASE IsOld(s, m) /\ Spent(p, m)
      <3>1. m \in log[p].spoiled => log[p] # NoHistory
        BY <1>6
      <3> QED
        BY <1>5, <2>3, <3>1 DEF Spent
    <2> QED
      BY <2>1, <2>2, <2>3
  <1> HIDE DEF unsigned
  <1>9. \A x \in log'[p].tried \cup log'[p].accepted : x \in sent' /\ x.from = Peer(p)
    BY <1>1, <1>2, <1>4, <1>7
  <1>10. ASSUME NEW x \in log'[p].spoiled
         PROVE  x \in log'[p].damaged \/ (x \in log'[p].tried /\ unsigned(x))
    <2>1. CASE x \in log[p].spoiled
      BY <1>1, <1>4, <1>5, <1>6, <2>1
    <2>2. CASE x = m /\ ~Authentic(s, m, intact) /\ ~IsOld(s, m)
      BY <1>1, <1>8, <2>2
    <2> QED
      BY <1>1, <1>10, <2>1, <2>2
  <1>11. ASSUME NEW x \in log'[p].tried
         PROVE  \/ x \in log'[p].accepted \/ unsigned(x)
                \/ \E a \in log'[p].damaged \cap log'[p].spoiled : SamePosition(a, x)
    <2>1. log[p].damaged \cap log[p].spoiled \subseteq log'[p].damaged \cap log'[p].spoiled
      BY <1>1
    <2>2. CASE x \in log[p].tried
      BY <1>1, <1>4, <1>5, <1>6, <2>1, <2>2
    <2>3. CASE x = m /\ intact
      BY <1>1, <1>8, <2>1, <2>3
    <2> QED
      BY <1>1, <1>11, <2>2, <2>3
  <1>12. ASSUME NEW r \in Party, r # p
         PROVE  /\ \A x \in log'[r].tried \cup log'[r].accepted : x \in sent' /\ x.from = Peer(r)
                /\ \A x \in log'[r].spoiled :
                     \/ x \in log'[r].damaged
                     \/ x \in log'[r].tried /\ x.mode = VERIFIABLE /\ ~session'[r].peer_sig_known
                /\ \A x \in log'[r].tried :
                     \/ x \in log'[r].accepted
                     \/ x.mode = VERIFIABLE /\ ~session'[r].peer_sig_known
                     \/ \E a \in log'[r].damaged \cap log'[r].spoiled : SamePosition(a, x)
    <2>1. session'[r] = session[r] /\ log'[r] = log[r]
      BY <1>2, <1>12
    <2> QED
      BY <1>2, <2>1 DEF InStep, Outcomes, Unsigned, FirstDeliveryAccepted
  <1> QED
    BY <1>9, <1>10, <1>11, <1>12
       DEF Outcomes, FirstDeliveryAccepted, Unsigned, SamePosition, unsigned

LEMMA PeerKeepsInStep ==
  ASSUME TypeOK, TypeOK', Closed, InStep, KeysDistinct(sent),
         NEW p \in Party, NEW s, NEW m, PeerStep(p, s, m), Recorded(p, s, m)
  PROVE  InStep'
  <1>1. /\ Handshaken' /\ Owners' /\ Roots' /\ Counters'
        /\ Outcomes' /\ FirstDeliveryAccepted'
    BY PeerKeepsHandshaken, PeerKeepsOwners, PeerKeepsRoots, PeerKeepsCounters, PeerKeepsOutcomes
  <1>2. Chains'
    BY <1>1, PeerKeepsChains
  <1>3. CacheSound' /\ Passed'
    BY <1>1, <1>2, PeerKeepsCacheSound, PeerKeepsPassed
  <1> QED
    BY <1>1, <1>2, <1>3 DEF InStep

-----------------------------------------------------------------------------
(* The invariant holds of the first state and is kept by every step.       *)
LEMMA InitInStep == Init => InStep
  <1> SUFFICES ASSUME Init PROVE InStep
    OBVIOUS
  <1> DEFINE first == HandshakeRoot(Root0(EK, pending), EK)
  <1>1. /\ session[Initiator].session_id = Root0(EK, pending)
        /\ session[Initiator].dh_self = EK /\ session[Initiator].dh_remote = SPK
        /\ session[Initiator].root_key = first.root /\ session[Initiator].chain_key = first.chain
        /\ session[Initiator].receiving_chain_key = NoKey
        /\ session[Initiator].send_counter = 0 /\ session[Initiator].recv_counter = 0
        /\ session[Initiator].previous_keys = {}
        /\ session[Responder].dh_self = SPK /\ session[Responder].chain_key = NoKey
        /\ session[Responder].send_counter = 0 /\ session[Responder].recv_counter = 0
        /\ session[Responder].previous_keys = {}
    <2>1. session[Initiator] = InitiatorSession(pending) /\ session[Responder] = NoSession
      BY PartiesDiffer DEF Init, Party
    <2>2. InitiatorSession(pending) =
            NewSession(Root0(EK, pending), first.root, first.chain, NoKey, EK, SPK, TRUE)
      BY DEF InitiatorSession
    <2> HIDE DEF first
    <2> QED
      BY <2>1, <2>2 DEF NoSession, NewSession
  <1>2. /\ open = {Initiator} /\ sent = {} /\ pending \in BOOLEAN /\ Responder \notin open
        /\ \A p \in Party : log[p] = NoHistory
    BY PartiesDiffer DEF Init
  <1>3. FirstRoot = first
    BY <1>1 DEF FirstRoot
  <1>4. first.chain.step = 0 /\ first.root \in Seq(Secret) /\ NoKey.step = 0
    <2>1. first.root \in RootKey
      BY <1>2, FirstKeysType, HandshakeRootType
    <2> QED
      BY <2>1 DEF HandshakeRoot, KdfRoot, NoKey, RootKey
  <1> HIDE DEF first
  <1>5. /\ Root(Initiator) = first.root /\ Root(Responder) = first.root
        /\ Remote(Initiator) = SPK /\ Remote(Responder) = EK
        /\ Receiving(Initiator) = NoKey /\ Receiving(Responder) = first.chain
    BY <1>1, <1>2, <1>3 DEF Root, Remote, Receiving
  <1>6. /\ EK \in KeyPair /\ SPK \in KeyPair /\ EK.n = 1 /\ SPK.n = 1
        /\ EK.owner = Initiator /\ SPK.owner = Responder
        /\ Peer(Initiator) = Responder /\ Peer(Responder) = Initiator
    BY FirstKeysType, PartiesDiffer DEF EK, SPK, Peer
  <1>7. \A p \in Party : /\ Lead(p) = 0 /\ Root(p) = first.root /\ Peer(p) \in Party
                         /\ session[p].dh_self.n = Remote(Peer(p)).n
                         /\ session[p].chain_key = Receiving(Peer(p))
                         /\ session[p].send_counter = 0 /\ session[p].recv_counter = 0
                         /\ session[p].previous_keys = {}
                         /\ session[p].chain_key.step = 0 /\ Receiving(p).step = 0
    BY <1>1, <1>4, <1>5, <1>6 DEF Lead, Party
  <1>8. Handshaken /\ Owners
    BY <1>1, <1>2, <1>5, <1>6, <1>7 DEF Handshaken, Owners, Party
  <1>9. Roots
    <2>1. PrefixOf(first.root, first.root, Len(first.root)) /\ Len(first.root) \in Nat
      BY <1>4, PrefixWhole, LenProperties
    <2> QED
      BY <1>7, <2>1 DEF Roots
  <1>10. Chains
    <2>1. \A p \in Party : SeedOf(p, session[p].dh_self.n, session[p].chain_key.seed)
      <3>1. \A p \in Party : Remote(p).n \in Nat
        BY <1>5, <1>6 DEF Party, KeyPair
      <3> QED
        BY <1>7, <3>1 DEF SeedOf
    <2> QED
      BY <1>2, <1>7, <2>1 DEF Chains
  <1>11. Counters /\ CacheSound /\ Passed /\ Outcomes /\ FirstDeliveryAccepted
    BY <1>2, <1>7
       DEF Counters, CacheSound, Passed, Outcomes, FirstDeliveryAccepted, NoHistory
  <1> QED
    BY <1>8, <1>9, <1>10, <1>11 DEF InStep

LEMMA StutterKeepsInStep == InStep /\ UNCHANGED vars => InStep'
  <1> SUFFICES ASSUME InStep, UNCHANGED vars PROVE InStep'
    OBVIOUS
  <1>1. session' = session /\ open' = open /\ pending' = pending /\ sent' = sent /\ log' = log
    BY DEF vars
  <1>2. \A r : Root(r)' = Root(r) /\ Remote(r)' = Remote(r) /\ Receiving(r)' = Receiving(r)
    BY <1>1 DEF Root, Remote, Receiving, FirstRoot
  <1>3. \A r : Lead(r)' = Lead(r)
    BY <1>1, <1>2 DEF Lead
  <1>4. Handshaken' /\ Owners' /\ Roots'
    BY <1>1, <1>2, <1>3 DEF InStep, Handshaken, Owners, Roots
  <1>5. \A r, n, seed : SeedOf(r, n, seed)' <=> SeedOf(r, n, seed)
    BY <1>2 DEF SeedOf
  <1>6. Chains'
    BY <1>1, <1>2, <1>5 DEF InStep, Chains, SeedOf
  <1>7. Counters' /\ CacheSound' /\ Passed' /\ Outcomes' /\ FirstDeliveryAccepted'
    BY <1>1, <1>2, <1>3 DEF InStep, Counters, CacheSound, Passed, Outcomes, Unsigned,
                            FirstDeliveryAccepted, SamePosition
  <1> QED
    BY <1>4, <1>6, <1>7 DEF InStep

LEMMA ReceiveIsRecorded ==
  ASSUME Calm, TypeOK, Closed, InStep, NEW p \in Party, NEW m, NEW intact \in BOOLEAN,
         Arrives(m, intact), Receive(p, m, intact), ~intact => "damage" \in Faults
  PROVE  \E s : PeerStep(p, s, m) /\ Recorded(p, s, m)
  BY ReceiveIsPeer DEF Recorded, Arrives

LEMMA InStepStep ==
  ASSUME Calm, TypeOK, TypeOK', Closed, KeysInv(session, sent), InStep, [Next]_vars
  PROVE  InStep'
  <1>1. ASSUME NEW p \in Party, NEW mode \in Mode, Send(p, mode) PROVE InStep'
    BY <1>1, SendIsOwn, OwnKeepsInStep
  <1>2. ASSUME NEW p \in Party, SendRaises(p) PROVE InStep'
    BY <1>2, RaisesIsOwn, OwnKeepsInStep
  <1>3. ASSUME NEW p \in Party, NEW m, NEW intact \in BOOLEAN,
               Arrives(m, intact), Receive(p, m, intact), ~intact => "damage" \in Faults
        PROVE  InStep'
    <2>1. \E s : PeerStep(p, s, m) /\ Recorded(p, s, m)
      BY <1>3, ReceiveIsRecorded
    <2>2. KeysDistinct(sent)
      BY DEF KeysInv
    <2> QED
      BY <2>1, <2>2, PeerKeepsInStep
  <1>4. CASE UNCHANGED vars
    BY <1>4, StutterKeepsInStep
  <1> QED
    BY <1>1, <1>2, <1>3, <1>4 DEF Next, ReceiveIntact, ReceiveDamaged, Arrives

LEMMA InStepHolds == ASSUME Calm PROVE Spec => [](TypeOK /\ Closed /\ InStep)
  <1>1. TypeOK /\ TypeOK' /\ Closed /\ KeysInv(session, sent) /\ InStep /\ [Next]_vars => InStep'
    BY InStepStep
  <1>2. TypeOK /\ Closed /\ KeysInv(session, sent) /\ [Next]_vars => KeysInv(session, sent)'
    BY KeysStep DEF KeysInv, KeysKnown, KeysSpent, KeysDistinct, Known, SeedKnown
  <1> QED
    BY <1>1, <1>2, InitTypeOK, TypeOKStep, InitClosed, ClosedStep, InitKeys, InitInStep, PTL
       DEF Spec

-----------------------------------------------------------------------------
(* In step with its peer, each end can read what reaches it (for every     *)
(* interval, bound and choice of the faults of Calm: _ratchet_send,        *)
(* _ratchet_receive, process_incoming_message).                            *)
THEOREM StaysInStep == ASSUME Calm PROVE Spec => []InStep
  BY InStepHolds, PTL

(* A message that reaches its receiver undamaged is accepted, but for a    *)
(* signature the receiver cannot verify, for every bound, interval and     *)
(* order of delivery within a chain (process_incoming_message).            *)
THEOREM Accepts == ASSUME Calm PROVE Spec => []FirstDeliveryAccepted
  <1>1. InStep => FirstDeliveryAccepted
    BY DEF InStep
  <1> QED
    BY <1>1, InStepHolds, PTL

(* The key cached for a position is the key of the message made there,     *)
(* whether it was made before the key was cached or after                  *)
(* (SessionState.previous_keys).                                           *)
THEOREM CacheIsSound == ASSUME Calm PROVE Spec => []CacheSound
  <1>1. InStep => CacheSound
    BY DEF InStep
  <1> QED
    BY <1>1, InStepHolds, PTL

-----------------------------------------------------------------------------
(***************************************************************************)
(* The two ends implement the delivery window.                             *)
(***************************************************************************)
MadeOf(p) == {PositionOf(m) : m \in {x \in sent : x.from = p}}
OutOf(p) == [chain |-> ChainOf(session[p].dh_self), n |-> session[p].send_counter]
SkippedOf(p) == {[chain |-> ChainOf(e.chain), n |-> e.counter] : e \in session[p].previous_keys}
WindowOf(p) ==
  [chain |-> ChainOf(session[p].dh_remote), next |-> session[p].recv_counter,
   skipped |-> SkippedOf(p)]
ReadOf(p) == {PositionOf(m) : m \in log[p].accepted}
SpoiledOf(p) == {PositionOf(m) : m \in log[p].spoiled}

SameMade == \A r \in Party : MadeOf(r)' = MadeOf(r) /\ OutOf(r)' = OutOf(r)
SameKnown(r) == WindowOf(r)' = WindowOf(r) /\ ReadOf(r)' = ReadOf(r) /\ SpoiledOf(r)' = SpoiledOf(r)

LEMMA MapsToMake ==
  ASSUME NEW p \in Party, NEW at \in {OutOf(p), Window!NextChain(OutOf(p))},
         MadeOf(p)' = MadeOf(p) \cup {at}, OutOf(p)' = [at EXCEPT !.n = @ + 1],
         \A r \in Party : r # p => MadeOf(r)' = MadeOf(r) /\ OutOf(r)' = OutOf(r),
         \A r \in Party : SameKnown(r)
  PROVE  Window!Next
  <1> DEFINE made == [r \in Party |-> MadeOf(r)]
             out == [r \in Party |-> OutOf(r)]
             window == [r \in Party |-> WindowOf(r)]
             read == [r \in Party |-> ReadOf(r)]
             spoiled == [r \in Party |-> SpoiledOf(r)]
  <1>1. /\ made' = [made EXCEPT ![p] = @ \cup {at}]
        /\ out' = [out EXCEPT ![p] = [at EXCEPT !.n = @ + 1]]
        /\ window' = window /\ read' = read /\ spoiled' = spoiled
        /\ at \in {out[p], Window!NextChain(out[p])}
    BY DEF SameKnown
  <1>2. Window!Make(p)
    BY <1>1 DEF Window!Make, MadeOf, OutOf, WindowOf, ReadOf, SpoiledOf, SkippedOf
  <1> QED
    BY <1>2 DEF Window!Next, Window!Party, Party

LEMMA MapsToBegin ==
  ASSUME NEW p \in Party, OutOf(p)' = Window!NextChain(OutOf(p)),
         \A r \in Party : MadeOf(r)' = MadeOf(r),
         \A r \in Party : r # p => OutOf(r)' = OutOf(r),
         \A r \in Party : SameKnown(r)
  PROVE  Window!Next
  <1> DEFINE made == [r \in Party |-> MadeOf(r)]
             out == [r \in Party |-> OutOf(r)]
             window == [r \in Party |-> WindowOf(r)]
             read == [r \in Party |-> ReadOf(r)]
             spoiled == [r \in Party |-> SpoiledOf(r)]
  <1>1. /\ made' = made /\ out' = [out EXCEPT ![p] = Window!NextChain(@)]
        /\ window' = window /\ read' = read /\ spoiled' = spoiled
    BY DEF SameKnown
  <1>2. Window!BeginChain(p)
    BY <1>1 DEF Window!BeginChain, MadeOf, OutOf, WindowOf, ReadOf, SpoiledOf, SkippedOf
  <1> QED
    BY <1>2 DEF Window!Next, Window!Party, Party

LEMMA MapsToStutter ==
  ASSUME SameMade, \A r \in Party : SameKnown(r)
  PROVE  UNCHANGED Window!vars
  <1> DEFINE made == [r \in Party |-> MadeOf(r)]
             out == [r \in Party |-> OutOf(r)]
             window == [r \in Party |-> WindowOf(r)]
             read == [r \in Party |-> ReadOf(r)]
             spoiled == [r \in Party |-> SpoiledOf(r)]
  <1>1. made' = made /\ out' = out /\ window' = window /\ read' = read /\ spoiled' = spoiled
    BY DEF SameMade, SameKnown
  <1> QED
    BY <1>1 DEF Window!vars, MadeOf, OutOf, WindowOf, ReadOf, SpoiledOf, SkippedOf

LEMMA MapsToReach ==
  ASSUME SameMade, NEW p \in Party, NEW at, NEW first,
         \/ /\ at.chain = WindowOf(p).chain /\ at.n >= WindowOf(p).next
            /\ first = WindowOf(p).next
         \/ /\ at.chain = WindowOf(p).chain + 1 /\ at.chain # WindowOf(p).chain
            /\ first = 0,
         WindowOf(p)' = [chain |-> at.chain, next |-> at.n + 1,
                         skipped |-> WindowOf(p).skipped \cup
                                       Window!Gap(at.chain, first, at.n - 1)],
         \A r \in Party : r # p => SameKnown(r)
  PROVE  Window!Reach(p, at)
  <1> DEFINE made == [r \in Party |-> MadeOf(r)]
             out == [r \in Party |-> OutOf(r)]
             window == [r \in Party |-> WindowOf(r)]
             gap == Window!Gap(at.chain, IF at.chain = window[p].chain THEN window[p].next ELSE 0,
                               at.n - 1)
  <1>1. gap = Window!Gap(at.chain, first, at.n - 1) /\ window[p] = WindowOf(p)
    OBVIOUS
  <1>2. /\ \/ at.chain = window[p].chain /\ at.n >= window[p].next
           \/ at.chain = window[p].chain + 1
        /\ window' = [window EXCEPT ![p] =
                        [chain |-> at.chain, next |-> at.n + 1, skipped |-> @.skipped \cup gap]]
        /\ made' = made /\ out' = out
    <2> HIDE DEF gap
    <2> QED
      BY <1>1 DEF SameMade, SameKnown
  <1> QED
    BY <1>2 DEF Window!Reach, MadeOf, OutOf, WindowOf, SkippedOf

LEMMA MapsToRead ==
  ASSUME NEW p \in Party, NEW at \in MadeOf(Peer(p)), Window!Reach(p, at),
         ReadOf(p)' = ReadOf(p) \cup {at}, SpoiledOf(p)' = SpoiledOf(p),
         \A r \in Party : r # p => SameKnown(r)
  PROVE  Window!Next
  <1> DEFINE made == [r \in Party |-> MadeOf(r)]
             read == [r \in Party |-> ReadOf(r)]
             spoiled == [r \in Party |-> SpoiledOf(r)]
  <1>1. read' = [read EXCEPT ![p] = @ \cup {at}] /\ spoiled' = spoiled
    BY DEF SameKnown
  <1>2. Window!ReadNew(p, at)
    BY <1>1 DEF Window!ReadNew, ReadOf, SpoiledOf
  <1>3. Peer(p) \in Party /\ Window!Peer(p) = Peer(p)
    BY PeerOther DEF Window!Peer, Peer
  <1>4. at \in made[Window!Peer(p)]
    BY <1>3
  <1> QED
    BY <1>2, <1>4 DEF Window!Next, Window!Party, Party, MadeOf

LEMMA MapsToSpoil ==
  ASSUME NEW p \in Party, NEW from \in MadeOf(Peer(p)), NEW n \in {from.n} \cup MisreadCounters,
         NEW at, at = [from EXCEPT !.n = n], Window!Reach(p, at),
         SpoiledOf(p)' = SpoiledOf(p) \cup {at}, ReadOf(p)' = ReadOf(p),
         \A r \in Party : r # p => SameKnown(r)
  PROVE  Window!Next
  <1> DEFINE made == [r \in Party |-> MadeOf(r)]
             read == [r \in Party |-> ReadOf(r)]
             spoiled == [r \in Party |-> SpoiledOf(r)]
  <1>1. spoiled' = [spoiled EXCEPT ![p] = @ \cup {at}] /\ read' = read
    BY DEF SameKnown
  <1>2. Window!SpoilNew(p, at)
    BY <1>1 DEF Window!SpoilNew, ReadOf, SpoiledOf
  <1>3. Peer(p) \in Party /\ Window!Peer(p) = Peer(p)
    BY PeerOther DEF Window!Peer, Peer
  <1>4. from \in made[Window!Peer(p)]
    BY <1>3
  <1> QED
    BY <1>2, <1>4 DEF Window!Next, Window!Party, Party, MadeOf

LEMMA MapsToSkipped ==
  ASSUME SameMade, NEW p \in Party, NEW at \in MadeOf(Peer(p)),
         at.chain = WindowOf(p).chain, at \in WindowOf(p).skipped,
         ReadOf(p)' = ReadOf(p) \cup {at}, SpoiledOf(p)' = SpoiledOf(p),
         WindowOf(p)' = WindowOf(p),
         \A r \in Party : r # p => SameKnown(r)
  PROVE  Window!Next
  <1> DEFINE made == [r \in Party |-> MadeOf(r)]
             out == [r \in Party |-> OutOf(r)]
             window == [r \in Party |-> WindowOf(r)]
             read == [r \in Party |-> ReadOf(r)]
             spoiled == [r \in Party |-> SpoiledOf(r)]
  <1>1. /\ made' = made /\ out' = out /\ window' = window /\ spoiled' = spoiled
        /\ read' = [read EXCEPT ![p] = @ \cup {at}]
        /\ at.chain = window[p].chain /\ at \in window[p].skipped
    BY DEF SameMade, SameKnown
  <1>2. Window!ReadSkipped(p, at)
    BY <1>1 DEF Window!ReadSkipped, MadeOf, OutOf, WindowOf, ReadOf, SpoiledOf, SkippedOf
  <1>3. Peer(p) \in Party /\ Window!Peer(p) = Peer(p)
    BY PeerOther DEF Window!Peer, Peer
  <1>4. at \in made[Window!Peer(p)]
    BY <1>3
  <1> QED
    BY <1>2, <1>4 DEF Window!Next, Window!Party, Party, MadeOf

LEMMA InitMaps == Init => Window!Init
  <1> SUFFICES ASSUME Init PROVE Window!Init
    OBVIOUS
  <1>1. /\ \A p \in Party : MadeOf(p) = {} /\ ReadOf(p) = {} /\ SpoiledOf(p) = {}
    BY DEF Init, NoHistory, MadeOf, ReadOf, SpoiledOf
  <1>2. \A p \in Party : /\ session[p].dh_self.n = 1 /\ session[p].dh_remote.n = 1
                         /\ session[p].send_counter = 0 /\ session[p].recv_counter = 0
                         /\ session[p].previous_keys = {}
    <2>1. \A p \in Party : session[p] = InitiatorSession(pending) \/ session[p] = NoSession
      BY DEF Init
    <2> DEFINE first == HandshakeRoot(Root0(EK, pending), EK)
    <2>2. InitiatorSession(pending) =
            NewSession(Root0(EK, pending), first.root, first.chain, NoKey, EK, SPK, TRUE)
      BY DEF InitiatorSession
    <2> HIDE DEF first
    <2> QED
      BY <2>1, <2>2 DEF NoSession, NewSession, EK, SPK
  <1>3. \A p \in Party : /\ OutOf(p) = [chain |-> 0, n |-> 0]
                         /\ WindowOf(p) = [chain |-> 0, next |-> 0, skipped |-> {}]
    <2>1. \A p \in Party : SkippedOf(p) = {}
      BY <1>2 DEF SkippedOf
    <2>2. \A p \in Party : /\ ChainOf(session[p].dh_self) = 0
                           /\ ChainOf(session[p].dh_remote) = 0
      BY <1>2 DEF ChainOf
    <2> QED
      BY <1>2, <2>1, <2>2 DEF OutOf, WindowOf
  <1> DEFINE made == [r \in Party |-> MadeOf(r)]
             out == [r \in Party |-> OutOf(r)]
             window == [r \in Party |-> WindowOf(r)]
             read == [r \in Party |-> ReadOf(r)]
             spoiled == [r \in Party |-> SpoiledOf(r)]
  <1>4. /\ made = [p \in Party |-> {}] /\ out = [p \in Party |-> [chain |-> 0, n |-> 0]]
        /\ window = [p \in Party |-> [chain |-> 0, next |-> 0, skipped |-> {}]]
        /\ read = [p \in Party |-> {}] /\ spoiled = [p \in Party |-> {}]
    BY <1>1, <1>3
  <1> QED
    BY <1>4 DEF Window!Init, Window!Party, Party, MadeOf, OutOf, WindowOf, ReadOf, SpoiledOf,
                SkippedOf

(* What an end that makes no step of its own, or receives nothing, keeps.  *)
LEMMA SameLog ==
  ASSUME NEW r \in Party, session'[r].dh_remote = session[r].dh_remote,
         session'[r].recv_counter = session[r].recv_counter,
         session'[r].previous_keys = session[r].previous_keys, log'[r] = log[r]
  PROVE  SameKnown(r)
  BY DEF SameKnown, WindowOf, SkippedOf, ReadOf, SpoiledOf

LEMMA SendMaps ==
  ASSUME Calm, TypeOK, InStep, NEW p \in Party, NEW mode \in Mode, Send(p, mode)
  PROVE  Window!Next
  <1> DEFINE ready == ReadyToSend(session[p])
             t == AfterSend(ready, mode)
             m == Outgoing(p, ready, mode, Header(p))
             fresh == Generate(session[p].dh_self)
             at == PositionOf(m)
  <1>1. /\ CanSend(p) /\ session' = [session EXCEPT ![p] = t] /\ sent' = sent \cup {m}
        /\ log' = log
    BY DEF Send
  <1>2. /\ ready \in SessionState
        /\ ready.dh_remote = session[p].dh_remote
        /\ ready.recv_counter = session[p].recv_counter
        /\ ready.previous_keys = session[p].previous_keys
        /\ \/ ready = session[p]
           \/ ready.dh_self = fresh /\ ready.send_counter = 0
    BY <1>1, ReadyIs
  <1>3. /\ t.dh_self = ready.dh_self /\ t.dh_remote = ready.dh_remote
        /\ t.recv_counter = ready.recv_counter /\ t.previous_keys = ready.previous_keys
        /\ t.send_counter = ready.send_counter + 1
    BY <1>2, AfterSendIs
  <1>4. m.from = p /\ m.ephemeral = ready.dh_self /\ m.counter = ready.send_counter
    BY DEF Outgoing
  <1> HIDE DEF t, m
  <1>5. session'[p] = t /\ \A r \in Party : r # p => session'[r] = session[r]
    BY <1>1 DEF TypeOK
  <1>6. \A r \in Party : SameKnown(r)
    BY <1>1, <1>2, <1>3, <1>5, SameLog
  <1>7. at = [chain |-> ChainOf(ready.dh_self), n |-> ready.send_counter]
    BY <1>4 DEF PositionOf
  <1>8. OutOf(p)' = [at EXCEPT !.n = @ + 1]
    BY <1>3, <1>5, <1>7 DEF OutOf
  <1>9. at \in {OutOf(p), Window!NextChain(OutOf(p))}
    <2>1. CASE ready = session[p]
      BY <1>7, <2>1 DEF OutOf
    <2>2. CASE ready.dh_self = fresh /\ ready.send_counter = 0
      <3>1. session[p].dh_self \in KeyPair
        BY KnownTypes DEF SessionState
      <3>2. ChainOf(fresh) = ChainOf(session[p].dh_self) + 1
        BY <3>1 DEF ChainOf, Generate, KeyPair
      <3> QED
        BY <1>7, <2>2, <3>2 DEF OutOf, Window!NextChain
    <2> QED
      BY <1>2, <2>1, <2>2
  <1>10. /\ MadeOf(p)' = MadeOf(p) \cup {at}
         /\ \A r \in Party : r # p => MadeOf(r)' = MadeOf(r) /\ OutOf(r)' = OutOf(r)
    <2>1. MadeOf(p)' = MadeOf(p) \cup {at}
      BY <1>1, <1>4 DEF MadeOf
    <2>2. ASSUME NEW r \in Party, r # p PROVE MadeOf(r)' = MadeOf(r) /\ OutOf(r)' = OutOf(r)
      BY <1>1, <1>4, <1>5, <2>2 DEF MadeOf, OutOf
    <2> QED
      BY <2>1, <2>2
  <1> HIDE DEF at
  <1> QED
    BY <1>6, <1>8, <1>9, <1>10, MapsToMake

LEMMA RaisesMaps ==
  ASSUME Calm, TypeOK, InStep, NEW p \in Party, SendRaises(p)
  PROVE  Window!Next \/ UNCHANGED Window!vars
  <1> DEFINE ready == ReadyToSend(session[p])
             fresh == Generate(session[p].dh_self)
  <1>1. /\ CanSend(p) /\ session' = [session EXCEPT ![p] = ready] /\ sent' = sent /\ log' = log
    BY DEF SendRaises
  <1>2. /\ ready.dh_remote = session[p].dh_remote
        /\ ready.recv_counter = session[p].recv_counter
        /\ ready.previous_keys = session[p].previous_keys
        /\ \/ ready = session[p]
           \/ ready.dh_self = fresh /\ ready.send_counter = 0
    BY <1>1, ReadyIs
  <1> HIDE DEF ready
  <1>3. session'[p] = ready /\ \A r \in Party : r # p => session'[r] = session[r]
    BY <1>1 DEF TypeOK
  <1>4. \A r \in Party : SameKnown(r)
    BY <1>1, <1>2, <1>3, SameLog
  <1>5. /\ \A r \in Party : MadeOf(r)' = MadeOf(r)
        /\ \A r \in Party : r # p => OutOf(r)' = OutOf(r)
    BY <1>1, <1>3 DEF MadeOf, OutOf
  <1>6. CASE ready = session[p]
    <2>1. SameMade
      BY <1>3, <1>5, <1>6 DEF SameMade, OutOf
    <2> QED
      BY <1>4, <2>1, MapsToStutter
  <1>7. CASE ready.dh_self = fresh /\ ready.send_counter = 0
    <2>1. session[p].dh_self \in KeyPair
      BY KnownTypes DEF SessionState
    <2>2. ChainOf(fresh) = ChainOf(session[p].dh_self) + 1
      BY <2>1 DEF ChainOf, Generate, KeyPair
    <2>3. OutOf(p)' = Window!NextChain(OutOf(p))
      BY <1>3, <1>7, <2>2 DEF OutOf, Window!NextChain
    <2> QED
      BY <1>4, <1>5, <2>3, MapsToBegin
  <1> QED
    BY <1>2, <1>6, <1>7

(* The chain a window follows is the one its end follows, also before the  *)
(* responder's end opens.                                                  *)
LEMMA FollowedChain ==
  ASSUME TypeOK, Closed, NEW p \in Party
  PROVE  session[p].dh_remote.n = Remote(p).n
  <1>1. CASE p \in open
    BY <1>1 DEF Remote
  <1>2. CASE p \notin open
    <2>1. session[p] = NoSession
      BY <1>2 DEF Closed
    <2> QED
      BY <1>2, <2>1 DEF Remote, NoSession, NewSession, SPK, EK
  <1> QED
    BY <1>1, <1>2

LEMMA ReceiveMaps ==
  ASSUME Calm, TypeOK, TypeOK', Closed, Closed', InStep, NEW p \in Party, NEW s, NEW m,
         PeerStep(p, s, m), Recorded(p, s, m)
  PROVE  Window!Next \/ UNCHANGED Window!vars
  <1> DEFINE q == Peer(p)
             at == PositionOf(m)
  <1>1. /\ Carried(m) /\ m.from = q /\ Reached(p, s, m) /\ sent' = sent
        /\ session'[p] = AfterKey(s, m) /\ Remote(p)' = m.ephemeral
        /\ \A r \in Party : r # p => session'[r] = session[r] /\ log'[r] = log[r]
        /\ \A r \in Party : /\ session'[r].dh_self = session[r].dh_self
                            /\ session'[r].send_counter = session[r].send_counter
        /\ session'[p].recv_counter = IF IsOld(s, m) THEN s.recv_counter ELSE m.counter + 1
        /\ \/ Stays(p) /\ s.recv_counter = session[p].recv_counter
           \/ Follows(p) /\ s.recv_counter = 0
    BY DEF PeerStep
  <1>2. /\ m.counter \in Nat /\ s.recv_counter \in Nat /\ session[p].recv_counter \in Nat
        /\ Remote(p).n \in Nat /\ m.ephemeral.n \in Nat
    BY <1>1, CarriedIs, KnownTypes DEF Reached, SessionState, KeyPair
  <1>3. SameMade /\ \A r \in Party : r # p => SameKnown(r)
    <2>1. SameMade
      BY <1>1 DEF SameMade, MadeOf, OutOf
    <2> QED
      BY <1>1, <2>1, SameLog
  <1>4. /\ at.chain = ChainOf(m.ephemeral) /\ at.n = m.counter
        /\ m \in sent => at \in MadeOf(q)
        /\ \E from \in MadeOf(q) : \E n \in {from.n} \cup MisreadCounters :
             at = [from EXCEPT !.n = n]
    <2>1. PICK made \in sent : Carries(m, made)
      BY <1>1 DEF Carried
    <2> DEFINE from == PositionOf(made)
    <2>2. from \in MadeOf(q)
      BY <1>1, <2>1 DEF Carries, MadeOf
    <2>3. m.counter \in {from.n} \cup MisreadCounters /\ at = [from EXCEPT !.n = m.counter]
      BY <2>1 DEF Carries, PositionOf
    <2>4. m \in sent => at \in MadeOf(q)
      BY <1>1 DEF MadeOf
    <2> QED
      BY <2>2, <2>3, <2>4 DEF PositionOf
  <1>5. /\ WindowOf(p).chain = Remote(p).n - 1 /\ WindowOf(p).next = session[p].recv_counter
        /\ at.chain = m.ephemeral.n - 1
        /\ WindowOf(p)'.chain = at.chain /\ WindowOf(p)'.next = session'[p].recv_counter
    <2>1. session[p].dh_remote.n = Remote(p).n
      BY FollowedChain
    <2>2. session'[p].dh_remote.n = m.ephemeral.n
      <3>1. p \in open'
        BY DEF PeerStep
      <3> QED
        BY <1>1, <3>1 DEF Remote
    <2> QED
      BY <1>4, <2>1, <2>2 DEF WindowOf, ChainOf
  <1>6. PICK intact \in BOOLEAN :
          /\ intact => m \in sent
          /\ \A x : /\ x \in log'[p].accepted <=>
                         x \in log[p].accepted \/ (Authentic(s, m, intact) /\ x = m)
                    /\ x \in log'[p].spoiled <=>
                         \/ x \in log[p].spoiled
                         \/ ~Authentic(s, m, intact) /\ ~IsOld(s, m) /\ x = m
    BY RecordedIs
  <1>a. Authentic(s, m, intact) => at \in MadeOf(q)
    BY <1>4, <1>6 DEF Authentic
  <1>7. ReadOf(p)' = IF Authentic(s, m, intact) THEN ReadOf(p) \cup {at} ELSE ReadOf(p)
    <2>1. log'[p].accepted = IF Authentic(s, m, intact) THEN log[p].accepted \cup {m}
                                                        ELSE log[p].accepted
      BY <1>6
    <2> QED
      BY <2>1 DEF ReadOf
  <1>8. SpoiledOf(p)' = IF ~Authentic(s, m, intact) /\ ~IsOld(s, m)
                        THEN SpoiledOf(p) \cup {at} ELSE SpoiledOf(p)
    <2>1. log'[p].spoiled = IF ~Authentic(s, m, intact) /\ ~IsOld(s, m)
                            THEN log[p].spoiled \cup {m} ELSE log[p].spoiled
      BY <1>6
    <2> QED
      BY <2>1 DEF SpoiledOf
  <1> HIDE DEF at
  <1>9. CASE ~IsOld(s, m)
    <2>1. \/ /\ at.chain = WindowOf(p).chain /\ at.n >= WindowOf(p).next
             /\ s.recv_counter = WindowOf(p).next
          \/ /\ at.chain = WindowOf(p).chain + 1 /\ at.chain # WindowOf(p).chain
             /\ s.recv_counter = 0
      <3>1. CASE Stays(p) /\ s.recv_counter = session[p].recv_counter
        <4>1. m.ephemeral = Remote(p)
          BY <1>1, <3>1 DEF Stays
        <4> QED
          BY <1>2, <1>4, <1>5, <1>9, <3>1, <4>1 DEF IsOld
      <3>2. CASE Follows(p) /\ s.recv_counter = 0
        <4>1. m.ephemeral.n = Remote(p).n + 1
          BY <1>1, <3>2 DEF Follows
        <4> QED
          BY <1>2, <1>5, <3>2, <4>1
      <3> QED
        BY <1>1, <3>1, <3>2
    <2>2. SkippedOf(p)' = SkippedOf(p) \cup Window!Gap(at.chain, s.recv_counter, at.n - 1)
      <3> DEFINE gap == Window!Gap(at.chain, s.recv_counter, at.n - 1)
      <3>1. gap = {[chain |-> ChainOf(m.ephemeral), n |-> k] : k \in Skipped(s, m.counter)}
        BY <1>4 DEF Window!Gap, Skipped
      <3> HIDE DEF gap
      <3>2. ASSUME NEW x \in SkippedOf(p)' PROVE x \in SkippedOf(p) \cup gap
        <4>1. PICK e \in session'[p].previous_keys :
                x = [chain |-> ChainOf(e.chain), n |-> e.counter]
          BY <3>2 DEF SkippedOf
        <4>2. \/ e \in session[p].previous_keys
              \/ e.chain = m.ephemeral /\ e.counter \in Skipped(s, m.counter)
          BY DEF PeerStep
        <4> QED
          BY <3>1, <4>1, <4>2 DEF SkippedOf
      <3>3. ASSUME NEW x \in SkippedOf(p) PROVE x \in SkippedOf(p)'
        <4>1. PICK e \in session[p].previous_keys :
                x = [chain |-> ChainOf(e.chain), n |-> e.counter]
          BY <3>3 DEF SkippedOf
        <4>2. PICK f \in session'[p].previous_keys : f.chain = e.chain /\ f.counter = e.counter
          BY DEF PeerStep
        <4> QED
          BY <4>1, <4>2 DEF SkippedOf
      <3>4. ASSUME NEW x \in gap PROVE x \in SkippedOf(p)'
        <4>1. PICK k \in Skipped(s, m.counter) : x = [chain |-> ChainOf(m.ephemeral), n |-> k]
          BY <3>1, <3>4
        <4>2. PICK f \in session'[p].previous_keys : f.chain = m.ephemeral /\ f.counter = k
          BY <1>9 DEF PeerStep
        <4> QED
          BY <4>1, <4>2 DEF SkippedOf
      <3>5. SkippedOf(p)' = SkippedOf(p) \cup gap
        BY <3>2, <3>3, <3>4
      <3> QED
        BY <3>5 DEF gap
    <2>3. WindowOf(p)' = [chain |-> at.chain, next |-> at.n + 1,
                          skipped |-> WindowOf(p).skipped \cup
                                        Window!Gap(at.chain, s.recv_counter, at.n - 1)]
      <3>1. session'[p].recv_counter = at.n + 1
        BY <1>1, <1>4, <1>9
      <3>2. ChainOf(session'[p].dh_remote) = at.chain
        BY <1>5 DEF WindowOf
      <3> QED
        BY <2>2, <3>1, <3>2 DEF WindowOf
    <2>4. Window!Reach(p, at)
      BY <1>3, <2>1, <2>3, MapsToReach
    <2>5. CASE Authentic(s, m, intact)
      BY <1>3, <1>7, <1>8, <1>a, <2>4, <2>5, MapsToRead
    <2>6. CASE ~Authentic(s, m, intact)
      BY <1>3, <1>4, <1>7, <1>8, <1>9, <2>4, <2>6, MapsToSpoil
    <2> QED
      BY <2>5, <2>6
  <1>10. CASE IsOld(s, m)
    <2>1. Stays(p) /\ session'[p] = s /\ session'[p].recv_counter = session[p].recv_counter
      BY <1>1, <1>2, <1>10 DEF IsOld, AfterKey
    <2>2. /\ s.previous_keys = session[p].previous_keys /\ s.dh_remote = m.ephemeral
          /\ m.ephemeral = Remote(p)
      BY <1>1, <2>1 DEF Reached, Stays
    <2>3. WindowOf(p)' = WindowOf(p) /\ at.chain = WindowOf(p).chain
      <3>1. SkippedOf(p)' = SkippedOf(p)
        BY <2>1, <2>2 DEF SkippedOf
      <3>2. at.chain = WindowOf(p).chain
        BY <1>5, <2>2
      <3>3. ChainOf(session'[p].dh_remote) = ChainOf(session[p].dh_remote)
        BY <1>5, <3>2 DEF WindowOf
      <3> QED
        BY <2>1, <3>1, <3>2, <3>3 DEF WindowOf
    <2>4. SpoiledOf(p)' = SpoiledOf(p)
      BY <1>8, <1>10
    <2>5. CASE Authentic(s, m, intact)
      <3>1. PICK e \in session[p].previous_keys : e.chain = m.ephemeral /\ e.counter = m.counter
        BY <1>10, <2>2, <2>5 DEF Authentic, MessageKeys, Cached
      <3>2. at = [chain |-> ChainOf(m.ephemeral), n |-> m.counter]
        BY DEF at, PositionOf
      <3>3. at \in WindowOf(p).skipped
        BY <3>1, <3>2 DEF WindowOf, SkippedOf
      <3>4. ReadOf(p)' = ReadOf(p) \cup {at}
        BY <1>7, <2>5
      <3> QED
        BY <1>3, <1>a, <2>3, <2>4, <2>5, <3>3, <3>4, MapsToSkipped
    <2>6. CASE ~Authentic(s, m, intact)
      <3>1. SameKnown(p)
        BY <1>7, <2>3, <2>4, <2>6 DEF SameKnown
      <3>2. \A r \in Party : SameKnown(r)
        BY <1>3, <3>1
      <3> QED
        BY <1>3, <3>2, MapsToStutter
    <2> QED
      BY <2>5, <2>6
  <1> QED
    BY <1>9, <1>10

LEMMA StepMaps ==
  ASSUME Calm, TypeOK, TypeOK', Closed, Closed', InStep, [Next]_vars
  PROVE  [Window!Next]_(Window!vars)
  <1>1. ASSUME NEW p \in Party, NEW mode \in Mode, Send(p, mode) PROVE Window!Next
    BY <1>1, SendMaps
  <1>2. ASSUME NEW p \in Party, SendRaises(p) PROVE Window!Next \/ UNCHANGED Window!vars
    BY <1>2, RaisesMaps
  <1>3. ASSUME NEW p \in Party, NEW m, NEW intact \in BOOLEAN,
               Arrives(m, intact), Receive(p, m, intact), ~intact => "damage" \in Faults
        PROVE  Window!Next \/ UNCHANGED Window!vars
    BY <1>3, ReceiveIsRecorded, ReceiveMaps
  <1>4. ASSUME UNCHANGED vars PROVE UNCHANGED Window!vars
    <2>1. session' = session /\ sent' = sent /\ log' = log
      BY <1>4 DEF vars
    <2>2. SameMade /\ \A r \in Party : SameKnown(r)
      BY <2>1, SameLog DEF SameMade, MadeOf, OutOf
    <2> QED
      BY <2>2, MapsToStutter
  <1> QED
    BY <1>1, <1>2, <1>3, <1>4 DEF Next, ReceiveIntact, ReceiveDamaged, Arrives

(* Every step of the two ends is a step of the delivery window, or none of *)
(* its own: a session reads what the window reads and caches the keys of   *)
(* what the window skipped (process_incoming_message, _ratchet_receive).   *)
THEOREM Implements == ASSUME Calm PROVE Spec => ImplementsWindow
  <1>1. TypeOK /\ TypeOK' /\ Closed /\ Closed' /\ InStep /\ [Next]_vars
        => [Window!Next]_(Window!vars)
    BY StepMaps
  <1> QED
    BY <1>1, InitMaps, InStepHolds, PTL DEF Spec, Window!Spec, ImplementsWindow

(* No position of the chain a session follows is forgotten: below          *)
(* recv_counter its key is cached, or a message was accepted or spoiled    *)
(* with it, also when a damaged header moved the counter ahead of the      *)
(* peer.  It is the window's own promise, carried over by Implements.      *)
THEOREM NoneLost == ASSUME Calm PROVE Spec => []NothingLost
  <1>1. TypeOK /\ Closed /\ InStep => NothingLost
    <2>1. ASSUME TypeOK, Closed, InStep, NEW p \in Party,
                 NEW n \in 0 .. session[p].recv_counter - 1
          PROVE  [chain |-> WindowOf(p).chain, n |-> n]
                   \in WindowOf(p).skipped \cup ReadOf(p) \cup SpoiledOf(p)
      <3> DEFINE at == [chain |-> WindowOf(p).chain, n |-> n]
      <3>1. WindowOf(p).chain = ChainOf(Remote(p))
        BY <2>1, FollowedChain DEF WindowOf, ChainOf
      <3>2. CASE \E a \in log[p].accepted \cup log[p].spoiled :
                   a.ephemeral = Remote(p) /\ a.counter = n
        BY <3>1, <3>2 DEF ReadOf, SpoiledOf, PositionOf
      <3>3. CASE \E e \in session[p].previous_keys : e.chain = Remote(p) /\ e.counter = n
        <4>1. at \in SkippedOf(p)
          BY <3>1, <3>3 DEF SkippedOf
        <4> QED
          BY <4>1 DEF WindowOf
      <3> QED
        BY <2>1, <3>2, <3>3 DEF InStep, Passed
    <2> DEFINE window == [r \in Party |-> WindowOf(r)]
               read == [r \in Party |-> ReadOf(r)]
               spoiled == [r \in Party |-> SpoiledOf(r)]
    <2>2. ASSUME TypeOK, Closed, InStep, NEW p \in Party
          PROVE  Window!Gap(window[p].chain, 0, window[p].next - 1)
                   \subseteq window[p].skipped \cup read[p] \cup spoiled[p]
      <3>1. /\ window[p] = WindowOf(p) /\ read[p] = ReadOf(p) /\ spoiled[p] = SpoiledOf(p)
            /\ WindowOf(p).next = session[p].recv_counter
        BY DEF WindowOf
      <3> HIDE DEF window, read, spoiled
      <3> QED
        BY <2>1, <2>2, <3>1 DEF Window!Gap
    <2> QED
      BY <2>2 DEF NothingLost, Window!NothingLost, Window!Party, Party, WindowOf, ReadOf,
                  SpoiledOf, SkippedOf
  <1> QED
    BY <1>1, InStepHolds, PTL

-----------------------------------------------------------------------------
(***************************************************************************)
(* In order of sending and undamaged: what an end has seen is a prefix of  *)
(* what its peer made.                                                     *)
(***************************************************************************)
SeenPrefix ==
  /\ \A p \in Party :
       /\ log[p].damaged = {} /\ log[p].accepted \subseteq log[p].tried
       /\ \A x \in log[p].tried : \A other \in sent :
            other.from = x.from /\ other.index < x.index => other \in log[p].tried
  /\ \A x, y \in sent : x.from = y.from /\ x.index = y.index => x = y

LEMMA InitSeenPrefix == Init => SeenPrefix
  BY DEF Init, NoHistory, SeenPrefix

LEMMA SendKeepsPrefix ==
  ASSUME TypeOK, InStep, QueueInv, SeenPrefix, NEW p \in Party, NEW mode \in Mode, Send(p, mode)
  PROVE  SeenPrefix'
  <1> DEFINE ready == ReadyToSend(session[p])
             m == Outgoing(p, ready, mode, Header(p))
  <1>1. log' = log /\ sent' = sent \cup {m}
    BY DEF Send
  <1>2. session[p] \in SessionState
    BY DEF TypeOK
  <1>3. ready.outgoing_index = session[p].outgoing_index
    BY <1>2 DEF ReadyToSend, RatchetSend, SessionState
  <1>4. m.from = p /\ m.index = session[p].outgoing_index + 1 /\ session[p].outgoing_index \in Nat
    BY <1>2, <1>3 DEF Outgoing, SessionState
  <1> HIDE DEF m
  <1>5. ASSUME NEW x \in sent, x.from = p PROVE ~(m.index < x.index) /\ m.index # x.index
    <2>1. x.index \in Nat /\ x.index <= session[p].outgoing_index
      BY <1>5 DEF QueueInv, QueueOf, TypeOK, Message
    <2> QED
      BY <1>4, <2>1
  <1>6. \A r \in Party : log[r].tried \subseteq sent
    BY DEF InStep, Outcomes
  <1>7. \A x, y \in sent' : x.from = y.from /\ x.index = y.index => x = y
    BY <1>1, <1>4, <1>5 DEF SeenPrefix
  <1> QED
    BY <1>1, <1>4, <1>5, <1>6, <1>7 DEF SeenPrefix

LEMMA ReceiveKeepsPrefix ==
  ASSUME Orderly, TypeOK, InStep, SeenPrefix, NEW p \in Party, NEW s, NEW m, PeerStep(p, s, m),
         Recorded(p, s, m), InOrder(p, m)
  PROVE  SeenPrefix'
  <1>1. /\ sent' = sent /\ m.from = Peer(p)
        /\ \A r \in Party : r # p => log'[r] = log[r]
    BY DEF PeerStep
  <1>2. PICK intact \in BOOLEAN :
          /\ IF intact THEN m \in sent ELSE "damage" \in Faults
          /\ \A x : /\ x \in log'[p].tried <=> x \in log[p].tried \/ (intact /\ x = m)
                    /\ x \in log'[p].damaged <=> x \in log[p].damaged \/ (~intact /\ x = m)
                    /\ x \in log'[p].accepted <=>
                         x \in log[p].accepted \/ (Authentic(s, m, intact) /\ x = m)
    BY RecordedIs
  <1>3. "damage" \notin Faults
    BY DEF Orderly
  <1>4. /\ m \in sent /\ log'[p].damaged = {} /\ log'[p].accepted \subseteq log'[p].tried
        /\ log'[p].tried = log[p].tried \cup {m}
    BY <1>2, <1>3 DEF SeenPrefix
  <1>5. \A other \in sent : other.from = m.from /\ other.index < m.index => other \in log[p].tried
    <2> SUFFICES ASSUME NEW other \in sent, other.from = m.from, other.index < m.index
                 PROVE  other \in log[p].tried
      OBVIOUS
    <2>1. PICK a \in log[p].tried : a.index = other.index
      BY DEF InOrder, Arrived, SeenPrefix
    <2>2. a \in sent /\ a.from = other.from
      BY <1>1 DEF InStep, Outcomes
    <2> QED
      BY <2>1, <2>2 DEF SeenPrefix
  <1> QED
    BY <1>1, <1>4, <1>5 DEF SeenPrefix

LEMMA PrefixStep ==
  ASSUME Orderly, TypeOK, Closed, InStep, QueueInv, SeenPrefix, [Next]_vars
  PROVE  SeenPrefix'
  <1>1. ASSUME NEW p \in Party, NEW mode \in Mode, Send(p, mode) PROVE SeenPrefix'
    BY <1>1, SendKeepsPrefix
  <1>2. ASSUME NEW p \in Party, SendRaises(p) PROVE SeenPrefix'
    BY <1>2 DEF SendRaises, SeenPrefix
  <1>3. ASSUME NEW p \in Party, NEW m, NEW intact \in BOOLEAN,
               Arrives(m, intact), Receive(p, m, intact), ~intact => "damage" \in Faults
        PROVE  SeenPrefix'
    <2>1. Calm /\ InOrder(p, m)
      BY <1>3 DEF Orderly, Calm, Receive, Deliverable
    <2>2. \E s : PeerStep(p, s, m) /\ Recorded(p, s, m)
      BY <1>3, <2>1, ReceiveIsRecorded
    <2> QED
      BY <2>1, <2>2, ReceiveKeepsPrefix
  <1>4. CASE UNCHANGED vars
    BY <1>4 DEF vars, SeenPrefix
  <1> QED
    BY <1>1, <1>2, <1>3, <1>4 DEF Next, ReceiveIntact, ReceiveDamaged, Arrives

(* In order of sending, a MAC key is disclosed to the receiver only after  *)
(* it accepted the message the key authenticates, so nothing it accepts    *)
(* could have been forged with a key already public                        *)
(* (collect_revealable_mac_keys, process_incoming_message).                *)
THEOREM DisclosesAfter == ASSUME Orderly PROVE Spec => []DisclosedAfterAccepted
  <1>1. Calm
    BY DEF Orderly, Calm
  <1>2. InStep /\ QueueInv /\ SeenPrefix => DisclosedAfterAccepted
    <2> SUFFICES ASSUME InStep, QueueInv, SeenPrefix, NEW p \in Party,
                        NEW m \in log[p].accepted, NEW k \in m.revealed
                 PROVE  \E old \in log[p].accepted : old.key = k
      BY DEF DisclosedAfterAccepted
    <2>1. m \in sent /\ m \in log[p].tried
      BY DEF InStep, Outcomes, SeenPrefix
    <2>2. PICK old \in sent : /\ old.key = k /\ old.from = m.from /\ old.mode = DENIABLE
                              /\ old.index < m.index
      BY <2>1 DEF QueueInv, DisclosureSound
    <2>3. old \in log[p].tried /\ log[p].damaged = {}
      BY <2>1, <2>2 DEF SeenPrefix
    <2>4. old \in log[p].accepted
      BY <2>2, <2>3 DEF InStep, FirstDeliveryAccepted, DENIABLE, VERIFIABLE
    <2> QED
      BY <2>2, <2>4
  <1>3. TypeOK /\ Closed /\ InStep /\ QueueInv /\ SeenPrefix /\ [Next]_vars => SeenPrefix'
    BY PrefixStep
  <1>4. Spec => [](TypeOK /\ Closed /\ InStep)
    BY <1>1, InStepHolds
  <1> QED
    BY <1>2, <1>3, <1>4, QueueHolds, InitSeenPrefix, PTL DEF Spec
=============================================================================
