------------------------- MODULE EstablishmentProofs -------------------------
(***************************************************************************)
(* What is proved of Establishment for any clients, any contacts and any   *)
(* bounds.  Whatever fails: the private half of a one-time prekey makes at *)
(* most one session; two ends of one session_id hold the same root key, in *)
(* the two roles, and the initiator knows the responder's signature key;   *)
(* and every variable keeps its type.  In the calm setting, Settled: no    *)
(* message reaches a client that holds another session with its sender.    *)
(***************************************************************************)
EXTENDS Establishment, TLAPS

Keys == [identity : Nat, spk : Nat, opks : SUBSET Nat, generated : Nat, ephemerals : Nat]

LEMMA NewKeyStoreType ==
  ASSUME NEW identity \in Nat, NEW spk \in Nat, NEW generated \in Nat, NEW ephemerals \in Nat
  PROVE  LET k == NewKeyStore(identity, spk, generated, ephemerals)
         IN  /\ k \in Keys /\ k.identity = identity /\ k.spk = spk
             /\ k.generated = generated + InitialOneTime /\ k.ephemerals = ephemerals
             /\ \A n \in k.opks : n > generated /\ n <= k.generated
             /\ k.generated >= generated
  BY OneTimeAssumption DEF NewKeyStore, Keys

(* The shape of the state, as far as the argument needs it.                *)
Shape ==
  /\ keys \in [Client -> Keys]
  /\ DOMAIN sessions = Client /\ \A u \in Client : DOMAIN sessions[u] = Client
  /\ DOMAIN calling = Client

(* A one-time prekey is never an ephemeral key, so in dh3 it stands for    *)
(* itself alone.                                                           *)
EphemeralKind ==
  /\ \A u, v \in Client : sessions[u][v] # None => sessions[u][v].dh_self.kind # "one_time"
  /\ \A u \in Client : calling[u] # None => calling[u].ephemeral.kind # "one_time"
  /\ \A m \in wire : m.ephemeral.kind # "one_time"

(* A key that made a session was generated and is gone from the key store. *)
Gone ==
  /\ \A u \in Client : \A n \in keys[u].opks : n <= keys[u].generated
  /\ \A s \in opened : \A key \in s.session_id.dh3 : key.kind = "one_time" =>
       /\ s.at \in Client /\ key.owner = s.at
       /\ key.n \in Nat /\ key.n <= keys[s.at].generated /\ key.n \notin keys[s.at].opks

OneTimeInv == Shape /\ EphemeralKind /\ Gone /\ OneTimeKeyOnce

LEMMA InitOneTime == Init => OneTimeInv
  BY NewKeyStoreType
  DEF Init, OneTimeInv, Shape, EphemeralKind, Gone, OneTimeKeyOnce

(* The session accept_session makes, and what its dh3 is made of.          *)
LEMMA AcceptedRoot ==
  ASSUME NEW u \in Client, NEW k, NEW header, NEW ephemeral, NEW sig,
         ephemeral.kind # "one_time"
  PROVE  LET s == AcceptSession(u, k, header, ephemeral, sig)
         IN  /\ s.dh_self.kind = "signed"
             /\ \A key \in s.session_id.dh3 : key.kind = "one_time" =>
                  /\ key = Key(u, "one_time", ConsumedOpk(k, header))
                  /\ ConsumedOpk(k, header) \in k.opks
  <1> DEFINE s == AcceptSession(u, k, header, ephemeral, sig)
             opk == ConsumedOpk(k, header)
  <1>1. /\ s.dh_self = Key(u, "signed", k.spk)
        /\ s.session_id.dh3 =
             IF opk = None THEN {} ELSE {ephemeral, Key(u, "one_time", opk)}
    BY DEF AcceptSession, NewSession, DeriveSessionId, Root0, Exchange
  <1>2. opk # None => opk \in k.opks
    BY DEF ConsumedOpk
  <1> HIDE DEF s, opk
  <1> QED
    BY <1>1, <1>2 DEF Key, s, opk

LEMMA OneTimeStep == OneTimeInv /\ [Next]_vars => OneTimeInv'
  <1> SUFFICES ASSUME OneTimeInv, [Next]_vars PROVE OneTimeInv'
    OBVIOUS
  <1> USE DEF OneTimeInv
  <1>1. ASSUME NEW u \in Client, GenerateOneTimePrekey(u) PROVE OneTimeInv'
    <2>1. UNCHANGED <<sessions, calling, opened, wire>>
      BY <1>1 DEF GenerateOneTimePrekey
    <2>2. /\ keys' = [keys EXCEPT ![u] = WithOneTimePrekey(keys[u])]
          /\ WithOneTimePrekey(keys[u]).opks = keys[u].opks \cup {keys[u].generated + 1}
          /\ WithOneTimePrekey(keys[u]).generated = keys[u].generated + 1
          /\ WithOneTimePrekey(keys[u]) \in Keys
      <3>1. keys[u] \in Keys
        BY DEF Shape
      <3>2. /\ keys[u].generated + 1 \in Nat
            /\ keys[u].opks \cup {keys[u].generated + 1} \in SUBSET Nat
        BY <3>1 DEF Keys
      <3>3. \A opks \in SUBSET Nat, n \in Nat :
              [keys[u] EXCEPT !.opks = opks, !.generated = n] \in Keys
        BY <3>1 DEF Keys
      <3>4. /\ WithOneTimePrekey(keys[u]).opks = keys[u].opks \cup {keys[u].generated + 1}
            /\ WithOneTimePrekey(keys[u]).generated = keys[u].generated + 1
        BY <3>1 DEF WithOneTimePrekey, Keys
      <3> QED
        BY <1>1, <3>2, <3>3, <3>4 DEF GenerateOneTimePrekey, WithOneTimePrekey
    <2>3. Shape' /\ EphemeralKind' /\ OneTimeKeyOnce'
      BY <2>1, <2>2 DEF Shape, EphemeralKind, OneTimeKeyOnce
    <2>4. Gone'
      BY <2>1, <2>2 DEF Shape, Keys, Gone
    <2> QED
      BY <2>3, <2>4
  <1>2. ASSUME NEW u \in Client, RotateSignedPrekey(u) PROVE OneTimeInv'
    <2>1. /\ keys' = [keys EXCEPT ![u].spk = @ + 1] /\ keys[u] \in Keys
          /\ UNCHANGED <<sessions, calling, opened, wire>>
      BY <1>2 DEF RotateSignedPrekey, Shape
    <2>2. Shape'
      BY <2>1 DEF Shape, Keys
    <2>3. \A w \in Client : /\ keys'[w].opks = keys[w].opks
                            /\ keys'[w].generated = keys[w].generated
      BY <2>1 DEF Shape, Keys
    <2>4. EphemeralKind' /\ OneTimeKeyOnce'
      BY <2>1 DEF EphemeralKind, OneTimeKeyOnce
    <2>5. Gone'
      BY <2>1, <2>3 DEF Gone
    <2> QED
      BY <2>2, <2>4, <2>5
  <1>3. ASSUME NEW u \in Client, Publish(u) PROVE OneTimeInv'
    BY <1>3 DEF Publish, client_vars, Shape, EphemeralKind, Gone, OneTimeKeyOnce
  <1>4. ASSUME NEW bundle \in uploads, HandleUpload(bundle) PROVE OneTimeInv'
    BY <1>4 DEF HandleUpload, client_vars, Shape, EphemeralKind, Gone, OneTimeKeyOnce
  <1>5. ASSUME NEW opk \in deletes, HandleDelete(opk) PROVE OneTimeInv'
    BY <1>5 DEF HandleDelete, client_vars, Shape, EphemeralKind, Gone, OneTimeKeyOnce
  <1>6. ASSUME NEW u \in Client, NEW v \in Client, StartSession(u, v) PROVE OneTimeInv'
    <2> DEFINE ek == Key(u, "ephemeral", keys[u].ephemerals + 1)
    <2>0. PICK prekeys \in GetPrekeys(store[v]) :
            sessions' = [sessions EXCEPT ![u][v] = InitiateSession(ek, v, prekeys)]
      BY <1>6 DEF StartSession
    <2> DEFINE s == InitiateSession(ek, v, prekeys)
    <2>1. /\ sessions' = [sessions EXCEPT ![u][v] = s]
          /\ keys' = [keys EXCEPT ![u].ephemerals = keys[u].ephemerals + 1]
          /\ UNCHANGED <<calling, opened, wire>>
      BY <1>6, <2>0 DEF StartSession
    <2>2. s.dh_self.kind = "ephemeral"
      BY DEF InitiateSession, NewSession, Key
    <2> HIDE DEF s
    <2>3. Shape' /\ OneTimeKeyOnce'
      BY <2>1 DEF Shape, Keys, OneTimeKeyOnce
    <2>4. EphemeralKind'
      BY <2>1, <2>2 DEF Shape, EphemeralKind
    <2>5. Gone'
      BY <2>1 DEF Shape, Keys, Gone
    <2> QED
      BY <2>3, <2>4, <2>5
  <1>7. ASSUME NEW u \in Client, NEW v \in Client, NEW rotates \in BOOLEAN,
               CanSend(u, v, rotates)
        PROVE  Rotated(u, v, rotates).dh_self.kind # "one_time"
    BY <1>7 DEF CanSend, Rotated, Key, EphemeralKind
  <1>8. ASSUME NEW u \in Client, NEW v \in Client, NEW rotates \in BOOLEAN,
               Send(u, v, rotates)
        PROVE  OneTimeInv'
    <2> DEFINE s == Rotated(u, v, rotates)
               m == [from |-> u, to |-> v, session_id |-> s.session_id,
                     ephemeral |-> s.dh_self, header |-> pending[u][v]]
    <2>1. /\ sessions' = [sessions EXCEPT ![u][v] = s]
          /\ UNCHANGED <<keys, opened>>
          /\ \/ calling' = [calling EXCEPT ![u] = m] /\ UNCHANGED wire
             \/ UNCHANGED calling /\ wire' = wire \cup {m}
      BY <1>8 DEF Send
    <2>2. s.dh_self.kind # "one_time" /\ m.ephemeral = s.dh_self
      BY <1>7, <1>8 DEF Send
    <2> HIDE DEF s, m
    <2>3. EphemeralKind'
      BY <2>1, <2>2 DEF Shape, EphemeralKind
    <2> QED
      BY <2>1, <2>3 DEF Shape, Gone, OneTimeKeyOnce
  <1>9. ASSUME NEW u \in Client, NEW v \in Client, NEW rotates \in BOOLEAN,
               SendRaises(u, v, rotates)
        PROVE  OneTimeInv'
    <2> DEFINE s == Rotated(u, v, rotates)
    <2>1. sessions' = [sessions EXCEPT ![u][v] = s] /\ UNCHANGED <<keys, opened, calling, wire>>
      BY <1>9 DEF SendRaises
    <2>2. s.dh_self.kind # "one_time"
      BY <1>7, <1>9 DEF SendRaises
    <2> HIDE DEF s
    <2> QED
      BY <2>1, <2>2 DEF Shape, EphemeralKind, Gone, OneTimeKeyOnce
  <1>10. ASSUME NEW u \in Client, Return(u) PROVE OneTimeInv'
    <2>1. /\ calling[u] # None
          /\ calling' = [calling EXCEPT ![u] = None] /\ wire' = wire \cup {calling[u]}
          /\ UNCHANGED <<keys, sessions, opened>>
      BY <1>10 DEF Return, Idle
    <2> QED
      BY <2>1 DEF Shape, EphemeralKind, Gone, OneTimeKeyOnce
  <1>11. ASSUME NEW u \in Client, NEW m \in wire, m.to = u, Open(u, m) PROVE OneTimeInv'
    <2>0. PICK sig \in SignatureKeys(m.from) :
            LET s == AcceptSession(u, keys[u], m.header, m.ephemeral, sig)
            IN  /\ sessions' = [sessions EXCEPT ![u][m.from] = s]
                /\ opened' = opened \cup {[at |-> u, session_id |-> s.session_id]}
      BY <1>11 DEF Open
    <2> DEFINE s == AcceptSession(u, keys[u], m.header, m.ephemeral, sig)
               opk == ConsumedOpk(keys[u], m.header)
               new == [at |-> u, session_id |-> s.session_id]
    <2>1. /\ opened' = opened \cup {new}
          /\ keys' = [keys EXCEPT ![u] = AfterConsume(keys[u], m.header)]
          /\ UNCHANGED <<calling, wire>>
      BY <1>11, <2>0 DEF Open
    <2>2. sessions' = [sessions EXCEPT ![u][m.from] = s]
      BY <2>0
    <2>3. /\ s.dh_self.kind = "signed"
          /\ \A key \in s.session_id.dh3 : key.kind = "one_time" =>
               key.owner = u /\ key.n = opk /\ opk \in keys[u].opks
      BY AcceptedRoot DEF EphemeralKind, Key
    <2>4. /\ AfterConsume(keys[u], m.header) \in Keys
          /\ AfterConsume(keys[u], m.header).opks = keys[u].opks \ {opk}
          /\ AfterConsume(keys[u], m.header).generated = keys[u].generated
          /\ keys[u].opks \subseteq Nat
      <3>1. keys[u] \in Keys
        BY DEF Shape
      <3> QED
        BY <3>1 DEF AfterConsume, Keys
    <2>5. new.at = u /\ new.session_id = s.session_id
      OBVIOUS
    <2> HIDE DEF s, opk, new
    <2>7. Shape'
      BY <2>1, <2>2, <2>4 DEF Shape
    <2>8. EphemeralKind'
      BY <2>1, <2>2, <2>3 DEF Shape, EphemeralKind
    <2>9. Gone'
      <3>1. \A w \in Client : /\ keys'[w].opks \subseteq keys[w].opks
                              /\ keys'[w].generated = keys[w].generated
        BY <2>1, <2>4 DEF Shape
      <3>2. opk \notin keys'[u].opks
        BY <2>1, <2>4 DEF Shape
      <3> QED
        BY <2>1, <2>3, <2>4, <2>5, <3>1, <3>2 DEF Gone
    <2>10. OneTimeKeyOnce'
      <3>1. \A old \in opened : \A key \in old.session_id.dh3 \cap new.session_id.dh3 :
              key.kind # "one_time"
        BY <2>3, <2>5 DEF Gone, Shape
      <3> QED
        BY <2>1, <3>1 DEF OneTimeKeyOnce
    <2> QED
      BY <2>7, <2>8, <2>9, <2>10
  <1>12. ASSUME NEW u \in Client, Restart(u) PROVE OneTimeInv'
    <2> DEFINE k == Restarted(keys[u])
    <2>1. /\ keys' = [keys EXCEPT ![u] = k]
          /\ sessions' = [sessions EXCEPT ![u] = [v \in Client |-> None]]
          /\ calling' = [calling EXCEPT ![u] = None]
          /\ UNCHANGED <<opened, wire>>
      BY <1>12 DEF Restart
    <2>2. /\ keys[u] \in Keys /\ k \in Keys /\ k.generated >= keys[u].generated
          /\ \A n \in k.opks : n > keys[u].generated /\ n <= k.generated
      <3>1. keys[u] \in Keys
        BY DEF Shape
      <3>2. /\ keys[u].identity + 1 \in Nat /\ keys[u].spk + 1 \in Nat
            /\ keys[u].generated \in Nat /\ keys[u].ephemerals \in Nat
        BY <3>1 DEF Keys
      <3> QED
        BY <3>1, <3>2, NewKeyStoreType DEF Restarted
    <2> HIDE DEF k
    <2>3. Shape' /\ EphemeralKind' /\ OneTimeKeyOnce'
      BY <2>1, <2>2 DEF Shape, EphemeralKind, OneTimeKeyOnce
    <2>4. Gone'
      <3>1. /\ keys[u].generated \in Nat /\ k.generated \in Nat
            /\ \A n \in k.opks : n \in Nat
        BY <2>2 DEF Keys
      <3>2. \A w \in Client : keys'[w] = IF w = u THEN k ELSE keys[w]
        BY <2>1 DEF Shape
      <3>3. ASSUME NEW w \in Client, NEW n \in keys'[w].opks PROVE n <= keys'[w].generated
        BY <2>2, <3>2, <3>3 DEF Gone
      <3>4. ASSUME NEW x \in opened, NEW key \in x.session_id.dh3, key.kind = "one_time"
            PROVE  /\ x.at \in Client /\ key.owner = x.at
                   /\ key.n \in Nat /\ key.n <= keys'[x.at].generated
                   /\ key.n \notin keys'[x.at].opks
        <4>1. /\ x.at \in Client /\ key.owner = x.at /\ key.n \in Nat
              /\ key.n <= keys[x.at].generated /\ key.n \notin keys[x.at].opks
          BY <3>4 DEF Gone
        <4>2. CASE x.at = u
          BY <2>2, <3>1, <3>2, <4>1, <4>2
        <4>3. CASE x.at # u
          BY <3>2, <4>1, <4>3
        <4> QED
          BY <4>1, <4>2, <4>3
      <3> QED
        BY <2>1, <3>3, <3>4 DEF Gone
    <2> QED
      BY <2>3, <2>4
  <1>13. CASE UNCHANGED vars
    BY <1>13 DEF vars, client_vars, Shape, EphemeralKind, Gone, OneTimeKeyOnce
  <1> QED
    BY <1>1, <1>2, <1>3, <1>4, <1>5, <1>6, <1>8, <1>9, <1>10, <1>11, <1>12, <1>13
    DEF Next, Receive

(* Whatever the server gives out, and whatever is lost, delayed, raced or  *)
(* replayed, the private half of a one-time prekey makes at most one       *)
(* session (consume_one_time_prekey deletes it, no upload brings it back). *)
THEOREM OneTimeKeysOnce == Spec => []OneTimeKeyOnce
  <1>1. OneTimeInv => OneTimeKeyOnce
    BY DEF OneTimeInv
  <1> QED
    BY <1>1, InitOneTime, OneTimeStep, PTL DEF Spec

-----------------------------------------------------------------------------
(***************************************************************************)
(* The two ends of a session.                                              *)
(***************************************************************************)

(* What the session of u with v is made of: by initiate_session ...        *)
InitiatorOf(u, v, s) ==
  /\ s.role = "initiator"
  /\ \E n, spk :
       /\ s.session_id.dh1 = {Key(u, "ephemeral", n), Key(v, "identity", s.peer_sig_public)}
       /\ s.session_id.dh2 = {Key(u, "ephemeral", n), Key(v, "signed", spk)}

(* ... or by accept_session, with any key pair the peer sent under.        *)
ResponderOf(u, v, s, identity) ==
  /\ s.role = "responder"
  /\ \E ephemeral, spk :
       /\ ephemeral.owner = v /\ ephemeral.kind \in {"ephemeral", "ratchet"}
       /\ s.session_id.dh1 = {ephemeral, Key(u, "identity", identity)}
       /\ s.session_id.dh2 = {ephemeral, Key(u, "signed", spk)}

EndOf(u, v, s, identity) ==
  /\ u # v /\ "dh_self" \in DOMAIN s
  /\ s.root_key = [root0 |-> s.session_id, secret |-> s.session_id.dh2]
  /\ s.dh_self.owner = u /\ s.dh_self.kind \in {"ephemeral", "ratchet", "signed"}
  /\ InitiatorOf(u, v, s) \/ ResponderOf(u, v, s, identity)

MadeBy(u, m) ==
  /\ m.from = u /\ m.to # u
  /\ m.ephemeral.owner = u /\ m.ephemeral.kind \in {"ephemeral", "ratchet"}

Ends ==
  \A u, v \in Client : sessions[u][v] # None => EndOf(u, v, sessions[u][v], keys[u].identity)
Messages ==
  /\ \A u \in Client : calling[u] # None => MadeBy(u, calling[u])
  /\ \A m \in wire : MadeBy(m.from, m)

AgreementInv == Shape /\ Ends /\ Messages

-----------------------------------------------------------------------------
(* The two ends of a session_id: the keys in dh1 and dh2 tell them apart.  *)
LEMMA TwoEnds ==
  ASSUME NEW u, NEW v, NEW s, NEW t, NEW i, NEW j,
         EndOf(u, v, s, i), EndOf(v, u, t, j), s.session_id = t.session_id
  PROVE  /\ s.root_key = t.root_key
         /\ s.role # t.role
         /\ s.role = "initiator" => s.peer_sig_public = j
  <1>1. s.root_key = t.root_key
    BY DEF EndOf
  <1>2. ~(InitiatorOf(u, v, s) /\ InitiatorOf(v, u, t))
    <2> SUFFICES ASSUME InitiatorOf(u, v, s), InitiatorOf(v, u, t) PROVE FALSE
      OBVIOUS
    <2>1. PICK n1, n2, spk1, spk2 :
            /\ s.session_id.dh2 = {Key(u, "ephemeral", n1), Key(v, "signed", spk1)}
            /\ t.session_id.dh2 = {Key(v, "ephemeral", n2), Key(u, "signed", spk2)}
      BY DEF InitiatorOf
    <2>2. Key(u, "ephemeral", n1) \in {Key(v, "ephemeral", n2), Key(u, "signed", spk2)}
      BY <2>1
    <2> QED
      BY <2>2 DEF Key, EndOf
  <1>3. ~(ResponderOf(u, v, s, i) /\ ResponderOf(v, u, t, j))
    <2> SUFFICES ASSUME ResponderOf(u, v, s, i), ResponderOf(v, u, t, j) PROVE FALSE
      OBVIOUS
    <2>1. PICK e1, e2, spk1, spk2 :
            /\ e2.kind \in {"ephemeral", "ratchet"}
            /\ s.session_id.dh2 = {e1, Key(u, "signed", spk1)}
            /\ t.session_id.dh2 = {e2, Key(v, "signed", spk2)}
      BY DEF ResponderOf
    <2>2. Key(u, "signed", spk1) \in {e2, Key(v, "signed", spk2)}
      BY <2>1
    <2> QED
      BY <2>1, <2>2 DEF Key, EndOf
  <1>4. ASSUME InitiatorOf(u, v, s), ResponderOf(v, u, t, j) PROVE s.peer_sig_public = j
    <2>1. PICK n1, e2 :
            /\ e2.kind \in {"ephemeral", "ratchet"}
            /\ s.session_id.dh1 =
                 {Key(u, "ephemeral", n1), Key(v, "identity", s.peer_sig_public)}
            /\ t.session_id.dh1 = {e2, Key(v, "identity", j)}
      BY <1>4 DEF InitiatorOf, ResponderOf
    <2>2. Key(v, "identity", s.peer_sig_public) \in {e2, Key(v, "identity", j)}
      BY <2>1
    <2> QED
      BY <2>1, <2>2 DEF Key
  <1>5. \/ InitiatorOf(u, v, s) /\ ResponderOf(v, u, t, j)
        \/ ResponderOf(u, v, s, i) /\ InitiatorOf(v, u, t)
    BY <1>2, <1>3 DEF EndOf
  <1>6. s.role # t.role /\ (s.role = "initiator" => InitiatorOf(u, v, s) /\ ResponderOf(v, u, t, j))
    BY <1>5 DEF InitiatorOf, ResponderOf
  <1> QED
    BY <1>1, <1>4, <1>6

LEMMA InitiatedEnd ==
  ASSUME NEW u, NEW v, u # v, NEW n, NEW prekeys, NEW i
  PROVE  EndOf(u, v, InitiateSession(Key(u, "ephemeral", n), v, prekeys), i)
  <1> DEFINE s == InitiateSession(Key(u, "ephemeral", n), v, prekeys)
  <1>1. /\ s.role = "initiator" /\ s.dh_self = Key(u, "ephemeral", n)
        /\ s.peer_sig_public = prekeys.identity_key
        /\ s.session_id.dh1 =
             {Key(u, "ephemeral", n), Key(v, "identity", prekeys.identity_key)}
        /\ s.session_id.dh2 =
             {Key(u, "ephemeral", n), Key(v, "signed", prekeys.signed_prekey)}
        /\ s.root_key = [root0 |-> s.session_id, secret |-> s.session_id.dh2]
    BY DEF InitiateSession, NewSession, DeriveSessionId, Root0, FirstRoot, Exchange
  <1>2. s.dh_self.owner = u /\ s.dh_self.kind = "ephemeral" /\ "dh_self" \in DOMAIN s
    BY <1>1 DEF Key, InitiateSession, NewSession
  <1> HIDE DEF s
  <1>3. InitiatorOf(u, v, s)
    BY <1>1 DEF InitiatorOf
  <1> QED
    BY <1>1, <1>2, <1>3 DEF EndOf, s

LEMMA AcceptedEnd ==
  ASSUME NEW u, NEW m, MadeBy(m.from, m), m.to = u, NEW k, NEW sig
  PROVE  EndOf(u, m.from, AcceptSession(u, k, m.header, m.ephemeral, sig), k.identity)
  <1> DEFINE s == AcceptSession(u, k, m.header, m.ephemeral, sig)
  <1>1. /\ s.role = "responder" /\ s.dh_self = Key(u, "signed", k.spk)
        /\ s.session_id.dh1 = {m.ephemeral, Key(u, "identity", k.identity)}
        /\ s.session_id.dh2 = {m.ephemeral, Key(u, "signed", k.spk)}
        /\ s.root_key = [root0 |-> s.session_id, secret |-> s.session_id.dh2]
    BY DEF AcceptSession, NewSession, DeriveSessionId, Root0, FirstRoot, Exchange
  <1>2. s.dh_self.owner = u /\ s.dh_self.kind = "signed" /\ "dh_self" \in DOMAIN s
    BY <1>1 DEF Key, AcceptSession, NewSession
  <1> HIDE DEF s
  <1>3. ResponderOf(u, m.from, s, k.identity)
    BY <1>1 DEF ResponderOf, MadeBy
  <1> QED
    BY <1>1, <1>2, <1>3 DEF EndOf, MadeBy, s

(* A rotation leaves alone what was agreed, and what is sent then is sent  *)
(* under an ephemeral or a ratchet key.                                    *)
LEMMA RotatedEnd ==
  ASSUME Shape, Ends, NEW u \in Client, NEW v \in Client, NEW rotates \in BOOLEAN,
         CanSend(u, v, rotates)
  PROVE  /\ EndOf(u, v, Rotated(u, v, rotates), keys[u].identity)
         /\ Rotated(u, v, rotates).dh_self.owner = u
         /\ Rotated(u, v, rotates).dh_self.kind \in {"ephemeral", "ratchet"}
  <1>1. EndOf(u, v, sessions[u][v], keys[u].identity)
    BY DEF CanSend, Ends
  <1>2. CASE rotates
    <2> DEFINE s == sessions[u][v]
               r == [s EXCEPT !.dh_self = Key(u, "ratchet", 0)]
    <2>1. Rotated(u, v, rotates) = r
      BY <1>2 DEF Rotated
    <2>2. /\ r.role = s.role /\ r.session_id = s.session_id /\ r.root_key = s.root_key
          /\ r.peer_sig_public = s.peer_sig_public
      OBVIOUS
    <2>3. r.dh_self = Key(u, "ratchet", 0) \/ r.dh_self = s.dh_self
      OBVIOUS
    <2> QED
      BY <1>1, <2>1, <2>2, <2>3 DEF EndOf, InitiatorOf, ResponderOf, Key
  <1>3. CASE ~rotates
    BY <1>1, <1>3 DEF Rotated, CanSend, MustRotate, EndOf
  <1> QED
    BY <1>2, <1>3

-----------------------------------------------------------------------------
LEMMA InitAgreement == Init => AgreementInv
  BY InitOneTime DEF Init, AgreementInv, OneTimeInv, Ends, Messages

LEMMA AgreementStep == OneTimeInv /\ AgreementInv /\ [Next]_vars => AgreementInv'
  <1> SUFFICES ASSUME OneTimeInv, AgreementInv, [Next]_vars PROVE Ends' /\ Messages'
    BY OneTimeStep DEF OneTimeInv, AgreementInv
  <1> USE DEF AgreementInv
  <1>1. ASSUME UNCHANGED <<sessions, calling, wire>>,
               \A u \in Client : keys'[u].identity = keys[u].identity
        PROVE  Ends' /\ Messages'
    BY <1>1 DEF Ends, Messages
  <1>2. ASSUME NEW u \in Client, GenerateOneTimePrekey(u) PROVE Ends' /\ Messages'
    BY <1>1, <1>2 DEF GenerateOneTimePrekey, WithOneTimePrekey, Shape, Keys
  <1>3. ASSUME NEW u \in Client, RotateSignedPrekey(u) PROVE Ends' /\ Messages'
    BY <1>1, <1>3 DEF RotateSignedPrekey, Shape, Keys
  <1>4. ASSUME \/ \E u \in Client : Publish(u)
               \/ \E bundle \in uploads : HandleUpload(bundle)
               \/ \E opk \in deletes : HandleDelete(opk)
               \/ UNCHANGED vars
        PROVE  Ends' /\ Messages'
    BY <1>1, <1>4 DEF Publish, HandleUpload, HandleDelete, client_vars, vars
  <1>5. ASSUME NEW u \in Client, NEW v \in Client, StartSession(u, v) PROVE Ends' /\ Messages'
    <2> DEFINE ek == Key(u, "ephemeral", keys[u].ephemerals + 1)
    <2>1. PICK prekeys \in GetPrekeys(store[v]) :
            sessions' = [sessions EXCEPT ![u][v] = InitiateSession(ek, v, prekeys)]
      BY <1>5 DEF StartSession
    <2>2. EndOf(u, v, InitiateSession(ek, v, prekeys), keys[u].identity)
      BY <1>5, InitiatedEnd, ContactsAssumption DEF StartSession
    <2>3. /\ \A w \in Client : keys'[w].identity = keys[w].identity
          /\ UNCHANGED <<calling, wire>>
      BY <1>5 DEF StartSession, Shape, Keys
    <2> QED
      BY <2>1, <2>2, <2>3 DEF Shape, Ends, Messages
  <1>6. ASSUME NEW u \in Client, NEW v \in Client, NEW rotates \in BOOLEAN, Send(u, v, rotates)
        PROVE  Ends' /\ Messages'
    <2> DEFINE s == Rotated(u, v, rotates)
               m == [from |-> u, to |-> v, session_id |-> s.session_id,
                     ephemeral |-> s.dh_self, header |-> pending[u][v]]
    <2>1. /\ sessions' = [sessions EXCEPT ![u][v] = s]
          /\ UNCHANGED keys
          /\ \/ calling' = [calling EXCEPT ![u] = m] /\ UNCHANGED wire
             \/ UNCHANGED calling /\ wire' = wire \cup {m}
      BY <1>6 DEF Send
    <2>2. /\ EndOf(u, v, s, keys[u].identity)
          /\ s.dh_self.owner = u /\ s.dh_self.kind \in {"ephemeral", "ratchet"}
      BY <1>6, RotatedEnd DEF Send
    <2>3. MadeBy(u, m) /\ m.from = u
      BY <2>2 DEF MadeBy, EndOf
    <2> HIDE DEF s, m
    <2> QED
      BY <2>1, <2>2, <2>3 DEF Shape, Ends, Messages
  <1>7. ASSUME NEW u \in Client, NEW v \in Client, NEW rotates \in BOOLEAN,
               SendRaises(u, v, rotates)
        PROVE  Ends' /\ Messages'
    <2> DEFINE s == Rotated(u, v, rotates)
    <2>1. sessions' = [sessions EXCEPT ![u][v] = s] /\ UNCHANGED <<keys, calling, wire>>
      BY <1>7 DEF SendRaises
    <2>2. EndOf(u, v, s, keys[u].identity)
      BY <1>7, RotatedEnd DEF SendRaises
    <2> HIDE DEF s
    <2> QED
      BY <2>1, <2>2 DEF Shape, Ends, Messages
  <1>8. ASSUME NEW u \in Client, Return(u) PROVE Ends' /\ Messages'
    <2>1. /\ calling[u] # None /\ wire' = wire \cup {calling[u]}
          /\ calling' = [calling EXCEPT ![u] = None] /\ UNCHANGED <<keys, sessions>>
      BY <1>8 DEF Return, Idle
    <2>2. MadeBy(u, calling[u]) /\ calling[u].from = u
      BY <2>1 DEF Messages, MadeBy
    <2> QED
      BY <2>1, <2>2 DEF Shape, Ends, Messages
  <1>9. ASSUME NEW u \in Client, NEW m \in wire, m.to = u, Open(u, m) PROVE Ends' /\ Messages'
    <2>1. PICK sig \in SignatureKeys(m.from) :
            sessions' = [sessions EXCEPT ![u][m.from] =
                           AcceptSession(u, keys[u], m.header, m.ephemeral, sig)]
      BY <1>9 DEF Open
    <2>2. EndOf(u, m.from, AcceptSession(u, keys[u], m.header, m.ephemeral, sig), keys[u].identity)
      BY <1>9, AcceptedEnd DEF Messages
    <2>3. /\ \A w \in Client : keys'[w].identity = keys[w].identity
          /\ UNCHANGED <<calling, wire>>
      BY <1>9 DEF Open, AfterConsume, Shape, Keys
    <2> QED
      BY <2>1, <2>2, <2>3 DEF Shape, Ends, Messages
  <1>10. ASSUME NEW u \in Client, Restart(u) PROVE Ends' /\ Messages'
    <2>1. /\ sessions' = [sessions EXCEPT ![u] = [v \in Client |-> None]]
          /\ calling' = [calling EXCEPT ![u] = None]
          /\ \A w \in Client : w # u => keys'[w] = keys[w]
          /\ UNCHANGED wire
      BY <1>10 DEF Restart, Shape
    <2> QED
      BY <2>1 DEF Shape, Ends, Messages
  <1> QED
    BY <1>2, <1>3, <1>4, <1>5, <1>6, <1>7, <1>8, <1>9, <1>10 DEF Next, Receive

(* Whatever is lost, raced, outdated, crossed or restarted: two clients    *)
(* that hold one session_id hold one root key, in the two roles, and the   *)
(* initiator knows the key the responder signs with (initiate_session,     *)
(* accept_session, start_session, receive_message).                        *)
THEOREM EndsAgree == Spec => []SessionAgreement
  <1>1. AgreementInv => SessionAgreement
    <2> SUFFICES ASSUME AgreementInv, NEW u \in Client, NEW v \in Client, Agree(u, v)
                 PROVE  /\ sessions[u][v].root_key = sessions[v][u].root_key
                        /\ sessions[u][v].role # sessions[v][u].role
                        /\ sessions[u][v].role = "initiator"
                             => sessions[u][v].peer_sig_public = keys[v].identity
      BY DEF SessionAgreement
    <2>1. /\ EndOf(u, v, sessions[u][v], keys[u].identity)
          /\ EndOf(v, u, sessions[v][u], keys[v].identity)
      BY DEF Agree, AgreementInv, Ends
    <2> QED
      BY <2>1, TwoEnds DEF Agree
  <1> QED
    BY <1>1, InitOneTime, OneTimeStep, InitAgreement, AgreementStep, PTL DEF Spec

-----------------------------------------------------------------------------
(***************************************************************************)
(* Types.                                                                  *)
(***************************************************************************)
LEMMA KeyType ==
  \A u \in Client, kind \in Kind, n \in Nat : Key(u, kind, n) \in KeyPair
  BY DEF Key, KeyPair

LEMMA RootTypes ==
  ASSUME NEW ephemeral \in KeyPair, NEW u \in Client, NEW identity \in Nat, NEW spk \in Nat,
         NEW opk \in Nat \cup {None}
  PROVE  LET root0 == Root0(ephemeral, u, identity, spk, opk)
         IN  /\ root0 \in SessionId
             /\ FirstRoot(root0, ephemeral, u, spk) \in [root0 : SessionId, secret : Secret]
  <1>1. /\ Key(u, "identity", identity) \in KeyPair /\ Key(u, "signed", spk) \in KeyPair
        /\ opk # None => Key(u, "one_time", opk) \in KeyPair
    BY KeyType DEF Kind
  <1>2. Root0(ephemeral, u, identity, spk, opk) \in SessionId
    BY <1>1 DEF Root0, SessionId, Secret, Exchange
  <1> QED
    BY <1>1, <1>2 DEF FirstRoot, Secret, Exchange

LEMMA NewSessionType ==
  ASSUME NEW role \in {"initiator", "responder"}, NEW root0 \in SessionId,
         NEW root_key \in [root0 : SessionId, secret : Secret], NEW dh_self \in KeyPair,
         NEW sig \in Nat \cup {None}
  PROVE  NewSession(role, root0, root_key, dh_self, sig) \in Session
  BY DEF NewSession, DeriveSessionId, Session

LEMMA InitiateType ==
  ASSUME NEW ephemeral \in KeyPair, NEW peer \in Client, NEW record \in UserPrekeyRecord,
         NEW prekeys \in GetPrekeys(record)
  PROVE  InitiateSession(ephemeral, peer, prekeys) \in Session /\ Header(prekeys) \in HeaderFields
  <1>1. /\ prekeys.identity_key \in Nat /\ prekeys.signed_prekey \in Nat
        /\ prekeys.one_time_prekey \in Nat \cup {None}
    BY DEF GetPrekeys, Offered, Unused, UserPrekeyRecord
  <1>2. Header(prekeys) \in HeaderFields
    BY <1>1 DEF Header, HeaderFields
  <1> QED
    BY <1>1, <1>2, RootTypes, NewSessionType DEF InitiateSession

LEMMA AcceptType ==
  ASSUME NEW u \in Client, NEW k \in Keys, NEW header \in HeaderFields \cup {None},
         NEW ephemeral \in KeyPair, NEW sig \in Nat \cup {None}
  PROVE  AcceptSession(u, k, header, ephemeral, sig) \in Session
  <1>1. k.identity \in Nat /\ k.spk \in Nat /\ ConsumedOpk(k, header) \in Nat \cup {None}
    BY DEF ConsumedOpk, Keys
  <1>2. Key(u, "signed", k.spk) \in KeyPair
    BY <1>1, KeyType DEF Kind
  <1> QED
    BY <1>1, <1>2, RootTypes, NewSessionType DEF AcceptSession

LEMMA RotatedType ==
  ASSUME TypeOK, NEW u \in Client, NEW v \in Client, NEW rotates, sessions[u][v] # None
  PROVE  /\ Rotated(u, v, rotates) \in Session
         /\ Rotated(u, v, rotates).session_id = sessions[u][v].session_id
  <1>1. sessions[u][v] \in Session /\ Key(u, "ratchet", 0) \in KeyPair
    BY KeyType DEF TypeOK, Kind
  <1> QED
    BY <1>1 DEF Rotated, Session

LEMMA InitTypeOK == Init => TypeOK
  <1> SUFFICES ASSUME Init PROVE TypeOK
    OBVIOUS
  <1>1. /\ NewKeyStore(0, 0, 0, 0) \in Keys
        /\ NewKeyStore(0, 0, 0, 0).opks \subseteq 1 .. NewKeyStore(0, 0, 0, 0).generated
    BY OneTimeAssumption DEF NewKeyStore, Keys
  <1>2. NoRecord \in UserPrekeyRecord
    BY DEF NoRecord, UserPrekeyRecord
  <1> QED
    BY <1>1, <1>2 DEF Init, TypeOK, Keys

LEMMA TypeOKStep == TypeOK /\ [Next]_vars => TypeOK'
  <1> SUFFICES ASSUME TypeOK, [Next]_vars PROVE TypeOK'
    OBVIOUS
  <1>0. /\ keys \in [Client -> Keys]
        /\ \A u \in Client : keys[u].opks \subseteq 1 .. keys[u].generated
        /\ store \in [Client -> UserPrekeyRecord]
        /\ uploads \subseteq [user_id : Client, identity_key : Nat, signed_prekey : Nat,
                              one_time_prekeys : SUBSET Nat]
        /\ deletes \subseteq KeyPair
        /\ sessions \in [Client -> [Client -> Session \cup {None}]]
        /\ pending \in [Client -> [Client -> HeaderFields \cup {None}]]
        /\ calling \in [Client -> Message \cup {None}]
        /\ wire \subseteq Message
        /\ opened \subseteq [at : Client, session_id : SessionId]
    BY DEF TypeOK, Keys
  <1>k. ASSUME NEW u \in Client, NEW k \in Keys, k.opks \subseteq 1 .. k.generated,
               keys' = [keys EXCEPT ![u] = k]
        PROVE  /\ keys' \in [Client -> Keys]
               /\ \A w \in Client : keys'[w].opks \subseteq 1 .. keys'[w].generated
    BY <1>0, <1>k
  <1>s. ASSUME NEW u \in Client, NEW v \in Client, NEW s \in Session,
               sessions' = [sessions EXCEPT ![u][v] = s]
        PROVE  sessions' \in [Client -> [Client -> Session \cup {None}]]
    BY <1>0, <1>s
  <1>1. ASSUME NEW u \in Client, GenerateOneTimePrekey(u) PROVE TypeOK'
    <2>1. /\ WithOneTimePrekey(keys[u]) \in Keys
          /\ WithOneTimePrekey(keys[u]).opks \subseteq 1 .. WithOneTimePrekey(keys[u]).generated
      <3> DEFINE k == keys[u]
                 opks == k.opks \cup {k.generated + 1}
                 generated == k.generated + 1
      <3>1. /\ k \in Keys /\ opks \in SUBSET Nat /\ generated \in Nat
            /\ opks \subseteq 1 .. generated
        <4>1. k \in Keys /\ k.opks \subseteq 1 .. k.generated /\ k.generated \in Nat
          BY <1>0 DEF Keys
        <4> QED
          BY <4>1
      <3> HIDE DEF opks, generated
      <3>2. [k EXCEPT !.opks = opks, !.generated = generated] \in Keys
        BY <3>1 DEF Keys
      <3>3. /\ [k EXCEPT !.opks = opks, !.generated = generated].opks = opks
            /\ [k EXCEPT !.opks = opks, !.generated = generated].generated = generated
        BY <3>1 DEF Keys
      <3>4. WithOneTimePrekey(k) = [k EXCEPT !.opks = opks, !.generated = generated]
        BY DEF WithOneTimePrekey, opks, generated
      <3> QED
        BY <3>1, <3>2, <3>3, <3>4
    <2>2. /\ keys' = [keys EXCEPT ![u] = WithOneTimePrekey(keys[u])]
          /\ UNCHANGED <<sessions, pending, calling, opened, store, uploads, deletes, wire>>
      BY <1>1 DEF GenerateOneTimePrekey, server_vars
    <2> QED
      BY <1>0, <1>k, <2>1, <2>2 DEF TypeOK, Keys
  <1>2. ASSUME NEW u \in Client, RotateSignedPrekey(u) PROVE TypeOK'
    <2>1. /\ keys' = [keys EXCEPT ![u].spk = keys[u].spk + 1]
          /\ UNCHANGED <<sessions, pending, calling, opened, store, uploads, deletes, wire>>
      BY <1>2 DEF RotateSignedPrekey, server_vars
    <2>2. /\ keys' \in [Client -> Keys]
          /\ \A w \in Client : keys'[w].opks \subseteq 1 .. keys'[w].generated
      <3> DEFINE k == [keys[u] EXCEPT !.spk = keys[u].spk + 1]
      <3>1. k \in Keys /\ k.opks = keys[u].opks /\ k.generated = keys[u].generated
        <4>1. keys[u] \in Keys
          BY <1>0
        <4> QED
          BY <4>1 DEF Keys
      <3>2. keys' = [keys EXCEPT ![u] = k]
        BY <2>1
      <3> HIDE DEF k
      <3> QED
        BY <1>0, <1>k, <3>1, <3>2
    <2> QED
      BY <1>0, <2>1, <2>2 DEF TypeOK, Keys
  <1>3. ASSUME NEW u \in Client, Publish(u) PROVE TypeOK'
    <2>1. PICK bundle : /\ bundle = [user_id |-> u, identity_key |-> keys[u].identity,
                                     signed_prekey |-> keys[u].spk,
                                     one_time_prekeys |-> keys[u].opks]
                        /\ uploads' = uploads \cup {bundle}
      BY <1>3 DEF Publish
    <2>2. bundle \in [user_id : Client, identity_key : Nat, signed_prekey : Nat,
                      one_time_prekeys : SUBSET Nat]
      BY <1>0, <2>1 DEF Keys
    <2>3. UNCHANGED <<keys, sessions, pending, calling, opened, store, deletes, wire>>
      BY <1>3 DEF Publish, client_vars
    <2> QED
      BY <1>0, <2>1, <2>2, <2>3 DEF TypeOK
  <1>4. ASSUME NEW bundle \in uploads, HandleUpload(bundle) PROVE TypeOK'
    <2>1. /\ store' = [store EXCEPT ![bundle.user_id] =
                         UploadPrekeys(store[bundle.user_id], bundle)]
          /\ uploads' \subseteq uploads
          /\ UNCHANGED <<keys, sessions, pending, calling, opened, deletes, wire>>
      BY <1>4 DEF HandleUpload, client_vars
    <2>2. UploadPrekeys(store[bundle.user_id], bundle) \in UserPrekeyRecord
      BY <1>0 DEF UploadPrekeys, UserPrekeyRecord
    <2>3. store' \in [Client -> UserPrekeyRecord]
      BY <1>0, <2>1, <2>2
    <2> QED
      BY <1>0, <2>1, <2>3 DEF TypeOK
  <1>5. ASSUME NEW opk \in deletes, HandleDelete(opk) PROVE TypeOK'
    <2>1. /\ store' = [store EXCEPT ![opk.owner] = MarkOpkUsed(store[opk.owner], opk.n)]
          /\ deletes' \subseteq deletes
          /\ UNCHANGED <<keys, sessions, pending, calling, opened, uploads, wire>>
      BY <1>5 DEF HandleDelete, client_vars
    <2>2. MarkOpkUsed(store[opk.owner], opk.n) \in UserPrekeyRecord
      <3>1. store[opk.owner] \in UserPrekeyRecord /\ opk.n \in Nat
        BY <1>0 DEF KeyPair
      <3> QED
        BY <3>1 DEF MarkOpkUsed, UserPrekeyRecord
    <2>3. store' \in [Client -> UserPrekeyRecord]
      BY <1>0, <2>1, <2>2
    <2> QED
      BY <1>0, <2>1, <2>3 DEF TypeOK
  <1>6. ASSUME NEW u \in Client, NEW v \in Client, StartSession(u, v) PROVE TypeOK'
    <2> DEFINE ek == Key(u, "ephemeral", keys[u].ephemerals + 1)
    <2>1. PICK prekeys \in GetPrekeys(store[v]) :
            /\ sessions' = [sessions EXCEPT ![u][v] = InitiateSession(ek, v, prekeys)]
            /\ pending' = [pending EXCEPT ![u][v] = Header(prekeys)]
      BY <1>6 DEF StartSession
    <2>2. ek \in KeyPair
      BY <1>0, KeyType DEF Keys, Kind
    <2>3. InitiateSession(ek, v, prekeys) \in Session /\ Header(prekeys) \in HeaderFields
      BY <1>0, <2>2, InitiateType
    <2>4. /\ keys' = [keys EXCEPT ![u].ephemerals = keys[u].ephemerals + 1]
          /\ UNCHANGED <<calling, opened, store, uploads, deletes, wire>>
      BY <1>6 DEF StartSession, server_vars
    <2>5. /\ keys' \in [Client -> Keys]
          /\ \A w \in Client : keys'[w].opks \subseteq 1 .. keys'[w].generated
      <3> DEFINE k == [keys[u] EXCEPT !.ephemerals = keys[u].ephemerals + 1]
      <3>1. k \in Keys /\ k.opks = keys[u].opks /\ k.generated = keys[u].generated
        <4>1. keys[u] \in Keys
          BY <1>0
        <4> QED
          BY <4>1 DEF Keys
      <3>2. keys' = [keys EXCEPT ![u] = k]
        BY <2>4
      <3> HIDE DEF k
      <3> QED
        BY <1>0, <1>k, <3>1, <3>2
    <2>6. pending' \in [Client -> [Client -> HeaderFields \cup {None}]]
      BY <1>0, <2>1, <2>3
    <2>7. sessions' \in [Client -> [Client -> Session \cup {None}]]
      BY <1>s, <2>1, <2>3
    <2> QED
      BY <1>0, <2>4, <2>5, <2>6, <2>7 DEF TypeOK, Keys
  <1>7. ASSUME NEW u \in Client, NEW v \in Client, NEW rotates \in BOOLEAN, Send(u, v, rotates)
        PROVE  TypeOK'
    <2> DEFINE s == Rotated(u, v, rotates)
               m == [from |-> u, to |-> v, session_id |-> s.session_id,
                     ephemeral |-> s.dh_self, header |-> pending[u][v]]
    <2>1. s \in Session
      BY <1>7, RotatedType DEF Send, CanSend
    <2>2. m \in Message
      BY <1>0, <2>1 DEF Message, Session
    <2>3. /\ sessions' = [sessions EXCEPT ![u][v] = s]
          /\ pending' = [pending EXCEPT ![u][v] = None]
          /\ UNCHANGED <<keys, opened, store, uploads>>
      BY <1>7 DEF Send
    <2>4. \/ /\ m.header # None /\ m.header.opk_id # None
             /\ deletes' = deletes \cup {Key(v, "one_time", m.header.opk_id)}
             /\ calling' = [calling EXCEPT ![u] = m] /\ wire' = wire
          \/ wire' = wire \cup {m} /\ deletes' = deletes /\ calling' = calling
      BY <1>7 DEF Send
    <2>5. m.header # None /\ m.header.opk_id # None
            => Key(v, "one_time", m.header.opk_id) \in KeyPair
      BY <1>0, KeyType DEF HeaderFields, Kind
    <2>6. sessions' \in [Client -> [Client -> Session \cup {None}]]
      BY <1>s, <2>1, <2>3
    <2> HIDE DEF s, m
    <2>7. /\ calling' \in [Client -> Message \cup {None}] /\ wire' \subseteq Message
          /\ deletes' \subseteq KeyPair
      BY <1>0, <2>2, <2>4, <2>5
    <2>8. pending' \in [Client -> [Client -> HeaderFields \cup {None}]]
      BY <1>0, <2>3
    <2> QED
      BY <1>0, <2>3, <2>6, <2>7, <2>8 DEF TypeOK, Keys
  <1>8. ASSUME NEW u \in Client, NEW v \in Client, NEW rotates \in BOOLEAN,
               SendRaises(u, v, rotates)
        PROVE  TypeOK'
    <2>1. /\ sessions' = [sessions EXCEPT ![u][v] = Rotated(u, v, rotates)]
          /\ pending' = [pending EXCEPT ![u][v] = None]
          /\ UNCHANGED <<keys, calling, opened, store, uploads, deletes, wire>>
      BY <1>8 DEF SendRaises, server_vars
    <2>2. Rotated(u, v, rotates) \in Session
      BY <1>8, RotatedType DEF SendRaises, CanSend
    <2>3. sessions' \in [Client -> [Client -> Session \cup {None}]]
      BY <1>s, <2>1, <2>2
    <2>4. pending' \in [Client -> [Client -> HeaderFields \cup {None}]]
      BY <1>0, <2>1
    <2> QED
      BY <1>0, <2>1, <2>3, <2>4 DEF TypeOK, Keys
  <1>9. ASSUME NEW u \in Client, Return(u) PROVE TypeOK'
    <2>1. /\ calling[u] # None
          /\ calling' = [calling EXCEPT ![u] = None] /\ wire' = wire \cup {calling[u]}
          /\ UNCHANGED <<keys, sessions, pending, opened, store, uploads, deletes>>
      BY <1>9 DEF Return, Idle, server_vars
    <2> QED
      BY <1>0, <2>1 DEF TypeOK, Keys
  <1>10. ASSUME NEW u \in Client, NEW m \in wire, m.to = u, Open(u, m) PROVE TypeOK'
    <2>1. PICK sig \in SignatureKeys(m.from) :
            LET s == AcceptSession(u, keys[u], m.header, m.ephemeral, sig)
            IN  /\ sessions' = [sessions EXCEPT ![u][m.from] = s]
                /\ opened' = opened \cup {[at |-> u, session_id |-> s.session_id]}
      BY <1>10 DEF Open
    <2> DEFINE s == AcceptSession(u, keys[u], m.header, m.ephemeral, sig)
    <2>2. /\ m.from \in Client /\ m.header \in HeaderFields \cup {None} /\ m.ephemeral \in KeyPair
          /\ keys[u] \in Keys
      BY <1>0 DEF Message
    <2>3. sig \in Nat \cup {None}
      BY <1>0, <2>2 DEF SignatureKeys, UserPrekeyRecord
    <2>4. s \in Session
      BY <2>2, <2>3, AcceptType
    <2>5. /\ sessions' = [sessions EXCEPT ![u][m.from] = s]
          /\ opened' = opened \cup {[at |-> u, session_id |-> s.session_id]}
          /\ keys' = [keys EXCEPT ![u] = AfterConsume(keys[u], m.header)]
          /\ UNCHANGED <<pending, calling, store, uploads, deletes, wire>>
      BY <1>10, <2>1 DEF Open, server_vars
    <2> HIDE DEF s
    <2>6. sessions' \in [Client -> [Client -> Session \cup {None}]]
      BY <1>s, <2>2, <2>4, <2>5
    <2>7. s.session_id \in SessionId
      BY <2>4 DEF Session
    <2>8. /\ AfterConsume(keys[u], m.header) \in Keys
          /\ AfterConsume(keys[u], m.header).opks \subseteq
               1 .. AfterConsume(keys[u], m.header).generated
      BY <1>0, <2>2 DEF AfterConsume, Keys
    <2>9. /\ keys' \in [Client -> Keys]
          /\ \A w \in Client : keys'[w].opks \subseteq 1 .. keys'[w].generated
      BY <1>k, <2>5, <2>8
    <2>10. opened' \subseteq [at : Client, session_id : SessionId]
      BY <1>0, <2>5, <2>7
    <2> QED
      BY <1>0, <2>5, <2>6, <2>9, <2>10 DEF TypeOK, Keys
  <1>11. ASSUME NEW u \in Client, Restart(u) PROVE TypeOK'
    <2>1. /\ keys' = [keys EXCEPT ![u] = Restarted(keys[u])]
          /\ sessions' = [sessions EXCEPT ![u] = [v \in Client |-> None]]
          /\ pending' = [pending EXCEPT ![u] = [v \in Client |-> None]]
          /\ calling' = [calling EXCEPT ![u] = None]
          /\ UNCHANGED <<opened, store, uploads, deletes, wire>>
      BY <1>11 DEF Restart, server_vars
    <2>2. /\ Restarted(keys[u]) \in Keys
          /\ Restarted(keys[u]).opks \subseteq 1 .. Restarted(keys[u]).generated
      <3>1. /\ keys[u].identity + 1 \in Nat /\ keys[u].spk + 1 \in Nat
            /\ keys[u].generated \in Nat /\ keys[u].ephemerals \in Nat
        BY <1>0 DEF Keys
      <3> DEFINE k == Restarted(keys[u])
      <3>2. k \in Keys /\ \A n \in k.opks : n > keys[u].generated /\ n <= k.generated
        BY <3>1, NewKeyStoreType DEF Restarted
      <3> HIDE DEF k
      <3>3. \A n \in k.opks : n \in Nat /\ n >= 1
        BY <3>1, <3>2 DEF Keys
      <3>4. k.opks \subseteq 1 .. k.generated
        BY <3>2, <3>3 DEF Keys
      <3> QED
        BY <3>2, <3>4 DEF k
    <2>3. /\ keys' \in [Client -> Keys]
          /\ \A w \in Client : keys'[w].opks \subseteq 1 .. keys'[w].generated
      BY <1>k, <2>1, <2>2
    <2> QED
      BY <1>0, <2>1, <2>3 DEF TypeOK, Keys
  <1>12. CASE UNCHANGED vars
    BY <1>0, <1>12 DEF vars, client_vars, server_vars, TypeOK, Keys
  <1> QED
    BY <1>1, <1>2, <1>3, <1>4, <1>5, <1>6, <1>7, <1>8, <1>9, <1>10, <1>11, <1>12
    DEF Next, Receive

(* The clients, the server and what is on its way keep their types, for    *)
(* any clients, contacts, faults and bounds.                               *)
THEOREM TypeCorrect == Spec => []TypeOK
  BY InitTypeOK, TypeOKStep, PTL DEF Spec

-----------------------------------------------------------------------------
(***************************************************************************)
(* The calm setting: bundles are used one at a time and are current, first *)
(* messages arrive first, and nothing is started twice.  A fetch of a      *)
(* signature key or the making of a message may fail.                      *)
(***************************************************************************)
Settled == Faults \subseteq {"no_sig", "raises"}

(* The one-time prekeys that headers of w for v name, in the order they go *)
(* through: pending, in the call that waits for its DELETE, on the wire.   *)
Waiting(w, v) == {h.opk_id : h \in {pending[w][v]} \ {None}}
Called(w, v) == {m.header.opk_id : m \in {x \in {calling[w]} \ {None} : x.to = v}}
Wired(w, v) == {m.header.opk_id : m \in {x \in wire : x.from = w /\ x.to = v /\ x.header # None}}
Named(w, v) == (Waiting(w, v) \cup Called(w, v) \cup Wired(w, v)) \ {None}

(* Every message is of the session its sender has, and so is the end of    *)
(* its receiver, if there is one.                                          *)
Held(m) == sessions[m.from][m.to] # None /\ sessions[m.from][m.to].session_id = m.session_id
AllHeld ==
  /\ \A m \in wire : Held(m)
  /\ \A u \in Client : calling[u] # None => calling[u].from = u /\ Held(calling[u])
BothEnds ==
  \A u, v \in Client : sessions[u][v] # None /\ sessions[v][u] # None =>
    sessions[u][v].session_id = sessions[v][u].session_id

(* A message with a header makes its receiver derive its session_id.       *)
Fits(v, session_id, ephemeral, header) ==
  session_id = Root0(ephemeral, v, keys[v].identity, keys[v].spk, header.opk_id)
CanOpen ==
  /\ \A m \in wire : m.header # None /\ sessions[m.to][m.from] = None =>
       Fits(m.to, m.session_id, m.ephemeral, m.header)
  /\ \A u \in Client : calling[u] # None =>
       /\ calling[u].header # None /\ calling[u].header.opk_id # None
       /\ sessions[calling[u].to][u] = None =>
            Fits(calling[u].to, calling[u].session_id, calling[u].ephemeral, calling[u].header)
  /\ \A u, v \in Client : pending[u][v] # None =>
       /\ sessions[u][v] # None /\ sessions[u][v].dh_self.kind = "ephemeral"
       /\ sessions[v][u] = None =>
            Fits(v, sessions[u][v].session_id, sessions[u][v].dh_self, pending[u][v])

(* A one-time prekey that is named is there until its session opens, no    *)
(* two clients name one, and it is marked once its message is on the wire. *)
NamedOnce ==
  /\ \A w, v \in Client : sessions[v][w] = None => Named(w, v) \subseteq keys[v].opks
  /\ \A w, x, v \in Client : w # x => Named(w, v) \cap Named(x, v) = {}
  /\ \A w, v \in Client : Named(w, v) \subseteq store[v].listed
  /\ \A w, v \in Client : Wired(w, v) \ {None} \subseteq store[v].used
  /\ \A w, v \in Client : \A n \in Called(w, v) :
       Key(v, "one_time", n) \in deletes \/ n \in store[v].used

(* The server offers keys that are there, of the identity that is there.   *)
Current ==
  /\ \A v \in Client : Unused(store[v]) \subseteq keys[v].opks \cup {None}
  /\ \A v \in Client : store[v].registered => store[v].identity_key = keys[v].identity
  /\ \A bundle \in uploads : bundle.identity_key = keys[bundle.user_id].identity

SettledInv == AllHeld /\ BothEnds /\ CanOpen /\ NamedOnce /\ Current

(* A step that changes only the key stores and the server.                 *)
LEMMA KeysGrow ==
  ASSUME TypeOK, SettledInv, UNCHANGED <<sessions, pending, calling, wire>>,
         \A v \in Client : /\ keys'[v].identity = keys[v].identity
                           /\ keys[v].opks \subseteq keys'[v].opks
                           /\ keys'[v].spk = keys[v].spk \/ ~Unopened(v),
         \A v \in Client : /\ store[v].listed \subseteq store'[v].listed
                           /\ store[v].used \subseteq store'[v].used,
         \A w, v \in Client : \A n \in Called(w, v) :
           Key(v, "one_time", n) \in deletes' \/ n \in store'[v].used
  PROVE  AllHeld' /\ BothEnds' /\ CanOpen' /\ NamedOnce'
  <1>0. sessions' = sessions /\ pending' = pending /\ calling' = calling /\ wire' = wire
    OBVIOUS
  <1>1. AllHeld' /\ BothEnds'
    BY <1>0 DEF SettledInv, AllHeld, BothEnds, Held
  <1>2. ASSUME NEW w \in Client, NEW v \in Client, sessions[w][v] # None, sessions[v][w] = None,
               NEW id, NEW ephemeral, NEW header, Fits(v, id, ephemeral, header)
        PROVE  Fits(v, id, ephemeral, header)'
    BY <1>2 DEF Fits, Unopened
  <1>3. CanOpen'
    <2>1. ASSUME NEW m \in wire, m.header # None, sessions[m.to][m.from] = None
          PROVE  Fits(m.to, m.session_id, m.ephemeral, m.header)'
      <3>1. m.to \in Client /\ m.from \in Client /\ sessions[m.from][m.to] # None
        BY DEF TypeOK, Message, SettledInv, AllHeld, Held
      <3> QED
        BY <1>2, <2>1, <3>1 DEF SettledInv, CanOpen
    <2>2. ASSUME NEW u \in Client, calling[u] # None
          PROVE  /\ calling[u].header # None /\ calling[u].header.opk_id # None
                 /\ sessions[calling[u].to][u] = None =>
                      Fits(calling[u].to, calling[u].session_id, calling[u].ephemeral,
                           calling[u].header)'
      <3>1. calling[u].to \in Client /\ sessions[u][calling[u].to] # None
        BY <2>2 DEF TypeOK, Message, SettledInv, AllHeld, Held
      <3> QED
        BY <1>2, <2>2, <3>1 DEF SettledInv, CanOpen
    <2>3. ASSUME NEW u \in Client, NEW v \in Client, pending[u][v] # None
          PROVE  /\ sessions[u][v] # None /\ sessions[u][v].dh_self.kind = "ephemeral"
                 /\ sessions[v][u] = None =>
                      Fits(v, sessions[u][v].session_id, sessions[u][v].dh_self, pending[u][v])'
      <3>1. sessions[u][v] # None
        BY <2>3 DEF SettledInv, CanOpen
      <3> QED
        BY <1>2, <2>3, <3>1 DEF SettledInv, CanOpen
    <2> QED
      BY <1>0, <2>1, <2>2, <2>3 DEF CanOpen, Fits
  <1>4. NamedOnce'
    <2>1. \A w, v : Named(w, v)' = Named(w, v) /\ Wired(w, v)' = Wired(w, v)
                    /\ Called(w, v)' = Called(w, v)
      BY <1>0 DEF Named, Wired, Called, Waiting
    <2> QED
      BY <1>0, <2>1 DEF SettledInv, NamedOnce
  <1> QED
    BY <1>1, <1>3, <1>4

LEMMA KeyStep ==
  ASSUME Settled, TypeOK, SettledInv, NEW u \in Client,
         GenerateOneTimePrekey(u) \/ RotateSignedPrekey(u)
  PROVE  SettledInv'
  <1>1. UNCHANGED <<sessions, pending, calling, store, uploads, deletes, wire>>
    BY DEF GenerateOneTimePrekey, RotateSignedPrekey, server_vars
  <1>2. ASSUME NEW v \in Client
        PROVE  /\ keys'[v].identity = keys[v].identity
               /\ keys[v].opks \subseteq keys'[v].opks
               /\ keys'[v].spk = keys[v].spk \/ ~Unopened(v)
    <2>0. keys \in [Client -> Keys] /\ keys[u] \in Keys
      BY DEF TypeOK, Keys
    <2>1. CASE GenerateOneTimePrekey(u)
      <3>1. keys' = [keys EXCEPT ![u] = WithOneTimePrekey(keys[u])]
        BY <2>1 DEF GenerateOneTimePrekey
      <3>2. /\ WithOneTimePrekey(keys[u]).identity = keys[u].identity
            /\ WithOneTimePrekey(keys[u]).spk = keys[u].spk
            /\ keys[u].opks \subseteq WithOneTimePrekey(keys[u]).opks
        BY <2>0 DEF WithOneTimePrekey, Keys
      <3> QED
        BY <2>0, <3>1, <3>2
    <2>2. CASE RotateSignedPrekey(u)
      <3>1. keys' = [keys EXCEPT ![u].spk = keys[u].spk + 1] /\ ~Unopened(u)
        BY <2>2 DEF RotateSignedPrekey, Settled
      <3> QED
        BY <2>0, <3>1 DEF Keys
    <2> QED
      BY <2>1, <2>2
  <1>3. AllHeld' /\ BothEnds' /\ CanOpen' /\ NamedOnce'
    BY <1>1, <1>2, KeysGrow DEF SettledInv, NamedOnce
  <1>4. Current'
    BY <1>1, <1>2 DEF SettledInv, Current, TypeOK
  <1> QED
    BY <1>3, <1>4 DEF SettledInv

LEMMA ServerStep ==
  ASSUME Settled, TypeOK, SettledInv,
         \/ \E u \in Client : Publish(u)
         \/ \E bundle \in uploads : HandleUpload(bundle)
         \/ \E opk \in deletes : HandleDelete(opk)
  PROVE  SettledInv'
  <1>0. /\ store \in [Client -> UserPrekeyRecord] /\ deletes \subseteq KeyPair
        /\ uploads \subseteq [user_id : Client, identity_key : Nat, signed_prekey : Nat,
                              one_time_prekeys : SUBSET Nat]
    BY DEF TypeOK
  <1>1. ASSUME NEW u \in Client, Publish(u) PROVE SettledInv'
    <2>1. UNCHANGED <<keys, sessions, pending, calling, store, deletes, wire>>
      BY <1>1 DEF Publish, client_vars
    <2>2. \A bundle \in uploads' : bundle \in uploads \/
            (bundle.user_id = u /\ bundle.identity_key = keys[u].identity)
      BY <1>1 DEF Publish
    <2>3. AllHeld' /\ BothEnds' /\ CanOpen' /\ NamedOnce'
      BY <2>1, KeysGrow DEF SettledInv, NamedOnce
    <2>4. Current'
      BY <2>1, <2>2 DEF SettledInv, Current
    <2> QED
      BY <2>3, <2>4 DEF SettledInv
  <1>2. ASSUME NEW bundle \in uploads, HandleUpload(bundle) PROVE SettledInv'
    <2> DEFINE u == bundle.user_id
               record == UploadPrekeys(store[u], bundle)
    <2>1. /\ bundle.one_time_prekeys \subseteq keys[u].opks \ store[u].used
          /\ store' = [store EXCEPT ![u] = record] /\ uploads' \subseteq uploads
          /\ UNCHANGED <<keys, sessions, pending, calling, deletes, wire>>
      BY <1>2 DEF HandleUpload, client_vars, Settled
    <2>2. /\ record.listed = store[u].listed \cup bundle.one_time_prekeys
          /\ record.used = store[u].used
          /\ record.identity_key = keys[u].identity
      BY <2>1 DEF UploadPrekeys, SettledInv, Current
    <2> HIDE DEF record
    <2>3. \A v \in Client : store'[v] = IF v = u THEN record ELSE store[v]
      BY <1>0, <2>1
    <2>4. AllHeld' /\ BothEnds' /\ CanOpen' /\ NamedOnce'
      BY <2>1, <2>2, <2>3, KeysGrow DEF SettledInv, NamedOnce
    <2>5. Current'
      BY <2>1, <2>2, <2>3 DEF SettledInv, Current, Unused
    <2> QED
      BY <2>4, <2>5 DEF SettledInv
  <1>3. ASSUME NEW opk \in deletes, HandleDelete(opk) PROVE SettledInv'
    <2> DEFINE u == opk.owner
               record == MarkOpkUsed(store[u], opk.n)
    <2>1. /\ store' = [store EXCEPT ![u] = record] /\ deletes' = deletes \ {opk}
          /\ UNCHANGED <<keys, sessions, pending, calling, uploads, wire>>
      BY <1>3 DEF HandleDelete, client_vars
    <2>2. /\ record.listed = store[u].listed /\ store[u].used \subseteq record.used
          /\ record.identity_key = store[u].identity_key
          /\ record.registered = store[u].registered
          /\ opk.n \in store[u].listed => opk.n \in record.used
      <3>1. store[u] \in UserPrekeyRecord
        BY <1>0 DEF KeyPair
      <3> QED
        BY <3>1 DEF MarkOpkUsed, UserPrekeyRecord
    <2> HIDE DEF record
    <2>3. \A v \in Client : store'[v] = IF v = u THEN record ELSE store[v]
      BY <1>0, <2>1
    <2>4. ASSUME NEW w \in Client, NEW v \in Client, NEW n \in Called(w, v)
          PROVE  Key(v, "one_time", n) \in deletes' \/ n \in store'[v].used
      <3>1. n \in store[v].listed /\ (Key(v, "one_time", n) \in deletes \/ n \in store[v].used)
        BY DEF SettledInv, NamedOnce, Named, CanOpen, Called
      <3>2. Key(v, "one_time", n) = opk => v = u /\ n = opk.n
        BY DEF Key
      <3> QED
        BY <2>1, <2>2, <2>3, <3>1, <3>2
    <2>5. AllHeld' /\ BothEnds' /\ CanOpen' /\ NamedOnce'
      BY <2>1, <2>2, <2>3, <2>4, KeysGrow
    <2>6. Current'
      BY <2>1, <2>2, <2>3 DEF SettledInv, Current, Unused
    <2> QED
      BY <2>5, <2>6 DEF SettledInv
  <1> QED
    BY <1>1, <1>2, <1>3

(* A step of u's session with v that leaves its session_id.                *)
SessionKept(u, v, s) ==
  /\ s # None /\ s.session_id = sessions[u][v].session_id
  /\ \A x, y \in Client : sessions'[x][y] = IF x = u /\ y = v THEN s ELSE sessions[x][y]

LEMMA RotatedKept ==
  ASSUME TypeOK, NEW u \in Client, NEW v \in Client, NEW rotates \in BOOLEAN,
         CanSend(u, v, rotates), SettledInv,
         sessions' = [sessions EXCEPT ![u][v] = Rotated(u, v, rotates)]
  PROVE  /\ sessions[u][v] # None /\ SessionKept(u, v, Rotated(u, v, rotates))
         /\ pending[u][v] # None => Rotated(u, v, rotates) = sessions[u][v]
  <1>1. sessions[u][v] # None /\ (rotates => MayRotate(u, v))
    BY DEF CanSend
  <1>2. /\ Rotated(u, v, rotates) \in Session
        /\ Rotated(u, v, rotates).session_id = sessions[u][v].session_id
    BY <1>1, RotatedType
  <1>3. pending[u][v] # None => ~rotates
    BY <1>1 DEF MayRotate, SettledInv, CanOpen
  <1>4. \A x, y \in Client : sessions'[x][y] =
          IF x = u /\ y = v THEN Rotated(u, v, rotates) ELSE sessions[x][y]
    BY DEF TypeOK
  <1> QED
    BY <1>1, <1>2, <1>3, <1>4, NoneAssumption DEF SessionKept, Rotated

LEMMA SendStep ==
  ASSUME Settled, TypeOK, SettledInv, NEW u \in Client, NEW v \in Client,
         NEW rotates \in BOOLEAN, Send(u, v, rotates)
  PROVE  SettledInv'
  <1> DEFINE s == Rotated(u, v, rotates)
  <1>0. PICK m : m = [from |-> u, to |-> v, session_id |-> s.session_id,
                      ephemeral |-> s.dh_self, header |-> pending[u][v]]
    OBVIOUS
  <1>1. /\ calling[u] = None
        /\ sessions' = [sessions EXCEPT ![u][v] = s]
        /\ pending' = [pending EXCEPT ![u][v] = None]
        /\ UNCHANGED <<keys, store, uploads>>
    BY DEF Send, CanSend, Idle
  <1>2. \/ /\ m.header # None /\ m.header.opk_id # None
           /\ deletes' = deletes \cup {Key(v, "one_time", m.header.opk_id)}
           /\ calling' = [calling EXCEPT ![u] = m] /\ wire' = wire
        \/ /\ ~(m.header # None /\ m.header.opk_id # None)
           /\ wire' = wire \cup {m} /\ deletes' = deletes /\ calling' = calling
    BY <1>0 DEF Send
  <1>3. /\ sessions[u][v] # None /\ SessionKept(u, v, s)
        /\ pending[u][v] # None => s = sessions[u][v]
    BY <1>1, RotatedKept DEF Send
  <1>4. /\ m.from = u /\ m.to = v /\ m.session_id = sessions[u][v].session_id
        /\ m.ephemeral = s.dh_self /\ m.header = pending[u][v]
    BY <1>0, <1>3 DEF SessionKept
  <1> HIDE DEF s
  <1>5. /\ \A x, y \in Client : pending'[x][y] = IF x = u /\ y = v THEN None ELSE pending[x][y]
        /\ \A x \in Client : calling'[x] = calling[x] \/ (x = u /\ calling'[x] = m)
        /\ \A x \in Client : x # u => calling'[x] = calling[x]
        /\ \A x \in wire' : x \in wire \/ x = m
        /\ \A x \in wire : x.from \in Client /\ x.to \in Client
        /\ \A x \in Client : calling[x] # None => calling[x].to \in Client
    BY <1>1, <1>2 DEF TypeOK, Message
  <1>6. \A x, y \in Client : /\ sessions'[x][y] = None <=> sessions[x][y] = None
                             /\ sessions'[x][y].session_id = sessions[x][y].session_id
    BY <1>3 DEF SessionKept
  <1>7. \A x : x.from \in Client /\ x.to \in Client /\ Held(x) => Held(x)'
    BY <1>6 DEF Held
  <1>8. Held(m)'
    BY <1>3, <1>4, <1>6 DEF Held
  <1>9. AllHeld'
    BY <1>4, <1>5, <1>7, <1>8 DEF SettledInv, AllHeld
  <1>10. BothEnds'
    BY <1>6 DEF SettledInv, BothEnds
  <1>11. m.header # None /\ sessions[v][u] = None =>
           Fits(v, m.session_id, m.ephemeral, m.header)
    BY <1>3, <1>4 DEF SettledInv, CanOpen
  <1>12. \A x, id, ephemeral, header : Fits(x, id, ephemeral, header)' <=>
                                         Fits(x, id, ephemeral, header)
    BY <1>1 DEF Fits
  <1>13. CanOpen'
    <2>1. ASSUME NEW x \in wire', x.header # None, sessions'[x.to][x.from] = None
          PROVE  Fits(x.to, x.session_id, x.ephemeral, x.header)'
      BY <1>4, <1>5, <1>6, <1>11, <1>12, <2>1 DEF SettledInv, CanOpen
    <2>2. ASSUME NEW x \in Client, calling'[x] # None
          PROVE  /\ calling'[x].header # None /\ calling'[x].header.opk_id # None
                 /\ sessions'[calling'[x].to][x] = None =>
                      Fits(calling[x].to, calling[x].session_id, calling[x].ephemeral,
                           calling[x].header)'
      <3>1. CASE calling'[x] = calling[x]
        BY <1>1, <1>5, <1>6, <2>2, <3>1 DEF SettledInv, CanOpen, Fits
      <3>2. CASE x = u /\ calling'[x] = m /\ calling'[x] # calling[x]
        <4>1. m.header # None /\ m.header.opk_id # None
          BY <1>2, <3>2
        <4> QED
          BY <1>1, <1>4, <1>6, <1>11, <3>2, <4>1 DEF Fits
      <3> QED
        BY <1>5, <3>1, <3>2
    <2>3. ASSUME NEW x \in Client, NEW y \in Client, pending'[x][y] # None
          PROVE  /\ sessions'[x][y] # None /\ sessions'[x][y].dh_self.kind = "ephemeral"
                 /\ sessions'[y][x] = None =>
                      Fits(y, sessions[x][y].session_id, sessions[x][y].dh_self, pending[x][y])'
      <3>1. pending'[x][y] = pending[x][y] /\ sessions'[x][y] = sessions[x][y]
        BY <1>3, <1>5, <2>3 DEF SessionKept
      <3> QED
        BY <1>1, <1>6, <2>3, <3>1 DEF SettledInv, CanOpen, Fits
    <2> QED
      BY <2>1, <2>2, <2>3 DEF CanOpen
  <1>14. /\ \A x, y \in Client : Named(x, y)' \subseteq Named(x, y)
         /\ \A x, y \in Client : Wired(x, y)' \ {None} \subseteq Wired(x, y)
         /\ \A x, y \in Client : \A n \in Called(x, y)' :
              n \in Called(x, y) \/ Key(y, "one_time", n) \in deletes'
    <2>1. ASSUME NEW x \in Client, NEW y \in Client, NEW n \in Wired(x, y)', n # None
          PROVE  n \in Wired(x, y)
      BY <1>2, <1>5, <2>1 DEF Wired
    <2>2. ASSUME NEW x \in Client, NEW y \in Client, NEW n \in Called(x, y)'
          PROVE  \/ n \in Called(x, y)
                 \/ n \in Waiting(x, y) /\ Key(y, "one_time", n) \in deletes'
      <3>1. CASE calling'[x] = calling[x]
        BY <2>2, <3>1 DEF Called
      <3>2. CASE x = u /\ calling'[x] = m /\ calling'[x] # calling[x]
        BY <1>2, <1>4, <2>2, <3>2 DEF Called, Waiting
      <3> QED
        BY <1>5, <3>1, <3>2
    <2>3. ASSUME NEW x \in Client, NEW y \in Client, NEW n \in Waiting(x, y)'
          PROVE  n \in Waiting(x, y)
      BY <1>5, <2>3 DEF Waiting
    <2> QED
      BY <2>1, <2>2, <2>3 DEF Named
  <1>15. NamedOnce'
    <2>1. deletes \subseteq deletes'
      BY <1>2
    <2> QED
      BY <1>1, <1>6, <1>14, <2>1 DEF SettledInv, NamedOnce
  <1>16. Current'
    BY <1>1 DEF SettledInv, Current
  <1> QED
    BY <1>9, <1>10, <1>13, <1>15, <1>16 DEF SettledInv

LEMMA SendRaisesStep ==
  ASSUME Settled, TypeOK, SettledInv, NEW u \in Client, NEW v \in Client,
         NEW rotates \in BOOLEAN, SendRaises(u, v, rotates)
  PROVE  SettledInv'
  <1> DEFINE s == Rotated(u, v, rotates)
  <1>1. /\ sessions' = [sessions EXCEPT ![u][v] = s]
        /\ pending' = [pending EXCEPT ![u][v] = None]
        /\ UNCHANGED <<keys, calling, store, uploads, deletes, wire>>
    BY DEF SendRaises, server_vars
  <1>2. sessions[u][v] # None /\ SessionKept(u, v, s)
    BY <1>1, RotatedKept DEF SendRaises
  <1> HIDE DEF s
  <1>3. /\ \A x, y \in Client : pending'[x][y] = IF x = u /\ y = v THEN None ELSE pending[x][y]
        /\ \A x \in wire : x.from \in Client /\ x.to \in Client
        /\ \A x \in Client : calling[x] # None => calling[x].to \in Client
    BY <1>1 DEF TypeOK, Message
  <1>4. \A x, y \in Client : /\ sessions'[x][y] = None <=> sessions[x][y] = None
                             /\ sessions'[x][y].session_id = sessions[x][y].session_id
    BY <1>2 DEF SessionKept
  <1>5. \A x : x.from \in Client /\ x.to \in Client /\ Held(x) => Held(x)'
    BY <1>4 DEF Held
  <1>6. AllHeld'
    BY <1>1, <1>3, <1>5 DEF SettledInv, AllHeld
  <1>7. BothEnds'
    BY <1>4 DEF SettledInv, BothEnds
  <1>8. CanOpen'
    <2>1. ASSUME NEW x \in wire', x.header # None, sessions'[x.to][x.from] = None
          PROVE  Fits(x.to, x.session_id, x.ephemeral, x.header)'
      BY <1>1, <1>3, <1>4, <2>1 DEF SettledInv, CanOpen, Fits
    <2>2. ASSUME NEW x \in Client, calling'[x] # None
          PROVE  /\ calling'[x].header # None /\ calling'[x].header.opk_id # None
                 /\ sessions'[calling'[x].to][x] = None =>
                      Fits(calling[x].to, calling[x].session_id, calling[x].ephemeral,
                           calling[x].header)'
      BY <1>1, <1>3, <1>4, <2>2 DEF SettledInv, CanOpen, Fits
    <2>3. ASSUME NEW x \in Client, NEW y \in Client, pending'[x][y] # None
          PROVE  /\ sessions'[x][y] # None /\ sessions'[x][y].dh_self.kind = "ephemeral"
                 /\ sessions'[y][x] = None =>
                      Fits(y, sessions[x][y].session_id, sessions[x][y].dh_self, pending[x][y])'
      <3>1. pending'[x][y] = pending[x][y] /\ sessions'[x][y] = sessions[x][y]
        BY <1>2, <1>3, <2>3 DEF SessionKept
      <3> QED
        BY <1>1, <1>4, <2>3, <3>1 DEF SettledInv, CanOpen, Fits
    <2> QED
      BY <2>1, <2>2, <2>3 DEF CanOpen
  <1>9. \A x, y \in Client : /\ Named(x, y)' \subseteq Named(x, y)
                             /\ Wired(x, y)' = Wired(x, y) /\ Called(x, y)' = Called(x, y)
    BY <1>1, <1>3 DEF Named, Waiting, Wired, Called
  <1>10. NamedOnce'
    BY <1>1, <1>4, <1>9 DEF SettledInv, NamedOnce
  <1>11. Current'
    BY <1>1 DEF SettledInv, Current
  <1> QED
    BY <1>6, <1>7, <1>8, <1>10, <1>11 DEF SettledInv

LEMMA ReturnStep ==
  ASSUME Settled, TypeOK, SettledInv, NEW u \in Client, Return(u)
  PROVE  SettledInv'
  <1> DEFINE m == calling[u]
             n == m.header.opk_id
  <1>1. /\ m # None /\ wire' = wire \cup {m}
        /\ calling' = [calling EXCEPT ![u] = None]
        /\ Key(m.to, "one_time", n) \notin deletes
        /\ UNCHANGED <<keys, sessions, pending, store, uploads, deletes>>
    BY DEF Return, Idle, Settled, server_vars
  <1>2. /\ m.from = u /\ m.to \in Client /\ m.header # None /\ Held(m)
        /\ sessions[m.to][u] = None => Fits(m.to, m.session_id, m.ephemeral, m.header)
    BY <1>1 DEF TypeOK, Message, SettledInv, AllHeld, CanOpen
  <1>3. n \in Called(u, m.to) /\ n \in store[m.to].used
    <2>1. n \in Called(u, m.to)
      BY <1>1 DEF Called
    <2> QED
      BY <1>1, <1>2, <2>1 DEF SettledInv, NamedOnce
  <1>4. /\ \A x \in Client : x # u => calling'[x] = calling[x]
        /\ calling'[u] = None
    BY <1>1 DEF TypeOK
  <1>5. AllHeld'
    BY <1>1, <1>2, <1>4 DEF SettledInv, AllHeld, Held
  <1>6. BothEnds' /\ Current'
    BY <1>1 DEF SettledInv, BothEnds, Current
  <1>7. CanOpen'
    BY <1>1, <1>2, <1>4 DEF SettledInv, CanOpen, Fits
  <1>8. /\ \A x, y \in Client : Waiting(x, y)' = Waiting(x, y)
        /\ \A x, y \in Client : Called(x, y)' \subseteq Called(x, y)
        /\ \A x, y \in Client : \A i \in Wired(x, y)' :
             i \in Wired(x, y) \/ (x = u /\ y = m.to /\ i = n)
    <2>1. \A x, y \in Client : Called(x, y)' \subseteq Called(x, y)
      BY <1>4 DEF Called
    <2>2. ASSUME NEW x \in Client, NEW y \in Client, NEW i \in Wired(x, y)'
          PROVE  i \in Wired(x, y) \/ (x = u /\ y = m.to /\ i = n)
      BY <1>1, <1>2 DEF Wired
    <2> QED
      BY <1>1, <2>1, <2>2 DEF Waiting
  <1> HIDE DEF n
  <1>9. \A x, y \in Client : Named(x, y)' \subseteq Named(x, y)
    BY <1>3, <1>8 DEF Named
  <1>10. NamedOnce'
    BY <1>1, <1>3, <1>8, <1>9 DEF SettledInv, NamedOnce
  <1> QED
    BY <1>5, <1>6, <1>7, <1>10 DEF SettledInv

LEMMA StartStep ==
  ASSUME Settled, TypeOK, SettledInv, NEW u \in Client, NEW v \in Client, StartSession(u, v)
  PROVE  SettledInv'
  <1>1. /\ sessions[u][v] = None /\ sessions[v][u] = None /\ ~Starting(v)
        /\ store[v].registered /\ store[v].signed_prekey = keys[v].spk
        /\ keys' = [keys EXCEPT ![u].ephemerals = keys[u].ephemerals + 1]
        /\ UNCHANGED <<calling, store, uploads, deletes, wire>>
    BY DEF StartSession, Settled, server_vars
  <1>2. PICK ek : ek = Key(u, "ephemeral", keys[u].ephemerals + 1)
    OBVIOUS
  <1>3. PICK prekeys \in GetPrekeys(store[v]) :
          /\ sessions' = [sessions EXCEPT ![u][v] = InitiateSession(ek, v, prekeys)]
          /\ pending' = [pending EXCEPT ![u][v] = Header(prekeys)]
    BY <1>2 DEF StartSession
  <1>4. PICK s : s = InitiateSession(ek, v, prekeys)
    OBVIOUS
  <1>5. PICK h : h = Header(prekeys)
    OBVIOUS
  <1>6. /\ prekeys.identity_key = keys[v].identity /\ prekeys.signed_prekey = keys[v].spk
        /\ prekeys.one_time_prekey \in Unused(store[v]) \cup {None}
    BY <1>1 DEF GetPrekeys, Offered, SettledInv, Current
  <1>7. /\ h.opk_id \in Unused(store[v]) \cup {None}
        /\ s.session_id = Root0(ek, v, keys[v].identity, keys[v].spk, h.opk_id)
        /\ s.dh_self = ek /\ ek.kind = "ephemeral"
    BY <1>2, <1>4, <1>5, <1>6
    DEF Header, InitiateSession, NewSession, DeriveSessionId, Key
  <1>8. s # None
    <2>1. ek \in KeyPair /\ store[v] \in UserPrekeyRecord
      <3>1. keys[u] \in Keys
        BY DEF TypeOK, Keys
      <3>2. keys[u].ephemerals + 1 \in Nat
        BY <3>1 DEF Keys
      <3> QED
        BY <1>2, <3>2, KeyType DEF Kind, TypeOK
    <2> QED
      BY <1>4, <2>1, InitiateType, NoneAssumption
  <1>9. /\ \A x, y \in Client : sessions'[x][y] = IF x = u /\ y = v THEN s ELSE sessions[x][y]
        /\ \A x, y \in Client : pending'[x][y] = IF x = u /\ y = v THEN h ELSE pending[x][y]
        /\ \A x \in wire : x.from \in Client /\ x.to \in Client
        /\ \A x \in Client : calling[x] # None => calling[x].to \in Client
    BY <1>3, <1>4, <1>5 DEF TypeOK, Message
  <1>10. \A x \in Client : /\ keys'[x].identity = keys[x].identity /\ keys'[x].spk = keys[x].spk
                           /\ keys'[x].opks = keys[x].opks
    BY <1>1 DEF TypeOK
  <1>11. AllHeld'
    BY <1>1, <1>9 DEF SettledInv, AllHeld, Held
  <1>12. BothEnds'
    BY <1>1, <1>9 DEF SettledInv, BothEnds
  <1>13. CanOpen'
    <2>1. \A x \in Client : \A id, ephemeral, header :
            Fits(x, id, ephemeral, header)' <=> Fits(x, id, ephemeral, header)
      BY <1>10 DEF Fits
    <2>2. ASSUME NEW x \in wire', x.header # None, sessions'[x.to][x.from] = None
          PROVE  Fits(x.to, x.session_id, x.ephemeral, x.header)'
      <3>1. sessions[x.to][x.from] = None
        BY <1>1, <1>8, <1>9, <2>2
      <3> QED
        BY <1>1, <1>9, <2>1, <2>2, <3>1 DEF SettledInv, CanOpen
    <2>3. ASSUME NEW x \in Client, calling[x] # None
          PROVE  /\ calling[x].header # None /\ calling[x].header.opk_id # None
                 /\ sessions'[calling[x].to][x] = None =>
                      Fits(calling[x].to, calling[x].session_id, calling[x].ephemeral,
                           calling[x].header)
      BY <1>1, <1>8, <1>9, <2>3 DEF SettledInv, CanOpen
    <2>4. ASSUME NEW x \in Client, NEW y \in Client, pending'[x][y] # None
          PROVE  /\ sessions'[x][y] # None /\ sessions'[x][y].dh_self.kind = "ephemeral"
                 /\ sessions'[y][x] = None =>
                      Fits(y, sessions[x][y].session_id, sessions[x][y].dh_self, pending[x][y])'
      <3>1. CASE x = u /\ y = v
        BY <1>7, <1>8, <1>9, <1>10, <3>1 DEF Fits
      <3>2. CASE ~(x = u /\ y = v)
        <4>1. pending'[x][y] = pending[x][y] /\ sessions'[x][y] = sessions[x][y]
          BY <1>9, <3>2
        <4> QED
          BY <1>8, <1>9, <1>10, <2>4, <4>1 DEF SettledInv, CanOpen, Fits
      <3> QED
        BY <3>1, <3>2
    <2> QED
      BY <1>1, <1>9, <1>10, <2>2, <2>3, <2>4 DEF CanOpen, Fits
  <1>14. NamedOnce'
    <2>1. /\ \A x, y \in Client : Wired(x, y)' = Wired(x, y) /\ Called(x, y)' = Called(x, y)
          /\ \A x, y \in Client : \A n \in Waiting(x, y)' :
               n \in Waiting(x, y) \/ (x = u /\ y = v /\ n = h.opk_id)
      BY <1>1, <1>9 DEF Wired, Called, Waiting
    <2>2. \A x, y \in Client : \A n \in Named(x, y)' :
            n # None /\ (n \in Named(x, y) \/ (x = u /\ y = v /\ n = h.opk_id))
      BY <2>1 DEF Named
    <2>3. \A x \in Client : Named(x, v) \subseteq store[v].used
      <3>1. \A x \in Client : Waiting(x, v) = {} /\ Called(x, v) = {}
        BY <1>1 DEF Starting, Idle, Waiting, Called
      <3> QED
        BY <3>1 DEF Named, SettledInv, NamedOnce
    <2>4. h.opk_id # None => /\ h.opk_id \in store[v].listed /\ h.opk_id \notin store[v].used
                             /\ h.opk_id \in keys[v].opks
      BY <1>7 DEF Unused, SettledInv, Current
    <2>5. \A w, x, y \in Client : w # x => Named(w, y)' \cap Named(x, y)' = {}
      BY <2>2, <2>3, <2>4 DEF SettledInv, NamedOnce
    <2>6. \A w, y \in Client : sessions'[y][w] = None => Named(w, y)' \subseteq keys'[y].opks
      <3>1. \A w, y \in Client : sessions'[y][w] = None => sessions[y][w] = None
        BY <1>8, <1>9
      <3> QED
        BY <1>10, <2>2, <2>4, <3>1 DEF SettledInv, NamedOnce
    <2>7. \A w, y \in Client : Named(w, y)' \subseteq store[y].listed
      BY <2>2, <2>4 DEF SettledInv, NamedOnce
    <2> QED
      BY <1>1, <2>1, <2>5, <2>6, <2>7 DEF SettledInv, NamedOnce
  <1>15. Current'
    BY <1>1, <1>10 DEF SettledInv, Current, TypeOK
  <1> QED
    BY <1>11, <1>12, <1>13, <1>14, <1>15 DEF SettledInv

LEMMA OpenStep ==
  ASSUME Settled, TypeOK, SettledInv, NEW u \in Client, NEW m \in wire, m.to = u, Open(u, m)
  PROVE  SettledInv'
  <1>1. /\ sessions[u][m.from] = None /\ m.header # None
        /\ keys' = [keys EXCEPT ![u] = AfterConsume(keys[u], m.header)]
        /\ UNCHANGED <<pending, calling, store, uploads, deletes, wire>>
    BY DEF Open, Settled, server_vars
  <1>2. PICK v : v = m.from
    OBVIOUS
  <1>3. PICK sig \in SignatureKeys(v) : sessions' =
          [sessions EXCEPT ![u][v] = AcceptSession(u, keys[u], m.header, m.ephemeral, sig)]
    BY <1>2 DEF Open
  <1>4. PICK s : s = AcceptSession(u, keys[u], m.header, m.ephemeral, sig)
    OBVIOUS
  <1>5. PICK n : n = m.header.opk_id
    OBVIOUS
  <1>6. /\ v \in Client /\ m.header \in HeaderFields \cup {None} /\ m.ephemeral \in KeyPair
        /\ keys[u] \in Keys /\ store[v] \in UserPrekeyRecord
        /\ sessions[v][u] # None /\ sessions[v][u].session_id = m.session_id
    BY <1>2 DEF TypeOK, Keys, Message, SettledInv, AllHeld, Held
  <1>7. n # None => n \in Named(v, u) /\ n \in keys[u].opks /\ n \in store[u].used
    <2>1. n \in Wired(v, u)
      BY <1>1, <1>2, <1>5 DEF Wired
    <2> QED
      BY <1>1, <1>2, <1>6, <2>1 DEF Named, SettledInv, NamedOnce
  <1>8. ConsumedOpk(keys[u], m.header) = n
    BY <1>1, <1>5, <1>7 DEF ConsumedOpk
  <1>9. s.session_id = m.session_id
    <2>1. m.session_id = Root0(m.ephemeral, u, keys[u].identity, keys[u].spk, n)
      BY <1>1, <1>2, <1>5 DEF SettledInv, CanOpen, Fits
    <2> QED
      BY <1>4, <1>8, <2>1 DEF AcceptSession, NewSession, DeriveSessionId
  <1>10. s # None
    <2>1. sig \in Nat \cup {None}
      BY <1>6 DEF SignatureKeys, UserPrekeyRecord
    <2> QED
      BY <1>4, <1>6, <2>1, AcceptType, NoneAssumption
  <1>11. /\ \A x, y \in Client : sessions'[x][y] = IF x = u /\ y = v THEN s ELSE sessions[x][y]
         /\ \A x \in wire : x.from \in Client /\ x.to \in Client
         /\ \A x \in Client : calling[x] # None => calling[x].to \in Client
    BY <1>3, <1>4, <1>6 DEF TypeOK, Message
  <1>12. \A x \in Client : /\ keys'[x].identity = keys[x].identity /\ keys'[x].spk = keys[x].spk
                           /\ x # u => keys'[x].opks = keys[x].opks
                           /\ x = u => keys'[x].opks = keys[x].opks \ {n}
    <2>1. /\ AfterConsume(keys[u], m.header).identity = keys[u].identity
          /\ AfterConsume(keys[u], m.header).spk = keys[u].spk
          /\ AfterConsume(keys[u], m.header).opks = keys[u].opks \ {n}
      BY <1>6, <1>8 DEF AfterConsume, Keys
    <2> QED
      BY <1>1, <2>1 DEF TypeOK
  <1>13. AllHeld'
    BY <1>1, <1>2, <1>11 DEF SettledInv, AllHeld, Held
  <1>14. BothEnds'
    BY <1>6, <1>9, <1>11 DEF SettledInv, BothEnds
  <1>15. CanOpen'
    <2>1. \A x \in Client : \A id, ephemeral, header :
            Fits(x, id, ephemeral, header)' <=> Fits(x, id, ephemeral, header)
      BY <1>12 DEF Fits
    <2>2. \A x, y \in Client : sessions'[x][y] = None => sessions[x][y] = None
      BY <1>10, <1>11
    <2>3. ASSUME NEW x \in wire, x.header # None, sessions'[x.to][x.from] = None
          PROVE  Fits(x.to, x.session_id, x.ephemeral, x.header)'
      BY <1>11, <2>1, <2>2, <2>3 DEF SettledInv, CanOpen
    <2>4. ASSUME NEW x \in Client, calling[x] # None
          PROVE  /\ calling[x].header # None /\ calling[x].header.opk_id # None
                 /\ sessions'[calling[x].to][x] = None =>
                      Fits(calling[x].to, calling[x].session_id, calling[x].ephemeral,
                           calling[x].header)
      BY <1>11, <2>2, <2>4 DEF SettledInv, CanOpen
    <2>5. ASSUME NEW x \in Client, NEW y \in Client, pending[x][y] # None
          PROVE  /\ sessions'[x][y] # None /\ sessions'[x][y].dh_self.kind = "ephemeral"
                 /\ sessions'[y][x] = None =>
                      Fits(y, sessions[x][y].session_id, sessions[x][y].dh_self, pending[x][y])'
      <3>1. sessions[x][y] # None
        BY <2>5 DEF SettledInv, CanOpen
      <3>2. sessions'[x][y] = sessions[x][y]
        BY <1>1, <1>2, <1>11, <3>1
      <3> QED
        BY <1>1, <1>12, <2>2, <2>5, <3>2 DEF SettledInv, CanOpen, Fits
    <2> QED
      BY <1>1, <1>11, <1>12, <2>3, <2>4, <2>5 DEF CanOpen, Fits
  <1>16. NamedOnce'
    <2>1. \A x, y : /\ Named(x, y)' = Named(x, y) /\ Wired(x, y)' = Wired(x, y)
                    /\ Called(x, y)' = Called(x, y)
      BY <1>1 DEF Named, Wired, Called, Waiting
    <2>2. ASSUME NEW w \in Client, NEW y \in Client, sessions'[y][w] = None
          PROVE  Named(w, y) \subseteq keys'[y].opks
      <3>1. sessions[y][w] = None /\ ~(y = u /\ w = v)
        BY <1>10, <1>11, <2>2
      <3>2. Named(w, y) \subseteq keys[y].opks
        BY <3>1 DEF SettledInv, NamedOnce
      <3>3. CASE y # u
        BY <1>12, <3>2, <3>3
      <3>4. CASE y = u
        <4>1. n \notin Named(w, u)
          <5>1. w # v
            BY <3>1, <3>4
          <5>2. CASE n # None
            BY <1>6, <1>7, <5>1, <5>2 DEF SettledInv, NamedOnce
          <5>3. CASE n = None
            BY <5>3 DEF Named
          <5> QED
            BY <5>2, <5>3
        <4> QED
          BY <1>12, <3>2, <3>4, <4>1
      <3> QED
        BY <3>3, <3>4
    <2> QED
      BY <1>1, <2>1, <2>2 DEF SettledInv, NamedOnce
  <1>17. Current'
    BY <1>1, <1>7, <1>12 DEF SettledInv, Current, Unused, TypeOK
  <1> QED
    BY <1>13, <1>14, <1>15, <1>16, <1>17 DEF SettledInv

LEMMA InitSettled == Init => SettledInv
  BY DEF Init, SettledInv, AllHeld, BothEnds, CanOpen, NamedOnce, Current, Named, Waiting, Called,
         Wired, NoRecord, Unused

LEMMA SettledStep ==
  ASSUME Settled, TypeOK, SettledInv, [Next]_vars
  PROVE  SettledInv'
  <1>1. ASSUME NEW u \in Client PROVE ~Restart(u)
    BY DEF Restart, Settled
  <1>2. CASE UNCHANGED vars
    <2>1. /\ keys' = keys /\ sessions' = sessions /\ pending' = pending /\ calling' = calling
          /\ store' = store /\ uploads' = uploads /\ deletes' = deletes /\ wire' = wire
      BY <1>2 DEF vars, client_vars, server_vars
    <2>2. AllHeld'
      BY <2>1 DEF SettledInv, AllHeld, Held
    <2>3. BothEnds'
      BY <2>1 DEF SettledInv, BothEnds
    <2>4. CanOpen'
      BY <2>1 DEF SettledInv, CanOpen, Fits
    <2>5. NamedOnce'
      <3>1. \A w, v \in Client : /\ Waiting(w, v)' = Waiting(w, v) /\ Called(w, v)' = Called(w, v)
                                 /\ Wired(w, v)' = Wired(w, v)
        BY <2>1 DEF Waiting, Called, Wired
      <3>2. \A w, v \in Client : Named(w, v)' = Named(w, v)
        BY <3>1 DEF Named
      <3> QED
        BY <2>1, <3>1, <3>2 DEF SettledInv, NamedOnce
    <2>6. Current'
      BY <2>1 DEF SettledInv, Current
    <2> QED
      BY <2>2, <2>3, <2>4, <2>5, <2>6 DEF SettledInv
  <1> QED
    BY <1>1, <1>2, KeyStep, ServerStep, StartStep, SendStep, SendRaisesStep, ReturnStep, OpenStep
    DEF Next, Receive

(* While bundles are used one at a time, what the server gives out is      *)
(* current and first messages arrive first, no message reaches a client    *)
(* that holds another session with its sender (start_session,              *)
(* send_message, receive_message, get_prekeys, mark_opk_used).             *)
THEOREM NoneRefused == ASSUME Settled PROVE Spec => []NeverRefused
  <1>1. TypeOK /\ SettledInv => NeverRefused
    BY DEF TypeOK, Message, SettledInv, AllHeld, Held, BothEnds, NeverRefused
  <1>2. TypeOK /\ SettledInv /\ [Next]_vars => SettledInv'
    BY SettledStep
  <1> QED
    BY <1>1, <1>2, InitSettled, TypeCorrect, PTL DEF Spec
=============================================================================
