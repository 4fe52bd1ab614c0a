---------------------------- MODULE Establishment ----------------------------
(***************************************************************************)
(* Several clients of client/client.py, their prekey server and the        *)
(* network between them: how sessions come to be.  A client call is one    *)
(* step up to the request it waits for; the server handles a request       *)
(* whenever it likes, also after the client gave up waiting, or never.     *)
(* What the ratchets do once a session stands is SessionPair's subject:    *)
(* here a message is good when it is of the session its receiver holds.    *)
(***************************************************************************)
EXTENDS Handshake

CONSTANTS
  Contacts,         \* the <<initiator, receiver>> pairs that may start a session
  Publishers,       \* the clients that publish prekeys and renew them
  Faults,           \* what may go wrong, a subset of AllFaults
  InitialOneTime,   \* one-time prekeys a client is created with
  MaxOneTime,       \* bound: one-time prekeys a client ever generates
  MaxSigned,        \* bound: signed prekeys each client ever generates
  MaxEphemeral,     \* bound: sessions each client ever starts
  MaxRestarts,      \* bound: restarts of each client's process
  MaxUploads        \* bound: uploads of one client on their way at once

AllFaults ==
  {"race",      \* a bundle is fetched while another initiator is using it
   "unmarked",  \* send_message returns though its DELETE was not handled (yet)
   "republish", \* an upload lists a one-time prekey the server gave out already
   "outdated",  \* a signed prekey changes after the server listed or gave it out
   "overtaken", \* the first message of a session is lost or overtaken
   "raises",    \* the first message of a session cannot be encoded
   "crossed",   \* both ends start a session
   "again",     \* start_session replaces a session
   "restart",   \* a client's process ends and is started again
   "no_sig"}    \* the receiver's fetch of the sender's bundle fails

ASSUME ContactsAssumption == Contacts \subseteq {c \in Client \X Client : c[1] # c[2]}
ASSUME PublishersAssumption == Publishers \subseteq Client
ASSUME FaultsAssumption == Faults \subseteq AllFaults
ASSUME OneTimeAssumption == InitialOneTime \in Nat \ {0}

VARIABLES
  keys,      \* each client's KeyStore, and how many keys it generated
  sessions,  \* each client's _sessions, by peer
  pending,   \* each client's _pending_headers, by peer
  calling,   \* the message send_message will return once its DELETE is over
  store,     \* the server's record of each client
  uploads,   \* POST requests on their way
  deletes,   \* DELETE requests on their way
  wire,      \* the messages returned to the users, delivered in any order
  opened     \* history: the sessions ever accepted, as [at, session_id]

client_vars == <<keys, sessions, pending, calling, opened>>
server_vars == <<store, uploads, deletes>>
vars == <<client_vars, server_vars, wire>>

(* A client as it is created: new keys, numbered after those of the client *)
(* whose user_id and server it takes over, if it is not the first.         *)
NewKeyStore(identity, spk, generated, ephemerals) ==
  [identity |-> identity, spk |-> spk,
   opks |-> (generated + 1) .. (generated + InitialOneTime),
   generated |-> generated + InitialOneTime, ephemerals |-> ephemerals]

Init ==
  /\ keys = [u \in Client |-> NewKeyStore(0, 0, 0, 0)]
  /\ sessions = [u \in Client |-> [v \in Client |-> None]]
  /\ pending = [u \in Client |-> [v \in Client |-> None]]
  /\ calling = [u \in Client |-> None]
  /\ store = [u \in Client |-> NoRecord]
  /\ uploads = {}
  /\ deletes = {}
  /\ wire = {}
  /\ opened = {}

Idle(u) == calling[u] = None
-----------------------------------------------------------------------------
(* The key store. *)

(* Mutant: the new key is not counted. *)
WithOneTimePrekeyUncounted(k) == [k EXCEPT !.opks = @ \cup {k.generated + 1}]

WithOneTimePrekey(k) ==
  [k EXCEPT !.opks = @ \cup {k.generated + 1}, !.generated = @ + 1]

GenerateOneTimePrekey(u) ==
  /\ Idle(u) /\ u \in Publishers
  /\ keys[u].generated < MaxOneTime
  /\ keys' = [keys EXCEPT ![u] = WithOneTimePrekey(@)]
  /\ UNCHANGED <<sessions, pending, calling, opened, server_vars, wire>>

(* A peer started a session with u that u has not accepted yet. *)
Unopened(u) == \E v \in Client : sessions[v][u] # None /\ sessions[u][v] = None

RotateSignedPrekey(u) ==
  /\ Idle(u) /\ u \in Publishers
  /\ keys[u].spk < MaxSigned[u]
  /\ Unopened(u) => "outdated" \in Faults
  /\ keys' = [keys EXCEPT ![u].spk = @ + 1]
  /\ UNCHANGED <<sessions, pending, calling, opened, server_vars, wire>>

(* publish_prekeys: the bundle lists the keys the store holds now. *)
Publish(u) ==
  /\ Idle(u) /\ u \in Publishers
  /\ Cardinality({b \in uploads : b.user_id = u}) < MaxUploads
  /\ uploads' = uploads \cup {[user_id |-> u, identity_key |-> keys[u].identity,
                               signed_prekey |-> keys[u].spk,
                               one_time_prekeys |-> keys[u].opks]}
  /\ UNCHANGED <<client_vars, store, deletes, wire>>
-----------------------------------------------------------------------------
(* The server. *)

HandleUpload(bundle) ==
  LET u == bundle.user_id
  IN  /\ bundle.one_time_prekeys \subseteq keys[u].opks \ store[u].used
           \/ "republish" \in Faults
      /\ store' = [store EXCEPT ![u] = UploadPrekeys(@, bundle)]
      /\ uploads' = uploads \ {bundle}
      /\ UNCHANGED <<client_vars, deletes, wire>>

HandleDelete(opk) ==
  /\ store' = [store EXCEPT ![opk.owner] = MarkOpkUsed(@, opk.n)]
  /\ deletes' = deletes \ {opk}
  /\ UNCHANGED <<client_vars, uploads, wire>>
-----------------------------------------------------------------------------
(* Starting a session. *)

(* A session with v was started whose first message is still to be returned. *)
Starting(v) ==
  \E w \in Client : pending[w][v] # None \/ (~Idle(w) /\ calling[w].to = v)

StartSession(u, v) ==
  /\ Idle(u) /\ <<u, v>> \in Contacts
  /\ store[v].registered
  /\ keys[u].ephemerals < MaxEphemeral[u]
  /\ sessions[u][v] # None => "again" \in Faults
  /\ sessions[v][u] # None => "crossed" \in Faults
  /\ Starting(v) => "race" \in Faults
  /\ store[v].signed_prekey # keys[v].spk => "outdated" \in Faults
  /\ LET ek == Key(u, "ephemeral", keys[u].ephemerals + 1)
     IN  \E prekeys \in GetPrekeys(store[v]) :
           /\ sessions' = [sessions EXCEPT ![u][v] = InitiateSession(ek, v, prekeys)]
           /\ pending' = [pending EXCEPT ![u][v] = Header(prekeys)]
  /\ keys' = [keys EXCEPT ![u].ephemerals = @ + 1]
  /\ UNCHANGED <<calling, opened, server_vars, wire>>
-----------------------------------------------------------------------------
(***************************************************************************)
(* Sending.  A responder rotates before its first message, an initiator    *)
(* whenever its counter says so, but never before its first message.       *)
(***************************************************************************)
MayRotate(u, v) == sessions[u][v].dh_self.kind = "ephemeral" => pending[u][v] = None
MustRotate(u, v) == sessions[u][v].dh_self.kind = "signed"

(* construct_outgoing_message chose its ephemeral key. *)
Rotated(u, v, rotates) ==
  IF rotates THEN [sessions[u][v] EXCEPT !.dh_self = Key(u, "ratchet", 0)] ELSE sessions[u][v]

CanSend(u, v, rotates) ==
  /\ Idle(u) /\ sessions[u][v] # None
  /\ MustRotate(u, v) => rotates
  /\ rotates => MayRotate(u, v)

Send(u, v, rotates) ==
  /\ CanSend(u, v, rotates)
  /\ LET s == Rotated(u, v, rotates)
         m == [from |-> u, to |-> v, session_id |-> s.session_id,
               ephemeral |-> s.dh_self, header |-> pending[u][v]]
     IN  /\ sessions' = [sessions EXCEPT ![u][v] = s]
         /\ IF m.header # None /\ m.header.opk_id # None
            THEN /\ deletes' = deletes \cup {Key(v, "one_time", m.header.opk_id)}
                 /\ calling' = [calling EXCEPT ![u] = m]
                 /\ UNCHANGED wire
            ELSE /\ wire' = wire \cup {m}
                 /\ UNCHANGED <<deletes, calling>>
  /\ pending' = [pending EXCEPT ![u][v] = None]
  /\ UNCHANGED <<keys, opened, store, uploads>>

(* The DELETE was answered, refused or timed out: send_message returns. *)
Return(u) ==
  /\ ~Idle(u)
  /\ LET m == calling[u]
     IN  /\ Key(m.to, "one_time", m.header.opk_id) \in deletes => "unmarked" \in Faults
         /\ wire' = wire \cup {m}
  /\ calling' = [calling EXCEPT ![u] = None]
  /\ UNCHANGED <<keys, sessions, pending, opened, server_vars>>

(* The text cannot be encoded: the header is popped already. *)
SendRaises(u, v, rotates) ==
  /\ CanSend(u, v, rotates)
  /\ pending[u][v] # None => "raises" \in Faults
  /\ sessions' = [sessions EXCEPT ![u][v] = Rotated(u, v, rotates)]
  /\ pending' = [pending EXCEPT ![u][v] = None]
  /\ UNCHANGED <<keys, calling, opened, server_vars, wire>>
-----------------------------------------------------------------------------
(***************************************************************************)
(* Receiving.  Without a session with the sender, whatever arrives opens   *)
(* one, before process_incoming_message looks at the message's session_id. *)
(* With one, receiving changes nothing that is modelled here.              *)
(***************************************************************************)
(* What the receiver's own fetch of the sender's bundle gives it: the       *)
(* signature key the sender uploaded last, or none.                         *)
SignatureKeys(v) ==
  (IF store[v].registered THEN {store[v].identity_key} ELSE {None})
    \cup IF "no_sig" \in Faults THEN {None} ELSE {}

Open(u, m) ==
  /\ Idle(u)
  /\ sessions[u][m.from] = None
  /\ m.header = None => "overtaken" \in Faults
  /\ \E sig \in SignatureKeys(m.from) :
       LET s == AcceptSession(u, keys[u], m.header, m.ephemeral, sig)
       IN  /\ sessions' = [sessions EXCEPT ![u][m.from] = s]
           /\ opened' = opened \cup {[at |-> u, session_id |-> s.session_id]}
  /\ keys' = [keys EXCEPT ![u] = AfterConsume(@, m.header)]
  /\ UNCHANGED <<pending, calling, server_vars, wire>>

Receive(u) == \E m \in wire : m.to = u /\ Open(u, m)

-----------------------------------------------------------------------------
(***************************************************************************)
(* A client keeps everything in memory: when its process ends and a new    *)
(* one takes the same user_id, its keys, sessions and pending headers are  *)
(* gone, and so is the message it was about to return.  What the server    *)
(* keeps and what is on its way stays.                                     *)
(***************************************************************************)
Restarted(k) == NewKeyStore(k.identity + 1, k.spk + 1, k.generated, k.ephemerals)

Restart(u) ==
  /\ "restart" \in Faults /\ keys[u].identity < MaxRestarts[u]
  /\ keys' = [keys EXCEPT ![u] = Restarted(@)]
  /\ sessions' = [sessions EXCEPT ![u] = [v \in Client |-> None]]
  /\ pending' = [pending EXCEPT ![u] = [v \in Client |-> None]]
  /\ calling' = [calling EXCEPT ![u] = None]
  /\ UNCHANGED <<opened, server_vars, wire>>

Next ==
  \/ \E u \in Client :
       \/ Restart(u)
       \/ GenerateOneTimePrekey(u)
       \/ RotateSignedPrekey(u)
       \/ Publish(u)
       \/ Return(u)
       \/ Receive(u)
       \/ \E v \in Client :
            \/ StartSession(u, v)
            \/ \E rotates \in BOOLEAN : Send(u, v, rotates) \/ SendRaises(u, v, rotates)
  \/ \E bundle \in uploads : HandleUpload(bundle)
  \/ \E opk \in deletes : HandleDelete(opk)

Spec == Init /\ [][Next]_vars

(* The server answers, calls return, messages arrive. *)
Fairness ==
  /\ WF_vars(\E opk \in deletes : HandleDelete(opk))
  /\ \A u \in Client : WF_vars(Return(u)) /\ WF_vars(Receive(u))
FairSpec == Spec /\ Fairness
-----------------------------------------------------------------------------
TypeOK ==
  /\ keys \in [Client -> [identity : Nat, spk : Nat, opks : SUBSET Nat,
                          generated : Nat, ephemerals : Nat]]
  /\ \A u \in Client : keys[u].opks \subseteq 1 .. keys[u].generated
  /\ store \in [Client -> UserPrekeyRecord]
  /\ uploads \subseteq [user_id : Client, identity_key : Nat, signed_prekey : Nat,
                        one_time_prekeys : SUBSET Nat]
  /\ deletes \subseteq KeyPair
  /\ sessions \in [Client -> [Client -> Session \cup {None}]]
  /\ pending \in [Client -> [Client -> HeaderFields \cup {None}]]
  /\ calling \in [Client -> Message \cup {None}]
  /\ wire \subseteq Message
  /\ opened \subseteq [at : Client, session_id : SessionId]

(***************************************************************************)
(* Whatever goes wrong.                                                    *)
(***************************************************************************)

(* The private half of a one-time prekey makes at most one session,        *)
(* although the server may give the key out many times and list it again   *)
(* (consume_one_time_prekey, accept_session, upload_prekeys).              *)
OneTimeKeyOnce ==
  \A s1, s2 \in opened : s1 # s2 =>
    \A key \in s1.session_id.dh3 \cap s2.session_id.dh3 : key.kind # "one_time"

(* Two clients hold sessions with each other of the same session_id.       *)
Agree(u, v) ==
  /\ sessions[u][v] # None /\ sessions[v][u] # None
  /\ sessions[u][v].session_id = sessions[v][u].session_id

(* Two ends that agree on the session_id, which is all that                *)
(* process_incoming_message compares, have derived the same root key, one  *)
(* as its initiator and the other as its responder, and the initiator      *)
(* checks signatures with the key the responder signs with now, whatever   *)
(* restarts and outdated bundles there were.                               *)
SessionAgreement ==
  \A u, v \in Client : Agree(u, v) =>
    /\ sessions[u][v].root_key = sessions[v][u].root_key
    /\ sessions[u][v].role # sessions[v][u].role
    /\ sessions[u][v].role = "initiator" => sessions[u][v].peer_sig_public = keys[v].identity

(***************************************************************************)
(* When first messages arrive first, bundles are used one at a time and    *)
(* what the server gives out is current.                                   *)
(***************************************************************************)

(* No message reaches a party that holds another session with its sender:  *)
(* none is refused for its session_id.                                     *)
NeverRefused ==
  \A m \in wire : sessions[m.to][m.from] # None =>
    sessions[m.to][m.from].session_id = m.session_id

(* A session whose first message was made is in the end held by both.      *)
SessionOpens ==
  \A u, v \in Client :
    (sessions[u][v] # None /\ pending[u][v] = None) ~> Agree(u, v)
=============================================================================
