------------------------------ MODULE Messaging ------------------------------
(***************************************************************************)
(* One end of a session, protocol/messaging.py: the state a SessionState   *)
(* object holds and what constructing or processing one message does to    *)
(* it.  Every operator maps a session to the session the code leaves       *)
(* behind; SessionPair turns them into the steps of two parties.           *)
(*                                                                         *)
(* A message stands for its plaintext by `index', the sender's             *)
(* outgoing_index, for its ciphertext, MAC or signature by the message key *)
(* they were made under, and for its handshake header by `opk', whether it *)
(* names a one-time prekey.  message_counter mirrors send_counter and is   *)
(* left out.                                                               *)
(***************************************************************************)
EXTENDS KeySchedule, Deniability

CONSTANT RotateInterval   \* SessionState.dh_rotate_interval, unchecked by the code

ASSUME RotateIntervalAssumption == RotateInterval \in Int

CachedKey == [chain : KeyPair, counter : Nat, key : ChainKey]
PendingKey == [index : Nat, key : ChainKey]

SessionState ==
  [session_id : Secret,
   root_key : RootKey,
   chain_key : ChainKey,
   receiving_chain_key : ChainKey,
   send_counter : Nat,
   recv_counter : Nat,
   previous_keys : SUBSET CachedKey,
   dh_self : KeyPair,
   dh_remote : KeyPair,
   outgoing_index : Nat,
   pending_mac_keys : SUBSET PendingKey,
   peer_sig_known : BOOLEAN]          \* peer_sig_public is not None

Message ==
  [from : Party,
   session_id : Secret,
   opk : BOOLEAN,
   index : Nat,
   counter : Nat,
   ephemeral : KeyPair,
   mode : Mode,
   key : ChainKey,
   revealed : SUBSET ChainKey]

-----------------------------------------------------------------------------
(***************************************************************************)
(* The two ends as the handshake leaves them.  root0 mixes the secrets of  *)
(* the ephemeral key with the responder's identity key, which never        *)
(* changes, its signed prekey and perhaps a one-time prekey: it is named   *)
(* by the keys that vary, and names the session_id, its hash.              *)
(***************************************************************************)
EK == [owner |-> Initiator, n |-> 1]    \* the initiator's first ephemeral key
SPK == [owner |-> Responder, n |-> 1]   \* the responder's signed prekey
OPK == [owner |-> Responder, n |-> 0]   \* the one-time prekey the server gave out

Root0(ephemeral, opk) == {ephemeral, SPK} \cup IF opk THEN {OPK} ELSE {}

HandshakeRoot(root0, ephemeral) == KdfRoot(<<root0>>, Exchange(ephemeral, SPK))

NewSession(root0, root, sending, receiving, self, remote, sig_known) ==
  [session_id |-> root0,
   root_key |-> root, chain_key |-> sending, receiving_chain_key |-> receiving,
   send_counter |-> 0, recv_counter |-> 0, previous_keys |-> {},
   dh_self |-> self, dh_remote |-> remote,
   outgoing_index |-> 0, pending_mac_keys |-> {}, peer_sig_known |-> sig_known]

InitiatorSession(opk) ==
  LET root0 == Root0(EK, opk)
      derived == HandshakeRoot(root0, EK)
  IN  NewSession(root0, derived.root, derived.chain, NoKey, EK, SPK, TRUE)

(* What accept_session makes of a message's key pair and header.           *)
ResponderSession(ephemeral, opk, sig_known) ==
  LET root0 == Root0(ephemeral, opk)
      derived == HandshakeRoot(root0, ephemeral)
  IN  NewSession(root0, derived.root, NoKey, derived.chain, SPK, ephemeral, sig_known)

(* No session yet, only the signed prekey.                                 *)
NoSession == NewSession({}, <<>>, NoKey, NoKey, SPK, SPK, FALSE)

-----------------------------------------------------------------------------
(* Sending. *)

MaybeRotate(s) ==
  \/ s.chain_key = NoKey
  \/ /\ RotateInterval > 0
     /\ s.send_counter > 0
     /\ s.send_counter % RotateInterval = 0

(* Mutant: send_counter is not reset. *)
RatchetSendKeepsCounter(s) ==
  LET fresh == Generate(s.dh_self)
      derived == KdfRoot(s.root_key, Exchange(fresh, s.dh_remote))
  IN  [s EXCEPT !.dh_self = fresh, !.root_key = derived.root, !.chain_key = derived.chain]

RatchetSend(s) ==
  LET fresh == Generate(s.dh_self)
      derived == KdfRoot(s.root_key, Exchange(fresh, s.dh_remote))
  IN  [s EXCEPT !.dh_self = fresh, !.root_key = derived.root,
                !.chain_key = derived.chain, !.send_counter = 0]

ReadyToSend(s) == IF MaybeRotate(s) THEN RatchetSend(s) ELSE s

(* The message made by a session that is ready to send ... *)
Outgoing(p, s, mode, opk) ==
  LET index == s.outgoing_index + 1
      disclosed == {e.key : e \in Revealable(s.pending_mac_keys, index)}
  IN  [from |-> p, session_id |-> s.session_id, opk |-> opk,
       index |-> index, counter |-> s.send_counter,
       ephemeral |-> s.dh_self, mode |-> mode,
       key |-> KdfChain(s.chain_key).message,
       revealed |-> IF mode = DENIABLE THEN disclosed ELSE {}]

(* Mutant: the MAC key of a verifiable message is queued too. *)
PendingAfterAny(s, mode) ==
  LET index == s.outgoing_index + 1
  IN  Queue(Kept(s.pending_mac_keys, index), index, KdfChain(s.chain_key).message)

PendingAfter(s, mode) ==
  LET index == s.outgoing_index + 1
  IN  IF mode = DENIABLE
      THEN Queue(Kept(s.pending_mac_keys, index), index, KdfChain(s.chain_key).message)
      ELSE s.pending_mac_keys

(* ... and that session once the message is made. *)
AfterSend(s, mode) ==
  [s EXCEPT !.outgoing_index = @ + 1,
            !.pending_mac_keys = PendingAfter(s, mode),
            !.chain_key = KdfChain(s.chain_key).next,
            !.send_counter = @ + 1]

-----------------------------------------------------------------------------
(* Receiving. *)

(* Mutants: the new root key is not kept; recv_counter is not reset. *)
RatchetReceiveKeepsRoot(s, remote) ==
  LET derived == KdfRoot(s.root_key, Exchange(s.dh_self, remote))
  IN  [s EXCEPT !.dh_remote = remote, !.receiving_chain_key = derived.chain,
                !.recv_counter = 0]

RatchetReceiveKeepsCounter(s, remote) ==
  LET derived == KdfRoot(s.root_key, Exchange(s.dh_self, remote))
  IN  [s EXCEPT !.dh_remote = remote, !.root_key = derived.root,
                !.receiving_chain_key = derived.chain]

RatchetReceive(s, remote) ==
  LET derived == KdfRoot(s.root_key, Exchange(s.dh_self, remote))
  IN  [s EXCEPT !.dh_remote = remote, !.root_key = derived.root,
                !.receiving_chain_key = derived.chain, !.recv_counter = 0]

(* A key pair the session does not know as the peer's makes it ratchet, *)
(* before anything of the message is authenticated.                     *)
Following(s, ephemeral) ==
  IF ephemeral # s.dh_remote THEN RatchetReceive(s, ephemeral) ELSE s

(* The cached keys a counter below recv_counter finds: none or one. *)
Cached(s, counter) ==
  {e.key : e \in {c \in s.previous_keys : c.chain = s.dh_remote /\ c.counter = counter}}

(* Mutant: one step too many. *)
ChainAtNext(s, counter) ==
  [s.receiving_chain_key EXCEPT !.step = @ + (counter + 1 - s.recv_counter)]

(* The receiving chain advanced to position `counter'. *)
ChainAt(s, counter) ==
  [s.receiving_chain_key EXCEPT !.step = @ + (counter - s.recv_counter)]

(* Mutants: no skipped key is cached; the key spent last, or the one before *)
(* the chain's position, is cached with them.                               *)
SkippedNone(s, counter) == {}
SkippedFromBefore(s, counter) == (s.recv_counter - 1) .. (counter - 1)
SkippedAndSpent(s, counter) == s.recv_counter .. counter

Skipped(s, counter) == s.recv_counter .. (counter - 1)

(* The loop of process_incoming_message and the derivation after it: the  *)
(* keys it skips are cached, an entry for the same position being         *)
(* overwritten, and the key at `counter' is spent.                        *)
FastForward(s, counter) ==
  LET skipped == Skipped(s, counter)
  IN  [s EXCEPT
        !.previous_keys =
           {e \in @ : ~(e.chain = s.dh_remote /\ e.counter \in skipped)}
             \cup {[chain |-> s.dh_remote, counter |-> n,
                    key |-> KdfChain(ChainAt(s, n)).message] : n \in skipped},
        !.receiving_chain_key = KdfChain(ChainAt(s, counter)).next,
        !.recv_counter = counter + 1]

(* The three outcomes of looking for the key of message m in a session    *)
(* that follows m's chain, and what each leaves behind.                   *)
IsOld(s, m) == m.counter < s.recv_counter
MessageKeys(s, m) ==
  IF IsOld(s, m) THEN Cached(s, m.counter) ELSE {KdfChain(ChainAt(s, m.counter)).message}

(* Mutant: a cached key is removed when it is looked up. *)
AfterKeyPops(s, m) ==
  IF IsOld(s, m)
  THEN [s EXCEPT !.previous_keys =
          {e \in @ : ~(e.chain = s.dh_remote /\ e.counter = m.counter)}]
  ELSE FastForward(s, m.counter)

AfterKey(s, m) == IF IsOld(s, m) THEN s ELSE FastForward(s, m.counter)

(* AES-GCM and the MAC or the signature accept an undamaged message under *)
(* the key it was made with; a signature also needs the peer's key.       *)
Authentic(s, m, intact) ==
  /\ intact
  /\ m.key \in MessageKeys(s, m)
  /\ m.mode = VERIFIABLE => s.peer_sig_known
=============================================================================
