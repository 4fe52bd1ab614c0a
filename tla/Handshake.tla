------------------------------ MODULE Handshake ------------------------------
(***************************************************************************)
(* The handshake, protocol/handshake.py: the session and the header that   *)
(* initiate_session makes of a fetched bundle, and the session that        *)
(* accept_session makes of the first message.  A key pair is named by its  *)
(* owner, its kind and its rank; an X25519 secret by its two key pairs; a  *)
(* derived key by what it is derived from.  The ratchet keys of a session  *)
(* share one name: here it only matters that they are not the handshake's. *)
(***************************************************************************)
EXTENDS PrekeyServer

CONSTANT Client   \* the users

Kind == {"identity", "signed", "one_time", "ephemeral", "ratchet"}
KeyPair == [owner : Client, kind : Kind, n : Nat]
Key(u, kind, n) == [owner |-> u, kind |-> kind, n |-> n]

Exchange(a, b) == {a, b}

(* Mutant: dh2 is left out. *)
Root0NoDh2(ephemeral, u, identity, spk, opk) ==
  [dh1 |-> Exchange(ephemeral, Key(u, "identity", identity)), dh2 |-> {},
   dh3 |-> IF opk = None THEN {} ELSE Exchange(ephemeral, Key(u, "one_time", opk))]

(* root0: the hash of dh1, dh2 and, with a one-time prekey, dh3.           *)
Root0(ephemeral, u, identity, spk, opk) ==
  [dh1 |-> Exchange(ephemeral, Key(u, "identity", identity)),
   dh2 |-> Exchange(ephemeral, Key(u, "signed", spk)),
   dh3 |-> IF opk = None THEN {} ELSE Exchange(ephemeral, Key(u, "one_time", opk))]

DeriveSessionId(root0) == root0

Secret == SUBSET KeyPair
SessionId == [dh1 : Secret, dh2 : Secret, dh3 : Secret]
HeaderFields == [spk_id : Nat, opk_id : Nat \cup {None}]
Session ==
  [role : {"initiator", "responder"}, session_id : SessionId,
   root_key : [root0 : SessionId, secret : Secret], dh_self : KeyPair,
   peer_sig_public : Nat \cup {None}]   \* the identity it belongs to
Message ==
  [from : Client, to : Client, session_id : SessionId, ephemeral : KeyPair,
   header : HeaderFields \cup {None}]

ASSUME NoneAssumption == None \notin Session   \* Python's None is no session

(* kdf_root: the root key and the initiator's first sending chain.         *)
FirstRoot(root0, ephemeral, u, spk) ==
  [root0 |-> root0, secret |-> Exchange(ephemeral, Key(u, "signed", spk))]

NewSession(role, root0, root_key, dh_self, sig) ==
  [role |-> role, session_id |-> DeriveSessionId(root0), root_key |-> root_key,
   dh_self |-> dh_self, peer_sig_public |-> sig]

InitiateSession(ephemeral, peer, prekeys) ==
  LET spk == prekeys.signed_prekey
      root0 == Root0(ephemeral, peer, prekeys.identity_key, spk, prekeys.one_time_prekey)
  IN  NewSession("initiator", root0, FirstRoot(root0, ephemeral, peer, spk), ephemeral,
                 prekeys.identity_key)

(* Mutant: the header does not name the one-time prekey. *)
HeaderNoOpk(prekeys) == [spk_id |-> prekeys.signed_prekey, opk_id |-> None]

Header(prekeys) == [spk_id |-> prekeys.signed_prekey, opk_id |-> prekeys.one_time_prekey]

(***************************************************************************)
(* accept_session: the responder uses the signed prekey it has now,        *)
(* whatever spk_id says, and goes on without dh3 when it no longer has the *)
(* one-time prekey the header names, or when there is no header.           *)
(***************************************************************************)
ConsumedOpk(keys, header) ==
  IF header # None /\ header.opk_id \in keys.opks THEN header.opk_id ELSE None

AcceptSession(u, keys, header, ephemeral, sig) ==
  LET root0 == Root0(ephemeral, u, keys.identity, keys.spk, ConsumedOpk(keys, header))
  IN  NewSession("responder", root0, FirstRoot(root0, ephemeral, u, keys.spk),
                 Key(u, "signed", keys.spk), sig)

(* Mutant: the key is only marked used, which nobody looks at. *)
AfterConsumeMarks(keys, header) == keys

(* consume_one_time_prekey: the private half leaves the key store.         *)
AfterConsume(keys, header) == [keys EXCEPT !.opks = @ \ {ConsumedOpk(keys, header)}]
=============================================================================
