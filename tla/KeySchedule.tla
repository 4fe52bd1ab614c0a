----------------------------- MODULE KeySchedule -----------------------------
(***************************************************************************)
(* The key derivations of crypto/encryption.py, symbolically.  A derived   *)
(* key is named by what it is derived from, so that two keys are equal     *)
(* exactly when they come from the same inputs: HKDF and X25519 are taken  *)
(* to have no collisions, which is the only thing assumed of them.         *)
(***************************************************************************)
EXTENDS Integers, Sequences

CONSTANTS Initiator,  \* the party that called initiate_session
          Responder   \* the party that called accept_session

ASSUME PartiesDiffer == Initiator # Responder

Party == {Initiator, Responder}
Peer(p) == IF p = Initiator THEN Responder ELSE Initiator

(***************************************************************************)
(* An X25519 key pair is named by its owner and by its rank among the keys *)
(* the owner generates for the session; the private half stays implicit.   *)
(***************************************************************************)
KeyPair == [owner : Party, n : Nat]
Generate(pair) == [pair EXCEPT !.n = @ + 1]

(* X25519: both sides compute the same secret from their own private half. *)
Secret == SUBSET KeyPair
Exchange(a, b) == {a, b}

(***************************************************************************)
(* A root key is the sequence of secrets mixed into it so far.  A chain    *)
(* key is a root key's sibling (`seed') advanced `step' times; a message   *)
(* key has the name of the chain key it is split from.                     *)
(***************************************************************************)
RootKey == Seq(Secret)
ChainKey == [seed : RootKey, step : Nat]
NoKey == [seed |-> <<>>, step |-> 0]     \* None: no chain is seeded by <<>>

KdfRoot(root, secret) ==
  LET mixed == Append(root, secret)
  IN  [root |-> mixed, chain |-> [seed |-> mixed, step |-> 0]]

(* Mutant: the chain key is not advanced. *)
KdfChainStuck(ck) == [message |-> ck, next |-> ck]

KdfChain(ck) == [message |-> ck, next |-> [ck EXCEPT !.step = @ + 1]]
=============================================================================
