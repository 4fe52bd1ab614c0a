# OTR++ in TLA+

A verification project for the OTR++ prototype: TLA+ modules translated from
its Python source, TLC runs on small instances, and TLAPS proofs. Line numbers
refer to the repository's files under `src/`.

## The system

| component | state | operations | interacts with |
|---|---|---|---|
| `protocol/messaging.py` | one `SessionState` per end: root key, sending and receiving chain keys, two counters, cached keys of skipped messages, own and peer's DH key, outgoing index | `construct_outgoing_message`, `process_incoming_message`, `_ratchet_send`, `_ratchet_receive` | the peer's `SessionState` by messages; deniability and key derivation by calls |
| `protocol/deniability.py` | queue of MAC keys to be disclosed | `queue_mac_key`, `collect_revealable_mac_keys` | called while a deniable message is made |
| `crypto/encryption.py` | none | `kdf_root`, `kdf_chain`, AES-GCM, HMAC | called by handshake and messaging |
| `protocol/handshake.py` | none | `initiate_session`, `accept_session` | reads a fetched bundle; consumes from the key store |
| `client/client.py` | sessions and pending headers, by peer, all in memory | `publish_prekeys`, `start_session`, `send_message`, `receive_message` | HTTP requests to the server; messages handed to the user |
| `server/prekey_server.py` | a record per user (identity key, signed prekey, one-time prekeys, which are used) and a second dictionary from a one-time prekey to its user | POST, GET, DELETE, in one thread per connection, under one lock | any number of clients at once |
| `crypto/keys.py` | identity, signed prekey, one-time prekeys | generate, rotate, consume, bundle | handshake and client |
| `utils/benchmark_protocols.py` | two pairs of ends driven by one loop: OTR++ and a baseline that has a ratchet of its own | `send`, `receive`, `run_trial` | calls messaging and handshake |
| `crypto/signatures.py`, `utils/conversions.py`, `client/demo_chat.py` | none | wrappers, encodings, a script | not modelled |

What is hard here is not in any single call. Messages are handed to the users,
so they may be lost, come late, twice or damaged; each end rotates its DH key by
a counter the other cannot see; a session is changed before the message that
changes it is authenticated; counters restart at each rotation; a call may raise
half way; a client that is started again has nothing of what its peers and the
server remember of it; and the client, the server and the network share no
transaction, so a prekey given out, a prekey consumed and a prekey marked used
are three events in any order. PROJECT.json lists these hazards at their lines.

What makes each part correct:

- messaging: a message key is used once; a message is read under the key it was
  made with; a message that can be read is; a key that may be needed is kept, and
  only for a message that was made or that a header said was.
- deniability: keys are disclosed old enough, once, and after they were needed;
  the queue does not grow.
- handshake, client, key store: equal session ids mean equal root keys and
  opposite roles; a one-time private key makes one session; both ends come to hold
  the session.
- server: to its callers every request is handled at once; what it gives out in
  one reply came in one upload; the lock is given back.
- benchmark: what is compared does the same work.

## The modules

    KeySchedule   Deniability                PrekeyServer
          \         /                       /     |      \
           Messaging              Handshake  PrekeyThreads ~~> PrekeyStore
            /     \                   |
    SessionPair  Benchmark      Establishment
        ~~> DeliveryWindow

`~~>` is a refinement, stated with `INSTANCE ... WITH` and run as a property.
`MCSessionPair`, `MCEstablishment` and `MCPrekeyThreads` give the constants their
small values. `SessionPairInv` has the inductive invariant of the delivery proofs, in
a module that TLC can read too. The proofs are in modules of their own:
`MessagingProofs` (types of the operators of Messaging), `SessionPairProofs` (under
any faults) and on it `InStepProofs` (while chains arrive in order),
`DeliveryWindowProofs`, `EstablishmentProofs`, `PrekeyThreadsProofs` and on it
`PrekeyStoreProofs`, `BenchmarkProofs`.

**KeySchedule** names a key by what it is derived from: a root key is the
sequence of DH secrets mixed into it, a chain key a seed and a number of steps.
Two keys are equal exactly when they are derived alike. That HKDF and X25519 have
no collisions is the only cryptographic assumption.

**Deniability** has the queue as a set of entries with distinct indices.

**Messaging** is one end. Each operator is a function of the code and maps a
session to the session the code leaves. `Following` is lines 258-264, `IsOld`
and `Cached` 266-273, `FastForward` the loop and derivation at 274-283, in closed
form (a chain key's `step` makes the loop an addition). `message_counter` mirrors
`send_counter` and is left out. Line 264, "missing receiving chain_key", cannot be
reached: a responder has a receiving chain from the start, and it rotates before
its first message, so an initiator that receives sees a new key pair and ratchets.
The ends that the handshake makes are here too (`InitiatorSession`,
`ResponderSession`), since what they have in common decides whether the ratchets
meet.

**SessionPair** makes steps of two ends. `sent` only grows and any of it may be
delivered at any time and any number of times, so loss, duplication and reordering
need no actions of their own. `Send` is the whole of `construct_outgoing_message`,
`SendRaises` its failure at line 206 (a text that is not encodable), which keeps the
rotation and, if the message was to carry the header, has lost that too; one that does
neither changes nothing and is left out. `Receive` is the whole of
`receive_message` and `process_incoming_message`: `Holding` is the session the client
has, or the one `accept_session` makes of the message that arrived, whichever that
is and whether or not it carries a header; a message of another `session_id` is
refused (`Refuse`), and one of this session changes it before, and whether or not,
it turns out to be authentic (`Process`). Lines 252-256, which refuse a message for
another receiver or without a key pair, are never met: the program makes none, and
the network does not alter those fields. `log` is a history variable no guard of the
code's part reads.

What is damaged on its way fails to authenticate, wherever the damage is: ciphertext,
MAC, signature and every field of the header are authenticated. But lines 258-283 act
on two of the fields before that, the counter and the key pair, so these are also
altered in their own right (`Damaged`): the counter to any up to `MaxCounter`, which makes the
loop run past positions or not far enough, and the key pair to one that neither end
made, which makes the session ratchet to it.

What the environment may do is the constant `Faults`. Without `reorder` each
message is delivered once and in order; `stale`, `skip` and `crossing` allow the
three orders of events across rotations that the ratchet cannot survive; `damage`
damages a message, `counter` alters its counter and `keypair` its key pair as well;
`overtaken` and `no_opk` let the responder's session be made of the wrong message, or
without the one-time prekey; `raises` lets the message that carries the header be the
one that cannot be encoded (any later send may raise without it); `no_sig` lets the
responder's fetch of the signature key fail. A property is checked under the largest
set of faults that it survives and that the run can afford, so a run also says what
the property depends on.

**DeliveryWindow** is what a session promises, without keys: a receiver has a chain,
a next position and the positions it skipped, and may read what is ahead or skipped.
`SessionPair!ImplementsWindow` is the refinement: a chain is its key pair's rank, a
position its counter. Every message read in `SessionPair` must be one the window
allows, and every cached key a position the window skipped. A damaged message takes
the place its counter says, its own or one of `Misread`.

**PrekeyServer** is what one request does to the server's record of a user, one
operator per request, and, with `users` and `opk_to_user` together, to the whole
store. A GET offers the first one-time prekey of a dictionary that is not used yet;
which that is depends on the order in which uploads were handled, so `GetPrekeys` is
the set of what may be answered.

**PrekeyThreads** is the server as it runs, one thread for each connection, and the
three methods statement by statement, so that only the lock keeps threads apart: an
upload looks the record up, makes it or replaces its two keys one after the other,
then for each entry first lists it in the record and then notes its user in
`opk_to_user`; a look-up reads three fields. An upload is refused at line 63 after it
replaced two keys, and the `with` statement gives the lock back. Requests the handler cannot use (no route, no JSON object, no
bundle) are one kind, answered without the lock.

**PrekeyStore** is what the server promises: each request handled at once, on the
whole store. `PrekeyThreads!ImplementsStore` is the refinement. An upload takes
effect when its thread gets the lock, so the mapping applies the upload of the
lock's holder to the dictionaries; a GET takes effect when it reads the signed
prekey and a DELETE when it marks, so their replies are owed from there on.

**Handshake** is `initiate_session` and `accept_session`, with the mismatch of
`spk_id` ignored (lines 167-171) and the missing one-time prekey swallowed
(176-182), as in the code. A session's later ratchet keys share one name here.

**Establishment** puts clients, server and network together. A call is one step up
to the request it waits for: `Send` leaves `calling` set, `HandleDelete` happens
whenever the server likes, and `Return` ends the call whether or not it did. The
GET of `start_session` is atomic with what follows it, since the client is blocked
and nothing it does is visible before. `Open` is `receive_message` for a sender
without a session; with one, nothing modelled here changes. `Restart` is a client's
process that ends and is started again under its name: its keys, sessions, headers
and the call it was in are gone, and the new keys have numbers the old ones never
had; the server and the network keep what they have. An identity stands for the
pair of identity and signature key, both of which are made once, when a client is
created. `Faults` again names what may go wrong; each name is explained where it is
declared.

**Benchmark** drives OTR++ and the baseline of `X3DHRatchetBaselineAdapter` by the
same calls: `Send` and `Receive` make a step of both, so that their states can be
compared call by call. `run_trial` loses no message; `Lose` is a caller that does,
because both receive loops are written for that.

## The runs

`CHECK_DEADLOCK FALSE` everywhere but in `server_threads`: users may stop talking,
and the bounds stop them. A server waits for requests for ever, and there deadlock
is checked.

| run | faults | shows |
|---|---|---|
| `pair_any` | all but `no_sig` | types, `UniqueMessageKeys`, `DirectOnce`, `CacheAccounted` |
| `pair_window` | `reorder`, `damage`, `counter`, `raises` | `InStep`, `ImplementsWindow`, `FirstDeliveryAccepted`, `CacheSound`, `NothingLost` |
| `pair_in_order` | `no_sig` | `InStep`, `DisclosureSound`, `BacklogBounded`, `DisclosedAfterAccepted`, `EventuallyAccepted` |
| `pair_replay` | `reorder` | `AcceptedOnce` is violated |
| `pair_stale` | `reorder`, `stale` | `CachedKeyReads` is violated |
| `pair_crossing` | `crossing` | `FirstDeliveryAccepted` is violated |
| `pair_overtaken` | `overtaken`, `reorder` | `FirstDeliveryAccepted` is violated |
| `est_any` | `race`, `unmarked`, `republish`, `again`; two initiators, one receiver | `OneTimeKeyOnce` |
| `est_both_ways` | all but `again`; two clients, both ways | `SessionAgreement` |
| `est_calm` | `no_sig`; two initiators, one receiver | types, `NeverRefused`, `SessionOpens` |
| `server_threads` | uploads that add, change, fail half way, name another user's key | types, `BundleWhole`, `OfferedKnown`, `LockReleased`, `ImplementsStore` |
| `benchmark` | half of the messages lost | `SameRatchet`, `RefusedForLoss` |

Bounds.

- SessionPair: with `RotateInterval` 2, three messages of the initiator are a chain with
  a position to skip, a rotation by counter and a message of the next chain, and one of
  the responder makes it rotate too, before or after (`pair_any`, `pair_window`); a message
  overtaken, repeated or damaged before and after a rotation needs no more. Where the
  network keeps order four and three messages rotate both ends several times
  (`pair_in_order`). `MaxDamaged` 1: a damaged message changes the session like any
  other, and what it changes is there for every later message. `MaxCounter` is the
  highest counter damage may put in a header: 2, in `pair_window`, is past every
  position of a chain of 2, so the window is moved into, to the end of and beyond what
  the sender makes; 1, in `pair_any`, is one past a chain of one message. `MaxRatchets`
  bounds the secrets in a root key, which duplicates of earlier chains and failing sends
  would add forever; 4 to 6 let both ends rotate. `RevealInterval` 2 with four
  messages makes a key wait, be disclosed, and be followed by a second disclosure.
- Establishment: one or two prekeys and one or two sessions per client are enough
  for a key to be given out twice, listed again, consumed and missing. `MaxSigned`,
  `MaxEphemeral` and `MaxRestarts` are functions of the client, so that a run gives
  the second session, the rotation or the restart to the client whose it matters:
  alice starts a second session in `est_any`, bob rotates in `est_calm` and rotates
  and restarts in `est_both_ways`. `MaxUploads` 1 bounds the uploads of one client on
  their way.
- PrekeyThreads: two threads, since the lock is held by one and its properties are
  about a pair; two users and two keys; four uploads, of which one adds, one
  changes, one is refused half way and one is of the other user and names a key the
  first has.
- Benchmark: `Messages` 12 with intervals of 3 is four chains, `MaxLost` 6 two of
  them whole or six messages anywhere.

No run uses symmetry: clients differ in what they may do, and liveness is checked in
three of the runs.

Fairness. `pair_in_order` assumes that a deliverable message is delivered in the
end; sending is never assumed. `est_calm` assumes that the server handles a DELETE
that was sent, that the call waiting for it returns (`urlopen` has a timeout of 5
seconds, client.py:33), and that a message reaches a receiver that has no session
with its sender. Both describe the setting of a network that works; nothing else is
promised by the code. `server_threads` assumes that a thread in the critical section
goes on, since nothing in it waits; nobody is promised the lock, which Python's is
not fair about, nor that a peer reads its reply.

What the violated runs show:

- `pair_replay`: a skipped key stays in `previous_keys` after it is used
  (messaging.py:270), so the same message is accepted twice.
- `pair_stale`: a message of an earlier chain makes the session ratchet before the
  cache is consulted (261), so the key cached for it is not found; the session has
  also lost the chain it was following.
- `pair_crossing`: with one root key for both directions, two ends that both
  rotate before reading the other derive different root keys.
- `pair_overtaken`: the receiver makes its session of whatever arrives first
  (client.py:133). When the second message overtakes the first, it makes one
  without dh3, which the initiator does not have, and refuses both from then on.

## The proofs

For every value of the constants, from the modules' named assumptions only, but for
the theorems that say which faults they exclude:

- `SessionPairProofs!TypeCorrect`: `Spec => []TypeOK`.
- `SessionPairProofs!KeysUnique`: `Spec => []UniqueMessageKeys`, for any faults,
  intervals and bounds. The property is not inductive: it says nothing of the key
  the next send will use. `KeysInv` adds `KeysKnown`, that the last secret in the
  seed of every sending chain and every message key is made of key pairs already
  generated, and `KeysSpent`, that a message key of a sending chain's seed is at
  a step that chain has left behind and that the two ends' chains have different
  seeds. A rotation mixes in a key pair not generated before, so its seed is new
  (`FreshSeed`); between rotations the step grows. `Closed` says what a responder
  without a session is.
- `SessionPairProofs!DirectReadsOnce`: `Spec => []DirectOnce`. `SpentInv` says that
  every accepted and every cached key is before the receiving chain (of a shorter
  seed, or an earlier step of the same one), and that no key taken off the chain
  is in the cache. Every ratchet lengthens the root key, so the chain only moves
  forward, which is why a restarted counter is harmless to these messages.
- `SessionPairProofs!CacheAlwaysAccounted`: `Spec => []CacheAccounted`. `NoGaps` says that
  a party makes the positions of a chain one after the other, so those the loop passes
  over below the counter of a message as it was sent were made; below that of a damaged
  message, which may name any, they need not have been. It is not a bound: a counter
  altered on the way makes the loop cache as many keys as it says, before the message
  is found not to be authentic, and the paper says of the cache that it is unbounded
  (`paper/main.tex`, line 194). What the theorem adds is that nothing else does: replays,
  losses and ratchets back and forth cache no position twice and none that was not made.
- `SessionPairProofs!DisclosedOnceAndLate` and `QueueBounded`: `Spec =>
  []DisclosureSound` and `Spec => []BacklogBounded`. `QueueInv` says that an entry is
  the key of a deniable message of its index which nothing has disclosed, and that
  the indices are distinct and lie in a window of `RevealInterval` (`Young`). With
  unique message keys, two entries of one key are one entry, so what a message
  discloses has left the queue; and an injection of the queue into the window bounds
  its size.
- `EstablishmentProofs!OneTimeKeysOnce`: `Spec => []OneTimeKeyOnce`, for any number
  of clients, keys and restarts. `OneTimeInv` adds that a one-time prekey in the dh3
  of an accepted session belongs to the session's holder, was generated and has left
  its key store, where keys generated later get other numbers, and that no
  ephemeral key of a session or message is a one-time prekey.
- `EstablishmentProofs!EndsAgree`: `Spec => []SessionAgreement`, for any number of clients,
  any faults and restarts. `AgreementInv` says what every session and every message
  is made of (`EndOf`, `MadeBy`): a session's root key is a function of its
  `session_id`; an initiator's dh1 names the identity whose signature key it took, a
  responder's the identity it has now; an ephemeral key's owner tells the two roles
  apart.
- `EstablishmentProofs!TypeCorrect`: `Spec => []TypeOK`, under any faults.
- `EstablishmentProofs!NoneRefused`: `ASSUME Settled PROVE Spec => []NeverRefused`.
  `Settled` allows no fault but `no_sig` and `raises`; each of the others is a way to
  get two sessions between two clients. `SettledInv` follows a one-time prekey from
  the header that waits for its message, through the call that waits for its DELETE,
  to the wire: it is in its owner's store until the session opens, no two clients
  name it, and the server has it marked by the time its message is on the wire
  (`NamedOnce`). Messages are of their sender's session (`AllHeld`, `BothEnds`), their
  header makes the receiver derive it (`CanOpen`), and what the server offers is
  what the owner has (`Current`).
- `InStepProofs`, all `ASSUME Calm`: `StaysInStep`, `Accepts`, `CacheIsSound`, `NoneLost`
  and `Implements` (`Spec => ImplementsWindow`); and, `ASSUME Orderly`,
  `DisclosesAfter`. See below.
- `PrekeyThreadsProofs!TypeCorrect`, `BundlesWhole`, `OffersKnown`: for any number of
  threads, users, keys and uploads, also when users upload each other's ids. `IInv`
  says that who is at a statement of the store holds its lock (`OneHolder`), that what
  a thread has done so far can be read from the store (`SoFar`), that a user's record
  is one upload's but between two statements of the next (`WholeRecords`), that who is
  noted as a key's owner lists it (`OwnersList`), and that a listed key's owner is noted
  unless some thread is about to (`OwnersNoted`). That thread holds the lock, so no
  look-up offers the key before it has (`OfferFrom`).
- `PrekeyStoreProofs!ThreadsImplementStore`: `Spec => ImplementsStore`. From `IInv`,
  each statement of the holder leaves the mapped store as it is or makes the one step
  that is its linearisation point; statements of others do not change it.
- `DeliveryWindowProofs!WindowLosesNothing`: the abstract window's `NothingLost`;
  `WindowInv` adds that what is made, and the window itself, stay behind the place
  where the maker makes its next message.
- `BenchmarkProofs!RatchetsAgree`: `Spec => []SameRatchet`, for every interval, length
  and choice of losses. The initiators' ratchets are the same at every state
  (`AliceSame`). The receivers' are once OTR++'s has the first message, and stay so
  because what is on its way is never behind the receiver (`AheadOfBob`): a counter
  behind it is where the two loops part, OTR++ looking into its cache and the
  baseline taking its next key.
- `BenchmarkProofs!RefusesForLoss`: `Spec => []RefusedForLoss`. Bob is in Alice's chain
  (`InHerChain`), or one rotation behind with the root key hers was derived from and
  nothing of her chain received (`OneBehind`), or a whole chain was lost. Alice
  rotates every `RotateInterval` messages (`AliceCounts`), so her next rotation makes
  the second case the third.

**Staying in step.** There is one root key for both directions, and no end tells the
other what it has mixed in. That a message can be read is therefore a property of
both ends and of all the messages between them, and `InStep` of `SessionPairInv` is
what it takes:

- `Handshaken`: both ends and all messages are of the session `start_session` made.
- `Owners`: an end follows a key pair of its peer, and caches no later one.
- `Roots`: at most one end is ahead, by the key pairs its peer has not seen; the
  root key of the one behind is a prefix of the other's, and the rest are the
  secrets of just these key pairs with the key pair of the one behind.
- `Chains`: each chain key stands where the counter says, and its seed is the one the
  receiver has (for the chain it follows) or will derive (the prefix of the sender's
  root key of the right length). The same of every message made and every key cached.
- `Counters`: a chain's messages come before its next one, and the receiver's window
  does not run ahead of them.
- `CacheSound`, `Passed` and `Outcomes`: a cached key is the right one; a position passed
  was processed or is cached; what was processed undamaged was accepted.

A damaged message is in none of these for what its counter says, but for `Passed` and
`Outcomes`: the position it took, its own or another, is accounted for as spoiled, and
`FirstDeliveryAccepted` excuses only a message whose very position was taken.

None of these is inductive alone. The proof divides the steps in two: an end that
changes by itself (`OwnStep`: a send or a raise, with or without a rotation) and an
end that changes by a message of its peer (`PeerStep`: a receipt, accepted or
not, that follows a new chain, skips, or finds its key in the cache). For each kind
there is one lemma per conjunct (`OwnKeepsRoots`, `PeerKeepsChains`, ...). `Readable` is
where they meet: from `InStep`, the key a receiver reaches for an undamaged message
is the message's.

The refinement needs `InStep` for its hardest case, a receipt that takes a key off
the chain: it is a `ReadNew` or `SpoilNew` of the window because `InStep` puts the
message in the chain the window follows or in the next one. A send is a `Make`, a
raise that keeps a rotation a `BeginChain`, a message read from the cache a
`ReadSkipped`, and everything else a stutter; each has a lemma (`MapsTo...`).
`NothingLost` then follows from `Passed`.
`DisclosesAfter` adds `SeenPrefix`: over a network that keeps order, what an end has seen
of its peer is an initial piece of what the peer sent, and the indices a message
discloses are below its own. Over one that does not keep order a key may come before
the message it authenticated, which `DisclosureSound` only puts `RevealInterval` messages
off.

`Calm` allows `reorder`, `damage`, `counter`, `no_sig` and `raises`. It is no stronger than
needed: `stale`, `crossing`, `overtaken` are refuted by the runs that expect a
violation; `skip` loses a whole chain, `no_opk` makes another session, and `keypair` makes
the session leave its chain for one nobody sends in, as a stale message does. `Orderly` is `Calm`
without `reorder`, `damage` and `counter`, since the key of a message that was overtaken or
damaged is disclosed although the message has not been accepted.

Apart from the named assumptions the theorems rest on the symbolic keys: equal
keys have equal inputs.

Only model-checked: liveness (`EventuallyAccepted`, `SessionOpens`, `LockReleased`),
since fairness is out of the prover's reach. Every other property of a passing run
is a theorem.

TLC runs `again` with `OneTimeKeyOnce` and `restart` with `SessionAgreement` only, which
keeps the runs small; the theorems hold for both properties under all faults. `pair_window`
leaves out `no_sig`, which its theorems allow.

## Not modelled

Encodings, AAD layout, JSON, the texts of errors, and forged messages: messages and
bundles are those the program itself makes, and a damaged message is one of them that
fails to authenticate. Of what a message says in clear, the counter and the key pair are
altered by themselves, since a session acts on them before it authenticates the
message. An altered `session_id` is refused at once, and an altered mode, MAC or
signature makes a message that fails like a damaged ciphertext. Altered handshake
fields and an altered `sender_id` are left out: a receiver without a session would make
one of them, as it does of an altered key pair (`keypair` with `overtaken`). The signature on a signed prekey verifies for a bundle that
comes from the server as it was uploaded, which is what `BundleWhole` is about.
`derive_key` has no caller in the protocol. `signatures.py` and `conversions.py` are
wrappers without state. `demo_chat.py` is a behaviour of the modelled client. Of
`benchmark_protocols.py` the two adapters without session state (one exchange or one
shared key, and a counter that is only authenticated), the timing, the statistics
and the report are left out. A client is driven by one thread: nothing in the
repository calls one client from two.

## Plan

What is left, in the order of what it adds:

1. A module that joins Establishment and SessionPair for one pair of clients, so that
   a replaced session and a restarted client meet the ratchet.
2. With it, `Handshaken` and `Calm` as consequences of `AgreementInv` and of what a run of
   Establishment does, in place of an assumption on `Faults`.
