---------------------------- MODULE PrekeyServer ----------------------------
(***************************************************************************)
(* The prekey server, server/prekey_server.py: what each request does to   *)
(* the record the store keeps of one user.  PrekeyThreads shows that the   *)
(* store's lock makes every request one step.  Identity keys, signed and   *)
(* one-time prekeys are numbered in the order their owner generated them.  *)
(***************************************************************************)
EXTENDS Integers, FiniteSets

CONSTANT None   \* Python's None

(* _UserPrekeyRecord: the keys listed, and those of them marked used. *)
UserPrekeyRecord ==
  [registered : BOOLEAN, identity_key : Nat, signed_prekey : Nat,
   listed : SUBSET Nat, used : SUBSET Nat]
NoRecord ==
  [registered |-> FALSE, identity_key |-> 0, signed_prekey |-> 0, listed |-> {}, used |-> {}]

(* POST /prekeys: the identity key and the signed prekey are replaced, the  *)
(* one-time prekeys are added, and one that was listed already is listed as *)
(* unused again.                                                            *)
UploadPrekeys(record, bundle) ==
  [registered |-> TRUE,
   identity_key |-> bundle.identity_key,
   signed_prekey |-> bundle.signed_prekey,
   listed |-> record.listed \cup bundle.one_time_prekeys,
   used |-> record.used \ bundle.one_time_prekeys]

(* GET /prekeys/{user_id}: an unused one-time prekey, which stays unused;   *)
(* 404 if the user never uploaded.  The first one listed is taken: which    *)
(* one that is depends on the order uploads were handled in, so any may.    *)
Unused(record) == record.listed \ record.used

(* Mutant: a key marked used is offered again. *)
OfferedUsed(record) == IF record.listed = {} THEN {None} ELSE record.listed

Offered(record) == IF Unused(record) = {} THEN {None} ELSE Unused(record)
GetPrekeys(record) ==
  {[identity_key |-> record.identity_key, signed_prekey |-> record.signed_prekey,
    one_time_prekey |-> opk] : opk \in Offered(record)}

(* DELETE /prekeys/{opk_id}: 404 if no record lists the key.                *)
MarkOpkUsed(record, opk) ==
  IF opk \in record.listed THEN [record EXCEPT !.used = @ \cup {opk}] ELSE record

-----------------------------------------------------------------------------
(***************************************************************************)
(* The whole store, users and opk_to_user, and what a request leaves of it *)
(* and is answered.  A bundle's one_time_prekeys are its valid entries:    *)
(* the others are ignored.  When one_time_prekeys is no list the upload is *)
(* refused, but only after the identity key and the signed prekey were     *)
(* replaced.                                                               *)
(***************************************************************************)
Accepted(bundle) == IF bundle.is_list THEN bundle ELSE [bundle EXCEPT !.one_time_prekeys = {}]

Uploaded(users, bundle) ==
  [users EXCEPT ![bundle.user_id] = UploadPrekeys(@, Accepted(bundle))]
OwnersUploaded(opk_to_user, bundle) ==
  [opk \in DOMAIN opk_to_user |->
     IF opk \in Accepted(bundle).one_time_prekeys THEN bundle.user_id ELSE opk_to_user[opk]]

Marked(users, owner, opk) ==
  [u \in DOMAIN users |-> IF u = owner THEN MarkOpkUsed(users[u], opk) ELSE users[u]]

NoPrekeys == [identity_key |-> 0, signed_prekey |-> 0, one_time_prekey |-> None]
Reply(status, prekeys) == [status |-> status, prekeys |-> prekeys]
NoReply == Reply(0, NoPrekeys)

UploadReply(bundle) == Reply(IF bundle.is_list THEN 200 ELSE 400, NoPrekeys)
MarkReply(users, owner, opk) ==
  Reply(IF owner # None /\ opk \in users[owner].listed THEN 200 ELSE 404, NoPrekeys)
=============================================================================
