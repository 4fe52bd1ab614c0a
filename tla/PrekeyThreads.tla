---------------------------- MODULE PrekeyThreads ----------------------------
(***************************************************************************)
(* The prekey server as it runs, server/prekey_server.py: a thread for     *)
(* each connection, one store, one lock.  An upload goes statement by      *)
(* statement and a look-up field by field, so that nothing but the lock    *)
(* keeps a thread from seeing the middle of another's work.                *)
(***************************************************************************)
EXTENDS PrekeyServer

CONSTANTS
  Thread,    \* the handler threads, one for each connection that may be open
  User,
  OneTime,   \* one-time prekey ids
  Bundles    \* what clients upload

Bundle ==
  [user_id : User, identity_key : Nat, signed_prekey : Nat,
   one_time_prekeys : SUBSET OneTime, is_list : BOOLEAN]

ASSUME NamesAssumption == None \notin Thread /\ None \notin User /\ OneTime \subseteq Nat
ASSUME BundlesAssumption == Bundles \subseteq Bundle

VARIABLES
  users,        \* each user's record
  opk_to_user,  \* the user who uploaded each one-time prekey
  lock,         \* the thread in the store's critical section, or None
  pc,           \* the statement each thread is at
  request,      \* the request each thread handles
  todo,         \* the entries of its bundle an upload has still to list
  entry,        \* the entry it has listed and not yet noted the owner of, or None
  reply         \* the reply each thread is making

vars == <<users, opk_to_user, lock, pc, request, todo, entry, reply>>

Request ==
  {[kind |-> "POST", bundle |-> b] : b \in Bundles}
    \cup {[kind |-> "GET", user_id |-> u] : u \in User}
    \cup {[kind |-> "DELETE", opk_id |-> opk] : opk \in OneTime}
    \cup {[kind |-> "bad"]}   \* no route, no JSON object, no bundle
NoRequest == [kind |-> "none"]

Init ==
  /\ users = [u \in User |-> NoRecord]
  /\ opk_to_user = [opk \in OneTime |-> None]
  /\ lock = None
  /\ pc = [t \in Thread |-> "idle"]
  /\ request = [t \in Thread |-> NoRequest]
  /\ todo = [t \in Thread |-> {}]
  /\ entry = [t \in Thread |-> None]
  /\ reply = [t \in Thread |-> NoReply]

Go(t, from, to) == pc[t] = from /\ pc' = [pc EXCEPT ![t] = to]
Answer(t, r) == reply' = [reply EXCEPT ![t] = r]

-----------------------------------------------------------------------------
(* A request comes in; one the handler cannot use needs no lock. *)
Arrive(t) ==
  \E r \in Request :
    /\ request' = [request EXCEPT ![t] = r]
    /\ \/ r.kind # "bad" /\ Go(t, "idle", "waiting") /\ UNCHANGED reply
       \/ /\ r.kind = "bad"
          /\ Go(t, "idle", "reply")
          /\ \E status \in {400, 404} : Answer(t, Reply(status, NoPrekeys))
    /\ UNCHANGED <<users, opk_to_user, lock, todo, entry>>

Entry(kind) ==
  CASE kind = "POST" -> "record" [] kind = "GET" -> "select" [] kind = "DELETE" -> "mark"

(* Mutant: the lock is not waited for. *)
AcquireAny(t) ==
  /\ Go(t, "waiting", Entry(request[t].kind))
  /\ lock' = t
  /\ UNCHANGED <<users, opk_to_user, request, todo, entry, reply>>

Acquire(t) ==
  /\ lock = None
  /\ Go(t, "waiting", Entry(request[t].kind))
  /\ lock' = t
  /\ UNCHANGED <<users, opk_to_user, request, todo, entry, reply>>

Release(t) ==
  /\ Go(t, "release", "reply")
  /\ lock' = None
  /\ UNCHANGED <<users, opk_to_user, request, todo, entry, reply>>

(* The connection is done with: its thread ends. *)
SendReply(t) ==
  /\ Go(t, "reply", "idle")
  /\ request' = [request EXCEPT ![t] = NoRequest]
  /\ Answer(t, NoReply)
  /\ UNCHANGED <<users, opk_to_user, lock, todo, entry>>
-----------------------------------------------------------------------------
(* upload_prekeys. *)
Uploading(t) == request[t].bundle

FindRecord(t) ==
  /\ \/ Go(t, "record", "replace") /\ users[Uploading(t).user_id].registered
     \/ Go(t, "record", "create") /\ ~users[Uploading(t).user_id].registered
  /\ UNCHANGED <<users, opk_to_user, lock, request, todo, entry, reply>>

NewRecord(t) ==
  /\ Go(t, "create", "list")
  /\ LET b == Uploading(t)
     IN  users' = [users EXCEPT ![b.user_id] =
                     [NoRecord EXCEPT !.registered = TRUE, !.identity_key = b.identity_key,
                                      !.signed_prekey = b.signed_prekey]]
  /\ UNCHANGED <<opk_to_user, lock, request, todo, entry, reply>>

ReplaceIdentityKey(t) ==
  /\ Go(t, "replace", "signed")
  /\ users' = [users EXCEPT ![Uploading(t).user_id].identity_key = Uploading(t).identity_key]
  /\ UNCHANGED <<opk_to_user, lock, request, todo, entry, reply>>

ReplaceSignedPrekey(t) ==
  /\ Go(t, "signed", "list")
  /\ users' = [users EXCEPT ![Uploading(t).user_id].signed_prekey = Uploading(t).signed_prekey]
  /\ UNCHANGED <<opk_to_user, lock, request, todo, entry, reply>>

(* "one_time_prekeys must be a list": what was replaced stays replaced. *)
RefuseEntries(t) ==
  /\ Go(t, "list", "release")
  /\ ~Uploading(t).is_list
  /\ Answer(t, Reply(400, NoPrekeys))
  /\ UNCHANGED <<users, opk_to_user, lock, request, todo, entry>>

BeginEntries(t) ==
  /\ Go(t, "list", "entries")
  /\ Uploading(t).is_list
  /\ todo' = [todo EXCEPT ![t] = Uploading(t).one_time_prekeys]
  /\ UNCHANGED <<users, opk_to_user, lock, request, entry, reply>>

(* Mutant: an entry that is there already keeps its mark. *)
ListEntryKeepsMark(t, opk) ==
  /\ Go(t, "entries", "owner")
  /\ opk \in todo[t]
  /\ todo' = [todo EXCEPT ![t] = @ \ {opk}]
  /\ entry' = [entry EXCEPT ![t] = opk]
  /\ users' = [users EXCEPT ![Uploading(t).user_id].listed = @ \cup {opk}]
  /\ UNCHANGED <<opk_to_user, lock, request, reply>>

(* One turn of the loop, in the order of the list, which does not matter:  *)
(* the record lists the entry, then the store notes whose it is.           *)
ListEntry(t, opk) ==
  /\ Go(t, "entries", "owner")
  /\ opk \in todo[t]
  /\ todo' = [todo EXCEPT ![t] = @ \ {opk}]
  /\ entry' = [entry EXCEPT ![t] = opk]
  /\ users' = [users EXCEPT ![Uploading(t).user_id].listed = @ \cup {opk},
                            ![Uploading(t).user_id].used = @ \ {opk}]
  /\ UNCHANGED <<opk_to_user, lock, request, reply>>

NoteOwner(t) ==
  /\ Go(t, "owner", "entries")
  /\ opk_to_user' = [opk_to_user EXCEPT ![entry[t]] = Uploading(t).user_id]
  /\ entry' = [entry EXCEPT ![t] = None]
  /\ UNCHANGED <<users, lock, request, todo, reply>>

EndEntries(t) ==
  /\ Go(t, "entries", "release")
  /\ todo[t] = {}
  /\ Answer(t, Reply(200, NoPrekeys))
  /\ UNCHANGED <<users, opk_to_user, lock, request, todo, entry>>

Upload(t) ==
  \/ FindRecord(t) \/ NewRecord(t) \/ ReplaceIdentityKey(t) \/ ReplaceSignedPrekey(t)
  \/ RefuseEntries(t) \/ BeginEntries(t) \/ EndEntries(t)
  \/ (\E opk \in todo[t] : ListEntry(t, opk)) \/ NoteOwner(t)
-----------------------------------------------------------------------------
(* get_prekeys. *)

(* Mutant: do_GET does not expect the KeyError. *)
UnknownUserUncaught(t) ==
  /\ Go(t, "select", "release")
  /\ ~users[request[t].user_id].registered
  /\ Answer(t, Reply(500, NoPrekeys))
  /\ UNCHANGED <<users, opk_to_user, lock, request, todo, entry>>

UnknownUser(t) ==
  /\ Go(t, "select", "release")
  /\ ~users[request[t].user_id].registered
  /\ Answer(t, Reply(404, NoPrekeys))
  /\ UNCHANGED <<users, opk_to_user, lock, request, todo, entry>>

(* Mutant: with no key left, it looks again until there is one. *)
SelectOpkPolls(t) ==
  \/ /\ Go(t, "select", "identity")
     /\ Unused(users[request[t].user_id]) # {}
     /\ \E opk \in Offered(users[request[t].user_id]) :
          Answer(t, Reply(200, [NoPrekeys EXCEPT !.one_time_prekey = opk]))
     /\ UNCHANGED <<users, opk_to_user, lock, request, todo, entry>>
  \/ pc[t] = "select" /\ users[request[t].user_id].registered /\ UNCHANGED vars

SelectOpk(t) ==
  /\ Go(t, "select", "identity")
  /\ users[request[t].user_id].registered
  /\ \E opk \in Offered(users[request[t].user_id]) :
       Answer(t, Reply(200, [NoPrekeys EXCEPT !.one_time_prekey = opk]))
  /\ UNCHANGED <<users, opk_to_user, lock, request, todo, entry>>

ReadIdentityKey(t) ==
  /\ Go(t, "identity", "keys")
  /\ reply' = [reply EXCEPT ![t].prekeys.identity_key = users[request[t].user_id].identity_key]
  /\ UNCHANGED <<users, opk_to_user, lock, request, todo, entry>>

ReadSignedPrekey(t) ==
  /\ Go(t, "keys", "release")
  /\ reply' = [reply EXCEPT ![t].prekeys.signed_prekey = users[request[t].user_id].signed_prekey]
  /\ UNCHANGED <<users, opk_to_user, lock, request, todo, entry>>

Get(t) == UnknownUser(t) \/ SelectOpk(t) \/ ReadIdentityKey(t) \/ ReadSignedPrekey(t)
-----------------------------------------------------------------------------
(* mark_opk_used. *)
Mark(t) ==
  /\ Go(t, "mark", "release")
  /\ LET opk == request[t].opk_id
         owner == opk_to_user[opk]
     IN  users' = Marked(users, owner, opk) /\ Answer(t, MarkReply(users, owner, opk))
  /\ UNCHANGED <<opk_to_user, lock, request, todo, entry>>
-----------------------------------------------------------------------------
Work(t) == Upload(t) \/ Get(t) \/ Mark(t) \/ Release(t)

Next == \E t \in Thread : Arrive(t) \/ Acquire(t) \/ Work(t) \/ SendReply(t)

Spec == Init /\ [][Next]_vars

(* Nothing blocks a thread in the critical section: it goes on.  Nobody is *)
(* promised the lock, and a peer may leave its reply unread.               *)
Fairness == \A t \in Thread : WF_vars(Work(t))
FairSpec == Spec /\ Fairness
-----------------------------------------------------------------------------
TypeOK ==
  /\ users \in [User -> UserPrekeyRecord]
  /\ opk_to_user \in [OneTime -> User \cup {None}]
  /\ lock \in Thread \cup {None}
  /\ pc \in [Thread -> {"idle", "waiting", "record", "create", "replace", "signed", "list",
                        "entries", "owner", "select", "identity", "keys", "mark",
                        "release", "reply"}]
  /\ request \in [Thread -> Request \cup {NoRequest}]
  /\ todo \in [Thread -> SUBSET OneTime]
  /\ entry \in [Thread -> OneTime \cup {None}]
  /\ reply \in [Thread -> [status : {0, 200, 400, 404},
                           prekeys : [identity_key : Nat, signed_prekey : Nat,
                                      one_time_prekey : OneTime \cup {None}]]]

(* The identity key and the signed prekey that leave in one reply came in  *)
(* one upload, so the signature over the one verifies under the other      *)
(* (initiate_session refuses the bundle if it does not), although uploads  *)
(* replace them one after the other and may be refused half way            *)
(* (upload_prekeys, get_prekeys).                                          *)
BundleWhole ==
  \A t \in Thread :
    pc[t] = "reply" /\ request[t].kind = "GET" /\ reply[t].status = 200 =>
      \E b \in Bundles :
        /\ b.user_id = request[t].user_id
        /\ b.identity_key = reply[t].prekeys.identity_key
        /\ b.signed_prekey = reply[t].prekeys.signed_prekey

(* A one-time prekey that a reply offers can be marked used: the store     *)
(* knows a user who lists it, so the DELETE of the client that takes it is *)
(* not answered with 404, although an upload lists a key before it notes   *)
(* whose it is, and also when two users upload one id (upload_prekeys,     *)
(* get_prekeys, mark_opk_used).                                            *)
OfferedKnown ==
  \A t \in Thread :
    LET opk == reply[t].prekeys.one_time_prekey
    IN  opk # None => opk_to_user[opk] # None /\ opk \in users[opk_to_user[opk]].listed

(* A thread in the critical section leaves it, also when the upload it     *)
(* handles raises half way (the with statement): no request keeps the      *)
(* others from the store.                                                  *)
LockReleased == \A t \in Thread : lock = t ~> lock # t

-----------------------------------------------------------------------------
(***************************************************************************)
(* The abstract specification.  An upload takes effect when its thread     *)
(* gets the lock, a look-up or a mark when its last statement is done.     *)
(***************************************************************************)
InUpload == lock # None /\ request[lock].kind = "POST"
Owed(t) ==
  IF pc[t] \in {"release", "reply"} THEN reply[t]
  ELSE IF InUpload /\ lock = t THEN UploadReply(Uploading(t)) ELSE NoReply

Store == INSTANCE PrekeyStore WITH
  users <- IF InUpload THEN Uploaded(users, Uploading(lock)) ELSE users,
  opk_to_user <- IF InUpload THEN OwnersUploaded(opk_to_user, Uploading(lock)) ELSE opk_to_user,
  reply <- [t \in Thread |-> Owed(t)]

(* The lock makes every request one step: what the threads do is what a    *)
(* store does that handles requests at once, one after the other.          *)
ImplementsStore == Store!Spec
=============================================================================
