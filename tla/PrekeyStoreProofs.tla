-------------------------- MODULE PrekeyStoreProofs --------------------------
(***************************************************************************)
(* The threads of the prekey server implement the store that handles every *)
(* request at once: PrekeyThreads refines PrekeyStore.                     *)
(***************************************************************************)
EXTENDS PrekeyThreadsProofs

(* The store, its owners and its replies as the refinement mapping of      *)
(* PrekeyThreads gives them.                                               *)
MappedUsers == IF InUpload THEN Uploaded(users, Uploading(lock)) ELSE users
MappedOwners ==
  IF InUpload THEN OwnersUploaded(opk_to_user, Uploading(lock)) ELSE opk_to_user
MappedReply == [t \in Thread |-> Owed(t)]
Mapped == <<MappedUsers, MappedOwners, MappedReply>>

(* What one thread does leaves what the others owe. *)
LEMMA OthersOwe ==
  ASSUME IInv, NEW t \in Thread, NEW from, NEW to \in Statements, Go(t, from, to),
         lock' = lock \/ (lock \in {None, t} /\ lock' \in {None, t}),
         \A s \in Thread : s # t => request'[s] = request[s] /\ reply'[s] = reply[s]
  PROVE  /\ MappedReply' = [MappedReply EXCEPT ![t] = Owed(t)']
         /\ Owed(t)' = Owed(t) => MappedReply' = MappedReply
  <1>1. \A s \in Thread : s # t => pc'[s] = pc[s]
    BY ThreadType DEF IInv, TInv
  <1>2. \A s \in Thread : s # t => Owed(s)' = Owed(s)
    BY <1>1, NamesAssumption DEF Owed, InUpload, Uploading
  <1> QED BY <1>2 DEF MappedReply

(* The mapped store does not change when neither the store, nor the holder *)
(* of the lock, nor the holder's request does.                             *)
LEMMA MappedStill ==
  ASSUME UNCHANGED <<users, opk_to_user, lock>>,
         lock # None => request'[lock] = request[lock]
  PROVE  /\ MappedUsers' = MappedUsers
         /\ MappedOwners' = MappedOwners
         /\ InUpload' = InUpload
  BY DEF MappedUsers, MappedOwners, InUpload, Uploading

(* Between uploads the mapped store is the store. *)
LEMMA MappedPlain ==
  ASSUME ~InUpload
  PROVE  MappedUsers = users /\ MappedOwners = opk_to_user
  BY DEF MappedUsers, MappedOwners

(* An upload whose work is done would change nothing if it were done again.*)
LEMMA UploadedAgain ==
  ASSUME IInv, NEW b \in Bundles, Stored(b)
  PROVE  /\ Uploaded(users, b) = users
         /\ OwnersUploaded(opk_to_user, b) = opk_to_user
  <1> DEFINE u == b.user_id
             a == Accepted(b)
  <1>1. /\ users \in [User -> UserPrekeyRecord] /\ u \in User
        /\ opk_to_user \in [OneTime -> User \cup {None}]
    BY TypeOf, BundleShape DEF IInv, TInv
  <1>2. /\ a.identity_key = b.identity_key /\ a.signed_prekey = b.signed_prekey
    BY BundleShape DEF Accepted, Bundle
  <1>3. users[u] \in UserPrekeyRecord
    BY <1>1
  <1> HIDE DEF u, a
  <1>4. UploadPrekeys(users[u], a) = users[u]
    <2>1. /\ users[u].registered = TRUE
          /\ users[u].identity_key = a.identity_key /\ users[u].signed_prekey = a.signed_prekey
          /\ a.one_time_prekeys \subseteq users[u].listed
          /\ a.one_time_prekeys \cap users[u].used = {}
      BY <1>2, <1>3 DEF Stored, Keyed, Entered, UserPrekeyRecord, u, a
    <2>2. /\ users[u].listed \cup a.one_time_prekeys = users[u].listed
          /\ users[u].used \ a.one_time_prekeys = users[u].used
      BY <2>1
    <2> QED BY <2>1, <2>2, <1>3 DEF UploadPrekeys, UserPrekeyRecord
  <1>5. Uploaded(users, b) = [users EXCEPT ![u] = UploadPrekeys(users[u], a)]
    BY <1>1 DEF Uploaded, u, a
  <1>6. Uploaded(users, b) = users
    BY <1>1, <1>4, <1>5
  <1>7. OwnersUploaded(opk_to_user, b) = opk_to_user
    BY <1>1 DEF OwnersUploaded, Stored, Entered
  <1> QED BY <1>6, <1>7

(* A statement of an upload only does part of what the whole upload does.  *)
LEMMA UploadedSame ==
  ASSUME IInv, NEW b \in Bundles, NEW record \in UserPrekeyRecord,
         users' = [users EXCEPT ![b.user_id] = record],
         record.listed \cup Accepted(b).one_time_prekeys
           = users[b.user_id].listed \cup Accepted(b).one_time_prekeys,
         record.used \ Accepted(b).one_time_prekeys
           = users[b.user_id].used \ Accepted(b).one_time_prekeys
  PROVE  Uploaded(users', b) = Uploaded(users, b)
  <1> DEFINE u == b.user_id
             a == Accepted(b)
  <1>1. users \in [User -> UserPrekeyRecord] /\ u \in User
    BY TypeOf, BundleShape DEF IInv, TInv
  <1>2. UploadPrekeys(record, a) = UploadPrekeys(users[u], a)
    BY DEF UploadPrekeys
  <1>3. users'[u] = record
    BY <1>1
  <1>4. /\ Uploaded(users, b) = [users EXCEPT ![u] = UploadPrekeys(users[u], a)]
        /\ Uploaded(users', b) = [users' EXCEPT ![u] = UploadPrekeys(users'[u], a)]
    BY <1>1 DEF Uploaded
  <1> HIDE DEF u, a
  <1> QED BY <1>1, <1>2, <1>3, <1>4 DEF u

LEMMA UploadStatements ==
  ASSUME IInv, NEW t \in Thread, Upload(t)
  PROVE  /\ pc[t] \in Posting /\ lock = t /\ request[t].kind = "POST"
         /\ Uploading(t) \in Bundles /\ Uploading(t).user_id \in User
         /\ users[Uploading(t).user_id] \in UserPrekeyRecord
         /\ UNCHANGED <<lock, request>>
         /\ \E to \in Posting \cup {"release"} : Go(t, pc[t], to)
  <1>1. /\ pc[t] \in Posting /\ UNCHANGED <<lock, request>>
        /\ \E to \in Posting \cup {"release"} : Go(t, pc[t], to)
    BY DEF Upload, FindRecord, NewRecord, ReplaceIdentityKey, ReplaceSignedPrekey,
           RefuseEntries, BeginEntries, ListEntry, NoteOwner, EndEntries, Go, Posting
  <1>2. lock = t /\ request[t].kind = "POST"
    BY <1>1 DEF IInv, TInv, OneHolder, Critical, Kinds, KindsOf
  <1>3. /\ Uploading(t) \in Bundles /\ Uploading(t).user_id \in User
        /\ users[Uploading(t).user_id] \in UserPrekeyRecord
    BY <1>2, UploadingType, TypeOf DEF IInv, TInv
  <1> QED BY <1>1, <1>2, <1>3

LEMMA UploadKeepsMapped ==
  ASSUME IInv, NEW t \in Thread, Upload(t)
  PROVE  /\ Uploaded(users', Uploading(t)) = Uploaded(users, Uploading(t))
         /\ OwnersUploaded(opk_to_user', Uploading(t))
              = OwnersUploaded(opk_to_user, Uploading(t))
  <1> DEFINE b == Uploading(t)
             u == b.user_id
  <1>1. b \in Bundles /\ u \in User /\ users[u] \in UserPrekeyRecord
    BY UploadStatements
  <1>2. /\ users \in [User -> UserPrekeyRecord]
        /\ opk_to_user \in [OneTime -> User \cup {None}]
    BY TypeOf DEF IInv, TInv
  <1>3. CASE UNCHANGED <<users, opk_to_user>>
    BY <1>3
  <1>4. CASE NewRecord(t)
    <2> DEFINE record == [NoRecord EXCEPT !.registered = TRUE, !.identity_key = b.identity_key,
                                          !.signed_prekey = b.signed_prekey]
    <2>1. /\ users' = [users EXCEPT ![u] = record] /\ UNCHANGED opk_to_user
          /\ users[u].listed = {} /\ users[u].used = {}
      BY <1>1, <1>4 DEF NewRecord, Go, IInv, SoFar, UploadSoFar, StoreInv, Fresh
    <2>2. record \in UserPrekeyRecord /\ record.listed = {} /\ record.used = {}
      BY <1>1, BundleShape DEF NoRecord, UserPrekeyRecord
    <2> HIDE DEF b, record
    <2> QED BY <1>1, <2>1, <2>2, UploadedSame DEF b
  <1>5. CASE ReplaceIdentityKey(t)
    <2> DEFINE record == [users[u] EXCEPT !.identity_key = b.identity_key]
    <2>1. users' = [users EXCEPT ![u] = record] /\ UNCHANGED opk_to_user
      BY <1>1, <1>2, <1>5 DEF ReplaceIdentityKey
    <2>2. /\ record \in UserPrekeyRecord
          /\ record.listed = users[u].listed /\ record.used = users[u].used
      BY <1>1, BundleShape DEF UserPrekeyRecord
    <2> HIDE DEF b, record
    <2> QED BY <1>1, <2>1, <2>2, UploadedSame DEF b
  <1>6. CASE ReplaceSignedPrekey(t)
    <2> DEFINE record == [users[u] EXCEPT !.signed_prekey = b.signed_prekey]
    <2>1. users' = [users EXCEPT ![u] = record] /\ UNCHANGED opk_to_user
      BY <1>1, <1>2, <1>6 DEF ReplaceSignedPrekey
    <2>2. /\ record \in UserPrekeyRecord
          /\ record.listed = users[u].listed /\ record.used = users[u].used
      BY <1>1, BundleShape DEF UserPrekeyRecord
    <2> HIDE DEF b, record
    <2> QED BY <1>1, <2>1, <2>2, UploadedSame DEF b
  <1>7. CASE \E opk \in todo[t] : ListEntry(t, opk)
    <2>1. PICK opk \in todo[t] : ListEntry(t, opk)
      BY <1>7
    <2> DEFINE record == [users[u] EXCEPT !.listed = users[u].listed \cup {opk},
                                          !.used = users[u].used \ {opk}]
    <2>2. /\ users' = [users EXCEPT ![u] = record]
          /\ UNCHANGED opk_to_user
      BY <1>1, <1>2, <2>1 DEF ListEntry, UserPrekeyRecord
    <2>3. opk \in OneTime /\ opk \in Nat
      BY NamesAssumption, TypeOf DEF IInv, TInv
    <2>4. /\ record \in UserPrekeyRecord
          /\ record.listed = users[u].listed \cup {opk} /\ record.used = users[u].used \ {opk}
      BY <1>1, <2>3 DEF UserPrekeyRecord
    <2>5. opk \in Accepted(b).one_time_prekeys
      <3>1. pc[t] = "entries"
        BY <2>1 DEF ListEntry, Go
      <3> QED BY <2>1, <3>1 DEF IInv, SoFar, UploadSoFar, Accepted
    <2> HIDE DEF b, record
    <2> QED BY <1>1, <2>2, <2>4, <2>5, UploadedSame DEF b
  <1>8. CASE NoteOwner(t)
    <2>1. /\ opk_to_user' = [opk_to_user EXCEPT ![entry[t]] = u] /\ UNCHANGED users
          /\ pc[t] = "owner"
      BY <1>8 DEF NoteOwner, Go
    <2>2. entry[t] \in Accepted(b).one_time_prekeys
      BY <2>1 DEF IInv, SoFar, UploadSoFar, Accepted
    <2> QED BY <2>1, <2>2, <1>2 DEF OwnersUploaded
  <1> QED BY <1>3, <1>4, <1>5, <1>6, <1>7, <1>8
          DEF Upload, FindRecord, RefuseEntries, BeginEntries, EndEntries

-----------------------------------------------------------------------------
(* What each action of the threads is to the store: one of its requests,   *)
(* or nothing.                                                             *)
(* Both modules take what a request does from PrekeyServer. *)
LEMMA SameRequests ==
  /\ Store!NoReply = NoReply
  /\ Store!NoPrekeys = NoPrekeys
  /\ Store!NoRecord = NoRecord
  /\ \A status, prekeys : Store!Reply(status, prekeys) = Reply(status, prekeys)
  /\ \A b : Store!UploadReply(b) = UploadReply(b)
  /\ \A us, b : Store!Uploaded(us, b) = Uploaded(us, b)
  /\ \A owners, b : Store!OwnersUploaded(owners, b) = OwnersUploaded(owners, b)
  /\ \A record : Store!GetPrekeys(record) = GetPrekeys(record)
  /\ \A us, owner, opk : Store!Marked(us, owner, opk) = Marked(us, owner, opk)
  /\ \A us, owner, opk : Store!MarkReply(us, owner, opk) = MarkReply(us, owner, opk)
  BY DEF Store!NoReply, NoReply, Store!NoPrekeys, NoPrekeys, Store!NoRecord, NoRecord,
         Store!Reply, Reply, Store!UploadReply, UploadReply, Store!Uploaded, Uploaded,
         Store!UploadPrekeys, UploadPrekeys, Store!Accepted, Accepted,
         Store!OwnersUploaded, OwnersUploaded, Store!GetPrekeys, GetPrekeys,
         Store!Offered, Offered, Store!Unused, Unused, Store!Marked, Marked,
         Store!MarkOpkUsed, MarkOpkUsed, Store!MarkReply, MarkReply

Owes(t, r) == MappedReply[t] = NoReply /\ MappedReply' = [MappedReply EXCEPT ![t] = r]

LEMMA OwesIsOwe ==
  ASSUME NEW t, NEW r, Owes(t, r)
  PROVE  Store!Owe(t, r)
  BY SameRequests DEF Store!Owe, Owes, MappedReply

LEMMA UploadStutters ==
  ASSUME IInv, IInv', NEW t \in Thread, Upload(t)
  PROVE  UNCHANGED Mapped
  <1> DEFINE b == Uploading(t)
  <1>1. /\ pc[t] \in Posting /\ lock = t /\ request[t].kind = "POST"
        /\ UNCHANGED <<lock, request>>
    BY UploadStatements
  <1>2. PICK to \in Posting \cup {"release"} : Go(t, pc[t], to)
    BY UploadStatements
  <1>3. to \in Statements /\ pc'[t] = to
    BY <1>2, ThreadType DEF IInv, TInv, Posting, Statements
  <1>4. InUpload /\ InUpload' /\ b' = b
    BY <1>1, NamesAssumption DEF InUpload, Uploading
  <1>5. MappedUsers' = MappedUsers /\ MappedOwners' = MappedOwners
    BY <1>1, <1>4, UploadKeepsMapped DEF MappedUsers, MappedOwners
  <1>6. Owed(t) = UploadReply(b)
    BY <1>1, <1>4 DEF Owed, Posting
  <1>7. Owed(t)' = UploadReply(b)
    <2>1. CASE to = "release"
      <3>1. UploadSoFar(t)'
        BY DEF IInv, SoFar
      <3>2. pc'[t] = "release" /\ request'[t].kind = "POST"
        BY <2>1, <1>1, <1>3
      <3> QED BY <3>1, <3>2, <1>4 DEF UploadSoFar, Owed, UploadReply
    <2>2. CASE to # "release"
      BY <2>2, <1>1, <1>3, <1>4 DEF Owed, Posting, UploadReply
    <2> QED BY <2>1, <2>2
  <1>8. \A s \in Thread : s # t => request'[s] = request[s] /\ reply'[s] = reply[s]
    BY <1>1, TypeParts
    DEF IInv, TInv, Upload, FindRecord, NewRecord, ReplaceIdentityKey, ReplaceSignedPrekey,
        RefuseEntries, BeginEntries, ListEntry, NoteOwner, EndEntries, Answer
  <1>9. MappedReply' = MappedReply
    BY <1>1, <1>2, <1>3, <1>6, <1>7, <1>8, OthersOwe
  <1> QED BY <1>5, <1>9 DEF Mapped

LEMMA ArriveImplements ==
  ASSUME IInv, NEW t \in Thread, Arrive(t)
  PROVE  Store!Refuse(t) \/ UNCHANGED Mapped
  <1>1. PICK r \in Request :
          /\ request' = [request EXCEPT ![t] = r]
          /\ \/ r.kind # "bad" /\ Go(t, "idle", "waiting") /\ UNCHANGED reply
             \/ /\ r.kind = "bad"
                /\ Go(t, "idle", "reply")
                /\ \E status \in {400, 404} : Answer(t, Reply(status, NoPrekeys))
          /\ UNCHANGED <<users, opk_to_user, lock, todo, entry>>
    BY DEF Arrive
  <1>2. TInv /\ TypeOK
    BY DEF IInv, TInv
  <1>3. /\ pc[t] = "idle" /\ lock # t
        /\ lock # None => lock \in Thread
    BY <1>1, TypeOf DEF Go, IInv, TInv, OneHolder, Critical, Posting, Getting
  <1>4. \A s \in Thread : s # t => request'[s] = request[s] /\ reply'[s] = reply[s]
    BY <1>1, <1>2, TypeParts DEF Answer
  <1>5. MappedUsers' = MappedUsers /\ MappedOwners' = MappedOwners
    BY <1>1, <1>3, <1>4, MappedStill
  <1>6. Owed(t) = NoReply
    BY <1>3 DEF Owed
  <1>7. CASE r.kind # "bad"
    <2>1. Go(t, "idle", "waiting") /\ "waiting" \in Statements /\ pc'[t] = "waiting"
      BY <1>1, <1>2, <1>7, ThreadType DEF Statements
    <2>2. Owed(t)' = NoReply
      BY <1>1, <1>3, <2>1 DEF Owed, NoReply
    <2>3. MappedReply' = MappedReply
      BY <1>1, <1>4, <1>6, <2>1, <2>2, OthersOwe
    <2> QED BY <1>5, <2>3 DEF Mapped
  <1>8. CASE r.kind = "bad"
    <2>1. Go(t, "idle", "reply") /\ "reply" \in Statements /\ pc'[t] = "reply"
      BY <1>1, <1>2, <1>8, ThreadType DEF Statements
    <2>2. PICK status \in {400, 404} : Answer(t, Reply(status, NoPrekeys))
      BY <1>1, <1>8
    <2>3. Owed(t)' = Reply(status, NoPrekeys)
      BY <1>2, <2>1, <2>2, TypeParts DEF Owed, Answer
    <2>4. Owes(t, Reply(status, NoPrekeys))
      BY <1>1, <1>4, <1>6, <2>1, <2>3, OthersOwe DEF Owes, MappedReply
    <2>5. Store!Owe(t, Store!Reply(status, Store!NoPrekeys))
      BY <2>4, OwesIsOwe, SameRequests
    <2> QED BY <1>5, <2>5 DEF Store!Refuse, MappedUsers, MappedOwners
  <1> QED BY <1>7, <1>8

LEMMA SendReplyImplements ==
  ASSUME IInv, NEW t \in Thread, SendReply(t)
  PROVE  Store!Send(t)
  <1>1. /\ Go(t, "reply", "idle") /\ request' = [request EXCEPT ![t] = NoRequest]
        /\ Answer(t, NoReply) /\ UNCHANGED <<users, opk_to_user, lock, todo, entry>>
    BY DEF SendReply
  <1>2. TInv /\ TypeOK /\ "idle" \in Statements
    BY DEF IInv, TInv, Statements
  <1>3. /\ pc[t] = "reply" /\ pc'[t] = "idle" /\ lock # t
        /\ lock # None => lock \in Thread
    BY <1>1, <1>2, ThreadType, TypeOf DEF IInv, OneHolder, Critical, Posting, Getting
  <1>4. \A s \in Thread : s # t => request'[s] = request[s] /\ reply'[s] = reply[s]
    BY <1>1, <1>2, TypeParts DEF Answer
  <1>5. MappedUsers' = MappedUsers /\ MappedOwners' = MappedOwners
    BY <1>1, <1>3, <1>4, MappedStill
  <1>6. Owed(t) # NoReply
    BY <1>3 DEF Owed, IInv, SoFar, Answering, NoReply, Reply
  <1>7. Owed(t)' = NoReply
    BY <1>1, <1>3 DEF Owed, NoReply
  <1>8. MappedReply' = [MappedReply EXCEPT ![t] = NoReply] /\ MappedReply[t] # NoReply
    BY <1>1, <1>2, <1>4, <1>6, <1>7, OthersOwe DEF MappedReply
  <1> QED BY <1>5, <1>8, SameRequests DEF Store!Send, MappedUsers, MappedOwners, MappedReply

(* An upload takes effect when its thread gets the lock. *)
LEMMA AcquireImplements ==
  ASSUME IInv, NEW t \in Thread, Acquire(t)
  PROVE  (\E bundle \in Bundles : Store!Upload(t, bundle)) \/ UNCHANGED Mapped
  <1>1. /\ lock = None /\ Go(t, "waiting", Entry(request[t].kind)) /\ lock' = t
        /\ UNCHANGED <<users, opk_to_user, request, todo, entry, reply>>
    BY DEF Acquire
  <1>2. TInv /\ TypeOK /\ Kinds
    BY DEF IInv, TInv
  <1>3. pc[t] = "waiting" /\ request[t].kind \in {"POST", "GET", "DELETE"}
    BY <1>1, <1>2 DEF Kinds, KindsOf, Go
  <1> DEFINE to == Entry(request[t].kind)
  <1>4. to \in {"record", "select", "mark"}
    BY <1>3 DEF Entry
  <1> HIDE DEF to
  <1>5. to \in Statements /\ pc'[t] = to
    BY <1>1, <1>2, <1>4, ThreadType DEF Statements, to
  <1>6. ~InUpload /\ t # None /\ Owed(t) = NoReply
    BY <1>1, <1>3, NamesAssumption DEF InUpload, Owed
  <1>7. MappedUsers = users /\ MappedOwners = opk_to_user
    BY <1>6, MappedPlain
  <1>8. MappedReply' = [MappedReply EXCEPT ![t] = Owed(t)']
        /\ (Owed(t)' = Owed(t) => MappedReply' = MappedReply)
    BY <1>1, <1>5, OthersOwe DEF to
  <1>9. CASE request[t].kind = "POST"
    <2> DEFINE b == Uploading(t)
    <2>1. b \in Bundles
      BY <1>2, <1>9, UploadingType
    <2>2. InUpload' /\ Uploading(lock)' = b
      BY <1>1, <1>6, <1>9 DEF InUpload, Uploading
    <2>3. MappedUsers' = Uploaded(users, b) /\ MappedOwners' = OwnersUploaded(opk_to_user, b)
      BY <1>1, <2>2 DEF MappedUsers, MappedOwners
    <2>4. Owed(t)' = UploadReply(b)
      <3>1. pc'[t] \notin {"release", "reply"} /\ lock' = t /\ Uploading(t)' = b
        BY <1>1, <1>4, <1>5 DEF Uploading
      <3> QED BY <3>1, <2>2 DEF Owed, UploadReply
    <2>5. Owes(t, UploadReply(b))
      BY <1>6, <1>8, <2>4 DEF Owes, MappedReply
    <2> HIDE DEF b
    <2>6. Store!Upload(t, b)
      <3>1. Store!Owe(t, Store!UploadReply(b))
        BY <2>5, OwesIsOwe, SameRequests
      <3> QED BY <1>7, <2>3, <3>1, SameRequests DEF Store!Upload, MappedUsers, MappedOwners
    <2> QED BY <2>1, <2>6
  <1>10. CASE request[t].kind # "POST"
    <2>1. ~InUpload'
      BY <1>1, <1>10 DEF InUpload
    <2>2. MappedUsers' = users' /\ MappedOwners' = opk_to_user'
      BY <2>1 DEF MappedUsers, MappedOwners
    <2>3. Owed(t)' = NoReply
      BY <1>4, <1>5, <2>1 DEF Owed, NoReply
    <2> QED BY <1>1, <1>6, <1>7, <1>8, <2>2, <2>3 DEF Mapped
  <1> QED BY <1>9, <1>10

LEMMA ReleaseStutters ==
  ASSUME IInv, NEW t \in Thread, Release(t)
  PROVE  UNCHANGED Mapped
  <1>1. /\ Go(t, "release", "reply") /\ lock' = None
        /\ UNCHANGED <<users, opk_to_user, request, todo, entry, reply>>
    BY DEF Release
  <1>2. TInv /\ TypeOK /\ "reply" \in Statements
    BY DEF IInv, TInv, Statements
  <1>3. pc[t] = "release" /\ pc'[t] = "reply" /\ lock = t
    BY <1>1, <1>2, ThreadType DEF IInv, OneHolder, Critical
  <1>4. MappedUsers' = users /\ MappedOwners' = opk_to_user
    BY <1>1 DEF MappedUsers, MappedOwners, InUpload
  <1>5. MappedUsers = users /\ MappedOwners = opk_to_user
    <2>1. CASE ~InUpload
      BY <2>1, MappedPlain
    <2>2. CASE InUpload
      <3>1. request[t].kind = "POST" /\ Uploading(t) \in Bundles
        BY <2>2, <1>2, <1>3, UploadingType DEF InUpload
      <3>2. Stored(Uploading(t))
        BY <3>1, <1>3 DEF IInv, SoFar, UploadSoFar
      <3> QED BY <3>1, <3>2, <2>2, <1>3, UploadedAgain DEF MappedUsers, MappedOwners
    <2> QED BY <2>1, <2>2
  <1>6. Owed(t)' = Owed(t)
    BY <1>1, <1>3 DEF Owed
  <1>7. MappedReply' = MappedReply
    BY <1>1, <1>2, <1>3, <1>6, OthersOwe
  <1> QED BY <1>4, <1>5, <1>7 DEF Mapped

(* A look-up takes effect when its last statement is done. *)
LEMMA GetImplements ==
  ASSUME IInv, NEW t \in Thread, Get(t)
  PROVE  (\E u \in User : Store!Get(t, u)) \/ UNCHANGED Mapped
  <1> DEFINE u == request[t].user_id
  <1>1. /\ pc[t] \in Getting /\ UNCHANGED <<users, opk_to_user, lock, request, todo, entry>>
        /\ \E to \in {"identity", "keys", "release"} : Go(t, pc[t], to)
    BY DEF Get, UnknownUser, SelectOpk, ReadIdentityKey, ReadSignedPrekey, Go, Getting
  <1>2. TInv /\ TypeOK /\ Kinds /\ reply \in [Thread -> Replies]
    BY TypeOf DEF IInv, TInv
  <1>3. request[t].kind = "GET" /\ u \in User /\ lock = t
    BY <1>1, <1>2, TypeParts, RequestShape DEF Kinds, KindsOf, IInv, OneHolder, Critical
  <1>4. PICK to \in {"identity", "keys", "release"} : Go(t, pc[t], to)
    BY <1>1
  <1>5. to \in Statements /\ pc'[t] = to
    BY <1>2, <1>4, ThreadType DEF Statements
  <1>6. ~InUpload /\ ~InUpload' /\ Owed(t) = NoReply
    BY <1>1, <1>3 DEF InUpload, Owed, Getting
  <1>7. /\ MappedUsers = users /\ MappedOwners = opk_to_user
        /\ MappedUsers' = users /\ MappedOwners' = opk_to_user
    BY <1>1, <1>6 DEF MappedUsers, MappedOwners
  <1>8. \A s \in Thread : s # t => reply'[s] = reply[s]
    BY <1>2 DEF Get, UnknownUser, SelectOpk, ReadIdentityKey, ReadSignedPrekey, Answer
  <1>9. MappedReply' = [MappedReply EXCEPT ![t] = Owed(t)']
        /\ (Owed(t)' = Owed(t) => MappedReply' = MappedReply)
    BY <1>1, <1>4, <1>5, <1>8, OthersOwe
  <1>10. CASE SelectOpk(t) \/ ReadIdentityKey(t)
    <2>1. pc'[t] \in {"identity", "keys"}
      BY <1>10, <1>2, ThreadType DEF SelectOpk, ReadIdentityKey, Statements
    <2>2. Owed(t)' = NoReply
      BY <2>1, <1>6 DEF Owed, NoReply
    <2> QED BY <1>6, <1>7, <1>9, <2>2 DEF Mapped
  <1>11. CASE UnknownUser(t)
    <2>1. /\ ~users[u].registered /\ pc'[t] = "release"
          /\ reply'[t] = Reply(404, NoPrekeys)
      BY <1>11, <1>2, ThreadType, TypeParts DEF UnknownUser, Answer, Statements
    <2>2. Owes(t, Reply(404, NoPrekeys))
      BY <1>6, <1>9, <2>1 DEF Owes, Owed, MappedReply
    <2> HIDE DEF u
    <2>3. Store!Get(t, u)
      <3>1. Store!Owe(t, Store!Reply(404, Store!NoPrekeys))
        BY <2>2, OwesIsOwe, SameRequests
      <3> QED BY <1>7, <2>1, <3>1 DEF Store!Get, MappedUsers, MappedOwners
    <2> QED BY <2>3, <1>3
  <1>12. CASE ReadSignedPrekey(t)
    <2>1. /\ pc[t] = "keys" /\ pc'[t] = "release"
          /\ reply'[t] = [reply[t] EXCEPT !.prekeys.signed_prekey = users[u].signed_prekey]
      BY <1>12, <1>2, ThreadType DEF ReadSignedPrekey, Statements
    <2>2. /\ users[u].registered /\ reply[t].status = 200
          /\ reply[t].prekeys.one_time_prekey \in Offered(users[u])
          /\ reply[t].prekeys.identity_key = users[u].identity_key
      BY <2>1 DEF IInv, SoFar, GetSoFar
    <2> DEFINE prekeys == [identity_key |-> users[u].identity_key,
                           signed_prekey |-> users[u].signed_prekey,
                           one_time_prekey |-> reply[t].prekeys.one_time_prekey]
    <2>3. prekeys \in GetPrekeys(users[u])
      BY <2>2 DEF GetPrekeys
    <2>4. reply'[t] = Reply(200, prekeys)
      BY <2>1, <2>2, <1>2 DEF Reply, Replies, Prekeys
    <2> HIDE DEF u, prekeys
    <2>5. Owes(t, Reply(200, prekeys))
      BY <1>6, <1>9, <2>1, <2>4 DEF Owes, Owed, MappedReply
    <2>6. Store!Get(t, u)
      <3>1. Store!Owe(t, Store!Reply(200, prekeys))
        BY <2>5, OwesIsOwe, SameRequests
      <3>2. prekeys \in Store!GetPrekeys(users[u])
        BY <2>3, SameRequests
      <3> QED BY <1>7, <2>2, <3>1, <3>2 DEF Store!Get, MappedUsers, MappedOwners
    <2> QED BY <2>6, <1>3 DEF u
  <1> QED BY <1>10, <1>11, <1>12 DEF Get

LEMMA MarkImplements ==
  ASSUME IInv, NEW t \in Thread, Mark(t)
  PROVE  \E opk \in OneTime : Store!Delete(t, opk)
  <1> DEFINE opk == request[t].opk_id
             owner == opk_to_user[opk]
  <1>1. /\ Go(t, "mark", "release") /\ users' = Marked(users, owner, opk)
        /\ Answer(t, MarkReply(users, owner, opk))
        /\ UNCHANGED <<opk_to_user, lock, request, todo, entry>>
    BY DEF Mark
  <1>2. TInv /\ TypeOK /\ Kinds /\ "release" \in Statements
    BY DEF IInv, TInv, Statements
  <1>3. /\ pc[t] = "mark" /\ pc'[t] = "release" /\ lock = t
        /\ reply'[t] = MarkReply(users, owner, opk)
        /\ \A s \in Thread : s # t => reply'[s] = reply[s]
    BY <1>1, <1>2, ThreadType, TypeParts DEF Answer, IInv, OneHolder, Critical
  <1>4. request[t].kind = "DELETE" /\ opk \in OneTime
    BY <1>2, <1>3, TypeParts, RequestShape DEF Kinds, KindsOf
  <1>5. ~InUpload /\ ~InUpload' /\ Owed(t) = NoReply
    BY <1>1, <1>3, <1>4 DEF InUpload, Owed
  <1>6. /\ MappedUsers = users /\ MappedOwners = opk_to_user
        /\ MappedUsers' = users' /\ MappedOwners' = opk_to_user
    BY <1>1, <1>5 DEF MappedUsers, MappedOwners
  <1>7. Owes(t, MarkReply(users, owner, opk))
    <2>1. MappedReply' = [MappedReply EXCEPT ![t] = Owed(t)']
      BY <1>1, <1>2, <1>3, OthersOwe
    <2> QED BY <2>1, <1>3, <1>5 DEF Owes, Owed, MappedReply
  <1> HIDE DEF opk
  <1>8. Store!Delete(t, opk)
    <2>1. Store!Owe(t, Store!MarkReply(users, owner, opk))
      BY <1>7, OwesIsOwe, SameRequests
    <2> QED BY <1>1, <1>6, <2>1, SameRequests DEF Store!Delete, MappedUsers, MappedOwners
  <1> QED BY <1>4, <1>8

(* The lock makes every request one step: whatever the threads do, a store *)
(* does that handles requests at once, one after the other.                *)
THEOREM ThreadsImplementStore == Spec => ImplementsStore
  <1>1. Init => Store!Init
    <2> SUFFICES ASSUME Init PROVE Store!Init
      OBVIOUS
    <2>1. ~InUpload /\ \A t \in Thread : Owed(t) = NoReply
      BY DEF Init, InUpload, Owed, NoReply
    <2> QED BY <2>1, SameRequests DEF Init, Store!Init
  <1>2. IInv /\ IInv' /\ [Next]_vars => [Store!Next]_(Store!vars)
    <2> SUFFICES ASSUME IInv, IInv', [Next]_vars PROVE Store!Next \/ UNCHANGED Mapped
      BY DEF Store!vars, Mapped, MappedUsers, MappedOwners, MappedReply
    <2>1. CASE UNCHANGED vars
      BY <2>1 DEF Mapped, MappedUsers, MappedOwners, MappedReply, InUpload, Owed, Uploading, vars
    <2>2. CASE Next
      <3>1. PICK t \in Thread : Arrive(t) \/ Acquire(t) \/ Work(t) \/ SendReply(t)
        BY <2>2 DEF Next
      <3> QED BY <3>1, ArriveImplements, AcquireImplements, UploadStutters, GetImplements,
                 MarkImplements, ReleaseStutters, SendReplyImplements DEF Work, Store!Next
    <2> QED BY <2>1, <2>2
  <1> QED BY <1>1, <1>2, SpecIInv, PTL DEF Spec, ImplementsStore, Store!Spec
=============================================================================
