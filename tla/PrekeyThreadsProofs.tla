------------------------ MODULE PrekeyThreadsProofs ------------------------
(***************************************************************************)
(* The prekey server, proved for any number of threads, users, keys and    *)
(* uploads: the lock makes each request one step of the store.             *)
(***************************************************************************)
EXTENDS PrekeyThreads, TLAPS

Posting == {"record", "create", "replace", "signed", "list", "entries", "owner"}
Getting == {"select", "identity", "keys"}

(* The statements a thread can be at go with the request it handles.       *)
KindsOf(t) ==
  /\ pc[t] = "waiting" => request[t].kind \in {"POST", "GET", "DELETE"}
  /\ pc[t] \in Posting => request[t].kind = "POST"
  /\ pc[t] \in Getting => request[t].kind = "GET"
  /\ pc[t] = "mark" => request[t].kind = "DELETE"
Kinds == \A t \in Thread : KindsOf(t)

Listed == \A u \in User : users[u].listed \subseteq OneTime

TInv == TypeOK /\ Kinds /\ Listed

(* What a request of each kind carries (_PrekeyHandler). *)
LEMMA RequestShape ==
  ASSUME NEW r \in Request \cup {NoRequest}
  PROVE  /\ r.kind = "POST" => r.bundle \in Bundles
         /\ r.kind = "GET" => r.user_id \in User
         /\ r.kind = "DELETE" => r.opk_id \in OneTime
  BY DEF Request, NoRequest

(* What an upload carries (upload_prekeys). *)
LEMMA BundleShape ==
  ASSUME NEW b \in Bundles
  PROVE  /\ b \in Bundle
         /\ b.user_id \in User
         /\ b.identity_key \in Nat
         /\ b.signed_prekey \in Nat
         /\ b.one_time_prekeys \subseteq OneTime
         /\ b.one_time_prekeys \subseteq Nat
         /\ b.is_list \in BOOLEAN
  BY BundlesAssumption, NamesAssumption DEF Bundle

LEMMA UploadingType ==
  ASSUME TypeOK, NEW t \in Thread, request[t].kind = "POST"
  PROVE  Uploading(t) \in Bundles /\ Uploading(t).user_id \in User
  BY RequestShape, BundleShape DEF TypeOK, Uploading

LEMMA RecordType ==
  ASSUME NEW record \in UserPrekeyRecord
  PROVE  /\ Offered(record) \subseteq record.listed \cup {None}
         /\ NoRecord \in UserPrekeyRecord
         /\ \A opk : MarkOpkUsed(record, opk) \in UserPrekeyRecord
  <1>1. Offered(record) \subseteq record.listed \cup {None} /\ NoRecord \in UserPrekeyRecord
    BY DEF UserPrekeyRecord, Offered, Unused, NoRecord
  <1>2. \A opk : MarkOpkUsed(record, opk) \in UserPrekeyRecord
    BY DEF UserPrekeyRecord, MarkOpkUsed
  <1> QED BY <1>1, <1>2

Statements ==
  {"idle", "waiting", "record", "create", "replace", "signed", "list", "entries", "owner",
   "select", "identity", "keys", "mark", "release", "reply"}
Prekeys == [identity_key : Nat, signed_prekey : Nat, one_time_prekey : OneTime \cup {None}]
Replies == [status : {0, 200, 400, 404}, prekeys : Prekeys]

LEMMA ReplyType ==
  ASSUME NEW status \in {0, 200, 400, 404}, NEW prekeys \in Prekeys
  PROVE  /\ Reply(status, prekeys) \in Replies
         /\ NoPrekeys \in Prekeys
         /\ Reply(status, NoPrekeys) \in Replies
  BY DEF Reply, NoPrekeys, Prekeys, Replies

(* What a step of one thread leaves well typed: its own entries of pc and  *)
(* reply.                                                                  *)
LEMMA ThreadType ==
  ASSUME TypeOK, NEW t \in Thread, NEW from, NEW to \in Statements, Go(t, from, to)
  PROVE  /\ pc' \in [Thread -> Statements]
         /\ pc[t] = from
         /\ pc'[t] = to
         /\ \A s \in Thread : s # t => pc'[s] = pc[s]
  BY DEF TypeOK, Go, Statements

LEMMA AnswerType ==
  ASSUME TypeOK, NEW t \in Thread, NEW r \in Replies, Answer(t, r)
  PROVE  /\ reply' \in [Thread -> Replies]
         /\ reply'[t] = r
         /\ \A s \in Thread : s # t => reply'[s] = reply[s]
  BY DEF TypeOK, Answer, Replies, Prekeys

LEMMA TypeParts ==
  TypeOK <=> /\ users \in [User -> UserPrekeyRecord]
             /\ opk_to_user \in [OneTime -> User \cup {None}]
             /\ lock \in Thread \cup {None}
             /\ pc \in [Thread -> Statements]
             /\ request \in [Thread -> Request \cup {NoRequest}]
             /\ todo \in [Thread -> SUBSET OneTime]
             /\ entry \in [Thread -> OneTime \cup {None}]
             /\ reply \in [Thread -> Replies]
  BY DEF TypeOK, Statements, Replies, Prekeys

LEMMA TInvInit == Init => TInv
  <1> SUFFICES ASSUME Init PROVE TInv
    OBVIOUS
  <1>1. NoReply \in Replies
    BY DEF NoReply, Reply, NoPrekeys, Replies, Prekeys
  <1>2. NoRecord \in UserPrekeyRecord /\ NoRecord.listed = {}
    BY DEF NoRecord, UserPrekeyRecord
  <1>3. TypeOK
    BY <1>1, <1>2, TypeParts DEF Init, Statements, NoRequest
  <1>4. Kinds
    BY DEF Init, Kinds, KindsOf, Posting, Getting
  <1>5. Listed
    BY <1>2 DEF Init, Listed
  <1> QED BY <1>3, <1>4, <1>5 DEF TInv

(* A step of one thread on the request it has keeps TInv if it leaves the  *)
(* store and its own reply well typed.                                     *)
LEMMA TInvThread ==
  ASSUME TInv, NEW t \in Thread, NEW from, NEW to \in Statements, Go(t, from, to),
         users' \in [User -> UserPrekeyRecord], Listed',
         opk_to_user' \in [OneTime -> User \cup {None}],
         UNCHANGED request,
         lock' \in Thread \cup {None}, todo' \in [Thread -> SUBSET OneTime],
         entry' \in [Thread -> OneTime \cup {None}], reply' \in [Thread -> Replies],
         \/ to \in {"release", "reply"}
         \/ from \in Posting /\ to \in Posting
         \/ from \in Getting /\ to \in Getting
         \/ from = "waiting" /\ to = Entry(request[t].kind)
  PROVE  TInv'
  <1>1. TypeOK /\ Kinds /\ Listed
    BY DEF TInv
  <1>2. /\ pc' \in [Thread -> Statements] /\ pc[t] = from /\ pc'[t] = to
        /\ \A s \in Thread : s # t => pc'[s] = pc[s]
    BY <1>1, ThreadType
  <1>3. TypeOK'
    BY <1>1, <1>2 DEF TypeOK, Statements, Replies, Prekeys
  <1>4. Kinds'
    <2> SUFFICES ASSUME NEW s \in Thread PROVE KindsOf(s)'
      BY DEF Kinds
    <2>0. KindsOf(s)
      BY <1>1 DEF Kinds
    <2>1. CASE s # t
      BY <2>0, <2>1, <1>2 DEF KindsOf
    <2>2. CASE s = t /\ from = "waiting"
      <3>1. request[t].kind \in {"POST", "GET", "DELETE"}
        BY <2>0, <2>2, <1>2 DEF KindsOf
      <3> QED BY <3>1, <2>2, <1>2 DEF Entry, Posting, Getting, KindsOf
    <2>3. CASE s = t /\ from # "waiting"
      BY <2>0, <2>3, <1>2 DEF KindsOf, Posting, Getting
    <2> QED BY <2>1, <2>2, <2>3
  <1> QED BY <1>3, <1>4 DEF TInv

(* The same for a step that leaves the store alone. *)
LEMMA TInvQuiet ==
  ASSUME TInv, NEW t \in Thread, NEW from, NEW to \in Statements, Go(t, from, to),
         UNCHANGED <<users, opk_to_user, request>>,
         lock' \in Thread \cup {None}, todo' \in [Thread -> SUBSET OneTime],
         entry' \in [Thread -> OneTime \cup {None}], reply' \in [Thread -> Replies],
         \/ to \in {"release", "reply"}
         \/ from \in Posting /\ to \in Posting
         \/ from \in Getting /\ to \in Getting
         \/ from = "waiting" /\ to = Entry(request[t].kind)
  PROVE  TInv'
  <1>1. UNCHANGED users /\ UNCHANGED opk_to_user /\ UNCHANGED request
    OBVIOUS
  <1>2. /\ users' \in [User -> UserPrekeyRecord]
        /\ opk_to_user' \in [OneTime -> User \cup {None}]
        /\ Listed'
    BY <1>1 DEF TInv, TypeOK, Listed
  <1> QED BY <1>1, <1>2, TInvThread

(* The parts of TypeOK a step needs, once. *)
LEMMA TypeOf ==
  ASSUME TypeOK
  PROVE  /\ lock \in Thread \cup {None}
         /\ todo \in [Thread -> SUBSET OneTime]
         /\ entry \in [Thread -> OneTime \cup {None}]
         /\ reply \in [Thread -> Replies]
         /\ users \in [User -> UserPrekeyRecord]
         /\ opk_to_user \in [OneTime -> User \cup {None}]
  BY TypeParts

LEMMA TInvArrive ==
  ASSUME TInv, NEW t \in Thread, Arrive(t)
  PROVE  TInv'
  <1>1. PICK r \in Request :
          /\ request' = [request EXCEPT ![t] = r]
          /\ \/ r.kind # "bad" /\ Go(t, "idle", "waiting") /\ UNCHANGED reply
             \/ /\ r.kind = "bad"
                /\ Go(t, "idle", "reply")
                /\ \E status \in {400, 404} : Answer(t, Reply(status, NoPrekeys))
          /\ UNCHANGED <<users, opk_to_user, lock, todo, entry>>
    BY DEF Arrive
  <1>2. TypeOK /\ Kinds /\ Listed
    BY DEF TInv
  <1>3. PICK to \in {"waiting", "reply"} :
          Go(t, "idle", to) /\ (to = "waiting" => r.kind # "bad")
    BY <1>1
  <1>4. /\ pc' \in [Thread -> Statements] /\ pc'[t] = to
        /\ \A s \in Thread : s # t => pc'[s] = pc[s]
    BY <1>2, <1>3, ThreadType DEF Statements
  <1>5. reply' \in [Thread -> Replies]
    <2>1. CASE UNCHANGED reply
      BY <2>1, <1>2, TypeOf
    <2>2. CASE \E status \in {400, 404} : Answer(t, Reply(status, NoPrekeys))
      <3>1. PICK status \in {400, 404} : Answer(t, Reply(status, NoPrekeys))
        BY <2>2
      <3>2. Reply(status, NoPrekeys) \in Replies
        BY DEF Reply, NoPrekeys, Replies, Prekeys
      <3> QED BY <1>2, <3>1, <3>2, AnswerType
    <2> QED BY <1>1, <2>1, <2>2
  <1>6. request' \in [Thread -> Request \cup {NoRequest}]
    BY <1>1, <1>2, TypeParts
  <1>7. TypeOK'
    BY <1>1, <1>2, <1>4, <1>5, <1>6 DEF TypeOK, Statements, Replies, Prekeys
  <1>8. Kinds'
    <2> SUFFICES ASSUME NEW s \in Thread PROVE KindsOf(s)'
      BY DEF Kinds
    <2>1. CASE s # t
      <3>1. pc'[s] = pc[s] /\ request'[s] = request[s]
        BY <1>1, <1>2, <1>4, <2>1, TypeParts
      <3> QED BY <3>1, <1>2 DEF Kinds, KindsOf
    <2>2. CASE s = t
      <3>1. request'[t] = r /\ (r.kind # "bad" => r.kind \in {"POST", "GET", "DELETE"})
        BY <1>1, <1>2, TypeParts DEF Request
      <3> QED BY <3>1, <2>2, <1>3, <1>4 DEF KindsOf, Posting, Getting
    <2> QED BY <2>1, <2>2
  <1>9. Listed'
    BY <1>1, <1>2 DEF Listed
  <1> QED BY <1>7, <1>8, <1>9 DEF TInv

LEMMA TInvSendReply ==
  ASSUME TInv, NEW t \in Thread, SendReply(t)
  PROVE  TInv'
  <1>1. /\ Go(t, "reply", "idle")
        /\ request' = [request EXCEPT ![t] = NoRequest]
        /\ Answer(t, NoReply)
        /\ UNCHANGED <<users, opk_to_user, lock, todo, entry>>
    BY DEF SendReply
  <1>2. TypeOK /\ Kinds /\ Listed
    BY DEF TInv
  <1>4. /\ pc' \in [Thread -> Statements] /\ pc'[t] = "idle"
        /\ \A s \in Thread : s # t => pc'[s] = pc[s]
    BY <1>1, <1>2, ThreadType DEF Statements
  <1>5. reply' \in [Thread -> Replies]
    <2>1. NoReply \in Replies
      BY DEF NoReply, Reply, NoPrekeys, Replies, Prekeys
    <2> QED BY <1>1, <1>2, <2>1, AnswerType
  <1>6. request' \in [Thread -> Request \cup {NoRequest}]
    BY <1>1, <1>2, TypeParts
  <1>7. TypeOK'
    BY <1>1, <1>2, <1>4, <1>5, <1>6 DEF TypeOK, Statements, Replies, Prekeys
  <1>8. Kinds'
    <2> SUFFICES ASSUME NEW s \in Thread PROVE KindsOf(s)'
      BY DEF Kinds
    <2>1. CASE s # t
      <3>1. pc'[s] = pc[s] /\ request'[s] = request[s]
        BY <1>1, <1>2, <1>4, <2>1, TypeParts
      <3> QED BY <3>1, <1>2 DEF Kinds, KindsOf
    <2>2. CASE s = t
      BY <2>2, <1>4 DEF KindsOf, Posting, Getting
    <2> QED BY <2>1, <2>2
  <1>9. Listed'
    BY <1>1, <1>2 DEF Listed
  <1> QED BY <1>7, <1>8, <1>9 DEF TInv

(* An upload's change to one record. *)
LEMMA RecordReplaced ==
  ASSUME TInv, NEW u \in User, NEW record \in UserPrekeyRecord,
         record.listed \subseteq OneTime, users' = [users EXCEPT ![u] = record]
  PROVE  users' \in [User -> UserPrekeyRecord] /\ Listed'
  BY TypeOf DEF TInv, Listed

LEMMA TInvUpload ==
  ASSUME TInv, NEW t \in Thread, Upload(t)
  PROVE  TInv'
  <1> DEFINE b == Uploading(t)
             u == b.user_id
             Rest == UNCHANGED <<opk_to_user, lock, request, todo, entry, reply>>
  <1>1. TypeOK /\ Kinds /\ Listed
    BY DEF TInv
  <1>2. /\ lock \in Thread \cup {None}
        /\ todo \in [Thread -> SUBSET OneTime]
        /\ entry \in [Thread -> OneTime \cup {None}]
        /\ reply \in [Thread -> Replies]
        /\ users \in [User -> UserPrekeyRecord]
        /\ opk_to_user \in [OneTime -> User \cup {None}]
    BY <1>1, TypeOf
  <1>3. pc[t] \in Posting => b \in Bundles /\ u \in User /\ users[u] \in UserPrekeyRecord
    <2> HAVE pc[t] \in Posting
    <2>1. request[t].kind = "POST"
      BY <1>1 DEF Kinds, KindsOf
    <2> QED BY <2>1, <1>1, <1>2, UploadingType
  <1>3a. CASE FindRecord(t)
    <2>1. PICK to \in {"create", "replace"} : Go(t, "record", to)
      BY <1>3a DEF FindRecord
    <2>2. UNCHANGED users /\ Rest
      BY <1>3a DEF FindRecord
    <2> QED BY <2>1, <2>2, <1>2, TInvQuiet DEF Posting, Statements
  <1>4. CASE NewRecord(t)
    <2>1. Go(t, "create", "list") /\ Rest
      BY <1>4 DEF NewRecord
    <2>2. b \in Bundles /\ u \in User
      BY <2>1, <1>3 DEF Go, Posting
    <2> DEFINE record == [NoRecord EXCEPT !.registered = TRUE, !.identity_key = b.identity_key,
                                          !.signed_prekey = b.signed_prekey]
    <2>3. record \in UserPrekeyRecord /\ record.listed \subseteq OneTime
      BY <2>2, BundleShape DEF NoRecord, UserPrekeyRecord
    <2>4. users' = [users EXCEPT ![u] = record]
      BY <1>4 DEF NewRecord
    <2> HIDE DEF b, u, record
    <2>5. users' \in [User -> UserPrekeyRecord] /\ Listed'
      BY <2>2, <2>3, <2>4, RecordReplaced
    <2> QED BY <2>1, <2>5, <1>2, TInvThread DEF Posting, Statements
  <1>5. CASE ReplaceIdentityKey(t)
    <2>1. Go(t, "replace", "signed") /\ Rest
      BY <1>5 DEF ReplaceIdentityKey
    <2>2. b \in Bundles /\ u \in User /\ users[u] \in UserPrekeyRecord
      BY <2>1, <1>3 DEF Go, Posting
    <2> DEFINE record == [users[u] EXCEPT !.identity_key = b.identity_key]
    <2>3. record \in UserPrekeyRecord /\ record.listed \subseteq OneTime
      BY <2>2, <1>1, BundleShape DEF UserPrekeyRecord, Listed
    <2>4. users' = [users EXCEPT ![u] = record]
      BY <1>5, <1>2, <2>2 DEF ReplaceIdentityKey
    <2> HIDE DEF b, u, record
    <2>5. users' \in [User -> UserPrekeyRecord] /\ Listed'
      BY <2>2, <2>3, <2>4, RecordReplaced
    <2> QED BY <2>1, <2>5, <1>2, TInvThread DEF Posting, Statements
  <1>6. CASE ReplaceSignedPrekey(t)
    <2>1. Go(t, "signed", "list") /\ Rest
      BY <1>6 DEF ReplaceSignedPrekey
    <2>2. b \in Bundles /\ u \in User /\ users[u] \in UserPrekeyRecord
      BY <2>1, <1>3 DEF Go, Posting
    <2> DEFINE record == [users[u] EXCEPT !.signed_prekey = b.signed_prekey]
    <2>3. record \in UserPrekeyRecord /\ record.listed \subseteq OneTime
      BY <2>2, <1>1, BundleShape DEF UserPrekeyRecord, Listed
    <2>4. users' = [users EXCEPT ![u] = record]
      BY <1>6, <1>2, <2>2 DEF ReplaceSignedPrekey
    <2> HIDE DEF b, u, record
    <2>5. users' \in [User -> UserPrekeyRecord] /\ Listed'
      BY <2>2, <2>3, <2>4, RecordReplaced
    <2> QED BY <2>1, <2>5, <1>2, TInvThread DEF Posting, Statements
  <1>7. CASE RefuseEntries(t)
    <2>1. /\ Go(t, "list", "release") /\ Answer(t, Reply(400, NoPrekeys))
          /\ UNCHANGED <<users, opk_to_user, lock, request, todo, entry>>
      BY <1>7 DEF RefuseEntries
    <2>2. Reply(400, NoPrekeys) \in Replies
      BY DEF Reply, NoPrekeys, Replies, Prekeys
    <2>3. reply' \in [Thread -> Replies]
      BY <2>1, <2>2, <1>1, AnswerType
    <2> QED BY <2>1, <2>3, <1>2, TInvQuiet DEF Statements
  <1>8. CASE BeginEntries(t)
    <2>1. /\ Go(t, "list", "entries") /\ todo' = [todo EXCEPT ![t] = b.one_time_prekeys]
          /\ UNCHANGED <<users, opk_to_user, lock, request, entry, reply>>
      BY <1>8 DEF BeginEntries
    <2>2. b.one_time_prekeys \subseteq OneTime
      BY <2>1, <1>3, BundleShape DEF Go, Posting
    <2> HIDE DEF b, u
    <2>3. todo' \in [Thread -> SUBSET OneTime]
      BY <2>1, <2>2, <1>2
    <2> QED BY <2>1, <2>3, <1>2, TInvQuiet DEF Posting, Statements
  <1>9. CASE EndEntries(t)
    <2>1. /\ Go(t, "entries", "release") /\ Answer(t, Reply(200, NoPrekeys))
          /\ UNCHANGED <<users, opk_to_user, lock, request, todo, entry>>
      BY <1>9 DEF EndEntries
    <2>2. Reply(200, NoPrekeys) \in Replies
      BY DEF Reply, NoPrekeys, Replies, Prekeys
    <2>3. reply' \in [Thread -> Replies]
      BY <2>1, <2>2, <1>1, AnswerType
    <2> QED BY <2>1, <2>3, <1>2, TInvQuiet DEF Statements
  <1>10. CASE \E opk \in todo[t] : ListEntry(t, opk)
    <2>1. PICK opk \in todo[t] : ListEntry(t, opk)
      BY <1>10
    <2>2. opk \in OneTime
      BY <1>2
    <2>3. /\ Go(t, "entries", "owner")
          /\ todo' = [todo EXCEPT ![t] = todo[t] \ {opk}]
          /\ entry' = [entry EXCEPT ![t] = opk]
          /\ UNCHANGED <<opk_to_user, lock, request, reply>>
      BY <2>1, <1>2 DEF ListEntry
    <2>4. b \in Bundles /\ u \in User /\ users[u] \in UserPrekeyRecord
      BY <2>3, <1>3 DEF Go, Posting
    <2> DEFINE record == [users[u] EXCEPT !.listed = users[u].listed \cup {opk},
                                          !.used = users[u].used \ {opk}]
    <2>5. record \in UserPrekeyRecord /\ record.listed \subseteq OneTime
      BY <2>2, <2>4, <1>1, NamesAssumption DEF UserPrekeyRecord, Listed
    <2>6. users' = [users EXCEPT ![u] = record]
      BY <2>1, <1>2, <2>4 DEF ListEntry, UserPrekeyRecord
    <2> HIDE DEF b, u, record
    <2>7. users' \in [User -> UserPrekeyRecord] /\ Listed'
      BY <2>4, <2>5, <2>6, RecordReplaced
    <2>8. /\ entry' \in [Thread -> OneTime \cup {None}]
          /\ todo' \in [Thread -> SUBSET OneTime]
      BY <2>2, <2>3, <1>2
    <2> QED BY <2>3, <2>7, <2>8, <1>2, TInvThread DEF Posting, Statements
  <1>11. CASE NoteOwner(t)
    <2>1. /\ Go(t, "owner", "entries")
          /\ opk_to_user' = [opk_to_user EXCEPT ![entry[t]] = u]
          /\ entry' = [entry EXCEPT ![t] = None]
          /\ UNCHANGED <<users, lock, request, todo, reply>>
      BY <1>11 DEF NoteOwner
    <2>2. u \in User
      BY <2>1, <1>3 DEF Go, Posting
    <2> HIDE DEF b, u
    <2>3. /\ opk_to_user' \in [OneTime -> User \cup {None}]
          /\ entry' \in [Thread -> OneTime \cup {None}]
      BY <2>1, <2>2, <1>2
    <2>4. users' \in [User -> UserPrekeyRecord] /\ Listed'
      BY <2>1, <1>1, <1>2 DEF Listed
    <2> QED BY <2>1, <2>3, <2>4, <1>2, TInvThread DEF Posting, Statements
  <1> QED BY <1>3a, <1>4, <1>5, <1>6, <1>7, <1>8, <1>9, <1>10, <1>11 DEF Upload

LEMMA TInvGet ==
  ASSUME TInv, NEW t \in Thread, Get(t)
  PROVE  TInv'
  <1> DEFINE u == request[t].user_id
             Rest == UNCHANGED <<users, opk_to_user, lock, request, todo, entry>>
  <1>1. TypeOK /\ Kinds /\ Listed
    BY DEF TInv
  <1>2. /\ lock \in Thread \cup {None}
        /\ todo \in [Thread -> SUBSET OneTime]
        /\ entry \in [Thread -> OneTime \cup {None}]
        /\ reply \in [Thread -> Replies]
        /\ users \in [User -> UserPrekeyRecord]
        /\ opk_to_user \in [OneTime -> User \cup {None}]
    BY <1>1, TypeOf
  <1>3. pc[t] \in Getting => u \in User /\ users[u] \in UserPrekeyRecord
    BY <1>1, <1>2, TypeParts, RequestShape DEF Kinds, KindsOf
  <1>4. CASE UnknownUser(t)
    <2>1. Go(t, "select", "release") /\ Answer(t, Reply(404, NoPrekeys)) /\ Rest
      BY <1>4 DEF UnknownUser
    <2>2. Reply(404, NoPrekeys) \in Replies
      BY DEF Reply, NoPrekeys, Replies, Prekeys
    <2>3. reply' \in [Thread -> Replies]
      BY <2>1, <2>2, <1>1, AnswerType
    <2> QED BY <2>1, <2>3, <1>2, TInvQuiet DEF Statements
  <1>5. CASE SelectOpk(t)
    <2>1. Go(t, "select", "identity") /\ Rest
      BY <1>5 DEF SelectOpk
    <2>2. PICK opk \in Offered(users[u]) :
            Answer(t, Reply(200, [NoPrekeys EXCEPT !.one_time_prekey = opk]))
      BY <1>5 DEF SelectOpk
    <2>3. opk \in OneTime \cup {None}
      BY <2>1, <2>2, <1>1, <1>3, RecordType DEF Go, Getting, Listed
    <2>4. Reply(200, [NoPrekeys EXCEPT !.one_time_prekey = opk]) \in Replies
      BY <2>3 DEF Reply, NoPrekeys, Replies, Prekeys
    <2>5. reply' \in [Thread -> Replies]
      BY <2>2, <2>4, <1>1, AnswerType
    <2> QED BY <2>1, <2>5, <1>2, TInvQuiet DEF Getting, Statements
  <1>6. CASE ReadIdentityKey(t)
    <2>1. Go(t, "identity", "keys") /\ Rest
      BY <1>6 DEF ReadIdentityKey
    <2>2. users[u].identity_key \in Nat
      BY <2>1, <1>3 DEF Go, Getting, UserPrekeyRecord
    <2>3. reply' = [reply EXCEPT ![t].prekeys.identity_key = users[u].identity_key]
      BY <1>6 DEF ReadIdentityKey
    <2>4. reply' \in [Thread -> Replies]
      BY <2>2, <2>3, <1>2 DEF Replies, Prekeys
    <2> QED BY <2>1, <2>4, <1>2, TInvQuiet DEF Getting, Statements
  <1>7. CASE ReadSignedPrekey(t)
    <2>1. Go(t, "keys", "release") /\ Rest
      BY <1>7 DEF ReadSignedPrekey
    <2>2. users[u].signed_prekey \in Nat
      BY <2>1, <1>3 DEF Go, Getting, UserPrekeyRecord
    <2>3. reply' = [reply EXCEPT ![t].prekeys.signed_prekey = users[u].signed_prekey]
      BY <1>7 DEF ReadSignedPrekey
    <2>4. reply' \in [Thread -> Replies]
      BY <2>2, <2>3, <1>2 DEF Replies, Prekeys
    <2> QED BY <2>1, <2>4, <1>2, TInvQuiet DEF Statements
  <1> QED BY <1>4, <1>5, <1>6, <1>7 DEF Get

(* mark_opk_used on the store. *)
LEMMA MarkedType ==
  ASSUME TInv, NEW owner, NEW opk
  PROVE  /\ Marked(users, owner, opk) \in [User -> UserPrekeyRecord]
         /\ \A v \in User : Marked(users, owner, opk)[v].listed = users[v].listed
  <1>1. users \in [User -> UserPrekeyRecord]
    BY TypeOf DEF TInv
  <1>2. \A v \in User : MarkOpkUsed(users[v], opk) \in UserPrekeyRecord
    BY <1>1, RecordType
  <1>3. \A v \in User : MarkOpkUsed(users[v], opk).listed = users[v].listed
    BY <1>1 DEF MarkOpkUsed, UserPrekeyRecord
  <1> QED BY <1>1, <1>2, <1>3 DEF Marked

LEMMA TInvMark ==
  ASSUME TInv, NEW t \in Thread, Mark(t)
  PROVE  TInv'
  <1> DEFINE opk == request[t].opk_id
             owner == opk_to_user[opk]
  <1>1. TypeOK /\ Kinds /\ Listed
    BY DEF TInv
  <1>2. /\ lock \in Thread \cup {None}
        /\ todo \in [Thread -> SUBSET OneTime]
        /\ entry \in [Thread -> OneTime \cup {None}]
        /\ reply \in [Thread -> Replies]
        /\ users \in [User -> UserPrekeyRecord]
        /\ opk_to_user \in [OneTime -> User \cup {None}]
    BY <1>1, TypeOf
  <1>3. /\ Go(t, "mark", "release") /\ users' = Marked(users, owner, opk)
        /\ Answer(t, MarkReply(users, owner, opk))
        /\ UNCHANGED <<opk_to_user, lock, request, todo, entry>>
    BY DEF Mark
  <1>4. MarkReply(users, owner, opk) \in Replies
    BY DEF MarkReply, Reply, NoPrekeys, Replies, Prekeys
  <1>5. reply' \in [Thread -> Replies]
    BY <1>1, <1>3, <1>4, AnswerType
  <1>6. users' \in [User -> UserPrekeyRecord] /\ Listed'
    BY <1>1, <1>3, MarkedType DEF Listed
  <1> QED BY <1>2, <1>3, <1>5, <1>6, TInvThread DEF Statements

LEMMA TInvAcquire ==
  ASSUME TInv, NEW t \in Thread, Acquire(t)
  PROVE  TInv'
  <1>1. TypeOK /\ Kinds /\ Listed
    BY DEF TInv
  <1>2. /\ lock \in Thread \cup {None}
        /\ todo \in [Thread -> SUBSET OneTime]
        /\ entry \in [Thread -> OneTime \cup {None}]
        /\ reply \in [Thread -> Replies]
        /\ users \in [User -> UserPrekeyRecord]
        /\ opk_to_user \in [OneTime -> User \cup {None}]
    BY <1>1, TypeOf
  <1>3. /\ Go(t, "waiting", Entry(request[t].kind)) /\ lock' = t
        /\ UNCHANGED <<users, opk_to_user, request, todo, entry, reply>>
    BY DEF Acquire
  <1>4. request[t].kind \in {"POST", "GET", "DELETE"}
    BY <1>1, <1>3 DEF Kinds, KindsOf, Go
  <1>5. Entry(request[t].kind) \in Statements
    BY <1>4 DEF Entry, Statements
  <1> QED BY <1>2, <1>3, <1>5, TInvQuiet

LEMMA TInvRelease ==
  ASSUME TInv, NEW t \in Thread, Release(t)
  PROVE  TInv'
  <1>1. TypeOK /\ Kinds /\ Listed
    BY DEF TInv
  <1>2. /\ lock \in Thread \cup {None}
        /\ todo \in [Thread -> SUBSET OneTime]
        /\ entry \in [Thread -> OneTime \cup {None}]
        /\ reply \in [Thread -> Replies]
        /\ users \in [User -> UserPrekeyRecord]
        /\ opk_to_user \in [OneTime -> User \cup {None}]
    BY <1>1, TypeOf
  <1>3. /\ Go(t, "release", "reply") /\ lock' = None
        /\ UNCHANGED <<users, opk_to_user, request, todo, entry, reply>>
    BY DEF Release
  <1> QED BY <1>2, <1>3, TInvQuiet DEF Statements

LEMMA TInvNext == TInv /\ [Next]_vars => TInv'
  <1> SUFFICES ASSUME TInv, [Next]_vars PROVE TInv'
    OBVIOUS
  <1>1. CASE UNCHANGED vars
    BY <1>1 DEF TInv, TypeOK, Kinds, KindsOf, Listed, vars
  <1>2. CASE Next
    <2>1. PICK t \in Thread : Arrive(t) \/ Acquire(t) \/ Work(t) \/ SendReply(t)
      BY <1>2 DEF Next
    <2> QED BY <2>1, TInvArrive, TInvAcquire, TInvUpload, TInvGet, TInvMark, TInvRelease,
               TInvSendReply DEF Work
  <1> QED BY <1>1, <1>2

(* Every state of the server is well typed: a reply's status is one the    *)
(* handlers know, and what it offers is a key or None.                     *)
THEOREM TypeCorrect == Spec => []TypeOK
  <1>1. Spec => []TInv
    BY TInvInit, TInvNext, PTL DEF Spec
  <1>2. TInv => TypeOK
    BY DEF TInv
  <1> QED BY <1>1, <1>2, PTL

-----------------------------------------------------------------------------
(* The inductive invariant: who is at a statement of the store holds its   *)
(* lock, what a thread has done so far can be read from the store, and the *)
(* record of a user is one upload's but between two statements of the next.*)
Critical == Posting \cup Getting \cup {"mark", "release"}
OneHolder == \A t \in Thread : pc[t] \in Critical <=> lock = t

Keyed(b) ==
  users[b.user_id].registered /\ users[b.user_id].identity_key = b.identity_key
Entered(b, opk) ==
  /\ opk \in users[b.user_id].listed
  /\ opk \notin users[b.user_id].used
  /\ opk_to_user[opk] = b.user_id
Stored(b) ==
  /\ Keyed(b) /\ users[b.user_id].signed_prekey = b.signed_prekey
  /\ \A opk \in Accepted(b).one_time_prekeys : Entered(b, opk)

UploadSoFar(t) ==
  LET b == Uploading(t)
  IN  /\ pc[t] \in {"create", "replace"} =>
           (users[b.user_id].registered <=> pc[t] = "replace")
      /\ pc[t] \in {"signed", "list", "entries", "owner"} => Keyed(b)
      /\ pc[t] \in {"list", "entries", "owner"} =>
           users[b.user_id].signed_prekey = b.signed_prekey
      /\ pc[t] \in {"entries", "owner"} =>
           /\ b.is_list /\ todo[t] \subseteq b.one_time_prekeys
           /\ \A opk \in b.one_time_prekeys \ todo[t] :
                Entered(b, opk) \/ (pc[t] = "owner" /\ opk = entry[t])
      /\ pc[t] = "owner" =>
           /\ entry[t] \in b.one_time_prekeys
           /\ entry[t] \in users[b.user_id].listed \ users[b.user_id].used
      /\ pc[t] = "release" /\ request[t].kind = "POST" =>
           Stored(b) /\ reply[t] = UploadReply(b)

GetSoFar(t) ==
  LET record == users[request[t].user_id]
  IN  /\ pc[t] \in {"identity", "keys"} =>
           /\ record.registered /\ reply[t].status = 200
           /\ reply[t].prekeys.one_time_prekey \in Offered(record)
      /\ pc[t] = "keys" => reply[t].prekeys.identity_key = record.identity_key

WholeFor(u, identity, signed) ==
  \E b \in Bundles : b.user_id = u /\ b.identity_key = identity /\ b.signed_prekey = signed

Answering(t) ==
  /\ pc[t] \in {"idle", "waiting", "select", "mark"} \cup Posting => reply[t] = NoReply
  /\ pc[t] \in {"release", "reply"} =>
       /\ reply[t].status # 0
       /\ request[t].kind = "GET" /\ reply[t].status = 200 =>
            WholeFor(request[t].user_id, reply[t].prekeys.identity_key,
                     reply[t].prekeys.signed_prekey)

SoFar(t) == UploadSoFar(t) /\ GetSoFar(t) /\ Answering(t)

Fresh ==
  \A u \in User :
    ~users[u].registered => users[u].listed = {} /\ users[u].used = {}
WholeRecords ==
  \A u \in User :
    users[u].registered =>
      \/ WholeFor(u, users[u].identity_key, users[u].signed_prekey)
      \/ \E t \in Thread : pc[t] = "signed" /\ Uploading(t).user_id = u
(* Who is noted as a key's owner lists it, and the owner of every key that *)
(* is listed is noted, or the thread that has just listed it will.         *)
OwnersList ==
  \A opk \in OneTime : opk_to_user[opk] # None => opk \in users[opk_to_user[opk]].listed
OwnersNoted ==
  \A u \in User : \A opk \in users[u].listed :
    \/ opk_to_user[opk] # None
    \/ \E t \in Thread : pc[t] = "owner" /\ entry[t] = opk
StoreInv == Fresh /\ WholeRecords /\ OwnersList /\ OwnersNoted

IInv == TInv /\ OneHolder /\ (\A t \in Thread : SoFar(t)) /\ StoreInv

LEMMA IInvInit == Init => IInv
  <1> SUFFICES ASSUME Init PROVE IInv
    OBVIOUS
  <1>1. TInv
    BY TInvInit
  <1>2. OneHolder
    BY NamesAssumption DEF Init, OneHolder, Critical, Posting, Getting
  <1>3. \A t \in Thread : SoFar(t)
    BY DEF Init, SoFar, UploadSoFar, GetSoFar, Answering
  <1>4. StoreInv
    BY DEF Init, StoreInv, Fresh, WholeRecords, OwnersList, OwnersNoted, NoRecord
  <1> QED BY <1>1, <1>2, <1>3, <1>4 DEF IInv

(* What a step of one thread leaves alone: the other threads, of which     *)
(* none is in the store when this one is.                                  *)
LEMMA OthersKeep ==
  ASSUME IInv, NEW t \in Thread, NEW from, NEW to \in Statements, Go(t, from, to),
         \A s \in Thread : s # t => /\ request'[s] = request[s] /\ reply'[s] = reply[s]
                                   /\ todo'[s] = todo[s] /\ entry'[s] = entry[s],
         from \in Critical \/ UNCHANGED <<users, opk_to_user>>
  PROVE  \A s \in Thread : s # t => SoFar(s)'
  <1> SUFFICES ASSUME NEW s \in Thread, s # t PROVE SoFar(s)'
    OBVIOUS
  <1>1. pc[t] = from /\ pc'[s] = pc[s]
    BY ThreadType DEF IInv, TInv
  <1>2. /\ SoFar(s) /\ request'[s] = request[s] /\ reply'[s] = reply[s]
        /\ todo'[s] = todo[s] /\ entry'[s] = entry[s]
    BY DEF IInv
  <1>3. Answering(s)'
    BY <1>1, <1>2 DEF SoFar, Answering, WholeFor
  <1>4. CASE from \in Critical
    <2>1. pc[s] \notin Critical
      BY <1>1, <1>4 DEF IInv, OneHolder
    <2> QED BY <2>1, <1>1, <1>3 DEF SoFar, UploadSoFar, GetSoFar, Critical, Posting, Getting
  <1>5. CASE UNCHANGED <<users, opk_to_user>>
    <2>1. UploadSoFar(s)'
      BY <1>1, <1>2, <1>5 DEF SoFar, UploadSoFar, Uploading, Keyed, Entered, Stored
    <2>2. GetSoFar(s)'
      BY <1>1, <1>2, <1>5 DEF SoFar, GetSoFar
    <2> QED BY <2>1, <2>2, <1>3 DEF SoFar
  <1> QED BY <1>4, <1>5

(* A step that leaves the store alone keeps what holds of it. *)
LEMMA StoreKeeps ==
  ASSUME IInv, NEW t \in Thread, NEW from, NEW to \in Statements, Go(t, from, to),
         from \notin {"signed", "owner"}, UNCHANGED <<users, opk_to_user>>,
         \A s \in Thread : s # t => request'[s] = request[s] /\ entry'[s] = entry[s]
  PROVE  StoreInv'
  <1>1. pc[t] = from /\ \A s \in Thread : s # t => pc'[s] = pc[s]
    BY ThreadType DEF IInv, TInv
  <1>2. Fresh' /\ OwnersList'
    BY DEF IInv, StoreInv, Fresh, OwnersList
  <1>2a. OwnersNoted'
    BY <1>1 DEF IInv, StoreInv, OwnersNoted
  <1>3. WholeRecords'
    <2>1. UNCHANGED users
      OBVIOUS
    <2> SUFFICES ASSUME NEW u \in User, users[u].registered
                 PROVE  \/ WholeFor(u, users[u].identity_key, users[u].signed_prekey)
                        \/ \E s \in Thread : pc'[s] = "signed" /\ Uploading(s)'.user_id = u
      BY <2>1 DEF WholeRecords, WholeFor
    <2>2. CASE WholeFor(u, users[u].identity_key, users[u].signed_prekey)
      BY <2>2
    <2>3. CASE \E s \in Thread : pc[s] = "signed" /\ Uploading(s).user_id = u
      BY <2>3, <1>1 DEF Uploading
    <2> QED BY <2>2, <2>3 DEF IInv, StoreInv, WholeRecords
  <1> QED BY <1>2, <1>2a, <1>3 DEF StoreInv

(* How the lock goes from hand to hand. *)
LEMMA HolderKeeps ==
  ASSUME IInv, NEW t \in Thread, NEW from, NEW to \in Statements, Go(t, from, to),
         \/ from \in Critical /\ to \in Critical /\ UNCHANGED lock
         \/ from \notin Critical /\ to \notin Critical /\ UNCHANGED lock
         \/ to \in Critical /\ lock = None /\ lock' = t
         \/ from \in Critical /\ to \notin Critical /\ lock' = None
  PROVE  OneHolder'
  <1>1. /\ pc[t] = from /\ pc'[t] = to
        /\ \A s \in Thread : s # t => pc'[s] = pc[s]
    BY ThreadType DEF IInv, TInv
  <1> QED BY <1>1, NamesAssumption DEF IInv, OneHolder

LEMMA IInvArrive ==
  ASSUME IInv, NEW t \in Thread, Arrive(t)
  PROVE  IInv'
  <1>1. PICK r \in Request :
          /\ request' = [request EXCEPT ![t] = r]
          /\ \/ r.kind # "bad" /\ Go(t, "idle", "waiting") /\ UNCHANGED reply
             \/ /\ r.kind = "bad"
                /\ Go(t, "idle", "reply")
                /\ \E status \in {400, 404} : Answer(t, Reply(status, NoPrekeys))
          /\ UNCHANGED <<users, opk_to_user, lock, todo, entry>>
    BY DEF Arrive
  <1>2. TInv /\ TypeOK
    BY DEF IInv, TInv
  <1>3. PICK to \in {"waiting", "reply"} : Go(t, "idle", to)
    BY <1>1
  <1>4. to \in Statements
    BY DEF Statements
  <1>5. pc[t] = "idle" /\ pc'[t] = to
    BY <1>2, <1>3, <1>4, ThreadType
  <1>6. \A s \in Thread : s # t => request'[s] = request[s] /\ reply'[s] = reply[s]
    <2>1. CASE UNCHANGED reply
      BY <2>1, <1>1, <1>2, TypeParts
    <2>2. CASE \E status \in {400, 404} : Answer(t, Reply(status, NoPrekeys))
      BY <2>2, <1>1, <1>2, TypeParts DEF Answer
    <2> QED BY <1>1, <2>1, <2>2
  <1>7. TInv'
    BY <1>2, TInvArrive
  <1>8. OneHolder'
    BY <1>1, <1>3, <1>4, HolderKeeps DEF Critical, Posting, Getting
  <1>9. \A s \in Thread : s # t => SoFar(s)'
    BY <1>1, <1>3, <1>4, <1>6, OthersKeep
  <1>10. SoFar(t)'
    <2>1. CASE r.kind # "bad"
      <3>1. pc'[t] = "waiting" /\ reply'[t] = reply[t]
        BY <2>1, <1>1, <1>2, ThreadType DEF Statements
      <3>2. reply[t] = NoReply
        BY <1>5 DEF IInv, SoFar, Answering
      <3> QED BY <3>1, <3>2 DEF SoFar, UploadSoFar, GetSoFar, Answering, NoReply
    <2>2. CASE r.kind = "bad"
      <3>1. PICK status \in {400, 404} : Answer(t, Reply(status, NoPrekeys))
        BY <2>2, <1>1
      <3>2. reply'[t] = Reply(status, NoPrekeys)
        BY <3>1, <1>2, TypeParts DEF Answer
      <3>3. pc'[t] = "reply"
        BY <2>2, <1>1, <1>2, ThreadType DEF Statements
      <3> QED BY <3>2, <3>3 DEF SoFar, UploadSoFar, GetSoFar, Answering, Reply, Posting
    <2> QED BY <2>1, <2>2
  <1>11. StoreInv'
    BY <1>1, <1>3, <1>4, <1>6, StoreKeeps
  <1> QED BY <1>7, <1>8, <1>9, <1>10, <1>11 DEF IInv

LEMMA IInvSendReply ==
  ASSUME IInv, NEW t \in Thread, SendReply(t)
  PROVE  IInv'
  <1>1. /\ Go(t, "reply", "idle") /\ request' = [request EXCEPT ![t] = NoRequest]
        /\ Answer(t, NoReply) /\ UNCHANGED <<users, opk_to_user, lock, todo, entry>>
    BY DEF SendReply
  <1>2. TInv /\ TypeOK /\ "idle" \in Statements
    BY DEF IInv, TInv, Statements
  <1>3. /\ pc'[t] = "idle" /\ reply'[t] = NoReply
        /\ \A s \in Thread : s # t => request'[s] = request[s] /\ reply'[s] = reply[s]
    BY <1>1, <1>2, ThreadType, TypeParts DEF Answer
  <1>4. TInv'
    BY <1>2, TInvSendReply
  <1>5. OneHolder'
    BY <1>1, <1>2, HolderKeeps DEF Critical, Posting, Getting
  <1>6. \A s \in Thread : s # t => SoFar(s)'
    BY <1>1, <1>2, <1>3, OthersKeep
  <1>7. SoFar(t)'
    BY <1>3 DEF SoFar, UploadSoFar, GetSoFar, Answering
  <1>8. StoreInv'
    BY <1>1, <1>2, <1>3, StoreKeeps
  <1> QED BY <1>4, <1>5, <1>6, <1>7, <1>8 DEF IInv

LEMMA IInvAcquire ==
  ASSUME IInv, NEW t \in Thread, Acquire(t)
  PROVE  IInv'
  <1>1. /\ lock = None /\ Go(t, "waiting", Entry(request[t].kind)) /\ lock' = t
        /\ UNCHANGED <<users, opk_to_user, request, todo, entry, reply>>
    BY DEF Acquire
  <1>2. TInv /\ TypeOK /\ Kinds
    BY DEF IInv, TInv
  <1> DEFINE to == Entry(request[t].kind)
  <1>3. request[t].kind \in {"POST", "GET", "DELETE"}
    BY <1>1, <1>2 DEF Kinds, KindsOf, Go
  <1>4. to \in {"record", "select", "mark"}
    BY <1>3 DEF Entry
  <1> HIDE DEF to
  <1>5. to \in Statements /\ to \in Critical
    BY <1>4 DEF Statements, Critical, Posting, Getting
  <1>6. pc[t] = "waiting" /\ pc'[t] = to
    BY <1>1, <1>2, <1>5, ThreadType DEF to
  <1>7. TInv'
    BY <1>2, TInvAcquire
  <1>8. OneHolder'
    BY <1>1, <1>5, HolderKeeps DEF to
  <1>9. \A s \in Thread : s # t => SoFar(s)'
    BY <1>1, <1>5, OthersKeep DEF to
  <1>10. SoFar(t)'
    <2>1. reply[t] = NoReply
      BY <1>6 DEF IInv, SoFar, Answering
    <2> QED BY <2>1, <1>1, <1>4, <1>6 DEF SoFar, UploadSoFar, GetSoFar, Answering
  <1>11. StoreInv'
    BY <1>1, <1>5, StoreKeeps DEF to
  <1> QED BY <1>7, <1>8, <1>9, <1>10, <1>11 DEF IInv

LEMMA IInvRelease ==
  ASSUME IInv, NEW t \in Thread, Release(t)
  PROVE  IInv'
  <1>1. /\ Go(t, "release", "reply") /\ lock' = None
        /\ UNCHANGED <<users, opk_to_user, request, todo, entry, reply>>
    BY DEF Release
  <1>2. TInv /\ TypeOK /\ "reply" \in Statements
    BY DEF IInv, TInv, Statements
  <1>3. pc[t] = "release" /\ pc'[t] = "reply"
    BY <1>1, <1>2, ThreadType
  <1>4. TInv'
    BY <1>2, TInvRelease
  <1>5. OneHolder'
    BY <1>1, <1>2, HolderKeeps DEF Critical, Posting, Getting
  <1>6. \A s \in Thread : s # t => SoFar(s)'
    BY <1>1, <1>2, OthersKeep
  <1>7. SoFar(t)'
    BY <1>1, <1>3 DEF IInv, SoFar, UploadSoFar, GetSoFar, Answering, WholeFor, Posting
  <1>8. StoreInv'
    BY <1>1, <1>2, StoreKeeps
  <1> QED BY <1>4, <1>5, <1>6, <1>7, <1>8 DEF IInv

(* One upload's change to one record keeps what holds of the store. *)
LEMMA StoreChanges ==
  ASSUME IInv, NEW t \in Thread, NEW from, NEW to \in Statements, Go(t, from, to),
         from # "owner", opk_to_user' = opk_to_user, request' = request,
         \A s \in Thread : s # t => entry'[s] = entry[s],
         NEW u \in User, NEW record, users' = [users EXCEPT ![u] = record],
         Uploading(t).user_id = u, record.registered,
         to = "signed" \/ WholeFor(u, record.identity_key, record.signed_prekey),
         users[u].listed \subseteq record.listed,
         record.listed = users[u].listed \/ to = "owner",
         record.listed \subseteq users[u].listed \cup {entry'[t]}
  PROVE  StoreInv'
  <1>1. /\ pc[t] = from /\ pc'[t] = to
        /\ \A s \in Thread : s # t => pc'[s] = pc[s]
    BY ThreadType DEF IInv, TInv
  <1>2. users'[u] = record /\ \A v \in User : v # u => users'[v] = users[v]
    BY TypeOf DEF IInv, TInv
  <1>3. Fresh /\ WholeRecords /\ OwnersList /\ OwnersNoted
    BY DEF IInv, StoreInv
  <1>4. Fresh'
    BY <1>2, <1>3 DEF Fresh
  <1>5. WholeRecords'
    <2> SUFFICES ASSUME NEW v \in User, users'[v].registered
                 PROVE  \/ WholeFor(v, users'[v].identity_key, users'[v].signed_prekey)
                        \/ \E s \in Thread : pc'[s] = "signed" /\ Uploading(s)'.user_id = v
      BY DEF WholeRecords, WholeFor
    <2>1. CASE v = u
      BY <2>1, <1>1, <1>2 DEF Uploading
    <2>2. CASE v # u
      <3>1. \/ WholeFor(v, users[v].identity_key, users[v].signed_prekey)
            \/ \E s \in Thread : pc[s] = "signed" /\ Uploading(s).user_id = v
        BY <2>2, <1>2, <1>3 DEF WholeRecords
      <3>2. CASE \E s \in Thread : pc[s] = "signed" /\ Uploading(s).user_id = v
        <4>1. PICK s \in Thread : pc[s] = "signed" /\ Uploading(s).user_id = v
          BY <3>2
        <4>2. s # t
          BY <4>1, <2>2, <1>1
        <4> QED BY <4>1, <4>2, <1>1 DEF Uploading
      <3> QED BY <3>1, <3>2, <2>2, <1>2
    <2> QED BY <2>1, <2>2
  <1>6. OwnersList'
    <2>1. \A v \in User : users[v].listed \subseteq users'[v].listed
      BY <1>2
    <2>2. opk_to_user \in [OneTime -> User \cup {None}]
      BY TypeOf DEF IInv, TInv
    <2> QED BY <2>1, <2>2, <1>3 DEF OwnersList
  <1>7. OwnersNoted'
    <2> SUFFICES ASSUME NEW v \in User, NEW opk \in users'[v].listed, opk_to_user[opk] = None
                 PROVE  \E s \in Thread : pc'[s] = "owner" /\ entry'[s] = opk
      BY DEF OwnersNoted
    <2>1. CASE opk \in users[v].listed
      <3>1. PICK s \in Thread : pc[s] = "owner" /\ entry[s] = opk
        BY <2>1, <1>3 DEF OwnersNoted
      <3> QED BY <3>1, <1>1
    <2>2. CASE opk \notin users[v].listed
      BY <2>2, <1>1, <1>2
    <2> QED BY <2>1, <2>2
  <1> QED BY <1>4, <1>5, <1>6, <1>7 DEF StoreInv

LEMMA IInvFindRecord ==
  ASSUME IInv, NEW t \in Thread, FindRecord(t)
  PROVE  IInv'
  <1> DEFINE b == Uploading(t)
             u == b.user_id
  <1>1. PICK to \in {"create", "replace"} :
          Go(t, "record", to) /\ (users[u].registered <=> to = "replace")
    BY DEF FindRecord
  <1>2. UNCHANGED <<users, opk_to_user, lock, request, todo, entry, reply>>
    BY DEF FindRecord
  <1>3. TInv /\ TypeOK /\ to \in Statements
    BY DEF IInv, TInv, Statements
  <1>4. pc[t] = "record" /\ pc'[t] = to
    BY <1>1, <1>3, ThreadType
  <1>5. TInv'
    BY <1>3, TInvUpload DEF Upload
  <1>6. OneHolder'
    BY <1>1, <1>2, <1>3, HolderKeeps DEF Critical, Posting
  <1>7. \A s \in Thread : s # t => SoFar(s)'
    BY <1>1, <1>2, <1>3, OthersKeep
  <1>8. SoFar(t)'
    <2>1. reply[t] = NoReply /\ b' = b /\ users' = users
      BY <1>2, <1>4 DEF IInv, SoFar, Answering, Posting, Uploading
    <2>2. UploadSoFar(t)'
      BY <2>1, <1>1, <1>4 DEF UploadSoFar
    <2> QED BY <2>1, <2>2, <1>1, <1>2, <1>4 DEF SoFar, GetSoFar, Answering, Posting
  <1>9. StoreInv'
    BY <1>1, <1>2, <1>3, StoreKeeps
  <1> QED BY <1>5, <1>6, <1>7, <1>8, <1>9 DEF IInv

LEMMA IInvNewRecord ==
  ASSUME IInv, NEW t \in Thread, NewRecord(t)
  PROVE  IInv'
  <1> DEFINE b == Uploading(t)
             u == b.user_id
             record == [NoRecord EXCEPT !.registered = TRUE, !.identity_key = b.identity_key,
                                        !.signed_prekey = b.signed_prekey]
  <1>1. /\ Go(t, "create", "list") /\ users' = [users EXCEPT ![u] = record]
        /\ UNCHANGED <<opk_to_user, lock, request, todo, entry, reply>>
    BY DEF NewRecord
  <1>2. TInv /\ TypeOK /\ Kinds /\ "list" \in Statements
    BY DEF IInv, TInv, Statements
  <1>3. pc[t] = "create" /\ pc'[t] = "list"
    BY <1>1, <1>2, ThreadType
  <1>4. request[t].kind = "POST" /\ b \in Bundles /\ u \in User
    BY <1>2, <1>3, UploadingType DEF Kinds, KindsOf, Posting
  <1>5. /\ record.registered /\ record.identity_key = b.identity_key
        /\ record.signed_prekey = b.signed_prekey /\ record.listed = {}
    BY DEF NoRecord
  <1>6. b' = b
    BY <1>1 DEF Uploading
  <1> HIDE DEF record
  <1>7. users'[u] = record
    BY <1>1, <1>2, <1>4, TypeOf
  <1>8. TInv'
    BY <1>2, TInvUpload DEF Upload
  <1>9. OneHolder'
    BY <1>1, <1>2, HolderKeeps DEF Critical, Posting
  <1>10. \A s \in Thread : s # t => SoFar(s)'
    BY <1>1, <1>2, OthersKeep DEF Critical, Posting
  <1>11. SoFar(t)'
    <2>1. reply[t] = NoReply
      BY <1>3 DEF IInv, SoFar, Answering, Posting
    <2>2. UploadSoFar(t)'
      BY <1>3, <1>5, <1>6, <1>7 DEF UploadSoFar, Keyed
    <2> QED BY <2>1, <2>2, <1>1, <1>3 DEF SoFar, GetSoFar, Answering
  <1>12. StoreInv'
    <2>1. WholeFor(u, record.identity_key, record.signed_prekey)
      BY <1>4, <1>5 DEF WholeFor
    <2>2. /\ users[u].listed \subseteq record.listed /\ record.listed = users[u].listed
          /\ record.listed \subseteq users[u].listed \cup {entry'[t]}
      BY <1>3, <1>4, <1>5 DEF IInv, SoFar, UploadSoFar, StoreInv, Fresh
    <2>3. Uploading(t).user_id = u
      OBVIOUS
    <2> HIDE DEF b, u
    <2> QED BY <2>1, <2>2, <2>3, <1>1, <1>2, <1>4, <1>5, StoreChanges
  <1> QED BY <1>8, <1>9, <1>10, <1>11, <1>12 DEF IInv

LEMMA IInvReplaceIdentityKey ==
  ASSUME IInv, NEW t \in Thread, ReplaceIdentityKey(t)
  PROVE  IInv'
  <1> DEFINE b == Uploading(t)
             u == b.user_id
             record == [users[u] EXCEPT !.identity_key = b.identity_key]
  <1>1. /\ Go(t, "replace", "signed")
        /\ UNCHANGED <<opk_to_user, lock, request, todo, entry, reply>>
    BY DEF ReplaceIdentityKey
  <1>2. TInv /\ TypeOK /\ Kinds /\ "signed" \in Statements
    BY DEF IInv, TInv, Statements
  <1>3. pc[t] = "replace" /\ pc'[t] = "signed"
    BY <1>1, <1>2, ThreadType
  <1>4. /\ request[t].kind = "POST" /\ b \in Bundles /\ u \in User
        /\ users[u] \in UserPrekeyRecord
    BY <1>2, <1>3, UploadingType, TypeOf DEF Kinds, KindsOf, Posting
  <1>5. users' = [users EXCEPT ![u] = record]
    BY <1>2, <1>4, TypeOf DEF ReplaceIdentityKey
  <1>6. /\ record.registered /\ record.identity_key = b.identity_key
        /\ record.listed = users[u].listed
    BY <1>3, <1>4 DEF IInv, SoFar, UploadSoFar, UserPrekeyRecord
  <1>7. b' = b
    BY <1>1 DEF Uploading
  <1> HIDE DEF record
  <1>8. users'[u] = record
    BY <1>5, <1>2, <1>4, TypeOf
  <1>9. TInv'
    BY <1>2, TInvUpload DEF Upload
  <1>10. OneHolder'
    BY <1>1, <1>2, HolderKeeps DEF Critical, Posting
  <1>11. \A s \in Thread : s # t => SoFar(s)'
    BY <1>1, <1>2, OthersKeep DEF Critical, Posting
  <1>12. SoFar(t)'
    <2>1. reply[t] = NoReply
      BY <1>3 DEF IInv, SoFar, Answering, Posting
    <2>2. UploadSoFar(t)'
      BY <1>3, <1>6, <1>7, <1>8 DEF UploadSoFar, Keyed
    <2> QED BY <2>1, <2>2, <1>1, <1>3 DEF SoFar, GetSoFar, Answering, Posting
  <1>13. StoreInv'
    <2>1. Go(t, "replace", "signed") /\ "signed" \in Statements /\ "replace" # "owner"
      BY <1>1, <1>2
    <2>2. /\ users[u].listed \subseteq record.listed /\ record.listed = users[u].listed
          /\ record.listed \subseteq users[u].listed \cup {entry'[t]}
      BY <1>6
    <2>3. /\ opk_to_user' = opk_to_user /\ request' = request
          /\ \A s \in Thread : s # t => entry'[s] = entry[s]
      BY <1>1
    <2>4. Uploading(t).user_id = u
      OBVIOUS
    <2> HIDE DEF b, u
    <2> QED BY <2>1, <2>2, <2>3, <2>4, <1>4, <1>5, <1>6, StoreChanges
  <1> QED BY <1>9, <1>10, <1>11, <1>12, <1>13 DEF IInv

LEMMA IInvReplaceSignedPrekey ==
  ASSUME IInv, NEW t \in Thread, ReplaceSignedPrekey(t)
  PROVE  IInv'
  <1> DEFINE b == Uploading(t)
             u == b.user_id
             record == [users[u] EXCEPT !.signed_prekey = b.signed_prekey]
  <1>1. /\ Go(t, "signed", "list")
        /\ UNCHANGED <<opk_to_user, lock, request, todo, entry, reply>>
    BY DEF ReplaceSignedPrekey
  <1>2. TInv /\ TypeOK /\ Kinds /\ "list" \in Statements
    BY DEF IInv, TInv, Statements
  <1>3. pc[t] = "signed" /\ pc'[t] = "list"
    BY <1>1, <1>2, ThreadType
  <1>4. /\ request[t].kind = "POST" /\ b \in Bundles /\ u \in User
        /\ users[u] \in UserPrekeyRecord
    BY <1>2, <1>3, UploadingType, TypeOf DEF Kinds, KindsOf, Posting
  <1>5. users' = [users EXCEPT ![u] = record]
    BY <1>2, <1>4, TypeOf DEF ReplaceSignedPrekey
  <1>6. /\ record.registered /\ record.identity_key = b.identity_key
        /\ record.listed = users[u].listed
        /\ record.signed_prekey = b.signed_prekey
    BY <1>3, <1>4 DEF UserPrekeyRecord, IInv, SoFar, UploadSoFar, Keyed
  <1>7. b' = b
    BY <1>1 DEF Uploading
  <1> HIDE DEF record
  <1>8. users'[u] = record
    BY <1>5, <1>2, <1>4, TypeOf
  <1>9. TInv'
    BY <1>2, TInvUpload DEF Upload
  <1>10. OneHolder'
    BY <1>1, <1>2, HolderKeeps DEF Critical, Posting
  <1>11. \A s \in Thread : s # t => SoFar(s)'
    BY <1>1, <1>2, OthersKeep DEF Critical, Posting
  <1>12. SoFar(t)'
    <2>1. reply[t] = NoReply
      BY <1>3 DEF IInv, SoFar, Answering, Posting
    <2>2. UploadSoFar(t)'
      BY <1>3, <1>6, <1>7, <1>8 DEF UploadSoFar, Keyed
    <2> QED BY <2>1, <2>2, <1>1, <1>3 DEF SoFar, GetSoFar, Answering, Posting
  <1>13. StoreInv'
    <2>1. WholeFor(u, record.identity_key, record.signed_prekey)
      BY <1>4, <1>6 DEF WholeFor
    <2>2. /\ users[u].listed \subseteq record.listed /\ record.listed = users[u].listed
          /\ record.listed \subseteq users[u].listed \cup {entry'[t]}
      BY <1>6
    <2>3. Uploading(t).user_id = u
      OBVIOUS
    <2> HIDE DEF b, u
    <2> QED BY <2>1, <2>2, <2>3, <1>1, <1>2, <1>4, <1>5, <1>6, StoreChanges
  <1> QED BY <1>9, <1>10, <1>11, <1>12, <1>13 DEF IInv

LEMMA IInvRefuseEntries ==
  ASSUME IInv, NEW t \in Thread, RefuseEntries(t)
  PROVE  IInv'
  <1> DEFINE b == Uploading(t)
  <1>1. /\ Go(t, "list", "release") /\ Answer(t, Reply(400, NoPrekeys)) /\ ~b.is_list
        /\ UNCHANGED <<users, opk_to_user, lock, request, todo, entry>>
    BY DEF RefuseEntries
  <1>2. TInv /\ TypeOK /\ Kinds /\ "release" \in Statements
    BY DEF IInv, TInv, Statements
  <1>3. /\ pc[t] = "list" /\ pc'[t] = "release"
        /\ reply'[t] = Reply(400, NoPrekeys)
        /\ \A s \in Thread : s # t => reply'[s] = reply[s]
    BY <1>1, <1>2, ThreadType, TypeParts DEF Answer
  <1>4. request[t].kind = "POST" /\ b \in Bundles
    BY <1>2, <1>3, UploadingType DEF Kinds, KindsOf, Posting
  <1>5. Accepted(b).one_time_prekeys = {} /\ b' = b
    BY <1>1, <1>4, BundleShape DEF Accepted, Uploading, Bundle
  <1>6. TInv'
    BY <1>2, TInvUpload DEF Upload
  <1>7. OneHolder'
    BY <1>1, <1>2, HolderKeeps DEF Critical, Posting
  <1>8. \A s \in Thread : s # t => SoFar(s)'
    BY <1>1, <1>2, <1>3, OthersKeep
  <1>9. SoFar(t)'
    <2>1. SoFar(t)
      BY DEF IInv
    <2>2. Stored(b)
      BY <2>1, <1>1, <1>3, <1>5 DEF SoFar, UploadSoFar, Stored
    <2>3. reply'[t] = UploadReply(b)
      BY <1>1, <1>3 DEF UploadReply
    <2>4. Stored(b)'
      BY <2>2, <1>1, <1>5 DEF Stored, Keyed, Entered
    <2>5. UploadSoFar(t)'
      BY <2>3, <2>4, <1>3, <1>5 DEF UploadSoFar, UploadReply
    <2>6. request'[t].kind = "POST"
      BY <1>1, <1>4
    <2> QED BY <2>5, <2>6, <1>3 DEF SoFar, GetSoFar, Answering, Posting, Reply
  <1>10. StoreInv'
    BY <1>1, <1>2, StoreKeeps
  <1> QED BY <1>6, <1>7, <1>8, <1>9, <1>10 DEF IInv

LEMMA IInvEndEntries ==
  ASSUME IInv, NEW t \in Thread, EndEntries(t)
  PROVE  IInv'
  <1> DEFINE b == Uploading(t)
  <1>1. /\ Go(t, "entries", "release") /\ Answer(t, Reply(200, NoPrekeys)) /\ todo[t] = {}
        /\ UNCHANGED <<users, opk_to_user, lock, request, todo, entry>>
    BY DEF EndEntries
  <1>2. TInv /\ TypeOK /\ Kinds /\ "release" \in Statements
    BY DEF IInv, TInv, Statements
  <1>3. /\ pc[t] = "entries" /\ pc'[t] = "release"
        /\ reply'[t] = Reply(200, NoPrekeys)
        /\ \A s \in Thread : s # t => reply'[s] = reply[s]
    BY <1>1, <1>2, ThreadType, TypeParts DEF Answer
  <1>4. request[t].kind = "POST" /\ b \in Bundles
    BY <1>2, <1>3, UploadingType DEF Kinds, KindsOf, Posting
  <1>5. Accepted(b).one_time_prekeys = b.one_time_prekeys /\ b' = b
    BY <1>1, <1>3 DEF Accepted, Uploading, IInv, SoFar, UploadSoFar
  <1>6. TInv'
    BY <1>2, TInvUpload DEF Upload
  <1>7. OneHolder'
    BY <1>1, <1>2, HolderKeeps DEF Critical, Posting
  <1>8. \A s \in Thread : s # t => SoFar(s)'
    BY <1>1, <1>2, <1>3, OthersKeep
  <1>9. SoFar(t)'
    <2>1. SoFar(t)
      BY DEF IInv
    <2>2. Stored(b)
      BY <2>1, <1>1, <1>3, <1>5 DEF SoFar, UploadSoFar, Stored
    <2>3. reply'[t] = UploadReply(b)
      BY <1>1, <1>3 DEF UploadReply, IInv, SoFar, UploadSoFar
    <2>4. Stored(b)'
      BY <2>2, <1>1, <1>5 DEF Stored, Keyed, Entered
    <2>5. UploadSoFar(t)'
      BY <2>3, <2>4, <1>3, <1>5 DEF UploadSoFar, UploadReply
    <2>6. request'[t].kind = "POST"
      BY <1>1, <1>4
    <2> QED BY <2>5, <2>6, <1>3 DEF SoFar, GetSoFar, Answering, Posting, Reply
  <1>10. StoreInv'
    BY <1>1, <1>2, StoreKeeps
  <1> QED BY <1>6, <1>7, <1>8, <1>9, <1>10 DEF IInv

LEMMA IInvBeginEntries ==
  ASSUME IInv, NEW t \in Thread, BeginEntries(t)
  PROVE  IInv'
  <1> DEFINE b == Uploading(t)
  <1>1. /\ Go(t, "list", "entries") /\ b.is_list
        /\ todo' = [todo EXCEPT ![t] = b.one_time_prekeys]
        /\ UNCHANGED <<users, opk_to_user, lock, request, entry, reply>>
    BY DEF BeginEntries
  <1>2. TInv /\ TypeOK /\ "entries" \in Statements
    BY DEF IInv, TInv, Statements
  <1>3. /\ pc[t] = "list" /\ pc'[t] = "entries" /\ todo'[t] = b.one_time_prekeys /\ b' = b
        /\ \A s \in Thread : s # t => todo'[s] = todo[s]
    BY <1>1, <1>2, ThreadType, TypeParts DEF Uploading
  <1>4. TInv'
    BY <1>2, TInvUpload DEF Upload
  <1>5. OneHolder'
    BY <1>1, <1>2, HolderKeeps DEF Critical, Posting
  <1>6. \A s \in Thread : s # t => SoFar(s)'
    BY <1>1, <1>2, <1>3, OthersKeep
  <1>7. SoFar(t)'
    <2>1. SoFar(t)
      BY DEF IInv
    <2>2. UploadSoFar(t)'
      BY <2>1, <1>1, <1>3 DEF SoFar, UploadSoFar, Keyed
    <2> QED BY <2>1, <2>2, <1>1, <1>3 DEF SoFar, GetSoFar, Answering, Posting
  <1>8. StoreInv'
    BY <1>1, <1>2, StoreKeeps
  <1> QED BY <1>4, <1>5, <1>6, <1>7, <1>8 DEF IInv

LEMMA IInvListEntry ==
  ASSUME IInv, NEW t \in Thread, NEW opk \in todo[t], ListEntry(t, opk)
  PROVE  IInv'
  <1> DEFINE b == Uploading(t)
             u == b.user_id
             record == [users[u] EXCEPT !.listed = users[u].listed \cup {opk},
                                        !.used = users[u].used \ {opk}]
  <1>1. Go(t, "entries", "owner") /\ UNCHANGED <<opk_to_user, lock, request, reply>>
    BY DEF ListEntry
  <1>2. TInv /\ TypeOK /\ Kinds /\ "owner" \in Statements
    BY DEF IInv, TInv, Statements
  <1>3. pc[t] = "entries" /\ pc'[t] = "owner"
    BY <1>1, <1>2, ThreadType
  <1>4. /\ request[t].kind = "POST" /\ b \in Bundles /\ u \in User
        /\ users[u] \in UserPrekeyRecord /\ opk \in OneTime
    BY <1>2, <1>3, UploadingType, TypeOf DEF Kinds, KindsOf, Posting
  <1>5. /\ users' = [users EXCEPT ![u] = record]
        /\ todo' = [todo EXCEPT ![t] = todo[t] \ {opk}]
        /\ entry' = [entry EXCEPT ![t] = opk]
    BY <1>2, <1>4, TypeOf DEF ListEntry, UserPrekeyRecord
  <1>6. /\ record.registered = users[u].registered
        /\ record.identity_key = users[u].identity_key
        /\ record.signed_prekey = users[u].signed_prekey
        /\ record.listed = users[u].listed \cup {opk}
        /\ record.used = users[u].used \ {opk}
    BY <1>4 DEF UserPrekeyRecord
  <1>7. b' = b
    BY <1>1 DEF Uploading
  <1> HIDE DEF record
  <1>8. /\ users'[u] = record /\ todo'[t] = todo[t] \ {opk} /\ entry'[t] = opk
        /\ \A s \in Thread : s # t => todo'[s] = todo[s] /\ entry'[s] = entry[s]
    BY <1>5, <1>2, <1>4, TypeOf
  <1>9. /\ Keyed(b) /\ users[u].signed_prekey = b.signed_prekey
        /\ b.is_list /\ todo[t] \subseteq b.one_time_prekeys
        /\ \A o \in b.one_time_prekeys \ todo[t] : Entered(b, o)
    BY <1>3 DEF IInv, SoFar, UploadSoFar
  <1>10. TInv'
    BY <1>2, TInvUpload DEF Upload
  <1>11. OneHolder'
    BY <1>1, <1>2, HolderKeeps DEF Critical, Posting
  <1>12. \A s \in Thread : s # t => SoFar(s)'
    BY <1>1, <1>2, <1>8, OthersKeep DEF Critical, Posting
  <1>13. SoFar(t)'
    <2>1. reply[t] = NoReply
      BY <1>3 DEF IInv, SoFar, Answering, Posting
    <2>2. Keyed(b)' /\ users'[u].signed_prekey = b.signed_prekey
      BY <1>6, <1>7, <1>8, <1>9 DEF Keyed
    <2>3. ASSUME NEW o \in b.one_time_prekeys \ todo'[t], o # opk PROVE Entered(b, o)'
      BY <2>3, <1>1, <1>6, <1>7, <1>8, <1>9 DEF Entered
    <2>4. opk \in b.one_time_prekeys /\ opk \in users'[u].listed \ users'[u].used
      BY <1>6, <1>8, <1>9
    <2>5. UploadSoFar(t)'
      BY <2>2, <2>3, <2>4, <1>3, <1>7, <1>8, <1>9 DEF UploadSoFar
    <2> QED BY <2>1, <2>5, <1>1, <1>3 DEF SoFar, GetSoFar, Answering, Posting
  <1>14. StoreInv'
    <2>1. WholeFor(u, record.identity_key, record.signed_prekey) /\ record.registered
      BY <1>4, <1>6, <1>9 DEF WholeFor, Keyed
    <2>2. /\ users[u].listed \subseteq record.listed
          /\ record.listed \subseteq users[u].listed \cup {entry'[t]}
      BY <1>6, <1>8
    <2>3. /\ opk_to_user' = opk_to_user /\ request' = request
          /\ \A s \in Thread : s # t => entry'[s] = entry[s]
      BY <1>1, <1>8
    <2>4. /\ Go(t, "entries", "owner") /\ "owner" \in Statements /\ "entries" # "owner"
          /\ Uploading(t).user_id = u
      BY <1>1, <1>2
    <2> HIDE DEF b, u
    <2> QED BY <2>1, <2>2, <2>3, <2>4, <1>4, <1>5, StoreChanges
  <1> QED BY <1>10, <1>11, <1>12, <1>13, <1>14 DEF IInv

LEMMA IInvNoteOwner ==
  ASSUME IInv, NEW t \in Thread, NoteOwner(t)
  PROVE  IInv'
  <1> DEFINE b == Uploading(t)
             u == b.user_id
             opk == entry[t]
  <1>1. Go(t, "owner", "entries") /\ UNCHANGED <<users, lock, request, todo, reply>>
    BY DEF NoteOwner
  <1>2. TInv /\ TypeOK /\ Kinds /\ "entries" \in Statements
    BY DEF IInv, TInv, Statements
  <1>3. /\ pc[t] = "owner" /\ pc'[t] = "entries"
        /\ \A s \in Thread : s # t => pc'[s] = pc[s]
    BY <1>1, <1>2, ThreadType
  <1>4. request[t].kind = "POST" /\ b \in Bundles /\ u \in User /\ b' = b
    BY <1>1, <1>2, <1>3, UploadingType DEF Kinds, KindsOf, Posting, Uploading
  <1>5. /\ Keyed(b) /\ users[u].signed_prekey = b.signed_prekey
        /\ b.is_list /\ todo[t] \subseteq b.one_time_prekeys
        /\ \A o \in b.one_time_prekeys \ todo[t] : Entered(b, o) \/ o = opk
        /\ opk \in b.one_time_prekeys /\ opk \in users[u].listed \ users[u].used
    BY <1>3 DEF IInv, SoFar, UploadSoFar
  <1>6. opk \in OneTime
    BY <1>4, <1>5, BundleShape
  <1>7. /\ opk_to_user'[opk] = u /\ entry'[t] = None
        /\ \A o : o # opk => opk_to_user'[o] = opk_to_user[o]
        /\ \A s \in Thread : s # t => entry'[s] = entry[s]
    BY <1>2, <1>6, TypeOf DEF NoteOwner
  <1>8. TInv'
    BY <1>2, TInvUpload DEF Upload
  <1>9. OneHolder'
    BY <1>1, <1>2, HolderKeeps DEF Critical, Posting
  <1>10. \A s \in Thread : s # t => SoFar(s)'
    BY <1>1, <1>2, <1>7, OthersKeep DEF Critical, Posting
  <1>11. SoFar(t)'
    <2>1. reply[t] = NoReply
      BY <1>3 DEF IInv, SoFar, Answering, Posting
    <2>2. \A o \in b.one_time_prekeys \ todo[t] : Entered(b, o)'
      BY <1>1, <1>4, <1>5, <1>7 DEF Entered
    <2>3. Keyed(b)' /\ users'[u].signed_prekey = b.signed_prekey
      BY <1>1, <1>4, <1>5 DEF Keyed
    <2>4. UploadSoFar(t)'
      BY <2>2, <2>3, <1>1, <1>3, <1>4, <1>5 DEF UploadSoFar
    <2> QED BY <2>1, <2>4, <1>1, <1>3 DEF SoFar, GetSoFar, Answering, Posting
  <1>12. StoreInv'
    <2>1. Fresh'
      BY <1>1 DEF IInv, StoreInv, Fresh
    <2>2. WholeRecords'
      <3>1. WholeFor(u, users[u].identity_key, users[u].signed_prekey)
        BY <1>4, <1>5 DEF WholeFor, Keyed
      <3>2. \A s \in Thread : pc[s] # "signed"
        BY <1>3 DEF IInv, OneHolder, Critical, Posting
      <3> QED BY <3>1, <3>2, <1>1 DEF IInv, StoreInv, WholeRecords, WholeFor
    <2>3. OwnersList'
      BY <1>1, <1>4, <1>5, <1>7 DEF IInv, StoreInv, OwnersList
    <2>4. OwnersNoted'
      <3> SUFFICES ASSUME NEW v \in User, NEW o \in users[v].listed, opk_to_user'[o] = None
                   PROVE  \E s \in Thread : pc'[s] = "owner" /\ entry'[s] = o
        BY <1>1 DEF OwnersNoted
      <3>1. o # opk
        BY <1>4, <1>7, NamesAssumption
      <3>2. PICK s \in Thread : pc[s] = "owner" /\ entry[s] = o
        BY <3>1, <1>7 DEF IInv, StoreInv, OwnersNoted
      <3> QED BY <3>1, <3>2, <1>3, <1>7
    <2> QED BY <2>1, <2>2, <2>3, <2>4 DEF StoreInv
  <1> QED BY <1>8, <1>9, <1>10, <1>11, <1>12 DEF IInv

LEMMA IInvUnknownUser ==
  ASSUME IInv, NEW t \in Thread, UnknownUser(t)
  PROVE  IInv'
  <1> DEFINE u == request[t].user_id
  <1>1. Go(t, "select", "release") /\ UNCHANGED <<users, opk_to_user, lock, request, todo, entry>>
    BY DEF UnknownUser
  <1>2. TInv /\ TypeOK /\ Kinds /\ "release" \in Statements
    BY DEF IInv, TInv, Statements
  <1>3. pc[t] = "select" /\ pc'[t] = "release"
    BY <1>1, <1>2, ThreadType
  <1>4. request[t].kind = "GET" /\ u \in User /\ reply[t] \in Replies
    BY <1>2, <1>3, TypeParts, RequestShape DEF Kinds, KindsOf, Getting
  <1>5. /\ reply'[t] = Reply(404, NoPrekeys)
        /\ \A s \in Thread : s # t => reply'[s] = reply[s]
    BY <1>2, TypeParts DEF UnknownUser, Answer
  <1>6. TInv'
    BY <1>2, TInvGet DEF Get
  <1>7. OneHolder'
    BY <1>1, <1>2, HolderKeeps DEF Critical, Getting
  <1>8. \A s \in Thread : s # t => SoFar(s)'
    BY <1>1, <1>2, <1>5, OthersKeep
  <1>9. SoFar(t)'
    BY <1>1, <1>3, <1>4, <1>5
    DEF SoFar, UploadSoFar, GetSoFar, Answering, Reply, Posting
  <1>10. StoreInv'
    BY <1>1, <1>2, StoreKeeps
  <1> QED BY <1>6, <1>7, <1>8, <1>9, <1>10 DEF IInv

LEMMA IInvSelectOpk ==
  ASSUME IInv, NEW t \in Thread, SelectOpk(t)
  PROVE  IInv'
  <1> DEFINE u == request[t].user_id
  <1>1. Go(t, "select", "identity") /\ UNCHANGED <<users, opk_to_user, lock, request, todo, entry>>
    BY DEF SelectOpk
  <1>2. TInv /\ TypeOK /\ Kinds /\ "identity" \in Statements
    BY DEF IInv, TInv, Statements
  <1>3. pc[t] = "select" /\ pc'[t] = "identity"
    BY <1>1, <1>2, ThreadType
  <1>4. request[t].kind = "GET" /\ u \in User /\ reply[t] \in Replies
    BY <1>2, <1>3, TypeParts, RequestShape DEF Kinds, KindsOf, Getting
  <1>5. /\ users[u].registered
        /\ \E opk \in Offered(users[u]) :
             reply'[t] = Reply(200, [NoPrekeys EXCEPT !.one_time_prekey = opk])
        /\ \A s \in Thread : s # t => reply'[s] = reply[s]
    BY <1>2, TypeParts DEF SelectOpk, Answer
  <1>6. TInv'
    BY <1>2, TInvGet DEF Get
  <1>7. OneHolder'
    BY <1>1, <1>2, HolderKeeps DEF Critical, Getting
  <1>8. \A s \in Thread : s # t => SoFar(s)'
    BY <1>1, <1>2, <1>5, OthersKeep
  <1>9. SoFar(t)'
    <2>1. reply'[t].status = 200 /\ reply'[t].prekeys.one_time_prekey \in Offered(users[u])
      BY <1>5 DEF Reply, NoPrekeys
    <2> QED BY <2>1, <1>1, <1>3, <1>5
            DEF SoFar, UploadSoFar, GetSoFar, Answering, Posting
  <1>10. StoreInv'
    BY <1>1, <1>2, StoreKeeps
  <1> QED BY <1>6, <1>7, <1>8, <1>9, <1>10 DEF IInv

LEMMA IInvReadIdentityKey ==
  ASSUME IInv, NEW t \in Thread, ReadIdentityKey(t)
  PROVE  IInv'
  <1> DEFINE u == request[t].user_id
  <1>1. Go(t, "identity", "keys") /\ UNCHANGED <<users, opk_to_user, lock, request, todo, entry>>
    BY DEF ReadIdentityKey
  <1>2. TInv /\ TypeOK /\ Kinds /\ "keys" \in Statements
    BY DEF IInv, TInv, Statements
  <1>3. pc[t] = "identity" /\ pc'[t] = "keys"
    BY <1>1, <1>2, ThreadType
  <1>4. request[t].kind = "GET" /\ u \in User /\ reply[t] \in Replies
    BY <1>2, <1>3, TypeParts, RequestShape DEF Kinds, KindsOf, Getting
  <1>5. /\ reply'[t] = [reply[t] EXCEPT !.prekeys.identity_key = users[u].identity_key]
        /\ \A s \in Thread : s # t => reply'[s] = reply[s]
    BY <1>2, TypeParts DEF ReadIdentityKey
  <1>6. TInv'
    BY <1>2, TInvGet DEF Get
  <1>7. OneHolder'
    BY <1>1, <1>2, HolderKeeps DEF Critical, Getting
  <1>8. \A s \in Thread : s # t => SoFar(s)'
    BY <1>1, <1>2, <1>5, OthersKeep
  <1>9. SoFar(t)'
    <2>1. /\ users[u].registered /\ reply[t].status = 200
          /\ reply[t].prekeys.one_time_prekey \in Offered(users[u])
      BY <1>3 DEF IInv, SoFar, GetSoFar
    <2>2. /\ reply'[t].status = 200
          /\ reply'[t].prekeys.one_time_prekey = reply[t].prekeys.one_time_prekey
          /\ reply'[t].prekeys.identity_key = users[u].identity_key
      BY <2>1, <1>4, <1>5 DEF Replies, Prekeys
    <2> QED BY <2>1, <2>2, <1>1, <1>3
            DEF SoFar, UploadSoFar, GetSoFar, Answering, Posting
  <1>10. StoreInv'
    BY <1>1, <1>2, StoreKeeps
  <1> QED BY <1>6, <1>7, <1>8, <1>9, <1>10 DEF IInv

LEMMA IInvReadSignedPrekey ==
  ASSUME IInv, NEW t \in Thread, ReadSignedPrekey(t)
  PROVE  IInv'
  <1> DEFINE u == request[t].user_id
  <1>1. Go(t, "keys", "release") /\ UNCHANGED <<users, opk_to_user, lock, request, todo, entry>>
    BY DEF ReadSignedPrekey
  <1>2. TInv /\ TypeOK /\ Kinds /\ "release" \in Statements
    BY DEF IInv, TInv, Statements
  <1>3. pc[t] = "keys" /\ pc'[t] = "release"
    BY <1>1, <1>2, ThreadType
  <1>4. request[t].kind = "GET" /\ u \in User /\ reply[t] \in Replies
    BY <1>2, <1>3, TypeParts, RequestShape DEF Kinds, KindsOf, Getting
  <1>5. /\ reply'[t] = [reply[t] EXCEPT !.prekeys.signed_prekey = users[u].signed_prekey]
        /\ \A s \in Thread : s # t => reply'[s] = reply[s]
    BY <1>2, TypeParts DEF ReadSignedPrekey
  <1>6. TInv'
    BY <1>2, TInvGet DEF Get
  <1>7. OneHolder'
    BY <1>1, <1>2, HolderKeeps DEF Critical, Getting
  <1>8. \A s \in Thread : s # t => SoFar(s)'
    BY <1>1, <1>2, <1>5, OthersKeep
  <1>9. SoFar(t)'
    <2>1. /\ users[u].registered /\ reply[t].status = 200
          /\ reply[t].prekeys.identity_key = users[u].identity_key
      BY <1>3 DEF IInv, SoFar, GetSoFar
    <2>2. /\ reply'[t].status = 200
          /\ reply'[t].prekeys.identity_key = users[u].identity_key
          /\ reply'[t].prekeys.signed_prekey = users[u].signed_prekey
      BY <2>1, <1>4, <1>5 DEF Replies, Prekeys
    <2>3. \A s \in Thread : pc[s] # "signed"
      BY <1>3 DEF IInv, OneHolder, Critical, Posting, Getting
    <2>4. WholeFor(u, users[u].identity_key, users[u].signed_prekey)
      BY <2>1, <2>3, <1>4 DEF IInv, StoreInv, WholeRecords
    <2>5. Answering(t)'
      BY <2>2, <2>4, <1>1, <1>3 DEF Answering, WholeFor, Posting
    <2> QED BY <2>5, <1>1, <1>3, <1>4 DEF SoFar, UploadSoFar, GetSoFar
  <1>10. StoreInv'
    BY <1>1, <1>2, StoreKeeps
  <1> QED BY <1>6, <1>7, <1>8, <1>9, <1>10 DEF IInv

LEMMA IInvMark ==
  ASSUME IInv, NEW t \in Thread, Mark(t)
  PROVE  IInv'
  <1> DEFINE opk == request[t].opk_id
             owner == opk_to_user[opk]
  <1>1. /\ Go(t, "mark", "release") /\ users' = Marked(users, owner, opk)
        /\ Answer(t, MarkReply(users, owner, opk))
        /\ UNCHANGED <<opk_to_user, lock, request, todo, entry>>
    BY DEF Mark
  <1>2. TInv /\ TypeOK /\ Kinds /\ "release" \in Statements
    BY DEF IInv, TInv, Statements
  <1>3. /\ pc[t] = "mark" /\ pc'[t] = "release"
        /\ reply'[t] = MarkReply(users, owner, opk)
        /\ \A s \in Thread : s # t => pc'[s] = pc[s] /\ reply'[s] = reply[s]
    BY <1>1, <1>2, ThreadType, TypeParts DEF Answer
  <1>4. request[t].kind = "DELETE"
    BY <1>2, <1>3 DEF Kinds, KindsOf
  <1>5. users \in [User -> UserPrekeyRecord]
    BY <1>2, TypeOf
  <1>6. \A v \in User : /\ users'[v].registered = users[v].registered
                        /\ users'[v].identity_key = users[v].identity_key
                        /\ users'[v].signed_prekey = users[v].signed_prekey
                        /\ users'[v].listed = users[v].listed
                        /\ users'[v].used # users[v].used => opk \in users[v].listed
    BY <1>1, <1>5 DEF Marked, MarkOpkUsed, UserPrekeyRecord
  <1>7. TInv'
    BY <1>2, TInvMark
  <1>8. OneHolder'
    BY <1>1, <1>2, HolderKeeps DEF Critical
  <1>9. \A s \in Thread : s # t => SoFar(s)'
    BY <1>1, <1>2, <1>3, OthersKeep DEF Critical
  <1>10. SoFar(t)'
    <2>1. reply'[t].status # 0
      BY <1>3 DEF MarkReply, Reply
    <2> QED BY <2>1, <1>1, <1>3, <1>4
            DEF SoFar, UploadSoFar, GetSoFar, Answering, Posting
  <1>11. StoreInv'
    <2>1. Fresh' /\ OwnersList'
      BY <1>1, <1>2, <1>6, TypeOf DEF IInv, StoreInv, Fresh, OwnersList
    <2>1a. OwnersNoted'
      BY <1>1, <1>3, <1>6 DEF IInv, StoreInv, OwnersNoted
    <2>2. WholeRecords'
      <3>1. \A s \in Thread : pc[s] # "signed"
        BY <1>3 DEF IInv, OneHolder, Critical, Posting, Getting
      <3> QED BY <3>1, <1>6 DEF IInv, StoreInv, WholeRecords, WholeFor
    <2> QED BY <2>1, <2>1a, <2>2 DEF StoreInv
  <1> QED BY <1>7, <1>8, <1>9, <1>10, <1>11 DEF IInv

LEMMA IInvNext == IInv /\ [Next]_vars => IInv'
  <1> SUFFICES ASSUME IInv, [Next]_vars PROVE IInv'
    OBVIOUS
  <1>1. CASE UNCHANGED vars
    <2>1. TInv'
      BY <1>1, TInvNext DEF IInv
    <2>2. OneHolder'
      BY <1>1 DEF IInv, OneHolder, vars
    <2>3. \A t \in Thread : SoFar(t)'
      BY <1>1 DEF IInv, SoFar, UploadSoFar, GetSoFar, Answering, WholeFor, Stored, Keyed,
                  Entered, Uploading, vars
    <2>4. StoreInv'
      BY <1>1 DEF IInv, StoreInv, Fresh, WholeRecords, WholeFor, OwnersList, OwnersNoted,
                  Uploading, vars
    <2> QED BY <2>1, <2>2, <2>3, <2>4 DEF IInv
  <1>2. CASE Next
    <2>1. PICK t \in Thread : Arrive(t) \/ Acquire(t) \/ Work(t) \/ SendReply(t)
      BY <1>2 DEF Next
    <2>2. CASE Upload(t)
      BY <2>2, IInvFindRecord, IInvNewRecord, IInvReplaceIdentityKey, IInvReplaceSignedPrekey,
         IInvRefuseEntries, IInvBeginEntries, IInvListEntry, IInvNoteOwner, IInvEndEntries
      DEF Upload
    <2>3. CASE Get(t)
      BY <2>3, IInvUnknownUser, IInvSelectOpk, IInvReadIdentityKey, IInvReadSignedPrekey DEF Get
    <2> QED BY <2>1, <2>2, <2>3, IInvArrive, IInvAcquire, IInvMark, IInvRelease, IInvSendReply
            DEF Work
  <1> QED BY <1>1, <1>2

LEMMA SpecIInv == Spec => []IInv
  BY IInvInit, IInvNext, PTL DEF Spec

(* Whatever the threads do, the identity key and the signed prekey of one  *)
(* reply came in one upload.                                               *)
THEOREM BundlesWhole == Spec => []BundleWhole
  <1>1. IInv => BundleWhole
    <2> SUFFICES ASSUME IInv, NEW t \in Thread, pc[t] = "reply", request[t].kind = "GET",
                        reply[t].status = 200
                 PROVE  WholeFor(request[t].user_id, reply[t].prekeys.identity_key,
                                 reply[t].prekeys.signed_prekey)
      BY DEF BundleWhole, WholeFor
    <2> QED BY DEF IInv, SoFar, Answering
  <1> QED BY <1>1, SpecIInv, PTL

Known(opk) == opk_to_user[opk] # None /\ opk \in users[opk_to_user[opk]].listed

(* A key's owner stays known: no request takes a key off the store.        *)
LEMMA KnownKept ==
  ASSUME IInv, NEW t \in Thread, Arrive(t) \/ Acquire(t) \/ Work(t) \/ SendReply(t),
         NEW opk \in OneTime, Known(opk)
  PROVE  Known(opk)'
  <1>1. TInv /\ TypeOK /\ users \in [User -> UserPrekeyRecord]
        /\ opk_to_user \in [OneTime -> User \cup {None}]
        /\ opk_to_user[opk] \in User
    BY TypeOf DEF IInv, TInv, Known
  <1>2. CASE UNCHANGED <<users, opk_to_user>>
    BY <1>2 DEF Known
  <1>3. CASE NewRecord(t)
    <2> DEFINE u == Uploading(t).user_id
    <2>1. /\ UNCHANGED opk_to_user
          /\ users' = [users EXCEPT ![u] =
                         [NoRecord EXCEPT !.registered = TRUE,
                                          !.identity_key = Uploading(t).identity_key,
                                          !.signed_prekey = Uploading(t).signed_prekey]]
      BY <1>3 DEF NewRecord
    <2>2. ~users[u].registered /\ u \in User
      <3>1. pc[t] = "create" /\ request[t].kind = "POST"
        BY <1>1, <1>3 DEF NewRecord, Go, TInv, Kinds, KindsOf, Posting
      <3> QED BY <3>1, <1>1, UploadingType DEF IInv, SoFar, UploadSoFar
    <2>3. opk_to_user[opk] # u
      BY <2>2, <1>1 DEF IInv, StoreInv, Fresh, Known
    <2> HIDE DEF u
    <2> QED BY <2>1, <2>3, <1>1 DEF Known
  <1>4. CASE ReplaceIdentityKey(t)
    BY <1>4, <1>1 DEF ReplaceIdentityKey, Known, UserPrekeyRecord
  <1>5. CASE ReplaceSignedPrekey(t)
    BY <1>5, <1>1 DEF ReplaceSignedPrekey, Known, UserPrekeyRecord
  <1>6. CASE \E o \in todo[t] : ListEntry(t, o)
    <2>1. PICK o \in todo[t] : ListEntry(t, o)
      BY <1>6
    <2> DEFINE u == Uploading(t).user_id
    <2>2. UNCHANGED opk_to_user /\ \A v \in User : users[v].listed \subseteq users'[v].listed
      BY <2>1, <1>1 DEF ListEntry, UserPrekeyRecord
    <2> QED BY <2>2, <1>1 DEF Known
  <1>7. CASE NoteOwner(t)
    <2> DEFINE u == Uploading(t).user_id
    <2>1. /\ pc[t] = "owner" /\ UNCHANGED users
          /\ opk_to_user' = [opk_to_user EXCEPT ![entry[t]] = u]
      BY <1>7 DEF NoteOwner, Go
    <2>2. u \in User /\ entry[t] \in users[u].listed
      <3>1. request[t].kind = "POST"
        BY <2>1, <1>1 DEF TInv, Kinds, KindsOf, Posting
      <3> QED BY <3>1, <2>1, <1>1, UploadingType DEF IInv, SoFar, UploadSoFar
    <2> HIDE DEF u
    <2> QED BY <2>1, <2>2, <1>1, NamesAssumption DEF Known
  <1>8. CASE Mark(t)
    <2>1. /\ UNCHANGED opk_to_user
          /\ users' = Marked(users, opk_to_user[request[t].opk_id], request[t].opk_id)
      BY <1>8 DEF Mark
    <2> QED BY <2>1, <1>1, MarkedType DEF Known
  <1> QED BY <1>2, <1>3, <1>4, <1>5, <1>6, <1>7, <1>8
          DEF Arrive, Acquire, Release, SendReply, Work, Upload, Get, FindRecord, RefuseEntries,
              BeginEntries, EndEntries, UnknownUser, SelectOpk, ReadIdentityKey,
              ReadSignedPrekey

(* A reply's one-time prekey was there before, or is one the store lists,  *)
(* and no upload is half way through listing it.                           *)
LEMMA OfferFrom ==
  ASSUME IInv, NEW t \in Thread, Arrive(t) \/ Acquire(t) \/ Work(t) \/ SendReply(t),
         NEW s \in Thread
  PROVE  \/ reply'[s].prekeys.one_time_prekey \in {None, reply[s].prekeys.one_time_prekey}
         \/ /\ \E u \in User : reply'[s].prekeys.one_time_prekey \in users[u].listed
            /\ \A holder \in Thread : pc[holder] # "owner"
  <1>1. TInv /\ TypeOK /\ Kinds /\ reply \in [Thread -> Replies]
        /\ users \in [User -> UserPrekeyRecord]
    BY TypeOf DEF IInv, TInv
  <1>2. CASE UNCHANGED reply
    BY <1>2
  <1>3. CASE \E r : Answer(t, r) /\ r.prekeys.one_time_prekey = None
    BY <1>3, <1>1 DEF Answer
  <1>4. CASE SelectOpk(t)
    <2> DEFINE u == request[t].user_id
    <2>1. PICK opk \in Offered(users[u]) :
            Answer(t, Reply(200, [NoPrekeys EXCEPT !.one_time_prekey = opk]))
      BY <1>4 DEF SelectOpk
    <2>2. u \in User
      BY <1>4, <1>1, TypeParts, RequestShape DEF SelectOpk, Go, Kinds, KindsOf, Getting
    <2>3. opk \in users[u].listed \cup {None}
      BY <2>2, <1>1, RecordType
    <2>4. s = t => reply'[s].prekeys.one_time_prekey = opk
      BY <2>1, <1>1 DEF Answer, Reply, NoPrekeys
    <2>5. s # t => reply'[s] = reply[s]
      BY <2>1, <1>1 DEF Answer
    <2>6. \A holder \in Thread : pc[holder] # "owner"
      BY <1>4 DEF SelectOpk, Go, IInv, OneHolder, Critical, Posting, Getting
    <2> QED BY <2>2, <2>3, <2>4, <2>5, <2>6
  <1>5. CASE ReadIdentityKey(t)
    BY <1>5, <1>1 DEF ReadIdentityKey, Replies, Prekeys
  <1>6. CASE ReadSignedPrekey(t)
    BY <1>6, <1>1 DEF ReadSignedPrekey, Replies, Prekeys
  <1>7. /\ \A status : Reply(status, NoPrekeys).prekeys.one_time_prekey = None
        /\ NoReply.prekeys.one_time_prekey = None
    BY DEF Reply, NoPrekeys, NoReply
  <1>8. CASE Arrive(t)
    BY <1>8, <1>2, <1>3, <1>7 DEF Arrive
  <1>9. CASE SendReply(t)
    BY <1>9, <1>3, <1>7 DEF SendReply
  <1>10. CASE Acquire(t) \/ Release(t)
    BY <1>10, <1>2 DEF Acquire, Release
  <1>11. CASE Upload(t)
    BY <1>11, <1>2, <1>3, <1>7
    DEF Upload, FindRecord, NewRecord, ReplaceIdentityKey, ReplaceSignedPrekey, RefuseEntries,
        BeginEntries, ListEntry, NoteOwner, EndEntries
  <1>12. CASE Get(t)
    BY <1>12, <1>3, <1>4, <1>5, <1>6, <1>7 DEF Get, UnknownUser
  <1>13. CASE Mark(t)
    <2>1. PICK status : MarkReply(users, opk_to_user[request[t].opk_id], request[t].opk_id)
                          = Reply(status, NoPrekeys)
      BY DEF MarkReply
    <2> QED BY <2>1, <1>13, <1>3, <1>7 DEF Mark
  <1> QED BY <1>8, <1>9, <1>10, <1>11, <1>12, <1>13 DEF Work

(* A one-time prekey that a reply offers is one whose owner the store      *)
(* knows and lists it with, although an upload lists a key in one step and *)
(* notes its owner in the next, and users may upload each other's ids.     *)
THEOREM OffersKnown == Spec => []OfferedKnown
  <1>1. IInv => \A t \in Thread : reply[t].prekeys.one_time_prekey \in OneTime \cup {None}
    BY TypeOf DEF IInv, TInv, Replies, Prekeys
  <1>2. Init => OfferedKnown
    BY DEF Init, OfferedKnown, NoReply, Reply, NoPrekeys
  <1>3. IInv /\ OfferedKnown /\ [Next]_vars => OfferedKnown'
    <2> SUFFICES ASSUME IInv, OfferedKnown, [Next]_vars PROVE OfferedKnown'
      OBVIOUS
    <2>1. CASE UNCHANGED vars
      BY <2>1 DEF OfferedKnown, vars
    <2>2. CASE Next
      <3>1. PICK t \in Thread : Arrive(t) \/ Acquire(t) \/ Work(t) \/ SendReply(t)
        BY <2>2 DEF Next
      <3> SUFFICES ASSUME NEW s \in Thread, reply'[s].prekeys.one_time_prekey # None
                   PROVE  Known(reply[s].prekeys.one_time_prekey)'
        BY DEF OfferedKnown, Known
      <3> DEFINE opk == reply'[s].prekeys.one_time_prekey
      <3>2. Known(opk) /\ opk \in OneTime
        <4>1. CASE opk = reply[s].prekeys.one_time_prekey
          BY <4>1, <1>1 DEF OfferedKnown, Known
        <4>2. CASE /\ \E u \in User : opk \in users[u].listed
                   /\ \A holder \in Thread : pc[holder] # "owner"
          BY <4>2 DEF IInv, TInv, Listed, StoreInv, OwnersList, OwnersNoted, Known
        <4> QED BY <4>1, <4>2, <3>1, OfferFrom
      <3> QED BY <3>1, <3>2, KnownKept DEF Known
    <2> QED BY <2>1, <2>2
  <1> QED BY <1>2, <1>3, SpecIInv, PTL DEF Spec
=============================================================================
