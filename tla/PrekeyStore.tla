----------------------------- MODULE PrekeyStore -----------------------------
(***************************************************************************)
(* What the prekey server promises its callers, whatever its threads do:   *)
(* every request is handled at once, on the store as a whole, and answered *)
(* from it.                                                                *)
(***************************************************************************)
EXTENDS PrekeyServer

CONSTANTS
  Thread,    \* the handler threads, one for each connection that may be open
  User,
  OneTime,   \* one-time prekey ids
  Bundles    \* what clients upload

VARIABLES
  users,        \* each user's record
  opk_to_user,  \* the user who uploaded each one-time prekey
  reply         \* the reply each thread owes, if any

vars == <<users, opk_to_user, reply>>

Init ==
  /\ users = [u \in User |-> NoRecord]
  /\ opk_to_user = [opk \in OneTime |-> None]
  /\ reply = [t \in Thread |-> NoReply]

Owe(t, r) ==
  /\ reply[t] = NoReply
  /\ reply' = [reply EXCEPT ![t] = r]

Upload(t, bundle) ==
  /\ users' = Uploaded(users, bundle)
  /\ opk_to_user' = OwnersUploaded(opk_to_user, bundle)
  /\ Owe(t, UploadReply(bundle))

Get(t, u) ==
  /\ IF users[u].registered
     THEN \E prekeys \in GetPrekeys(users[u]) : Owe(t, Reply(200, prekeys))
     ELSE Owe(t, Reply(404, NoPrekeys))
  /\ UNCHANGED <<users, opk_to_user>>

Delete(t, opk) ==
  /\ users' = Marked(users, opk_to_user[opk], opk)
  /\ Owe(t, MarkReply(users, opk_to_user[opk], opk))
  /\ UNCHANGED opk_to_user

(* A request no method of the store is called for, or that it refuses      *)
(* before it takes its lock.                                               *)
Refuse(t) ==
  /\ \E status \in {400, 404} : Owe(t, Reply(status, NoPrekeys))
  /\ UNCHANGED <<users, opk_to_user>>

Send(t) ==
  /\ reply[t] # NoReply
  /\ reply' = [reply EXCEPT ![t] = NoReply]
  /\ UNCHANGED <<users, opk_to_user>>

Next ==
  \E t \in Thread :
    \/ \E bundle \in Bundles : Upload(t, bundle)
    \/ \E u \in User : Get(t, u)
    \/ \E opk \in OneTime : Delete(t, opk)
    \/ Refuse(t)
    \/ Send(t)

Spec == Init /\ [][Next]_vars
=============================================================================
