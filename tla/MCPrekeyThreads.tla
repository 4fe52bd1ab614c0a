--------------------------- MODULE MCPrekeyThreads ---------------------------
(* PrekeyThreads with uploads that add to a record, change one, are refused *)
(* half way, and name a key another user has.                               *)
EXTENDS PrekeyThreads

CONSTANTS alice, bob

UploadOf(u, identity, signed, opks, is_list) ==
  [user_id |-> u, identity_key |-> identity, signed_prekey |-> signed,
   one_time_prekeys |-> opks, is_list |-> is_list]

Uploads ==
  {UploadOf(alice, 1, 1, {1, 2}, TRUE),
   UploadOf(alice, 2, 2, {2}, TRUE),
   UploadOf(alice, 3, 3, {}, FALSE),
   UploadOf(bob, 1, 1, {2}, TRUE)}
=============================================================================
