------------------------ MODULE DeliveryWindowProofs ------------------------
(* The window of DeliveryWindow loses nothing, for runs of any length. *)
EXTENDS DeliveryWindow, TLAPS

WindowTypeOK ==
  /\ made \in [Party -> SUBSET Position]
  /\ out \in [Party -> Position]
  /\ window \in [Party -> [chain : Nat, next : Nat, skipped : SUBSET Position]]
  /\ read \in [Party -> SUBSET Position]
  /\ spoiled \in [Party -> SUBSET Position]

WindowInv == WindowTypeOK /\ NothingLost

LEMMA PeerFacts == \A p \in Party : Peer(p) \in Party /\ Peer(Peer(p)) = p
  BY DEF Party, Peer

LEMMA WindowInit == Init => WindowInv
  BY DEF Init, WindowInv, WindowTypeOK, NothingLost, Position, Gap

(* A window that moves on to a position and gives it to what came there    *)
(* has skipped, read or given away all that is behind it.                  *)
LEMMA ReachKeeps ==
  ASSUME WindowInv, NEW p \in Party, NEW at \in Position, Reach(p, at),
         \/ read' = [read EXCEPT ![p] = @ \cup {at}] /\ spoiled' = spoiled
         \/ spoiled' = [spoiled EXCEPT ![p] = @ \cup {at}] /\ read' = read
  PROVE  WindowInv'
  <1> DEFINE w == window[p]
             first == IF at.chain = w.chain THEN w.next ELSE 0
             gap == Gap(at.chain, first, at.n - 1)
  <1>1. /\ w \in [chain : Nat, next : Nat, skipped : SUBSET Position]
        /\ w.chain \in Nat /\ w.next \in Nat /\ first \in Nat
        /\ at.chain \in Nat /\ at.n \in Nat /\ at = [chain |-> at.chain, n |-> at.n]
    BY DEF WindowInv, WindowTypeOK, Position
  <1>2. /\ window' = [window EXCEPT ![p] =
             [chain |-> at.chain, next |-> at.n + 1, skipped |-> w.skipped \cup gap]]
        /\ UNCHANGED <<made, out>>
        /\ \/ at.chain = w.chain /\ at.n >= w.next
           \/ at.chain = w.chain + 1
    BY DEF Reach
  <1>3. gap \in SUBSET Position
    BY <1>1 DEF Gap, Position
  <1>4. WindowTypeOK'
    <2>1. [chain |-> at.chain, next |-> at.n + 1, skipped |-> w.skipped \cup gap]
            \in [chain : Nat, next : Nat, skipped : SUBSET Position]
      BY <1>1, <1>3
    <2>2. window' \in [Party -> [chain : Nat, next : Nat, skipped : SUBSET Position]]
      BY <1>2, <2>1 DEF WindowInv, WindowTypeOK
    <2>3. read' \in [Party -> SUBSET Position] /\ spoiled' \in [Party -> SUBSET Position]
      BY DEF WindowInv, WindowTypeOK
    <2> QED
      BY <1>2, <2>2, <2>3 DEF WindowInv, WindowTypeOK
  <1>5. NothingLost'
    <2> SUFFICES ASSUME NEW q \in Party,
                        NEW n \in 0 .. window'[q].next - 1
                 PROVE  [chain |-> window'[q].chain, n |-> n]
                          \in window'[q].skipped \cup read'[q] \cup spoiled'[q]
      BY DEF NothingLost, Gap
    <2>1. CASE q # p
      <3>1. window'[q] = window[q] /\ read'[q] = read[q] /\ spoiled'[q] = spoiled[q]
        BY <1>2, <2>1 DEF WindowInv, WindowTypeOK
      <3> QED
        BY <3>1 DEF WindowInv, NothingLost, Gap
    <2>2. CASE q = p
      <3>1. /\ window'[q].skipped = w.skipped \cup gap
            /\ window'[q].chain = at.chain /\ window'[q].next = at.n + 1
            /\ read'[q] \cup spoiled'[q] = read[p] \cup spoiled[p] \cup {at}
        BY <1>2, <2>2 DEF WindowInv, WindowTypeOK
      <3>2. n \in Nat /\ n <= at.n
        BY <1>1, <3>1
      <3>3. CASE n = at.n
        BY <1>1, <3>1, <3>3
      <3>4. CASE n \in first .. (at.n - 1)
        BY <3>1, <3>4 DEF Gap
      <3>5. CASE n < first
        <4>1. at.chain = w.chain /\ n \in 0 .. w.next - 1
          BY <1>1, <3>2, <3>5
        <4>2. [chain |-> w.chain, n |-> n] \in w.skipped \cup read[p] \cup spoiled[p]
          BY <4>1 DEF WindowInv, NothingLost, Gap
        <4> QED
          BY <3>1, <4>1, <4>2
      <3> QED
        BY <1>1, <3>2, <3>3, <3>4, <3>5
    <2> QED
      BY <2>1, <2>2
  <1> QED
    BY <1>4, <1>5 DEF WindowInv

LEMMA WindowStep ==
  ASSUME Misread \subseteq Nat
  PROVE  WindowInv /\ [Next]_vars => WindowInv'
  <1> SUFFICES ASSUME WindowInv, [Next]_vars PROVE WindowInv'
    OBVIOUS
  <1>0. WindowTypeOK /\ NothingLost
    BY DEF WindowInv
  <1>1. ASSUME NEW p \in Party, Make(p) PROVE WindowInv'
    <2>1. PICK at \in {out[p], NextChain(out[p])} :
            /\ made' = [made EXCEPT ![p] = made[p] \cup {at}]
            /\ out' = [out EXCEPT ![p] = [at EXCEPT !.n = at.n + 1]]
            /\ UNCHANGED <<window, read, spoiled>>
      BY <1>1 DEF Make
    <2>2. at \in Position /\ [at EXCEPT !.n = at.n + 1] \in Position
      BY <1>0 DEF WindowTypeOK, Position, NextChain
    <2> QED
      BY <1>0, <2>1, <2>2 DEF WindowInv, WindowTypeOK, NothingLost
  <1>2. ASSUME NEW p \in Party, BeginChain(p) PROVE WindowInv'
    <2>1. /\ out' = [out EXCEPT ![p] = NextChain(out[p])]
          /\ UNCHANGED <<made, window, read, spoiled>>
      BY <1>2 DEF BeginChain
    <2>2. NextChain(out[p]) \in Position
      BY <1>0 DEF WindowTypeOK, Position, NextChain
    <2> QED
      BY <1>0, <2>1, <2>2 DEF WindowInv, WindowTypeOK, NothingLost
  <1>3. ASSUME NEW p \in Party, NEW at \in made[Peer(p)] PROVE at \in Position
    BY <1>0, PeerFacts DEF WindowTypeOK
  <1>4. ASSUME NEW p \in Party, NEW at \in made[Peer(p)], ReadNew(p, at) PROVE WindowInv'
    BY <1>3, <1>4, ReachKeeps DEF ReadNew
  <1>5. ASSUME NEW p \in Party, NEW at \in made[Peer(p)], NEW n \in {at.n} \cup Misread,
               SpoilNew(p, [at EXCEPT !.n = n])
        PROVE  WindowInv'
    <2>1. [at EXCEPT !.n = n] \in Position
      BY <1>3 DEF Position
    <2> QED
      BY <1>5, <2>1, ReachKeeps DEF SpoilNew
  <1>6. ASSUME NEW p \in Party, NEW at \in made[Peer(p)], ReadSkipped(p, at) PROVE WindowInv'
    <2>1. /\ at \in Position
          /\ read' = [read EXCEPT ![p] = read[p] \cup {at}]
          /\ UNCHANGED <<made, out, window, spoiled>>
      BY <1>3, <1>6 DEF ReadSkipped
    <2>2. WindowTypeOK'
      BY <1>0, <2>1 DEF WindowTypeOK
    <2>3. \A q \in Party : read[q] \subseteq read'[q]
      BY <1>0, <2>1 DEF WindowTypeOK
    <2>4. NothingLost'
      BY <1>0, <2>1, <2>3 DEF NothingLost
    <2> QED
      BY <2>2, <2>4 DEF WindowInv
  <1>7. CASE UNCHANGED vars
    BY <1>0, <1>7 DEF vars, WindowInv, WindowTypeOK, NothingLost
  <1> QED
    BY <1>1, <1>2, <1>4, <1>5, <1>6, <1>7 DEF Next

(* A message the receiver passed in the chain it follows has been read or  *)
(* can still be read, unless a spoiled one was taken for it, whatever      *)
(* order the chain's messages came in and wherever spoiled ones pointed.   *)
THEOREM WindowLosesNothing == ASSUME Misread \subseteq Nat PROVE Spec => []NothingLost
  <1>1. WindowInv => NothingLost
    BY DEF WindowInv
  <1> QED
    BY <1>1, WindowInit, WindowStep, PTL DEF Spec
=============================================================================
