------------------------- MODULE FileTransferProofs -------------------------
(***************************************************************************)
(* Theorems about FileTransfer, for every number of pieces, blocks and     *)
(* places in the cache, every timeout and every pattern of loss.           *)
(*                                                                         *)
(* PieceSound is not inductive: it needs to know that a session starts to  *)
(* receive with an empty cache and a task that is not in its loop (Fresh), *)
(* what the place that the loop refills looks like at each of its steps    *)
(* (Refilling), and, for CompleteWhenFinished, that a loop that has met no *)
(* piece in use leaves only unused places behind it and nothing to take    *)
(* from the file (Behind).                                                 *)
(***************************************************************************)
EXTENDS FileTransfer, FiniteSetTheorems, WellFoundedInduction, TLAPS

(* Every nonempty set of naturals has a least element.                     *)
LEMMA NatMin ==
  ASSUME NEW T \in SUBSET Nat, T # {}
  PROVE  \E x \in T : \A y \in T : x <= y
<1> DEFINE R == {ss \in Nat \X Nat : ss[1] < ss[2]}
<1>1. IsWellFoundedOn(R, Nat)
  BY NatLessThanWellFounded DEF OpToRel
<1> HIDE DEF R
<1>2. PICK x \in T : \A y \in T : ~(<<y, x>> \in R)
  BY <1>1, WFMin, Zenon
<1>3. ASSUME NEW y \in T PROVE x <= y
  <2>1. <<y, x>> \in Nat \X Nat /\ <<y, x>>[1] = y /\ <<y, x>>[2] = x
    OBVIOUS
  <2>2. y < x => <<y, x>> \in R
    BY <2>1 DEF R
  <2> QED BY <2>2, <1>2
<1> QED BY <1>3

Closed(e) == ~opened[e] => state[e] = "EMPTY"

Fresh(e) ==
  ~opened[e] \/ state[e] \in {"PEER", "PREPARED", "FILE_METADATA", "FILE_REQUEST"} =>
    /\ \A i \in Slot : ~pieces[e][i].used
    /\ next[e] = 0 /\ task[e].at = "wait"

Refilling(e) ==
  /\ task[e].at = "release" => pieces[e][task[e].i].used /\ pieces[e][task[e].i].bitmap = Block
  /\ task[e].at = "allocate" => ~pieces[e][task[e].i].used
  /\ task[e].at \in {"fill", "clear"} => pieces[e][task[e].i].used
  /\ task[e].at = "clear" => pieces[e][task[e].i].id = next[e]

Behind(e) ==
  /\ task[e].at \in {"receive", "release", "allocate"} /\ task[e].used = 0 /\ task[e].i > 1
       => next[e] >= NPieces /\ \A j \in Slot : j < task[e].i => ~pieces[e][j].used
  /\ task[e].at = "receive_end" /\ task[e].used = 0
       => next[e] >= NPieces /\ \A j \in Slot : ~pieces[e][j].used

Loop(e) ==
  state[e] = "RECEIVING" =>
    /\ sized[e]
    /\ CacheSound(e)
    /\ task[e].at \in {"wait", "receive", "release", "allocate", "fill", "clear", "receive_end"}
    /\ Refilling(e) /\ Behind(e)

EndInv(e) == hand[e] = NoHand /\ Closed(e) /\ Fresh(e) /\ Loop(e)

Inv == preempted = 0 => \A e \in End : EndInv(e)

(* What a step of one end leaves alone at the other.                       *)
Same(e) ==
  /\ state'[e] = state[e] /\ sized'[e] = sized[e] /\ pieces'[e] = pieces[e]
  /\ next'[e] = next[e] /\ task'[e] = task[e] /\ hand'[e] = hand[e]
  /\ opened'[e] = opened[e] /\ got'[e] = got[e]

LEMMA Frame == ASSUME NEW e \in End, EndInv(e), Same(e) PROVE EndInv(e)'
  BY DEF EndInv, Same, Closed, Fresh, Loop, CacheSound, Held, Filling, BlocksOf, Refilling, Behind

(* find_piece returns 0 or a piece of the cache in use for this id.        *)
LEMMA FindPiece ==
  ASSUME NEW e, NEW id
  PROVE  /\ find_piece(e, id) \in Slot \cup {0}
         /\ find_piece(e, id) # 0 =>
              pieces[e][find_piece(e, id)].used /\ pieces[e][find_piece(e, id)].id = id
<1> DEFINE hits == {i \in Slot : pieces[e][i].used /\ pieces[e][i].id = id}
<1>1. hits \in SUBSET Nat
  BY DEF Slot
<1>2. CASE hits = {}
  BY <1>2 DEF find_piece
<1>3. CASE hits # {}
  <2>1. \E x \in hits : \A y \in hits : x <= y
    BY <1>1, <1>3, NatMin
  <2> DEFINE i == CHOOSE x \in hits : \A y \in hits : x <= y
  <2>2. i \in hits
    BY <2>1
  <2>3. find_piece(e, id) = i
    BY <1>3 DEF find_piece
  <2> HIDE DEF i
  <2> QED BY <2>2, <2>3
<1> QED BY <1>2, <1>3

(* free_piece returns 0 or a place of the cache.                           *)
LEMMA FreePiece ==
  ASSUME NEW e
  PROVE  free_piece(e) \in Slot \cup {0}
<1> DEFINE free == {i \in Slot : ~pieces[e][i].used}
<1>1. free \in SUBSET Nat
  BY DEF Slot
<1>2. CASE free = {}
  BY <1>2 DEF free_piece
<1>3. CASE free # {}
  <2>1. \E x \in free : \A y \in free : x <= y
    BY <1>1, <1>3, NatMin
  <2> DEFINE i == CHOOSE x \in free : \A y \in free : x <= y
  <2>2. i \in free
    BY <2>1
  <2>3. free_piece(e) = i
    BY <1>3 DEF free_piece
  <2> HIDE DEF i
  <2> QED BY <2>2, <2>3
<1> QED BY <1>2, <1>3

(* The points of the loop other than the mark.                             *)
Points == {"wait", "receive", "release", "allocate", "fill", "clear", "receive_end", "send", "send_end"}

(* A task that moves to such a point.                                      *)
LEMMA Moved ==
  ASSUME NEW t \in TaskType, NEW at \in Points, NEW block \in Nat, NEW sent \in Nat
  PROVE  /\ [t EXCEPT !.at = at] \in TaskType
         /\ [t EXCEPT !.at = at, !.block = block, !.sent = sent] \in TaskType
         /\ [t EXCEPT !.at = at].at = at
         /\ [t EXCEPT !.at = at].i = t.i /\ [t EXCEPT !.at = at].used = t.used
<1> DEFINE A == [at : Points, i : Slot, used : Nat, block : Nat, sent : Nat]
           B == [at : {"mark"}, i : Slot, used : Nat, block : Block, sent : Nat]
<1>1. TaskType = A \cup B
  BY DEF TaskType, Points
<1>2. CASE t \in A
  BY <1>1, <1>2
<1>3. CASE t \in B
  <2>1. t.block \in Nat
    BY <1>3 DEF Block
  <2>2. [t EXCEPT !.at = at] \in A /\ [t EXCEPT !.at = at, !.block = block, !.sent = sent] \in A
    BY <1>3, <2>1
  <2> QED BY <1>1, <1>3, <2>2
<1> QED BY <1>1, <1>2, <1>3

(* Sending adds messages to the network or loses them.                     *)
LEMMA SendType ==
  ASSUME net \subseteq Message, NEW msgs \in SUBSET Message, Send(msgs)
  PROVE  net' \subseteq Message
  BY DEF Send

(* Delivering takes a message out or leaves it.                            *)
LEMMA DeliverType ==
  ASSUME net \subseteq Message, dups \in Nat, NEW m, Deliver(m)
  PROVE  net' \subseteq Message /\ dups' \in Nat
  BY DEF Deliver

(* The next place of the loop.                                             *)
LEMMA AdvanceType ==
  ASSUME task \in [End -> TaskType], NEW e \in End, NEW at \in {"receive", "send"},
         NEW used \in BOOLEAN, Advance(e, at, used)
  PROVE  /\ task' \in [End -> TaskType]
         /\ \A d \in End : d # e => task'[d] = task[d]
         /\ task'[e].at = IF task[e].i < Slots THEN at
                          ELSE IF at = "send" THEN "send_end" ELSE "receive_end"
         /\ task'[e].i = IF task[e].i < Slots THEN task[e].i + 1 ELSE Slots
         /\ task'[e].used = task[e].used + (IF used THEN 1 ELSE 0)
<1> USE FtAssumption DEF TaskType, Slot
<1> DEFINE t == [at |-> IF task[e].i < Slots THEN at
                        ELSE IF at = "send" THEN "send_end" ELSE "receive_end",
                 i |-> Min2(task[e].i + 1, Slots),
                 used |-> task[e].used + (IF used THEN 1 ELSE 0),
                 block |-> 0, sent |-> task[e].sent]
<1>1. task' = [task EXCEPT ![e] = t]
  BY DEF Advance
<1>2. Min2(task[e].i + 1, Slots) = IF task[e].i < Slots THEN task[e].i + 1 ELSE Slots
  BY DEF Min2
<1>3. t \in TaskType
  BY <1>2
<1>4. task'[e] = t
  BY <1>1
<1> HIDE DEF t
<1>5. task' \in [End -> TaskType] /\ \A d \in End : d # e => task'[d] = task[d]
  BY <1>1, <1>3
<1> QED BY <1>2, <1>4, <1>5 DEF t

LEMMA UnusedType == Unused \in PieceType /\ Waiting \in TaskType
  BY FtAssumption DEF Unused, Waiting, PieceType, TaskType, Slot

LEMMA TypeInit == Init => TypeOK
<1> SUFFICES ASSUME Init PROVE TypeOK
  OBVIOUS
<1>1. pieces \in [End -> [Slot -> PieceType]] /\ task \in [End -> TaskType]
  BY UnusedType DEF Init
<1>2. hand \in [End -> HandType]
  BY DEF Init, NoHand, HandType
<1>3. state \in [End -> State]
  BY DEF Init, State
<1> QED BY <1>1, <1>2, <1>3 DEF Init, TypeOK

(* Calls of the application.                                               *)
LEMMA CallType ==
  ASSUME TypeOK, NEW e \in End,
         \/ e = "initiator" /\ file_transfer_init_session
         \/ e = "peer" /\ file_transfer_init_peer_session
         \/ file_transfer_send_file(e) \/ file_transfer_receive_file(e)
         \/ file_transfer_stop(e) \/ file_transfer_free_session(e)
  PROVE  TypeOK' /\ \A d \in End : d # e => Same(d)
<1> USE DEF TypeOK, State, SetState, Same
<1>1. CASE e = "initiator" /\ file_transfer_init_session
  BY <1>1 DEF file_transfer_init_session
<1>2. CASE e = "peer" /\ file_transfer_init_peer_session
  BY <1>2 DEF file_transfer_init_peer_session
<1>3. CASE file_transfer_send_file(e)
  BY <1>3 DEF file_transfer_send_file
<1>4. CASE file_transfer_receive_file(e)
  BY <1>4 DEF file_transfer_receive_file
<1>5. CASE file_transfer_stop(e)
  BY <1>5 DEF file_transfer_stop
<1>6. CASE file_transfer_free_session(e)
  <2>1. [i \in Slot |-> Unused] \in [Slot -> PieceType]
    BY UnusedType
  <2>2. pieces' \in [End -> [Slot -> PieceType]] /\ \A d \in End : d # e => pieces'[d] = pieces[d]
    BY <1>6, <2>1 DEF file_transfer_free_session
  <2> QED BY <1>6, <2>2 DEF file_transfer_free_session
<1> QED BY <1>1, <1>2, <1>3, <1>4, <1>5, <1>6

(* The beginning of a step of the session.                                 *)
LEMMA SessionStepType ==
  ASSUME TypeOK, NEW e \in End, session_step(e)
  PROVE  /\ TypeOK' /\ \A d \in End : d # e => Same(d)
<1> USE DEF TypeOK, Same
<1>1. PICK it \in Nat, mt \in Nat : it = Idle(e) /\ mt = MsgTime(e)
  BY FtAssumption DEF Idle, MsgTime, Min2
<1>0. idle \in [End -> Nat] /\ msgTime \in [End -> Nat]
  OBVIOUS
<1>2. Other(e) \in End
  BY DEF Other, End
<1>3. ASSUME NEW s \in {"FILE_METADATA", "FILE_REQUEST"}, NEW type \in {"file_metadata", "file_request"},
             step_opening(e, s, type)
      PROVE  /\ state' \in [End -> State] /\ idle' \in [End -> Nat] /\ msgTime' \in [End -> Nat]
             /\ net' \subseteq Message /\ task' = task
             /\ \A d \in End : d # e => state'[d] = state[d]
  <2>1. {[type |-> type, to |-> Other(e)]} \in SUBSET Message
    BY <1>2 DEF Message
  <2>2. net' \subseteq Message
    BY <1>3, <2>1, SendType DEF step_opening
  <2>3. \/ state' = [state EXCEPT ![e] = "FAILED"] /\ idle' = [idle EXCEPT ![e] = 0]
        \/ state' = state /\ idle' = [idle EXCEPT ![e] = it]
    BY <1>1, <1>3 DEF step_opening, SetState
  <2>4. \/ msgTime' = msgTime
        \/ msgTime' = [msgTime EXCEPT ![e] = 0]
        \/ msgTime' = [msgTime EXCEPT ![e] = mt]
    BY <1>1, <1>3 DEF step_opening
  <2>5. state' \in [End -> State] /\ idle' \in [End -> Nat] /\ \A d \in End : d # e => state'[d] = state[d]
    <3>1. idle' \in [End -> Nat]
      <4> HIDE DEF TypeOK
      <4> QED BY <1>0, <2>3
    <3>2. "FAILED" \in State
      BY DEF State
    <3> QED BY <2>3, <3>1, <3>2
  <2>6. msgTime' \in [End -> Nat]
    <3> HIDE DEF TypeOK
    <3> QED BY <1>0, <2>4
  <2> QED BY <1>3, <2>2, <2>5, <2>6 DEF step_opening
<1>4. ASSUME NEW s \in {"RECEIVING", "SENDING"}, NEW at \in {"receive", "send"}, step_running(e, s, at)
      PROVE  /\ state' \in [End -> State] /\ idle' \in [End -> Nat] /\ msgTime' = msgTime
             /\ net' = net /\ task' \in [End -> TaskType]
             /\ \A d \in End : d # e => state'[d] = state[d] /\ task'[d] = task[d]
  <2>1. [Waiting EXCEPT !.at = at] \in TaskType
    BY UnusedType, Moved DEF Points
  <2>2. task' \in [End -> TaskType] /\ \A d \in End : d # e => task'[d] = task[d]
    <3> DEFINE w == [Waiting EXCEPT !.at = at]
    <3>1. task' = task \/ task' = [task EXCEPT ![e] = w]
      BY <1>4 DEF step_running
    <3>2. w \in TaskType /\ task \in [End -> TaskType]
      BY <2>1
    <3> HIDE DEF w, TypeOK
    <3> QED BY <3>1, <3>2
  <2>3. \/ state' = [state EXCEPT ![e] = "FAILED"] /\ idle' = [idle EXCEPT ![e] = 0]
        \/ state' = state /\ idle' = [idle EXCEPT ![e] = it]
    BY <1>1, <1>4 DEF step_running, SetState
  <2>4. state' \in [End -> State] /\ idle' \in [End -> Nat] /\ \A d \in End : d # e => state'[d] = state[d]
    <3>1. idle' \in [End -> Nat]
      <4> HIDE DEF TypeOK
      <4> QED BY <1>0, <2>3
    <3>2. "FAILED" \in State
      BY DEF State
    <3> QED BY <2>3, <3>1, <3>2
  <2> QED BY <1>4, <2>2, <2>4 DEF step_running
<1>5. ASSUME step_timers(e)
      PROVE  msgTime' \in [End -> Nat] /\ UNCHANGED <<state, idle, task, net>>
  BY <1>5, <1>1 DEF step_timers
<1>6. UNCHANGED <<sized, pieces, next, transferred, hand, dups, preempted, opened, got>>
  BY DEF session_step
<1>7. CASE step_opening(e, "FILE_METADATA", "file_metadata")
  BY <1>3, <1>6, <1>7
<1>8. CASE step_opening(e, "FILE_REQUEST", "file_request")
  BY <1>3, <1>6, <1>8
<1>9. CASE step_running(e, "RECEIVING", "receive")
  BY <1>4, <1>6, <1>9
<1>10. CASE step_running(e, "SENDING", "send")
  BY <1>4, <1>6, <1>10
<1>11. CASE step_timers(e)
  BY <1>5, <1>6, <1>11
<1> QED BY <1>7, <1>8, <1>9, <1>10, <1>11 DEF session_step

(* One piece of the cache gets a new value.                                *)
LEMMA OnePiece ==
  ASSUME TypeOK, NEW e \in End, NEW i \in Slot, NEW q \in PieceType,
         pieces' = [pieces EXCEPT ![e][i] = q]
  PROVE  /\ pieces' \in [End -> [Slot -> PieceType]]
         /\ pieces'[e] = [pieces[e] EXCEPT ![i] = q]
         /\ \A d \in End : d # e => pieces'[d] = pieces[d]
  BY DEF TypeOK

(* The task of one end goes to another point of the loop.                  *)
LEMMA OneTask ==
  ASSUME TypeOK, NEW e \in End, NEW t \in TaskType, task' = [task EXCEPT ![e] = t]
  PROVE  /\ task' \in [End -> TaskType] /\ task'[e] = t
         /\ \A d \in End : d # e => task'[d] = task[d]
  BY DEF TypeOK

(* A move within the handling of one piece.                                *)
LEMMA GoTo ==
  ASSUME TypeOK, NEW e \in End, NEW at \in {"release", "allocate", "fill", "clear"},
         task' = [task EXCEPT ![e].at = at]
  PROVE  /\ task' \in [End -> TaskType] /\ \A d \in End : d # e => task'[d] = task[d]
         /\ task'[e].at = at /\ task'[e].i = task[e].i /\ task'[e].used = task[e].used
<1> DEFINE t == [task[e] EXCEPT !.at = at]
<1>1. task[e] \in TaskType
  BY DEF TypeOK
<1>4. at \in Points
  BY DEF Points
<1>2. t \in TaskType /\ t.at = at /\ t.i = task[e].i /\ t.used = task[e].used
  <2>1. /\ [task[e] EXCEPT !.at = at] \in TaskType /\ [task[e] EXCEPT !.at = at].at = at
        /\ [task[e] EXCEPT !.at = at].i = task[e].i /\ [task[e] EXCEPT !.at = at].used = task[e].used
    <3> HIDE DEF t
    <3> QED BY <1>1, <1>4, Moved, Zenon
  <2> QED BY <2>1
<1>3. task' = [task EXCEPT ![e] = t]
  OBVIOUS
<1> HIDE DEF t
<1> QED BY <1>2, <1>3, OneTask

(* The parts of the receiving loop.                                        *)
LEMMA ReceiveType ==
  ASSUME TypeOK, NEW e \in End,
         \/ receive_missing(e) \/ receive_complete(e) \/ receive_release(e)
         \/ receive_allocate(e) \/ receive_fill(e) \/ receive_clear(e)
  PROVE  TypeOK' /\ \A d \in End : d # e => Same(d)
<1> USE FtAssumption DEF TypeOK, Same
<1> DEFINE i == task[e].i
           p == pieces[e][i]
<1>1. i \in Slot /\ p \in PieceType /\ Other(e) \in End
  BY DEF TaskType, Other, End
<1>2. {[type |-> "block_request", to |-> Other(e), piece |-> p.id, bitmap |-> p.bitmap]} \in SUBSET Message
  BY <1>1 DEF Message, PieceType
<1>3. send_block_request(e, p) => net' \subseteq Message
  BY <1>2, SendType DEF send_block_request
<1> HIDE DEF i
<1>4. CASE receive_missing(e)
  <2> DEFINE due == p.idle + 1 >= ReceiverIdle
             n == IF due THEN 0 ELSE p.idle + 1
             q == [p EXCEPT !.idle = n]
  <2>1. q \in PieceType
    <3>1. n \in Nat
      BY <1>1 DEF PieceType
    <3> HIDE DEF n
    <3> QED BY <1>1, <3>1 DEF PieceType
  <2>2. pieces' = [pieces EXCEPT ![e][i] = q]
    BY <1>1, <1>4 DEF receive_missing, i
  <2> HIDE DEF q
  <2>3. pieces' \in [End -> [Slot -> PieceType]] /\ \A d \in End : d # e => pieces'[d] = pieces[d]
    BY <1>1, <2>1, <2>2, OnePiece
  <2>4. task' \in [End -> TaskType] /\ \A d \in End : d # e => task'[d] = task[d]
    BY <1>4, AdvanceType DEF receive_missing
  <2>5. net' \subseteq Message
    BY <1>3, <1>4 DEF receive_missing, i
  <2> QED BY <1>4, <2>3, <2>4, <2>5 DEF receive_missing
<1>5. CASE receive_complete(e)
  <2>1. net' \subseteq Message
    BY <1>3, <1>5 DEF receive_complete, i
  <2>2. task' \in [End -> TaskType] /\ \A d \in End : d # e => task'[d] = task[d]
    BY <1>5, GoTo DEF receive_complete
  <2> QED BY <1>5, <2>1, <2>2 DEF receive_complete
<1>6. CASE receive_release(e)
  <2>1. pieces' \in [End -> [Slot -> PieceType]] /\ \A d \in End : d # e => pieces'[d] = pieces[d]
    BY <1>1, <1>6, UnusedType, OnePiece DEF receive_release, i
  <2>2. task' \in [End -> TaskType] /\ \A d \in End : d # e => task'[d] = task[d]
    BY <1>6, GoTo DEF receive_release
  <2>3. transferred' \in [End -> Nat]
    BY <1>6 DEF receive_release
  <2> QED BY <1>6, <2>1, <2>2, <2>3 DEF receive_release
<1>7. CASE receive_allocate(e)
  <2> DEFINE more == next[e] < PieceCount(e)
             q == [p EXCEPT !.used = TRUE]
  <2>1. q \in PieceType
    BY <1>1 DEF PieceType
  <2>2. \/ pieces' = [pieces EXCEPT ![e][i] = q] /\ task' = [task EXCEPT ![e].at = "fill"]
        \/ pieces' = pieces /\ Advance(e, "receive", FALSE)
    BY <1>1, <1>7 DEF receive_allocate, i
  <2> HIDE DEF q
  <2>3. pieces' \in [End -> [Slot -> PieceType]] /\ \A d \in End : d # e => pieces'[d] = pieces[d]
    BY <1>1, <2>1, <2>2, OnePiece
  <2>4. task' \in [End -> TaskType] /\ \A d \in End : d # e => task'[d] = task[d]
    BY <2>2, AdvanceType, GoTo
  <2> QED BY <1>7, <2>3, <2>4 DEF receive_allocate
<1>8. CASE receive_fill(e)
  <2> DEFINE q == [p EXCEPT !.id = next[e], !.idle = ReceiverIdle]
  <2>1. q \in PieceType
    BY <1>1 DEF PieceType
  <2>2. pieces' = [pieces EXCEPT ![e][i] = q]
    BY <1>1, <1>8 DEF receive_fill, i, PieceType
  <2> HIDE DEF q
  <2>3. pieces' \in [End -> [Slot -> PieceType]] /\ \A d \in End : d # e => pieces'[d] = pieces[d]
    BY <1>1, <2>1, <2>2, OnePiece
  <2>4. task' \in [End -> TaskType] /\ \A d \in End : d # e => task'[d] = task[d]
    BY <1>8, GoTo DEF receive_fill
  <2> QED BY <1>8, <2>3, <2>4 DEF receive_fill
<1>9. CASE receive_clear(e)
  <2> DEFINE q == [p EXCEPT !.bitmap = {}]
  <2>1. q \in PieceType
    BY <1>1 DEF PieceType
  <2>2. pieces' = [pieces EXCEPT ![e][i] = q]
    BY <1>1, <1>9 DEF receive_clear, Cleared, i
  <2> HIDE DEF q
  <2>3. pieces' \in [End -> [Slot -> PieceType]] /\ \A d \in End : d # e => pieces'[d] = pieces[d]
    BY <1>1, <2>1, <2>2, OnePiece
  <2>4. task' \in [End -> TaskType] /\ \A d \in End : d # e => task'[d] = task[d]
    <3>1. p.used \in BOOLEAN /\ Advance(e, "receive", p.used)
      BY <1>1, <1>9 DEF receive_clear, i, PieceType
    <3> QED BY <3>1, AdvanceType
  <2>5. next' \in [End -> Nat] /\ \A d \in End : d # e => next'[d] = next[d]
    BY <1>9 DEF receive_clear
  <2> QED BY <1>9, <2>3, <2>4, <2>5 DEF receive_clear
<1> QED BY <1>4, <1>5, <1>6, <1>7, <1>8, <1>9

(* The parts of the sending loop.                                          *)
LEMMA SendLoopType ==
  ASSUME TypeOK, NEW e \in End, send_block(e) \/ mark_block(e) \/ send_idle(e) \/ send_unused(e)
  PROVE  TypeOK' /\ \A d \in End : d # e => Same(d)
<1> USE FtAssumption DEF TypeOK, Same
<1> DEFINE i == task[e].i
           p == pieces[e][i]
<1>1. i \in Slot /\ p \in PieceType /\ task[e] \in TaskType /\ Other(e) \in End
  BY DEF TaskType, Other, End
<1> HIDE DEF i
<1>2. CASE send_block(e)
  <2>1. PICK b \in Block :
          /\ \/ net' = net
             \/ Send({[type |-> "block_response", to |-> Other(e), piece |-> p.id, block |-> b]})
          /\ task' = [task EXCEPT ![e].at = "mark", ![e].block = b]
    BY <1>2 DEF send_block, i
  <2>2. {[type |-> "block_response", to |-> Other(e), piece |-> p.id, block |-> b]} \in SUBSET Message
    BY <1>1 DEF Message, PieceType
  <2>3. net' \subseteq Message
    BY <2>1, <2>2, SendType
  <2> DEFINE t == [task[e] EXCEPT !.at = "mark", !.block = b]
  <2>4. t \in TaskType /\ task' = [task EXCEPT ![e] = t]
    <3>1. b \in Nat
      BY DEF Block
    <3> QED BY <1>1, <2>1, <3>1 DEF TaskType
  <2> HIDE DEF t
  <2>5. task' \in [End -> TaskType] /\ \A d \in End : d # e => task'[d] = task[d]
    BY <2>4, OneTask
  <2> QED BY <1>2, <2>3, <2>5 DEF send_block
<1>5. CASE mark_block(e)
  <2> DEFINE b == task[e].block
             q == [p EXCEPT !.bitmap = p.bitmap \cup {b}]
             t == [task[e] EXCEPT !.at = "send", !.block = b + 1, !.sent = task[e].sent + 1]
  <2>1. q \in PieceType
    <3>1. b \in Block
      BY <1>1, <1>5 DEF TaskType, mark_block
    <3>2. p.bitmap \cup {b} \in SUBSET Block
      BY <1>1, <3>1 DEF PieceType
    <3> HIDE DEF b
    <3> QED BY <1>1, <3>2 DEF PieceType
  <2>2. pieces' = [pieces EXCEPT ![e][i] = q]
    BY <1>1, <1>5 DEF mark_block, i
  <2>3. t \in TaskType /\ task' = [task EXCEPT ![e] = t]
    <3>1. b + 1 \in Nat /\ task[e].sent + 1 \in Nat
      BY <1>1 DEF Block, TaskType
    <3>4. "send" \in Points
      BY DEF Points
    <3>2. t \in TaskType
      <4>1. \A block, sent \in Nat :
              [task[e] EXCEPT !.at = "send", !.block = block, !.sent = sent] \in TaskType
        <5> HIDE DEF TypeOK, t, b
        <5> QED BY <1>1, <3>4, Moved, Zenon
      <4> HIDE DEF TypeOK
      <4> QED BY <3>1, <4>1
    <3>3. task' = [task EXCEPT ![e] = t]
      BY <1>5 DEF mark_block
    <3> QED BY <3>2, <3>3
  <2> HIDE DEF q, t
  <2>4. pieces' \in [End -> [Slot -> PieceType]] /\ \A d \in End : d # e => pieces'[d] = pieces[d]
    BY <1>1, <2>1, <2>2, OnePiece
  <2>5. task' \in [End -> TaskType] /\ \A d \in End : d # e => task'[d] = task[d]
    BY <2>3, OneTask
  <2> QED BY <1>5, <2>4, <2>5 DEF mark_block
<1>3. CASE send_idle(e)
  <2> DEFINE old == p.idle + 1 > SenderIdle
             q == IF old THEN Unused ELSE [p EXCEPT !.idle = p.idle + 1]
             u == p.used /\ ~old
  <2>1. q \in PieceType
    <3>1. p.idle + 1 \in Nat
      BY <1>1 DEF PieceType
    <3> QED BY <1>1, <3>1, UnusedType DEF PieceType
  <2>2. pieces' = [pieces EXCEPT ![e][i] = q] /\ Advance(e, "send", u)
    BY <1>3 DEF send_idle, i
  <2>3. u \in BOOLEAN
    BY <1>1 DEF PieceType
  <2> HIDE DEF q, u
  <2>4. pieces' \in [End -> [Slot -> PieceType]] /\ \A d \in End : d # e => pieces'[d] = pieces[d]
    BY <1>1, <2>1, <2>2, OnePiece
  <2>5. task' \in [End -> TaskType] /\ \A d \in End : d # e => task'[d] = task[d]
    BY <2>2, <2>3, AdvanceType
  <2> QED BY <1>3, <2>4, <2>5 DEF send_idle
<1>4. CASE send_unused(e)
  <2>1. task' \in [End -> TaskType] /\ \A d \in End : d # e => task'[d] = task[d]
    BY <1>4, AdvanceType DEF send_unused
  <2> QED BY <1>4, <2>1 DEF send_unused
<1> QED BY <1>2, <1>3, <1>4, <1>5

(* The end of the loop.                                                    *)
LEMMA StepEndType ==
  ASSUME TypeOK, NEW e \in End, step_end(e)
  PROVE  TypeOK' /\ \A d \in End : d # e => Same(d)
<1> USE DEF TypeOK, Same
<1>1. \/ state' = [state EXCEPT ![e] = "FINISHED"] /\ idle' = [idle EXCEPT ![e] = 0]
      \/ state' = state /\ idle' = idle
  BY DEF step_end, SetState
<1>2. "FINISHED" \in State
  BY DEF State
<1>3. state' \in [End -> State] /\ idle' \in [End -> Nat] /\ \A d \in End : d # e => state'[d] = state[d]
  <2>1. idle' \in [End -> Nat]
    BY <1>1
  <2> QED BY <1>1, <1>2, <2>1
<1>4. task' \in [End -> TaskType] /\ \A d \in End : d # e => task'[d] = task[d]
  <2>1. task' = [task EXCEPT ![e] = Waiting]
    BY DEF step_end
  <2>2. Waiting \in TaskType
    BY UnusedType
  <2> QED BY <2>1, <2>2
<1> QED BY <1>3, <1>4 DEF step_end

(* A block is marked in the cache.                                         *)
LEMMA MarkType ==
  ASSUME TypeOK, NEW e \in End, NEW i \in Slot, NEW id \in Nat, NEW b \in Block,
         MarkReceived(e, i, id, b)
  PROVE  /\ pieces' = [pieces EXCEPT ![e][i] =
                          [pieces[e][i] EXCEPT !.bitmap = pieces[e][i].bitmap \cup {b}]]
         /\ pieces' \in [End -> [Slot -> PieceType]]
         /\ got' = [got EXCEPT ![e] = got[e] \cup {<<id, b>>}]
         /\ got' \in [End -> SUBSET (Nat \X Block)]
         /\ state' \in [End -> State] /\ idle' \in [End -> Nat]
         /\ state'[e] = "RECEIVING"
         /\ \A d \in End : d # e =>
              pieces'[d] = pieces[d] /\ got'[d] = got[d] /\ state'[d] = state[d]
<1> USE DEF TypeOK
<1> DEFINE q == [pieces[e][i] EXCEPT !.bitmap = pieces[e][i].bitmap \cup {b}]
<1>1. q \in PieceType
  <2>1. pieces[e][i] \in PieceType
    OBVIOUS
  <2>2. pieces[e][i].bitmap \cup {b} \in SUBSET Block
    BY <2>1 DEF PieceType
  <2> QED BY <2>1, <2>2 DEF PieceType
<1>2. pieces' = [pieces EXCEPT ![e][i] = q]
  BY DEF MarkReceived
<1> HIDE DEF q
<1>3. pieces' \in [End -> [Slot -> PieceType]] /\ \A d \in End : d # e => pieces'[d] = pieces[d]
  BY <1>1, <1>2, OnePiece
<1>4. got' = [got EXCEPT ![e] = got[e] \cup {<<id, b>>}]
  BY DEF MarkReceived
<1>5. got' \in [End -> SUBSET (Nat \X Block)] /\ \A d \in End : d # e => got'[d] = got[d]
  BY <1>4
<1>6. /\ state' \in [End -> State] /\ idle' \in [End -> Nat] /\ state'[e] = "RECEIVING"
      /\ \A d \in End : d # e => state'[d] = state[d]
  BY DEF MarkReceived, SetState, State
<1> QED BY <1>2, <1>3, <1>4, <1>5, <1>6 DEF q

(* The receive handler.                                                    *)
LEMMA HandlerType ==
  ASSUME TypeOK, NEW e \in End, receive_handler(e)
  PROVE  TypeOK' /\ \A d \in End : d # e => Same(d)
<1> USE FtAssumption DEF TypeOK, Same
<1>1. PICK m \in net :
        /\ m.to = e
        /\ hand[e] = NoHand
        /\ Deliver(m)
        /\ \/ process_file_request(e, m)
           \/ process_file_metadata(e, m)
           \/ process_block_request(e, m)
           \/ process_block_response(e, m)
        /\ UNCHANGED <<msgTime, next, transferred, task, opened>>
  BY DEF receive_handler
<1>2. net' \subseteq Message /\ dups' \in Nat
  BY <1>1, DeliverType
<1>3. m \in Message
  BY <1>1
<1>4. CASE process_file_request(e, m) \/ process_file_metadata(e, m)
  <2>1. PICK s \in {"FILE_METADATA", "RECEIVING"} :
          \/ /\ state' = [state EXCEPT ![e] = s] /\ idle' = [idle EXCEPT ![e] = 0]
             /\ sized' = [sized EXCEPT ![e] = TRUE]
          \/ UNCHANGED <<state, idle, sized>>
    BY <1>4 DEF process_file_request, process_file_metadata, SetState
  <2>2. s \in State
    BY DEF State
  <2>3. idle' \in [End -> Nat]
    BY <2>1
  <2>4. /\ state' \in [End -> State] /\ sized' \in [End -> BOOLEAN]
        /\ \A d \in End : d # e => state'[d] = state[d] /\ sized'[d] = sized[d]
    BY <2>1, <2>2
  <2> QED BY <1>1, <1>2, <1>4, <2>3, <2>4 DEF process_file_request, process_file_metadata
<1>6. CASE process_block_request(e, m)
  <2> DEFINE found == find_piece(e, m.piece)
             i == IF found # 0 THEN found ELSE free_piece(e)
             p == IF found # 0 THEN pieces[e][i] ELSE [pieces[e][i] EXCEPT !.used = TRUE, !.id = m.piece]
             r == IF m.bitmap = Block THEN [p EXCEPT !.idle = SenderIdle]
                  ELSE [p EXCEPT !.idle = 0, !.bitmap = m.bitmap]
  <2>1. m.piece \in Nat /\ m.bitmap \in SUBSET Block
    BY <1>3, <1>6 DEF process_block_request, Message
  <2>2. i \in Slot \cup {0}
    BY FindPiece, FreePiece
  <2>3. /\ \/ UNCHANGED <<state, idle, pieces>>
           \/ /\ state' = [state EXCEPT ![e] = "SENDING"]
              /\ idle' = [idle EXCEPT ![e] =
                       IF state[e] = "FILE_METADATA" \/ (i # 0 /\ m.bitmap # Block) THEN 0 ELSE idle[e]]
              /\ pieces' = IF i = 0 THEN pieces ELSE [pieces EXCEPT ![e][i] = r]
        /\ UNCHANGED <<sized, got, hand, preempted>>
    BY <1>6 DEF process_block_request
  <2> HIDE DEF i, found
  <2>4. i # 0 => r \in PieceType
    <3> SUFFICES ASSUME i # 0 PROVE r \in PieceType
      OBVIOUS
    <3>1. pieces[e][i] \in PieceType
      BY <2>2
    <3>2. p \in PieceType
      BY <2>1, <3>1 DEF PieceType
    <3> HIDE DEF p
    <3> QED BY <2>1, <3>2 DEF PieceType
  <2> HIDE DEF r
  <2>5. pieces' \in [End -> [Slot -> PieceType]] /\ \A d \in End : d # e => pieces'[d] = pieces[d]
    <3>1. CASE pieces' = pieces
      BY <3>1
    <3>2. CASE i # 0 /\ pieces' = [pieces EXCEPT ![e][i] = r]
      BY <2>2, <2>4, <3>2, OnePiece
    <3> QED BY <2>3, <3>1, <3>2
  <2>6. idle' \in [End -> Nat]
    BY <2>3
  <2>7. "SENDING" \in State
    BY DEF State
  <2>8. state' \in [End -> State] /\ \A d \in End : d # e => state'[d] = state[d]
    BY <2>3, <2>7
  <2> QED BY <1>1, <1>2, <2>3, <2>5, <2>6, <2>8
<1>7. CASE process_block_response(e, m)
  <2> DEFINE i == find_piece(e, m.piece)
  <2>1. m.piece \in Nat /\ m.block \in Block
    BY <1>3, <1>7 DEF process_block_response, Message
  <2>2. i \in Slot \cup {0}
    BY FindPiece
  <2>3. /\ \/ UNCHANGED <<state, idle, pieces, got, hand, preempted>>
           \/ /\ preempted' = preempted + 1 /\ i # 0
              /\ hand' = [hand EXCEPT ![e] = [slot |-> i, piece |-> m.piece, block |-> m.block]]
              /\ UNCHANGED <<state, idle, pieces, got>>
           \/ i # 0 /\ MarkReceived(e, i, m.piece, m.block) /\ UNCHANGED <<hand, preempted>>
        /\ UNCHANGED sized
    BY <1>7 DEF process_block_response
  <2> HIDE DEF i
  <2>4. CASE UNCHANGED <<state, idle, pieces, got, hand, preempted>>
    BY <1>1, <1>2, <2>3, <2>4
  <2>5. CASE /\ preempted' = preempted + 1 /\ i # 0
             /\ hand' = [hand EXCEPT ![e] = [slot |-> i, piece |-> m.piece, block |-> m.block]]
             /\ UNCHANGED <<state, idle, pieces, got>>
    <3>1. [slot |-> i, piece |-> m.piece, block |-> m.block] \in HandType
      BY <2>1, <2>2, <2>5 DEF HandType
    <3>2. hand' \in [End -> HandType] /\ \A d \in End : d # e => hand'[d] = hand[d]
      BY <2>5, <3>1
    <3>3. preempted' \in Nat
      BY <2>5
    <3> QED BY <1>1, <1>2, <2>3, <2>5, <3>2, <3>3
  <2>6. CASE i # 0 /\ MarkReceived(e, i, m.piece, m.block) /\ UNCHANGED <<hand, preempted>>
    <3>1. i \in Slot
      BY <2>2, <2>6
    <3> QED BY <1>1, <1>2, <2>1, <2>3, <2>6, <3>1, MarkType
  <2> QED BY <2>3, <2>4, <2>5, <2>6
<1> QED BY <1>1, <1>4, <1>6, <1>7

(* The handler goes on after a preemption.                                 *)
LEMMA ResumeType ==
  ASSUME TypeOK, NEW e \in End, resume_block_response(e)
  PROVE  TypeOK' /\ \A d \in End : d # e => Same(d)
<1> USE DEF TypeOK, Same
<1>1. hand[e].slot \in Slot /\ hand[e].piece \in Nat /\ hand[e].block \in Block
  BY DEF resume_block_response, HandType
<1>2. hand' \in [End -> HandType] /\ \A d \in End : d # e => hand'[d] = hand[d]
  BY DEF resume_block_response, HandType
<1> QED BY <1>1, <1>2, MarkType DEF resume_block_response

(* The types are kept and a step belongs to one end.                       *)
LEMMA TypeNext ==
  TypeOK /\ Next => TypeOK' /\ \E e \in End : \A d \in End : d # e => Same(d)
<1> SUFFICES ASSUME TypeOK, Next
             PROVE  TypeOK' /\ \E e \in End : \A d \in End : d # e => Same(d)
  OBVIOUS
<1>1. CASE file_transfer_init_session
  <2>1. "initiator" \in End
    BY DEF End
  <2> QED BY <1>1, <2>1, CallType
<1>2. CASE file_transfer_init_peer_session
  <2>1. "peer" \in End
    BY DEF End
  <2> QED BY <1>2, <2>1, CallType
<1>3. ASSUME NEW e \in End,
             \/ file_transfer_send_file(e) \/ file_transfer_receive_file(e)
             \/ file_transfer_stop(e) \/ file_transfer_free_session(e)
             \/ Task(e)
             \/ receive_handler(e) \/ resume_block_response(e)
      PROVE  TypeOK' /\ \A d \in End : d # e => Same(d)
  BY <1>3, CallType, SessionStepType, ReceiveType, SendLoopType, StepEndType, HandlerType, ResumeType
     DEF Task
<1> QED BY <1>1, <1>2, <1>3 DEF Next

LEMMA TypeStutter == TypeOK /\ UNCHANGED vars => TypeOK'
  BY DEF TypeOK, vars

(* Types of the session, the cache, the task and the messages, for every   *)
(* value of the constants.                                                 *)
THEOREM TypeCorrect == Spec => []TypeOK
<1>1. TypeOK /\ [Next]_vars => TypeOK'
  BY TypeNext, TypeStutter
<1> QED BY <1>1, TypeInit, PTL DEF Spec

FreshStates == {"PEER", "PREPARED", "FILE_METADATA", "FILE_REQUEST"}

(* Of a session that neither starts nor receives the invariant says nothing. *)
LEMMA Ended ==
  ASSUME NEW e \in End, opened[e]', state[e]' \notin FreshStates \cup {"RECEIVING"}, hand[e]' = NoHand
  PROVE  EndInv(e)'
  BY DEF EndInv, Closed, Fresh, Loop, FreshStates

(* A starting session may go on to another of the starting states.         *)
LEMMA Starting ==
  ASSUME NEW e \in End, EndInv(e), ~opened[e] \/ state[e] \in FreshStates,
         opened[e]', state[e]' \in FreshStates, hand'[e] = hand[e],
         pieces'[e] = pieces[e], next'[e] = next[e], task'[e] = task[e]
  PROVE  EndInv(e)'
  BY DEF EndInv, Closed, Fresh, Loop, FreshStates

(* The cache is sound by which pieces are held, what their bitmaps show    *)
(* and what has arrived.                                                   *)
LEMMA CacheKept ==
  ASSUME NEW e \in End, CacheSound(e), next'[e] = next[e], got'[e] = got[e],
         \A j \in Slot : /\ Held(e, j)' <=> Held(e, j)
                         /\ Held(e, j) => /\ pieces'[e][j].id = pieces[e][j].id
                                          /\ pieces'[e][j].bitmap = pieces[e][j].bitmap
  PROVE  CacheSound(e)'
<1> USE DEF CacheSound, BlocksOf
<1>1. \A i, j \in Slot :
        Held(e, i)' /\ Held(e, j)' /\ pieces'[e][i].id = pieces'[e][j].id => i = j
  OBVIOUS
<1>2. ASSUME NEW i \in Slot, Held(e, i)'
      PROVE  /\ pieces'[e][i].id < next'[e]
             /\ pieces'[e][i].bitmap \subseteq {b \in Block : <<pieces'[e][i].id, b>> \in got'[e]}
  BY <1>2
<1>3. ASSUME NEW id \in 0 .. next'[e] - 1
      PROVE  \/ {b \in Block : <<id, b>> \in got'[e]} = Block
             \/ \E i \in Slot : Held(e, i)' /\ pieces'[e][i].id = id
  BY <1>3
<1> QED BY <1>1, <1>2, <1>3

LEMMA OwnCall ==
  ASSUME TypeOK, NEW e \in End, EndInv(e),
         \/ e = "initiator" /\ file_transfer_init_session
         \/ e = "peer" /\ file_transfer_init_peer_session
         \/ file_transfer_send_file(e) \/ file_transfer_receive_file(e)
         \/ file_transfer_stop(e) \/ file_transfer_free_session(e)
  PROVE  EndInv(e)'
<1> USE DEF TypeOK, SetState
<1>1. hand[e] = NoHand /\ (state[e] # "EMPTY" => opened[e])
  BY DEF EndInv, Closed
<1>2. CASE e = "initiator" /\ file_transfer_init_session
  <2>1. opened[e]' /\ state[e]' = "PREPARED" /\ ~opened[e]
    BY <1>2 DEF file_transfer_init_session
  <2> QED BY <1>2, <2>1, Starting DEF file_transfer_init_session, FreshStates
<1>3. CASE e = "peer" /\ file_transfer_init_peer_session
  <2>1. opened[e]' /\ state[e]' = "PEER" /\ ~opened[e]
    BY <1>3 DEF file_transfer_init_peer_session
  <2> QED BY <1>3, <2>1, Starting DEF file_transfer_init_peer_session, FreshStates
<1>4. CASE file_transfer_send_file(e)
  <2>1. state[e] = "PREPARED" /\ opened[e]' /\ state[e]' = "FILE_METADATA"
    BY <1>1, <1>4 DEF file_transfer_send_file
  <2> QED BY <1>4, <2>1, Starting DEF file_transfer_send_file, FreshStates
<1>5. CASE file_transfer_receive_file(e)
  <2>1. state[e] = "PREPARED" /\ opened[e]' /\ state[e]' = "FILE_REQUEST"
    BY <1>1, <1>5 DEF file_transfer_receive_file
  <2> QED BY <1>5, <2>1, Starting DEF file_transfer_receive_file, FreshStates
<1>6. CASE file_transfer_stop(e)
  <2>1. opened[e]' /\ state[e]' = "FINISHED" /\ hand[e]' = NoHand
    BY <1>1, <1>6 DEF file_transfer_stop
  <2> QED BY <2>1, Ended DEF FreshStates
<1>7. CASE file_transfer_free_session(e)
  <2>1. opened[e]' /\ state[e]' = "EMPTY" /\ hand[e]' = NoHand
    BY <1>1, <1>7 DEF file_transfer_free_session
  <2> QED BY <2>1, Ended DEF FreshStates
<1> QED BY <1>2, <1>3, <1>4, <1>5, <1>6, <1>7

LEMMA OwnStep ==
  ASSUME TypeOK, NEW e \in End, EndInv(e), session_step(e)
  PROVE  EndInv(e)'
<1> USE FtAssumption DEF TypeOK
<1>1. hand[e] = NoHand /\ (state[e] # "EMPTY" => opened[e])
  BY DEF EndInv, Closed
<1>2. UNCHANGED <<sized, pieces, next, hand, opened, got>> /\ task[e].at = "wait"
  BY DEF session_step
<1>3. ASSUME state[e]' = "FAILED", state[e] # "EMPTY" PROVE EndInv(e)'
  BY <1>1, <1>2, <1>3, Ended DEF FreshStates
<1>4. ASSUME NEW s \in {"FILE_METADATA", "FILE_REQUEST"}, NEW type, step_opening(e, s, type) PROVE EndInv(e)'
  <2>1. state[e] = s /\ task' = task /\ (state[e]' = "FAILED" \/ state' = state)
    BY <1>4 DEF step_opening, SetState
  <2> QED BY <1>1, <1>2, <1>3, <2>1, Starting DEF FreshStates
<1>5. CASE step_running(e, "RECEIVING", "receive")
  <2>1. CASE state[e]' = "FAILED"
    BY <1>3, <1>5, <2>1 DEF step_running
  <2>2. CASE state' = state /\ task' = [task EXCEPT ![e] = [Waiting EXCEPT !.at = "receive"]]
    <3>1. task[e]'.at = "receive" /\ task[e]'.i = 1
      BY <2>2 DEF Waiting
    <3>2. CacheSound(e)'
      BY <1>2, <1>5, <3>1, CacheKept DEF step_running, EndInv, Loop, Held, Filling
    <3>3. Refilling(e)' /\ Behind(e)'
      BY <3>1 DEF Refilling, Behind
    <3>4. state[e] = "RECEIVING"
      BY <1>5 DEF step_running
    <3> QED BY <1>1, <1>2, <2>2, <3>1, <3>2, <3>3, <3>4 DEF EndInv, Closed, Fresh, Loop
  <2> QED BY <1>5, <2>1, <2>2 DEF step_running, SetState
<1>6. CASE step_running(e, "SENDING", "send")
  <2>1. state[e] = "SENDING" /\ state[e]' \in {"SENDING", "FAILED"}
    BY <1>6 DEF step_running, SetState
  <2> QED BY <1>1, <1>2, <2>1, Ended DEF FreshStates
<1>7. CASE step_timers(e)
  <2>1. state' = state /\ task' = task /\ state[e] \in FreshStates
    BY <1>7 DEF step_timers, FreshStates
  <2> QED BY <1>1, <1>2, <2>1, Starting DEF FreshStates
<1> QED BY <1>4, <1>5, <1>6, <1>7 DEF session_step

LEMMA OwnEnd ==
  ASSUME TypeOK, NEW e \in End, EndInv(e),
         step_end(e) \/ send_block(e) \/ mark_block(e) \/ send_idle(e) \/ send_unused(e)
  PROVE  EndInv(e)'
<1> USE FtAssumption DEF TypeOK
<1>1. hand'[e] = NoHand /\ opened'[e] /\ opened[e] /\ state[e] \notin FreshStates
  BY DEF EndInv, Closed, Fresh, step_end, send_block, mark_block, send_idle, send_unused, Serving, FreshStates
<1>2. CASE state[e]' # "RECEIVING"
  <2>1. state[e]' = state[e] \/ state[e]' = "FINISHED"
    BY DEF step_end, send_block, mark_block, send_idle, send_unused, SetState
  <2> QED BY <1>1, <1>2, <2>1, Ended DEF FreshStates
<1>3. CASE state[e]' = "RECEIVING"
  <2>1. state[e] = "RECEIVING" /\ step_end(e)
    <3>1. state[e] = "RECEIVING"
      BY <1>3 DEF step_end, send_block, mark_block, send_idle, send_unused, SetState
    <3> QED BY <3>1 DEF send_block, mark_block, send_idle, send_unused, Serving, EndInv, Loop
  <2>2. UNCHANGED <<sized, pieces, next, got>> /\ task[e].at = "receive_end" /\ task[e]'.at = "wait"
    BY <2>1 DEF step_end, Waiting, EndInv, Loop
  <2>3. CacheSound(e)'
    <3>1. CacheSound(e)
      BY <2>1 DEF EndInv, Loop
    <3>2. \A j \in Slot : Held(e, j)' <=> Held(e, j)
      BY <2>2 DEF Held, Filling
    <3> QED BY <2>2, <3>1, <3>2, CacheKept
  <2> QED BY <1>1, <1>3, <2>1, <2>2, <2>3 DEF EndInv, Closed, Fresh, Loop, Refilling, Behind, FreshStates
<1> QED BY <1>2, <1>3

(* The receiving loop: asking again, and announcing a complete piece.      *)
LEMMA OwnAsk ==
  ASSUME TypeOK, NEW e \in End, EndInv(e), receive_missing(e) \/ receive_complete(e)
  PROVE  EndInv(e)'
<1> USE FtAssumption DEF TypeOK
<1>1. /\ hand'[e] = NoHand /\ opened'[e] /\ opened[e] /\ state[e] \notin FreshStates
      /\ state' = state /\ UNCHANGED <<sized, next, got>> /\ task[e].at = "receive"
  BY DEF EndInv, Closed, Fresh, receive_missing, receive_complete, FreshStates
<1>2. CASE state[e] # "RECEIVING"
  BY <1>1, <1>2, Ended DEF FreshStates
<1>3. CASE state[e] = "RECEIVING" /\ receive_missing(e)
  <2> DEFINE i == task[e].i
  <2>1. i \in Slot
    BY DEF TaskType
  <2>2. PICK n : pieces' = [pieces EXCEPT ![e][i].idle = n]
    BY <1>3 DEF receive_missing
  <2>3. \A j \in Slot : /\ pieces'[e][j].used = pieces[e][j].used
                        /\ pieces'[e][j].id = pieces[e][j].id
                        /\ pieces'[e][j].bitmap = pieces[e][j].bitmap
    BY <2>1, <2>2 DEF PieceType
  <2>4. task[e]'.at \in {"receive", "receive_end"} /\ task[e]'.used = task[e].used + 1
    BY <1>3, AdvanceType DEF receive_missing
  <2>5. CacheSound(e)'
    <3>1. CacheSound(e) /\ next'[e] = next[e] /\ got'[e] = got[e]
      BY <1>1, <1>3 DEF EndInv, Loop
    <3>2. \A j \in Slot : Held(e, j)' <=> Held(e, j)
      BY <1>1, <2>3, <2>4 DEF Held, Filling
    <3> QED BY <2>3, <3>1, <3>2, CacheKept
  <2>6. task[e]'.used # 0
    BY <2>4 DEF TaskType
  <2>7. Refilling(e)' /\ Behind(e)'
    BY <2>4, <2>6 DEF Refilling, Behind
  <2> QED BY <1>1, <1>3, <2>4, <2>5, <2>7 DEF EndInv, Closed, Fresh, Loop, FreshStates
<1>4. CASE state[e] = "RECEIVING" /\ receive_complete(e)
  <2>1. pieces' = pieces /\ task' = [task EXCEPT ![e].at = "release"]
        /\ pieces[e][task[e].i].used /\ pieces[e][task[e].i].bitmap = Block
    BY <1>4 DEF receive_complete, piece_missing_blocks
  <2>2. task[e]'.at = "release" /\ task[e]'.i = task[e].i /\ task[e]'.used = task[e].used
    BY <2>1, GoTo
  <2>3. CacheSound(e)'
    <3>1. CacheSound(e)
      BY <1>4 DEF EndInv, Loop
    <3>2. \A j \in Slot : Held(e, j)' <=> Held(e, j)
      BY <1>1, <2>1, <2>2 DEF Held, Filling
    <3> QED BY <1>1, <2>1, <3>1, <3>2, CacheKept
  <2>4. Refilling(e)' /\ Behind(e)'
    BY <1>1, <1>4, <2>1, <2>2 DEF EndInv, Loop, Refilling, Behind
  <2> QED BY <1>1, <1>4, <2>2, <2>3, <2>4 DEF EndInv, Closed, Fresh, Loop, FreshStates
<1> QED BY <1>2, <1>3, <1>4

(* The receiving loop: a complete piece leaves the cache; all its blocks   *)
(* have arrived.                                                           *)
LEMMA OwnRelease ==
  ASSUME TypeOK, NEW e \in End, EndInv(e), receive_release(e)
  PROVE  EndInv(e)'
<1> USE FtAssumption DEF TypeOK
<1>1. /\ hand'[e] = NoHand /\ opened'[e] /\ opened[e] /\ state[e] \notin FreshStates
      /\ state' = state /\ UNCHANGED <<sized, next, got>> /\ task[e].at = "release"
  BY DEF EndInv, Closed, Fresh, receive_release, FreshStates
<1>2. CASE state[e] # "RECEIVING"
  BY <1>1, <1>2, Ended DEF FreshStates
<1>3. CASE state[e] = "RECEIVING"
  <2> DEFINE i == task[e].i
             c == pieces[e]
             c2 == pieces'[e]
  <2>1. i \in Slot
    BY DEF TaskType
  <2>2. ~c2[i].used /\ \A j \in Slot : j # i => c2[j] = c[j]
    BY <2>1 DEF receive_release, Unused
  <2>3. task[e]'.at = "allocate" /\ task[e]'.i = i /\ task[e]'.used = task[e].used
    BY GoTo DEF receive_release
  <2>4. c[i].used /\ c[i].bitmap = Block /\ CacheSound(e) /\ Behind(e)
    BY <1>1, <1>3 DEF EndInv, Loop, Refilling
  <2>5. \A j \in Slot : (Held(e, j) <=> c[j].used) /\ (Held(e, j)' <=> c2[j].used)
    BY <1>1, <2>3 DEF Held, Filling
  <2>6. BlocksOf(e, c[i].id) = Block
    BY <2>1, <2>4, <2>5 DEF CacheSound, BlocksOf
  <2> HIDE DEF i
  <2>7. CacheSound(e)'
    <3>1. \A j \in Slot : Held(e, j)' => Held(e, j) /\ c2[j] = c[j]
      BY <2>2, <2>5
    <3>2. \A j, k \in Slot : Held(e, j)' /\ Held(e, k)' /\ c2[j].id = c2[k].id => j = k
      BY <2>4, <3>1 DEF CacheSound
    <3>3. \A j \in Slot : Held(e, j)' => c2[j].id < next[e] /\ c2[j].bitmap \subseteq BlocksOf(e, c2[j].id)
      BY <2>4, <3>1 DEF CacheSound
    <3>4. ASSUME NEW id \in 0 .. next[e] - 1
          PROVE  BlocksOf(e, id) = Block \/ \E j \in Slot : Held(e, j)' /\ c2[j].id = id
      <4>1. CASE id = c[i].id
        BY <2>6, <4>1
      <4>2. CASE id # c[i].id
        <5>1. BlocksOf(e, id) = Block \/ \E j \in Slot : Held(e, j) /\ c[j].id = id
          BY <2>4 DEF CacheSound
        <5>2. ASSUME NEW j \in Slot, Held(e, j), c[j].id = id PROVE Held(e, j)' /\ c2[j].id = id
          <6>1. j # i
            BY <4>2, <5>2
          <6> HIDE DEF c2
          <6> QED BY <2>2, <2>5, <5>2, <6>1
        <5> QED BY <5>1, <5>2
      <4> QED BY <4>1, <4>2
    <3> HIDE DEF c2
    <3>5. \A j \in Slot : Held(e, j)' =>
            c2[j].id < next'[e] /\ c2[j].bitmap \subseteq {b \in Block : <<c2[j].id, b>> \in got'[e]}
      BY <1>1, <3>3 DEF BlocksOf
    <3>6. \A id \in 0 .. next'[e] - 1 :
            {b \in Block : <<id, b>> \in got'[e]} = Block \/ \E j \in Slot : Held(e, j)' /\ c2[j].id = id
      BY <1>1, <3>4 DEF BlocksOf
    <3> QED BY <3>2, <3>5, <3>6 DEF CacheSound, BlocksOf, c2
  <2>8. Refilling(e)'
    BY <2>2, <2>3 DEF Refilling
  <2>9. Behind(e)'
    BY <1>1, <2>1, <2>2, <2>3, <2>4 DEF Behind, Slot, i
  <2> QED BY <1>1, <1>3, <2>3, <2>7, <2>8, <2>9 DEF EndInv, Closed, Fresh, Loop, FreshStates
<1> QED BY <1>2, <1>3

(* The receiving loop: an unused place is taken, or the loop goes on.      *)
LEMMA OwnAllocate ==
  ASSUME TypeOK, NEW e \in End, EndInv(e), receive_allocate(e)
  PROVE  EndInv(e)'
<1> USE FtAssumption DEF TypeOK
<1>1. /\ hand'[e] = NoHand /\ opened'[e] /\ opened[e] /\ state[e] \notin FreshStates
      /\ state' = state /\ UNCHANGED <<sized, next, got>> /\ task[e].at \in {"receive", "allocate"}
  BY DEF EndInv, Closed, Fresh, receive_allocate, FreshStates
<1>2. CASE state[e] # "RECEIVING"
  BY <1>1, <1>2, Ended DEF FreshStates
<1>3. CASE state[e] = "RECEIVING"
  <2> DEFINE i == task[e].i
             c == pieces[e]
             c2 == pieces'[e]
  <2>1. i \in Slot /\ c[i] \in PieceType
    BY DEF TaskType
  <2>2. PieceCount(e) = NPieces /\ CacheSound(e) /\ Behind(e) /\ ~c[i].used
    BY <1>3 DEF EndInv, Loop, PieceCount, receive_allocate
  <2>3. \A j \in Slot : Held(e, j) <=> c[j].used
    BY <1>1 DEF Held, Filling
  <2>4. CASE next[e] < NPieces
    <3>1. pieces' = [pieces EXCEPT ![e][i].used = TRUE] /\ task' = [task EXCEPT ![e].at = "fill"]
      BY <2>2, <2>4 DEF receive_allocate
    <3>2. task[e]'.at = "fill" /\ task[e]'.i = i
      BY <3>1, GoTo
    <3>3. c2[i].used /\ \A j \in Slot : j # i => c2[j] = c[j]
      BY <2>1, <3>1 DEF PieceType
    <3> HIDE DEF i
    <3>4. \A j \in Slot : Held(e, j)' <=> c2[j].used /\ j # i
      BY <3>2 DEF Held, Filling
    <3>5. CacheSound(e)'
      BY <1>1, <2>2, <2>3, <3>3, <3>4, CacheKept
    <3>6. Refilling(e)' /\ Behind(e)'
      BY <3>2, <3>3 DEF Refilling, Behind
    <3> QED BY <1>1, <1>3, <3>2, <3>5, <3>6 DEF EndInv, Closed, Fresh, Loop, FreshStates
  <2>5. CASE ~(next[e] < NPieces)
    <3>1. pieces' = pieces /\ Advance(e, "receive", FALSE)
      BY <2>2, <2>5 DEF receive_allocate
    <3>2. /\ task'[e].at = IF i < Slots THEN "receive" ELSE "receive_end"
          /\ task'[e].i = IF i < Slots THEN i + 1 ELSE Slots
          /\ task'[e].used = task[e].used + 0
      BY <3>1, AdvanceType
    <3>3. \A j \in Slot : Held(e, j)' <=> Held(e, j)
      BY <2>3, <3>1, <3>2 DEF Held, Filling
    <3>4. CacheSound(e)'
      BY <1>1, <2>2, <3>1, <3>3, CacheKept
    <3>5. Refilling(e)'
      BY <3>2 DEF Refilling
    <3>6. Behind(e)'
      <4>1. CASE task[e].used # 0
        BY <3>2, <4>1 DEF Behind, TaskType
      <4>2. CASE task[e].used = 0
        <5>1. \A j \in Slot : j <= i => ~c[j].used
          <6>1. \A j \in Slot : j < i => ~c[j].used
            <7>1. CASE i > 1
              BY <1>1, <2>2, <4>2, <7>1 DEF Behind
            <7>2. CASE ~(i > 1)
              BY <2>1, <7>2 DEF Slot
            <7> QED BY <7>1, <7>2
          <6>2. \A j \in Slot : j <= i => j < i \/ j = i
            BY <2>1 DEF Slot
          <6> HIDE DEF c, i
          <6> QED BY <2>2, <6>1, <6>2
        <5>2. next[e] >= NPieces
          BY <2>5
        <5> HIDE DEF c
        <5>3. CASE i < Slots
          BY <1>1, <2>1, <3>1, <3>2, <5>1, <5>2, <5>3 DEF Behind, Slot, c
        <5>4. CASE ~(i < Slots)
          BY <1>1, <2>1, <3>1, <3>2, <5>1, <5>2, <5>4 DEF Behind, Slot, c
        <5> QED BY <5>3, <5>4
      <4> QED BY <4>1, <4>2
    <3> QED BY <1>1, <1>3, <3>2, <3>4, <3>5, <3>6 DEF EndInv, Closed, Fresh, Loop, FreshStates
  <2> QED BY <2>4, <2>5
<1> QED BY <1>2, <1>3

(* The receiving loop: a place that is taken gets its piece and its empty  *)
(* bitmap, and is held from then on.                                       *)
LEMMA OwnFill ==
  ASSUME TypeOK, NEW e \in End, EndInv(e), receive_fill(e) \/ receive_clear(e)
  PROVE  EndInv(e)'
<1> USE FtAssumption DEF TypeOK
<1>1. /\ hand'[e] = NoHand /\ opened'[e] /\ opened[e] /\ state[e] \notin FreshStates
      /\ state' = state /\ UNCHANGED <<sized, got>> /\ task[e].at \in {"fill", "clear"}
  BY DEF EndInv, Closed, Fresh, receive_fill, receive_clear, FreshStates
<1>2. CASE state[e] # "RECEIVING"
  BY <1>1, <1>2, Ended DEF FreshStates
<1>3. CASE state[e] = "RECEIVING"
  <2> DEFINE i == task[e].i
             c == pieces[e]
             c2 == pieces'[e]
             n == next[e]
  <2>1. i \in Slot /\ c[i] \in PieceType /\ n \in Nat
    BY DEF TaskType
  <2>2. CacheSound(e) /\ c[i].used
    BY <1>1, <1>3 DEF EndInv, Loop, Refilling
  <2>3. \A j \in Slot : Held(e, j) <=> c[j].used /\ j # i
    BY <1>1 DEF Held, Filling
  <2>4. CASE receive_fill(e)
    <3>1. c2[i].used /\ c2[i].id = n /\ \A j \in Slot : j # i => c2[j] = c[j]
      BY <2>1, <2>2, <2>4 DEF receive_fill, PieceType
    <3>2. task[e]'.at = "clear" /\ task[e]'.i = i /\ next' = next
      BY <2>4, GoTo DEF receive_fill
    <3> HIDE DEF i
    <3>3. \A j \in Slot : Held(e, j)' <=> c2[j].used /\ j # i
      BY <3>2 DEF Held, Filling
    <3>4. CacheSound(e)'
      BY <1>1, <2>2, <2>3, <3>1, <3>2, <3>3, CacheKept
    <3>5. Refilling(e)' /\ Behind(e)'
      BY <3>1, <3>2 DEF Refilling, Behind
    <3> QED BY <1>1, <1>3, <3>2, <3>4, <3>5 DEF EndInv, Closed, Fresh, Loop, FreshStates
  <2>5. CASE receive_clear(e)
    <3>1. pieces' = [pieces EXCEPT ![e][i].bitmap = {}] /\ next' = [next EXCEPT ![e] = n + 1]
      BY <2>5 DEF receive_clear, Cleared
    <3>2. c[i].id = n
      BY <1>3, <2>5 DEF EndInv, Loop, Refilling, receive_clear
    <3>3. /\ c2[i].used /\ c2[i].id = n /\ c2[i].bitmap = {} /\ next'[e] = n + 1
          /\ \A j \in Slot : j # i => c2[j] = c[j]
      BY <2>1, <2>2, <3>1, <3>2 DEF PieceType
    <3>4. Advance(e, "receive", TRUE)
      BY <2>2, <2>5 DEF receive_clear
    <3>5. task[e]'.at \in {"receive", "receive_end"} /\ task[e]'.used = task[e].used + 1
      BY <3>4, AdvanceType
    <3>6. \A j \in Slot : Held(e, j)' <=> c2[j].used
      BY <3>5 DEF Held, Filling
    <3>7. \A j \in Slot : Held(e, j) => c[j].id < n /\ c[j].id \in Nat
      BY <2>2 DEF CacheSound, PieceType
    <3> HIDE DEF i
    <3>8. CacheSound(e)'
      <4>1. \A j \in Slot : j # i => (Held(e, j)' <=> Held(e, j)) /\ c2[j] = c[j]
        BY <2>3, <3>3, <3>6
      <4>2. ASSUME NEW j \in Slot, NEW k \in Slot, Held(e, j)', Held(e, k)', c2[j].id = c2[k].id PROVE j = k
        <5>1. CASE j # i /\ k # i
          BY <2>2, <4>1, <4>2, <5>1 DEF CacheSound
        <5>2. CASE j = i /\ k # i
          BY <2>1, <3>3, <3>7, <4>1, <4>2, <5>2
        <5>3. CASE j # i /\ k = i
          BY <2>1, <3>3, <3>7, <4>1, <4>2, <5>3
        <5> QED BY <5>1, <5>2, <5>3
      <4>3. ASSUME NEW j \in Slot, Held(e, j)'
            PROVE  c2[j].id < n + 1 /\ c2[j].bitmap \subseteq BlocksOf(e, c2[j].id)
        <5>1. CASE j = i
          BY <2>1, <3>3, <5>1
        <5>2. CASE j # i
          <6>1. c2[j] = c[j] /\ Held(e, j)
            BY <4>1, <4>3, <5>2
          <6>2. c[j].id < n /\ c[j].id \in Nat /\ c[j].bitmap \subseteq BlocksOf(e, c[j].id)
            BY <2>2, <3>7, <6>1 DEF CacheSound
          <6> HIDE DEF n
          <6> QED BY <2>1, <6>1, <6>2
        <5> QED BY <5>1, <5>2
      <4>4. ASSUME NEW id \in 0 .. n
            PROVE  BlocksOf(e, id) = Block \/ \E j \in Slot : Held(e, j)' /\ c2[j].id = id
        <5>1. CASE id = n
          BY <2>1, <3>3, <3>6, <5>1
        <5>2. CASE id # n
          <6>1. id \in 0 .. n - 1
            <7> HIDE DEF n
            <7> QED BY <2>1, <5>2
          <6>2. BlocksOf(e, id) = Block \/ \E j \in Slot : Held(e, j) /\ c[j].id = id
            BY <2>2, <6>1 DEF CacheSound
          <6> QED BY <2>3, <4>1, <6>2
        <5> QED BY <5>1, <5>2
      <4>5. (0 .. next'[e] - 1) = 0 .. n
        BY <2>1, <3>3
      <4> HIDE DEF n, c2
      <4>6. \A j \in Slot : Held(e, j)' =>
              c2[j].id < next'[e] /\ c2[j].bitmap \subseteq {b \in Block : <<c2[j].id, b>> \in got'[e]}
        BY <1>1, <3>3, <4>3 DEF BlocksOf
      <4>7. \A id \in 0 .. next'[e] - 1 :
              {b \in Block : <<id, b>> \in got'[e]} = Block \/ \E j \in Slot : Held(e, j)' /\ c2[j].id = id
        BY <1>1, <4>4, <4>5 DEF BlocksOf
      <4> QED BY <4>2, <4>6, <4>7 DEF CacheSound, BlocksOf, c2
    <3>9. task[e]'.used # 0
      BY <3>5 DEF TaskType
    <3>10. Refilling(e)' /\ Behind(e)'
      BY <3>5, <3>9 DEF Refilling, Behind
    <3> QED BY <1>1, <1>3, <3>5, <3>8, <3>10 DEF EndInv, Closed, Fresh, Loop, FreshStates
  <2> QED BY <2>4, <2>5
<1> QED BY <1>2, <1>3

(* A block arrives for a piece of the cache.                               *)
LEMMA OwnMark ==
  ASSUME TypeOK, NEW e \in End, EndInv(e), state[e] = "RECEIVING",
         NEW i \in Slot, NEW id \in Nat, NEW b \in Block,
         pieces[e][i].used, pieces[e][i].id = id, MarkReceived(e, i, id, b),
         UNCHANGED <<sized, next, task, hand, opened>>
  PROVE  EndInv(e)'
<1> USE DEF TypeOK
<1> DEFINE c == pieces[e]
           c2 == pieces'[e]
<1>1. /\ c2[i] = [c[i] EXCEPT !.bitmap = c[i].bitmap \cup {b}]
      /\ \A j \in Slot : j # i => c2[j] = c[j]
      /\ got'[e] = got[e] \cup {<<id, b>>} /\ state'[e] = "RECEIVING"
  <2> DEFINE q == [pieces[e][i] EXCEPT !.bitmap = pieces[e][i].bitmap \cup {b}]
  <2>1. /\ pieces' = [pieces EXCEPT ![e][i] = q] /\ got' = [got EXCEPT ![e] = got[e] \cup {<<id, b>>}]
        /\ state'[e] = "RECEIVING"
    BY MarkType
  <2>2. got'[e] = got[e] \cup {<<id, b>>}
    BY <2>1
  <2>3. pieces'[e] = [pieces[e] EXCEPT ![i] = q]
    <3> HIDE DEF q
    <3> QED BY <2>1
  <2>4. c2[i] = q /\ \A j \in Slot : j # i => c2[j] = c[j]
    <3> HIDE DEF q
    <3> QED BY <2>3
  <2> QED BY <2>1, <2>2, <2>4
<1>2. c[i] \in PieceType
  OBVIOUS
<1>3. /\ \A j \in Slot : c2[j].used = c[j].used /\ c2[j].id = c[j].id
      /\ c2[i].bitmap = c[i].bitmap \cup {b}
  BY <1>1, <1>2 DEF PieceType
<1>4. \A j \in Slot : j # i => c2[j].bitmap = c[j].bitmap
  BY <1>1
<1>5. CacheSound(e) /\ Refilling(e) /\ Behind(e) /\ sized[e]
      /\ task[e].at \in {"wait", "receive", "release", "allocate", "fill", "clear", "receive_end"}
  BY DEF EndInv, Loop
<1>9. \A j \in Slot : (Held(e, j)' <=> Held(e, j)) /\ (Held(e, j) => c[j].used)
  BY <1>3 DEF Held, Filling
<1> HIDE DEF c, c2
<1>6. CacheSound(e)'
  <2> DEFINE B(x) == {y \in Block : <<x, y>> \in got[e]}
             B2(x) == {y \in Block : <<x, y>> \in got'[e]}
  <2>1. (\A x : B(x) \subseteq B2(x) /\ B2(x) \subseteq Block) /\ b \in B2(id)
    BY <1>1
  <2>2. /\ \A j, k \in Slot : Held(e, j) /\ Held(e, k) /\ c[j].id = c[k].id => j = k
        /\ \A j \in Slot : Held(e, j) => c[j].id < next[e] /\ c[j].bitmap \subseteq B(c[j].id)
        /\ \A x \in 0 .. next[e] - 1 : B(x) = Block \/ \E j \in Slot : Held(e, j) /\ c[j].id = x
    BY <1>5 DEF CacheSound, BlocksOf, c
  <2> HIDE DEF B, B2
  <2>3. \A j, k \in Slot : Held(e, j)' /\ Held(e, k)' /\ c2[j].id = c2[k].id => j = k
    BY <1>3, <1>9, <2>2
  <2>4. ASSUME NEW j \in Slot, Held(e, j)'
        PROVE  c2[j].id < next'[e] /\ c2[j].bitmap \subseteq B2(c2[j].id)
    <3>1. Held(e, j) /\ c2[j].id = c[j].id
      BY <1>3, <1>9, <2>4
    <3>2. c[j].id < next'[e] /\ c[j].bitmap \subseteq B2(c[j].id)
      BY <2>1, <2>2, <3>1
    <3>3. CASE j = i
      <4>1. c[i].id = id
        BY DEF c
      <4> QED BY <1>3, <2>1, <3>1, <3>2, <3>3, <4>1
    <3>4. CASE j # i
      BY <1>4, <3>1, <3>2, <3>4
    <3> QED BY <3>3, <3>4
  <2>5. ASSUME NEW x \in 0 .. next'[e] - 1
        PROVE  B2(x) = Block \/ \E j \in Slot : Held(e, j)' /\ c2[j].id = x
    <3>1. CASE B(x) = Block
      BY <2>1, <3>1
    <3>2. CASE \E j \in Slot : Held(e, j) /\ c[j].id = x
      BY <1>3, <1>9, <3>2
    <3> QED BY <2>2, <3>1, <3>2
  <2> QED BY <2>3, <2>4, <2>5 DEF CacheSound, BlocksOf, B2, c2
<1>7. Refilling(e)'
  <2> DEFINE k == task[e].i
  <2>1. k \in Slot /\ task'[e] = task[e] /\ next'[e] = next[e]
    BY DEF TaskType
  <2>2. c2[k].used = c[k].used /\ c2[k].id = c[k].id /\ c[k].bitmap \subseteq c2[k].bitmap
    BY <1>3, <1>4, <2>1
  <2>3. c2[k].bitmap \subseteq Block
    BY <1>1, <2>1, MarkType DEF PieceType, c2
  <2> QED BY <1>5, <2>1, <2>2, <2>3 DEF Refilling, c, c2
<1>8. Behind(e)'
  BY <1>3, <1>5 DEF Behind, c, c2
<1> QED BY <1>1, <1>5, <1>6, <1>7, <1>8 DEF EndInv, Closed, Fresh, Loop

(* The receive handler, when the main task does not run inside it.         *)
LEMMA OwnHandler ==
  ASSUME TypeOK, NEW e \in End, EndInv(e), receive_handler(e), preempted' = preempted
  PROVE  EndInv(e)'
<1> USE FtAssumption DEF TypeOK
<1>1. PICK m \in net :
        /\ \/ process_file_request(e, m)
           \/ process_file_metadata(e, m)
           \/ process_block_request(e, m)
           \/ process_block_response(e, m)
        /\ UNCHANGED <<msgTime, next, transferred, task, opened>>
  BY DEF receive_handler
<1>2. m \in Message
  OBVIOUS
<1>3. hand[e] = NoHand /\ (state[e] # "EMPTY" => opened[e])
  BY DEF EndInv, Closed
<1>4. CASE process_file_request(e, m)
  <2>1. UNCHANGED <<pieces, got, hand>>
    BY <1>4 DEF process_file_request
  <2>2. CASE state[e] = "PEER"
    <3>1. state[e]' = "FILE_METADATA"
      BY <1>4, <2>2 DEF process_file_request, SetState
    <3> QED BY <1>1, <1>3, <2>1, <2>2, <3>1, Starting DEF FreshStates
  <2>3. CASE state[e] # "PEER"
    BY <1>1, <1>4, <2>1, <2>3, Frame DEF process_file_request, Same
  <2> QED BY <2>2, <2>3
<1>5. CASE process_file_metadata(e, m)
  <2>1. UNCHANGED <<pieces, got, hand>>
    BY <1>5 DEF process_file_metadata
  <2>2. CASE state[e] \in {"FILE_REQUEST", "PEER"}
    <3>1. state[e]' = "RECEIVING" /\ sized[e]'
      BY <1>5, <2>2 DEF process_file_metadata, SetState
    <3>2. (\A i \in Slot : ~pieces[e][i].used) /\ next[e] = 0 /\ task[e].at = "wait"
      BY <2>2 DEF EndInv, Fresh
    <3>3. CacheSound(e)'
      BY <1>1, <2>1, <3>2 DEF CacheSound, Held
    <3>4. Refilling(e)' /\ Behind(e)'
      BY <1>1, <3>2 DEF Refilling, Behind
    <3> QED BY <1>1, <1>3, <2>1, <2>2, <3>1, <3>2, <3>3, <3>4 DEF EndInv, Closed, Fresh, Loop
  <2>3. CASE state[e] \notin {"FILE_REQUEST", "PEER"}
    BY <1>1, <1>5, <2>1, <2>3, Frame DEF process_file_metadata, Same
  <2> QED BY <2>2, <2>3
<1>6. CASE process_block_request(e, m)
  <2>1. UNCHANGED <<sized, got, hand>>
    BY <1>6 DEF process_block_request
  <2>2. CASE state[e] \in {"FILE_METADATA", "SENDING"}
    <3>1. state[e]' = "SENDING"
      BY <1>6, <2>2 DEF process_block_request
    <3> QED BY <1>1, <1>3, <2>1, <2>2, <3>1, Ended DEF FreshStates
  <2>3. CASE state[e] \notin {"FILE_METADATA", "SENDING"}
    BY <1>1, <1>6, <2>1, <2>3, Frame DEF process_block_request, Same
  <2> QED BY <2>2, <2>3
<1>7. CASE process_block_response(e, m)
  <2> DEFINE i == find_piece(e, m.piece)
  <2>1. m.piece \in Nat /\ m.block \in Block
    BY <1>2, <1>7 DEF process_block_response, Message
  <2>2. \/ UNCHANGED <<state, pieces, got, hand>>
        \/ /\ state[e] = "RECEIVING" /\ i # 0
           /\ MarkReceived(e, i, m.piece, m.block) /\ UNCHANGED hand
    BY <1>7 DEF process_block_response
  <2>3. UNCHANGED sized
    BY <1>7 DEF process_block_response
  <2>4. CASE UNCHANGED <<state, pieces, got, hand>>
    BY <1>1, <2>3, <2>4, Frame DEF Same
  <2>5. CASE /\ state[e] = "RECEIVING" /\ i # 0
             /\ MarkReceived(e, i, m.piece, m.block) /\ UNCHANGED hand
    <3>1. i \in Slot /\ pieces[e][i].used /\ pieces[e][i].id = m.piece
      BY <2>5, FindPiece
    <3> HIDE DEF i
    <3> QED BY <1>1, <2>1, <2>3, <2>5, <3>1, OwnMark
  <2> QED BY <2>2, <2>4, <2>5
<1> QED BY <1>1, <1>4, <1>5, <1>6, <1>7

(* Every step keeps the invariant of each end: by its own action or by the *)
(* frame.                                                                  *)
LEMMA InvNext == TypeOK /\ Inv /\ Next => Inv'
<1> SUFFICES ASSUME TypeOK, Inv, Next, preempted' = 0, NEW e \in End PROVE EndInv(e)'
  BY DEF Inv
<1>1. preempted = 0
  <2>1. preempted' = preempted \/ preempted' = preempted + 1
    <3>1. ASSUME NEW d \in End, receive_handler(d) PROVE preempted' = preempted \/ preempted' = preempted + 1
      <4>1. ASSUME NEW m, process_block_response(d, m)
            PROVE  preempted' = preempted \/ preempted' = preempted + 1
        BY <4>1 DEF process_block_response
      <4>2. ASSUME NEW m, process_file_request(d, m) \/ process_file_metadata(d, m) \/ process_block_request(d, m)
            PROVE  preempted' = preempted
        BY <4>2 DEF process_file_request, process_file_metadata, process_block_request
      <4> QED BY <3>1, <4>1, <4>2 DEF receive_handler
    <3>2. file_transfer_init_session \/ file_transfer_init_peer_session => preempted' = preempted
      BY DEF file_transfer_init_session, file_transfer_init_peer_session
    <3>3. ASSUME NEW d \in End,
                 \/ file_transfer_send_file(d) \/ file_transfer_receive_file(d)
                 \/ file_transfer_stop(d) \/ file_transfer_free_session(d)
                 \/ resume_block_response(d)
          PROVE  preempted' = preempted
      BY <3>3 DEF file_transfer_send_file, file_transfer_receive_file, file_transfer_stop,
                  file_transfer_free_session, resume_block_response
    <3>4. ASSUME NEW d \in End, Task(d) PROVE preempted' = preempted
      BY <3>4 DEF Task, session_step, receive_missing, receive_complete, receive_release,
                  receive_allocate, receive_fill, receive_clear, send_block, mark_block, send_idle, send_unused,
                  step_end
    <3> QED BY <3>1, <3>2, <3>3, <3>4 DEF Next
  <2> QED BY <2>1 DEF TypeOK
<1>2. EndInv(e)
  BY <1>1 DEF Inv
<1>3. ASSUME NEW d \in End, d # e, \A c \in End : c # d => Same(c) PROVE EndInv(e)'
  BY <1>2, <1>3, Frame
<1>4. CASE file_transfer_init_session
  <2>1. "initiator" \in End
    BY DEF End
  <2>2. CASE e = "initiator"
    BY <1>2, <1>4, <2>2, OwnCall
  <2>3. CASE e # "initiator"
    BY <1>3, <1>4, <2>1, <2>3, CallType
  <2> QED BY <2>2, <2>3
<1>5. CASE file_transfer_init_peer_session
  <2>1. "peer" \in End
    BY DEF End
  <2>2. CASE e = "peer"
    BY <1>2, <1>5, <2>2, OwnCall
  <2>3. CASE e # "peer"
    BY <1>3, <1>5, <2>1, <2>3, CallType
  <2> QED BY <2>2, <2>3
<1>6. ASSUME NEW d \in End,
             \/ file_transfer_send_file(d) \/ file_transfer_receive_file(d)
             \/ file_transfer_stop(d) \/ file_transfer_free_session(d)
             \/ Task(d)
             \/ receive_handler(d) \/ resume_block_response(d)
      PROVE  EndInv(e)'
  <2>1. CASE d # e
    <3>1. \A c \in End : c # d => Same(c)
      BY <1>6, CallType, SessionStepType, ReceiveType, SendLoopType, StepEndType, HandlerType,
         ResumeType DEF Task
    <3> QED BY <1>3, <2>1, <3>1
  <2>2. CASE d = e
    <3>1. CASE receive_handler(e)
      BY <1>1, <1>2, <3>1, OwnHandler
    <3>2. ~resume_block_response(e)
      BY <1>2 DEF resume_block_response, EndInv
    <3> QED BY <1>2, <1>6, <2>2, <3>1, <3>2, OwnCall, OwnStep, OwnAsk, OwnRelease,
           OwnAllocate, OwnFill, OwnEnd DEF Task
  <2> QED BY <2>1, <2>2
<1> QED BY <1>4, <1>5, <1>6 DEF Next

LEMMA InvStutter == Inv /\ UNCHANGED vars => Inv'
<1> SUFFICES ASSUME Inv, UNCHANGED vars, preempted' = 0, NEW e \in End PROVE EndInv(e)'
  BY DEF Inv
<1> QED BY Frame DEF Inv, vars, Same

LEMMA InvInit == Init => Inv
<1> SUFFICES ASSUME Init, NEW e \in End PROVE EndInv(e)
  BY DEF Inv
<1>1. /\ state[e] = "EMPTY" /\ hand[e] = NoHand /\ next[e] = 0 /\ task[e].at = "wait"
      /\ \A i \in Slot : ~pieces[e][i].used
  BY DEF Init, Unused, Waiting
<1> QED BY <1>1 DEF EndInv, Closed, Fresh, Loop

(* The invariant holds in every reachable state.                           *)
LEMMA Invariant == Spec => [](TypeOK /\ Inv)
<1>1. TypeOK /\ Inv /\ [Next]_vars => TypeOK' /\ Inv'
  BY TypeNext, TypeStutter, InvNext, InvStutter
<1> QED BY <1>1, TypeInit, InvInit, PTL DEF Spec

(* The piece cache of a receiving session stays sound under loss,          *)
(* repetition and reordering (file_transfer_loop.inc:70,                   *)
(* file_transfer_messages.inc:360), for every size of file, piece and      *)
(* cache, as long as the main task did not run inside the handler.         *)
THEOREM CacheStaysSound == Spec => []PieceSound
<1>1. Inv => PieceSound
  BY DEF Inv, EndInv, Loop, PieceSound
<1> QED BY <1>1, Invariant, PTL

(* A session that stops receiving by itself (file_transfer_loop.inc:113)   *)
(* has the whole file, for every size of file, piece and cache.            *)
THEOREM FinishedIsComplete == Spec => CompleteWhenFinished
<1> DEFINE A == \A e \in End :
                  preempted = 0 /\ step_end(e) /\ state[e] = "RECEIVING" /\ state'[e] = "FINISHED"
                      => \A id \in 0 .. NPieces - 1 : BlocksOf(e, id) = Block
<1>1. TypeOK /\ Inv => A
  <2> SUFFICES ASSUME TypeOK, Inv, NEW e \in End, preempted = 0, step_end(e),
                      state[e] = "RECEIVING", state'[e] = "FINISHED", NEW id \in 0 .. NPieces - 1
               PROVE  BlocksOf(e, id) = Block
    OBVIOUS
  <2>1. CacheSound(e) /\ Behind(e) /\ task[e].at = "receive_end"
    BY DEF Inv, EndInv, Loop, step_end
  <2>2. task[e].used = 0
    BY DEF step_end, TypeOK
  <2>3. next[e] >= NPieces /\ \A j \in Slot : ~pieces[e][j].used
    BY <2>1, <2>2 DEF Behind
  <2>4. id \in 0 .. next[e] - 1
    BY <2>3, FtAssumption DEF TypeOK
  <2> QED BY <2>1, <2>3, <2>4 DEF CacheSound, Held
<1>2. TypeOK /\ Inv => [A]_vars
  BY <1>1
<1>3. Spec => [][A]_vars
  BY <1>2, Invariant, PTL
<1> QED BY <1>3 DEF CompleteWhenFinished
=============================================================================
