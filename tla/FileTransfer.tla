---------------------------- MODULE FileTransfer ----------------------------
(***************************************************************************)
(* The umesh file transfer protocol (src/protocols/umesh/file_transfer.c   *)
(* and its .inc parts): two ends hold one session each and move a file of  *)
(* NPieces pieces of Blocks blocks.  The receiving end keeps a cache of    *)
(* Slots pieces and asks for what is missing; the sending end answers from *)
(* a cache of its own.  Messages may be lost, duplicated and reordered.    *)
(* On each end the main task steps the session without its lock, one piece *)
(* of the cache at a time, and the receive handler runs in between.  Time  *)
(* is counted in calls of file_transfer_session_step.                      *)
(***************************************************************************)
EXTENDS Naturals, FiniteSets

CONSTANTS
    NPieces,            \* (file_size_bytes - 1) / (piece_size_blocks * block_size_bytes) + 1
    Blocks,             \* piece_size_blocks; both ends set 32, whole bytes of the bitmap
    Slots,              \* FT_PIECE_CACHE_COUNT
    BlocksPerCycle,     \* blocks_per_cycle
    InitTimeout,        \* FT_SESSION_INIT_TIMEOUT_MS, in steps
    RunTimeout,         \* FT_SESSION_RUNNING_TIMEOUT_MS, in steps
    MsgInterval,        \* FT_FILE_METADATA_MSG_INTERVAL = FT_FILE_REQUEST_MSG_INTERVAL
    ReceiverIdle,       \* FT_RECEIVER_PIECE_IDLE_MAX, in steps
    SenderIdle,         \* FT_SENDER_PIECE_IDLE_MAX, in steps
    NetMax, MaxDup,     \* bounds: messages in flight, deliveries that keep a copy,
    MaxPreempt          \* preemptions of the handler

ASSUME FtAssumption ==
    /\ NPieces \in Nat \ {0} /\ Blocks \in Nat \ {0} /\ Slots \in Nat \ {0}
    /\ BlocksPerCycle \in Nat /\ InitTimeout \in Nat /\ RunTimeout \in Nat
    /\ MsgInterval \in Nat /\ ReceiverIdle \in Nat /\ SenderIdle \in Nat
    /\ NetMax \in Nat /\ MaxDup \in Nat /\ MaxPreempt \in Nat

VARIABLES
    state,      \* state[e]: enum ft_state of the session of end e
    sized,      \* sized[e]: the file properties are set (all zero in a fresh or freed session)
    idle,       \* idle_time_ms
    msgTime,    \* message_time_ms, kept at MsgInterval once it is there
    pieces,     \* pieces[e][i]: the piece cache
    next,       \* next_piece_index
    transferred,\* transferred_pieces of the receiving end (the sender's copy is for progress only)
    task,       \* task[e]: where the main task is in file_transfer_session_step
    hand,       \* hand[e]: the block response a preempted handler is in, and its piece
    net, dups,  \* messages in flight, copies made so far
    preempted,  \* how often the main task could run while the handler was inside
    opened,     \* opened[e]: the session of this end has been created
    got         \* got[e]: the blocks whose response the handler applied to the session (history)

vars == <<state, sized, idle, msgTime, pieces, next, transferred, task, hand, net, dups, preempted, opened, got>>

End == {"initiator", "peer"}
Other(e) == IF e = "initiator" THEN "peer" ELSE "initiator"
Block == 0 .. Blocks - 1
Slot == 1 .. Slots
State == {"EMPTY", "PEER", "PREPARED", "FILE_METADATA", "FILE_REQUEST",
          "SENDING", "RECEIVING", "FINISHED", "FAILED"}

Unused == [used |-> FALSE, id |-> 0, bitmap |-> {}, idle |-> 0]
Waiting == [at |-> "wait", i |-> 1, used |-> 0, block |-> 0, sent |-> 0]
NoHand == [slot |-> 0, piece |-> 0, block |-> 0]

Message ==
    [type : {"file_request", "file_metadata"}, to : End] \cup
    [type : {"block_request"}, to : End, piece : Nat, bitmap : SUBSET Block] \cup
    [type : {"block_response"}, to : End, piece : Nat, block : Block]

Min2(a, b) == IF a < b THEN a ELSE b

(***************************************************************************)
(* Session helpers                                                         *)
(***************************************************************************)
\* set_state: every call restarts the idle time, also one that keeps the state.
SetState(e, s) == state' = [state EXCEPT ![e] = s] /\ idle' = [idle EXCEPT ![e] = 0]

\* file_transfer_send hands the message to the network below, which may lose it.
Send(msgs) == \E kept \in SUBSET msgs : Cardinality(net \cup kept) <= NetMax /\ net' = net \cup kept

\* A bitmap with every block in it is complete; the request then has an empty bitmap field,
\* which is how the sender tells it from one with missing blocks.
piece_missing_blocks(p) == p.bitmap # Block

\* The first piece of the cache in use for this piece id, 0 when there is none.
find_piece(e, id) ==
    LET hits == {i \in Slot : pieces[e][i].used /\ pieces[e][i].id = id}
    IN  IF hits = {} THEN 0 ELSE CHOOSE i \in hits : \A j \in hits : i <= j

\* The first free piece of the cache, 0 when there is none.
free_piece(e) ==
    LET free == {i \in Slot : ~pieces[e][i].used}
    IN  IF free = {} THEN 0 ELSE CHOOSE i \in free : \A j \in free : i <= j

\* The piece count: with zero sizes the division gives 0 on this machine, and 1 is added.
PieceCount_Floor(e) == IF sized[e] THEN NPieces - 1 ELSE 0
PieceCount(e) == IF sized[e] THEN NPieces ELSE 1

(***************************************************************************)
(* Calls of the application                                                *)
(***************************************************************************)
file_transfer_init_session ==
    /\ state["initiator"] = "EMPTY" /\ ~opened["initiator"]
    /\ opened' = [opened EXCEPT !["initiator"] = TRUE]
    /\ SetState("initiator", "PREPARED")
    /\ UNCHANGED <<sized, msgTime, pieces, next, transferred, task, hand, net, dups, preempted, got>>

file_transfer_init_peer_session ==
    /\ state["peer"] = "EMPTY" /\ ~opened["peer"]
    /\ opened' = [opened EXCEPT !["peer"] = TRUE]
    /\ SetState("peer", "PEER")
    /\ UNCHANGED <<sized, msgTime, pieces, next, transferred, task, hand, net, dups, preempted, got>>

file_transfer_send_file(e) ==
    /\ state[e] = "PREPARED"
    /\ hand[e] = NoHand
    /\ sized' = [sized EXCEPT ![e] = TRUE]
    /\ SetState(e, "FILE_METADATA")
    /\ UNCHANGED <<msgTime, pieces, next, transferred, task, hand, net, dups, preempted, opened, got>>

file_transfer_receive_file(e) ==
    /\ state[e] = "PREPARED"
    /\ hand[e] = NoHand
    /\ SetState(e, "FILE_REQUEST")
    /\ UNCHANGED <<sized, msgTime, pieces, next, transferred, task, hand, net, dups, preempted, opened, got>>

file_transfer_stop(e) ==
    /\ state[e] \in {"RECEIVING", "SENDING"}
    /\ hand[e] = NoHand
    /\ SetState(e, "FINISHED")
    /\ UNCHANGED <<sized, msgTime, pieces, next, transferred, task, hand, net, dups, preempted, opened, got>>

\* Takes no lock: the main task may be in the middle of a step of this session.
file_transfer_free_session(e) ==
    /\ state[e] \in {"FINISHED", "FAILED"}
    /\ state' = [state EXCEPT ![e] = "EMPTY"]
    /\ idle' = [idle EXCEPT ![e] = 0]
    /\ msgTime' = [msgTime EXCEPT ![e] = 0]
    /\ sized' = [sized EXCEPT ![e] = FALSE]
    /\ pieces' = [pieces EXCEPT ![e] = [i \in Slot |-> Unused]]
    /\ next' = [next EXCEPT ![e] = 0]
    /\ transferred' = [transferred EXCEPT ![e] = 0]
    /\ got' = [got EXCEPT ![e] = {}]
    /\ UNCHANGED <<task, hand, net, dups, preempted, opened>>

(***************************************************************************)
(* file_transfer_session_step                                              *)
(***************************************************************************)
\* The timers that every step moves.  idle_time_ms is compared only in the four active states,
\* each entered with idle_time_ms = 0; message_time_ms only before pieces are moved.  They are
\* left alone where nothing reads them again.
Idle_Stuck(e) == idle[e]
Idle(e) == idle[e] + 1
MsgTime(e) == Min2(msgTime[e] + 1, MsgInterval)

\* Waiting for the other end: give up, or repeat the opening message.
step_opening(e, s, type) ==
    /\ state[e] = s
    /\ IF Idle(e) >= InitTimeout
       THEN SetState(e, "FAILED") /\ UNCHANGED <<msgTime, net>>
       ELSE /\ idle' = [idle EXCEPT ![e] = Idle(e)]
            /\ UNCHANGED state
            /\ IF MsgTime(e) >= MsgInterval
               THEN Send({[type |-> type, to |-> Other(e)]}) /\ msgTime' = [msgTime EXCEPT ![e] = 0]
               ELSE UNCHANGED net /\ msgTime' = [msgTime EXCEPT ![e] = MsgTime(e)]
    /\ UNCHANGED task

\* Moving pieces: give up, or go through the cache from its first piece.
step_running(e, s, at) ==
    /\ state[e] = s
    /\ IF Idle(e) >= RunTimeout
       THEN SetState(e, "FAILED") /\ UNCHANGED task
       ELSE /\ idle' = [idle EXCEPT ![e] = Idle(e)]
            /\ task' = [task EXCEPT ![e] = [Waiting EXCEPT !.at = at]]
            /\ UNCHANGED state
    /\ UNCHANGED <<msgTime, net>>

\* In the other states a step only moves the timers.
step_timers(e) ==
    /\ state[e] \in {"PEER", "PREPARED"}
    /\ msgTime' = [msgTime EXCEPT ![e] = MsgTime(e)]
    /\ UNCHANGED <<state, idle, task, net>>

session_step(e) ==
    /\ task[e].at = "wait"
    /\ \/ step_opening(e, "FILE_METADATA", "file_metadata")
       \/ step_opening(e, "FILE_REQUEST", "file_request")
       \/ step_running(e, "RECEIVING", "receive")
       \/ step_running(e, "SENDING", "send")
       \/ step_timers(e)
    /\ UNCHANGED <<sized, pieces, next, transferred, hand, dups, preempted, opened, got>>

\* The loop has dealt with piece i, which is in use or not, and goes on with the next one.
Advance(e, at, used) ==
    task' = [task EXCEPT ![e] = [at |-> IF task[e].i < Slots THEN at
                                        ELSE IF at = "send" THEN "send_end" ELSE "receive_end",
                                 i |-> Min2(task[e].i + 1, Slots),
                                 used |-> task[e].used + (IF used THEN 1 ELSE 0),
                                 block |-> 0, sent |-> task[e].sent]]

\* send_block_request of a piece in use, under the session lock; its assertion on the state
\* keeps a session that was stopped meanwhile from sending.
send_block_request(e, p) ==
    IF state[e] = "RECEIVING"
    THEN /\ hand[e] = NoHand
         /\ Send({[type |-> "block_request", to |-> Other(e), piece |-> p.id, bitmap |-> p.bitmap]})
    ELSE UNCHANGED net

\* A piece with missing blocks: ask for them again when it has been idle for long enough.
receive_missing(e) ==
    LET i == task[e].i
        p == pieces[e][i]
        due == p.idle + 1 >= ReceiverIdle
    IN  /\ task[e].at = "receive"
        /\ p.used /\ piece_missing_blocks(p)
        /\ IF due THEN send_block_request(e, p) ELSE UNCHANGED net
        /\ pieces' = [pieces EXCEPT ![e][i].idle = IF due THEN 0 ELSE p.idle + 1]
        /\ Advance(e, "receive", TRUE)
        /\ UNCHANGED <<state, sized, idle, msgTime, next, transferred, hand, dups, preempted, opened, got>>

\* A complete piece: tell the sender.  The lock is released before the piece is.
receive_complete(e) ==
    LET p == pieces[e][task[e].i]
    IN  /\ task[e].at = "receive"
        /\ p.used /\ ~piece_missing_blocks(p)
        /\ send_block_request(e, p)
        /\ task' = [task EXCEPT ![e].at = "release"]
        /\ UNCHANGED <<state, sized, idle, msgTime, pieces, next, transferred, hand, dups, preempted, opened, got>>

receive_release(e) ==
    /\ task[e].at = "release"
    /\ transferred' = [transferred EXCEPT ![e] = transferred[e] + 1]
    /\ pieces' = [pieces EXCEPT ![e][task[e].i] = Unused]
    /\ task' = [task EXCEPT ![e].at = "allocate"]
    /\ UNCHANGED <<state, sized, idle, msgTime, next, hand, net, dups, preempted, opened, got>>

\* An unused piece of the cache, or one just released, takes the next piece of the file.  It is in
\* use before it has the id, and has the id before its bitmap is cleared.
receive_allocate(e) ==
    LET i == task[e].i
        more == next[e] < PieceCount(e)
    IN  /\ task[e].at \in {"receive", "allocate"} /\ ~pieces[e][i].used
        /\ IF more THEN /\ pieces' = [pieces EXCEPT ![e][i].used = TRUE]
                        /\ task' = [task EXCEPT ![e].at = "fill"]
                   ELSE UNCHANGED pieces /\ Advance(e, "receive", FALSE)
        /\ UNCHANGED <<state, sized, idle, msgTime, next, transferred, hand, net, dups, preempted, opened, got>>

receive_fill(e) ==
    /\ task[e].at = "fill"
    /\ pieces' = [pieces EXCEPT ![e][task[e].i].id = next[e], ![e][task[e].i].idle = ReceiverIdle]
    /\ task' = [task EXCEPT ![e].at = "clear"]
    /\ UNCHANGED <<state, sized, idle, msgTime, next, transferred, hand, net, dups, preempted, opened, got>>

Cleared_Kept(bitmap) == bitmap
Cleared(bitmap) == {}

receive_clear(e) ==
    LET i == task[e].i
    IN  /\ task[e].at = "clear"
        /\ pieces' = [pieces EXCEPT ![e][i].bitmap = Cleared(@)]
        /\ next' = [next EXCEPT ![e] = next[e] + 1]
        /\ Advance(e, "receive", pieces[e][i].used)
        /\ UNCHANGED <<state, sized, idle, msgTime, transferred, hand, net, dups, preempted, opened, got>>

\* The next block of the piece that was asked for, from block on, while the cycle allows.  A freed
\* session has no blocks.
ToSend(e, p, b) ==
    /\ sized[e] /\ task[e].sent < BlocksPerCycle
    /\ b >= task[e].block /\ b \notin p.bitmap
    /\ \A c \in Block : task[e].block <= c /\ c < b => c \in p.bitmap

\* The loop is at a piece that was in use when it came to it.
Serving(e, p) == task[e].at = "send" /\ (p.used \/ task[e].block > 0)

\* send_block_response, under the session lock; the block is marked after it.
send_block(e) ==
    LET p == pieces[e][task[e].i]
    IN  /\ Serving(e, p)
        /\ \E b \in Block :
              /\ ToSend(e, p, b)
              /\ IF state[e] = "SENDING"
                 THEN /\ hand[e] = NoHand
                      /\ Send({[type |-> "block_response", to |-> Other(e), piece |-> p.id, block |-> b]})
                 ELSE UNCHANGED net
              /\ task' = [task EXCEPT ![e].at = "mark", ![e].block = b]
        /\ UNCHANGED <<state, sized, idle, msgTime, pieces, next, transferred, hand, dups, preempted, opened, got>>

mark_block(e) ==
    LET i == task[e].i
        b == task[e].block
    IN  /\ task[e].at = "mark"
        /\ pieces' = [pieces EXCEPT ![e][i].bitmap = @ \cup {b}]
        /\ task' = [task EXCEPT ![e] = [@ EXCEPT !.at = "send", !.block = b + 1, !.sent = task[e].sent + 1]]
        /\ UNCHANGED <<state, sized, idle, msgTime, next, transferred, hand, net, dups, preempted, opened, got>>

\* Nothing more to send of the piece: it goes when no request has come for it for long.
send_idle(e) ==
    LET i == task[e].i
        p == pieces[e][i]
        old == p.idle + 1 > SenderIdle
    IN  /\ Serving(e, p)
        /\ \A b \in Block : ~ToSend(e, p, b)
        /\ pieces' = [pieces EXCEPT ![e][i] = IF old THEN Unused ELSE [p EXCEPT !.idle = p.idle + 1]]
        /\ Advance(e, "send", p.used /\ ~old)
        /\ UNCHANGED <<state, sized, idle, msgTime, next, transferred, hand, net, dups, preempted, opened, got>>

send_unused(e) ==
    /\ task[e].at = "send" /\ ~Serving(e, pieces[e][task[e].i])
    /\ Advance(e, "send", FALSE)
    /\ UNCHANGED <<state, sized, idle, msgTime, pieces, next, transferred, hand, net, dups, preempted, opened, got>>

\* No piece in use at the end of the loop finishes the session, whatever happened to its state
\* since the loop began.
step_end(e) ==
    /\ task[e].at \in {"receive_end", "send_end"}
    /\ IF task[e].used = 0 THEN SetState(e, "FINISHED") ELSE UNCHANGED <<state, idle>>
    /\ task' = [task EXCEPT ![e] = Waiting]
    /\ UNCHANGED <<sized, msgTime, pieces, next, transferred, hand, net, dups, preempted, opened, got>>

(***************************************************************************)
(* file_transfer_receive_handler                                           *)
(***************************************************************************)
\* The message is taken from the network, which may keep a copy for later.  Without a session
\* (state EMPTY) it is not for anybody, and in an unexpected state it changes nothing.
Deliver(m) ==
    \/ net' = net \ {m} /\ UNCHANGED dups
    \/ dups < MaxDup /\ dups' = dups + 1 /\ UNCHANGED net

process_file_request(e, m) ==
    /\ m.type = "file_request"
    /\ IF state[e] = "PEER"
       THEN SetState(e, "FILE_METADATA") /\ sized' = [sized EXCEPT ![e] = TRUE]
       ELSE UNCHANGED <<state, idle, sized>>
    /\ UNCHANGED <<pieces, got, hand, preempted>>

process_file_metadata(e, m) ==
    /\ m.type = "file_metadata"
    /\ IF state[e] \in {"FILE_REQUEST", "PEER"}
       THEN SetState(e, "RECEIVING") /\ sized' = [sized EXCEPT ![e] = TRUE]
       ELSE UNCHANGED <<state, idle, sized>>
    /\ UNCHANGED <<pieces, got, hand, preempted>>

\* The first request moves the sender on.  The piece is looked up or read into a free place of
\* the cache; a request with nothing missing lets it run out, any other one starts it again.
process_block_request(e, m) ==
    LET found == find_piece(e, m.piece)
        i == IF found # 0 THEN found ELSE free_piece(e)
        p == IF found # 0 THEN pieces[e][i] ELSE [pieces[e][i] EXCEPT !.used = TRUE, !.id = m.piece]
    IN  /\ m.type = "block_request"
        /\ IF state[e] \notin {"FILE_METADATA", "SENDING"}
           THEN UNCHANGED <<state, idle, pieces>>
           ELSE /\ state' = [state EXCEPT ![e] = "SENDING"]
                /\ idle' = [idle EXCEPT ![e] =
                       IF state[e] = "FILE_METADATA" \/ (i # 0 /\ m.bitmap # Block) THEN 0 ELSE @]
                /\ pieces' = IF i = 0 THEN pieces
                             ELSE [pieces EXCEPT ![e][i] =
                                IF m.bitmap = Block THEN [p EXCEPT !.idle = SenderIdle]
                                ELSE [p EXCEPT !.idle = 0, !.bitmap = m.bitmap]]
        /\ UNCHANGED <<sized, got, hand, preempted>>

\* The block is marked in the place of the cache that find_piece returned.
MarkReceived(e, i, id, b) ==
    /\ pieces' = [pieces EXCEPT ![e][i].bitmap = @ \cup {b}]
    /\ got' = [got EXCEPT ![e] = @ \cup {<<id, b>>}]
    /\ SetState(e, "RECEIVING")

process_block_response(e, m) ==
    LET i == find_piece(e, m.piece)
    IN  /\ m.type = "block_response"
        /\ IF state[e] # "RECEIVING" \/ i = 0
           THEN UNCHANGED <<state, idle, pieces, got, hand, preempted>>
           ELSE \/ /\ preempted < MaxPreempt /\ preempted' = preempted + 1
                   /\ hand' = [hand EXCEPT ![e] = [slot |-> i, piece |-> m.piece, block |-> m.block]]
                   /\ UNCHANGED <<state, idle, pieces, got>>
                \/ MarkReceived(e, i, m.piece, m.block) /\ UNCHANGED <<hand, preempted>>
        /\ UNCHANGED sized

receive_handler(e) ==
    \E m \in net :
        /\ m.to = e
        /\ hand[e] = NoHand
        /\ Deliver(m)
        /\ \/ process_file_request(e, m)
           \/ process_file_metadata(e, m)
           \/ process_block_request(e, m)
           \/ process_block_response(e, m)
        /\ UNCHANGED <<msgTime, next, transferred, task, opened>>

\* The rest of process_block_response after a preemption; the session is still locked.
resume_block_response(e) ==
    /\ hand[e] # NoHand
    /\ MarkReceived(e, hand[e].slot, hand[e].piece, hand[e].block)
    /\ hand' = [hand EXCEPT ![e] = NoHand]
    /\ UNCHANGED <<sized, msgTime, next, transferred, task, net, dups, preempted, opened>>

Init ==
    /\ state = [e \in End |-> "EMPTY"]
    /\ sized = [e \in End |-> FALSE]
    /\ idle = [e \in End |-> 0]
    /\ msgTime = [e \in End |-> 0]
    /\ pieces = [e \in End |-> [i \in Slot |-> Unused]]
    /\ next = [e \in End |-> 0]
    /\ transferred = [e \in End |-> 0]
    /\ task = [e \in End |-> Waiting]
    /\ hand = [e \in End |-> NoHand]
    /\ net = {} /\ dups = 0 /\ preempted = 0
    /\ opened = [e \in End |-> FALSE]
    /\ got = [e \in End |-> {}]

\* The main task of one end.
Task(e) ==
    \/ session_step(e)
    \/ receive_missing(e) \/ receive_complete(e) \/ receive_release(e)
    \/ receive_allocate(e) \/ receive_fill(e) \/ receive_clear(e)
    \/ send_block(e) \/ mark_block(e) \/ send_idle(e) \/ send_unused(e)
    \/ step_end(e)

Next ==
    \/ file_transfer_init_session
    \/ file_transfer_init_peer_session
    \/ \E e \in End :
        \/ file_transfer_send_file(e) \/ file_transfer_receive_file(e)
        \/ file_transfer_stop(e) \/ file_transfer_free_session(e)
        \/ Task(e)
        \/ receive_handler(e) \/ resume_block_response(e)

\* The timer gives the main task's semaphore every FT_STEP_INTERVAL_MS and the wait for it is
\* bounded, so the task of each end keeps stepping, and a handler that was preempted goes on.
\* Nothing is assumed of the network or the application.
Fairness == \A e \in End : WF_vars(Task(e)) /\ WF_vars(resume_block_response(e))

Spec == Init /\ [][Next]_vars /\ Fairness

-----------------------------------------------------------------------------
PieceType == [used : BOOLEAN, id : Nat, bitmap : SUBSET Block, idle : Nat]
TaskType ==
    [at : {"wait", "receive", "release", "allocate", "fill", "clear", "receive_end", "send", "send_end"},
     i : Slot, used : Nat, block : Nat, sent : Nat] \cup
    [at : {"mark"}, i : Slot, used : Nat, block : Block, sent : Nat]
HandType == {NoHand} \cup [slot : Slot, piece : Nat, block : Block]

TypeOK ==
    /\ state \in [End -> State]
    /\ sized \in [End -> BOOLEAN]
    /\ idle \in [End -> Nat] /\ msgTime \in [End -> Nat]
    /\ pieces \in [End -> [Slot -> PieceType]]
    /\ next \in [End -> Nat] /\ transferred \in [End -> Nat]
    /\ task \in [End -> TaskType] /\ hand \in [End -> HandType]
    /\ net \subseteq Message /\ dups \in Nat /\ preempted \in Nat
    /\ opened \in [End -> BOOLEAN]
    /\ got \in [End -> SUBSET (Nat \X Block)]

BlocksOf(e, id) == {b \in Block : <<id, b>> \in got[e]}

\* The main task fills this place of the cache.
Filling(e, i) == task[e].at \in {"fill", "clear"} /\ task[e].i = i

\* A piece in the cache of a receiving end.
Held(e, i) == pieces[e][i].used /\ ~Filling(e, i)

\* The cache of a receiving end: no piece is in it twice, a bitmap never shows a block that did
\* not arrive, and a piece that was taken from the file and is no longer in the cache arrived
\* whole.
CacheSound(e) ==
    /\ \A i, j \in Slot : Held(e, i) /\ Held(e, j) /\ pieces[e][i].id = pieces[e][j].id => i = j
    /\ \A i \in Slot : Held(e, i) =>
          pieces[e][i].id < next[e] /\ pieces[e][i].bitmap \subseteq BlocksOf(e, pieces[e][i].id)
    /\ \A id \in 0 .. next[e] - 1 :
          BlocksOf(e, id) = Block \/ \E i \in Slot : Held(e, i) /\ pieces[e][i].id = id

\* The handler marks blocks in the cache that the main task refills without the session lock
\* (file_transfer_loop.inc:70, file_transfer_messages.inc:372), so that a block can be marked in a
\* place that is being filled, and the network repeats, reorders and loses messages: the cache
\* stays sound as long as the main task did not run inside the handler.
PieceSound == preempted = 0 => \A e \in End : state[e] = "RECEIVING" => CacheSound(e)

\* In these schedules a receiving session that finishes by itself (file_transfer_loop.inc:113) has
\* every block of every piece of the file, although other messages and a stop of the application
\* may come between the steps of the loop that decides it.
CompleteWhenFinished ==
    [][\A e \in End :
          preempted = 0 /\ step_end(e) /\ state[e] = "RECEIVING" /\ state'[e] = "FINISHED"
              => \A id \in 0 .. NPieces - 1 : BlocksOf(e, id) = Block]_vars

\* No session stays active for ever: it ends with the whole file, by a timeout or by the application
\* (file_transfer_loop.inc:37, :63, :122), even when the network fails for good, the other end
\* vanishes, or a handler that was preempted revives a session that had ended meanwhile.
SessionEnds ==
    <>[](\A e \in End : state[e] \notin {"FILE_METADATA", "FILE_REQUEST", "SENDING", "RECEIVING"})

=============================================================================
