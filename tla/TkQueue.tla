------------------------------- MODULE TkQueue -------------------------------
(****************************************************************************)
(* TinKer's fixed-size message queues (q_send, q_receive and q_send_ny in   *)
(* src/src/tk_itc.c and tk_itcny.c): a ring of messages beside the token    *)
(* and the blocked threads of TkItc, with token counting the messages that  *)
(* no receiver has been promised.                                           *)
(*                                                                          *)
(* q_send and q_receive touch the ring with interrupts enabled, outside of  *)
(* lock_stage and unlock_stage, so that a handler's q_send_ny can come in   *)
(* between: one step per access of the ring.                                *)
(****************************************************************************)
EXTENDS TkItc

CONSTANTS Size,      \* sizeof_q
          Msgs,      \* what a message may be
          Senders,   \* threads that call q_send
          Paced      \* handlers do not overrun the ring: see SendFromHandler

ASSUME QueueAssumption ==
  /\ Size \in Nat /\ Size >= 1
  /\ Senders \subseteq Threads /\ Paced \in BOOLEAN

VARIABLES
  ring, minIdx, moutIdx,     \* m.q, min_idx, mout_idx
  put, got                   \* msg_buf: of the last send, of each receiver

messages == <<ring, minIdx, moutIdx, put, got>>
qvars == <<vars, messages>>

Cells == 0 .. Size - 1
NextCell(i) == IF i + 1 = Size THEN 0 ELSE i + 1

QTypeOK ==
  /\ TypeOK
  /\ ring \in [Cells -> Msgs \cup {None}]
  /\ minIdx \in Cells /\ moutIdx \in Cells
  /\ put \in Msgs \cup {None} /\ got \in [Threads -> Msgs \cup {None}]

QInit ==        \* q_create
  /\ Init /\ Kind = "S_QUEUE" /\ q.token = 0
  /\ ring = [i \in Cells |-> None]
  /\ minIdx = 0 /\ moutIdx = 0
  /\ put = None /\ got = [t \in Threads |-> None]

-----------------------------------------------------------------------------
(* The test with which q_send and q_send_ny return ERR_FULL.                *)
\* Fault: one message too many.
Full_TooLate == q.token > Size

Full == q.token > 0 /\ q.token >= Size

(* q_send: the test and the copy, then the index, then unlock_stage (which  *)
(* is TkItc's Unlock).                                                      *)
Send(m) ==
  /\ Running("user") /\ active \in Senders /\ ~Full
  /\ ring' = [ring EXCEPT ![minIdx] = m] /\ put' = m
  /\ At("copied")
  /\ UNCHANGED <<minIdx, moutIdx, got, q, state, event, active, npreempt, phase, mark>>

Advance ==
  /\ Running("copied")
  /\ minIdx' = NextCell(minIdx)
  /\ At("post")
  /\ UNCHANGED <<ring, moutIdx, put, got, q, state, event, active, npreempt, phase, mark>>

(* Messages in the ring that nobody has fetched: those that token counts,   *)
(* those promised to receivers on their way out of lock_stage, and those    *)
(* that a sender has copied but not signalled.                              *)
Promised == {t \in Threads : pc[t] = "fetch" \/ OutcomeOf(t) = "served"}
Posted   == {t \in Threads : pc[t] \in {"copied", "post"}}
Unfetched ==
  (IF q.token > 0 THEN q.token ELSE 0) + Cardinality(Promised) + Cardinality(Posted)

(* q_send_ny, with interrupts disabled throughout.  Paced says of the       *)
(* device that it waits for a cell to be free.                              *)
SendFromHandler(m) ==
  /\ ~Full
  /\ Paced => Unfetched < Size
  /\ FromHandler
  /\ ring' = [ring EXCEPT ![minIdx] = m] /\ put' = m
  /\ minIdx' = NextCell(minIdx)
  /\ UNCHANGED <<moutIdx, got>>

(* q_receive, after lock_stage has returned ERR_OK.                         *)
\* Fault: the index does not move on.
Fetch_Again ==
  /\ Running("fetch")
  /\ got' = [got EXCEPT ![active] = ring[moutIdx]]
  /\ At("user")
  /\ UNCHANGED <<ring, minIdx, moutIdx, put, q, state, event, active, npreempt, phase, mark>>

Fetch ==
  /\ Running("fetch")
  /\ got' = [got EXCEPT ![active] = ring[moutIdx]]
  /\ moutIdx' = NextCell(moutIdx)
  /\ At("user")
  /\ UNCHANGED <<ring, minIdx, put, q, state, event, active, npreempt, phase, mark>>

QNext ==
  \/ Core /\ UNCHANGED messages
  \/ Fetch \/ Advance
  \/ \E m \in Msgs : Send(m) \/ SendFromHandler(m)

QSpec == QInit /\ [][QNext]_qvars

-----------------------------------------------------------------------------
Buffer == [k \in 1 .. Unfetched |-> ring[(moutIdx + k - 1) % Size]]

Fifo == INSTANCE BoundedFifo WITH buffer <- Buffer, in <- put, out <- got

(* The ring is a bounded first-in, first-out buffer: every message that     *)
(* q_send accepts is received once, in order.                               *)
IsFifo == Fifo!Spec
=============================================================================
