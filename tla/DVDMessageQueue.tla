--------------------------- MODULE DVDMessageQueue ---------------------------
(***************************************************************************)
(* CDVDMessageQueue (xbmc/cores/VideoPlayer/DVDMessageQueue.cpp) as a      *)
(* record and the operators that change it.  Each method holds m_section   *)
(* and is one operator; Get, which leaves it to wait, is cut there by its  *)
(* users.  The times of the packets, which only tell how full the queue    *)
(* is, are left out.                                                       *)
(*                                                                         *)
(* An item is a message with its priority.  A packet is named by a number, *)
(* which is its size as well, so that sums tell packets apart.  As in the  *)
(* code, the front of a list is its newest item and Get takes the back.    *)
(***************************************************************************)
EXTENDS Integers, Sequences, SequencesExt, Queues

Item(kind, n) == [kind |-> kind, n |-> n, priority |-> 0]

NoItem == Item("none", 0)

Size(item) == IF item.kind = "packet" THEN item.n ELSE 0

(* The queue before Init, and as End leaves it.                            *)
NewQueue ==
  [m_messages |-> <<>>, m_prioMessages |-> <<>>, m_iDataSize |-> 0,
   m_bAbortRequest |-> FALSE, m_bInitialized |-> FALSE, m_drain |-> FALSE,
   m_hEvent |-> FALSE]

InitQueue(Q) ==
  [Q EXCEPT !.m_iDataSize = 0, !.m_bAbortRequest = FALSE, !.m_bInitialized = TRUE,
            !.m_drain = FALSE]

(* Mutant: the size is left as it was.                                     *)
FlushKeepsSize(Q) ==
  [Q EXCEPT !.m_messages = Kept(@, {i \in ToSet(@) : i.kind # "packet"}),
            !.m_prioMessages = Kept(@, {i \in ToSet(@) : i.kind # "packet"})]

(* Flush(DEMUXER_PACKET): every other message stays.                       *)
Flush(Q) ==
  [Q EXCEPT !.m_messages = Kept(@, {i \in ToSet(@) : i.kind # "packet"}),
            !.m_prioMessages = Kept(@, {i \in ToSet(@) : i.kind # "packet"}),
            !.m_iDataSize = 0]

(* Mutant: nobody is told.                                                 *)
AbortSilently(Q) == [Q EXCEPT !.m_bAbortRequest = TRUE]

Abort(Q) == [Q EXCEPT !.m_bAbortRequest = TRUE, !.m_hEvent = TRUE]

(* End: Flush(NONE) and back to uninitialized; the event is left alone.    *)
End(Q) ==
  [Q EXCEPT !.m_messages = <<>>, !.m_prioMessages = <<>>, !.m_iDataSize = 0,
            !.m_bInitialized = FALSE, !.m_bAbortRequest = FALSE]

(* Before the first item of at least that priority, else at the back.      *)
Place(items, prio) ==
  LET after == {i \in DOMAIN items : prio <= items[i].priority}
  IN  IF after = {} THEN Len(items) + 1 ELSE Min(after)

(* Put (front) and PutBack (not front); the caller's event comes with it.  *)
PutItem(Q, item, priority, front) ==
  LET it == [item EXCEPT !.priority = priority]
  IN  IF ~Q.m_bInitialized THEN Q
      ELSE IF priority > 0
      THEN [Q EXCEPT !.m_prioMessages =
                        InsertAt(@, Place(@, IF front THEN priority ELSE priority + 1), it),
                     !.m_hEvent = TRUE]
      ELSE [Q EXCEPT !.m_messages = IF front THEN <<it>> \o @ ELSE Append(@, it),
                     !.m_iDataSize = (IF Q.m_messages = <<>> THEN 0 ELSE @) + Size(item),
                     !.m_hEvent = TRUE]

(* Mutant: the stream is not told of the message.                          *)
PutSilently(Q, item, priority) ==
  [PutItem(Q, item, priority, TRUE) EXCEPT !.m_hEvent = Q.m_hEvent]

Put(Q, item, priority) == PutItem(Q, item, priority, TRUE)

(* Mutant: the packet is put back, its size is not.                        *)
PutBackUncounted(Q, item, priority) ==
  [PutItem(Q, item, priority, FALSE) EXCEPT !.m_iDataSize = Q.m_iDataSize]

PutBack(Q, item, priority) == PutItem(Q, item, priority, FALSE)

(* Get looks at one of the lists only, and there at the back.              *)
List(Q, priority) ==
  IF priority > 0 \/ Q.m_prioMessages # <<>> THEN Q.m_prioMessages ELSE Q.m_messages

Ready(Q, priority) ==
  /\ List(Q, priority) # <<>>
  /\ Last(List(Q, priority)).priority >= priority \/ Q.m_drain

Taken(Q, priority) == Last(List(Q, priority))

AfterTake(Q, priority) ==
  LET it == Taken(Q, priority)
      rest == Front(List(Q, priority))
  IN  IF it.priority > 0 THEN [Q EXCEPT !.m_prioMessages = rest]
      ELSE [Q EXCEPT !.m_messages = rest,
                     !.m_iDataSize = @ - Size(it)]

(* What m_iDataSize is meant to be.                                        *)
DataSize(Q) == Total([i \in DOMAIN Q.m_messages |-> Size(Q.m_messages[i])])
=============================================================================
