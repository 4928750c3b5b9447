------------------------------ MODULE Mailbox -------------------------------
(***************************************************************************)
(* What a queue between two programs promises: messages are taken in the    *)
(* order they were put, each one once, whatever becomes of it; a message    *)
(* that was taken is heard or lost; none stays in the queue.                *)
(***************************************************************************)
EXTENDS Sequences

CONSTANT Messages

VARIABLES queue, heard

Init == queue = <<>> /\ heard = <<>>

Put(m) == queue' = Append(queue, m) /\ UNCHANGED heard

Remove == queue # <<>> /\ queue' = Tail(queue)

Take == Remove /\ heard' \in {heard, Append(heard, Head(queue))}

Next == (\E m \in Messages : Put(m)) \/ Take

Spec == Init /\ [][Next]_<<queue, heard>> /\ WF_queue(Remove)

=============================================================================
