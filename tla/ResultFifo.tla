----------------------------- MODULE ResultFifo -----------------------------
(***************************************************************************)
(* What the result buffer of the firmware promises the host: the valid     *)
(* nonces come out of the polls in the order in which they were found,     *)
(* each at most once.  Two things discard what waits: a nonce that arrives *)
(* when Capacity nonces wait already, and an explicit drop.                *)
(***************************************************************************)
EXTENDS Naturals, Sequences

CONSTANTS Result,    \* the nonces that can be put
          NoResult,  \* "this step gave the host no nonce"
          Capacity   \* how many can wait

VARIABLES queue, out

Init == queue = <<>> /\ out = NoResult

\* A nonce is found: it goes to the end, or nothing is left.
Put ==
  /\ IF Len(queue) < Capacity
       THEN /\ Len(queue') = Len(queue) + 1
            /\ queue' = Append(queue, queue'[Len(queue) + 1])
            /\ queue'[Len(queue) + 1] \in Result
       ELSE queue' = <<>>
  /\ out' = NoResult

\* A poll gets the oldest.
Take ==
  /\ queue # <<>>
  /\ out' = Head(queue)
  /\ queue' = Tail(queue)

\* Nothing happens to the nonces.
Other == out' = NoResult /\ queue' = queue

Drop ==
  /\ queue' = <<>>
  /\ out' = NoResult

Next == Put \/ Take \/ Other \/ Drop

Spec == Init /\ [][Next]_<<queue, out>>
=============================================================================
