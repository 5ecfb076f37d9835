------------------------------- MODULE KeyQueue ------------------------------
(***************************************************************************)
(* What the keyboard driver promises its callers: a queue of keys that     *)
(* holds Capacity of them and refuses the newest when it is full, and a    *)
(* KeyboardGetKey that returns the oldest key, or NoKey from an empty      *)
(* queue, in one indivisible step.                                         *)
(***************************************************************************)
EXTENDS Naturals, Sequences

CONSTANTS Keys, Capacity, NoKey

VARIABLES
  queue,
  key      (* what the last KeyboardGetKey returned *)

Init == queue = <<>> /\ key = NoKey

Push(k) ==
  /\ queue' = IF Len(queue) < Capacity THEN Append(queue, k) ELSE queue
  /\ UNCHANGED key

Get ==
  \/ queue # <<>> /\ key' = Head(queue) /\ queue' = Tail(queue)
  \/ queue = <<>> /\ key' = NoKey /\ UNCHANGED queue

Next == Get \/ \E k \in Keys : Push(k)

Spec == Init /\ [][Next]_<<queue, key>>
==============================================================================
