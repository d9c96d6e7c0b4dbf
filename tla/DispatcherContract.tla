------------------------- MODULE DispatcherContract -------------------------
(***************************************************************************)
(* What every asynchronous dispatcher of the SDKs promises, whatever it is *)
(* built from.  Incidents wait in a bounded FIFO queue; a full queue drops *)
(* its oldest entry to admit the newest; a fixed number of workers run     *)
(* each incident at most once; close refuses new work, lets the queued     *)
(* work drain, and at some point gives up and abandons whatever is left,   *)
(* after which nothing starts any more.                                    *)
(*                                                                         *)
(* The dispatcher modules implement this specification; none of its        *)
(* definitions is a translation of one particular source line.             *)
(***************************************************************************)
EXTENDS Naturals, Sequences, FiniteSets

CONSTANTS Tasks,        \* the incidents the application submits
          Capacity,     \* queue bound
          WorkerCount,  \* most incidents in flight at once
          EvictsEarly   \* TRUE: a submitter that found the queue full may evict
                        \* after a worker has made room

VARIABLES queue,   \* incidents waiting, oldest first
          fate,    \* what has become of every incident
          phase    \* "open", "closing" (draining) or "closed" (given up)

vars == <<queue, fate, phase>>

Fates == {"new", "refused", "queued", "running", "done", "dropped", "abandoned"}

Running == {t \in Tasks : fate[t] = "running"}

Init == /\ queue = <<>>
        /\ fate = [t \in Tasks |-> "new"]
        /\ phase = "open"

\* Room in the queue: the incident goes to the back.
Enqueue(t) ==
  /\ phase = "open"
  /\ fate[t] = "new"
  /\ Len(queue) < Capacity
  /\ queue' = Append(queue, t)
  /\ fate' = [fate EXCEPT ![t] = "queued"]
  /\ UNCHANGED phase

\* No room: the oldest queued incident makes way for the newest.
EnqueueDropOldest(t) ==
  /\ phase = "open"
  /\ fate[t] = "new"
  /\ Len(queue) = Capacity \/ (EvictsEarly /\ queue # <<>>)
  /\ fate[Head(queue)] = "queued"
  /\ queue' = Append(Tail(queue), t)
  /\ fate' = [fate EXCEPT ![t] = "queued", ![Head(queue)] = "dropped"]
  /\ UNCHANGED phase

Refuse(t) ==
  /\ phase # "open"
  /\ fate[t] = "new"
  /\ fate' = [fate EXCEPT ![t] = "refused"]
  /\ UNCHANGED <<queue, phase>>

\* A worker takes the oldest queued incident.
Start ==
  /\ phase # "closed"
  /\ queue # <<>>
  /\ fate[Head(queue)] = "queued"
  /\ Cardinality(Running) < WorkerCount
  /\ queue' = Tail(queue)
  /\ fate' = [fate EXCEPT ![Head(queue)] = "running"]
  /\ UNCHANGED phase

Finish(t) ==
  /\ fate[t] = "running"
  /\ fate' = [fate EXCEPT ![t] = "done"]
  /\ UNCHANGED <<queue, phase>>

\* Close may have given up on an incident that a worker is at.
CutShort(t) ==
  /\ phase = "closed"
  /\ fate[t] = "running"
  /\ fate' = [fate EXCEPT ![t] = "abandoned"]
  /\ UNCHANGED <<queue, phase>>

BeginClose ==
  /\ phase = "open"
  /\ phase' = "closing"
  /\ UNCHANGED <<queue, fate>>

\* Close gives up on everything still queued, and nothing starts afterwards.
GiveUp ==
  /\ phase = "closing"
  /\ phase' = "closed"
  /\ queue' = <<>>
  /\ fate' = [t \in Tasks |-> IF fate[t] = "queued" THEN "abandoned" ELSE fate[t]]

Next ==
  \/ \E t \in Tasks : \/ Enqueue(t)
                      \/ EnqueueDropOldest(t)
                      \/ Refuse(t)
                      \/ Finish(t)
                      \/ CutShort(t)
  \/ Start
  \/ BeginClose
  \/ GiveUp

Spec == Init /\ [][Next]_vars
=============================================================================
