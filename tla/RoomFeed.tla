------------------------------- MODULE RoomFeed -------------------------------
(***************************************************************************)
(* What a room's event stream promises its client (ADR-0027), without      *)
(* Redis, queues or recovery: a connection writes the events that follow   *)
(* the last position the client knows, one after the other, and a jump to  *)
(* any later position is announced by a resync frame.                      *)
(***************************************************************************)
EXTENDS Integers, Sequences

VARIABLES
  head,    \* position of the room's latest event: [gen, seq]
  open,    \* is a connection past its attach decision?
  base,    \* the position its frames continue from
  frames   \* the frames written to it

vars == <<head, open, base, frames>>

\* The position the client knows after the frames written so far.
Held == IF frames = <<>> THEN base ELSE frames[Len(frames)].at

AtOrBefore(p, q) == p.gen < q.gen \/ (p.gen = q.gen /\ p.seq <= q.seq)

Init ==
  /\ head = [gen |-> 0, seq |-> 0]
  /\ open = FALSE
  /\ base = [gen |-> 0, seq |-> 0]
  /\ frames = <<>>

\* The room publishes an event, in its generation or in a new one, or a new
\* generation begins with nothing published.
Advance ==
  /\ head' \in {[gen |-> head.gen, seq |-> head.seq + 1],
                [gen |-> head.gen + 1, seq |-> 1],
                [gen |-> head.gen + 1, seq |-> 0]}
  /\ UNCHANGED <<open, base, frames>>

\* A connection starts from a position the room has reached.
Open ==
  /\ ~open
  /\ open' = TRUE
  /\ AtOrBefore(base', head)
  /\ frames = <<>>
  /\ UNCHANGED <<head, frames>>

\* The next events of the generation the client is in, up to sequence `upto`.
Emit(upto) ==
  /\ open
  /\ upto > Held.seq
  /\ AtOrBefore([gen |-> Held.gen, seq |-> upto], head)
  /\ frames' = frames \o
       [i \in 1 .. upto - Held.seq |->
          [kind |-> "event", at |-> [gen |-> Held.gen, seq |-> Held.seq + i]]]
  /\ UNCHANGED <<head, open, base>>

\* The client is told to refetch; it then knows the checkpoint.
Resync(checkpoint) ==
  /\ open
  /\ AtOrBefore(Held, checkpoint)
  /\ AtOrBefore(checkpoint, head)
  /\ frames' = Append(frames, [kind |-> "resync", at |-> checkpoint])
  /\ UNCHANGED <<head, open, base>>

Shut ==
  /\ open
  /\ open' = FALSE
  /\ base' = [gen |-> 0, seq |-> 0]
  /\ frames' = <<>>
  /\ UNCHANGED head

\* Emit and Resync take their argument from the frames they lead to.
Next ==
  \/ Advance \/ Open \/ Shut
  \/ frames' # <<>> /\ (Emit(frames'[Len(frames')].at.seq)
                          \/ Resync(frames'[Len(frames')].at))

Spec == Init /\ [][Next]_vars
=============================================================================
