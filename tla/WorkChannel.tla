---------------------------- MODULE WorkChannel ----------------------------
(***************************************************************************)
(* What the scanner relies on when it hands work from the directory walk   *)
(* to its worker pool: a bounded first-in first-out channel that can be    *)
(* shut once.  Nothing is said of mutexes, condition variables or wake-ups; *)
(* module BoundedQueue has those and is shown to implement this one.       *)
(***************************************************************************)
EXTENDS Naturals, Sequences

CONSTANTS Values,    \* what can be sent
          Workers,   \* the receivers
          Bound      \* how many values the channel holds

VARIABLES buffer,    \* the values sent and not yet received, oldest first
          shut,      \* TRUE once no further value is accepted
          ended      \* the workers that were told there is nothing more

channelVars == <<buffer, shut, ended>>

Init ==
    /\ buffer = <<>>
    /\ shut = FALSE
    /\ ended = {}

(* A value is accepted while the channel is open and has room. *)
Put(v) ==
    /\ ~shut
    /\ Len(buffer) < Bound
    /\ buffer' = Append(buffer, v)
    /\ UNCHANGED <<shut, ended>>

(* Some worker receives the oldest value, before or after the shutting. *)
Take ==
    /\ buffer # <<>>
    /\ buffer' = Tail(buffer)
    /\ UNCHANGED <<shut, ended>>

Shut ==
    /\ shut' = TRUE
    /\ UNCHANGED <<buffer, ended>>

(* A worker is released only when the channel is shut and drained. *)
End(w) ==
    /\ shut
    /\ buffer = <<>>
    /\ ended' = ended \cup {w}
    /\ UNCHANGED <<buffer, shut>>

Next ==
    \/ \E v \in Values : Put(v)
    \/ Take
    \/ Shut
    \/ \E w \in Workers : End(w)

Spec == Init /\ [][Next]_channelVars

(* A value in the channel is received in the end, and once the channel is  *)
(* shut and drained every worker is released.                              *)
FairSpec ==
    /\ Spec
    /\ WF_channelVars(Take)
    /\ \A w \in Workers : WF_channelVars(End(w))
=============================================================================
