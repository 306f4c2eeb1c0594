----------------------------- MODULE MCTimedRun -----------------------------
(* Instances of TimedRun for TLC.                                           *)
EXTENDS TimedRun

Captured(deadline, piped, onOverflow) ==
  [deadline |-> deadline, cancellable |-> ~deadline, piped |-> piped,
   capture |-> [s \in Streams |-> [limit |-> 0, onOverflow |-> onOverflow]]]

(* One noisy stream that truncates or fails closed, with a deadline or with *)
(* cancellation, and a command that has nothing to poll.                    *)
TimedCommands ==
  {Captured(d, {"stdout"}, o) : d \in BOOLEAN, o \in {"truncate", "failClosed"}}
    \cup {Captured(TRUE, {}, "truncate")}

=============================================================================
