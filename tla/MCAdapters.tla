----------------------------- MODULE MCAdapters -----------------------------
(* Instances of Adapters for TLC.                                           *)
EXTENDS Adapters

Captured(deadline, cancellable) ==
  [deadline |-> deadline, cancellable |-> cancellable, piped |-> {"stdout"},
   capture |-> [s \in Streams |-> [limit |-> 0, onOverflow |-> "truncate"]]]

(* A stream that is written to for ever, run with a deadline or awaited,    *)
(* with a deadline or without.                                              *)
Calls == {Captured(TRUE, FALSE), Captured(FALSE, TRUE), Captured(TRUE, TRUE)}

=============================================================================
