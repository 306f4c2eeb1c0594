---------------------------- MODULE MCManagedRun ----------------------------
(* Instances of ManagedRun for TLC.                                         *)
EXTENDS ManagedRun

Streaming(deadline, piped, filter) ==
  [deadline |-> deadline, piped |-> piped, filter |-> filter]

(* One streamed output, with and without a deadline.                        *)
OneStream == {Streaming(d, {"stdout"}, FALSE) : d \in BOOLEAN}

(* A filter whose output goes elsewhere, run without a deadline.            *)
Filter == {Streaming(FALSE, {}, TRUE)}

(* Both, for the properties that must hold of every way to wait.            *)
StreamOrFilter == OneStream \cup Filter

=============================================================================
