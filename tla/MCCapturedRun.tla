--------------------------- MODULE MCCapturedRun ---------------------------
(* Instances of CapturedRun for TLC.                                        *)
EXTENDS CapturedRun

Policy(limit, onOverflow) == [limit |-> limit, onOverflow |-> onOverflow]

Captured(piped, stdout, stderr, deadline, cancellable) ==
  [deadline |-> deadline, cancellable |-> cancellable, piped |-> piped,
   capture |-> [s \in Streams |-> IF s = "stdout" THEN stdout ELSE stderr]]

(* Nothing captured and no deadline.                                        *)
Redirected ==
  {Captured({}, Policy(0, "failClosed"), Policy(0, "failClosed"), FALSE, TRUE)}

(* One captured stream under each policy, and none.                         *)
OneStream == Redirected \cup
  {Captured({"stdout"}, Policy(1, o), Policy(0, "failClosed"), TRUE, TRUE) :
     o \in {"failClosed", "truncate", "unbounded"}}

(* Two streams that fail closed at once: at their first byte.               *)
TwoStreams ==
  {Captured(Streams, Policy(0, "failClosed"), Policy(0, "failClosed"), TRUE, TRUE)}

(* Both, so that every policy and every race is met in one run.             *)
OneOrTwoStreams == OneStream \cup TwoStreams

(* Two streams of which one is noisy and never limited.                     *)
NoisyStream ==
  {Captured(Streams, Policy(0, "truncate"), Policy(1, "failClosed"), d, ~d) :
     d \in BOOLEAN}

(* A stream that is read for ever and of which no byte is kept.             *)
OneNoisyStream ==
  {Captured({"stdout"}, Policy(0, "truncate"), Policy(0, "failClosed"), d, ~d) :
     d \in BOOLEAN}

=============================================================================
