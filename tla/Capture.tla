------------------------------ MODULE Capture ------------------------------
(***************************************************************************)
(* CaptureStream (supervisor.rs): what the supervisor keeps of one pipe,   *)
(* how a chunk that was read, an end of file or a failure changes it, and  *)
(* the report it becomes.  Bytes are counted, not named: the retained      *)
(* bytes are always a prefix of what was read, so their number says which. *)
(***************************************************************************)
EXTENDS Naturals

CONSTANTS
  ReadChunk,      (* READ_CHUNK: the bytes one read asks for               *)
  ChunksPerTurn,  (* CHUNKS_PER_STREAM_TURN: the reads of one turn         *)
  DiscardMax      (* u64::MAX: where the count of discarded bytes saturates*)

ASSUME CaptureAssumption ==
  /\ ReadChunk \in Nat \ {0}
  /\ ChunksPerTurn \in Nat \ {0}
  /\ DiscardMax \in Nat \ {0}

(* CapturePolicy; the limit of an unbounded policy is never consulted.      *)
CapturePolicies ==
  [limit : Nat, onOverflow : {"failClosed", "truncate", "unbounded"}]

CaptureFailures == {"none", "read", "allocation"}

CaptureStates ==
  [open       : BOOLEAN,           (* pipe is Some                          *)
   kept       : Nat,               (* storage bytes.len()                   *)
   discarded  : 0 .. DiscardMax,
   overflow   : BOOLEAN,           (* overflow is Some(limit)               *)
   failure    : CaptureFailures,   (* "none" for None                       *)
   eof        : BOOLEAN,
   redirected : BOOLEAN]

Least(a, b) == IF a <= b THEN a ELSE b

FreshStream(piped) ==
  [open |-> piped, kept |-> 0, discarded |-> 0, overflow |-> FALSE,
   failure |-> "none", eof |-> FALSE, redirected |-> ~piped]

-----------------------------------------------------------------------------

(* A mutated counter: the addition leaves the width.                        *)
UncheckedAdd(a, b) == a + b

SaturatingAdd(a, b) == Least(a + b, DiscardMax)

(* The bytes of a chunk of n that the policy lets in.                       *)
Room(c, policy, n) ==
  IF policy.onOverflow = "unbounded" THEN n
  ELSE Least(n, IF c.kept <= policy.limit THEN policy.limit - c.kept ELSE 0)

(* failure.get_or_insert: the first failure is the one reported.            *)
FirstFailure(c, failure) == IF c.failure = "none" THEN failure ELSE c.failure

(* A mutated retain: the overflow is noticed at the limit, not beyond it.   *)
RetainEagerLimit(c, policy, n, allocated) ==
  LET room   == Room(c, policy, n)
      stored == IF allocated THEN room ELSE 0
  IN  [c EXCEPT !.kept = @ + stored,
                !.discarded = SaturatingAdd(@, n - stored),
                !.overflow = @ \/ /\ policy.onOverflow = "failClosed"
                                  /\ n >= room,
                !.failure = IF allocated \/ room = 0 THEN @
                            ELSE FirstFailure(c, "allocation"),
                !.open = @ /\ (allocated \/ room = 0)]

(* retain: n bytes were read; storage grows if the allocation succeeds.     *)
Retain(c, policy, n, allocated) ==
  LET room   == Room(c, policy, n)
      stored == IF allocated THEN room ELSE 0
  IN  [c EXCEPT !.kept = @ + stored,
                !.discarded = SaturatingAdd(@, n - stored),
                !.overflow = @ \/ /\ policy.onOverflow = "failClosed"
                                  /\ n > room,
                !.failure = IF allocated \/ room = 0 THEN @
                            ELSE FirstFailure(c, "allocation"),
                !.open = @ /\ (allocated \/ room = 0)]

(* The end of file: the pipe is dropped.                                    *)
ReachEof(c) == [c EXCEPT !.eof = TRUE, !.open = FALSE]

(* The stream is dropped with the supervisor.                               *)
Close(c) == [c EXCEPT !.open = FALSE]

RecordFailure(c) ==
  [c EXCEPT !.failure = FirstFailure(c, "read"), !.open = FALSE]

-----------------------------------------------------------------------------

Failed(c) == c.failure # "none"

(* A mutated terminal: a failed stream is waited for.                       *)
TerminalAtEof(c) == c.redirected \/ c.eof

Terminal(c) == c.redirected \/ c.eof \/ Failed(c)

Completenesses ==
  {"complete", "truncated", "incomplete", "redirected", "unknown"}

Reports == [completeness : Completenesses, kept : Nat,
            discarded : 0 .. DiscardMax, failure : CaptureFailures]

Completeness(c) ==
  IF c.redirected THEN "redirected"
  ELSE IF ~c.eof THEN "incomplete"
  ELSE IF c.discarded = 0 THEN "complete" ELSE "truncated"

(* into_report: a redirected report carries no bytes (it read none).        *)
Report(c) ==
  [completeness |-> Completeness(c), kept |-> c.kept,
   discarded |-> c.discarded, failure |-> c.failure]

UnknownReport ==
  [completeness |-> "unknown", kept |-> 0, discarded |-> 0, failure |-> "none"]

=============================================================================
