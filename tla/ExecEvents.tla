----------------------------- MODULE ExecEvents -----------------------------
(***************************************************************************)
(* What the API and the execution worker say to each other, from           *)
(* packages/shared/src/exec-events.ts: the lifecycle events the worker     *)
(* publishes on Redis, and the values they carry.                          *)
(*                                                                         *)
(* BullMQ may hand an entry out again after its worker died; `attempt`     *)
(* counts those runs.  It is not in the message, it only keeps the equal   *)
(* messages of two runs apart.                                             *)
(***************************************************************************)
EXTENDS Naturals, Sessions

CONSTANTS
  MaxStalledCount   \* how often BullMQ hands a stalled entry out again

ASSUME StalledAssumption == MaxStalledCount \in Nat

Attempt == 0..MaxStalledCount

(* 0: clean exit, hang-up, or nobody came; 1: the PTY failed; 124: the     *)
(* duration cap; 137: killed by the API.                                   *)
ExitCode == {0, 1, 124, 137}

Started(s, n)      == [type |-> "session-started", sess |-> s, attempt |-> n]
Errored(s, n)      == [type |-> "session-error",   sess |-> s, attempt |-> n]
Exited(s, n, code) == [type |-> "session-exited",  sess |-> s, attempt |-> n,
                       code |-> code]

Event ==
  [type : {"session-started", "session-error"}, sess : Session, attempt : Attempt]
    \cup
  [type : {"session-exited"}, sess : Session, attempt : Attempt, code : ExitCode]

(* The two events that close a session.                                    *)
Ending(e) == e.type # "session-started"

=============================================================================
