------------------------------ MODULE Recovery ------------------------------
(***************************************************************************)
(* What the program promises, without pages, records or formats.           *)
(*                                                                         *)
(* A log is a sequence of frames, each holding some pieces of data.  The   *)
(* program goes through it once, front to back, finding data only in the   *)
(* frame it is at.  It then shows what it found, all of it and nothing     *)
(* else; or it fails, and then it has shown nothing.                       *)
(***************************************************************************)
EXTENDS Naturals, Sequences

CONSTANT Logs     \* the logs there can be, sequences of sets of data

VARIABLES
  log,     \* the data of each frame
  pos,     \* the frame the scan is at
  found,   \* the data found so far
  shown,   \* the data shown so far
  status   \* "scanning", "showing", "done" or "failed"

rvars == <<log, pos, found, shown, status>>

RInit ==
  /\ log \in Logs
  /\ pos = 1
  /\ found = {}
  /\ shown = {}
  /\ status = "scanning"

Find ==
  /\ status = "scanning"
  /\ pos \in DOMAIN log
  /\ \E d \in log[pos] : found' = found \cup {d}
  /\ UNCHANGED <<log, pos, shown, status>>

Advance ==
  /\ status = "scanning"
  /\ pos \in DOMAIN log
  /\ pos' = pos + 1
  /\ UNCHANGED <<log, found, shown, status>>

(* A scan may stop early, at the first frame that cannot be read. *)
Publish ==
  /\ status = "scanning"
  /\ status' = "showing"
  /\ UNCHANGED <<log, pos, found, shown>>

Show ==
  /\ status = "showing"
  /\ \E d \in found : shown' = shown \cup {d}
  /\ UNCHANGED <<log, pos, found, status>>

Finish ==
  /\ status = "showing"
  /\ shown = found
  /\ status' = "done"
  /\ UNCHANGED <<log, pos, found, shown>>

Fail ==
  /\ status = "scanning"
  /\ status' = "failed"
  /\ UNCHANGED <<log, pos, found, shown>>

RNext == Find \/ Advance \/ Publish \/ Show \/ Finish \/ Fail

RSpec == RInit /\ [][RNext]_rvars

=============================================================================
