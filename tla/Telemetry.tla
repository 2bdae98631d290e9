------------------------------ MODULE Telemetry ------------------------------
(***************************************************************************)
(* telemetry.rs, TelemetryRecorder: records are buffered under a lock; a   *)
(* record that fills the buffer lets go of the lock and then flushes.  A   *)
(* flush holds the lock while it writes.  An error leaves it early: what   *)
(* was written stays in the file, and the buffer as it was.                *)
(***************************************************************************)
EXTENDS Integers, Sequences

CONSTANT MaxBuffer   \* max_buffer_size

ASSUME TelemetryAssumption == MaxBuffer \in Nat \ {0}

VARIABLES
  buffer,   \* the records not yet flushed
  written   \* every line of every file

TelemetryInit == buffer = <<>> /\ written = <<>>

Push(record) == buffer' = Append(buffer, record) /\ UNCHANGED written

Full == Len(buffer) >= MaxBuffer

\* MUTANT of WriteFails: the buffer is taken over before it is written.
WriteFails_Cleared(n) ==
  written' = written \o SubSeq(buffer, 1, n) /\ buffer' = <<>>

\* Only the first n lines got out.
WriteFails(n) == written' = written \o SubSeq(buffer, 1, n) /\ UNCHANGED buffer

WriteAll == written' = written \o buffer /\ buffer' = <<>>

=============================================================================
