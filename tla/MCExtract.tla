------------------------------ MODULE MCExtract ------------------------------
(* Calls of extract_path on a device of a few blocks. *)
EXTENDS ExtractPipeline

Call(bytes, buffer, depth, rawHash, bare) ==
  [bytes |-> bytes, buffer |-> buffer, depth |-> depth, rawHash |-> rawHash,
   bare |-> bare]

\* A range of one, two and many buffers, one longer than the device, with
\* and without the raw hash, one with a bare file name, and the options that
\* are refused.
Calls ==
  {Call(5, 1, 1, TRUE, FALSE), Call(5, 2, 2, TRUE, FALSE),
   Call(2, 2, 1, FALSE, FALSE), Call(6, 2, 1, TRUE, FALSE),
   Call(2, 1, 1, TRUE, TRUE), Call(0, 1, 1, TRUE, FALSE),
   Call(1, 0, 1, TRUE, FALSE), Call(1, 1, 0, TRUE, FALSE)}
=============================================================================
