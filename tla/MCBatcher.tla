------------------------------ MODULE MCBatcher ------------------------------
(* Three callers and batches of two: a batch that fills up, one that times   *)
(* out, and a row left over behind a full batch when stop() comes.           *)
EXTENDS Batcher
=============================================================================
