----------------------------- MODULE MCTransfer -----------------------------
(* Transfer on files of up to three bytes, copied two bytes at a time: one *)
(* read fills the buffer, the next one does not, and writes come short.    *)
EXTENDS Transfer

MCByte == 0 .. 1
=============================================================================
