---------------------------- MODULE MCBatchProtocol ----------------------------
(* Engine processes one after the other, each driven by a few messages:    *)
(* up to two for the decoding mode, then requests of commands and turns.   *)
EXTENDS BatchProtocol
===============================================================================
