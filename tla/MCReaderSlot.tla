---------------------------- MODULE MCReaderSlot ----------------------------
(* ReaderSlot on a small instance.                                         *)
EXTENDS ReaderSlot, TLC

=============================================================================
