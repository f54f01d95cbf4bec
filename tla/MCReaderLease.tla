---------------------------- MODULE MCReaderLease ----------------------------
(* Two request threads over one pooled connection; a lease each, and a spare. *)
EXTENDS ReaderLease
==============================================================================
