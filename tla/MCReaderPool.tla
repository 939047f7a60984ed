---------------------------- MODULE MCReaderPool ----------------------------
(* Small instances of ReaderPool for TLC. *)
EXTENDS ReaderPool

Sizes == {1, 2}
Two == {2}
=============================================================================
