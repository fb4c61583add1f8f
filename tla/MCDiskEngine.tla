---------------------------- MODULE MCDiskEngine ----------------------------
(* Small instances of the disk engine: an empty key and one of a byte, an  *)
(* empty value and one of a byte.                                          *)
EXTENDS DiskEngine

MCKey == {<< >>, <<0>>}

MCValue == {<< >>, <<1>>}

=============================================================================
