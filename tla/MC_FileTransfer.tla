--------------------------- MODULE MC_FileTransfer ---------------------------
(* The strings of the source, and the stream.dat of the repository. *)
EXTENDS FileTransfer

inoue_satoshi == <<105, 110, 111, 117, 101, 32, 115, 97, 116, 111, 115, 104, 105>>
s19c1012 == <<115, 49, 57, 99, 49, 48, 49, 50>>

MC_Old == {<< >>, tutorial!InternalSerialize(Record(8))}
=============================================================================
