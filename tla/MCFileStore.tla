---------------------------- MODULE MCFileStore ----------------------------
(* FileStore for TLC: files of one kind, and administrators, are            *)
(* interchangeable.                                                        *)
EXTENDS FileStore, TLC

FileStoreSymmetry == Permutations(Junit) \union Permutations(Admins)
=============================================================================
