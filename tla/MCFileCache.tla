---------------------------- MODULE MCFileCache ----------------------------
(* CFileCache on small files and caches; see the configurations.           *)
EXTENDS FileCache
=============================================================================
