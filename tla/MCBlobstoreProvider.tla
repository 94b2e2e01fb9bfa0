------------------------ MODULE MCBlobstoreProvider ------------------------
(* Model-checking instance of BlobstoreProvider.  The constants are set  *)
(* per run in its .cfg files: the dispatcher runs use two operation kinds *)
(* (the second one is write-container-data), one source, one link         *)
(* configuration, two invocations and one finished stream; the link       *)
(* registry runs use two sources and two configurations.                 *)
EXTENDS BlobstoreProvider, TLC

MCSymmetry == Permutations(Invs) \cup Permutations(Configs)
=============================================================================
