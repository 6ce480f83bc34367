---------------------------- MODULE MCBlobStore ----------------------------
(***************************************************************************)
(* An instance of BlobStore: two uploads of one file, cut at different     *)
(* places, and one of another file that shares a blob with it.             *)
(***************************************************************************)
EXTENDS BlobStore, TLC

CONSTANTS u1, u2, u3, f1, f2, b1, b2, b3

FilesOf == u1 :> f1 @@ u2 :> f1 @@ u3 :> f2
Cuts == u1 :> <<b1, b2>> @@ u2 :> <<b3>> @@ u3 :> <<b1>>
=============================================================================
