------------------------------ MODULE MCBackup ------------------------------
(***************************************************************************)
(* A device model for BackupTests whose two blocks, one within the other,  *)
(* are both rebuildable.                                                   *)
(***************************************************************************)
EXTENDS BackupTests, TLC

CONSTANTS root, b1, x, b2, y, nr, nb, nc, stray

MCUp == (b1 :> root @@ x :> b1 @@ b2 :> b1 @@ y :> b2 @@ nr :> root @@ nb :> b1 @@ nc :> b2)
MCListed == <<root, b1, x, b2, y, nr, nb, nc>>
MCNew == (root :> nr @@ b1 :> nb @@ b2 :> nc)
MCRebuildables == {{b1, b2}}
MCConstrained == {x}
=============================================================================
