----------------------------- MODULE MCGallery -----------------------------
EXTENDS Gallery, TLC

CONSTANTS i1, i2, a1, a2, t1, t2

(* Two images of one picture: the second is a duplicate of the first.      *)
OnePicture == i1 :> "p" @@ i2 :> "p"
OneByte    == "p" :> 1

(* Two albums, and an image in the first.                                  *)
TwoAlbums  == a1 :> "x" @@ a2 :> "y"
FirstIn    == i1 :> a1 @@ i2 :> None
=============================================================================
