-------------------------- MODULE MCReleaseInstall --------------------------
(* Small instances of ReleaseInstall: the second release keeps the manifest *)
(* of the first, the third names a package from a file; with a fourth, the  *)
(* third has a manifest of its own and the fourth the file.                 *)
EXTENDS ReleaseInstall

MCManifest(r) ==
  IF r <= 2 THEN "m1" ELSE IF r = MaxRelease THEN Opaque ELSE "m2"
=============================================================================
