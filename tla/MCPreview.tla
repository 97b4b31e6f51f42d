---- MODULE MCPreview ----
(* A video of two scenes, a book of two pages and an animated image of two *)
(* buckets, each alone in the grid: the pointer comes and goes, the file   *)
(* changes once.                                                           *)
EXTENDS Preview

MCDesks == {{"video"}, {"book"}, {"image"}}
====
