---- MODULE MCThumbDisplay ----
(* A folder of one video, to which two things may happen, and a folder of  *)
(* one book, to which one may.                                             *)
EXTENDS ThumbDisplay

MCFolders == {{"video"}, {"book"}}
MCMaxEvents == [f \in MCFolders |-> IF f = {"video"} THEN 2 ELSE 1]
====
