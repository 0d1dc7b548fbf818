--------------------------- MODULE MCComicDownload ---------------------------
(* A comic of two pages and one of a single page on a pool of two workers. *)
EXTENDS ComicDownload

CONSTANTS b1, b2, g1, g2

MCTasks == {<<b1, g1>>, <<b1, g2>>, <<b2, g1>>}
===============================================================================
