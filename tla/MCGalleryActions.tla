---------------------------- MODULE MCGalleryActions ----------------------------
(* Instance of GalleryActions for TLC: two requests can be under way at once, as many as a property tells apart. *)
EXTENDS GalleryActions
=================================================================================
