----------------------------- MODULE MCLocalMutex -----------------------------
(* Three goroutines, two keys, and a locker for every goroutine and key. *)
EXTENDS LocalMutex
===============================================================================
