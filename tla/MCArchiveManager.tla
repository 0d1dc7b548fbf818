--------------------------- MODULE MCArchiveManager ---------------------------
(* The archive manager with verifying backends, bd and be, and a localfs, fs.  *)
EXTENDS ArchiveManager, TLC

\* Clients are alike, and so are the verifying backends.
Symmetry == Permutations(Clients) \cup Permutations(Verifying)

\* The local variables of a client count only from where they are assigned to
\* where they are last read: states that differ elsewhere behave alike.
Live(c) ==
    <<pc[c],
      IF pc[c] \in {"idle", "replicas", "verify"} THEN "none" ELSE op[c],
      IF pc[c] \in {"idle", "archive"} THEN index ELSE meta[c],
      IF pc[c] \in {"idle", "local"} THEN {} ELSE todo[c],
      IF pc[c] \in {"mark", "put", "written", "recheck"} THEN backend[c] ELSE None,
      IF pc[c] = "put" THEN tries[c] ELSE 0>>

LiveView == <<local, replica, index, [c \in Clients |-> Live(c)]>>
===============================================================================
