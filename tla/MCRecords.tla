-------------------------------- MODULE MCRecords --------------------------------
(* Instances of FileIndexStore and LinkRelation for TLC: the archives' records in *)
(* files, the comics' in the database.  They share no state, so that one run      *)
(* follows the ones or the others, and the files with callers that take turns or  *)
(* with callers that do not.                                                      *)
EXTENDS FileIndexStore, MCLinkRelation

VARIABLE following   \* "links", "turns" or "overlap"

\* Callers that take turns: one call at a time is under way.
OneCall == \A c, d \in Clients : pc[c] # "idle" /\ pc[d] # "idle" => c = d

NoCall == [op  |-> [c \in Clients |-> "get"],
           arg |-> [c \in Clients |-> CHOOSE m \in Metas : TRUE]]

RecordsInit ==
    /\ following \in {"links", "turns", "overlap"} /\ Init /\ LinkInit
    /\ IF following = "links"
       THEN file = None /\ op = NoCall.op /\ arg = NoCall.arg
       ELSE \A c \in CIDs : store[c].tags = {}

RecordsNext ==
    /\ UNCHANGED following
    /\ \/ following = "links" /\ LinkNext /\ UNCHANGED vars
       \/ following # "links" /\ Next /\ UNCHANGED linkVars
          /\ (following = "turns" => OneCall')

RecordsSpec == RecordsInit /\ [][RecordsNext]_<<following, vars, linkVars>>

\* The abstract store of callers that take turns; it rests beside the others.
Turns == following = "turns"

Store == INSTANCE IndexStore WITH
    record <- IF Turns THEN Record ELSE None,
    call   <- IF Turns THEN Call ELSE [c \in Clients |-> "idle"],
    op     <- IF Turns THEN op ELSE NoCall.op,
    arg    <- IF Turns THEN arg ELSE NoCall.arg,
    result <- IF Turns THEN Result ELSE [c \in Clients |-> None]

\* When callers take turns, the files are an index store as the manager expects
\* it: each call takes effect at once or fails without one, stale temporary files
\* never become the record, and only a crash in an Update can lose it.
StoreSpec == Store!Spec
==================================================================================
