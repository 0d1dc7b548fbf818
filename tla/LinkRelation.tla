------------------------------ MODULE LinkRelation ------------------------------
(***************************************************************************)
(* Comics linked to a main comic.  Every page of a comic that is linked    *)
(* sends the browser on to the comic its document's redirect_to names.     *)
(* The handlers read documents through a cache, change them and write them *)
(* back, one call of the database after the other, while pages are viewed  *)
(* and other requests are under way.                                       *)
(***************************************************************************)
EXTENDS Naturals, FiniteSets

CONSTANTS CIDs,       \* comics in the database
          LinkTags,   \* their tags
          Unmerged,   \* tags of a language, and "textless": they stay with their comic
          Admins,     \* link and unlink requests that can be under way together
          Views,      \* page views that can be under way together
          Limit,      \* comics that one query of a chain returns at most (100)
          NoComic     \* no redirect, no document

VARIABLES
    store,    \* the documents in the database
    cached,   \* the documents in the cache
    reqs,     \* requests, with what each has read and has to do
    reads,    \* page views that have read a document and have not put it in the cache
    trouble   \* (of the model) what has come between the requests, see Troubles

linkVars == <<store, cached, reqs, reads, trouble>>

Docs == [redirect : CIDs \cup {NoComic}, tags : SUBSET LinkTags]

ASSUME LinkAssumption == NoComic \notin CIDs /\ NoComic \notin Docs /\ Limit \in Nat

Resting == [at |-> "rest", main |-> NoComic, todo |-> {}, sub |-> NoComic,
            info1 |-> NoComic, info2 |-> NoComic, target |-> NoComic,
            chain |-> {}, cid |-> NoComic]

\* The comics a request changes, those it gives another redirect, and those it takes to be
\* where redirects end.
Redirected(q) == ({q.sub, q.cid} \cup q.chain) \ {NoComic}
Changed(q) == ({q.main} \cup Redirected(q)) \ {NoComic}
Ends(q) == ({q.target} \cup IF q.info1 = NoComic THEN {} ELSE {q.info1.redirect}) \ {NoComic}

Disturbs(q, p) == Changed(q) \cap Changed(p) # {} \/ Redirected(q) \cap Ends(p) # {}
Overlap == \E r, o \in Admins : r # o /\ Disturbs(reqs[r], reqs[o])

\* Requests about the same comics at once; a document read from the cache after it was
\* changed; a call of the database that failed, or a stop of the server; a chain longer
\* than the query's limit.
Troubles == {"overlap", "stale", "fault", "limit"}
Note(what, happened) ==
    trouble' = trouble \cup {t \in Troubles : (t = what /\ happened) \/ (t = "overlap" /\ Overlap')}

--------------------------------------------------------------------------------
\* GetComicInfo and UpdateComicInfo.  A request puts what it has found into the cache with
\* the read: that others come between the two is what the page views do.

GetComicInfo(c) == IF cached[c] # NoComic THEN cached[c] ELSE store[c]

Read(c) ==
    /\ cached' = [cached EXCEPT ![c] = GetComicInfo(c)]
    /\ Note("stale", GetComicInfo(c) # store[c])
    /\ UNCHANGED <<store, reads>>

\* $set with the fields that ToMap leaves: an empty one is omitted, and stays as it is.
Set(doc, info) ==
    [redirect |-> IF info.redirect = NoComic THEN doc.redirect ELSE info.redirect,
     tags |-> IF info.tags = {} THEN doc.tags ELSE info.tags]

UpdateComicInfo(c, info) ==
    /\ store' = [store EXCEPT ![c] = Set(@, info)]
    /\ cached' = [cached EXCEPT ![c] = NoComic]
    /\ Note("overlap", FALSE)
    /\ UNCHANGED reads

--------------------------------------------------------------------------------
\* The requests.

Start(r, q) ==
    /\ reqs[r] = Resting /\ reqs' = [reqs EXCEPT ![r] = q]
    /\ Note("overlap", FALSE)
    /\ UNCHANGED <<store, cached, reads>>

Advance(r, at, q) == reqs[r].at = at /\ reqs' = [reqs EXCEPT ![r] = q]

\* Subs are deduplicated, in any order; the main comic is not among them.
LinkComics(r, main, subs) ==
    /\ subs # {} /\ main \notin subs
    /\ Start(r, [Resting EXCEPT !.at = "main", !.main = main, !.todo = subs])

NextSub(q) ==
    [Resting EXCEPT !.at = IF q.todo = {} THEN "reset" ELSE "main", !.main = q.main, !.todo = q.todo]
NextChained(q) ==
    IF q.chain = {} THEN NextSub(q) ELSE [q EXCEPT !.at = "chain", !.info2 = NoComic, !.cid = NoComic]

\* linkSingleComic: getTwoComicInfos, then the tags, the redirect and the chain.
ReadMain(r, sub) ==
    LET q == reqs[r] IN
    /\ sub \in q.todo
    /\ Advance(r, "main", [q EXCEPT !.at = "sub", !.sub = sub, !.todo = @ \ {sub},
                                 !.info1 = GetComicInfo(q.main)])
    /\ Read(q.main)

ReadSub(r) ==
    LET q == reqs[r] IN
    /\ Advance(r, "sub", [q EXCEPT !.at = "tags", !.info2 = GetComicInfo(q.sub)])
    /\ Read(q.sub)

\* As if the main comic took the other's tags for its own.
MergeOther(info1, info2) == [info1 EXCEPT !.tags = info2.tags \ Unmerged]
Merge(info1, info2) == [info1 EXCEPT !.tags = @ \cup (info2.tags \ Unmerged)]

UpdateMain(r) ==
    LET q == reqs[r]
        info == Merge(q.info1, q.info2)
    IN /\ Advance(r, "tags", [q EXCEPT !.at = "redirect", !.info1 = info])
       /\ UpdateComicInfo(q.main, info)

\* Where the main comic redirects, if it does.  TargetMain: as if it never did.
TargetMain(main, info1) == main
Target(main, info1) == IF info1.redirect # NoComic THEN info1.redirect ELSE main

UpdateSub(r) ==
    LET q == reqs[r]
        target == Target(q.main, q.info1)
    IN /\ Advance(r, "redirect", [q EXCEPT !.at = "query", !.target = target])
       /\ UpdateComicInfo(q.sub, [q.info2 EXCEPT !.redirect = target])

\* propagateRedirectChain.
Chained(sub) == {c \in CIDs : store[c].redirect = sub}

QueryChain(r) ==
    LET q == reqs[r] IN
    \E chain \in SUBSET Chained(q.sub) :
        /\ IF chain = Chained(q.sub) THEN Cardinality(chain) <= Limit ELSE Cardinality(chain) = Limit
        /\ Advance(r, "query", NextChained([q EXCEPT !.chain = chain]))
        /\ Note("limit", chain # Chained(q.sub))
        /\ UNCHANGED <<store, cached, reads>>

ReadChained(r, c) ==
    LET q == reqs[r] IN
    /\ c \in q.chain
    /\ Advance(r, "chain", [q EXCEPT !.at = "move", !.cid = c, !.chain = @ \ {c}, !.info2 = GetComicInfo(c)])
    /\ Read(c)

UpdateChained(r) ==
    LET q == reqs[r] IN
    /\ Advance(r, "move", NextChained(q))
    /\ UpdateComicInfo(q.cid, [q.info2 EXCEPT !.redirect = q.target])

UnlinkComics(r, sub) == Start(r, [Resting EXCEPT !.at = "unlink", !.sub = sub])

ReadLinked(r) ==
    LET q == reqs[r] IN
    /\ Advance(r, "unlink", [q EXCEPT !.at = "unset", !.info2 = GetComicInfo(q.sub)])
    /\ Read(q.sub)

UpdateLinked(r) ==
    LET q == reqs[r] IN
    /\ Advance(r, "unset", [q EXCEPT !.at = "reset", !.info2 = NoComic])
    /\ UpdateComicInfo(q.sub, [q.info2 EXCEPT !.redirect = NoComic])

\* cache.Reset, and the answer.
Reset(r) ==
    /\ Advance(r, "reset", Resting)
    /\ cached' = [c \in CIDs |-> NoComic]
    /\ Note("overlap", FALSE)
    /\ UNCHANGED <<store, reads>>

--------------------------------------------------------------------------------
\* What comes between.

\* A call of the database fails: the rest of a sub is given up, of a chain only the comic,
\* and both are logged; an unlink request is answered without the reset.
Failed(q) ==
    CASE q.at = "main" -> {NextSub([q EXCEPT !.todo = @ \ {sub}]) : sub \in q.todo}
      [] q.at \in {"sub", "tags", "redirect", "query"} -> {NextSub(q)}
      [] q.at = "chain" -> {NextChained([q EXCEPT !.chain = @ \ {c}]) : c \in q.chain}
      [] q.at = "move" -> {NextChained(q)}
      [] q.at \in {"unlink", "unset"} -> {Resting}
      [] OTHER -> {}

CallFails(r) ==
    /\ \E q \in Failed(reqs[r]) : reqs' = [reqs EXCEPT ![r] = q]
    /\ Note("fault", TRUE)
    /\ UNCHANGED <<store, cached, reads>>

\* The server stops, and is started again.
Restart ==
    /\ reqs' = [r \in Admins |-> Resting]
    /\ cached' = [c \in CIDs |-> NoComic]
    /\ reads' = [v \in Views |-> Resting]
    /\ Note("fault", \E r \in Admins : reqs[r] # Resting)
    /\ UNCHANGED store

\* A page of a comic that is not in the cache.
ViewReads(v, c) ==
    /\ reads[v] = Resting /\ cached[c] = NoComic
    /\ reads' = [reads EXCEPT ![v] = [Resting EXCEPT !.at = "view", !.cid = c, !.info1 = store[c]]]
    /\ UNCHANGED <<store, cached, reqs, trouble>>

ViewStores(v) ==
    /\ reads[v] # Resting /\ reads' = [reads EXCEPT ![v] = Resting]
    /\ cached' = [cached EXCEPT ![reads[v].cid] = reads[v].info1]
    /\ UNCHANGED <<store, reqs, trouble>>

\* Entries expire, and make room for others.
Evict(c) ==
    /\ cached[c] # NoComic /\ cached' = [cached EXCEPT ![c] = NoComic]
    /\ UNCHANGED <<store, reqs, reads, trouble>>

--------------------------------------------------------------------------------
LinkInit ==
    /\ store \in [CIDs -> [redirect : {NoComic}, tags : SUBSET LinkTags]]
    /\ cached = [c \in CIDs |-> NoComic]
    /\ reqs = [r \in Admins |-> Resting]
    /\ reads = [v \in Views |-> Resting]
    /\ trouble = {}

RequestStep(r) ==
    \/ \E main \in CIDs, subs \in SUBSET CIDs : LinkComics(r, main, subs)
    \/ \E sub \in CIDs : UnlinkComics(r, sub) \/ ReadMain(r, sub) \/ ReadChained(r, sub)
    \/ ReadSub(r) \/ UpdateMain(r) \/ UpdateSub(r) \/ QueryChain(r) \/ UpdateChained(r)
    \/ ReadLinked(r) \/ UpdateLinked(r) \/ Reset(r) \/ CallFails(r)

LinkNext ==
    \/ \E r \in Admins : RequestStep(r)
    \/ \E v \in Views : ViewStores(v) \/ \E c \in CIDs : ViewReads(v, c)
    \/ \E c \in CIDs : Evict(c)
    \/ Restart

LinkSpec == LinkInit /\ [][LinkNext]_linkVars

--------------------------------------------------------------------------------
AtRest == \A r \in Admins : reqs[r] = Resting

\* Where a comic redirects there is a comic to read, or one that redirects to itself.
Flat == \A c \in CIDs : LET t == store[c].redirect IN t # NoComic => store[t].redirect \in {NoComic, t}

\* No chains of redirects are left behind by requests that had the documents for
\* themselves: the sub goes where its main comic goes, and takes those that were linked to
\* it along (linkSingleComic, propagateRedirectChain).
LinksFlat == AtRest /\ trouble = {} => Flat

\* Nor does a comic lose a tag when documents are written back as a whole.
TagsGrow == [][trouble' = {} => \A c \in CIDs : store[c].tags \subseteq store'[c].tags]_linkVars

\* A comic that has been unlinked has its pages back (UnlinkComics).
UnlinkedIsFree ==
    \A r \in Admins :
        trouble = {} /\ reqs[r].at = "reset" /\ reqs[r].sub # NoComic => store[reqs[r].sub].redirect = NoComic
================================================================================
