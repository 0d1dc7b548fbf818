# A formal model of cocom

cocom keeps a library of comics: a server downloads their pages, verifies and
repairs the images, packs each comic into an encrypted archive, replicates the
archives to storage backends and watches over the replicas; its pages, with their
scripts, let users like, archive, edit, tag, link and compare comics. This directory
holds TLA+ modules of the parts in which order matters, in the server and in the browser, the TLC configurations that
check them on small instances, and TLAPS proofs of their main invariants for
instances of any size. `PROJECT.json` lists components, runs, findings, hazards
and theorems, and for every definition the source lines it models.

    tlc -config MCVerifier.cfg MCVerifier      # one run
    tlapm VerifierProofs.tla                   # one module of proofs

## 1. The system

| part | state | operations | talks to |
|---|---|---|---|
| comic verifier, `pkg/comic/verify.go` | tasks and progress in `sync.Map`s, a WaitGroup per task, two goroutine pools, the bounded channel `fixFnCh` | Start, CancelTask, Close, StartSchedule | comic storage (FindChannel, Update), downloader |
| keyed mutex, `pkg/mutex` | a `sync.Map` from keys to counted mutexes | Lock, unlock | handlers and download tasks |
| download pool, `pkg/download` | worker goroutines, the unbuffered channels `reqCh`, `respCh` | DoBatch, Start, Close | the HTTP library grab |
| comic downloads, `cmd/server/internal/comic/download.go` | the counter `downloadSize`, the pages' status | CreateDownloadTask | pool, comic information, keyed mutex |
| archive manager, `pkg/archive/manager` | an index record per archive: checksum, locators, health | Archive, Replicate, Check, ApplyRetention | index store, storage backends |
| storage backends, `pkg/storage` | files below a root; files of a remote drive | Put, Get, Move, Delete | disk, client library |
| index stores, `pkg/archive/manager/*store.go` | records in memory, in files, in mongo | Create, Get, Update, Delete | a storage backend, mongo |
| archive status checker, `scheduler/archive_status_check.go` | one flag, one run's issues | query, replicate, check | manager, mongo |
| cocoma archiver, `pkg/cocomaarchiver` | files in three directories | RunOnce | comic information |
| comic storage, `pkg/comic/storage*` | comics | Find, FindChannel, Update | mongo |
| comic information, tags, cache | documents, tag counts, cached copies | get, update, delete, aggregate | mongo, cache |
| links between comics, `handler/admin.go` | `redirect_to` and tags of the documents | link (with the comics linked to the sub), unlink | comic information, cache |
| archiver, `pkg/archive/archiver.go` | two counting semaphores, temporary directories | Archive, Restore | 7z |
| image batches, `pkg/imaging/batch.go` | a worker pool per call | Process | image files |
| probe, `pkg/comic/probe` | the highest id seen | ProbeComicJob | web pages, the server's API |
| gallery actions, `js/modules/gallery-actions.js` | loading state, class, label and `onclick` of the buttons | like, archive, force, restore, verify | handlers of the comic's document, its cache, verification tasks |
| page manager, `js/modules/page-manager.js` | `state.changes`, marks on thumbnails, `beforeunload` | mark, replace, swap, insert, undo, save | `SavePages` |
| dialogs and tag tools, `modal.js`, `tag-editor.js`, `tag_relation.js`, `tag-aligner.js`, `autocomplete.js` | dialogs in the document, chips, the list of a search | open, close, search, add, drop, save | `UpdateComicTags`, `BatchAddTagToComics`, the tag relations |
| index and admin pages, `quick-link.js`, `admin-compare.js`, `search-autocomplete.js`, `recommend.js`, `related-tags.js`, `tag-actions.js` | comics chosen, comparisons, previews, lists, skeletons | click, compare, link, search, refresh | admin and search handlers |
| thumbnails and messages, `thumbnail-zoom.js`, `toast.js`, `navigation.js` | classes, addresses of images, `localStorage` | switch, zoom, show, close | site script |
| site script, the bundle `scripts.cad159183e0d.js` | `window.gallery`, listeners, timers, locks | route, load comments, fold, update times, load images, alert | the pages' data |

The rest - HTTP handlers and views, configuration, command line tools, logging,
wrappers of the database - calls these parts one at a time and keeps no state
between calls. `PROJECT.json` names each with the reason it has no model.

What is hard, and so worth a model:

* **Verifier**: three kinds of goroutine count themselves in one WaitGroup, pools
  refuse work once they are released, a full queue drops work, and cancellation
  is looked at between steps. Right means: nothing runs on after cleanup, every
  comic is counted once, a stored verdict is true, a task ends, Close returns.
* **Keyed mutex**: the table entry and the mutex are different objects, and the
  entry goes when a counter reaches zero. Right means: one holder per key, exact
  counts, an empty table when nobody is left, every caller gets its lock.
* **Downloads**: batches share both channels of the pool, and the limit is checked
  and counted in two steps. Right means: neither side of a channel is ever stuck,
  no response is lost or doubled, counters return to zero, the limit holds.
* **Index stores**: a save of the file store is six file operations on one temporary
  name. Right means: a call takes effect once or not at all, and a record stays.
* **Archive manager**: operations copy the record, work for minutes, and write the
  copy back, several at a time, with crashes and failing copies. Right means: the
  last good copy is not destroyed, and "healthy" is not said of a bad replica, or else it is known where.
* **Buttons**: `<a>` elements no browser disables, an optimistic change rolled back in three
  places, answers lost or late; documents read through a cache or long before and written back
  whole, deletions among them. Right means: one request per button, a button that comes back, a page that
  agrees with the server when it rests and nobody else wrote, a deletion that stays.
* **Page manager**: marks, changes and the question before leaving are kept beside each
  other by a dozen handlers. Right means: nothing is lost unasked, marks mean changes,
  the server removes the pages that were marked.
* **Dialogs and tag tools**: dialogs that fade out while others open, duplicates found by id, by
  name or not at all, saves of a dialog older than the record, applied to a cached document that may be older still. Right means: the page is free when
  no dialog is open, no tag twice, and a save loses nothing the dialog showed and the server still knew of.
* **Links**: documents read through a cache, changed and written back whole, call by call, while others do the same
  and pages fill the cache. Right means: redirects do not form chains, no tag is lost, an unlinked comic is free.
* **Other pages**: answers in another order than the questions, several views of one choice.

## 2. Modules

| module | models | composed from |
|---|---|---|
| `Verifier` | pkg/comic/verify.go | |
| `LocalMutex` | pkg/mutex/local.go | |
| `Downloader` | pkg/download/downloader.go | |
| `ComicDownload` | internal/comic/download.go | EXTENDS `Downloader` |
| `ArchiveManager` | pkg/archive/manager with two kinds of pkg/storage driver | |
| `IndexStore` | what the manager expects of an index store | |
| `FileIndexStore` | manager/filestore.go with localfs below and the manager's Put and Register above | implements `IndexStore` for callers that take turns |
| `GalleryActions` | gallery-actions.js, loading-manager.js, optimistic-updater.js, the handlers they ask | |
| `PageManager` | page-manager.js, handler/comic_page.go | |
| `Modal` | modal.js | |
| `TagEditor`, `TagRelation`, `TagAligner` | the tag tools and the handlers they ask | EXTEND `Modal` |
| `Suggest` | a search list with its keyboard (autocomplete.js and its callers) | |
| `TagDialogs` | the tools a page opens | EXTENDS the tools and `Suggest` |
| `QuickLink`, `AdminCompare`, `SearchBox`, `Widgets`, `Thumbnails`, `Messages` | the scripts of these names; `Widgets` is recommend.js, related-tags.js, tag-actions.js | |
| `GalleryApp` | what the site script does on these pages | |
| `Browsing` | the parts above, one at a time | EXTENDS them |
| `LinkRelation` | linking and unlinking in handler/admin.go, GetComicInfo and UpdateComicInfo of internal/comic, the cache | |
| `Filtering` | Array.prototype.filter and the server's loops that drop elements, by places | |
| `VerifierProofs`, `ArchiveManagerProofs`, `FileIndexStoreProofs`, `TagDialogsProofs`, `BrowsingProofs` | theorems | EXTEND the module and `TLAPS` |
| `DownloadProofs`, `GalleryPageProofs` | theorems of two modules each | EXTEND `ComicDownload`, `LocalMutex`; `GalleryActions`, `PageManager` |
| `FilteringTheorems` | what `Filtering` returns | EXTENDS `Filtering` |
| `MC...` | constants, symmetry and views for TLC | EXTEND the module |

One action is one step that other goroutines can come between: an operation on a
channel, an atomic variable, a `sync.Map`, a mutex, a file or a replica, or the
start or the end of a closure. `UNCHANGED` names what a step leaves alone. Beside some definitions stands one
whose comment begins "Faulty variant" or "As if": the definition with a plausible
mistake in it. It belongs to no specification; putting it in the other's place
shows that a property can fail.

**Verifier.** A *job* is a task and a comic; `vjob` and `fjob` are the control
points of its verify and its fix closure, `queue` is `fixFnCh`, `hand` what the fix
worker holds, `closing` how far Close has come. `Receive`, `Submit` and
`Drained` are runTask; `SendFix`, `QueueFull` and `SendPanics` are the three
outcomes of the `select` that offers a fix closure. A pool is the set of closures that
occupy its slots; Submit blocks when it is full and fails when it is released.
Which images are broken, and which a repair mends, are free choices. Two tasks that repair one comic download to the same
temporary file `<path>.fix`: `Spoils` says when what one has renamed may be broken by the other, and `OneRepairer` is the
condition under which it is not.

**LocalMutex.** `Load`/`Store` are the two outcomes of `LoadOrStore`, then `Count`,
`Acquire`, `Uncount`, `Delete`, `Unlock`. A locker that nothing refers to may be
allocated again, as the Go heap does.

**Downloader, ComicDownload.** A batch is one call of DoBatch and a task one page.
`Send` and `Deliver` are the rendezvous on `reqCh` and `respCh`: a response goes to
*any* goroutine that waits for one, and `answer` records whose it was. The batch goroutines that
have not looked at `taskCh` are a number, `quota`. ComicDownload adds the counter and
the reading of results; it shares `task` with the pool.

**ArchiveManager.** One archive. A content is a version number, `Bad` or `Missing`;
the record's checksum is the version it was computed from. Each client has its own
copy `meta` of the record and writes it back whole. Backends in `Verifying` behave as
baidupcs (a Put with the wrong checksum is refused, a Get is saved to the path asked
for), the others as localfs (no checksum is reported, the old file is removed before the
new one is renamed). `Crash` stops an operation anywhere, `Fault` corrupts or loses a
copy while no operation is under way. A record is read and written in one step, as the memory and the mongo index
store do; for the file store, which takes several, `FileIndexStore` says when that is justified. `alone` is the client whose operation no other
has overlapped; what others, crashes and faults did before it began is not restricted.

**IndexStore, FileIndexStore.** One record. `IndexStore` lets a call take effect at one moment
between its start and its return, or fail without an effect; a process that dies in a save of a record that
exists may take it along. `FileIndexStore` has one action per storage call: `LookUp` is the Get with which Put and Register
start, `CheckExists`, `PutFails`, `PutRemoves`, `PutWrites`, `DeleteOld` and `Move` are Create and Update, `CheckDelete` and
`Remove` are Delete. The refinement mapping takes the record from the temporary file between
`DeleteOld` and `Move` of an Update, and from `<id>.json` otherwise. It fits callers that take turns, which nothing in
the store enforces: when calls overlap the record can be lost. `MCRecords` follows both kinds of caller (`following`), checks the refinement of
the one and, of the other, the calls that happen to overlap with none (`alone`, `AloneTakesEffect`).

**The browser modules.** A script runs to its end before another event comes, so an action
is a handler: a click, a key, a timer, an answer. A request is sent in one action, served in a
second and answered in a third, and in between the page may be left, loaded again or changed by
anything. Names, texts and addresses are model values or members of small sets; `data-` attributes,
classes and `onclick`s that later steps read are variables.

**GalleryActions.** `Ask` is a click that passes the loading test, `Serve` the handler, `Answer` one of `...Answered`; `Lose` loses the request or
the answer. Of the comic's document the model has the like and the mark of a deletion; whether it is archived is a free choice of the template and the answers.
Handlers read it through the cache (`Got`) and a page is rendered from the cache (`Reload`), which a view fills in two steps (`ViewReads`, `ViewStores`). A
verification task holds the document it read at its start and stores it as a whole (`VerifyReads`, `VerifyStores`); `Written` is `$set` with a map from which
`omitempty` has taken the empty fields. `DeleteStarts` and `DeleteEnds` are DeleteComicByID, which removes the document and then inserts the one with the
mark; a document stored in between is what the database finds from then on. `OtherTab` likes, archives and sets tags, for other tabs and for requests nobody waits for any more. `sure` says that nothing
was lost and that nobody but this page has changed the like since the page was rendered. The page's own requests never take a like back: RemoveLikeTag reads the form of a
DELETE, which Go does not parse.

**PageManager.** Pages are named by their place in the list the page was rendered with. `changes`
is `state.changes`, `greyed` and `framed` are the marks on thumbnails, `guarded` the `beforeunload` listener,
which `updateBeforeUnload` sets from every handler by way of `updateStatus`. `SavePages` does to
`stored` what the Go loop does to the slice. The server reads the document, changes it and writes it without a lock; in `ServeSave` that is one step, as nothing else writes pages here.

**Modal, TagDialogs.** A dialog is open, closing (fading out, still in the document) or gone.
`ShowModal` closes the *first* dialog of the document, as the code does, whatever its state. A page has one tag tool
open at a time, with two dialogs; the third, `Spare`, serves the part that watches only dialogs. `TagEditor` keeps what a dialog shows and sends
as `edits`; `ReadTags`, `WriteTags` and `FailTags` are UpdateComicTags, which takes the comic's lock, reads the document through the cache (`copy`) and writes the whole list with the
ids of new tags (`known` is whether the highest id could be looked up). `OtherTabTags` is another writer, `ViewReads` and `ViewStores` a page view that fills the cache late. `TagRelation` has the groups of the server and the chips of the dialog,
`TagAligner` the batches that go through the comics one lock at a time, each comic read through the cache (`copies`).

**Suggest** is stated once for all search inputs; `SearchBox` says what the index page's differs in.

**Browsing.** The parts of a page share no state, so their product says nothing their union does
not: `visit` chooses the part that moves. `Thumbnails` has the four addresses an image carries (`src`, `data-src`,
`data-thumb-src` and the original) and the lazy loader of the site script. `GalleryApp` follows the router: the gallery is
set up when the page is ready or its fragment changes, if the address ends in a slash as the gallery's route wants it, unless the server's JSON left out `tags` or `pages`, which it
does when they are empty - then the constructor throws and nothing is set up.

**LinkRelation.** A document is where the comic redirects and its tags. A request goes from control point to control point (`at`), one call
of the database after the other: `ReadMain`, `ReadSub`, `UpdateMain`, `UpdateSub`, `QueryChain`, then `ReadChained` and `UpdateChained` for each comic
that was linked to the sub, then the next sub, and `Reset` of the cache. `info1` and `info2` are the documents it holds. `Set` is `$set` with a map from which
`omitempty` has taken the empty fields. A page view (`ViewReads`, `ViewStores`) fills the cache in two steps, so that an update may fall between them; a request
fills it together with its read, as whatever could come between is a view's doing as well, and an update deletes the entry together with the write,
as a reader in between reads what it might have read just before. `CallFails` is each of the error paths, `Evict` the cache's expiry, `Restart` a stop of the
server anywhere. The history variable `trouble` notes what has come between the requests: two at once about comics one of them changes
(`Disturbs` says exactly which), a cached document that was outdated when it was read, a failed call, a chain beyond the query's limit. The properties are about what
happens up to then, and the constraint `Untroubled` ends the exploration there; the violation of `links_unlinked` needs none of it.
The branch with a default storage is set up for tests only and left out.

## 3. Runs

| run | specification | states | shows |
|---|---|---|---|
| `verifier` | `Verifier!FairSpec` | 63 740 | counting, cleanup, lists and verdicts stay right under cancellation and Close; tasks end unless a fix closure was lost |
| `local_mutex` | `LocalMutex!FairMutexSpec` | 75 606 | no stale key, every caller gets the lock |
| `local_mutex_exclusion` | `LocalMutex!MutexSpec` | violation | two holders of one key |
| `comic_download` | `ComicDownload!FairSpec` | 287 711 | channels, responses, counter and marks balance; calls end, workers stop |
| `archive_checks` | `ArchiveManager!Spec` | 2 714 576 | concurrent checks never destroy the last good copy |
| `archive_operations` | `ArchiveManager!Spec` | 833 696 | where alone an operation that no other overlaps loses the last good copy or leaves a wrong mark, with rot, loss and crashes |
| `records` | `FileIndexStore!Spec`, `LinkRelation!LinkSpec` | 1 274 947 | callers that take turns see an `IndexStore`, crashes included; a call that no other overlaps does what it says; redirects of linked comics stay flat and no tag is lost, with requests and page views beside each other |
| `gallery_actions` | `GalleryActions!Spec` | 362 784 | one request per button, the like settles, no outdated document undoes a deletion, buttons come back |
| `pages_delete` | `PageManager!PagesSpec` | violation | deleting a page deletes the next one too |
| `gallery_tools` | `TagDialogs!Spec`, `PageManager!PagesSpec` | 2 793 698 | dialogs hold the page, no tag twice, groups relate tags, a save means what it shows, with a cache that serves old documents; leaving asks, marks mean changes, an insert names the comic its pages are of |
| `browsing` | `Browsing!Spec` | 336 825 | choices, links, previews, images, skeletons, messages, times |
| `links_unlinked` | `LinkRelation!LinkSpec` | violation | an unlinked comic still redirects |

The three violations are findings; `PROJECT.json` quotes the sentence of the repository
each contradicts and the line that causes it. The type invariants of the browser modules are stated in each module; those of
`GalleryActions` and `TagAligner` are proved, the others hold on the instances above, and the proofs take from them what
they need. Every run of `browsing` also evaluates `WithoutSelects`, which compares `Filtering` with the recursive SelectSeq
on all lists of up to four elements.

**Bounds.** `verifier`: one task, because tasks share only the pools and the queue, and two comics
with a queue of one place and a fix pool of one slot, so that the pool, the queue and the
worker's hand can all be full. `local_mutex`: three goroutines - one that deletes, one
that was looking the key up, one that comes later - on two keys, with as many lockers as goroutines.
`comic_download`: three pages in two batches on two workers, so that responses are exchanged within a batch and
between batches; `MaxConns` 0 and 1 are one goroutine per page and fewer goroutines than
pages; the limit of 1 is below the number of calls. `archive_checks`: two clients and three backends, one that
differs from its neighbours, because a Put that mismatches needs a third copy to be worth having;
two Put attempts, a first and a last, instead of three. `archive_operations`: all five operations, two unlike backends, three attempts, two versions, so that archiving again makes another file, and faults of
the file and of replicas; one client, as its properties speak of operations that no other overlaps, and what others might leave behind faults and crashes leave as well (the theorems are about any
clients). `records`: two clients of the index store, as a
client that crashed leaves a temporary file and another one finds it, and two records, to tell the stale from the new; three comics,
so that one is linked to the sub when it is linked to the third, with two tags, two requests and one view. Four comics, of which two requests can each have two to themselves and a
sub can have two linked to it, with a limit of two, were checked apart from it, for `LinksFlat` and without tags (216 485 states). `records` and `gallery_tools` each hold two
specifications that share no state: the initial state says which of them moves. What could count without
bound has a bound in a guard, named among the CONSTANTS; the only state constraint is `Untroubled`, see `LinkRelation`.

`gallery_actions`: two requests, tasks and page views under way together (`MaxBusy`), as a property compares two requests and a lost update needs two writers, and one verification task. `gallery_tools`, the page manager: two pages, one
to swap with the other, two comics to insert from with different pages, so that a late preview
can be told, two unsaved changes, for undo, and one save (`Posts`) at a time; `pages_delete` has three pages, so
that the page after the deleted one exists, and two saves. `gallery_tools`, the tag tools: two dialogs of one tool and three where only
dialogs are watched, as three openings within a fade are what leaves two; two found tags, of which one has a name that
can also be typed; two edits per dialog, as a tag may be removed and added; one save (others write beside it, and the cache is filled beside it), nobody editing while it is under way (`Patient`); the editor open in one dialog at a time (`MaxEditors`); ids to 3; two groups, two calls
and three chips, as a group of two has a chip to spare; two comics, one tag and two overlapping batches. `browsing`: three cards of two comics, so that one has two cards; comparisons of
different lengths; two overlays, as the code can show two; three fetches for two sections; four messages with a limit of two instead
of five; four widths instead of 58; ages at the borders of units and negative; two visits after the first.

**Symmetry and view.** `MCArchiveManager!Symmetry` permutes clients and the backends of
one kind; the specification compares them for equality only, and the run checks an
invariant and an action property, no liveness. `LiveView` drops the local variables of a
client at points from which they are assigned before they are read; states with equal
views have the same copies, the same record and the same successors up to the view,
and the property speaks of the copies and the record only.
`MCLinkRelation!Symmetry` permutes comics, requests and tags, of which the specifications compare members only; `records` checks an invariant and three
safety properties with it, and the index store mentions none of them.

**Fairness.** `Verifier!Fairness`: the goroutines of the task and of Close keep running, a transfer or query
returns, the pools free slots; nobody has to start, cancel or close. `LocalMutex!Fairness`: a goroutine
inside Lock or unlock keeps running, a holder unlocks (all callers in the repository defer it), and
`sync.Mutex` serves a waiter that keeps asking, which its starvation mode guarantees. `ComicDownload!FairSpec`: the program as a whole
takes a step while it can, and a transfer ends (grab gives up on a stalled connection by its context). `TaskFinishes`
excepts tasks with a fix closure that was dropped or stranded by Close, `JobEnds` calls on a closed pool: there the code does hang, see the hazards.

The browser modules are safety specifications, but for `GalleryActions!Spec`, in which the server serves and the browser delivers an
answer or an error event for every request (`Serve`, `Answer`; XMLHttpRequest promises one of the two). No user is fair.
`LinkRelation` is a safety specification as well.

**Deadlock** is checked in the mutex, archive, `records`, `gallery_actions` and `links_unlinked` runs. The other browser runs end where a page has been left
or a bound is used up. In the verifier and download runs the system may stop for good: all
tasks have ended or the pool is closed.

## 4. Proofs

All theorems hold for every value of the constants that satisfies the modules'
`ASSUME`s: any numbers of tasks, comics, goroutines, keys, backends, any pool and queue sizes. Every safety invariant
and every action property that a passing run checks is proved; the refinement `StoreSpec` stays with TLC. The inductive invariants of the state machines were checked by
TLC on the runs' instances before they were proved, and `SavedValidIsGood` also with two tasks that verify one comic (743 378 states). `CancelStopsIntake`,
`HighlightIsOnTheList` and `ShownLikesAreKept` are proved and not among the runs' properties.

* **VerifierProofs.** The inductive invariant `IInv` conjoins the type invariant, the order of the
  control points (`JobsInOrder`: a fix closure exists only behind a verify closure that has
  handed over; `IntakeInOrder`: the comic in runTask's hands is no longer pending and has no closures), the queue (`QueueInOrder`: each
  queued or held closure once), the lists and `WaitGroupCounts`. The WaitGroup is a cardinality; the proof
  writes the active closures as a union of disjoint sets and uses FiniteSetTheorems for adding and removing one
  element. `WaitGroupCounts` alone is not inductive: that a Done meets a counted closure needs the order of the
  control points. From it follow `CleanupCorrect`, `CountedCorrect`, `ListsCorrect` and the action property `CancelCorrect`.
  `VerdictCorrect` (`SavedValidIsGood`) adds `VerdictInv`: as long as its task is not canceled, a fix closure has all broken images on its list, and
  a closure that is about to save "valid" has none left (`Told`); a verdict that is false comes from a task that had started and
  stays canceled. Any number of tasks may verify the same comics and save their verdicts. Two that repair one comic can spoil each other's images (`Spoils`), so the property supposes that at most
one has (`OneRepairer`): then `NothingSpoilt` says that a repair only mends, and `RepairersStay` that a comic two tasks have begun to repair stays excepted.
* **DownloadProofs**, the pool and the downloads. `DownloadInv` keeps the three views of a request together: a batch has
  ended only when no task of it is taken or awaiting (`BatchesInOrder`), a requested task is held by at most one worker
  (`RequestsInOrder`), and its response is either offered or has come with one result (`ResponsesInOrder`). With these, each action
  moves one task and one worker, and the two sides of `WaitersMatch` change together: as many
  workers offer a response as tasks wait for one, though a task gets whichever response comes first. `MarksAreDownloads` counts: when
  nobody waits, `answer` is a bijection from the marked pages to the downloads that arrived. `SizeCountsJobs` and `ResponsesGoOnce` are
  parts of it. Assumes that the limits are integers (`LimitsAssumption`), zero and negative ones included.
* **DownloadProofs**, the keyed mutex. `MutexInv` adds `LockerHasOneKey` to counts and `NoStaleKey`: without it the last user of
  a locker might delete the entry of another key. That mutual exclusion fails and these still hold is the point: what the
  provider gets wrong is the lock, not the bookkeeping.
* **ArchiveManagerProofs.** `TypeCorrect`, and `ChecksKeepCopy`: when checks are the only operations (`CheckOnly`), no
  step that is not a fault makes the last good copy bad. Its invariant `CheckInv` says where a client that is about
  to write may find the file: a client that writes a replica has opened a file that was healthy in its copy of the record (`FileOpened`), all copies of the
  record have the checksum of the record (`SumKept`), and what it overwrites is either not good or not the last (`SafeCopy`).
  `LossesKnown` and `MarksTrue` take all five operations, any clients, versions, backends, faults and crashes, and speak of the operation that no other overlaps (`alone`). `AloneInv` says of it (`Working`) that its copy of the record is of the archive the record
  describes, that it calls no replica healthy unless that is good or the record had been wrong about it already (`Trusted`), that what it has seen of the file and the replica still holds (`SeenRight`),
  and that the backend it writes to is called healthy nowhere while it writes (`Writing`). The exceptions the two properties name are therefore the only ones: a new file before its record, retention on a mark that
  was wrong before, and a replica that ReplicateMore writes from a file nobody has compared. Of operations that overlap, only checks are proved safe; TLC finds the properties violated for others (section 5).
* **FileIndexStoreProofs.** `InvCorrect`: a client whose call no other overlaps finds the files as it left them, whatever overlapping calls and crashes left in them before it began. From it, `AloneCorrect`: such a
  call ends with the effect its result tells, and no temporary file of another becomes the record. No hypothesis says who takes turns. `EffectStep` has one case per action that ends a call.

* **GalleryPageProofs**, the buttons. `TypeCorrect`, `LoadingCorrect` and `DeletionCorrect`, from one inductive invariant: the types and `OneEach` (the
  buttons that are loading are those of the requests under way, one request each; the cardinality in
  `LoadingIsOneRequest` follows). `DeletionCorrect` has a case for each writer of the document and rests on what `$set` does with a document that has no mark (`Written`); that nobody writes `deleted` as false is the point. `LikeCorrect`
  adds `LikeInv`: while the button loads, the page shows what the click hoped for, and the request under way tells by its
  operation and its answer what the document's like is (`Asked`), so that keeping and rolling back both end in agreement, as long as the page is `sure`. Assumes
  only that `None` is no request and no document (`NoneAssumption`).
* **GalleryPageProofs**, the page manager. `GuardCorrect`: the invariant is the property with the types it needs; its cases are the ways a
  handler ends (by `updateStatus`, by a restart of the page, without touching the changes). `MarksCorrect` and `InsertCorrect` share `Marking`, which adds that what
  is ticked in a preview are pages of the comic previewed (`Chosen`); the lemmas `OneMore`, `DeletionsGone` and `OneLess` say which
  marks survive when the list of changes grows, is filtered, or loses its last element.
* **TagDialogsProofs.** `DialogsCorrect` for any tool; `GroupsCorrect`, whose invariant says of the chips in the dialog and of the
  requests under way what the property says of stored groups; the tags offered may share names and ids (`OfferedAssumption` gives only their types). `HighlightCorrect`: the highlighted item is on the list shown, for lists of any items. `AlignerCorrect`: a batch appends a tag
  only where it is missing, and another tab's removal filters; overlapping batches and old documents in the cache change nothing of that, as each list the cache holds is without repetitions too (`CopiesDistinct`).
* **TagDialogsProofs**, the tag editor. `EditorInv` says of an open dialog and of every request that has not been carried out (`Sound`): the tags it was opened with are
  *real* (they have ids), its additions are found or new, no two additions count as the same tag, and
  none counts as one that is kept. `ChipsCorrect` follows. `SavesCorrect` is the action property: a shown tag that is in the record and in the document the server started from stays
  (`NoneShownIsLost`), and when the server started from the document the dialog was opened with and the highest id was known, the new tags get ids no kept tag has (`NumberedTags`) and the comic shows what
  the dialog showed (`ComicShows`). Assumes that the tags the search finds have ids (`EditorAssumption`); several may have one id or one name.
* **BrowsingProofs.** `ImagesCorrect` (its invariant adds that in large mode every image remembers its thumbnail),
  `SkeletonsCorrect`, `LikesCorrect`, `MessagesCorrect`,
  `ChoiceCorrect` and `LinksCorrect` (what is chosen is a list without repetitions that leaves the main comic out, `LinkingInv`), `PreviewCorrect` (`PreviewInv`: a
  comparison that is asked for has two comics, so the preview opens on files there are). Assumes of the data that lists are
  lists and that cards have comics (`CompareAssumption`, `QuickLinkAssumption`, as `AlignerAssumption` for the aligner).
  `LabelCorrect` is about the loop over the units: its invariant `Cut` says of the pass after the i-th unit that what has been told and what is left make up the
  age, that less than the i-th unit is left unless the loop was left before, which happens only behind the first named unit and its
  successor. The loop has seven passes, so `after` is unfolded seven times and no induction is needed. Assumes that ages are integers (`AgesAssumption`).
* **BrowsingProofs**, the links. `RedirectsCorrect` and `TagsKept` from `LinksInv`: while nothing has come between, what every request
  holds is what is stored (`Sound`), so that writing it back changes only what the request means to change; the comic a sub is about to be pointed
  at, or has been, ends the redirects; and a redirect that does not lead to an end is one that some request is about to move (`FlatBut`). Between the sub's update and
  the last of its chain `LinksFlat` is false, which is why the request's `chain` belongs in the invariant; that `UpdateSub` opens no other gap rests on the query that
  follows it. `OthersSound` is the lemma behind every write: with `Disturbs` false, a document written by one request is none that another one holds or takes for
  an end. Assumes that no comic is "none" and that the limit is a number (`LinkAssumption`).
* **FilteringTheorems.** What is left of a list when elements are taken out: exactly the others, none twice that was there once (`WithoutRange`), and a list no longer than it was
  (`WithoutCorrect`). The recursive SelectSeq is beyond the provers; stated by places it is a matter of ranks in a finite set, for which
  FiniteSetTheorems suffice.

Only model-checked: liveness (`TaskFinishes`, `LockIsGranted`, `WorkersStop`, `JobEnds`, `ButtonsComeBack`), which needs fairness and ENABLED.

## 5. What the models show of the code

Besides the three findings, the models contain these behaviours of the code, which their
properties are worded around:

* *Verifier*: Close can wait for ever for the fix worker; a fix closure that the full queue refuses is counted and never done, so that its task stays for ever; a canceled repair can be stored as valid, and two tasks that repair one comic can spoil each
  other's images through the temporary file they share (`SavedValidIsGood` excepts both).
* *Downloads*: concurrent calls exceed `maxDownloadSize`; a page may be marked by another page's response.
* *Archive*, one operation alone: archiving again has put the new file in the place of the old one, whose bytes never come again, before it writes the record, and a crash in between leaves a record that no copy matches;
  retention removes the file on the word of a mark that may have become wrong; ReplicateMore puts a file that has gone bad over a good replica on a backend that does not check it, and marks it healthy after three
  mismatches. `LossesAreKnown` and `MarksStayTrue` name these and say that there are no others.
* *Archive*, operations that overlap: retention beside a replication to the same backend
  can remove the file while the only replica is being rewritten; two saves of the file store at once lose the record.
* *Gallery actions*: a like is never taken back; a lost answer to a like the server stored leaves the button wrong
  until the next load; a verification task that read the document before a like stores it without the like, and a page may be rendered from a document the cache has kept too long (`sure` in `LikeSettles`).
* *Deletion*: a document that a task or a handler stores between the removal of the old one and the insertion of the mark stays beside the marked one and is the one the database finds; when the server stops in
  between, the next such write brings the comic back without a mark. `DeletionStays` is about documents that bear it.
* *Page manager*: only deletions have an effect on the server; replaced, swapped and inserted pages are acknowledged and
  dropped. A save that is answered late drops the changes made since. Undoing the second deletion of a page,
  or leaving and entering the manager, leaves pages pending for deletion that look untouched.
* *Dialogs*: three openings within a fade leave two dialogs on the page.
* *Tag editor*: the request that should show the saved tags names no comic and is refused; a new tag with the name of an
  existing one gets a second id; when the highest id cannot be looked up, a new tag can be dropped (`known` in
  `SaveMeansWhatItShows`). A save that starts from a document the cache kept too long writes its list back: tags that others added since are lost, also shown ones, and tags they removed return (`copy`).
* *Tag relations*: a group made on a tag's page is not listed there; saving twice makes two.
* *Quick link*: leaving one mode for the other leaves marks, numbers and the lit button behind; the switch for a new tab is stored and never
  read.
* *Admin compare*: two overlays can be on the page; a preview takes the current comics with the earlier comparison's files.
* *Links*: linking B to A while A redirects to B makes B redirect to itself, as the check of the request is for the
  comics named only; a page view may put the document it read before an update into the cache after the reset, and a sub is then pointed at a main comic that redirects; requests about the same comics at once lose each other's updates, a failed call or a chain of more than 100 comics leaves
  redirects to comics that redirect (`trouble` in `LinkRelation`).
* *Search lists*: a late answer opens the list again after the input was left; Enter after Escape picks an item of the hidden list.
* *Recommendations*: a late failure replaces what an earlier request brought.
* *Site script*: the gallery's route wants `/g/<id>/`, but the server registers `/g/:cid` (view/init.go:49) and its HTTP framework, as it is
  configured here, redirects the address with the slash to the one without; the model has both forms of address, and with the
  second no gallery is set up. A comic without pages or tags sets up no gallery; the server has neither the comments' nor the inventory's
  address, so "Loading comments..." stays; two quick clicks on the menu's button arm a listener that opens it again.

## 6. Not modelled

`StartSchedule` of the verifier; `Downloader.Wait`, which nobody calls; the manager's copying of one index into another; List of the index stores, which only reads; of the
file store's I/O errors those other than a temporary file that cannot be written; keys, listing and the client library of the storage drivers.

Of the browser: the bundle's reader, editor, favourites, reports, comment forms and polyfills, which find no element on
the server's pages or no route on the server (most of the bundle's 10 497 lines); `skeleton.js`, `showProgressToast` and
`enableAutocompleteKeyboardNav`, which nothing calls; layout, texts and focus. Of the gallery's documents: whether the archive is there, which a deletion also removes, so that a page may go on offering to restore it. Of the links between comics: deleting a comic, and the
other handlers that write documents. Parts without a module are listed in section 1 and, with reasons, in `PROJECT.json`.

## 7. Plan

1. All writers of documents in one module: links, the tag editor's and the page manager's saves, verification tasks and deletion, which now are in four.
2. `CocomaArchiver`: RunOnce over files that are dropped in while it works, with copies across devices and a crash
   between any two steps.
3. `StatusCheck`, above the actions of `ArchiveManager`: limit, de-duplication, one check per archive.
4. Tag counts, by increment and by aggregation; the asynchronous
   restore, which runs after the comic's lock is released.
5. `FindChannel`: paging as a function of limit, skip and the matching comics.
6. Theorems: the type invariants of the browser modules that are only checked.
