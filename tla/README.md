# A TLA+ model of JKSV-BaiduNetdisk

JKSV-BaiduNetdisk is a save manager for the Nintendo Switch (`src/source`,
`src/include`) with a background sysmodule (`src/sysmodule`) that backs up the
save of a game after the game was closed and uploads the backup to Baidu
Netdisk.  This directory holds TLA+ modules of the parts where a mistake costs
a save or a login, TLC configurations that check them, and proofs checked by
TLAPS.  `PROJECT.json` lists components, runs, the source lines of every
definition, findings, hazards and theorems.

## 1. The system

| component | state it keeps | operations | interacts with |
|---|---|---|---|
| background backup queue (`save.cpp`, `atomic_replace`) | per save: archive, `.json`, stored signature, each with `.tmp` and `.bak`, on the SD card | `prepare_title_backups`, `process_pending_backups`, `pending_backups_exist` | called by the main loop; reads the game's save; uploads through the Baidu client |
| background monitor and main loop (`main.cpp`) | running title, pending title, work event, deferred title, run and interrupted markers, boot flag | monitor thread (process events, or polling), main loop, start-up checks | process manager; queue; settings in `baidu.json` |
| retry schedule (`main.cpp`) | last attempt, failed batches | delay, wait, record | wall clock, work event |
| login (`sysmodule/source/baidu.cpp`, `remote.cpp`, `BaiduNetdisk.cpp`) | `baidu.json`, marker `baidu.logged_out`, tokens in memory of both programs | renew, sign in, sign out | token endpoint; the two programs share the card without a lock |
| background upload protocol (`sysmodule/source/baidu.cpp`) | upload id, slices, checksums | precreate, upload slices, create | drive |
| thread pool and tasks (`source/sys`) | job queue, exit flag, task status | push, run, exit | every task; copy jobs push further jobs |
| state manager and states (`StateManager.cpp`, `appstates`) | stack of states, focus | push, update, purge | tasks push states, one of them from a pool thread |
| pop messages (`ui/PopMessageManager.cpp`) | queue, list, two mutexes | push, update | every thread |
| copy and archive pipeline (`fs/io.cpp`, `fs/zip.cpp`, `BufferQueue.hpp`) | bounded queue of buffers, journal bytes | read job, write loop, commit | thread pool |
| backup menu and tasks (`BackupMenuState.cpp`, `tasks/backup.cpp`) | local and remote listing, selection | create, overwrite, restore, delete, upload, patch | remote storage, copy pipeline |
| remote storages (`remote/`) | list of items, current directory, ids | list, create, upload, patch, download, rename, delete | HTTP |
| titles and users (`data/`) | titles, users, a vector of saves per user, cache | load, sort, erase, refresh | file system, configuration; panels point into the vectors |
| configuration (`config/`) | options, favourites, blacklist | load, save, set | everything |
| file mode (`FileModeState.cpp`, `FileOptionState.cpp`, `tasks/fileoptions.cpp`) | two mounts, their listings, update flags | copy, delete, rename, create, commit | opened by titles and extras |
| options of titles and users, import, blacklist | panel, pointer to a save, refresh and close flags | blacklist, delete, reset, create, import | users' vectors, system, title selections |

What is hard in it: the queue consists of several files that change one at a
time while power may be lost; two threads of the sysmodule share title ids and
an auto-clearing event; two programs rewrite one login file without a lock; the
application has two pool threads whose jobs wait for other jobs; and states are
pushed from threads other than the one that owns the stack.

What makes each part correct:

* queue: an archive is never described by another's metadata; a signature (on
  which `SAVE_UNCHANGED` rests) is stored only for what the drive has; the queue
  drains;
* monitor and main loop: a closed game is noticed, held and backed up; the queue
  is not worked on while an application runs; crashes disable the module after
  the second;
* retry: no retry before the announced schedule;
* login: signing out holds and leaves no token; a renewal is not lost;
* upload: success is reported only for a complete, unaltered file; one rejected
  token and two lost slices are survived;
* pool and pipeline: no job waits for ever, the copy equals its source, commits
  come before the journal is full;
* states: a task lives as long as its job, the user always gets the focus back,
  and a dialog that asks for a held button is not confirmed by accident;
* listing: the items shown are the files on the drive after any sequence of
  operations, and nothing is missing from a listing made in pages;
* backup menu: its entries point to live items, a restore has its archive before
  it deletes the save, and the menu comes back whatever fails;
* titles and options: lists, selections and system agree; an option changes the
  save it was opened for;
* file mode: panes show what their directories hold, what is changed in a save is
  committed, and the system is not written to unless that is allowed.

## 2. Modules

| module | models | remarks |
|---|---|---|
| `BackupLedger` | what the queue promises | abstract: offered, received and recorded versions, no files |
| `BackupQueue` | `save.cpp`, `atomic_replace` | one action per file operation, crashes between any two |
| `MCBackupQueue` | instances for TLC | digests |
| `BackupQueueProofs` | theorems about `BackupQueue` | |
| `BackgroundSync` | both threads of `main.cpp`, markers | one action per access of shared state |
| `RetryBackoff`, `MCRetryBackoff` | the retry schedule | seconds, a clock that is set |
| `TokenStore` | the shared login | both programs, sign-in, sign-out, renewal |
| `TokenProofs` | theorems about `TokenStore` | |
| `UploadContract` | what callers of `upload_file` rely on | abstract: old file or whole archive |
| `UploadProtocol` | `upload_file` and what it calls (`sysmodule/source/baidu.cpp`) | one action per request with its answer |
| `BackgroundProofs` | theorems about `BackgroundSync`, `RetryBackoff` and `UploadProtocol` | each by itself; it extends all three, so their names differ (`SyncSpec`, `RetrySpec`, `mainPc`) |
| `ThreadPool` | `source/sys/threadpool.cpp` | queue, mutex, condition variable, exit |
| `CopyPipeline`, `MCCopyPipeline` | `fs/io.cpp`, `fs/zip.cpp`, the threaded download of `curl.cpp` | composed with `ThreadPool`: tasks that wait for jobs |
| `CopyProofs` | theorems about `CopyPipeline` | |
| `RemoteStorage` | `remote/Storage.cpp`, the drive behind it | what the three drives share |
| `BaiduNetdisk`, `GoogleDrive`, `WebDav` | the three storages of JKSV | one action per operation, each request's answer may be lost |
| `RemoteDrives` | composition of the four | whichever drive is connected |
| `DriveProofs` | theorems about `RemoteDrives` | |
| `BackupMenu`, `MCBackupMenu` | `BackupMenuState.cpp`, `tasks/backup.cpp` | the menu against the task on a pool thread |
| `MenuProofs` | theorems about `BackupMenu` | |
| `StateStack` | `StateManager.cpp` and the states that run tasks | the main thread's frames against the jobs of the pool |
| `StackProofs` | theorems about `StateStack` | |
| `FileMode` | `FileModeState.cpp`, `FileOptionState.cpp`, `tasks/fileoptions.cpp` | two panes, commits |
| `SaveLibrary`, `MCSaveLibrary` | users, titles, their options, import, extras | extends `FileMode`, which it opens |
| `LibraryProofs` | theorems about `SaveLibrary` and `FileMode` | |

**`BackupQueue`.** `target`, `tmp` and `bak` give the content of the file in
place, of its `.tmp` and of its `.bak`, for the archive ("zip"), the `.json`
("meta") and the stored signature ("sig") of every save.  A content is the
version of the save it was made from.  A signature has two parts because the
code reads it in two steps: `fill_meta` reads commit id and timestamp before
the save is mounted, `collect_signature` the totals of the files afterwards;
`Digest` says which totals coincide.  `pc` is the program point of the main
thread.  A file replacement (`WriteTemp`, `PutAside`, `Publish`) is shared by
all writers, `job` says what is written and where the code goes on.  Reading a
legacy `.json` rewrites it (`migrate_legacy_remote_path`), in `Compare` as in
`ListEntry`.  `promised` is the newest version reported `BACKUP_QUEUED`.
`g_runningTitleId` is written by the other thread, so each test of it is a free
choice.  A mounted save is not open to its game (`Mounted`).  `UploadArrives`
is the moment the drive has the file, `UploadOk` the moment the client knows,
and between them a crash or a lost answer may come.  The ledger withdraws a set
of saves at once, because a batch that ends, or a crash, drops all the archives
that only the batch still listed; with one save, as in `queue_faults`, that
cannot be seen.

**`BackgroundSync`.** `mpc`, `mon`, `seen`, `misses`, `closing` are the monitor
thread; `mainPc`, `deferred`, `title` the main thread; `running`, `pending`,
`workEvent` what they share.  `running = Unknown` is the constant 1 the code
publishes for an application it cannot resolve.  `app` is the process that
really runs.  Preparing and uploading succeed or fail; `queued` is
`pending_backups_exist()`.  The files `runMarker`, `interruptedMarker`,
`bootFlag` survive `Crash`.

**`RetryBackoff`.** `time` is true time, `offset` what the clock is set by;
`streak` counts the batches the schedule depends on independently of the
code's counter, and `Schedule` is the table of the change log, not the code's
loop (`RetryDelay`).

**`TokenStore`.** `file` is `baidu.json` as it is on the card (`Missing` between
two renames, `Torn` while JKSV rewrites it).  `bg`, `fs` and `ac` are program
points of the background client, of JKSV's storage object and of its task that
signs in or out.  `startup` is the job `remote::initialize` of a launch, which
builds the storage object beside the task: while it runs, `FsTurn` and `AcTurn`
let both go on, and `StorageReset` may miss the object it is building.  The drive
knows one serial per login; `rotates` says whether a renewal replaces the refresh
token.  A file JKSV has open cannot be renamed, and
a rename onto an existing file fails: that is how the Switch's file system
behaves, on which the code relies when it puts the old file aside.

**`UploadProtocol`.** `pc` is where `upload_file` is: `token` (`ensure_token`),
`parent` (`ensure_remote_parent`, then the hashes of the source), `precreate`,
`slice` and `send` (the loop over `requiredParts` and the three tries of a
slice), `done` and `failed` (returned true or false).  A slice is its number; an
altered one is `Garbled`, and the checksum of the answer is equality of
contents.  A request is accepted, rejected for its token (errno -6, which sets
`m_tokenExpires` to 0), or fails in another way, before or after the drive has
acted on it.  The drive (`session`, `known`, `remote`) is external: it may
continue an earlier upload of the path or start afresh, names at least the
slices it lacks or holds altered (and possibly numbers out of range, which the
code drops), and puts together what it holds when `create` comes.  That it does
not check the checksums of `create` is the unfavourable assumption.  `losses`,
`broken` and `rejections` are history variables of a call.  `UploadContract` is
the view of `process_pending_backups`, whose `UploadArrives`, `UploadOk` and
`UploadFails` in `BackupQueue` are its `Arrive` and `Return`.

**`ThreadPool` and `CopyPipeline`.** `at[th]` is where a pool thread is: before
its test, between the test and the wait (`gap`, with the mutex held), waiting,
running `job[th]`, ended, or `lost` in a loop without end.  `step`, `file`,
`written`, `counted` are the locals of the copying function (`i`,
`journalCount`), `size` and `read` those of a reader.  The data of file f are the
chunks `<<f, 1>>`, `<<f, 2>>`, ..., all of one size.  `cursor` is the position in
the file that is open, and a reader reads from there whatever file its job was
pushed for, as in the code, where it holds a pointer to the archive or to a File
on the stack of the task.  Reading through a pointer into a frame that is gone is
undefined: the reader returns or is lost.  `mode` "plain" stands for a copy to
the card, into a directory or an archive.  Only one task runs at a time, because
its state is modal; short jobs (`remote::initialize`, `check_for_update`) run
beside it.  `stray` notes that a function has returned without the job it
pushed.  Read errors and failing writes, which the code does not look at, are
left out.

**`RemoteStorage`, `BaiduNetdisk`, `GoogleDrive`, `WebDav`, `RemoteDrives`.** The
`drive` is a tree of numbered nodes, `list` is `m_list`, read once when JKSV
connects and kept up to date by every operation afterwards.  An item's id is its
number on Google Drive and its path on the other two, so that renaming a
directory there changes the ids of everything below it (`MovedEntry`,
`MovedIds`).  `fsIds` is `m_fsIds`.  A listing (`reading`) goes on page by page;
between two pages the sysmodule writes to Baidu Netdisk (`SysmoduleWrites`).  An
answer may be lost after the drive has acted; `unsure` notes it, and also a MOVE
on WebDav that replaced something, after which the code's list cannot know.
`got` is what the last download asked for and brought.  The slash that WebDav's
`CreatedId` doubles is the segment `Empty`; `Segments` skips it, as a server does.
`PathOf` goes up to the base directory, and what is deleted with a directory
(`Below`) is the least set with its children and theirs.  A listing is sorted by
the server: `Place` counts what comes before a node, and a page (`PageOf`) is the
set of the nodes whose places it covers.  Names are numbers so that they can be
sorted, and there are two of them (`NameAssumption`), which is what the drives at
the beginning (`Drives`) hold.  On Baidu Netdisk an upload over a directory is
refused by the drive, which stores no file there.

**`BackupMenu`.** `items` is the part of `m_list` below the title's directory, a
vector; a pointer into it carries the number of changes it has seen (`age`), so a
stale one can be told.  `data` is the `DataStruct` the menu fills and tasks
share, `killTask` included.  `worker[w]` is a task: its `pc` is its next step, and
`done` is set by `complete()`, which often comes before its last step, so that
the next task may begin beside it.  Any file or network operation may fail, up
to `MaxFaults`.  `AutoBackup` and `PutPathBack` are `auto_backup` inside a restore.

**`StateStack`.** `stack` is the vector of states.  A frame of the main thread is
two steps, the update of the last state (`Frame`, with whatever buttons are down)
and the removal of the states that left (`Purge`).  A push from the pool is two
steps as well (`SignInTakesFocus`, `SignInPushed`), which lets it fall between
those of the main thread; nothing locks the vector.  `ActiveOf` is the purge's
loop over the vector.  Fades count their alpha by
`FindDivisor`, dialogs grow by `Moves`, a `confirm` counts the frames A was held.
`scaling` is the animation speed.  `busy` are the tasks that are not complete,
`working` the jobs that have not returned.  Elsewhere `complete()` is the last use
a job makes of its task, and `TaskCompletes` is both that and the job's return;
the automatic backup of a restore, when it fails, completes the task and returns
to the restore (`BackupFails`), which uses it until it ends (`RestoreReturns`):
`early` are the tasks between the two.

**`FileMode` and `SaveLibrary`.** `tree` gives directories and files of every save,
partition and the SD card, `committed` what of a save survives its unmounting.
`menu` is what the panes list, made earlier, and `update` the flags
(`m_updateSource`, `m_updateDest`) by which a panel has a pane listed again.
`memory` and `count` are the vector `m_userData` with the entries that an erasure
leaves behind its end, since panels hold a pointer (`slot`) into it; `view` is the
title selection.  `screens` are the states over the main menu.  A save has a user,
a title and an index, because a user may have several saves of a title: the user of
the cache saves has one per index (`SaveCreateState.cpp:114-118`,
`User.cpp:163-219`).  `Loadable` are the filters of `load_user_data`: the blacklist,
`ONLY_LIST_MOUNTABLE` (`Unmounted`) and `LIST_ACCOUNT_SYS_SAVES`.  An import takes
an archive of any save through any user's panel (`ImportSaveBackup`), other
accounts' archives being imported for the panel's account; `TestForSave` looks for a
save of the panel's user, `CreateSaveFromMeta` creates one of the archive's type.
`session.journal` says whether the file mode knows the size of the save's journal,
without which it commits nothing.  Two history variables: `late`, A was pressed in a
panel that had already been told to close; `astray`, the users from whose list
something was kept since it was last loaded, because one of several saves of a title
was hidden or an archive of another type imported.  `Sorted` is the list in the
order of the code's comparison, with some order among equal names
(`RankAssumption`); `ErasedAll` is the loop of erasures by pointer.

## 3. Runs

| run | checks | bounds |
|---|---|---|
| `queue_faults` | `MetadataDescribesZip`, `StoredSignatureIsUploaded`, `SkippedSaveIsSafe`, `IInv` (the invariant of the proofs, with the types), `ImplementsLedger` (refinement of `BackupLedger`) | 1 save with or without a v1.0 entry, 3 versions, 2 crashes, 2 failures |
| `queue_live` | `QueuedGetsUploaded`, `QueueDrains` | 2 saves, one with a v1.0 entry, 2 versions, no crash or failing file operation, fairness |
| `sync` | `SleepsOverNoTitle`, `CrashLoopEnds`, `BlockedAcrossSwitch`, `HeldUntilPrepared`, `HeldTitleIsPrepared` | 2 games, 1 other application, both monitor modes, 3 starts, 2 crashes, 1 failure, fairness |
| `retry_schedule` | `RetryNotEarly` | base 5 and 90 minutes, 5 hours, one clock change |
| `token_store` | `SignedOutHolds`, `CleanAfterSignOut`, `ConfigNotMislaid`, `RenewedTokenKept` | 2 logins, 2 renewals each, 1 power loss, 1 failure |
| `upload` | `SurvivesOneRejection`, `SlicesKept`, `CallEnds`, `ImplementsContract` (refinement of `UploadContract`) | archives of 1 to 3 slices of which 2 are allowed, 2 directories, 3 failing or altered requests, 2 revoked tokens, fairness |
| `pipeline` | `CompleteWhenDone`, `JournalFits`, `OnlyEmptyFilesStray`, `TaskEnds`, `PoolStops` | 2 threads, 2 tasks in 4 modes, 2 short jobs, files of 0 to 4 chunks, queues of 2, a journal of 3, 1 failure, an exit at any time, fairness |
| `remote_drives` | `ListedIsOnDrive`, `DownloadFetchesListed`, `ListingMissesNothing` | each of the 3 drives, 4 nodes, 2 names, pages of 1, 1 lost answer, 1 write of the sysmodule |
| `backup_menu` | `MenuPointersGood`, `RemoteRestoreIsSafe`, `ControlReturns` | 2 threads, 1 local and 1 remote backup at first, 6 names, 2 operations, 1 failure, all 8 settings, fairness |
| `app_states` | `TaskOutlivesJob`, `HoldTakesTime`, `ControlComesBack` | 3 tasks, 2 threads, one animation speed, A held for 2 frames, fairness |
| `library` | `PanesFresh`, `ClosingLosesNothing`, `ListsMatchTheSystem`, `OnlyItsOwnSave`, `SystemIsGuarded` | 2 saves of an account, 2 cache saves of one title and a system save, 1 partition, 2 names, paths of 2, 2 changing options, 1 failure |
| `system_guard` | `SystemIsGuarded`, violated | as `library`, with a system save of an account and system saves listed |

One save is enough where saves do not meet: files are separate per save and a
title's saves are visited one after the other; two saves are used where the
batch, the directory scan or the fairness between items could matter.  Three
versions are the least that let a newer save replace a queued one while an older
one is uploaded.  Two crashes let a recovery be interrupted; two failures let an
undo fail.  Two games and a further application give every switch the monitor
tells apart; three starts (`MaxEvents`) let one game be pending, one deferred and
one running; two crashes are what it takes to disable the module.
Two logins are an old and a new one.  Three failing requests are what it takes
to use up the tries of a slice, two revocations what it takes to use up the
attempts; two slices let one be stored while the other fails, and the third
exceeds the limit (`MAX_UPLOAD_SLICES`, 1280 in the code).  A file of four
chunks fills the queue (128 in the code) and the journal; an empty file comes
before another one and last; two tasks let one meet what the other left behind;
two short jobs occupy both threads.  Four nodes are a directory of JKSV, one of a
title and two things in it, or a directory to be renamed with something two
levels below; a page of one entry makes every directory with two entries take
several pages (1000 and 100 in the code).  Two operations of the menu let a task meet what an
earlier one left in `DataStruct` or still does; a third name is taken only by a
new backup and six are never used up.  Three tasks let one run over a loading
one while another is asked for; the three seconds of a held A are two frames,
the least in which a dialog can be held too short.  Paths of two names let a directory
with a file be copied, and a copy be refused for its depth.  Two changing options
are the least for one to undo, or to meet the remains of, another, as hiding a
title and taking it off the blacklist do; two cache saves are the least of which
hiding can miss one.

The run that finds a disagreement with what the documentation says (details and
quotes under "findings" in `PROJECT.json`):

| run | what TLC shows |
|---|---|
| `system_guard` | the file mode edits a system save of an account although writing to system saves is off: whether the save is a system save is decided by the user's save type (`TitleOptionState.cpp:214`) |

Further things seen while modelling.  In the background module:

* A power loss while a queued archive is replaced (`save.cpp:540-546`) leaves it
  without metadata: no longer queued, although main.cpp:309 logs that queued
  files were preserved.
* A crash between `save.cpp:687` and `688` removes an uploaded archive and
  leaves its `.json`, which `list_pending_backups` skips, nothing removes, and
  `pending_backups_exist` counts, so that the loop comes round for a retry for
  ever (with `MaxCrashes = 1` `QueueDrains` is violated).
* A title is forgotten when another application starts before its saves are
  prepared (`main.cpp:550`), or when it is closed while another is pending
  (`main.cpp:127`): `HeldUntilPrepared` speaks of titles in hand only.
* In polling mode `close_monitored_application` wakes the main thread only for
  an application seen by two polls (`main.cpp:147`), though one seen by a single
  poll has blocked the queue all the same; a game closed before it then waits
  for the maintenance timeout.  `SleepsOverNoTitle` is therefore stated for
  process events; in polling mode `NoTitleIsSleptOver` is violated.
* The note of a first interruption is lost when power fails between removing the
  run marker (`main.cpp:305`) and writing the interrupted marker
  (`main.cpp:308`), so that README.MD:248 (two interruptions disable the module)
  holds only without such a crash, which `CrashLoopEnds` allows for.
* A `.bak` left by a crash inside `atomic_replace` is never renamed back,
  `baidu.json` included.
* The result of removing the old `.json` (`save.cpp:540`) is not looked at, the
  only removal whose failure would matter to the safety properties and is not
  modelled: if it failed, the old
  description would lie beside the new archive until the new one is in place, and
  stay there after a crash in between.  `MetadataDescribesZip` and what rests on it
  assume that the removal of a file that is there, and not open, succeeds.

With the login:

* A renewal in flight over a sign-out and a new sign-in writes the old login over
  the new one (`baidu.cpp:445`); it needs an answer of the token endpoint that
  takes that long (the client waits up to 90 seconds).
* JKSV's own `save_tokens` (`BaiduNetdisk.cpp:891`) does not look at the marker
  again after writing, and `remote::initialize` is a pool job beside the menus
  (`JKSV.cpp:94`).  So a sign-out can leave the tokens on the card, against
  README.MD:147: the start-up's save passes its test of the marker
  (`FsMerge`), the user signs out (`CreateMarker`, `OpenToClear`,
  `ClearTokens`), the save opens and writes the file (`FsWrite`), and a
  background client past `load_config`'s test reads the token (`BgRead`).  In
  the same way it overwrites the login of a sign-in completed meanwhile.  The
  run `token_store` contains these schedules.  The history variable `resaved`
  notes them: `CleanAfterSignOut`, `SignedOutHolds` and `RenewedTokenKept` are
  violated without it, and are stated for the time before; that only a save of
  the start-up can bring tokens back after a sign-out is part of
  `SignedOutHolds`.

In the pool, the pipeline and the states:

* For an empty file in an archive the reader job starts late, takes the chunks of
  the next file, and the restore waits for them for ever (`zip.cpp:63`), the save
  being cleared already.  `TaskEnds` excepts it, `OnlyEmptyFilesStray` limits it.
* `threadpool::exit` notifies without the mutex; a thread between its test and
  its wait sleeps on and JKSV does not return (`PoolStops` excepts it).  The same
  holds when a failed download has left its writer behind, and when the system
  closes JKSV during a task whose reader is then not run.
* A fade counts as closable, so that Plus pressed while one lies over a task
  (`JKSV.cpp:134`) leaves JKSV with the task running, against ENUS.json:96;
  `TaskOutlivesJob` speaks of the time before.
* `auto_backup` sets `killTask` so that the backup leaves the restore's task alone
  ("Tell the backup function it shouldn't kill the task.", `backup.cpp:679`), but
  the backup completes it all the same where it fails (`backup.cpp:63`, 76, 87,
  134, 145).  `ProgressState` then closes, frees the task and gives control back
  while the restore goes on writing to the task (`backup.cpp:317` and after, 425
  and after).  The run `app_states` contains this: `TaskOutlivesJob` is violated
  without its exception of the tasks in `early`, and holds of all others.
* The guard against the A that opened a dialog is needed only for held
  confirmations; without holding, A is taken on its next press anyway
  (`ConfirmState.hpp:364`).
* A sign-in state pushed by `remote::initialize` while titles are still loading
  comes to lie under the main menu, which is pushed when loading ends
  (`remote.cpp:147`), and is seen only when that is left.

On the drives and in the backup menu:

* A restore from the card clears the save before the archive is opened
  (`backup.cpp:317`), so that an unreadable one leaves no save;
  `m_saveHasData` keeps its old value when a restore fails (`backup.cpp:329`).
* `dirFailed && fileFailed` in overwriting (`backup.cpp:191`) cannot hold, and a
  failed creation leaves an entry in the menu for a file that is gone until it is
  refreshed.
* When the title's directory cannot be made the menu shows the root's
  directories as backups (`BackupMenuState.cpp:257`); `MenuPointersGood` excepts
  it (`inTitle`).
* After Google Drive's sign-in the drive is not listed (`GoogleDrive.cpp:447`).
  WebDav takes any HTTP answer for success and leaves the paths of what lies in a
  renamed directory as they were.

With titles, options and the file mode:

* A panel that was told to close still takes A while it slides out
  (`TitleOptionState.cpp:79`), and its pointer may by then name another save:
  `OnlyItsOwnSave` and `ListsMatchTheSystem` except such a late option.
* Hiding a title takes only the first of a user's saves of it from the list
  (`erase_save_info_by_id`, `User.cpp:154-159`), so that further cache saves of it
  stay listed; taking it off the blacklist again through one of those erases that
  one too, and a list without them is shown until it is loaded anew.
* An archive is imported through the panel of any user, but the save that is
  created is of the archive's type (`save_data_functions.cpp:49-66`), while only
  the panel's user is loaded again (`saveimport.cpp:150-152`): another user's new
  save is not listed until that user's list is loaded again.  The import may so create an empty
  system save while writing to the system is off (`SystemIsGuarded` speaks of
  contents).  A cache save is looked for in the space its *index* names
  (`saveimport.cpp:115-118`) and may be missed, and what is written is the first
  entry of the title, whatever the archive's index (`saveimport.cpp:35`).
* In the run `library` all of this happens.  `ListsMatchTheSystem` lets the lists
  in `astray` be incomplete or show too much, and is violated without that; that a
  list holds no save that is gone it says of these lists too.
* Without a known journal size (extra data that cannot be read, and a title without
  one: `TitleOptionState.cpp:217-218`) the file mode commits nothing
  (`fileoptions.cpp:47`, 82, 95, `FileOptionState.cpp:335`), so that closing it
  loses what was done.  `ClosingLosesNothing` excepts such a session
  (`uncommitted`), and is violated without that.
* A save that cannot be deleted leaves the task without `complete()`
  (`titleoptions.cpp:189-194`): the application has to be closed from outside
  (`DeleteSaveFails`).
* `delete_all_save_data` erases by pointers that the first erasure has moved
  (`useroptions.cpp:198`); the list is right all the same, because the panel's
  refresh loads it anew.
* Two panes on the same device: only the one that was changed is listed again,
  which `PanesFresh` excepts (pane A not the SD card).  A copied empty directory
  is not committed.
* `TitleOptionState.cpp:184-202` sets the new output path even if the directory
  could not be renamed; the import panel returns before its test for being closed
  and stays on the stack for good once it slid out (`SaveImportState.cpp:28`; in the
  model it is left by `Restart` only); the text selection lacks the test
  for a user without titles that the other selections have.

### Fairness

* `queue_live`: the main thread takes its steps (weak fairness); the main loop
  comes round to a retry (`StartRetry`, strong: titles may be handled in
  between); an upload that is offered again and again is at some time not
  deferred by an application and reaches the drive, and its answer the client
  (strong).  Without the latter nothing in the code makes an upload succeed.
* `sync`: the monitor thread and the main thread run, an application is
  closed at some time, and the close delay, a loop of at most 30 seconds, ends
  (strong, as an application may start during it).
* `upload`: the thread that uploads runs; every request has a time limit in the
  code (120 seconds, 600 for a slice), so each ends.
* `pipeline`: every pool thread runs.  Nothing is assumed of failures, and none
  has to happen.
* `backup_menu`: every pool thread runs; the user may stop at any time.
* `app_states`: the main thread and the pool's threads run, a task ends, and so
  does a state that a pool thread has begun to push (all weak); nothing is
  assumed of the user.

Deadlock is checked in every run but `token_store`, where a power loss may leave
an unreadable login file that nothing but the user repairs, `pipeline` and
`app_states`, which end when JKSV has exited, and `remote_drives` and
`backup_menu`, where the bounds on operations end the run.

## 4. Proofs

TLC checks the instances of section 3; the theorems hold for every value of the
constants that meets the assumptions named in the modules.  None of the
properties is inductive as it stands; the invariants below are.  `IInv` is also an
invariant of the run `queue_faults`; the others are stated in the proof modules.
Each proof has one lemma per action or group of actions.

| module | theorem | states |
|---|---|---|
| `BackupQueueProofs` | `TypeCorrect`, `MetadataFits`, `SignatureIsUploaded`, `SkippedIsSafe`, `Invariance` | `TypeOK`, `MetadataDescribesZip`, `StoredSignatureIsUploaded`, `SkippedSaveIsSafe`, `IInv` |
| | `QueueImplementsLedger` | `ImplementsLedger` |
| `BackgroundProofs` | `TornNever`, `KeptSlices`, `Survives` | `NeverTorn`, `SlicesKept`, `SurvivesOneRejection` |
| | `Implements` | `ImplementsContract` |
| | `NeverSleptOver`, `BlockedWhileSwitching`, `HeldTitles`, `CrashLoops` | `SleepsOverNoTitle`, `BlockedAcrossSwitch`, `HeldUntilPrepared`, `CrashLoopEnds` |
| | `RetriesKeepSchedule` | `RetryNotEarly` |
| `CopyProofs` | `JournalNeverFull`, `CopyComplete`, `ReadersEnd` | `JournalFits`, `CompleteWhenDone`, `OnlyEmptyFilesStray` |
| `TokenProofs` | `ConfigKept`, `SignOutHolds`, `SignOutCleans`, `RenewalsAreKept` | `ConfigNotMislaid`, `SignedOutHolds`, `CleanAfterSignOut`, `RenewedTokenKept` |
| `MenuProofs` | `PointersStayGood`, `RestoresAreSafe` | `MenuPointersGood`, `RemoteRestoreIsSafe` |
| `LibraryProofs` | `PanesStayFresh`, `FilesAreCommitted`, `ListsStayTrue`, `OptionsKeepToTheirSave`, `SystemStaysGuarded` | `PanesFresh`, `ClosingLosesNothing`, `ListsMatchTheSystem`, `OnlyItsOwnSave`, `SystemIsGuarded` |
| `StackProofs` | `TasksOutlive`, `HoldsTakeTime` | `TaskOutlivesJob`, `HoldTakesTime` |
| `DriveProofs` | `ListedIsOnDriveHolds`, `DownloadFetchesListedHolds`, `ListingMissesNothingHolds` | `ListedIsOnDrive`, `DownloadFetchesListed`, `ListingMissesNothing` |

**Queue.**  `IInv` adds what the code knows at each program point: `FilesInv`
(cloud and archive are no newer than the save; metadata and stored signature fit
what they describe), `JobInv` (what a replacement carries, that the metadata is
gone while an archive is replaced, and that what a failed rename puts back still
fits), `PrepareInv` (the signature in hand was taken no later than the archive,
the mounted save does not change) and `BatchInv` (an item read from the queue
still describes its archive: nothing replaces archives while a batch is worked
off).  The reason metadata fits is the order in `prepare_one`: the old `.json` is
removed before the archive is replaced, and no replacement is under way when the
queue is read.  `FilesUntouched` serves the actions that touch no file.

For the refinement, `ArchiveInv` is proved besides: no archive of a save without
files is ever made, put in place or put back, so that what is offered is a
version the ledger may offer.  Then every action is a step of the ledger or a
stutter.
The attempt showed that the ledger had been wrong for more than one save: two
entries whose migration failed stay on offer through the batch alone, and its end
withdraws both in one step, which `Withdraw` of a single save did not allow.

**Upload.**  `UInv` is `TypeOK`, `SlicesKept`, `NeverTorn` and `DoneIsWhole`.
`NeverTorn` rests on `SlicesKept`: what is neither due nor being sent is on the
drive unaltered, because `precreate` names at least the slices that are not, a
slice leaves the list only when its checksum has come back right, and any other
end of a slice ends the attempt, after which `precreate` is asked anew.
`SurvivesOneRejection` follows with `RejectionInv`, which ties the attempt and
the state of the token at each point of the call to the rejections so far.

**Pipeline.**  `CountInv`: nothing is uncommitted between files, and within one
the code's `journalCount` is at least what is, although the two copying functions
count differently after a commit.  `PipeInv`: what has been written and what waits
in the queue are chunks of the file in hand, in order, with gaps only for chunks
another reader took, and what follows the last chunk is nothing (`FlowInv`).  Since
as many chunks are written as the file has, none can be missing.  `JobsInv` says
that jobs are about files that were opened, `FilesInv` that files to come are
untouched, `DownloadInv` that a download arrives in order.  For `ReadersEnd`,
`ReaderInv` says that the file in hand has one reader, which has started once there
is something of the file.  `ArchivesAssumption` says that files have a size.

**Monitor and main loop.**  `SyncInv`: a title is held by one of the two threads
at a time and by the main thread only where it handles it (`HoldInv`); an
application that is published is the one the monitor follows (`FollowInv`); the
event is set, or about to be, whenever a title was noted (`NotedInv`, `WaitInv`).
`MarkerInv` counts the interruptions noted on the card against the crashes.

**Login.**  `StoreInv`: where the file is at each point of the three program
counters (`PlaceInv`).  The first form of it was not inductive: JKSV's storage
object may be writing only while its account task is not, which had to be said.
For the sign-out, `TurnInv` and `OutInv` say what each program may still store
once the marker is there.  `RenewInv` relates every copy of a token, in the file,
in memory and in a write under way, to the serial the drive accepts.
JKSV's start-up runs beside its account task in all of it: `TurnInv` leaves the
storage object busy under a task only while `startup = "run"`, and `UnmarkInv`
has the file in the start-up's hands, or holding what the background client is
about to clear, as cases of their own.  The theorems need no assumption but the
bounds and that a missing and a torn file are neither alike nor contents.

**Backup menu.**  `MenuInv`: a thread whose task is complete changes nothing on
the drive any more (`DoneInv`), the menu shows the drive or a thread that is not
complete is about to refresh it (`ShownInv`), and no pointer is newer than
`m_list`, so that appending or erasing makes all of them stale (`PointerInv`).
`BackupAssumption` says that there are finitely many backups, with versions.

**Titles, options, file mode.**  `FileInv`: a pane the last operation changed is
marked to be listed again and its directory exists with all above it (`PaneInv`);
while the mode is closed a save is what is committed (`ClosedInv`).  `Tables`: a
list's memory holds saves of its user, each once as far as it counts
(`ListsInv`); only the screen on top has a refresh to do (`ScreensInv`); the panel
of a title points at the save it was opened for until an option closes it
(`LinkInv`); every list but the one the panel on top waits to load matches the
system (`MatchInv`).  `SystemStaysGuarded` assumes `~AccountSystemSaves`, that no
account has a system save; where one has, the run `system_guard` is the
counterexample.  `MatchInv` speaks of the users in `astray` too, whose lists still
hold no save that is gone; and a session in which commits can be relied on knows the
size of its journal (`SessionInv`), for `FilesAreCommitted`.  `LibraryAssumption`
tells saves, partitions and the card apart, lets the users of each kind be users,
the saves of a title be all system saves or none (the identifiers differ), and there
be finitely many saves; nothing bounds how many saves of a title a user has.
`RankAssumption` orders the saves of a user, `TreesAssumption`
gives every tree its root, and `NameAssumption` keeps `.` and `..` out of the names.

**States.**  `StackIInv` follows the states at their places in the vector.  A
purge may move a state to the place of one below it that left; that a question
which was answered never comes to lie at the place of another question that was
not follows from `StackInv`: nothing over a question leads to another one, also
not a fade or a loading state that is still under way, nor what the pool pushes
meanwhile (`PushInv`).  Of a question that asks to hold A and whose guard is set, A
is down no longer than it has been shown (`Asked`).  `BusyInv` names the state that
waits for each task that is not complete, which all but those in `early` are that
their job has still to use: a task is handed from a fade to the state it shows, and a
state that runs a task leaves only when it is complete.  `StackIInv` has an
unbounded quantifier over states and was proved without a run of its own.

**Retry schedule.**  `DelayIsScheduled`: the loop of `retry_delay_seconds` computes
the schedule for every number of failed batches, since a base of at least a minute
reaches the cap with the sixth doubling (`ScheduleSteps`).  `RetryInv`: the code's
count of failed batches is the true one up to 32, as long as something is queued,
and the last attempt is noted no earlier than the clock, as it is set now, would
have shown then, but for what it was set ahead.

**Remote drives.**  `DriveInv` is an invariant for each drive with a common part,
`Sound`.  The drive is a tree of three levels at most (`TreeInv`); without that
`PathOf`, a recursion over the parents of a node, would have no value, and with it
the path of a node is that of its directory and its name (`Paths`, `PathsStay`).

* Google Drive (`GoogleInv`): an entry tells what its node is, and directories are
  only where JKSV makes them, in its root, so that deleting takes nothing with it.
* WebDav (`DavInv`): the segments of an entry's path are the name of a title, or
  that and one name more, wherever the doubled slashes are, and for every title
  that is listed there is a directory of its name.
* Baidu Netdisk (`BaiduInv`): no directory has a name twice (`UniqueNames`), so a
  path leads to one node (`OnePath`); an item stands for something as long as
  every answer arrived, and a number in `m_fsIds` is that of the node at its path
  or of one that is gone (`Knows`).  Renaming moves exactly the paths that begin
  with the old one (`PathsMove`), and items and numbers with them (`ItemMoves`).

For the listings, the places of the nodes are the numbers from 0 on
(`PlacesDiffer`), so that a page below its size is the last (`PageSize`), and what
comes before the next page is listed (`ReadByDrive`).  On Baidu Netdisk the
sysmodule adds files meanwhile, which moves the places: there the invariant
(`Found`) speaks of the rank of a name among those of its directory, which only
grows, so a page may repeat what was listed but not skip it.

The attempt found two things.  With two lost answers a file of the list could name
a path at which a directory had come to stand, and the model let an upload
overwrite the directory: `BaiduPatches` now has the drive refuse that.  And the
property could be stated for every item of the list, where it had been stated only
for those a menu can reach.

What loops compute is reached by a detour: the library's induction theorems
cannot be instantiated by the provers here, but the least number for which a
statement fails (`Least`, from the well-founded order of the naturals) can be
taken, and a function defined by recursion is its own run once a run of every
length exists (`RunExists`).  `ActivePicked` (the purge), `SegmentsRun`,
`DelayIsScheduled`, what is known of `PathOf` and the lemmas on `ErasedAll` are
proved so.  `Sorted`, `ActiveOf`, `ErasedAll` and `State` are
therefore written without `SetToSortSeq`, `SelectSeq` and `@@`, which the provers
cannot look into.

Model-checked only: liveness (`QueuedGetsUploaded`, `QueueDrains`,
`HeldTitleIsPrepared`, `CallEnds`, `TaskEnds`, `PoolStops`, `ControlReturns`,
`ControlComesBack`), which needs fairness and ENABLED.

## 5. Not modelled

Archive format and compression, JSON syntax, directory names, logging,
notifications and drawing.  The file system is modelled by the outcomes the code
distinguishes; a failing `unlink` is modelled only where the code looks at it or
where the file's presence matters, but for `save.cpp:540` (section 3).  The save's
directory walk is its digest: that two contents with equal commit id *and* equal totals are taken for the same is
the code's design.  The data race on the vector of states is an interleaving of
whole pushes and updates; what a torn vector would do is undefined.  Slices of
JKSV's own upload are one step, as the sysmodule's protocol is modelled
request by request.  Of the options, backing up or uploading every title,
deleting all backups, extending a save, exporting save information and changing
the output directory are left out: they repeat steps that are modelled or change
one configuration value.  Icons, caches, play statistics, keyboard, strings and
widgets' scrolling have no state the properties could be about.  Components
without a module are listed in `PROJECT.json` with the reason.

## 6. Plan

1. `CopyPipeline`: read errors.  The slices of JKSV's own upload; batch backups
   of a user, on `BackupMenu`.
2. The options that are left out (section 5), on `SaveLibrary`.
