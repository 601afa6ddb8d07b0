# tabber, specified in TLA+

tabber installs custom map tabs for N++. It replaces level files in the game's
folder, patches the URI in the game's library so that its queries go to the
tab's server, swaps the savefile and its Steam Cloud copy, replaces a few of
the game's texts and key bindings, copies palettes in, and keeps a JSON state
file of its own. Nothing of this is transactional and there is no journal: a
call makes a fixed series of changes and takes back what it has done when one
of them fails. These modules say what that is supposed to guarantee, and check
and prove how far it does.

Paths below are the repository's (`src/install.c` stands for
`src/src/install.c` seen from the directory above).

## The system

| part | code | state | operations | correct when |
|---|---|---|---|---|
| install and uninstall | `install.c` | the level files and their `OG` backups; the plan of a running call | `tab_install`, `tab_uninstall`, `install_detect` | a call moves the whole game or nothing; no original level is ever lost |
| library patch | `patch.c` | the URI and the credit inside `npp.dll` | `lib_check`, `lib_write_uri`, `lib_write_credit`, `lib_build_uri` | the library names a tab only while that tab is in place |
| savefile | `save.c` | `nprofile` or `nprofile.gz`; the archives `nprofile_original.zip`, `nprofile_<code>.zip` | `save_plan_build`, `_apply`, `_undo` | no save is overwritten that is not archived; the game finds the one it should |
| Steam Cloud | `cloud.c` | each account's remote copy, in two forms | `cloud_apply` | the copy does not bring the wrong save back |
| texts | `loc.c` | columns of `loc.txt`; `strings` in the state file | `loc_plan_build`, `loc_restore_build`, `_apply`, `_undo` | every replaced text can be put back |
| bindings | `keys.c` | `keys.vars`; `keybindings` in the state file | `keys_bind_build`, `keys_unbind_build`, `keys_plan_apply`, `_undo` | the record is what each setting read before, and an unbind puts just that back |
| palettes | `palettes.c` | folders in the game's `Palettes`; `palettes` in the state file | `palettes_plan_build`, `_apply`, `_undo`, `_commit`, `palettes_remove` | only folders tabber made are removed; at most 256 are in place |
| state file, settings | `config.c`, `gui/main.cpp` | `config.json`; what a window shows | `config_load`, `config_save`, one setter per field; the settings box | a writer changes what it came to change; what it says matches the game, the store and the windows |
| tab store | `tabs.c` | a folder per downloaded tab | `tab_fetch`, `tab_remove`, `tab_is_downloaded` | a download is whole; the record names just those there are |
| digest | `digest.c` | the cached catalogue | `digest_ensure_fresh`, `digest_load` | the newest usable one is read; it is never torn |
| old tool folder | `main.c`, `platform.c` | the three above, beside the binary | `adopt_old_root` | nothing is lost or written over in the move |
| self update | `update.c` | the binary, its `.new` and `.old` | `update_check`, `update_plan_stage`, `_apply`, `_undo`, `update_sweep` | a working binary is always there; no older one takes its place; what was declined is not put up again |
| window and worker | `gui/main.cpp` | a queue of 16 tasks, a ring of 8 news, the digest handed over, the dialog up | `request`, `worker_main`, `take_news`, `take_digest`, `read_work_state`, `draw_row_button`, `draw_dialogs` | each task is done once, in order, and answered; no task loses the digest it reads; the shutdown ends |
| compression | `deflate.c`, `inflate.c` | none | `deflate_raw`, `inflate_raw` | a round trip gives the data back; a stream cut short is refused |
| containers | `zip.c`, `gzip.c` | none | `zip_open`, `zip_read`, `zip_create_stored`, `gz_extract`, `gz_compress` | what is read is what was packed, or nothing |
| server address, network, last played, game folders, platform, log, command line | `server.c`, `net.c`, `usage.c`, `paths.c`, `platform.c`, `log.c`, `main.c` | little or none | | |
| text and checksums | `json.c`, `kv.c`, `md5.c` | none | | what is printed is parsed again |

How they interact: `tab_install` and `tab_uninstall` call every part of the
upper half of the table, in one thread, and read the digest and the tab store.
The window's worker thread calls those two, `tab_fetch`, `tab_remove` and the
update, and hands results back as news; the window itself also writes the state
file. The game and Steam change the savefile and its cloud copy between calls.
What is hard: a write that fails in the middle, an undo that fails in its turn,
a process that ends between two writes, a record that no longer describes the
game, a digest that changed since the install, games older installers left
behind, two writers of the state file, the worker's bounded queues, a binary that
replaces itself while it runs, and formats whose every offset can be wrong.

## The modules

- `Installer.tla` is `tab_install` and `tab_uninstall` with everything they
  call. Each change to the disk is an action of its own and `pc` is the next
  one of the running call, so a failure or the end of the process can fall
  between any two. An action's disjuncts are the write's success and its
  failure; the failure goes to the step of the undo path the code goes to. The
  checks and plan building that come before the first write change nothing and
  are one action (`BeginInstall`, `BeginUninstall`); `task.before` is what the
  plans read then, and what their undos write back.
- `TabSwitch.tla` is the promise of `install.h`: a call switches the whole game
  at one instant, or gives up and changes nothing, and each owner's progress is
  its own.
- `InstallerProps.tla` has the properties, the inductive invariant `FileInv`
  and the refinement mapping to `TabSwitch`.
- `MCInstaller.tla` gives the constants values for TLC.
- `Palettes.tla` is the palettes in detail, `MCPalettes.tla` its constants: the
  plan (`Settled`: names taken, names baked, the three collision modes, palettes
  bundled twice, the room left), the move aside and the copy of each palette,
  the undo over the whole plan, the commit, the record and the removal. The rest
  of the install is one step that fails or not (`RestOfInstall`); `Installer`
  has that in detail and the palettes as a whole. A folder is the user's, ours,
  ours in part, or not there; names stand for their case-folded classes.
- `InstallerProofs.tla` holds the theorems about `Installer`'s types, files and
  library, `SwitchProofs.tla` those about a call as a whole: the refinement, the
  saves, the record, failed calls and crashes.
- `Worker.tla` is the window and its worker: two rings, a lock, two condition
  variables. A step is what one thread does in one hold of the lock or between
  two. The window goes round its frame (`window` says where it is): news, the
  digest, the state of the worker, the timers, and drawing, which hears at most
  one button. A task is reduced to what it can do to `disk`, the tab in the
  game, and what news it can leave; inside it are the calls `Installer` has.
- `TaskLine.tla` is what the README's section on the worker promises: one line
  of tasks, done in order, none in it twice, each answered once, and the one
  begun at the close still finished. `Worker` implements it.
- `MCWorker.tla` gives the constants values, `WorkerProofs.tla` holds the
  theorems about `Worker`.
- `Saves.tla` is the savefile and its Steam copies below `Installer`'s one swap:
  the gzipped form and the plain one, the one that is live, the form written,
  the archive made first, the other form removed, the accounts gone through one
  by one, the undo and its failures, a write cut short, and between calls the
  game (which may be updated to one that reads gzip) and Steam's restore.
  `MCSaves.tla` has its constants.
- `Bindings.tla` is `bind`, `unbind` and what a tab lends and gives back:
  `keys.vars` is a list of lines, written whole before the record is.
  `ExtrasProofs.tla` has the theorems about `Bindings` and `Palettes`.
- `Update.tla` is the self update of a terminal and of a window: the look and
  its stamp, the order of versions, the question or the policy, the download
  beside the binary, the two renames, the check of the new binary, the way back,
  the two sweeps, and what is announced afterwards.
- `Store.tla` is what tabber keeps besides: the cached digest, the downloads,
  what the state file says of them, the commands that go through these, and the
  move of all of them out of the old tool folder.
- `Settings.tla` is the state file under several writers: each loads it whole,
  changes its fields and saves it whole, with the settings box previewed in one
  window and kept or put back. `ToolsProofs.tla` has the theorems about `Saves`,
  `Update`, `Settings` and `Store`.
- `Deflate.tla` is the compressor and the decompressor, bit by bit;
  `Archive.tla` the ZIP and gzip containers, field by field. The file is a
  sequence of units, one per field, so that offsets and lengths are computed and
  can be wrong. `CodesProofs.tla` proves what compressor and decompressor have
  to agree on (numbers as bits, prefix codes, the codes of `HuffBuild`),
  `StreamProofs.tla` goes on from it to tables, blocks and whole streams, and
  `FormatsProofs.tla` has the theorems about archives and gzip streams.
- `MCTools.tla` gives `Bindings`, `Update`, `Store` and `Settings` their
  constants, `MCFormats.tla` the two formats. `MCParts.tla` runs these, `Saves`
  and `Palettes` in one model, of which one part moves at a time: they share no
  variable, so their interleavings would only multiply states.
- `MCSessions.tla` is `Installer` for longer sessions, see below.

A definition may have a near twin just above it (`FileAwayOnce`, `DueEarly`,
`CompareSuffixLater`): a slip the code could have had. No action uses one. They
are there to put in the place of the right one and see a property fail.

### What the variables stand for

Contents are reduced to whose they are. A level file, a text column, the key
bindings, the URI and the credit belong to the game (`Vanilla`) or to a tab; a
level file can also be missing (`NoFile`) or partly written (`Damaged`). A save
is the set of play sessions whose progress it holds, so a lost save is a lost
session. Palettes and bindings are in place or not, as a whole. `Langs` has
English, which older installers overwrote, and one other column.

| variables | code |
|---|---|
| `target`, `backup` | each file of the levels folder and the same name with `OG` |
| `uri`, `credit` | the two patched strings of the library |
| `texts`, `keys`, `palettes` | `loc.txt`, `keys.vars`, the palettes folder |
| `live`, `archive`, `cloud` | the savefile, the zip archives, Steam's copy |
| `installed`, `textrec`, `keyrec`, `palrec` | `config.json`: the tab entries' flags, `strings`, `keybindings`, each entry's `palettes` |
| `listed`, `folder` | the digest's file list of each tab; its download |
| `pc`, `task`, `todo`, `done`, `left` | where a call is; its plans; files left and handled; what an uninstall could not restore |
| `played`, `troubles` | history only: sessions played, troubles met |

In `Worker`:

| variables | code |
|---|---|
| `queue`, `queueHead`, `queueCount`, `news`, `newsHead`, `newsCount` | `g_queue`, `g_news` and their heads and counts |
| `current`, `running`, `blocking`, `stopping` | the `g_` variables of those names |
| `worker`, `left`, `held` | where `worker_main` is (`asleep` and `full` are the two waits), the news it has in hand, the catalogue its task points into |
| `window`, `uiBlocked`, `closing` | where `main` is in its loop, `g_ui_blocked`, whether GLFW was told to close |
| `digest`, `fresh`, `loads` | `g_digest` and `g_fresh`, as their age; how many were loaded |
| `disk`, `installedCode` | the tab in the game; the one `refresh_rows` last found |
| `opening`, `dialog`, `question` | `g_open_popup`, the dialog on screen, what `g_confirm_text` names |

In the other modules the comment beside each variable names what it stands for.
In `Saves` a save is again the set of sessions it holds, and a save torn by a
write cut short is `TornSave` or, with nothing in it, `NoBytes`. In `Update` a
binary is its version, whether it starts and whether it is whole; `world` says
whether a running binary is locked, as on Windows, or whether its path follows a
rename, as on Linux. In `Store` a digest is its promise for each tab and a
download a set of files. In `Settings` a field is its value. In `Archive`,
MD5 and CRC-32 are one checksum, and `inflate_raw` is the one `Deflate` has.

An iconified window is one for which `Frame` is not taken. A request stores the
installed tab only for a replacement, the only task that reads it. The settings,
about and log dialogs ask for no task and are left out, as is whether a tab is
downloaded: a row of a tab that is not installed offers both buttons.

### Troubles

A failure that the code promises to undo (any write of an install, an archive
or save swap that fails) can happen at any time and any number of times. What
it does not put right happens at most once each and only where the instance
allows it, in `Troubles`:

| trouble | what |
|---|---|
| `crash` | the process ends between two steps, or in the middle of a write that is not staged |
| `undo` | a write of an undo path fails; the code looks at none of these results |
| `restore` | an uninstall fails after Steam's copy is swapped: the URI or a level file |
| `cloud`, `record`, `texts`, `bindings`, `palettes` | a failure that is only warned about; `palettes` and `cloud` are also the options that keep them on purpose |
| `digest` | a newer catalogue lists other files for a tab |
| `legacy` | the game starts with an older installer's tab in it: no backups, no records |

`Palettes` uses `undo`, `palettes`, `record` and `crash` in the same sense.

The `once` bound is on the trouble, not on the step: which step it hits is
free, and different troubles combine.

In the other modules a trouble may occur any number of times:

| module | troubles |
|---|---|
| `Saves` | `undo` (a write of the undo), `cloud` (a copy that cannot be replaced or removed), `rest` (a later step of an uninstall), `cut` |
| `Bindings` | `keysWrite`, `keysUndo`, `keysSave` (the record), `keysCrash` |
| `Update` | `net`, `bytes`, `disk`, `swap` (a rename), `back` (the rename back), `stamp` (the state file), `spawn`, `crash`, `clock` (set back or far ahead) |
| `Store` | `net`, `cache`, `shelf` (a download's files), `clear` (the old ones), `record`, `game`, `move`, `cut`, `window` (a window saving before the move) |
| `Settings` | `load`, `save`, `close` |
| `Archive`, `Deflate` | any one unit damaged, the end missing from any point |

## What TLC checks

Every run explores all reachable states of its instance. Deadlock is checked
too: between calls something can always be asked. Only `clouds_lost` leaves it
out, as its calls are counted and end.

| run | instance | shows |
|---|---|---|
| `installer_clean` | two tabs sharing one of two files, one with palettes and bindings; one session per owner; no troubles | `SwitchesWhole`: the calls implement `TabSwitch`, whatever write fails. `ExtrasRecoverable`: every replaced text and binding is recorded from before. `CallReturns`: every call ends. `TypeOK` |
| `installer_sessions` | three tabs in two sessions (`MCSessions`): `a` and `b` ship the same file and meet `record`, `texts`, `bindings`, `palettes`; `c` has two files, two play sessions per owner, and meets `legacy`, `digest`, `record` | `GameWhole`: between calls the levels are one owner's, and only what a warning was given about is off. `ProgressKept`: no session ever played is lost |
| `installer_crash` | one tab with two files, two sessions per owner; `crash`, `restore` | `CrashDestroysNothing`: the end of a process takes no original and no session with it. `LibraryHonest`: the library names a tab only beside all its levels. `Undoable`: the tab it names can always be uninstalled |
| `installer_undo` | one tab with two files, no play; `undo`, `restore`, `crash`, `digest` | `OriginalsStay`: the last copy of an original goes only where an install takes what such a trouble left for the game's own. `FileInv`, the invariant the proof uses, in every reachable state |
| `parts` | one part at a time, of those below | the properties of the next table |
| `uninstall_fails` | one tab; `restore` | violated, see below |
| `crash_reinstall` | one tab; `crash` | violated, see below |
| `texts_stay` | two tabs; `texts` | violated, see below |
| `palettes_hole` | replace only; no troubles | violated, see below |
| `clouds_lost` | two accounts, three sessions, two calls; no troubles | violated, see below |
| `worker` | two tabs, a queue of two, one place for news, one newer catalogue; three habits | `Serves`: the rings and threads implement `TaskLine`. `CatalogueStands`: the catalogue a task reads is the one on screen. `NothingHeardUnder`: no button is heard while a blocking task is in line. `LineMoves`: no wake-up is lost. `ShutsDown`: a window told to close is gone in the end. `WorkerTypeOK` |
| `replace_asked` | the same, no fairness | violated, see below |

The parts of `parts`:

| part | instance | shows |
|---|---|---|
| `Palettes` | four names, one of them baked, a bundle of four with one listed twice, room for two; all modes and troubles | `LimitKept`: an install does not take the game past its limit. `RollbackWhole`: an install that gives up leaves every folder as it found it, except for the hole below. `RecordedKept`: no step touches a palette of the user's that is not on record. `NothingLeft`: an uninstall takes out all that was put in |
| `Saves` | one tab, two accounts, two sessions, two calls; all modes and troubles | `FiledFirst`: the save that was live is what the game finds or lies whole in the call's archive, at every instant. `GameFinds`: after a call the game finds the save it should, in a form it reads, whichever account launches it |
| `Bindings` | two files, three players, two actions; four calls and key changes | `RecordTells`: between calls the record is what each setting read before tabber first wrote it. `UnbindPutsBack`: an unbind puts back just that |
| `Update` | a window on three kinds of system, a terminal on one; four releases; all troubles | `StillStarts`: a tabber that starts is always there. `NeverOlder`: no update goes back. `TurnedDownOnce`, `LooksApart`, `SaidOnce`: a version declined is not put up again, looks keep their interval, an update is announced once |
| `Store` | two tabs, three catalogues, three packs; all commands and troubles | `KeptReadable`: neither the digest nor the record is ever torn. `DownloadsWhole`: a finished download is whole. `RecordHonest`: the record names just the downloads there are. `AdoptLosesNothing`: the move loses and overwrites nothing |
| `Settings` | two windows and a task | `NextWindowAlike`: a window shows what the next one will open on. `OthersStand`: a writer that was not overtaken changes only its own fields |
| `Deflate` | all inputs of up to five bytes over two values, six longer ones, 80 lists of code lengths | `StreamComesBack`: a whole stream gives the input back, one cut short is refused. `ChainsHold`: no match reaches beyond the window |
| `Archive` | archives of one to three members in the forms other programs write, every name of up to four units over a letter, both separators, a dot and a colon, ten gzip streams; one unit damaged, any end gone | `ReadAsPacked`: what is read is whole what something packed held, and what is not damaged is read. `NothingOutside`: no file is unpacked outside the folder |

Bounds. Two files are enough to stop between the first and the last; one more
repeats the loop. Two tabs are enough for one to meet what the other left, and
the code lets only one be in place. `MaxPlay` sessions per owner tell a save
that was kept from one that was replaced by an older copy of itself; two are
used where an archive may be taken for the save. `Room` is below the number of
names, so that the limit is met, with the real 133 being only larger. The one
suffixed name can be taken, which stands for all 98 being taken. Symmetry is
used in `installer_crash` and `installer_undo`, of the two files their one tab
ships; elsewhere tabs and files differ. `installer_undo` has neither play nor
extras: its properties are about level files, and each of its four troubles
hits every write of every call.

`installer_sessions` has `CONSTRAINT OneSession`: a state is explored when it
lies within one of the two sessions. What a constraint leaves out is only a
behaviour that mixes the two, which would be a third instance; every state
reached within a session is examined with all its steps.

In `parts` the counted bounds are calls: `KeysCalls` 4 is a bind, an install
over it, and both taken back in either order; `SwapCalls` 2 is in and out, or one
that failed and its repetition; `StoreCalls` 3 is a download, what spoils it and
what follows; `Presses` 5 is a window opened, a control, its OK and another
writer between them; `UpdateCalls` 2 starts a tabber and has it restarted or a
second release arrive. `KeysAfter` 0 means that no call follows one whose outcome is
unknown, since `RecordTells` promises nothing then. `Late` 2 is as many hours as the longest
interval, and `Intervals` {0, 9} are below and above the clamps. In `Deflate`
the window is four bytes, a match three to five, a code three bits, a block nine
symbols, so that slots of the chains are used again, codes overflow and are
flattened, and several blocks follow one another, on inputs of at most 17
bytes; the offsets and lengths keep the format's layout. `CutUpTo` 5 cuts
only the short ones, at every bit. `MaxBack` 2 stands for the 64 KiB within which
the end record is searched.

`QueueMax` and `NewsMax` are as small as they can be with both rings able to
fill, wrap round and be full at once; the theorems cover the rest. The queue is
longer than the ring of news, as in the code. `Habits` splits what the user, the
timer and a terminal do into three sessions: tabs put in, taken out and
replaced, here and in a terminal; downloads and newer catalogues; looks for a
release and updates. A session keeps to one, since tasks of different habits
meet only in the queue, where they are all alike.

Fairness. `FairSpec` adds `WF_vars(Step)`: a call that is running takes its
next step. It is a straight run of code in one thread with no wait in it, so
that is all `CallReturns` needs; nothing is assumed of the user, the game or
the failures. `Worker`'s `FairSpec` adds fairness of the worker's steps (a task
ends, as every transfer in it times out) and of the loop's after a frame has
begun (the loop holds the lock for a moment and waits for the worker only when
it is over). That a frame begins is not assumed, since an iconified window draws
none: `LineMoves` is claimed for a window that goes on drawing, `ShutsDown` for
any. `TabSwitch` and `TaskLine` are safety specifications.

### Where the code and its documents disagree

- `uninstall_fails`: `install.h` says a failed uninstall has changed nothing.
  When the library or a file cannot be restored, the local save comes back but
  Steam's swapped copy does not, and the game prefers it at its next start.
- `crash_reinstall`: the README says an install may overwrite a leftover backup
  because the file beside it is the game's own. After a process that ended
  while writing a level file, it is half of a tab's file and the backup was the
  only original. No crash is needed: a rollback looks neither at its removal nor
  at its move back (`install.c:165-173`, `414-415`), and when both fail the
  tab's copy, whole or in part, stays under the level's name while the library
  names the game. The checks of the next install take the original's backup for
  a stale one (`284-289`, `342`) and it is overwritten at line 406. A digest
  that drops a file of the tab in place leads there too: the uninstall leaves
  that file. The run finds it with `undo` or with `digest` alone as well, and
  `OriginalsStay` says there is no other way (`Overwritten`), but for the writes
  in place named below.
- `texts_stay`: the README says `strings` always describes the replacements
  that are live. An uninstall that could not put the texts back keeps the
  record; installing the same tab again finds its own texts in place, records
  nothing for them and replaces the record.
- `palettes_hole`: the README says a rollback puts the original back rather than
  leaving a hole. The undo deletes whatever folder has the name of any palette
  of the plan; under `replace`, those the install had not yet moved aside are
  the user's.
- `replace_asked`: the comment at `ACT_REPLACE` says which tab is taken out was
  settled when the question was asked. It is settled when it is answered: a tab
  put in from a terminal in between, once the table has been read again, is
  taken out in the place of the one the question named.
- `clouds_lost`: `cloud.h` says the savefile the copies mirror is archived by
  `save.c`. Only the live one is, which is that of the account that played
  last; the copies of the others are overwritten all the same, and what those
  accounts had reached was in no other place.

Limits worth knowing, with no run of their own:

- An uninstall that ends between the save swap and the library is done again,
  and archives the game's save over the one with the tab's progress:
  `ProgressKept` fails under `crash`. The crash itself loses nothing, which is
  what `CrashDestroysNothing` says (`ProgressKept => ProgressKept'`). In the
  same way an uninstall that fails past its swap of Steam's copy, and is then
  done again, archives the wrong save over the right one (`restore`).
- An install whose state file was not written leaves no record of its palettes.
  Its uninstall goes by the digest's list, as for an install older than the
  record, and deletes palettes of the user's that the install had skipped:
  `RecordedKept` holds only where there is a record.
- An uninstall with `--keep-palettes` leaves the record; an install of the same
  tab then skips the palettes it finds and records none, so nothing takes them
  out any more.
- After an uninstall that restored the library but could not write its record,
  the state file flags a tab the library does not name, and both calls refuse.
- An uninstall writes in place a file that has no backup. After an undo of the
  library that failed, or with a digest that lists other files, that file can be
  the game's own, and an uninstall that fails there, or is cut short, leaves it
  damaged with no other copy. So `OriginalsStay` is claimed only of histories
  without `undo` and `digest`, or without `crash` and `restore`. `Undoable` does
  not hold once an undo has failed at all: the library may name a tab whose
  files are not there.
- A comment in `worker_main` says it waits for room only on a window that is on
  its way out. An iconified window takes no news either, so with more than eight
  tasks queued the worker stops until the window is restored.
- A question about an update is lost when the result of another task is put up
  in the same frame or over it.
- The program's README says nothing asks for work that blocks; installing,
  uninstalling and replacing do (`gui/main.cpp` lines 1371, 2057 and 3069).
- On macOS the path of a running binary does not follow a rename. A window's
  second sweep, two seconds into its life (`gui/main.cpp:3666`), can fall
  between the renames of an update its worker makes and then deletes the old
  binary, the way back, and the new one (`update.c:331`: "Both are leftovers by
  definition"). The same happens after an undo that failed, or when a second
  update in one process begins over the only good binary. `StillStarts` excepts
  these (`harmed`).
- A failed `plat_write_file` leaves a partial `.new` although `update.h:186-187`
  says nothing was written; the next sweep takes it away. A failed undo of
  `update_plan` is not looked at.
- A fetch that fails while it clears the old directory, or is cut short, leaves
  a partial one which `tab_is_downloaded` takes for a download, though
  `tabs.h:59` says a failed fetch leaves no partial installation. `DownloadsWhole`
  and `RecordHonest` except such tabs (`unfinished`, `doubt`).
- Only a terminal's start adopts the old root. A window that saves first makes
  the old record skipped. Where a rename fails, as between volumes, the move
  copies; a copy that fails leaves a torn `config.json` at the new place, never
  replaced. An entry that can be neither renamed nor read stays where it is;
  that case is not an action of `Store`.
- The temporary name of the digest is shared by two processes, and that of the
  state file is a pointer, unique in one process only, though `config.c:77` says
  more. Overlapping load and save lose the other writer's change (`stale` in
  `Settings`).
- A window whose state file cannot be read shows the logfile on, and writes none.
- `keys.vars` is written before the bindings are recorded; the program's README
  (lines 1222-1225) has them recorded first. A record that cannot be saved leaves bindings
  nothing will put back (`unsure`).
- The live save is read when a call is planned; progress the game saves while
  the call runs is not in the archive. An undo in place that fails or is cut
  short leaves a torn save, which the next call files away over the good archive.
- `nprofile` beside a live `nprofile.gz` is removed without being archived.

## What is proved

Every theorem holds for every value of the constants that satisfies the named
assumptions of the module it is about: sets of tabs, files, palettes, accounts,
windows and releases are arbitrary, troubles are any of those the module has,
special values are distinct from the others (`NoneAssumption`,
`SavesAssumption`: `Nil` is no save), rings have at least one place, the names
of tabs and archives differ, the binary a behaviour begins with starts
(`UpdateAssumption`), the names of palettes are finitely many
(`NamesAssumption`), a match is at least two bytes long and the window has at
least one (`FormatAssumption`). The two assumptions about the codes hold of the
constants of RFC 1951 that both files have: the alphabets fit the fields they
are announced in (`AlphabetAssumption`: 29 codes for lengths and 30 for
distances, where the counts have five bits, and not more symbols than codes of
fifteen bits), no bits stand for two symbols of the fixed code, and every length
up to 258 and every distance within the window has a code
(`CodesAssumption`). What other programs are taken to write into an archive is
`WrittenAssumption`, said below. What a theorem asks for beyond that is in its statement,
and named below.

### The calls: `InstallerProofs`, `SwitchProofs`

| hypothesis | says |
|---|---|
| `Steady` | no `digest`, no `legacy` |
| `Firm` | no undo fails |
| `Gentle` | `Firm`, and no process ends |
| `Restorable` | not both `legacy` and `restore` |
| `Followed` | `Gentle`; Steam's copy can be written and no uninstall fails past its swap |

| theorem | property | under |
|---|---|---|
| `TypeCorrect` | `TypeOK` | |
| `OriginalsAreKept`, `FilesAreAsPlanned` | `OriginalsStay`, `FileInv` | |
| `UnbrokenGamesKeepAll` | `OriginalsKept`, until a trouble of `Unbroken` is met | |
| `LibraryIsHonest` | `LibraryHonest` | `Steady` |
| `NamedTabsComeOut`, `CrashesDestroyNothing` | `Undoable`, `CrashDestroysNothing` | `Steady`, `Firm` |
| `GameIsWhole` | `GameWhole` | `Gentle`, `Restorable` |
| `ProgressIsKept` | `ProgressKept` | `Followed` |
| `FailedCallsChangeNothing` | `FailedCallChangesNothing` | `Followed`, no `digest` |
| `ExtrasAreRecoverable` | `ExtrasRecoverable` | `Gentle`, no `record`, no `texts` |
| `SwitchIsWhole` | `SwitchesWhole` | no troubles; single writes may fail |

Single writes fail under every one of these hypotheses. Most of what they leave
out does break the property, as a run or a limit above shows; where neither
does, nothing is claimed. The runs of `Installer` are chosen so that each
property is checked with troubles its theorem allows, and some with others too.

That a rename keeps the original depends on the library and on which files the
call has handled, so neither property is inductive by itself. `FileInv` says
what each step may count on, in two parts. `BackupsStand` holds whatever
troubles are met: a backup that is no original stands beside no original, the
files an install has handled are the tab's, and those an uninstall has handled
are what it found in their backups, so each can be put back where it came from.
`FilesKept` is more, and lasts until a crash, a failed undo or a changed list
(`Unbroken`). Between calls a file the tab in place does not ship is the game's
own, and one it ships has its original in the backup. In an install the files
already handled are the tab's with their original beside them, and all others
are untouched except the one being written. In an uninstall the files handled
are the game's and the others are as the call found them. It also ties the URI
to the step, because the next call decides by the URI what the files are. The
proof takes `TypeInv` (`TypeOK`, and that a call's tab is a tab and its files
are of the right kind) as given and goes by cases: steps that touch no file, URI
or plan (`QuietStep`), steps that only move an install or an uninstall on
(`InstallMove`, `UninstallMove`), and the steps that handle a file, one lemma
each. `BackupsStand` has a lemma of its own, `StandNext`, with fewer cases.
`UnbrokenGamesKeepAll` follows from `FilesKept`; for `OriginalsStay`, which says
what single steps do in any state the troubles leave, `StayNext` adds to
`BackupsStand` what `LibInv` knows of the library.

A crash leaves files that `FilesKept` does not allow: those of an install that
never got as far as the library. `LibInv` says less of the files and so survives
one. Between calls it speaks only of the tab the library names, whose files
are all in place with their backups (`IdleLib`); of an install it says that the
files handled are the tab's and, from the redirect on, that they are all of them
(`InstallLib`); of an uninstall, that before the library is pointed back no file
has been handled (`UninstallLib`). The backups are in it because an undo renames
them: without one the next install could not put a file back. `CrashInv` adds
where the saves are (`SavesMoved`) and what the record flags (`Flags`).

The theorems of `SwitchProofs` rest on one idea: within a call the disk is a
function of what the call found, of the step it is at and of the files it has
handled. `Phases` says what each step has behind it, `GameFiles`, `SavesMoved`
and `ExtrasMoved` what that makes of the levels, the saves and the extras; each
is proved one action at a time and holds on the undo paths as well, where the
same functions run backwards. So a call that gives up ends with what it found,
one that goes through with what it planned. What the record has to do with what
one sees is only claimed where calls end (`OnRecord`, `FilesHold`, `SaveInv`),
since in between it is often not so. For the refinement, `Init` maps to
`Switch!Init`, and each step to a step of `TabSwitch` or a stutter; the instant
of the switch is that of the library, on which the mapping of all the rest hangs.

### The worker: `WorkerProofs`

`WorkerTypes`, `CatalogueAlwaysStands` and `NothingIsHeardUnder` prove
`WorkerTypeOK`, `CatalogueStands` and `NothingHeardUnder`, and `WorkerServes`
the refinement `Serves`, all of `Worker!Spec` with no further hypothesis.

`WorkerInv` strengthens them. `QueueHolds` and `NewsHolds` say that the places
counted hold tasks and news. `OneBlocks` says that `blocking` counts the tasks
in line that block and that there is at most one: it is why a frame that read
`blocking = 0` still finds it so when it draws. `WindowHolds` has that, and that
a window about to swap the digest has seen a lull which nothing ends: a task can
only be taken when one is queued, and only the window queues. `Added` and
`Taken` say what a ring holds after something is put at its end or taken from
its head; they rest on arithmetic about places modulo its size. For `Serves`,
`LineHolds` ties the line the mapping reads off the ring to the worker's own
task, and each step appends to that line, takes its head or leaves it alone.

### The savefile: `ToolsProofs`

`GameAlwaysFinds` and `LiveIsFiledFirst` prove `GameFinds` and `FiledFirst` for
any number of accounts, tabs, sessions and calls, with every trouble.

`GameFinds` says what holds once a call is over, so it is not inductive.
`SavesInv` adds what the running call may count on: `FormsHold`, that a form is
only on disk where the game reads it; `PlanHolds`, what a plan says of the save
that was live and of the form it writes; `StepHolds`, what each step finds done
by the ones before (nothing has changed before the archive, the archive holds
the old save after it, the new save is in place from then on); `SweepHolds`, that
the accounts gone through without a warning have the new save. There is a lemma
for each action. `LiveIsFiledFirst` is an action property and follows from the
invariant of the state the step starts in.

### The update: `ToolsProofs`

- `AlwaysStillStarts` (`StillStarts`). The property says nothing of which of the
  two binaries starts between the renames. `StartsInv` adds `WayBack`: while an
  update is between its renames the old binary starts, unless a sweep took it;
  and `Busy`: an update is under way only where the thread waits for it, so that
  no other look begins.
- `TurnedDownIsRemembered` (`TurnedDownOnce`) and `LooksAreApart` (`LooksApart`)
  share `LooksInv`: the hour of the last look is on file, or in the copy of a
  terminal that has looked (`Stamped`); only a release on offer that was not
  turned down is asked about, unless it was asked for (`Asking`); and the
  version turned down last is the one on file and in the copy held, unless that
  is about to save another (`Remembered`).
- `UpdatesNeverGoBack` (`NeverOlder`) asks that versions compare by some rank
  (`Meant`; two that differ only in the text of their suffixes have the same),
  and that no release lists a build of a later version than its own
  (`NoneLater`).
- `UpdatesAreSaidOnce` (`SaidOnce`) asks besides that a build for windows says
  what it is (`Honest`): what is announced is what was recorded, and the new
  window looks for its own version there.

### Settings and store: `ToolsProofs`

- `OthersAlwaysStand` (`OthersStand`). `CopiesInv` says that a copy nobody has
  overtaken differs from the file in the fields its writer came to change and in
  no other; it needs every other writer that saves to mark the copies out as
  stale.
- `TheNextWindowIsAlike` (`NextWindowAlike`). `AlikeInv` says of every field
  that what is shown, what is on its way to the file and what an edit will put
  back all say what the file says.
- `TheMoveLosesNothing` (`AdoptLosesNothing`), with no hypothesis. `AdoptInv` says
  what a running command may be at (`Shape`) and what a move has still before it
  (`Moving`).
- `WhatIsKeptIsReadable` (`KeptReadable`) asks that what lies beside the binary
  can be read (`Readable`), which nothing in the code checks.
- `WhatIsDownloadedIsWhole` (`DownloadsWhole`) asks that each catalogue promises
  something of each tab it lists (`Promised`).
- `TheRecordIsHonest` (`RecordHonest`) asks that the record beside the binary
  tells the downloads there (`Consistent`). `ClaimInv` says who is right while a
  command is between its directory and its record.

`Plain` and `PlainAbsent` say that the special values are not functions, which
TLC's model values are not.

### Bindings and palettes: `ExtrasProofs`

- `TheRecordTells` (`RecordTells`) and `UnbindsPutBack` (`UnbindPutsBack`), under
  `Plain` as above. `KeysInv` says of a running call that its plan was made
  from the file and the record as they still are, and what its record will be
  (`PlanHolds`), and from the write on what of that is done (`DoneHolds`).
- `TheLimitIsKept`, `RollbacksAreWhole`, `TheirsAreKept` and `NothingIsLeft`
  (`LimitKept`, `RollbackWhole`, `RecordedKept`, `NothingLeft`). `PalettesInv`
  says of an install that every folder outside the plan is as found and each one
  in it where its step has it (`InstallHolds`), the same of a removal
  (`RemoveHolds`), and what is left between calls (`IdleHolds`).

`Settled` goes along a bundle with a recursive function over its positions. That
such a function exists and what it gives is an induction, and the library's
induction theorems cannot be used (they take an operator). `Least` does
without: a set of numbers that is not empty has a least one, since finite sets
are well-founded under inclusion. `OneMore` and `AllSettled` build the
function; `SettledIs`, `SettleOne` and `PlanSettled` say what the plan is.

### Compression: `CodesProofs`, `StreamProofs`

`StreamAlwaysComesBack` proves `StreamComesBack`: for inputs, windows, alphabets
and limits of any size, a stream that arrives whole is read back as just the
input, one whose end is missing is refused, and a list of code lengths comes back
as it was sent. It holds whichever matches were found and whichever form each
block was given, so that a faster search or another way to choose the form
cannot break it. It rests on theorems no run states, each about an operator of
the model:

- `BitsComeBack`: a number that fits its bits is read as it was written.
- `CodesComeBack`: if no more codes are given out than there are
  (`LeftOver` is not negative), the walk of `Decode` along the bits of a
  canonical code ends at its symbol and no earlier, wherever in the stream the
  code lies; if not all of its bits have arrived it ends in none.
- `HuffmanCodeIsComplete`, `HuffmanCodeFits`, `TablesAreComplete`: the lengths
  that `HuffBuild` gives leave no code over; flattening the counts comes to an
  end with a code of the length allowed; and what `TableOf` adds for the
  decompressor's sake keeps all of this. So `inf_build` never refuses a table of
  `build_table`. The argument is about leaves: a merge of the two rarest nodes
  puts the leaves below them one deeper, and they fill every place below the new
  node as they did below the two.
- `LengthsComeBack`: the run-length form of a table, with its own code, is read
  back as the lengths that were sent, or refused when its end is missing.
- `ChainsAlwaysHold` (`ChainsHold`). `ChainsInv` says that the chains only lead to
  positions already passed, so that a match found along them lies within the
  window and its bytes are there (`Found`, `Repeats`).
- `TheBlockIsSpelled` and `SymbolsComeBack`: the symbols of a block stand for just
  the bytes passed, and the decompressor makes of each symbol the bytes it
  stands for, matches that overlap themselves included.

`StreamComesBack` says what holds at the end, so it is far from inductive.
`StreamInv` says it phase by phase. While blocks are written (`Gathering`), the
bits so far are a chain of blocks, each of which can be read (`Open`): there is
a set of blocks, with where each begins in the bits and in the data, its tables,
its symbols and where each symbol's code ends. When the last is written
(`Sealed`) they are the whole of the data (`Whole`). From then on the bits that
arrive are a prefix of such a stream; the decompressor is at the head of one of
its blocks (`AtHeader`) or after so many of its symbols (`InBlock`), with just
the data up to there. There is a lemma for each step of either side, and for the
decompressor one case for bits that are there and one for bits that are not.

`Upward` (counting up) and `Recursion` (a function exists that says how each
value follows from the one before) take the place of the library's induction
theorems, both from well-foundedness. For their sake `Deflate` has recursive
functions where an operator that calls itself would do.

### Archives: `FormatsProofs`

- `NothingGoesOutside` (`NothingOutside`): a walk along a name that
  `zip_name_is_safe` passes never leaves the folder (`SafeNamesStay`), and the
  names an archive is read to have are pieces of it, whatever it was damaged to.
- `WhatIsWholeIsRead` (`ReadAsPacked`, of what is not damaged): an archive of
  any members, stored or deflated, with their sizes and offsets in the header or
  in a ZIP64 field, with extra fields and comments of any length, is opened, the
  save in it found and each member read in full. So is a gzip stream, with a name
  and extra fields or without. It is refused only for a member that is encrypted,
  a name that leads outside, or for want of a save.

The second is an argument about where things lie. `ZipIsLaid` says that each
local record, each header and the end record begins where those before it end
(`UnitPieces`), so that the offsets a writer puts down are the places a reader
looks. From there the reader is followed: backwards to the end record and not to
one inside the comment (`EndFound`), through one header (`HeaderRead`), past the
extra fields that are not ZIP64's (`BlockFound`), along those of its values that
were moved (`FieldsRead`), through the directory to the list of all entries
(`WholeOpens`, by `Upward` over the members), and from an entry to the data
behind the local record, whose own extra field may differ in length
(`MemberRead`), or to the data behind the fields of a stream (`StreamRead`).
`WholeInv` then says of each stage of an archive's life (`ArchiveLife`,
`StreamLife`) what has been read so far.

`WrittenAssumption` says what is taken of those that write. An archive has a
member, fewer of them than the count's field can say, and is shorter than 4 GiB:
`zip.h` says others are refused. Nothing in its comment begins like another end
record, and the comment fits the field of its length. An extra field is a run of
blocks, as the format has it, and none before ZIP64's own has its number. The
flags of a stream tell which fields it has, its name ends at its first zero, and
a member that begins like a stream is one. The archives and streams of `formats`
meet all of it; so does what tabber writes.

### What stays with TLC

- The liveness properties `CallReturns`, `LineMoves` and `ShutsDown`, which are
  out of the prover's reach.
- `ReadAsPacked` of what is damaged: that it is refused, or read as something
  that was packed. This is not true of every archive: data that holds a header of its
  own, or two contents of one checksum, can be taken for what they are not. TLC
  checks it for every one of the archives given and each of the damages.
- Of `Installer`, what falls outside the hypotheses of the table above. Some of
  that would be false: `OriginalsKept` under `crash`, `undo` or `digest`
  (see `crash_reinstall`), `FailedCallsChangeNothing` when an uninstall fails
  past its swap (see `uninstall_fails`).

## What is not modelled here

- The cap of 100000 entries of an archive (`zip.c`): the count that is read has
  sixteen bits, and `Archive` refuses the marker of a larger one.
- A library write cut short. It is one in-place write of a few bytes.
- A disk that loses writes after a power cut. A crash is the end of the
  process; what it had written stays.
- Two processes at once, but for a terminal that changes the tab in the game
  beside the window, and the writers of the state file in `Settings`.
- What the window shows besides: the log, the about box, the corner's lines,
  the order of the table, font and layout.
- The fetching of the vanilla mappack for a file without a backup: a restore
  from it either works or refuses the uninstall before the first write.
- The text of the address and the bytes it has to fit, the format of the text
  table, JSON: sequential conversions, on which no property here depends.
- MD5 and CRC-32, the search for the game's folders, when a tab was last played,
  what happens below one network transfer, the parsing of the command line,
  drawing, the vendored libraries and the generated default save.

## Plan

What is left, in this order:

1. `Address`: the URI of a tab against the bytes the game reserves, with the
   scheme that may be dropped (`patch.c:291`), and the text table with its
   escaping, each against a reference definition over bounded inputs.
2. `Saves` as the refinement of the savefile in `Installer`, so that the two
   need not be kept alike by hand.
3. Proofs: the refinement of item 2.
