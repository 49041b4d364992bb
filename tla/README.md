# A TLA+ verification project for cdrtools and dvd+rw-tools

This directory models the programs of this repository that record, read and
lay out discs - cdrecord, cdda2wav, readcd, rscsi and mkisofs of
`src/sources/cdrtools-2.01` and growisofs of `src/sources/dvd+rw-tools-7.1` - at
the places where they are hard to test: the three ring buffers that feed a
recorder (or drain a reader) without a pause, the sequences of commands that
must leave a disc and a drive right although any of them may fail and a signal
may come between any two, a protocol without frames, and the data structures
that several passes over an image must agree on.

`PROJECT.json` is the machine-readable index: components, runs, the source lines
of each definition, mutants, findings, hazards, theorems.

## 1. The system

### 1.1 Inventory

| Component | State | Operations | Talks to | Hard |
|---|---|---|---|---|
| cdrecord FIFO (`cdrecord/fifo.c`) | shared memory: slot headers (owner, users, fd, len), `puts`, `gets`, `done` | `init_faio`, `await_faio`, `faio_read_track`, `faio_read_segment`, `faio_get_buf`, `fifo_percent`, `kill_faio` | two processes over shared memory, no locks; timeouts by polling | interleaving, ordering, process death |
| cdrecord main sequence (`cdrecord.c`) | tracks, flags, exit handlers | fork, blank, lead-in, tracks, fixate, `exscsi`, `excdr`, SIGINT | FIFO, drivers, libschily `comerr` | any command may fail; signals at any step |
| cdrecord write loops (`cdrecord.c`, `wm_packet.c`) | bytes left, padding | `write_track_data`, `pad_track`, `write_packet_data` | FIFO, drivers | a length computed three times |
| cdrecord drivers (`drv_mmc.c`, other `drv_*.c`, `cdr_drv.c`) | write parameter page, drive state | open, write, close session | libscg | five functions change one page |
| cdrecord SCSI commands (`scsi_cdr.c`, `scsi_mmc.c`, `modes.c`) | none | one command each | libscg | - |
| cdrecord input (`cue.c`, `subchan.c`, `sector.c`, `clone.c`, `cdtext.c`, ...) | parsed tracks | parse, encode | main | encodings |
| cdda2wav ring (`ringbuff.c`, `semshm.c`) | shared memory: two counters, two flags, the buffers; two pipes or semaphores | `get_next_buffer`, `define_buffer`, `get_oldest_buffer`, `drop_buffer`, `semrequest`, `semrelease` | two processes | lost and spurious wake-ups |
| cdda2wav reader and writer (`cdda2wav.c`, `resample.c`) | samples to do, sector, overlap, current track | `do_read`, `do_write`, `forked_read`, `forked_write`, `CloseAll` | the ring, libparanoia, files, signals | stale ends, overlap, who ends first |
| cdda2wav TOC, drives, sound | TOC | decode | libscg | - |
| growisofs copy (`growisofs.c`: `builtin_dd`, `reader`) | ring of 32 KB blocks, semaphore, `highest_ecc_block`, `reader_exit` | read ahead, write, count, pad, end | two threads, mkisofs through a pipe | ordering of two flags, end of input |
| growisofs sessions (`growisofs.c` `main`, `pipe_mkisofs_up`) | next session, saved volume descriptors | set-up, reap mkisofs, relocate descriptors | copy loop, MMC layer | stale descriptors, partial failure |
| growisofs burning (`growisofs_mmc.cpp`, `transport.hxx`) | next writable address, DAO blocks, cache of the unit, signal mask | `poor_mans_setup`, `poor_mans_pwrite64`, finalise | unit | retries, resume, signals, loss of power |
| dvd+rw-format, -mediainfo, -booktype, firmware tools | none | one command sequence each | unit | - |
| remote SCSI (`librscg/scsi-remote.c`, `rscsi/rscsi.c`) | request and answer stream, selected target in both | open, close, send, buffers, resets | two processes over a byte stream | framing after an error, stale copies |
| readcd (`readcd/readcd.c`) | address, tries, bad sectors, mode of the drive | `read_generic`, `read_retry`, `write_disk`, menu | libscg, file | retry and partial chunks, restoring the drive |
| mkisofs layout (`write.c`, `mkisofs.c`, `volume.c`, `stream.c`) | list of fragments, deferred writes, hash of files | size, generate, write; sort, hybrid, padding | pipe to cdrecord or growisofs | three passes that must agree |
| mkisofs sessions (`multi.c`, `tree.c`, `name.c`) | directory tree, tree of the old session | scan, merge, number names, TRANS.TBL | the image of the session before | stale names and extents |
| libhfs_iso (`btree.c`, `node.c`, `hfs.c`, ...) | catalog and extents tree, bitmap, volume header | create, mkdir, delete, rename, mount | mkisofs | split and merge on several levels |
| libscg | open device | transport | OS or remote SCSI | - |
| libparanoia, libedc, libfile, libunls, libdeflt, libschily | library data | - | - | - |
| scgcheck, scgskeleton, build system, packages | - | - | - | - |

### 1.2 How they interact

    mkisofs --pipe--> cdrecord:  filler process --shared ring--> burner process --SCSI--> recorder
    mkisofs --pipe--> growisofs: reader() thread --shared ring--> main() thread  --SCSI--> recorder
    drive  --SCSI-->  cdda2wav:  parent (reader) --shared ring--> child (writer)  -------> sound files
    drive <--SCSI-->  readcd <----> file
    cdrecord, readcd, ... --libscg--> scsi-remote.c --byte stream--> rscsi --SCSI--> drive
    mkisofs --libhfs_iso--> HFS catalog in the image;  session n's image --> mkisofs -M --> session n+1

The three rings solve the same problem with three different disciplines: cdrecord
with an owner field in each slot and nothing else, growisofs with a semaphore of
free blocks and a published count, cdda2wav with two counters and either
semaphores or flags and pipes.

### 1.3 What makes each correct

* FIFO: no slot is filled while it is burned; the segment the burner gets is the
  one at its own position of its own track, though the two processes walk
  through the tracks independently; nobody waits for ever.
* cdrecord: nothing is written in a mode that was not asked for; tracks follow
  each other as planned; exit status 0 means that all is on the disc; the
  drive's sector size is restored.
* growisofs: the medium holds the blocks of the input, each once, in order, the
  last one padded; success is reported only if all of them are there, out of
  the unit's cache, and the disc is closed; what was interrupted can be resumed;
  volume descriptors are replaced last.
* cdda2wav: the files hold the samples of the medium, each once, in order, in the
  file of their track; the assertions of `ringbuff.c` hold; both processes end.
* remote SCSI: a command is executed at most once, on the drive that was meant,
  with its own bytes; between two calls both sides are at the same place of the
  stream and have the same drive selected.
* readcd: every sector of the copy is the one at its place or listed as bad; the
  drive is left in the mode it was found in.
* mkisofs: every directory record leads to the data of its file; the names of a
  directory differ; a file of an earlier session is not lost, not replaced by
  older data and not written again.
* libhfs_iso: the nodes are one B*-tree that holds just the records that were
  inserted and not deleted.

## 2. Modules

| Module | Models | Sources |
|---|---|---|
| `FifoQueue` | abstract: a bounded queue with one buffer being looked at | what `fifo.c` promises |
| `Fifo` | cdrecord's FIFO: both processes | `cdrecord/fifo.c`, `cdrecord/cdrecord.c` |
| `Record` | cdrecord: from the set-up of the drive to the exit handlers | `cdrecord.c`, `wm_packet.c`, `drv_mmc.c`, `sector.c` |
| `ImageCopy` | abstract: an image is copied whole, then its descriptors are moved | what `growisofs.c` promises |
| `Growisofs` | both threads of growisofs and the end of `main()` | `growisofs.c`, `mp.h` |
| `Burn` | growisofs and the unit: set-up, writing, finalising, a second run | `growisofs_mmc.cpp` |
| `RingBuff` | both processes of cdda2wav, in both builds | `cdda2wav/ringbuff.c`, `semshm.c`, `cdda2wav.c`, `resample.c` |
| `RemoteCall` | abstract: a call is carried out at most once and gets its own answer | what remote SCSI promises |
| `Rscsi` | client and server over a byte stream that may end anywhere | `librscg/scsi-remote.c`, `rscsi/rscsi.c`, `libscg` |
| `Readcd` | readcd: copy with retries, write, menu, exit handler | `readcd/readcd.c`, `io.c` |
| `IsoLayout` | mkisofs: three passes over the fragments, moves of the files | `mkisofs/write.c`, `mkisofs.c`, `volume.c`, `stream.c` |
| `Sessions` | mkisofs -M: the tree of a session after another | `mkisofs/multi.c`, `tree.c`, `name.c`, `write.c` |
| `RecordFile` | abstract: a set of records, changed one by one within a call | what the catalog promises |
| `BTree` | the catalog of an HFS volume as a B*-tree in nodes | `libhfs_iso/btree.c`, `node.c`, `hfs.c`, `volume.c` |
| `FifoProofs` `RecordProofs` `GrowisofsProofs` `BurnProofs` `RingBuffProofs` `RscsiProofs` `ReadcdProofs` `IsoLayoutProofs` | theorems about the module of that name | |
| `MC...` | instances for TLC | |

Composition: `Growisofs` writes a block in one step that succeeds or fails, `Burn`
is what such a step is; `Record` takes what the FIFO hands over as read, `Fifo` is
how it gets there; `IsoLayout` takes the tree as given, `Sessions` makes it. The
detailed module is shown to implement an abstract one for `Fifo` (`FifoQueue`),
`Growisofs` (`ImageCopy`), `Rscsi` (`RemoteCall`) and `BTree` (`RecordFile`).

Conventions. In the modules with two processes a step makes at most one access to
what the other can see; what a handler does between two such accesses is one
step. In the sequential ones a step is a command or a transfer that can fail, with
what is done about it. Program counters (`fpc`, `bpc`; `pc`, `rpc`; `rpc`, `wpc`)
name the place in the code. Data are positions: a slot of `Fifo` holds "bytes of
track t from position p", a block of `Growisofs` the numbers of its bytes with 0 for
padding, a sector of `Record` its number, a unit of `IsoLayout` the file and
the offset it came from. So a property can tell a stale, lost, repeated or torn
piece of data from the right one. Sequential consistency is assumed: the stores of
one process are seen by the other in program order. (The code has no memory
barriers and relies on the same.)

### 2.1 Fifo

`fpc` walks through `faio_reader` > `faio_read_track` > `faio_read_segment`:
wait, fill, publish (`owner = owner_reader`), users, puts, and at the end
done, force? (`gets == 0`), force (`owner` of the last slot). `bpc` walks through
`main()`: start, await (`await_faio`), blank, open (tracks), and
`faio_get_buf` / `write_track_data`: release, getwait, check, load, store (the two
halves of `--f->users`), hand, write, written, pad. `FillerTimeout`,
`BurnerTimeout` are the `comerrno()` of `faio_wait_on_buffer`; `FillerDies` is a
kill from outside; `Interrupt` is SIGINT. A timeout of the filler is possible
only where the burner stays for more than 240 s (`SlowPhases`).

`InStep` says that the segments come in order, each to its place. `Delivered` puts
together what else the burner is promised: as long as inputs that have ended stay
ended it never reaches a fatal mismatch; when the filler is through, the segment it
waits for is there; a track is closed only at its whole size or at the mark that its
input ended where the burner stands; the percentage is one; and giving up for want
of input leaves the medium untouched (but for `blank=` with `-force`).

Left out: `empty`, `full`, `cont_low` (printed only), the choice of the buffer's
size, lock and priority calls, encodings done while a slot is filled. SIGINT
that arrives during load, store or hand is taken after them. A repeated
write in `write_secs()` changes nothing and is a stuttering step.

### 2.2 Growisofs

`pc` is `main()`: head, prefill, thread or nothread, clear
(`reader_exit = 0`), umount, then the loop spin, spin2, more, write, post, count,
then drained, out, reap or copied, check, update, done. `rpc` is the thread:
wait, read, publish, pad, last, exit. `off` counts bytes before the loop and
blocks in it, as in the code. The spin
`while (!reader_exit && off == highest_ecc_block)` is two loads, and the test
after it a third. A job (`Jobs`) says how long the input is, how it ends, whether
it is a pipe and how mkisofs ends, where the session begins, whether the input is
an ISO volume.

Left out: progress reports, speed, `-dry-run`, overburn, `zero_image`;
`alleged_next_session` equals `next_session` (line 3271 insists on it); counters
are unbounded (2^32 blocks of 32 KB are not reached).

### 2.3 RingBuff

One module for both builds: a job with `pipes` uses flag, test and pipe
(`semshm.c` 181-260), one without the two semaphores; everything else is the
same code. `rpc` walks through `get_next_buffer`, `do_read`, `define_buffer`;
`wpc` through `get_oldest_buffer`, `do_write`, `drop_buffer`. A failed `assert()`
ends the process (`abort`). `job` says how many samples are wanted, where the
two tracks end, where the medium really ends if the TOC does not know, whether
each track goes to a file of its own, and the overlap of the reads.

The flags and pipes can wake a process for a request that was answered before
(`semshm.c:251`); with semaphores that cannot be. `early`, which no guard reads,
remembers it. As long as it is FALSE `RingInv` says of both builds that the
assertions hold, that no unsigned difference wraps and that a buffer is not read
into while it is saved; of the build with semaphores that `early` stays FALSE; of
the one with pipes that a byte in a pipe is for a process that waits for it, and
that the counters never cross even after an early wake-up. `InOrder` says of
both builds that the files hold the samples in order, each track's in its own file,
if no sectors are read twice and until a process is woken early; `Joined` is about
reads that overlap: in either build, and however a process was woken, each sample is
in the file of its track, and if the end is known and nobody was woken early all but
the last overlap of them are the right ones (see Observations for those).

Left out: jitter of the drive (a read returns what it was asked for), conversion of
samples (also the in-place byte swap, which races with the comparison in
`resample.c:193`), skipping of silence, MD5, file formats, a SIGINT while
`CloseAll()` runs and a reader killed from outside. An interrupted reader and one
that gave up go through `CloseAll()` like one that ended. If reads overlap and the
end is not known `NeverWraps` promises nothing (see Observations).

### 2.4 Rscsi

The stream in each direction is a sequence of items: a letter, an argument line,
a status line, or bytes of a payload. The client's calls append a request and wait
(`pc`: idle, wait, took, next); the server reads a request and appends the answer
in one step. `Break` may end the connection at any step; of what is on it a part
still arrives. `Lose` is the client whose answer ends too early: it takes what is on
its stack for the answer. Calls that make several requests
(buffers that are given back and taken anew, open with the scan of a bus) are
as in `scg_open()` and `scg_getbuf()`. `lost` counts the calls that are still
made after the connection is gone.

`ProtocolKept`: between two calls both directions are empty and both sides have the
same target; they wait for each other only after an open with a device name longer
than a line (`scsi-remote.c:589`), and the server crashes only on a device of a
third machine (`rscsi.c:497`). These two are defects the property names as its only
exceptions.

Left out: how the connection is made (rsh, users, hosts), version texts, the
server's stderr, the use of freed memory in `scg_open()` (`scsiopen.c:458`).

### 2.5 Burn

The disc is an array of sectors, `nwa` the unit's next writable address, `safe`
how much is out of its cache. `pc`: setup, idle (between two blocks), write, wrote,
sync; to move the descriptors of an earlier session `main()` first flushes (flush,
or inner: `minus_rw_finalize()` with `do_reload` 0, which returns to
`poor_man_rewritable()`), then reads them back (read); exiting, final (the handler at
the end, or in a signal) and end. A handler run at the exit or in a signal ends the
process in any case. A unit may postpone a command (`busy`), refuse it for good, or
lose its power, upon which what was in the cache is gone and, for write-once discs, a
second run resumes at `nwa`. Signals are held back for the first `Hold` sectors, as in
`poor_mans_pwrite64()`. That the program ends is not stated: each of its loops is a
count, or ends when the unit does.

Left out: formatting, mode page and speed commands before the first write are one
step that succeeds or fails; how the session and the capacity are found.

### 2.6 Readcd

`pc` follows `main()`, the menu, `read_generic()`, `read_retry()` and
`write_disk()`; each sector fails or not with each try; `size` and `mode` are the
sector size and error recovery byte of the drive, `osecsize`, `oerr`, `exoerr`
what the program remembers of them and where. The menu ends (`Returns`) when a signal
arrived while it asked; `noerror` is an option of the command line only, so that an
operation of the menu that changes the drive is never tried with it (`Noerror`).
Left out: `read_lin()`, the full
TOC, sector types, meters, the conversion of subchannel data.

### 2.7 Record

`pc` follows `main()`: setup, speed, open, lead-in, tracks (address, loop, pad,
close), lead-out, fixate, exit handlers. `page` is the drive's page of write
parameters, which every one of five functions gets, changes in part and sets;
`trackstart` the table made by `opentracks()`, and with it the copy the process of
the FIFO encodes sectors with. A write may be put off (`busy`), fail, or, for
packets, be tried again. Sizes are in half sectors, so that some
tracks end within one.

`WritesKept`: nothing is written before the drive is in the mode that was asked
for; a sector in RAW mode is encoded for the address it goes to; nothing is written
behind what was announced as the last write; padding reads as zero but in RAW mode
(see Observations); no track is too short.

Left out: option parsing, `-msinfo`, `-toc`, `-atip`, `blank=` and format on their
own, checks of the medium's size, OPC but for its failure, meters, drivers of
drives before MMC.

### 2.8 IsoLayout

`pc`: size (each fragment gets its first block), assign, hfs (the volume is made, and
made again with a larger clump or catalog), trailer, write, files, ended. A job
is a set of options, the session it begins at, and the files with their links,
weights and paddings. `dw` is the list of deferred writes with `dw_head` and
`dw_tail`, `hash` the table of files by inode; `now` the size of a file when it is
copied, which may differ from the one `stat()` gave.

Left out: contents of records, split output, the boot partitions of PReP and
CHRP. The directory of the stream is written as one block, as it was sized, which
supposes a name of even length, as the default `STREAM.IMG;1` has (Observations).
Weights are natural numbers with -1 for `NOT_SORTED`: `README.sort:19` allows negative
ones, but `NOT_SORTED` is `INT_MIN` (`match.h:12`), below all of them, and only
the order of weights is used.

### 2.9 Sessions

A session goes through preserve (scan the local tree and read the one before), merge,
sort, write. The image is a map from directories to the records in them; each
record has the ISO 9660 name, the name of Rock Ridge, kind and extent; an extent is
the path, version and session of its data. A version stands for size and date, and is
below 0 for a directory: without Rock Ridge `check_prev_session()` compares nothing
else, so that a file may be taken for the old directory of its name. `-old-root` that
names a file, or a way through one, is not refused: its data are read as a directory
(`OldRootIsFile`), as those of an old file whose place a directory has taken; the
model ends there.

Stems have five characters or more: `sort_n_finish()` puts the number behind a shorter
one (`tree.c:379`), so that two stems could become one. It gives up after 36^3
numbers; no directory of the model has as many entries.

Left out: relocation of deep directories, hidden entries, Joliet and HFS names,
the error path of `sort_directory()`, continuation areas. The order in which
old entries are numbered is fixed: their names do not conflict with each other.

### 2.10 BTree

A call (`hfs_mkdir`, `hfs_create`, `hfs_rmdir`, `hfs_delete`, `hfs_rename`) is a
sequence of insertions and deletions. `path` holds the copies of the nodes from
the root down, as `bt_insertx()` and `bt_deletex()` have them on their stack; `up`
is what the node below changes in the one above. `Space` is `bt_space()`, which
may extend the file and its bitmap; `Split` and `NewRoot`, `Merge` and `Deleted`
take nodes and give them back; `Umount` writes header and bitmap. Lengths of records
are the real ones in bytes, a node has 512. `Mid` is the search for the middle of
`n_split()`, which ends at the first record (`node.c:253`).

The model ends where a rename finds the tree full (`Full`), with one of its two
records lost; nobody in the repository calls `hfs_rename()`. A call stands for its
records of files and folders: the record of a thread, which `hfs_delete()` also deletes
for a file that has one (`hfs.c:1899`), and the valence of the parent are left out.

`TreeKept` is about the nodes, `ImplementsRecords` about what they stand for: a
call changes the set of records step by step, says that there is no room only
before it has changed anything, and ends half way only for `hfs_rename()`, which
does not ask for room.

Left out: the allocation of blocks (it fails when the volume is full), the extents
tree, updates of records in place, errors of reads and writes, crashes.
The errors "nonexistent", "unallocated" and "unexpected b*-tree node" are not
branches: `TreeKept` shows that no node leads to them. `bt_space()` does not look
again after it has extended the file: a clump is taken to be enough for a call,
as the ones that `hfs_format()` chooses are.

## 3. Runs

| Run | Instance | Checks | Shows |
|---|---|---|---|
| `fifo` | 3 slots, 6 track lists, unknown inputs up to 3 bytes, with and without `blank=`, filler may die, burner may be slow anywhere | `IndInv` `InStep` `Delivered` `RingIsQueue` `Terminates` | the FIFO hands every segment over once, in step, and implements `FifoQueue`; it always ends but for the one wait without a timeout |
| `growisofs` | 4 blocks of 2 bytes, 144 sessions: sizes 0 to 17 | `IndInv` `DescriptorsLast` `CopiesImage` `Terminates` | the two threads implement `ImageCopy` and never wait for each other for good |
| `ring` | 2 buffers of 2 sectors of 2 samples, 14 recordings with semaphores and with pipes, read and write errors, SIGINT | `RingInv` `InOrder` `Joined` `Terminates` | until a process is woken early, which with semaphores none is, the ring is right and the files hold the samples in order, in both builds; overlapped reads are joined at the right sample; with semaphores both processes end |
| `ring_wakeup` | pipes, no errors, no signals | `WaitsForDefined` (violated) | finding 1 |
| `rscsi` | two drives, commands of 0 to 2 bytes each way, a connection that breaks anywhere | `ExecutedAsMeant` `ProtocolKept` `CallsReturn` `ImplementsCall` | remote SCSI implements `RemoteCall` |
| `burn` | 3 blocks of 2 sectors on each kind of disc, two runs | `EndsRightly` `ImageInPlace` `NothingLeftInCache` `SuccessMeansComplete` | what is on the disc, in the cache and in the exit status, however it ends |
| `readcd` | 5 sectors, read 2 at a time, up to 2 retries | `LossIsReported` `DriveRestored` `CopyKept` `Ends` | the copy is complete or listed, the drive is as before |
| `record` | one or two tracks in five write modes, two signals | `Contiguous` `OkMeansWritten` `SectorSizeRestored` `WritesKept` `Ends` | the planned layout is the written one; status 0 means written |
| `iso` | 134 combinations of options and trees | `LayoutKept` `DataInPlace` `BotchOnlyForHfs` `Ends` | the three passes agree, but for three kinds of hybrids |
| `sessions` | 3 sessions of trees with two names that are alike in ISO 9660, 10 combinations of options | `SessionKept` `CurrentWins` `OldKept` `NotWrittenAgain` | the merged tree is right wherever names can be trusted |
| `sessions_names` | TRANS.TBL without Rock Ridge | `NamesTrue` (violated) | finding 2 |
| `catalog` | 5 volumes, 5 calls in any order on an empty tree and on one of three levels | `TreeKept` `ImplementsRecords` | the tree stays one and implements `RecordFile` |

Each property has a mutant in `PROJECT.json`: a plausible bug in one definition
with which the run fails.

### 3.1 Bounds

* `fifo`: three slots are the code's own minimum (`MIN_BUFFERS`) and let the
  filler be behind, equal to and ahead of the burner with a slot in between; the
  track lists fill less than the ring, the ring exactly and more, with an unknown
  size from stdin first and second, an empty track and one descriptor used twice.
  `InputCap` bounds what an input of unknown size delivers.
* `growisofs`: four blocks are the least for which the head (two blocks), the
  prefill and the thread are three different things; the sizes lie before, at and
  behind each of these borders, whole and with a part of a block.
* `ring`: two buffers are the least that overlapped reads allow (`main()` insists on
  more than one), and three sectors a buffer let an overlap of one grow and one of two
shrink; the recordings are shorter than a buffer, several of them, with a
  track that ends in and between buffers. `MaxRetry` is 2 for the code's 12: the
  second retry already is one that does not restart with the first overlap. Two of
  the recordings overlap and have an unknown end.
* `rscsi`: `MaxDma` 1 makes amounts below, at and above what the transport moves;
  `MaxLost` 1 is one call over a connection that is lost; each call before leaves
  the stream as it was, so that their number needs no bound.
* `burn`: three blocks are a first, a middle and a last one; `Hold` 2 is a block
  after which signals are let through; `MaxBusy` 3 postponed commands in a row;
  `MaxRuns` 2, one run to be interrupted and one to resume.
* `readcd`: chunks of two sectors, a range that ends within a chunk, 0 to 2 retries.
* `record`: a shortest track of 3 sectors for 300, transfers of 2, a pregap of 1 for
  150; tracks shorter, as long and longer than that, a size that is unknown, too small
  or too large; `MaxIntr` 2 signals (the second kills), `MaxBusy` 1.
* `iso`: `Sector` 2 units, `NSect` 2 blocks a copy, `SystemArea` 3, `EndPad` 3, `Align`
  4, `Cylinder` 5, `BootBlocks` 5, `PathBlocks` and `DirBlocks` 1, `MainSeq` 2,
  `Udf32` 10, `Udf256` 18, `MinVolume` 17, `Clumps` 1 to 3, `MaxTries` 2,
  `StreamMin` 12, `Word` 64: each constant keeps its order to the others, so that a
  tree lies in front of, at and behind the anchor, and a volume is and is not
  too small. `MaxSize` 6 units a file, `MaxChanges` 1 file changes meanwhile.
* `sessions`: two names with one stem, one directory (with size and date of a version
  of the file whose place it takes), two versions, three sessions (two with `-root`):
  the least for a name to be numbered, to lose its number and for a file to come from two sessions before.
* `catalog`: a script builds a tree of three levels with leaves of one record, so that
  each of the five calls that follow splits or merges; the volumes have room for
  three extensions, for none and for one; `Clump` 5, `MapFirst` 16 and `MapNext` 5
  nodes make two map nodes necessary; a tree that needs every node `bt_space()`
  asked for occurs (the mutant that asks for one less fails).

### 3.2 Deadlock and fairness

`CHECK_DEADLOCK FALSE` stands where the system really stops: programs that end
(`burn`, `readcd`, `record`, `iso`, `sessions`, `catalog`), `await_faio` after the
filler was killed (`fifo`), the stranded child of finding 1 and of a reader that gave
up (`ring`), a session that ends or the open with a long device name (`rscsi`).
`growisofs` is checked for deadlock.

Every liveness property assumes weak fairness of each process, thread or program:
the scheduler runs it on when it can; reads, writes and commands return
(time-outs of a drive are errors). Nothing is assumed of time-outs, signals,
failures, kills or losses, except that a wait of the burner ends by
`READER_MAXWAIT` at the latest, which the loop in `faio_wait_on_buffer` counts down.
The spin of growisofs calls `sched_yield()`. `Terminates` of `ring` does not speak of
pipes, nor of a reader that gave up on a sector: those may wait for ever
(finding 1 and Observations). `sessions` and `catalog` state safety only: each of their
calls is a bounded number of steps.

## 4. Proofs

Eight modules hold theorems. Each states `Invariance`, `Spec => []IndInv` (`IInv` for
`IsoLayout`), for an inductive invariant made of named parts, with a lemma for each part or for each
action, and then what follows from it: the safety properties the runs check,
and that `Fifo`, `Growisofs` and `Rscsi` implement their abstract modules.
The assumptions are those named in the modules; TLC evaluates them
in every run. Before it was proved each invariant was checked by TLC on the instance
of the run.

| Module | Theorem | States |
|---|---|---|
| `FifoProofs` | `TypeCorrect`, `NoTornReads`, `SlotsComeBack`, `NoDeadlock` | `TypeOK`, `NoTornRead`, `AlwaysHandedBack`, `NoMutualWait` |
| | `SegmentsInOrder`, `AllDelivered` | `InStep`, `Delivered` |
| | `QueueImplemented` | `RingIsQueue`: the ring implements `FifoQueue` |
| | `OwnersCycle` | a slot changes hands one way round |
| `GrowisofsProofs` | `TypeCorrect`, `NoBlockIsTorn`, `BlocksInOrder`, `NoBlockIsLost`, `StartupIsHarmless` | `TypeOK`, `NoTornBlock`, `InOrder`, `NothingLost`, `StartupMeansUntouched` |
| | `DescriptorsComeLast` | `DescriptorsLast` |
| | `ImplementsCopy` | `CopiesImage`: the two threads implement `ImageCopy` |
| `RingBuffProofs` | `RingIsSafe`, `FilesInOrder` | `RingInv`, `InOrder` |
| `RscsiProofs` | `CommandsAsMeant`, `ProtocolIsKept` | `ExecutedAsMeant`, `ProtocolKept` |
| | `RemoteCallImplemented` | `ImplementsCall`: client and server implement `RemoteCall` |
| `BurnProofs` | `RecordingEndsRightly`, `ImageStaysInPlace`, `CacheIsFlushed`, `SuccessIsComplete` | `EndsRightly`, `ImageInPlace`, `NothingLeftInCache`, `SuccessMeansComplete` |
| `ReadcdProofs` | `NothingLostSilently`, `DriveAsFound`, `CopyIsKept` | `LossIsReported`, `DriveRestored`, `CopyKept` |
| `RecordProofs` | `WrittenAsPlanned`, `OkIsComplete`, `SectorSizeBack`, `EveryWriteIsRight` | `Contiguous`, `OkMeansWritten`, `SectorSizeRestored`, `WritesKept` |
| `IsoLayoutProofs` | `PassesAgree`, `DataReached`, `LayoutStands` | `BotchOnlyForHfs`, `DataInPlace`, `LayoutKept` |

### 4.1 Fifo

For every number of slots, every set of track lists and options and every bound.
`NoTornRead` and `NoMutualWait` are not inductive: that the slot in hand is not
the one being filled depends on where the two indices stand. `IndInv` adds
`Ownership` (what each program counter says of the owner of its slot),
`UserCounts` (no slot counts two readers, whatever the unsynchronised store does),
and `Ring`: for some k the k slots from the burner's on are published and all
others free, and the filler stands right behind them. The one place
where the ring breaks, the forced store at the end of the input, is after the
filler's last step in it. `Filling` and `Order` say which segments of the job the
published slots hold, and how far along the list of segments each side is;
`InStep` and `Delivered` follow (with `Kept`, that the filler does not touch the slot
in which a track's end was found until the track is closed), and the refinement takes the queue to be the
published slots from the burner's on. `AheadNext`, `AheadRelease`,
`AheadInjective` are the arithmetic of going round.

### 4.2 Growisofs

For every ring of more than two blocks, every block size and every set of sessions.
What the medium holds follows from what the ring held when a block was written,
and that from where both threads are. So `IndInv` has a part for each:
`MainPart` (what `off` means at each step, and that `main` at "more" with nothing
to take has seen `reader_exit`), `ReaderPart` (how many bytes `reader` has taken;
`highest_ecc_block` + semaphore + the block in hand = blocks of the ring + blocks
given back, which keeps the two apart by less than a ring), `RingPart` (before the
thread runs, the bytes delivered lie as in an array; from then on every block published
and not given back is the block of the image, and the one in hand is as far as it
was read) and `EndPart` (what each exit knows of the medium). `SlotInjective` - two
blocks less than a ring apart have different slots - and `InBlock` - a partly read
block is the last one - carry the arithmetic; `DivMod` is the only place that
divides. Safety of the spin on `reader_exit` and `highest_ecc_block` is in
`NoBlockIsLost`: `reader` publishes its last block before it sets the flag, and `main`
looks at the count after the flag.

### 4.3 RingBuff

For every number and size of buffers, every recording, both builds, and errors
and signals anywhere. `Counters`, `Position` and `Saving` relate the counters of the
two processes to the slots they point at: the slot that is read is as many behind the
oldest one as the counters say, modulo the ring. What keeps the two apart differs:
with semaphores `Tokens` (each is at most what is free, or defined, less what is in
somebody's hands), with pipes `Flags` (a flag is set while the process that set it
waits), and that no process has gone on early: then the counters are what the
tokens would be, and the rest of the argument is one for both builds. After an early
wake-up only `Counters` is left. `Progress`, `Written`, `Content` and `Files` are
about the samples, for reads without overlap: the buffers between the oldest and the
newest one hold consecutive samples as far as they are wanted, the writer is at the
end of a buffer or of the job, and the files end where the writer is. An overlap
moves the offsets by what the comparison of samples found, which no invariant bounds;
for it `RingInv` is proved, and `Joined` only model-checked.

### 4.4 Rscsi

For any drives, sizes, device names, sequence of calls, and a connection lost at
any item. Nothing marks the end of a request, so the invariant has to say what lies on
the stream: to the server a prefix of one request (`OneRequest`), all of it as long as
the connection holds, made for the drive that was selected then; to the client a
prefix of one answer that the client takes as a whole (`OneAnswer`, `Whole`: what
`rscsigetstatus` and its caller read is as long as what the server wrote, with
sense data cut or skipped, data, texts). `Turns` says whose turn it is, `Agreed`
what both sides know of drive and buffer while the connection holds, `Known` what the
client knows in any case, `Lost` that a call is late only after the connection
is gone. The lemmas `PendingIs`, `RequestIs`, `PayloadIs` are about requests,
`ErrorIs`, `ReplyIs`, `CommandIs` about answers, for any length. `ServerStep` says
that the server answers or ends, which is all the refinement needs of it.

### 4.5 Burn, Readcd, Record

Sequential programs: what is hard is that many failures at many places must not
break what earlier steps have arranged. `Burn`: `Block` and `Track` say where the
block lies against the next writable address, `Progress` which sectors hold what
belongs there, `Blame` how an error comes to be the status, `Cache` and `Closing`
what of flush, close and finish is left to do when the handler runs, by how much of
it is done. `Readcd`: `Tries` counts what a sector has failed, `Buffered` and
`Copied` relate buffer and file to the range, `Remembered` and `SizeKnown` the drive's
state to what the program keeps of it. `Record`: `Counters`, `Content` and
`LastSaid` are about the loops (whole sectors, and no more of the input than there is),
`Starts`, `Address` and `Joined` about the plan. `trackstart` is a recursive
function, so the plan is a fact about a sum over the tracks: `PlanIs` proves it by
induction, from `Inductive`, which states induction over the naturals for a set
instead of an operator.

Each time an invariant could not be proved the model was looked at again. The proofs
corrected in `RingBuff` the unsigned difference in `Available` and the exception of
`NeverWraps` (TLC found the state), in `Readcd` what `Select` leaves
of the operation before, in `Record` the test for the lead-out, in `Fifo` the
condition under which a premature end of the input is seen in time, in `IsoLayout` what
`StoredOnce` and `Heaviest` say of names under which a file is not looked up and of
empty ones. They made assumptions explicit that the programs check at their start or
that their constants fulfil: that a session of `Burn` does not begin at block 1,
that a transfer of `Record` is shorter than a track, that a recording of `RingBuff` is
not longer than its sectors, that in `IsoLayout` the UDF descriptors fit in front
of the anchor in block 256.

### 4.6 IsoLayout

For any list of files, set of options `main()` accepts, sizes of blocks, structures,
paddings and clumps, and any files that change before they are copied. The properties
are about the image at the end, and each pass only keeps what the one before has
settled, so the invariant follows the passes. `Sizing`: every fragment begins where
the one in front of it ends. `Assigning`: the nodes of the list lie in a row
(`InRow`), no file has two (`Distinct`), and every entry seen so far has a
node that stands for it (`AllRecorded`); `Hash` and `Largest` say that the table finds
that node and that it has the heaviest weight of its names. `Rounds`: the volume of a
hybrid is tried; what a round moved is again in a row and on clumps, or a padding file
has cut the list or come twice. `Planned` closes the two passes: the plan is
`Complete`, that is all of this holds and `last_extent` is what will be written, or
`Incomplete`, which only a hybrid with a padding file can make it.
`Position` says where the writing pass is: at the first block of the fragment,
or in the files behind the nodes written so far, and `Data` and `Structures`
what lies in the image up to there: data of each node at its place, and no data
elsewhere (which is what makes `StoredOnce` true). Files whose list was cut are not in
these places; what `PassesAgree` says of them is that the end does not fit, unless both
mistakes were made.

Sums over the list carry the argument. `SumsAre` and `BordersAre` are about the two
recursive functions, by `Inductive`; `SumPermuted` says that the order of a list
does not change its length, and so that `qsort()` moves no border. `Sizes`
and `Writings` compare `of_size` with `of_write` for every fragment: that the paddings
end where they should needs `AnchorPlace`, that what lies in front of block 256 fits
there. `Clumping` shows that rounding to clumps leaves every node on one, `LateMoves`
that two plans of different length never end at the same block.

### 4.7 What is only model-checked

`Joined` of `RingBuff`; `SessionKept`,
`CurrentWins`, `OldKept` and `NotWrittenAgain` of `Sessions`; `TreeKept` and
`ImplementsRecords` of `BTree`. Out of the prover's reach are liveness under fairness
(`Terminates`, `Ends`, `CallsReturn`), `ENABLED`, and what a recursive definition
computes for every input, where that is not a sum that `Inductive` serves
(no module declares a recursive operator, so that theorems can be stated about all
of them).

## 5. Findings

1. `ring_wakeup` - `semrequest` sets the flag a step after the test
   (`semshm.c:226`); the announcement of the last buffer is lost and both
   processes wait for ever.
2. `sessions_names` - `merge_remaining_entries` keeps the TRANS.TBL of the session
   before (`multi.c:1315`) though `sort_n_finish` (`tree.c:300`) may number two
   names the other way round now; the table then gives each file the other's
   name (`mkisofs.8:1143`).

### 5.1 Observations

Seen while the code was read or an earlier form of a property failed; the properties
say in their comments where they make an exception. No run stands for them.

cdrecord:

* The filler inherits `main()`'s exit handlers. If it times out while `main()`
  blanks, it sends flush, abort and unload to the drive, and `main()` does it again
  (`cdrecord.c:1764`, `fifo.c:642`).
* With `-force` and `blank=` the medium is blanked before the input is looked at
  (against `cdrecord.1:694`). The fill can be shown as 100% while the filler still
  reads (`fifo.c:762`, against `cdrecord.1:2242`).
* `pad_track()` fills its buffer with zeros once (`cdrecord.c:2284`), `encsectors()`
  scrambles it in place (`sector.c:255`): in RAW mode the second transfer of padding
  does not read as zero.
* The status is 0 after a pad or pregap that failed (`cdrecord.c:2209`,
  `drv_mmc.c:1920`), after an input shorter than `tsize=`, and after a flush
  that failed in SAO and RAW (`drv_mmc.c:2140`). A transfer that writes less than was
  asked for is not noticed.
* `write_packet_data()` announces the last write and then pads. SIGINT before
  `gracewait` is over, and a second one at any time, leave the drive with another
  sector size.

growisofs:

* An input of less than 64 KB is an error only for a first session
  (`growisofs.c:2708`). After a fatal write error `media_reload()` turns the process
  into `growisofs -reload`, whose status is 0 (`growisofs.c:168`).
* A resumed run that finds all blocks written writes nothing, ends with 0 and
  leaves the session open. That the flush failed is not noticed with DAO; errors of
  CLOSE SESSION on +RW are printed only.

cdda2wav:

* `semrelease` answers a stale request: the child goes on with a buffer that is not
  there, saves what it held before or what is being read into it, and later an
  assertion fails (`semshm.c:251`, `TODO:10`).
* With an overlap the last sectors, as many as are read twice, may be wrong: the last
  burst of a single sector is not synchronised (`resample.c:626`), and a last buffer
  that is not full is saved as if it were.
* A reader that gives up on a sector waits for a child it does not tell
  (`cdda2wav.c:1359`). The end of recording is stored before the last buffer is
  defined (`cdda2wav.c:1814`), so that the writer may leave before it. The writer
  takes each buffer to be full (`cdda2wav.c:1550`): with an overlap and an unknown
  end it saves the stale rest of a short buffer that is not the last one, before
  `*nSamplesToDo` shrinks to less than was saved, and the unsigned difference wraps.

readcd:

* `exargs.old_secsize` is never set, so that an interrupt does not restore the sector
  size (`readcd.c:527`). The mode byte 255 becomes -1 and the program asks for it
  when it ends. An end of file at a prompt ends the program without its handlers.
* The status is 0 after errors that were not recovered; good sectors of a chunk that
  failed are not written; with `retries=0` they are listed as bad. The list is not
  reset between two operations of the menu.
* `write_disk()` ignores the answer to "number of sectors" (`readcd.c:1829`), uses
  `end` unset if READ CAPACITY fails (1800), and drops half a sector from a pipe.

Remote SCSI: the two sides wait for each other after a long device name
(`scsi-remote.c:589`); the server ends on a device of a third machine
(`rscsi.c:497`); `scsiopen.c:458` uses freed memory; after the connection is lost a
call may return anything.

mkisofs:

* A hybrid (`-hfs`) in a later session always ends with "Implementation botch"
  (`write.c:2830`, `mkisofs.c:3398`; against `mkisofs.8:2663`). So does `-hfs -sort`
  with less than 800 KB (the padding is put at a `dw_tail` that is no longer the last
  one and files are lost), and `-hfs` if the catalog has to be made again (each try
  adds a padding file). Both together may give a wrong image without a message.
* `-stream-media-size`: a block less than `mkisofs.8:1078` promises; the room is counted
  in 32 bits, so that of a medium of 2^21 sectors a part remains; a longer input is
  cut silently. If the name is of odd length, `write_str_dir()` writes 2047 bytes for its
  block (`stream.c:224`), and all that follows lies one byte too low.
* A file that shrinks within its last copy is filled with zeros silently. Some paddings
  are a stack buffer nobody set. "Number of extents written not what was predicted"
  compares `last_extent` with itself.
* An old file in the place of which there is a directory now is read as a directory
  (`multi.c:1747`), and so is a file that `-old-root` names (`multi.c:1637`). Without Rock
  Ridge a file of one block that takes the place of a directory with the same date is
  given that directory's extent (`multi.c:1105`). Several levels in `-root` make an empty directory, lose the
  snapshot before if the first level is the same, and write everything again
  (`mkisofs.8:1008`); `graft_point` lacks its NUL.

libhfs_iso:

* `n_split()` counts the offsets of the left half for the right one (`node.c:260`): a
  half may reach 2 bytes into its table of offsets, which are reserved bytes of a
  record. Its search for the middle might not end with records larger than those of the
  catalog.
* A key below all others that splits the leftmost leaf is put in front of
  the index (only a longer name for the volume can do it). The last record of the leftmost
  leaf, deleted, makes a key of an empty node (only in the extents tree).
* `hfs_rename()` (`hfs.c:2053`) asks for no room and may lose the record; `bt_space()`
  does not look again after it has extended the file. mkisofs calls `hfs_mkdir` and
  `hfs_create` only; nobody in the repository calls the rest.

## 6. Not modelled, and the plan

Not planned: libparanoia (vendored heuristics over samples), libscg's ports to
operating systems and the builders of SCSI commands (no state of their own),
character tables and error correction codes (pure data), the firmware and
medium information tools (one sequence of commands each), scgcheck, scgskeleton
(a test program and a template), the build system. Identification and vendor
commands of drivers older than MMC differ in the bytes they send, not in what
`Record` tells apart.

Done: all modules of section 2, the proofs of section 4. Left, in this order:

1. Proofs: of `Sessions` that what an earlier session holds is neither lost nor
   replaced by older data; of `BTree` that an insertion keeps the order of the keys.
2. Modelling: the cue sheet's state machine and the conversions of sub-channel and
   MSF addresses as operators; the scan for indices in `cdda2wav/toc.c`; mkisofs'
   relocation of deep directories; the extents tree of HFS; the thread of
   dvd+rw-format that shows the progress.
