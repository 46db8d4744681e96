# MyDOS: specifications, model checking and proofs

MyDOS is a 32-bit hobby operating system: one kernel image, one thread of
control, interrupts never enabled, every device polled. What is concurrent is
the hardware: a drive that works while its driver polls, a clock that ticks
while it is read, a keyboard controller that queues scan codes. What fails is
the disk, the power and the contents of a file. The modules in this directory
model the code that has to be right in spite of that.

## Inventory

| Component | Source | State it keeps | Operations | Hard behaviour |
|---|---|---|---|---|
| AHCI driver | `kernel/drivers/ahci.c` | `disk_ports`, `disk_sectors`, `disk_flush_supported`, `disk_total`, one `transfer_buffer`, command slot 0 of each port | `ahci_init`, `ahci_read`, `ahci_write`, `ahci_flush` | drives run concurrently, fail, cut a transfer short, hang, or answer after the driver gave up; one buffer for every port; power loss |
| Disk layer and ATA PIO | `fs/fatfs/source/diskio.c` | `ata_devices[4]`, `ahci_status[4]`, `ahci_probed` | `disk_initialize`, `disk_status`, `disk_read`, `disk_write`, `disk_ioctl` | transfers of several sectors that stop half-way, re-identification of a disk in use, LBA and CHS addresses |
| FatFs (vendored) | `fs/fatfs/source/ff.c` | the sector window, the FSInfo counts, the current directory, `FIL` | `f_mount`, `f_mkfs`, `f_open`, `f_write`, `f_close`, `f_mkdir`, `f_unlink`, `f_chdir` and others | the order in which sectors reach the disk, power loss between two of them, one access that fails |
| Volumes and file helpers | `kernel/helper/fshelpers/fshelpers.c` | `fs[8]`, `active_volume` | `fs_init`, `fs_format`, `list_drives`, `list_files`, `rm_recursive`, `cat_file` | which disk is offered for formatting; a format that stops half-way; recursive removal that fails half-way |
| MyEditor | `programs/myeditor/myeditor.c` | the grid `document`/`line_lengths`, `line_count`, cursor, `current_filename`, `has_unsaved_changes` | one key at a time; F1 save, F2 open, F3 exit | rows and columns shifted in place, loads and saves that fail at any byte, questions before something is lost |
| Shell | `kernel/kernel.c` | `cmd[64]`, `cmd_len`, `cursor_x`, `cursor_y` | line editing, some twenty commands | the cursor, the line and the screen must stay in step through every command |
| Keyboard | `kernel/drivers/keyboard.c` | layout, `shift_pressed`, `altgr_pressed`, `extended_scancode` | `keyboard_getchar`, `keyboard_load_layout` | keys pressed and released in any order, prefixes, lost bytes |
| VGA screen | `kernel/drivers/vga.c` | the text cells, the theme | `print`, `scroll_screen`, `draw_logo_pattern` | cells outside the screen |
| Clock and uptime | `kernel/drivers/rtc.c`, `kernel/kernel.c` | `uptime` | `rtc_read`, `elapsed_uptime_seconds` | three registers read while the clock runs, midnight |
| Traps and panic | `kernel/interrupts/`, `kernel/panic.c`, `kernel/gdt/` | descriptor tables | exception stubs, `panic_exception` | a stack frame built by the stubs and read by C |
| Numbers and strings | `lib/string.c`, `kernel/helper/helpers.c` | none | conversions and comparisons | digits, widths, zero |
| Boot, hardware queries, speaker, shutdown | `boot.asm`, `lib/`, `kernel/drivers/pc_speaker.c` | none | | |

Calls go down: the shell and MyEditor call FatFs and the file helpers, FatFs
calls the disk layer, the disk layer drives ATA disks itself and calls the AHCI
driver. Nothing calls up, and apart from `transfer_buffer` and the disks
nothing is shared.

## What makes each component correct, and what is hard about it

- **AHCI driver.** A success is true: the named sector of the named drive was
  read, written or flushed, although one buffer serves every port and a drive
  moves data into and out of it while the driver polls. The table of disks holds
  each drive once, with a size no access goes past. A port with an error never succeeds again.
- **Disk layer, ATA PIO.** `RES_OK` is true for the whole range; a sector number
  becomes the registers of exactly that sector; a failed transfer changes nothing
  outside its range; a flush is a flush; every wait ends.
- **FatFs.** At every moment, on the disk and in the window over it, no cluster has
  two owners and nothing refers to a free one; what a call has reported stays; a
  file is never a mixture of two saves; space is not lost while nothing fails.
- **Volumes.** A disk on which a volume can be seen is not offered for formatting (the code
  does offer one whose unreadable partition find_volume has forgotten), a format that stops leaves
  no half volume to mount, unless the old table already names its place, and after a startup that
  ended well the current drive is one that is mounted.
- **Directory tree commands.** `rm -r` removes what is below its operand and
  nothing else, whatever join_path does to long paths; what it says is true; the
  current directory stays; it ends where its paths have room for a name.
- **MyEditor.** The grid behaves like one text; loads are exact or leave everything alone;
  a save that succeeds is exact; the questions before a file or a document is replaced rest on flags that are
  never stale.
- **Shell, keyboard, screen.** The row of the cursor shows the prompt and the command
  that Enter will run; that command is what the keys meant.
- **Clock.** The uptime is the time since boot (in the code, on the first day).
- **Traps.** The registers shown by a panic are those of the fault.

Where several actors meet: drive against driver (AhciPort, AtaPio), clock against
reader (Uptime), keyboard against reader (Console). Where steps fail half-way: saves and
loads (MyEditor), multi-sector transfers (AtaPio), recursive removal (FileCommands),
every FatFs call (FatVolume, LongNames), formatting (Volumes). Where power is lost: drives with
caches (`stable` of AhciPort and AtaPio), MyEditor, FatVolume, LongNames and Volumes (`PowerLoss`).
Timeouts: ata_wait, AHCI_TIMEOUT.

## The modules

| Module | What it is |
|---|---|
| `BlockDisk` | abstract: single-sector requests to several disks, success only for work done |
| `AhciPort` | `ahci.c` and its drives; implements `BlockDisk` |
| `AhciProofs` | types, integrity and final errors of `AhciPort`, and that it implements `BlockDisk`, proved |
| `SectorDevice` | abstract: what FatFs relies on, requests for ranges of sectors of one drive |
| `AtaPio` | the ATA half of `diskio.c` and its drive; implements `SectorDevice` |
| `AtaProofs` | types and addresses of `AtaPio`, and that it implements `SectorDevice`, proved |
| `FatVolume` | a FAT32 volume under FatFs, access by access |
| `FatChecks` | what a volume must keep: soundness, promises, space |
| `FatProofs` | a volume never gets a cross link, its sectors keep their shape, the count of free clusters is right, every file on the disk is the beginning of one save, and no cluster is lost while nothing fails, proved |
| `PromiseProofs` | what a call has reported stays, proved |
| `NameTable` | abstract: a table of objects, each under an alias of its own and perhaps a long name |
| `LongNames` | the entries of a directory with long names, written sector by sector; implements `NameTable` |
| `LongNamesProofs` | that it does, that what is listed is found and that nothing is left behind, each up to the moment described below, proved |
| `Volumes` | finding, mounting and formatting volumes at startup, and `lsdrv`; four ATA and four AHCI drives are one list of drives of two kinds |
| `FileCommands` | mkdir, mkfile, rm, rm -r and cd: `kernel.c` and `fshelpers.c` |
| `FileProofs` | all safety of `FileCommands` (types, the current directory, that rm -r stays below its operand, what rm says and why it fails) and the four invariants of `Volumes`, proved |
| `EditorText` | abstract: one text and a point in it |
| `MyEditor` | `myeditor.c`; implements `EditorText` |
| `EditorChecks` | the text of the document and the text of a file, when a text fits in the grid, the history of loads and saves, and the properties that need them |
| `EditorProofs` | types and shape of the grid, that the flags are never stale and the questions come first, that every key edits the one text and that saves and loads are exact, proved |
| `Keyboard` | `keyboard.c` and the keyboard: scan codes, prefixes, the three flags |
| `Shell` | the command line of `KernelEntryPoint` on the screen of `vga.c` |
| `Console` | composes `Keyboard` and `Shell` with a user who knows what is meant |
| `Uptime` | `elapsed_uptime_seconds` and the clock chip |
| `ConsoleProofs` | uptime, and that the command is the one shown and the one meant, proved |
| `MCAhci`, `MCAtaPio`, `MCFat`, `MCLongNames`, `MCVolumes`, `MCFileCommands`, `MCEditor`, `MCUptime` | instances for TLC |
| `MCFsCommands`, `MCConsole` | two instances in one run: `FileCommands` and `Volumes`, the halves of `fshelpers.c`; `Console` and `Uptime`, both of `kernel.c`. They share nothing: `part` says which of the two runs |

### AhciPort

`pc` is the loop the driver is in: `scan` (ahci_init between two ports), `idle`,
`port_wait`, `poll`, `finish` (issue_command has returned). `disks` stands for the
three arrays `disk_ports`, `disk_sectors` and `disk_flush_supported`; `st` for the
bits of PxCMD, PxTFD, PxIS and PxCI that the driver looks at; `slot` for the
command list entry and its FIS; `transferred` for PRDBC. `Issue` is issue_command
up to the write of PxCI; the polls end in `PollError`, `PollTimeout`, `PollDone` or
`PollShort`; `Return` is the rest of ahci_transfer with the copy to the caller. The
drive's actions (external) run at any moment between. A command that a drive has
not answered within AHCI_TIMEOUT is lost when `LateAnswers` is FALSE; with TRUE the
drive may still carry it out. `IdentifySectors` keeps what the code keeps of a drive's size: the 28-bit count
of a drive without 48-bit addresses, and of the 48-bit count what fits in a uint32_t (`WordSize`), so a drive of 2^32 sectors or more
is smaller to the driver than it is, or has no sectors at all and is left out. `media` is what a read returns, `stable` what a power
loss leaves, and a flush makes them equal.

### AtaPio

One drive. `pc` says which `ata_wait` the driver is in. `status` is the status
register by its meaning (`busy` is BSY, `drq` is DRQ, `error` is ERR or DF, `absent`
a bus that reads 0 or 0xFF, `hung` a drive that keeps BSY until the count of
ata_wait has run out and, by assumption, for good). `Identified` is the reading of
the IDENTIFY page with the 28-bit limit and the checks of the geometry; `Registers`
computes the address registers and `Locate` is the drive's reading of them.
The driver reads the status right after a command, and a drive has 400 ns to show BSY: the status read may be
the one of before (`Late`) if the drive is not `prompt`. `Registers` cuts a sector's number to the byte the register
takes (`ByteSize`), and the product of a geometry is a 32-bit number (`LbaSize`). `Standard` names the drives for which
both do no harm: those that show BSY in time and whose tracks have no more sectors than the register counts. The other
drives are in the model and in the run, where types and `CallReturns` hold for them too; the promise does not. After
a late BSY, `RES_OK` of CTRL_SYNC or of the last sector written may come before the work; on a track of more than
255 sectors two sectors get the same registers, and writing one overwrites the other with `RES_OK`.
Master and slave of one channel share their registers in the hardware; the model has
one drive per channel.

### MyEditor

A row of the grid is the sequence of the characters before its length, since no
reader goes further. Each key is an action that does everything
its helper does (`Join` shifts every row up, `Enter` shifts them down). F1 and F2 are
dialogs: a name, perhaps a question, then the file row by row or byte by byte, with
a failure possible at each call. `files` is the directory as FatFs keeps it: a save
opens with FA_CREATE_ALWAYS, so the file is empty from that moment on. `PowerLoss`
restarts the editor with what is on the disk. What the code does and may surprise:
Backspace at the start of a line leaves the cursor at the end of the joined line, not
at the seam; F3 leaves without asking; a save
that failed leaves `has_unsaved_changes` as it was, so that F2 then drops the only whole
copy without a question; opening and saving a file drops an empty line
at its end; carriage returns are dropped.

### FatVolume

A call is a record `op` whose `pc` names the next access to the disk; everything between
two accesses is one step. `win` is the sector window: `Visit` is move_window when the
sector wanted is another one, `Edit` a change that sets wflag, `Vol` the disk with the
window over it, which is what FatFs sees. A step that wants another sector while the window is
dirty must wait for `SyncWindow`, so the order in which sectors reach the disk is that of the
code. `PowerLoss` keeps `disk` and mounts again; each of the `...Fails` actions is one
access that fails, with what the code's early return leaves behind (an open file with
fp->err set, a cluster that is marked and never linked, a dirty window that the next call
writes). `known` is what the calls that returned FR_OK told the caller of each name.

A cluster is one sector. A directory cluster has `Slots` entries, a name takes one (LongNames has those that take more), a file's
data are `Units` pieces per cluster. Left out: the mark
that ends a table (the reads it saves), the return of create_chain for a cluster whose
chain already goes on (files are written from their start), FAT12 and FAT16, f_read and
f_lseek. Assumed: a write that disk_write reported is on the medium (FlushDurable of
AhciPort and SectorDevice's promise about a flush are what sync_fs adds to that), the data of a file never looks like directory
entries, and FSInfo may be out of date after a power loss: it is a hint.

### LongNames

One directory. An entry is an end mark, a deleted one, a piece of a long name or an object's own
entry. A name is cut into the pieces put_lfn would store; an alias is a body and a number, and
`Sum` its checksum. `Find` is dir_find, `LongText` what dir_read and pick_lfn put together,
`AliasFor` the loop of dir_register over gen_numname, `Room` is dir_alloc, `BlkOfs` the field blk_ofs.
`PutPiece`, `SetEntry` and `Delete` change one entry in the window; `SyncWindow` writes the dirty
sector before another is read, so that a set which crosses a sector border is on the disk in parts.
`DiskFails` ends a call and leaves the window dirty: what the call had done is written by a later
one. `NameTable` says what callers rely on; a removal that is cut short may leave an object with
its alias alone (`Strip`), which the code does when the pieces were deleted and the entry was not.

A name may be opened at any time, also one that looks like the alias of another, and aliases may share
a checksum (`Sum`, 8 bits in the code). What the model then shows: when a call for a long name was cut short after its
pieces had been written, and a file is made by hand whose name is the very alias that call had chosen (`NAME~1`), or one with
its checksum, the new entry may land right behind those pieces and takes over the long name; a second object of that long name may be
there, and after f_unlink of that name has answered FR_OK the other still is. `adopted` is the history of this: an entry
was put right behind a whole name that fits it (`Fits`). Until then the promises hold, and while nothing fails it does not come to it (`NoOrphan`).

The table does not grow (FatVolume grows directories). Assumed: numbers give different aliases (from the sixth
on the code takes hashes); names that differ in letter case alone are one name.

### Volumes

`disk` is what a disk holds, told by what FatFs makes of it: sector 0, the partition table,
and a boot sector at each place where a partition may begin. `pc` is the loop of fs_init
(`initialize`, `mount`, `choose`), the question (`ask`), f_mkfs (`mkfs`, then its writes `vbr`, `fat`,
`mbr` and `sync`), the mount after it, the shell and lsdrv. Whenever a disk is initialised it may
fail, and any sector may turn out to be unreadable in any scan. What the model shows of the code
and may surprise: find_volume forgets that a partition could not be read when another entry
follows it in the table, so a disk whose first partition is unreadable and whose second is not
FAT is offered for formatting (`misread`, in DataKept); where f_mkfs fails on a
disk whose old table names the sector at which it puts the new volume, that half volume mounts
at the next start (`old`, in WholeVolume); after a format that failed, and after the answer no,
the shell works on drive 0; `cd 1:/` changes the directory of volume 1 and not the current volume.
The FAT, FSInfo and the root directory are one write (the writes of FSInfo are not checked in the
code, which may leave a stale FSInfo on a new volume).

### FileCommands

A directory entry is a place (a sequence of names) with a kind; a name is a sequence
of letters because join_path cuts it by letters. A path is kept as text (`Text`), and
looked up from its start by every FatFs call, as in the code, so that `cwd` and the
tree at that moment decide where it leads. `stack` is the stack of calls of
rm_recursive, one frame per call with what f_readdir has still to give. f_unlink
(external) refuses a read-only file or directory, a directory that is not empty and the current
directory. "rm -r ." empties the current directory and then says that it could not be
removed: that is what the code does and `Reason` names it.

### Keyboard, Shell and Console

`Keyboard` is keyboard_getchar on one byte and what each key sends: AltGr is the code
of Alt behind an E0, and arrow keys may bring shifts of their own behind an E0. `Shell` is
a command line on a screen of characters: a command is what it leaves there (`Effects`), and
only the rows from the cursor's down are kept. `Console` lets a user press and let go of keys
in any order; a key may lose bytes (`MaxLost`). `meant` is the command by the keys really
held, `doubt` the flags that a lost byte may have left wrong, `sure` says that no key of the line
was touched by either. The driver has one flag for two Shift keys, so Shift is what the last touch of either
says (`shifting`): with both down, the letter after one is let go is typed without. No doc says otherwise, so the
property states this rule, and checks it in every order. An arrow key types its code into the command, as a
glyph. A name of 96 characters or more, shown by `ls`, leaves ink to the right of the next
prompt, so `LineIsShown` speaks of the cells of the line. The bytes of a key are read before the
next key is touched. shtdwn, rbt and fault end the session and are left out.

### Uptime

Three reads of the clock chip, each an action; at most one tick of the clock falls
between them, since they take microseconds. Registers are BCD and bcdtb decodes them. `Update` is the chip at work on
the next second: the code never asks for the update-in-progress bit, and a register read then may show any byte
(`Undefined`). `time` counts on over the days, so the answer is compared with the time since boot itself. The code keeps no date: a day
after boot the uptime starts again from 0, and a tick between the reads at boot can put the boot into
the future, which the code takes for the day before: some 23 hours of uptime just after boot (`uptime_boot`).

## Runs

| Run | Bounds | What it shows |
|---|---|---|
| `ahci_disks` | 3 ports, the last drive without sectors, any of them skipped, a table of 2, a uint32_t of 2 bits (`WordSize`); 2 sectors (the second beyond the 28-bit limit) on drives of 6 and 1, 2 values | with errors, short transfers and hangs, every success is true; the disk table has the right drives, with their own sizes or, where 32 bits are not enough, smaller ones; errors are final; `BlockDisk` is implemented |
| `ahci_late` (violation) | 1 drive, late answers | a command given up at AHCI_TIMEOUT is not stopped: a late DMA overwrites the buffer of the next write, which succeeds with the wrong data |
| `ata_disk` | an LBA drive of 3 sectors with a limit of 2, sector numbers of 3 and LBA_t of 5, geometries with each number above 1, refused and empty ones, a packet device, a drive with a late BSY, one with a track too long; transfers of up to 2 sectors | `RES_OK` is true and `SectorDevice` implemented for `Standard` drives; every sector accepted gets its own registers (the RES_PARERR inside the loop is dead); every call returns, on any drive |
| `fat_crash` | 4 clusters in 2 FAT sectors, 1 entry and 2 pieces per cluster, 2 names, files of up to 3 pieces, 3 calls, 1 mishap (an access that fails or a power loss) | no cross link on the disk or in FatFs's view at any moment; no mixed file; every reported success survives; no space lost and the free count right while nothing fails |
| `fat_growth` (violation) | the same volume, its free clusters once a directory | a directory grows by a cluster before it is cleared: a power loss leaves a volume whose entries refer to free clusters |
| `long_names` | 6 entries in 3 sectors; two long names of 2 and 1 pieces with the same alias body, a short name whose alias has the checksum of theirs, a name that is one of their aliases; numbers up to 2; 2 mishaps | until an entry takes over a rest: calls change the one object of their name, through failures and power losses in the middle of a set; what is listed is found; `NameTable` is implemented. Without mishaps that never comes, and a removal leaves nothing behind |
| `fs_commands`, tree | two names, one what is left when the other is cut; 5 entries, depth 2, read-only files and directories; paths of 6 letters, so that a directory may leave no room for a name; 4 calls on the stack; a disk that works and one that may fail (`faults`) | only what is below the operand goes; successes are true; failures have one of the code's reasons; the current directory stays; rm -r ends wherever the paths leave room for a name |
| `fs_commands`, volumes | an ATA and an AHCI drive, ten layouts each, tables of 2 entries, 2 starts | the offer to format spares volumes; a half-made volume stays hidden; a mounted volume is on a ready disk; the shell stays on its volume |
| `rm_long` (violation) | paths of 6 letters | a path without room for a name makes rm_recursive call itself until the stack is full |
| `editor_keys` | 4 rows of 2, two letters | the grid is the text: no key loses, doubles or moves a character |
| `editor_files` | 2 rows of 2, two files (swapped by symmetry), eight kinds of contents | successful saves, and loads, are exact; the flags tell what was last loaded or saved; another file and a changed document are replaced only after a yes |
| `console_keys`, keys | a screen of 4 rows of 5, commands of 2 characters, 1 key that loses bytes, 2 layouts | the row of the cursor shows the prompt and the command; the command is what the keys meant |
| `console_keys`, clock | a clock of 2 s x 2 min x 11 h, up to 64 s from a midnight; booted in the first 20 s it runs for more than a day | on the first day the uptime is exact when no tick fell between the reads, and at most an hour off with one |
| `uptime_boot` (violation) | the same | a tick between the reads at boot: almost a day of uptime just after boot |

Why small bounds do: two drives are enough for one to spoil the other's
buffer, and values are only compared. Four rows have a first, a last and two
inner rows, so that shifting in the wrong order shows. Two names of which one is the
head of the other are what cutting needs. The clock's day has hours of
two BCD digits, so that an error of an hour is not the same as one of the rest of the day. In `fat_crash` three calls are enough for a directory to be made,
filled until it grows, and emptied, or for a file to be saved twice; two FAT sectors make the
window move between a cluster and the one that links to it, and two mishaps would add only what
a first one, at any access, had already left (every state after the first mishap is itself checked).
In `long_names` a set of three entries always crosses a sector border, and two mishaps let the
remains of one call meet those of another. One ATA drive and one AHCI drive differ in all that the two kinds differ in. A screen of four rows
is shorter than the logo and `fetch` together, so every command scrolls. Bounds that
are not in the code (`MaxCount`, `MaxNodes`, `MaxDepth`, `MaxTime`, `MaxCalls`, `Mishaps`,
`MaxNumber`, `MaxSize`, `MaxBoots`, `MaxLost`, `MostRows`, `LongName`, one name per command in `Typed`) are named in
the modules.

Deadlock is checked except in `fat_crash` and `fat_growth`, which stop when the calls are used up. In `fs_commands` the
one place to stop is named: the stack that has run over in a directory that leaves no room for a name (`Crashed`;
`rm_long` shows that case).

Fairness: only the code's own steps, and for AtaPio the drive's. The kernel is one
thread without interrupts, so it keeps running; its polling loops are counted, so each
ends, with an answer or without (`Hang` of AtaPio stands for the count having run out).
FileCommands assumes that a FatFs call returns. Nothing else is fair: no
drive has to answer well, no user has to type. Only `ata_disk` and `fs_commands` check
liveness; AhciPort's waits have the same form as AtaPio's.

## Proofs

- `AhciProofs!TypeCorrect`: `TypeOK` for any number of ports, disks and sectors, late
  answers or not. It needs `ProbeOK` (an IDENTIFY is only under way for the port
  being scanned), since the length of the table depends on it.
- `AhciProofs!Integrity`: with `LateAnswers = FALSE`, the three integrity properties and
  the disk table. They are not inductive: that a write is right when it returns rests
  on the buffer not changing while the driver polls (`BufferOK`), on slot 0 holding the
  sector asked for (`SlotOK`, which needs the 28-bit limit and `FisLba`), on the call
  having been checked (`CallOK`), and on a finished command having had its effect
  (`Effect`). `IInv` is their conjunction, each action is one step of the proof. The
  assumption is needed: `ahci_late` refutes the theorem without it. Of a disk's size it says that no sector the driver takes
  is beyond the end of the drive, and that it is the drive's own below 2^32 sectors.
- `AhciProofs!BlockDiskImplemented`: with `LateAnswers = FALSE`, `AhciPort` implements
  `BlockDisk`. Integrity speaks of states, this of steps: a request is answered once, by the
  step that ends it, a drive changes only the sector of the request that is under way, and a
  request given up may be torn but never reports success. Starting the driver, scanning the
  ports and IDENTIFY are stutters. To `IInv` it adds `PendingOK`, what a request keeps of its
  caller while it is under way.
- `AhciProofs!ErrorStays`: the action property `ErrorIsFinal`, late answers or not. The invariant (`FinalInv`)
  is that the driver polls no port with an error and that a port the scan has not reached is untouched, so no
  start of a port clears an error.
- `AtaProofs!PromiseKept`: `AtaPio` implements `SectorDevice` for any drive that is `Standard`, any length of a transfer
  and any failures; `TypeCorrect` and `EverySectorAddressable` come from the same invariant. Nothing is said of the other
  drives, for which the promise is false (see AtaPio above); a drive stays what it is (`PageStays`), so the invariant is
  `Standard(page) => AInv` (`Known`). `AInv` says, for each place where the driver waits, what the drive can be working
  on and which sectors of the call are done (`Waits`): a `RES_OK` is true because each earlier
  sector is on the medium and nothing since has touched it. A sector number turned into cylinder, head and
  sector and back is the sector itself by division with remainder, and is in range
  for every sector that the check at the start of ata_transfer lets pass.
- `EditorProofs!GridCorrect`: `TypeOK` and `Shape` for any grid, alphabet and files.
  `IInv` adds to `Shape` the same for `load_buffer`, which becomes the document when a
  load succeeds, and that the dialogs leave the document alone.
- `EditorProofs!FlagsNeverStale` and `QuestionsFirst`: `FlagsTell` and `AskedFirst` for any grid, alphabet and files. Both speak of the
  history and not of the code's flags: `kept` is the document as it was after the last load or save that succeeded, `home` the file
  of it. `Asked` is what the dialogs have established when a file is opened; with `FlagsTell` it becomes a fact about the history.
  They do not say that `kept` is in a file still: a save that failed may have emptied it.
- `EditorProofs!EveryKeyEdits`: what each key does to the text, for any grid, alphabet and files. The text is the rows
  joined by line breaks, so a key is right when what is ahead of the row it changes stays (`SameAhead`), what is behind
  stays although the rows move up or down (`SameBehind`), and the row in between is the old one with a letter more, less,
  or a line break (`TypeSim`, `BackspaceSim`, `EnterSim`, `JoinKeySim`). The arrows need more than the text: `PlaceIs` says that a place of the
  text is a line and a column of the grid and `LinesApart` that the next row is one line break further, since no character of
  a row is a line break (`EditorAssumption`: a printable character is none of the bytes that end a line).
- `EditorProofs!EditsOneText`: `ImplementsText`, from the same lemmas, as long as no file is opened: a file that is opened
  is another text, which EditorText does not have. `EditsOneTextWithoutFiles` says it of an editor without files, as the run does.
- `EditorProofs!SavesExactly`: `SaveIsExact`, for any grid, alphabet and files. `SaveOK` says that the file written so far,
  without its carriage returns, is the text ahead of the next row. A row adds its own text (`KeptMore`: leaving out the carriage
  returns of two files put together is leaving them out of each), and the last one adds no line break (`PieceKept`).
- `EditorProofs!OpensExactly`: `OpenIsExact`, under the same generality. `ReadOK` says that the lines of load_buffer, put together, with
  a line break behind them when one is pending, are the bytes read so far without carriage returns, and that a line
  but the first was only started for something: so what LoadEnd installs is the text of the file (`LoadTextTrimmed`), and it fits
  (`GridFits`). That nothing else is refused is the other half: what was read and the byte in hand begin the text of
  the file, whatever follows (`TrimmedKeeps`), and lines and columns do not change with what is added behind them
  (`AddedBehind`), so a text that begins with a row too many or a column too many does not fit (`PartFits`).
- `FileProofs!CurrentDirectory`: `CwdAlive` for any names, buffer size, stack size and
  disk. Removing an entry keeps the parents of all others only because what is
  removed has nothing in it, so the invariant (`TreeInv`) also says that every entry has a
  directory around it.
- `FileProofs!SubtreeOnly`: `OnlySubtree`, under the same generality. The invariant
  (`StackInv`) is that every path on the stack is the operand with more behind it, which
  join_path keeps whatever it cuts (`JoinBelow`); with the current directory unchanged
  while rm -r runs (`TreeInv` gives its type), such a path leads below the operand.
- `FileProofs!SaidAndDone`: `RemovedMeansGone`, under the same generality. f_unlink takes a
  file or an empty directory, and that nothing at all is left below it rests on `Nested`: whatever
  an entry lies in is a directory, all the way up, so that an entry deep below would mean an
  entry directly below. `ToldInv` adds that rm -r has said nothing while it runs.
- `FileProofs!TypeCorrect`: `TypeOK` (of which `CwdAlive` is a part), under the same generality. The point is that every path fits
  in subpath[]: `JoinFits` computes the width of what join_path returns. `Width` is a recursive
  function; that it exists (`WidthExists`) and what it does when a name is appended (`WidthAppend`)
  are proved by induction over the places of its table (`Induction`). `FileAssumption` says that a name FatFs
  returns (255 characters at most) and a lead fit in the 279 characters of subpath[].
- `FileProofs!FailuresExplained`: `FailureExplained`, under the same generality. As long as no reason is in
  sight (`NoReason`), every running call is at an entry the tree had from the start, under its whole
  name (`Way`, `NotCut`), and whatever is still in a directory that is being emptied is still to be
  read or is what the next call is at; so a call that ends finds its directory empty and f_unlink
  does not refuse (`GoodStep`).
- `ConsoleProofs!UptimeCorrect`: `UntornIsExact` and `TornWithinHour` for a clock with any lengths of
  a minute, an hour and a day and whatever the chip shows during an update (`ClockAssumption`). `ClockInv` says of which second each register is:
  the minute is that of a moment between the start of the reading and now, with one tick in between at most. The answers are compared
  with the time since boot itself and not modulo a day; the first day, readings that met no update, and, when the tick fell
  between the reads at boot, all but the first hour are what that is true of. `uptime_boot` refutes it for the rest.
- `ConsoleProofs!CommandIsShown`: `LineIsShown` for any screen, command length and layout. `Shown` says
  of every cell left of the cursor what it holds, and that its row is on the screen. The loop of
  print is a recursive function, taken apart with `Induction`.
- `ConsoleProofs!LineMeant`: `LineIsMeant`, from `Shown` and `KeysOK`: each of the three flags, and the line,
  will be right once the bytes that wait have been read, unless a lost byte has put it in doubt. With two Shift keys the flag is the last touch
  of either, as `shifting` is, in every order.
- `FileProofs!FormatSparesVolumes`, `UnfinishedIsHidden`, `NeverMountedBehind` and `WorksOnChosenVolume`:
  `DataKept`, `WholeVolume`, `MountedIsReady` and `CurrentIsMounted` for any
  drives, partition tables and starts. The names of Volumes (`VolumesSpec`) let one module extend it and FileCommands. `Inv` says what fs_init knows in the middle of its
  loop: nothing is written yet, no volume from the loop's place on is mounted, and when no error but
  "no filesystem" was noted the first ready disk was seen to hold none (`FirstInv`, which rests on
  `NoFilesystem`: a scan that ends so has read every entry that is not in `misread`). While a
  format runs, the table is still the old one until the FAT is written (`FormatInv`, `TableInv`).

- `FatProofs!NeverCrossLinked`: `NoCrossLink` for any number of clusters, FAT sectors, entries, pieces
  and calls, any access that fails and any number of power losses. It assumes `Clean`: the free clusters of a new volume
  hold no entries that name clusters. The assumption is needed: `fat_growth` refutes soundness without it.
  Soundness is not inductive on the disk and in the window alone, because a clean window
  may give way to what is on the disk under it. So `IInv` speaks of `Views`, the volumes FatFs may see once the window has
  moved, and of every cluster and not only of those a path leads to (`GSound`): the recursion over chains in
  FatChecks is then needed only to see that what can be reached is a cluster. `Facts` says what the call
  that runs may rely on in every view: the cluster it has taken is marked and nothing refers to it (`Fresh`), the one it is about to
  free is referred to by nothing (`Loose`), the entry found still names the cluster found. `WindowInv` says that
  no table is in the window once the open file has clusters, since data go to the disk past it.
  `Mark`, `LinkTo`, `Unlinked`, `Named`, `Unnamed` and `Erase` are the six changes
  a step can make to a volume; each action is one lemma that finds its change among them.
- `FatProofs!VolumeTyped` and `FatProofs!FreeIsCounted`: `TypeOK` and `FreeCount`, under the same
  generality, from `CInv` on top of `IInv`. `Typed` also says what the window and the cluster that a call holds
  in its hands contain. The count goes down when a new cluster is linked and not when it is marked, so what
  is exact at every step is the count less the cluster a call has marked (`Counts`, `Pending`); a cluster is only ever
  freed when it is in use and linked only when it is marked (`InUse`), which is what keeps the
  count from drifting; and FSInfo is right or `fsi_flag` is set (`Counted`).
- `FatProofs!NothingMixed`: `NotMixed`, under the same generality, from `DInv` on top of `IInv` and `CInv`. It
  speaks of the disk and of what FatFs sees, of every entry in any cluster: the data of a file are those of one
  call, in order, on clusters that exist, and a directory has its dot entries (`FilesWhole`). What the open file has
  written is not yet under its name, so the invariant carries its chain as a sequence (`IsChain`): no entry in either
  volume leads to a cluster of it (`Unfiled`), and it has as many as the size needs, one more while f_write is between
  create_chain and the data (`HasRoom`). Piece k of the file is piece k of this save, on the disk or, if it is of the
  last cluster and `FA_DIRTY` is set, in fp->buf (`HasData`). f_sync then puts an entry into the window for data that are
  all on the disk. For directories `Growing` says that a cluster being linked ends its chain and is led to by nothing in
  either volume, and that the one mkdir has taken keeps its dot entries. What remains is a frame: a step that writes past the window
  writes to clusters no entry leads to, and one that changes a link changes it in a chain that no file has (`FileStays`).
- `FatProofs!NothingLost`: `NoLostCluster`, under the same generality, from `EInv` on top of the other three. While
  nothing has failed (`Plain`), every cluster that is not free is led to from the root, or from what the running call or the open
  file holds (`Owned`, `Held`): the file that has no entry yet, the rest of the chain that remove_chain is in, the cluster
  create_chain has marked and not linked, the one mkdir has taken. Being led to is said of every set of clusters that is closed (`OwnSet`, `TreeSet`),
  so a step is checked against a set and not against a path; a step that cuts a link must show that what hung on it
  is held now. For a directory that is removed this needs what f_unlink has read of it: every cluster of its chain, and no entry in use in them
  (`Emptied`); for an entry that goes into a directory, that the directory is still in the tree (`Path`). In the end `Chain` and `Dirs` of
  FatChecks are shown to be closed, although they are cut off after as many steps as there are clusters: a set that
  grows at each step would have more clusters than the volume (`Saturates`).
- `PromiseProofs!PromisesKept`: `KeptPromise`, under the same generality, from `TInv` on top of `IInv`, `CInv` and `DInv`.
  It assumes `Nameless`, more than `Clean`: the free clusters of a new volume hold no names at all. The code does not see to that, and the
  theorem is false without it (TLC refutes `KeptPromise` on the volume of `fat_growth`): a directory grows by a cluster
  before dir_clear has reached the disk, and after a power loss in between, names of an old directory are in the new one, one of which a call
  may have reported as absent. Afterwards it is the code that keeps free clusters without names: f_unlink frees
  what it has read to be empty, and no data looks like names (`Tidy`, `Spare`). `TInv` says of the disk, and of what FatFs sees over it,
  that no directory has a name twice and that what was told of each name is so (`Promised`). The clusters of a directory are the least set
  that its first cluster is in and that links do not lead out of (`Line`, which `ChainIsLine` shows to be what `Chain` computes), so
  that a step compares sets: most steps only let directories grow by clusters without names (`Grows`)
  and leave all file data alone (`SameUnits`); a step that changes an entry changes the one of a name of which nothing is told any
  more (`Puts`). For dir_register to put a name at most once, the search must have been complete: `Searching` says that whatever has the name is
  still ahead of it. When a call reports FR_OK the window is clean,
  so what it knows of its entry and its data (`Aim`, `Delivered`) is already on the disk (`TellPromised`).
- `LongNamesProofs!TablePromiseKept`, `EveryNameFound` and `NothingOrphaned`: `ImplementsNameTable`,
  `ListedIsFound` and `NoOrphan` for any names (also such that look like aliases), aliases, checksums (also shared ones),
  table, sectors, failures and power losses. The first two are about the time until an entry is put right behind a rest that
  fits it: the invariant is `adopted \/ IInv` (`Guarded`). That this needs a call cut short before it is part of `NothingOrphaned`: while nothing
  fails there are no rests. What is assumed (`NameAssumption`) is that texts differ and that names which need no number have different short forms. `LongText` looks for the
  start of a set with CHOOSE and compares orders and checksums, which says nothing of which name the pieces are of; so the
  invariant says that the pieces behind one marked LLEF are one name's under one alias, without a
  gap (`Whole`). Then an entry shows the long name n just when all pieces of n are right in front of it
  (`Tied`, `TextMeans`). Two entries never have the same alias nor the same long name (`Distinct`), so a
  search finds one (`FindIs`). `Table` holds of the window and of the medium at every step, which is
  why a power loss needs no argument of its own. `Made` describes an object whose set is half written, `Removing` one
  whose set is half deleted; `PutTable`, `NewTable`, `OldTable` and `DeleteTable` are what one changed slot does
  to a table, and the refinement reads off what they do to its objects.

`Upto` in EditorChecks, the text of the rows down to one, and `first` in `WithoutReturns`, what is left of the bytes up to one,
are recursive functions too. That they exist (`JoinExists`, `KeptExists`) and what one row and one byte add
(`RowByRow`, `KeptSteps`) are proved by induction over the rows and the bytes.

Every invariant and every action property that the runs check is proved. Only model-checked: that calls return
(`CallReturns` of AtaPio and `CommandReturns` of FileCommands), since liveness is beyond the prover.

## Plan

`Trap`: the stack frame of the stubs against `registers_t`; `Numbers`: decimal, hexadecimal and BCD
conversion against reference definitions.

## Not modelled

Colours, themes, the layout and wording of messages; the date; CPUID and the memory map; the
speaker and the shutdown port; the boot code; descriptor tables, which are constants. The PCI
search for the AHCI controller is a choice between finding one or not. `secondary_transfer` is a
loop over ahci_read and ahci_write with a bounds check and adds no state to AhciPort. Cut names
that FatFs would take for the short alias of another entry are left out of FileCommands, as are
letter case and trailing dots.

Of FatFs, most lines are not part of this program or hold no behaviour: exFAT, FAT12 and FAT16
tables, relative and string functions that ffconf.h switches off, the options and type definitions
of ff.h, and the code page tables of ffunicode.c (10908 lines, of which one table and the conversion to upper case are compiled in). So
is much of what is left in kernel.c and vga.c: help texts, themes and logos.
