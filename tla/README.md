# Verification of the Bloom-OS kernel

Bloom-OS is a UEFI boot loader and an x86-64 kernel in C with a shell, a
graphical file explorer and a music player.  It has one CPU, one thread and no
processes.  Its concurrency is the main loop against three interrupt handlers
(timer, keyboard, mouse), and the main loop against devices that work on shared
memory (xHCI, NVMe, HDA) and against a user who plugs drives in and pulls them
out.  There is no test suite; `README.md` of the repository is its only
documentation.

Everything here is translated from the source.  TLC checks the configurations
on small instances, TLAPS proves the theorems for every value of the constants.

## The system

| part | state | operations | what makes it correct |
|------|-------|------------|-----------------------|
| `pmm.c` | bitmap of pages, free counter | `InitPmm`, `AllocPage`, `AllocPageBelow4G`, `FreePage` | no page has two owners, none is lost, the counter agrees with the bitmap |
| `xhci.c` | controllers and their pages, device table, rings, contexts | start, port scan, enumeration, control and bulk transfers, recovery | a controller reaches only pages that are its own; a port has one device; a transfer is answered by its own completion; a timeout leaves the ring usable |
| `usbmsc.c` | LUN table | attach, detach, bulk-only commands, read | a LUN entry is bound to one block device; a read reaches the right drive |
| `blockdev.c` | block device registry, bounce buffer | register, remove, read | an index names one drive for the session; a read in 512-byte sectors returns those sectors |
| `part.c`, `fs.c` | partition and volume tables, current directory | partition scan, mount, path resolution | a new drive is scanned and mounted once; the current directory stays on its volume |
| `fat32.c` | per volume: FAT sector buffer, sector buffer, file cursor; pieces of a long name | mount, list a directory, look a name up, read a file | a read returns the file's bytes whatever was read before; a file has the name that was written for it |
| `nvme.c`, `ahci.c` | submission and completion queues, command slot | controller start, read | a status belongs to the command it is returned for |
| `keyboard.c` | modifiers, locks, prefix, ring of keys | interrupt handler, `KeyboardGetKey` | keys arrive once, in order; no modifier sticks |
| `mouse.c`, `ui.c` | packet in progress, sums, press latch | interrupt handler, `MouseGetDelta`, `MouseTakePressed` | packets realign, motion and clicks are reported once |
| `hda.c` (codec) | rings of verbs and responses, lists of converters and pins | send a verb, walk the widgets, route the pins, set up the stream | an answer is that of its verb; every pin that is on hears the stream |
| `hda.c` (stream), `player.c` | ring of 32 pages the codec plays, file position | open, fill, start, poll, stop | the codec plays the file's pages in order, and playback ends |
| `wav.c` | position in the file, format found so far | parse the chunks | the data lies in the file, and the walk ends |
| `console.c` | text grid, cursor, rows touched since the last flush | put a character, scroll, erase, flush, clear | the screen is the grid; a print comes to its end |
| `shell.c` | input line, ring of earlier lines | line editing, recall, commands | what Enter executes is what is shown |
| `explorer.c` | list, selection, scroll, what is to be drawn, the track | key and mouse handlers, autoplay | selection and scroll stay in range and on their entry; the screen is current |
| `viewer.c` | text, its rows, window, search | scroll, switch views, search | the rows are the text; a search finds what there is, in order |
| `pci.c` | none | four searches of configuration space | every controller is found, once |
| boot loader | memory map and its key | load the kernel, leave the firmware | the kernel starts with the current map on a machine that is its own |
| `idt.c` | handler table, tick counter | dispatch, `Sleep` | handlers run one at a time |
| `kernel.c`, `power.c`, `gfx.c`, `klog.c`, `errors.c` | boot order, ACPI tables, drawing | run once | - |

The parts call each other downwards: the shell and the explorer call `fs.c`,
which calls `part.c` and `fat32.c`, which read through `blockdev.c`, which calls
the driver a device was registered with.  `CmdUsb` in the shell starts a USB
scan and mounts what it finds.  Interrupt handlers share only the key ring and
the mouse sums with the main loop.  All buffers come from `pmm.c`.

## Modules

A component's module names its variables and operators after the C code.  A
module `MCx` gives the constants of `x` small values; `MCBoot`, `MCInput`,
`MCDisks`, `MCUsb`, `MCFiles` and `MCAudio` do so for several components at
once.  `HotPlugProofs` holds the theorems of a component, `BootProofs`,
`XhciStartProofs`, `InputProofs`, `DisksProofs`, `UsbProofs`, `FilesProofs` and
`MusicProofs` those of `MCBoot` (in two parts), `MCInput`, `MCDisks`, `MCUsb`,
`MCFiles` and `MCAudio`, which are proved with the constants left open; only the
configurations give values.  An operator whose comment begins with "Mutant:" is
a wrong version of the definition below it, kept to show that a property
notices the mistake; nothing else uses it.

| module | code | state and steps |
|--------|------|-----------------|
| `Pmm` | `pmm.c` | `clear` is the set of clear bits of the bitmap, `FreePages` the counter, `held` what callers have.  `ScanEntry`, `PlaceBitmap`, `ClearEntry`, `MarkBitmap`, `ReserveLow` are the loops of `InitPmm`, an iteration per step; then `AllocPage`, `AllocPageBelow4G`, `FreePage` in any order. |
| `HotPlug` | `CmdUsb` (`shell.c`), `UsbScan`, `ProbeLun`, `DetachDevice` (`usbmsc.c`), `XhciRescan`, `EnumeratePort` (`xhci.c`), `blockdev.c`, the mount of new partitions | `dev`, `lun`, `blk` are the three tables and how they point at each other; `plugged`, `csc` are the ports, which the user alters between any two steps; `addressed` says which drive really answers. |
| `KeyRing`, `KeyQueue` | `PushChar`, `KeyboardGetKey` (`keyboard.c`) | one access to `KeyBufferHead`, `KeyBufferTail` or the buffer per step, the interrupt between any two.  `KeyQueue` is the abstract bounded queue that drops what does not fit; `KeyRing` refines it. |
| `Keyboard` | `KeyboardIrqHandler` | modifiers, locks and the prefix, byte by byte; what the user presses is the history the result is compared with. |
| `Mouse` | `MouseIrqHandler`, `MouseGetDelta`, `MouseTakePressed`, `UiPollMouse` | the packet in progress and the sums; the main loop's accesses one by one. |
| `FatRead` | `NextCluster`, `FatReadAt`, `FatListDir` (`fat32.c`) | the buffered table sector, the cursor left by the last read, and a call in progress sector by sector; any sector may fail. |
| `FatNames` | `FatBootSectorValid`, `FatMount`, the entries in `FatListDir`, `BuildShortName`, `FatLookup` (`fat32.c`) | the volume's regions; a folder is its entries as their writers left them, and the pieces of a long name wait for its file. |
| `BlockRead` | `BlockReadFrom` (`blockdev.c`) | one driver call per step, direct or through the bounce buffer; `Buffer` is what has arrived where. |
| `Nvme` | `SubmitIoCommand`, `NvmeReadSectors` (`nvme.c`) | both queues, their indices and phases; the controller fetches and completes in any order. |
| `Ahci` | `ahci.c` | the registers of a port (`PxCMD`, `PxCI`, `PxIS`, ...) and the driver's waits; the engine comes up some time after ST is set, and an error halts it (`Halted`); the disk takes, does or fails commands. |
| `Xhci` | `RingPush`, `PopEvent`, `BulkTd`, `Command`, `RecoverEndpoint`, `XhciClearHalt` (`xhci.c`) | one transfer ring and the event ring with their cycle bits, the endpoint's state; the controller runs, fails or is slow. |
| `Enumerate` | `ResetPort`, `EnumeratePort`, `ParseConfig`, `ConfigureEndpoints`, `XhciRelease`, the removals of `XhciRescan` (`xhci.c`) | a device entry, its slot and its memory, a request per step; a device may be pulled out, a request fail, be short, or be given up and take effect later. |
| `XhciStart` | the first part of `XhciRescan`, `ControllerInit`, `DmaContiguous` (`xhci.c`) | `hw` is the controllers with what their registers lead to, `Ctrls` the driver's entries; a page is taken per step from `Pmm`, in which others have left holes. |
| `Pci` | `PciFindByClass`, `FindAhciController`, `FindHdaController`, `FindNvmeController` (`pci.c`) | the walk, a function of a device per step, and the repeated search of `XhciRescan`. |
| `Bot` | `Bot`, `ResetRecovery`, `Sense`, `MscRead`, the wait for readiness (`usbmsc.c`) | what the drive still has for the host, the tag, the attempt; the drive may fail, stall or lose anything. |
| `PartScan` | `part.c` | the walk over an MBR's chains of boot records or a GPT's entries, sector by sector, and the table of partitions found. |
| `Fs` | `fs.c` | the volume table, the current directory as the text the code keeps and (history) as the directory that was entered. |
| `Audio` | `player.c`, the `HdaStream` functions of `hda.c` | the ring of pages, the file position, the count of pages played; the codec goes on between any two steps, and what it plays is the history. |
| `Wav` | `WavParse` (`wav.c`) | a chunk per step; sizes are what the file says, positions wrap as 32 bits do (`Modulus`). |
| `Codec` | `WalkWidgets`, `RouteOutputPins`, `ConnectPathToDac`, `SetupStream` and the rest of `HdaInit` after the reset (`hda.c`) | the graph of widgets, and which input each one was switched to. |
| `Corb` | `SetupCorbRirb`, `SendVerb` (`hda.c`) | both rings and their pointers; the codec answers in order, late if it is slow, and sends responses nobody asked for. |
| `Console` | `console.c` | operators on a record: the grid, the cursor, the rows marked for drawing, and the screen. |
| `Shell` | `ShellRun`, the history (`shell.c`) | the line, the ring of lines, a key per step; a command prints, clears, or draws over the console. |
| `Viewer` | `viewer.c` | the bytes read, the rows cut from them, window, search and match; a key or click per step. |
| `Loader` | `efi_main` (`src/bootloader/main.c`) | the stages, then the attempts to leave the boot services, a firmware call per step; the firmware changes its map in between. |
| `Explorer` | `explorer.c` | list, selection, scroll, settings, the track; `dirty` is what `Flags`, `RowDirtyA/B` mark, `screen` what was drawn.  A round of `ExplorerRun` is a key, a click, the player, drawing. |

`HotPlug` stands above `Xhci`, `Enumerate`, `Bot`, `PartScan` and `BlockRead`:
each of its calls into them is a success or a failure, and those modules show
what makes it one.  `XhciStart` runs over `Pmm` itself, by extending it.
`FatRead` reads sectors as `BlockRead` promises them, `FatNames` goes through
entries in the order in which `FatRead` lists their sectors, `Fs` resolves paths
over directories so listed, `Audio` reads files as `FatRead` does and within the
bounds `Wav` gives, `Explorer` starts and asks the player that `Audio`
describes, and `Shell` draws on `Console`.

## Runs

Components that share no state are checked side by side in one run: the `MC`
module extends one of them, instantiates the others, and chooses at the start
which of them a behaviour is about (`part`, which never changes; the variables
of the others keep their first values).  The states of such a run are the sum
of its parts' states, not the product, and a property of one part says about it
what it would say in a run of its own.  `MCParts` in the configuration names the
parts.

Properties that together make one promise are joined under one name:

| property | consists of |
|----------|-------------|
| `StateSound` | the type invariants of the parts, with what ties their variables together: `RingSound`, `NoStuckModifier` (input), `AnswersItself`, `SuccessHasSectors`, `NumbersDistinct` (disks), `OnlyCurrentRuns`, `CycleTellsNew`, `BackInStep` (usb), `SelectionOnScreen`, `VolumesDiffer` (files), `PositionExact`, `NeverAhead`, `NotWhilePlaying` (audio) |
| `PagesAccounted` | `FreeCountExact`, `NoPageLost` |
| `CodecRight` | `PinsPlay`, `PinsFound` (`Codec`) |
| `ControllersRight` | `AnswerIsOwn`, `AnswersInOrder` (`Corb`); `EachFoundOnce` (`Pci`); `OnlyOwnPages`, `BounceIsBest` (`XhciStart`) |
| `MouseRight` | `Realigns`, `MotionOnce`, `ClickOnce` |
| `ShellRight` | `LineShown`, `ScreenFollows`, `HistoryRight` |
| `ListsWhatTheDiskSays` | that of `PartScan`; `GeometryAgrees`, `NamesRight`, `LookupRight` (`FatNames`) |
| `AnswersAreOwn` | `OkIsOwn` (`Xhci`), `ReadIsOwn` (`Bot`) |
| `DriveIsReal` | that of `Enumerate`; `PacketSizeKnown`, `FreshDriveIsFound`, `MemoryIsHeld` |
| `PathsRight` | `CwdIsEntered`, `ResolvesLikeTheTree`, `IndexesStay` (`Fs`) |
| `SelectionKept` | that of `Explorer`; `AutoplayFollows` |
| `ScreenCurrent` | that of `Explorer`; `ViewDrawn` (`Viewer`) |
| `SearchRight` | `FoundIsMatch`, `SkipsNone`, `WindowFollows` (`Viewer`) |
| `DataInFile` | that of `Wav`; `HeadersAreHeaders` |
| `PlayedRight` | `HeardInOrder`, `FinishedIsPlayed` (`Audio`) |
| `CallsReturn` | that of `FatRead`; `ReadAnswered`, `InitEnds`, `ScanReturns` (disks); `TransferReturns`, `CallReturns` (usb); `ReadEnds`, `PlaybackEnds` (audio) |

`ScanAgrees`, `ReadsRight` and `NothingElse` are such conjunctions within their
modules.  In `boot` and `hotplug` the type invariant of `Pmm` and `HotPlug` is
left to its proof.

| run | bounds | shows |
|-----|--------|-------|
| `boot` | four maps of about ten pages, one page of the bitmap covers four | pages are unique, safe and not lost through every order of calls; every loop of `InitPmm` and its early return is taken |
| | three attempts to leave the firmware, four changes of its map | the map is outgrown, is changed by the buffer allocated for it, and by others, in each attempt |
| | rings of 2 and 4 places, five verbs, two unsolicited responses | both rings come round; a late answer meets the next verb |
| | two converters, two pins, three widgets between, ways of depth 3 | ways that share a widget, end at a digital converter, are too long or in the long form; a pin without a way |
| | two buses of two devices of two functions, three xHCI controllers wanted | devices of one function that answer for both, gaps, more and fewer controllers than wanted |
| | 15 pages below 4 GB, the others hold up to two, a bounce buffer of 3 pages for 16, 5 tries for 96 | a controller is given up at each of its steps and another takes its entry; a run of pages is whole, broken, or not found |
| `hotplug` | two ports, a flash drive, a reader with two slots, one card, tables of two entries, three acts of the user | the tables agree, a read reaches the drive it was bound to, indices are not reused; after a scan that nothing disturbed every drive that is there is served and none that left is online; each scan returns.  The tables are small enough to be full |
| `input` | ring of four places, two keys; four events of twelve keys; three mouse packets, one lost byte | the ring refines the queue: four places wrap twice within the run and are full with three keys.  The twelve keys are those whose codes share prefixes or are wrapped in others (grey keys, Pause, Print Screen, both shifts, locks).  One packet to go wrong, one to realign, one that must be right |
| | a console of five columns and three rows, lines of seven, two earlier lines, six keys, two prints | a line goes round the end of a row and scrolls, is erased back over it, recalled and replaced by a longer or shorter one |
| `disks` | NVMe queues of three, five commands; three SATA ports, two sectors; two chains of up to four boot records, the chain limit 3 for 4096, two sector sizes, partition tables with room for 0, 2 and all | the NVMe queues wrap, so the phase turns, and any wait may be given up; the SATA port is found and its engine stopped and started from every state the firmware leaves (stopped, running, halted by an error); all links between boot records, also back and across chains |
| | pieces of two characters, three pieces to a name, names of five characters (`FAT_NAME_MAX` 6), three entries to a sector, folders of one or two of twelve pieces, two calls, 2^20 for 2^32 | names that fill their pieces, are cut, or are not ASCII, that lost their first or a middle piece, that belong to a deleted file and meet a file of the same or another checksum; sector sizes 512, 1024 and 4096 |
| `usb` | transfer ring of three or seven places and the link, four, three or two transfers, event ring of three; two calls of the protocol, two tries of readiness for 25 | the rings wrap and the cycle turns at every offset within a transfer of two TRBs; recovery after stall, error and time-out.  Everything one call of the protocol can leave behind in a drive meets the next call |
| | two ports, two device entries, four slots, three scans, two faults | both entries taken, a device exchanged between scans, one fault after another in one device, or a fault and what it leaves for the next |
| `files` | clusters of two sectors of two bytes, four table entries to a sector, reads of up to five bytes | reads cross byte, sector, cluster and table sector boundaries; a damaged chain and one that ends early are there |
| | paths of up to three names, three deep, five components, two volumes to a page | all kinds of paths from all current directories while volumes are mounted |
| | three rows, four items with a hidden one, two volumes | keys, clicks and the player in each round, all orders |
| | eight texts of up to 12 bytes, three rows of five columns, six lines, search texts of two characters | rows end at line ends, in the middle of a line, at a tab, before a wide character; too many lines, too many bytes |
| `audio` | sector ratios 1, 2, 4, 8, counts to 7, devices smaller than a request | reads that begin and end inside a larger sector, are split by the transfer limit, or pass the end |
| | positions modulo 128, four chunks, sizes to 127 | chunks that end before, at and behind the end of the file, and that wrap |
| | ring of four pages for the 32, songs of more than a ring and of less than a page, partial pages | the heard pages are the song's in order, also over songs that replace each other; a main loop that is away too long |
| `fat_folder`, `double_click`, `ahci_after_error`, `tab_hang`, `usb_retry` | as `files`, `files`, `disks`, `input`, `usb`, the part concerned | the five disagreements below |

The passing runs take between half a minute and a minute and a half each with
two workers.  The bounds on events, commands, calls, faults and transfers
(`MaxEvents`, `MaxPackets`, `MaxCommands`, `MaxOps`, `MaxHw`, `MaxKeys`,
`MaxPrints`, `MaxVerbs`, `MaxCalls`, `MaxFaults`, `MaxChanges`, and those in
`Sessions`) only end a run.  Where they do, and where all that was to be done
is done (`Pmm`, `PartScan`, `Ahci`, `Codec`, `Pci`), the configuration turns the
deadlock check off: `boot`, `input`, `disks`, `usb`.  The other runs check it,
with a step that stands for the caller of a parser or a viewer that has
returned (`WavEnded`, `ViewerClosed`).

Some properties hold up to an event or in some sessions only, and say so.
`AnswersItself` and `SuccessHasData` of NVMe hold while no wait was given up
(history variable `gaveUp`); `PhaseTellsNew` always.  `AnswerIsOwn` of the
verbs holds with a codec that answers in time, `AnswersInOrder` always.  The
exactness of the player's count holds until the main loop has been away for
longer than the ring lasts, 0.17 to 4 seconds of sound (`missed`).  An xHCI
session (`session`) fixes what may be slow: nothing, transfers, or commands
too.  In the last the ring is large enough that the controller is not overrun,
which nothing in `RingPush` prevents, and a command that takes effect late may
set the controller to a place of its own, of which `OnlyCurrentRuns` does not
speak.  `MemoryIsHeld` of `Enumerate` speaks of sessions in which no command was
given up.

### Fairness

Liveness needs that the one kernel thread keeps running and that devices do
their part: weak fairness of the scan (`HotPlug`), of the call in progress
(`FatRead`, `BlockRead`, `Bot`, `PartScan`), of the main loop's poll and the
codec (`Audio`), of the driver's waits and the controller (`Nvme`, `Xhci`), of
start-up, read loop and disk (`Ahci`), and of a command that prints (`Shell`).
`Fairness` or `FairSpec` in a module names it; `MCDisks`, `MCUsb`, `MCFiles`,
`MCAudio` and `MCInput` state the same for the part a behaviour is about.
Nothing pre-empts the thread but interrupt handlers, which return; the waits of
`xhci.c` and `usbmsc.c` are bounded by the clock or by a count of turns, so
that weak fairness of their time-out is what the code has.  `ReadAnswered` of
NVMe does not even rest on the time-out: the controller answers.  The waits of
`ahci.c` have no bound: that reads return at all (`ReadReturns` of `Ahci`, in
`CallsReturn`) rests on the disk, and after an error not even that helps (below).  Users are never fair: they need not act
at all.

### Where the code and its documentation disagree

Each of these is a run that TLC must find violated.

- `fat_folder`: a table sector that cannot be read looks like the end of the
  folder, and the listing is a success.
- `ahci_after_error`: after a task file error the engine is not restarted, and
  the next read spins for ever.  `ReadAfterErrorReturns` speaks of such reads
  only; those before return, also one issued before the engine is up (`disks`).
- `double_click`: one click on a row counts as a double-click when the list
  changed since the first.
- `tab_hang`: a tab printed in the last columns of the console is never left;
  `cat` of a file with such a tab stops the system.
- `usb_retry`: a USB 3 drive whose enumeration failed once behind Address
  Device is not found by any later scan until it is pulled out.

### Known limits

What the code does not do, seen in the models; no line of the repository
promises otherwise, so the properties except it and say where.

Hot plug and USB:

- `part.c:340`: a drive is marked as scanned before its first sector is read.
  If that read fails, the drive is not mounted while it stays plugged in; the
  step `MountNew` of `HotPlug` has it.
- `usbmsc.c:487`: a card put into a slot of a reader that is already attached
  is not probed.  `ScanAgrees` excepts `Readers` (in `PluggedIsServed`).
- `usbmsc.c:487`: a drive of several units of which one answered counts as
  attached, and later scans do not ask the others again; `PluggedIsServed` asks
  for one unit of each drive.
- `shell.c:884`: `usb` has room for 32 new drives.  What one scan finds beyond
  that is registered and never mounted; `EveryDriveOffered` speaks of machines
  that register no more than that.
- `xhci.c` (`XhciRelease`): after Disable Slot was given up, the memory of a
  slot that may still be enabled is freed, and an Enable Slot that takes effect
  late leaves a slot nobody has; `MemoryIsHeld` speaks of sessions without.
- `xhci.c` (`XhciControl`): a short answer is returned as if it were whole, and
  the rest is what the buffer held before; `PacketSizeKnown` excepts devices
  that answer short.
- `xhci.c:1295`: the controllers are looked for once.  One whose start failed
  is never tried again and never gives back its pages, and may still run on
  them; `OnlyOwnPages` says that nobody else gets these.  That the firmware does
  not let go of a controller in time is logged and ignored.
- `xhci.c:146`: 96 tries may end with a small bounce buffer although a larger
  run of pages is free; `BounceIsBest` excepts it.

Disks and files:

- `nvme.c:150`: the completion of a command that was given up is taken for the
  next command's: `gaveUp`.
- `fs.c:333`: `cd` into a directory whose path is longer than the buffer keeps
  the path cut in the middle of a name.  `CwdIsEntered` speaks of texts that
  were not cut (the paths of the run fit).
- `fat32.c:309`: `FatLookup` does not look at what `FatListDir` returns, so a
  file in a folder that cannot be read is reported as not found;
  `LookupRight` excepts it.
- `fat32.c:242`: the pieces of a deleted file's long name that the next file's
  checksum happens to match are taken for that file's.  One chance in 256, as
  the format has it; no folder of the run has such pieces.
- `fat32.c:83`: the first data sector wraps at 32 bits for boot sectors that no
  volume can have; the run's do not.
- `pci.c:97`, `FindHdaController`: only the lower half of a 64-bit base address
  is taken.

Sound:

- `hda.c:227`: once a verb was given up, its late answer is returned for the
  next verb, and so on for good; `AnswersInOrder` is what is left then.
- `hda.c:306`: in a graph of widgets with a loop, a selection made further out
  may be made again further in; the codecs of the run have none.
- `wav.c:109`: a chunk whose size is within eight bytes of 2^32 makes the walk
  go on just behind its header; `HeadersAreHeaders` excepts chunks that wrap.
- `explorer.c:626`: Ctrl+D divides by the sample rate of a file whose header may
  say 0; the text of the details is not modelled.

Screen and input:

- `mouse.c:139` and `:150`: motion or a press decoded between the read of a
  sum or latch and its reset is lost.  `MotionOnce` and `ClickOnce` say that
  nothing is reported twice, not that all is reported.
- `explorer.c:431`, `:496`: two moves of the selection in one round leave the
  row of the first highlighted, and a track that cannot be started leaves the
  line of the one before on the screen.  `ScreenCurrent` excepts both.
- `viewer.c` (`BuildLines`): a text of more rows than there is room for keeps
  the whole rest as its last row, which is drawn beyond the edge; `RowsRight`
  excepts the last row of a text so cut.
- `viewer.c:346`: when the search text is longer than the file, and while it is
  being changed, the highlight of the match before stays on the screen;
  `ViewDrawn` excepts both.

## What is proved

For every value of the constants that the named assumptions of the module allow:

- **Pages** (`BootProofs`, `XhciStartProofs`, assuming `PmmConstants`: a finite
  map whose usable entries do not overlap).  `IInv` says, for each loop of
  `InitPmm`, how far it has come: which entries were scanned, that the first
  that fits was taken, which bits are clear by now, and that the counter counts
  them.  The properties speak of the end only and are not inductive without it.
  `PagesAccounted` and `HandedOutIsSafe` follow, also with the xHCI driver as
  the caller (`StartUsesPool`: each of its steps is one of the allocator's, or
  none).
- **Leaving the firmware** (`BootProofs`, `LoaderConstants`).  `LoaderInv`: the
  map about to be handed over is whole and current if its key is, and the
  attempts have ended well just when the firmware is gone.
- **Verbs** (`BootProofs`, `CorbConstants`).  `AnswersInOrder` needs that the
  responses in the ring and those the codec has yet to write are newer than
  every one that was returned, and themselves in order (`VerbsInOrder`), for
  every size of the rings and although responses nobody asked for lie between
  them.  `AnswerIsOwn` needs beside it that with a prompt codec one verb at a
  time is under way (`OneUnderWay`).
- **Search of configuration space** (`BootProofs`, `PciConstants`).  `SearchInv`:
  the controllers found are in the order of the bus, none before the last is
  missing, and the search that goes on has passed over exactly those before
  its place.  That the next search starts at the front again is why it speaks
  of both.
- **xHCI controllers** (`XhciStartProofs`, `StartConstants`).  `StartInv` says
  of each phase of `ControllerInit` which pages the controller and the driver
  have so far, each for one purpose and apart from all that were committed
  before (`EachForOne`), what was written to the registers (`Written`), and of
  the search for consecutive pages that the best run so far and the run at hand
  are runs and no other is longer (`Runs`).  `OnlyOwnPages` and `BounceIsBest`
  follow; with the verbs and the search they are `ControllersRight`.
- **Hot plug** (`HotPlugProofs`, `HotPlugConstants`).  `BindingSound` alone is
  not kept by `DetachDevice`, which reuses table entries.  `IInv` adds that the
  drive that answers at an address is the one its device entry was enumerated
  for (`AddressInv`), that ports and devices match (`DeviceInv`), and that LUN
  entries and block devices point at each other (`LunInv`).
  `ReadsTheRightDrive` and `OneDevicePerPort` follow, and `NoIndexReuse` as an
  action property.  `ScanAgrees` speaks of the end of a scan only; `ScanInv` says
  for each loop of a scan that nobody disturbed what it has established so far:
  every device up to the cursor is seen, every plugged port up to it is known,
  no device is gone, every drive up to it was attached (`QuietInv`).  It needs
  that a drive which lost its address is told by the change bit of its port
  (`Lost`), that an attached drive has a unit that works (`AliveInv`), and that a
  new block device is in the list being made until it is mounted (`OfferInv`).
- **Key ring** (`InputProofs`, `KeyRingConstants`).  `RingSound` ties what
  `KeyboardGetKey` has read so far to the ring while the interrupt moves the
  head; with it every step of `KeyRing` is a step of `KeyQueue` or a stutter.
- **Mouse** (`InputProofs`, `MouseConstants`).  `MotionInv`: a packet's motion
  counts when its third byte was taken, so what has been counted is older than
  the packet in progress (`PacketsCount`), and what `MouseGetDelta` has read is
  what it has still to clear (`DeltaInv`).  `PressInv` speaks of the packets
  that were sent, as two sequences whose existence is claimed: the buttons of
  each and the presses up to it.  Without loss the decoder stands at the end of
  one of them, or as many bytes behind it as it has of the next (`Stands`), and
  has reported no press beyond it (`Clicks`); after a loss the same holds again
  from the first pause on (`InStep`).
- **Decoder of scancodes** (`InputProofs`, `KeyboardConstants`).  `After` says
  what one byte makes of the flags and the keys typed, and `KeyInv` that the
  bytes still on the wire take the decoder (`RunOf`) to a state that agrees with
  what is held down and what is wanted (`Settled`).  Each key's sequence does to
  that state what the typist expects of the key (`MakeRuns`, `BreakRuns`), though
  it passes through states in which a modifier or a prefix is on that nobody
  holds; the interrupt handler takes a byte off the front as `After` says, and
  the acknowledgements it provokes change nothing where they come in.
  `TypedRight` is what this says of an empty wire, and of the keys so far
  otherwise.
- **Console and shell** (`InputProofs`, `ShellConstants`: a prompt and a line fill
  no more than all rows but the last, and commands print characters, line ends and
  tabs).  The proof counts the cells in reading order (`CellAt`), where a character
  that scrolls the screen is a shift (`Shift`).  `Tidy` is what every call of the
  console keeps: nothing stands at the cursor or after it (`Free`, without which an
  erased or scrolled line leaves remains), and every row neither marked nor just
  left shows its cells (`Follows`).  `ShownTo` says how much of a text stands before
  the cursor; a character adds one to it and a backspace takes one away, and what
  `ConsolePrint` makes of a string follows character by character (`Climb`).
  `ShellInv` adds that nothing is in the line while a command runs, and that the
  ring of lines holds the last ones entered (`Remembers`).  `LineShown`,
  `ScreenFollows` and `HistoryRight` follow (`ShellRight`), and with the invariants
  above that all variables of the input drivers keep their types (`StateSound`).
- **FAT reading** (`FilesProofs`, `FatConstants`, `ChainConstants`: what a
  file's chain is in the table).  `Inv` adds that a buffer marked valid holds
  its sector (`FatHonest`), that a cursor names a cluster of its own file's
  chain at the index it says (`CursorOnChain`), and where the call in progress
  stands (`ReadOnChain`, `Position`, `Listing`).  The arithmetic of offsets is
  in lemmas on division.
- **Volumes** (`FilesProofs`, `TreeConstants`).  `FsInv`: the volumes stand for
  FAT32 partitions before the cursor of the mount, in the order of the partition
  table.  So a mount only appends (`IndexesStay`) and no partition is mounted twice.
- **Explorer** (`FilesProofs`, `ListConstants`: a folder is finite, its entries have
  different names, its subfolders are on the volume).  `ExplorerInv` says of the
  list that it holds entries of its folder and none twice (`ViewOK`: sorting and
  filtering permute and drop, since the order of two entries of different names is
  always decided); that the selection is on it and in the window (`OnScreen`); and
  that what is on the screen is what would be drawn now, row by row, or is marked
  to be drawn (`Redrawn`).  The last does not hold between the poll that finds
  the track ended and the step that looks for the next one, and what the marks
  are when a key arrives must be known for it
  (`Fresh`).  `ScreenCurrent` follows with the viewer's part.  `SelectionKept`
  (with `AutoplayFollows`) follows step by step: a name leads back to its one
  place on the list.
- **Viewer** (`FilesProofs`, `TextConstants`).  `ViewerInv`: the window stands
  where `ClampTop` would put it (`Held` and `Counted` bound the text and the number
  of its rows), the search text fits its field, and each part of the screen that is
  not flagged shows what it should (`ViewDrawn`).
- **NVMe** (`DisksProofs`, `NvmeConstants`).  `QueueInv` relates each slot's
  phase to the head and the tail of the completion queue, for every depth: the
  phase is right even with time-outs.  That answers match, and that a read
  that succeeds has its data (`SuccessHasData`), needs beside it that at most
  one command is under way, which holds until a wait is given up (`gaveUp`).
- **SATA** (`DisksProofs`, `SataConstants`).  `AhciInv`: while a read waits, the
  table holds the command that was asked for, the disk is busy only with a command
  whose bit in `PxCI` is set, and once the bit is clear without an error the buffer
  holds its sectors; that needs that ST stays set once it was (clearing it clears
  the bit).  `SuccessHasSectors` follows, whatever state the firmware left
  the engine in and whatever failed before.
- **Partitions** (`DisksProofs`, `TableConstants`).  `ScanInv`: the numbers given so
  far lie below the slot at hand, or between 5 and the next logical number, so that
  no two are the same, however the extended boot records are linked (into a loop,
  for one).
- **Folder entries** (`DisksProofs`, `EntryConstants`).  `NamesInv` keeps the
  variables in their types; it rests on what `FlattenSeq` makes of the pieces of a
  folder.  With the three above it is `StateSound` (`DisksSound`).
- **Block reads** (`MusicProofs`, `BlockConstants`).  A loop invariant: what is
  done has arrived in its place, nothing else has been written, and what is
  left is what was asked for less what is done.
- **WAV files** (`MusicProofs`, `WavConstants`).  `WalkInv`: bodies of chunks
  that were passed end before the position and headers were read before it,
  except where a size wraps, for every width of the position.
- **Player** (`MusicProofs`, `AudioConstants`).  The invariant says what each
  page holds that was filled and not played (`PagesInOrder`): frames of the
  song, each page those that follow the page before; that no page is filled that
  was not played (`RoomLeft`); that the driver's count agrees with the codec's
  until the main loop has been away for a whole ring (`Counted`); and how far
  the song was heard (`HeardSoFar`).  `HeardInOrder` and `FinishedIsPlayed`
  (`PlayedRight`) are action properties that follow step by step.
- **Transfers** (`UsbProofs`, `XhciConstants`).  `BusInv`: the places of the
  transfer ring that were filled in this lap have its cycle bit and the others
  the other one (`Filled`), likewise in the event ring (`EventsFilled`); the
  controller stands at the transfer at hand or at its end (`Where`); and for
  each phase of `BulkTd` and `RecoverEndpoint`, which events may be unread and
  which command is under way.  The last holds while commands are answered in
  time, and with it that a transfer that reports success is its own
  (`OkIsOwn`); the rings' bookkeeping and `CycleTellsNew` hold always.
- **Bulk-only protocol** (`UsbProofs`, `BotConstants`).  `BotSafe`: what a drive
  has still to send comes in pairs, a status last, and the status of the command
  at hand is the last of all, so that a status that matches leaves nothing
  behind (`BackInStep`) and data under a matching status is the command's own
  (`ReadIsOwn`).  `BotClean`: from whatever an earlier call left, two attempts
  get drive and driver in step.  `CleanCallSucceeds` is proved if readiness is
  asked for twice at least; the code asks 25 times.
- **Devices** (`UsbProofs`, `EnumerateConstants`).  `DeviceInv`: each enabled slot
  belongs to one entry of the table, which holds the memory the controller was
  given for it, until a command was given up; commands that were given up are
  carried out before any other; and what the controller was told of the packet
  size.  `MemoryIsHeld` and `PacketSizeKnown` follow, the latter where a super
  speed device's first packet size is the 512 bytes that USB 3 fixes.

But for `HotPlugProofs`, and the theorems of `DisksProofs` and `FilesProofs` about
the `Spec` of `Nvme` and of `FatRead`, the theorems are about the specification of
the whole run: either each of its behaviours is shown to be one of the part
(the lemmas `EachIsItself`, `EachPartIsItself`), or the part's invariant is shown
to be kept by the steps of the others.

## What is only model-checked, and what is left out

Out of the prover's reach and left to TLC: everything under fairness
(`ScanReturns` of the hot plug, `TabEnds`, and all of `CallsReturn`), and what
needs an induction over data: the ways through a codec (`CodecRight`), the rows
of a text, and what the descriptors of a device add up to, so that of
`DriveIsReal` only `MemoryIsHeld` and `PacketSizeKnown` are proved.  (That a set
of numbers has a smallest is the one induction there is; it is in the library
as a theorem about the order of the natural numbers, and `Climb` rests on it.)
For the same reason only model-checked: that the list of partitions, the regions of
a volume and the names of a folder are what the disk says (`ListsWhatTheDiskSays`:
a walk of linked records, and pieces of names gathered over entries), that a path
means what the tree says (`PathsRight` but for `IndexesStay`: the components of a
path are folded), that the rows are the text (`RowsRight`), and that a search finds
what there is (`SearchRight`, which needs that the rows are in order).
`SecondClickSameEntry` is violated and therefore not proved.

Not modelled, and why:

- `idt.c`, PIC and PIT: register writes; that handlers run one at a time with
  interrupts disabled is what every module assumes of them;
- `power.c`: a walk over ACPI tables and port writes that end the machine's
  life, whose meaning is in the firmware's tables;
- `kernel.c`: calls in a row, whose order the modules use;
- drawing (`gfx.c`, the icons and bars of `explorer.c` and `viewer.c`), log and
  error texts, the logos of boot loader and kernel: pixels and texts;
- of `xhci.c`: the splitting of a bulk transfer into pieces of the bounce
  buffer, and the walk over the extended capabilities; of `hda.c`: the
  controller's reset, the beep, and the up to 50 ms in which `HdaStreamStart` waits
  for the position to be in the first page (`Audio` takes it to be there; after the
  time-out the count would start with pages that were not played); of `fat32.c`:
  the bound `MAX_CHAIN` on a folder's clusters, which only matters for a chain that
  loops, and `ChainConstants` has none; of `nvme.c`: the admin queue, which is the
  same protocol used twice; of the boot loader: the search for the ACPI tables;
- of the shell: what its commands print; of the explorer: the text of the file
  details.

Data is abstract throughout: a sector, a page or a key is a value that says
where it came from; names are numbers or short sequences of codes; the checks
of a GPT header are one answer.  Interrupt handlers run with interrupts disabled
and are one step unless they share memory with the step they interrupt.

## What could come next

1. Composition: `HotPlug` over `PartScan`'s failures; `Explorer` over `Audio`'s
   poll; `XhciRescan`'s second half over `XhciStart`.
2. Proofs: that the rows of the viewer begin in order, from which a search's
   binary search for the row of a match would follow.
3. `XhciBulk` over `Xhci`, with the bounce buffer that `XhciStart` found.
