# TLA+ models of first-kernel

first-kernel is a 32-bit x86 kernel in C and assembly: a boot sector, a shell
driven by the keyboard interrupt, a FAT16-like file system on an ATA disk, a
frame allocator, a small heap and a round-robin scheduler. This directory holds
TLA+ models of it, the TLC configurations that check them and TLAPS proofs about
most of them (file system, frames, tasks, the kernel over them, screen and log, disk,
interrupts, descriptor tables, pointer, keyboard and line, clock, speaker, network card). `PROJECT.json` lists, for every definition, the lines of `src/` it models, the runs, the hazards
and the theorems.

    tlc -config fat_shell.cfg MCFat16.tla       check one configuration
    tlapm Fat16Proofs.tla                       check the proofs

## 1. The system

Everything the kernel does after booting happens in two places. `main`
(kernel/kernel.c) initialises, switches itself to ring 3, prints a prompt and
loops for ever. The interrupt handlers do the rest: IRQ 0 counts a tick and may
change tasks, IRQ 1 handles a key, and with Enter runs a whole shell command,
IRQ 12 moves the mouse pointer. The gates of the IDT clear the interrupt flag
(`flags = 0x8E`, cpu/idt.c:12) and no handler sets it, so **a handler is never
interrupted**; `main`, or a program in its place, can be, between any two
instructions. The devices go on beside both: the drive, the timer chip, the
clock, the keyboard and the mouse.

| component | state | operations | used by |
|---|---|---|---|
| boot, main (boot/, kernel/kernel.c) | - | load, initialise, enter ring 3, prompt | - |
| frames (drivers/pmm.c) | `memory_bitmap` | init, alloc, free, set/clear/test bit | main, `create_task`, `alloc` |
| heap (libc/mem.c) | `free_list` in one page | init, kmalloc, kfree | main, `run` |
| tasks (cpu/task.c) | `tasks`, `current_task`, `task_count` | init, create_task, schedule | main, `run`, IRQ 0 |
| interrupts (cpu/interrupt.asm, idt.c, isr.c) | IDT, PIC, stacks | stubs, panics, syscall 0x80 | hardware |
| GDT/TSS (cpu/gdt.c, gdt_asm.asm) | descriptors, `esp0` | init, set_kernel_stack, ring switch | main |
| file system (fs/fat16.c) | disk sectors, `current_dir_cluster` | ls, cat, write, mkdir, cd, rm, run, mkdummy | shell |
| disk (drivers/disk.c) | drive registers | read_sector, write_sector, polling | file system, `read` |
| screen, log (drivers/screen.c, vga.c) | cursor, `klog_buffer`, pixels | print, clear, scroll, backspace, dump | all |
| keyboard (drivers/keyboard.c) | line, last line, modifiers | a key, completion, recall, Enter | IRQ 1 |
| shell (kernel/shell.c), strings (libc/string.c) | command table, `last_token` | execute_command, 28 commands, strtok | keyboard |
| mouse, timer, RTC, speaker (drivers/) | packet, position; ticks; - ; - | handlers and commands | IRQ 12, IRQ 0, shell |
| PCI, E1000 (drivers/pci.c, e1000.c) | transmit ring | scan, init; nothing is sent | shell |
| paging (cpu/paging.c) | page tables | init_paging, never called | - |

What is hard to test here:

- *A cut of power* between the two or three sector writes of a file command.
- *Long sequences of commands*: what mkdir, rm, cd and write leave behind for the
  next one (first-fit slots and clusters, the end mark of a directory, children
  of a removed directory, mkdummy over used sectors).
- *Interrupts*: in which ring they come, on which stack, through whose frame they
  return, and what they print in the middle of main's print.
- *Limits*: the last cluster, frame, task, character of a line, place of the log,
  column and row; exhaustion reported as 0 and not looked at.
- *Loops that may not end*: polling the drive, following a chain, looking for the
  next active task, waiting for the mouse.
- *Devices with a time of their own*: a drive that is busy when it is given a
  command, a tick that comes while one is latched, a clock that goes on between two
  reads, a byte of the keyboard where an answer of the mouse is expected.
- *Bit fields and widths*: descriptors and gates cut into pieces, addresses of
  sectors and of PCI functions put together from bytes, ints that wrap.

What makes each component correct: a cluster has one owner and an owner's
cluster is allocated; a frame is granted once; each task keeps its own stack and
gets the processor; an interrupt gives back what it interrupted and leaves both
controllers free; the log holds what was printed last; the line shown is the line
executed; a sector is read and written whole; keys and movements are handled once
and in order; the pointer leaves no trace; a time shown was never in the future;
the processor accepts every selector; the network card never transmits what
nobody sent.

## 2. Modules

| module | models | checked with |
|---|---|---|
| `NodeStore` | abstract: the file system with atomic commands | fat_refines |
| `Fat16`, `MCFat16` | fs/fat16.c, driven by the shell, with cuts of power | fat_shell, fat_refines, fat_dummy, fat_power_cut |
| `Fat16Proofs` | theorems about `Fat16` | tlapm |
| `FrameSet` | abstract: a set of free frames | frames |
| `Frames`, `FramesProofs` | drivers/pmm.c; theorems about it | frames; tlapm |
| `Tasks`, `TasksProofs` | cpu/task.c over `Frames`; theorems about it | tasks; tlapm |
| `Kernel`, `KernelProofs` | boot, stubs, heap, TSS and commands over `Tasks` and `Frames`; theorems | kernel, run_starts; tlapm |
| `Screen` | the functions of drivers/screen.c, as operators | console, keyboard |
| `Console`, `MCConsole`, `ConsoleProofs` | main and the handlers printing through `Screen`; theorems | console; tlapm |
| `LineEditor` | abstract: a line editor with history | keyboard |
| `Keyboard`, `MCKeyboard`, `KeyboardProofs` | drivers/keyboard.c, execute_command, strtok, over `Screen`; theorems | keyboard; tlapm |
| `MCHardware` | the run of the next seven | hardware |
| `SectorStore` | abstract: sectors that are read and written whole | hardware |
| `Disk` | drivers/disk.c with the drive behind its ports | hardware |
| `Interrupts` | pic_remap, what each stub acknowledges, drivers/timer.c | hardware |
| `InputStreams` | abstract: keys and movements handled once, in order | hardware |
| `Ps2` | init_mouse and both handlers at the one port of the 8042 | hardware |
| `Pointer` | drivers/mouse.c from a packet on, put_pixel, get_pixel | hardware |
| `Descriptors` | gdt.c, idt.c, gdt_asm.asm, isr_install and how the processor uses them | hardware |
| `HardwareProofs` | theorems about `Interrupts`, `Descriptors`, `Disk`, `Ps2` and `Pointer` | tlapm |
| `MCCommands` | the run of the next four | commands |
| `Rtc` | drivers/rtc.c and a clock that goes on | commands |
| `Strings`, `Numbers` | libc/string.c but strtok; the math command over it | commands |
| `E1000` | drivers/pci.c, drivers/e1000.c: lspci and netinit | commands |
| `Speaker` | drivers/speaker.c, init_timer | commands |
| `CommandsProofs` | theorems about `Rtc`, `Strings`, `Numbers`, `Speaker` and `E1000` | tlapm |

`Tasks` works on the variables of `Frames`, `Kernel` on those of both, `Console` and
`Keyboard` on the screen of `Screen`: there the components act on each other. The
modules of `MCHardware` and those of `MCCommands` share no variable, and what one
needs of another is said below and in their comments. So each of these two runs has a
variable, `part` or `command`, that is chosen at first and kept and says which module
moves; the others rest in an initial state. The run explores each module by itself, all
in one state graph. `MCHardware` EXTENDS `Descriptors`, `Interrupts`, `Disk` and
`Pointer`, and
`MCCommands` EXTENDS `Rtc`, `Speaker` and `E1000`, so that a run checks the very
definitions the theorems are about; their names are told apart by prefixes (`Pic`,
`Disk`, `Pointer`, `Net`).

Definitions with an underscore in their name (`FreeSlot_First`, ...) are wrong
variants of the definition below them. Nothing uses them; each shows that some
property notices that mistake.

### Fat16

`root`, `fat` and `data` are sector 68, the first 256 words of sector 50 and the
sectors from 100 on; `cur` is `current_dir_cluster`. An action is a command up to
and including its next sector write; `pc` names the write that comes next and
`job` holds the command's locals. Reads have no effect of their own, so they
belong to the write they prepare. A sector remembers whether a writer filled it
with entries or with text, and can be read as either. The initial FAT takes its
words from `ImageWords`, because mkfs is never run: sector 50 of the image is
inside the kernel file or the zeros after it. `Crash` is a cut of power at the
points in `CrashAt`; a sector write itself is atomic.

`LastOnDisk` is the last cluster with a sector. The Makefile puts 200 sectors of
zeros behind the kernel, of which the boot sector loads 75 at most, so the image ends
before cluster 178, while `find_free_cluster` goes to 255 and the loops of cat and rm
follow every word from 2 to 0xFFF7 (`Followed`). cat takes one step per cluster; a
cluster without a sector, in the table or outside it, is where `read_sector` polls for
ever (`CatNext` has no step there; "poll" for the commands that read one sector only).
rm writes into a buffer of 256 words: from a word outside the table (`Leaves`) it would
write past it, and the model has no step for what follows.

Text can become entries: after a cut of power in mkdir or mkdummy a directory's entry
leads to a sector that still holds a text. `AsEntries` says what directory entries a
text spells; their `cluster_low` is any word. Only the attribute 0x10 cannot be typed,
so only make_directory makes what cd follows. A directory written back over such a
sector is marked "mixed".

Names and texts are model strings: comparing eight padded characters is comparing
names. `mkdir ..` and names that begin with byte 0xE5 are not among the inputs. The
file size, which no code reads back, is left out. The root starts empty or with what
is behind the kernel's last bytes, a name nobody types (`JunkTable`).

### Frames, Tasks, Kernel

`Frames` keeps the array of words, each as the set of its bits. `held` is what was
granted and not given back.

`Tasks` is the table. The stack pointer passed to `schedule` is any address on the
stack the running task was last resumed on. `Kernel` then supplies the rest: the
words pushed by the processor and `pusha`, the pops of the stub, the frame of
`create_task`, `esp0`, the one block of heap. It *implements* `Tasks`
(`ImplementsTasks`), so the stack pointers `Tasks` assumes are the ones the stubs
produce. An interrupt is three steps (push, handler, pop). A selector outside the
GDT makes the state "fault", the panic screen of isr13 or worse; "stopped" is
`sleep` and `crash`; both are ends, so these runs do not check deadlock. Only the
top words of each page are kept in `ram`: handlers' C frames below them, and with
them stack overflow, are left out.

### Screen, Console, Keyboard

`Screen` has the functions of screen.c over a record of its variables. In
`Console` main's print_char is cut at each load and store of a variable that handlers
change too, as the compiler makes it without optimisation: `klog_buffer[klog_index++] = c`
is a load of the index, its store and the store of the character; the column is compared,
set to zero, the row loaded, stored, compared; scroll_screen goes line by line and then
sets row and column. Handlers print between any two of these. A glyph is drawn, and a line of
cells moved, in one step. A handler prints its text one character a step (`out` is what
is left of it) while main waits; kmsg sets `dmesg_active`, prints the log and clears it.
`logged` is every character passed to log_char, kept as far back as the log can reach,
`torn` whether a handler has printed inside main's print_char. In `Keyboard` main prints its prompt one character at a
time while keys are handled.

`Keyboard` has one action per branch of keyboard_handler. Two commands stand for
the table: echo, which takes the line apart with strtok, and clear, which moves
the cursor; any other word is unknown. Escape is in the tables (27) and has no
glyph. `Reset` starts the log as zeros: nothing in the loader clears .bss, but
memory the loader did not fill is zero under the emulator the Makefile runs.

### Disk and interrupts

`Disk` has a step for each access to a port in read_sector and write_sector, and a
drive that accepts, carries out and answers in its own time, with a write cache.
Polls that find nothing change nothing and are left out; that they end is
`CallsEnd`. The drive is what the commands 0x20, 0x30 and 0xE7 assume; a busy drive
does not look at its registers. Address registers have `RegBase` values. It
*implements* `SectorStore`, in which a sector changes as a whole and a cut of power
leaves it old or new. `Fat16` takes a sector write as one step that stays: what
it says about cuts of power assumes a drive without a volatile cache, because on one with
a volatile cache the flush of `write_sector` does not help (section 4).

`Interrupts` has both 8259s: a line is latched once, a controller holds back what
is below what it serves until it is told the end (`EoiMaster`, `EoiSlave`). The way
through a handler is kept as far as its acknowledgement goes. A step of the
processor and the ticks share a clock, `since`: a short handler takes less than a
tick, "command" takes as long as it likes. Spurious requests are left out.

`Descriptors` is the other half: `main` fills each row of the tables, loads them,
goes to ring 3, and is interrupted before and after. A row is kept in the bytes and
fields of `struct gdt_entry` and `struct idt_entry`; `Base`, `Limit` and `Handler`
are what the processor puts together from them, `Enter` and `Return` its checks.
Where the linker puts `tss_entry` and the stubs is a choice of the initial state.
Memory not written to holds zeros; the I/O map of the TSS and the words on the
stacks (in `Kernel`) are left out.

### Input

`Ps2` has init_mouse with its waits, and the two handlers, each reading the port
once. The controller is the emulator's: one byte at a time with a mark for the
mouse's, a line once raised stays latched though its byte was fetched by polling,
and a read with nothing there gives the byte before. It implements `InputStreams`.
mouse_wait's count of 100000 is taken to be enough for an answer that comes, and
nobody touches keyboard or mouse before the kernel is up; section 4 says what
happens if somebody does.

`Pointer` starts where the packet is whole. `text` is the screen as it would be
without a mouse, `stale` the pixels drawn under the pointer or scrolled with it,
which lose their text: at the next movement the saved square is put back over them.
The first movement puts back a square that was never saved, zeros, so the middle of
the screen goes black; this is in the model and excepted as `stale`. Movements are
less than half a byte, as the emulator's are.

### Rtc, Numbers, Speaker, E1000

`Rtc` has one action per register read and one for a second that passes, and the
conversion from four-bit digits (`ShowTime`).

`Strings` has functions over sequences of codes with ints that wrap, as gcc makes
them without optimisation; the overflow is undefined in C. `Numbers` types the two
arguments of math and runs it. Where the two bytes that do not fit in
`result_str[10]` go depends on the frame and is left out.

`Speaker` has every port write of play_sound, stop_sound and init_timer on the two
channels of the timer chip. What is read from port 0x61 is what was written.

`E1000` has one access to a port or a register per step, the loops of both commands
included. Machine, configuration space and cards are not code of the kernel; a
place without a function reads as all ones, a card answers once its command register
says so. The kernel sends nothing, so "transmitter ready" means enabled with head
and tail equal on the kernel's own ring.

## 3. Runs

fat_dummy takes two to three minutes, every other run about a minute or less.

| run | bounds | shows |
|---|---|---|
| fat_shell | clusters 2-4, 2 entries per directory, 2 names, FAT words free or end, power cut between commands and inside rm | `UniqueOwner`, `EntriesSound`, `DirectoriesSound`, `SavedTextStays`, `LosesOnlyBelowRemoved` |
| fat_refines | clusters 2-4, the last without a sector, two texts, FAT words free or outside the table, power cut as in fat_shell | commands implement the atomic ones of `NodeStore`; `CommandEnds` |
| fat_dummy | clusters 2-5, the last without a sector, 1 entry, mkdummy, power cut anywhere, FAT words free or outside the table, texts that spell an entry | `ChainsEnd`: what cat and rm follow stays in the table and ends |
| fat_power_cut | as fat_shell, power cut anywhere | **violated** `UniqueOwner` (finding 1) |
| frames | 4 words of 3 bits, 2 reserved | the bitmap is exact and implements `FrameSet`, to exhaustion and back |
| tasks | 6 frames, 3 slots | `TableSound`, `StacksSound`, `StacksKept`, `EveryTaskRuns`, until frames and slots are gone |
| kernel | the same, 20 words of stack per page | `InterruptsReturn`, `KernelStackSound`, `ImplementsTasks` |
| run_starts | the same | **violated** `ProgramsRun` (finding 2) |
| console | 2 x 2 cells, log of 5, prompt of 1, at most 3 characters during it and 7 in all | `InBounds`, `LogHoldsLast`, `LogRecovers` |
| keyboard | lines of 3, 3 x 2 cells, keys a/A, space, escape, the "unknow command" text empty | `ScreenShowsLine`, `ImplementsEditor` |
| hardware, tables | four places of the TSS, three of the stubs, two stacks for main and two for interrupts, all 32 bits of an address | `TablesSound`: nothing refused, segments fit, the TSS is found; `StubReached` |
| hardware, disk | sectors of 2 words, registers of 1 bit, 14 sectors, 3 numbers asked for, one past the end and one whose top bit is set | `CallsEnd`, `SectorsWhole`: the calls implement `SectorStore`, at the address asked for |
| hardware, interrupts | five lines, 12 steps and 2 requests in a tick, a counter that wraps at 3 | `AcknowledgedAndCounted`, `LostOnlyInCommands`, `EveryLineServed` |
| hardware, ps2 | two keys, two movements of two kinds, mouse line on or off at boot | `StreamsWhole`: the handlers implement `InputStreams` |
| hardware, pointer | 4 x 3 pixels, a pointer of 2 x 2, two pixels drawn, clear and scroll at any time | `PointerSound`: text kept, pointer where the mouse went; `MovesLeaveNoTrace` |
| commands, time | a clock of 12 x 3 x 11, at most 4 seconds in a call | `ShownRight` |
| commands, math | ints of 2 hexadecimal digits (-128 .. 127), all arguments of up to 3 of the digits 0 1 2 7 8 | `ConversionsRight`, `MathRight` |
| commands, beep | all 256 values of the port | `SpeakerSound` |
| commands, net | 2 buses of 32 slots, four machines, two states the firmware leaves | `NetworkSound`, `TransmitterReady` |

`HardwareTypes` is the type invariant of all the modules of hardware.

Why the bounds are enough: three clusters allow a directory in a directory with a
file in it, and two entries make a directory full and give deleted slots before
live ones; the scans and chains treat more entries no differently. fat_dummy's one
entry per directory is enough to put any entry, live, deleted or spelled by a text, in
front of cat and rm, and its clusters leave mkdummy's two, one more and one that has no
sector; 512 stands for every word the loops follow out of the table. Four words of
three bits have a first, a last and inner words, and reserved bits that end inside
a word. Three tasks is the kernel's own limit. A log of five characters wraps
within seven; `ConsoleAssumption` keeps it from filling up during the prompt, as
4096 places cannot in the moment four characters take. Lines of three characters
on rows of two cross line ends and scroll; `KeyboardAssumption` keeps a line and
its prompt on the screen, as 255 characters are on 50 x 37.

Two words make a sector that can be half written; registers of one bit give every
piece of a sector number a value of its own. A tick of twelve steps fits the
timer's handler and four short ones with both acknowledgements, which is the assumption the real 10 ms satisfy, and a counter
that wraps at 3 meets its wrap with a tick latched. Two keys and two movements, with
bytes that differ, are enough to put one where another is expected, before and
after `sti`. The pointer's square overlaps itself after a small movement, does not
after a large one, and reaches every edge. The clock has digits on both sides of a
ten and every carry, midnight included. With eight bits
`itoa` meets both ends of its range and three digits pass them. The places of the
TSS and of the stubs use every byte of a base and cross a multiple of 64 KB; the
proofs cover all others. The last slot of the last bus, two cards, and devices that
differ from the card in one half of their identity are what the search can go wrong
about.

**Fairness.** `Fat16!FairSpec` has weak fairness of what a command has still to do,
its sector writes and cat's next cluster: with interrupts off nothing else runs. It is not
assumed of the user, nor of a call that polls: a state from which the code has no next
step is one from which `CommandEnds` sees no end.
`Tasks!FairSpec` has weak fairness of the timer, which is periodic and whose
handler returns to code with interrupts on; this is fairness for the table alone,
because with the present frame the first switch faults (finding 2).
`DiskFairSpec` has weak fairness of the call, which nothing interrupts, and of the
drive carrying out what it accepted, not of writing back its cache.
`PicFairSpec` has weak fairness of the processor: it goes on, and a command
returns, which is what `CallsEnd` and the liveness of `Fat16` say of the longest.
`Ps2!FairSpec` has it of the processor and of the devices, which deliver what they
have. `HwSpec` is the same for the module that moves: weak fairness of the processor
and of the devices. No fairness is assumed of the user, of keys, movements or
requests, and none in the other runs.
`CHECK_DEADLOCK FALSE` is given where the system may stop: the panics, `sleep` and
`crash`, a machine without power, a call that polls for ever, and the models whose user has nothing left to type.

## 4. Findings

1. **Power cut (fat_power_cut).** write and mkdir write the directory entry before
   the FAT. After a cut in between, the entry owns a free cluster, and the next
   write or mkdir gives the cluster to a second entry. rm is safe: its two writes
   are in the right order.
2. **Programs do not start (run_starts).** `create_task` builds a frame of eleven
   words, without the one for `ds` that isr32 pops first. Everything is off by one
   word and `iretd` loads eflags (0x202) as CS: a general protection fault at the
   first tick after `run`.

Behaviours met while modelling. The models have them, or exclude them by the
assumption named, but no run is spent on them:

- *End of the image.* `find_free_cluster` goes to 255, the image ends earlier, and with
  only clusters behind it free a write polls for ever in `write_sector`, with interrupts
  off. fat_refines and fat_dummy have this state; `CommandEnds` is about a write that finds
  a sector, and about cat, rm and run always. A drive that reports the error at once never raises DRQ;
  an emulator that first takes the data gets to the same poll with it.
- *A text read as a directory.* Power fails between mkdir's first two writes: the entry
  leads to the sector of a removed file, and cd goes there. What the text spells is
  listed, and cat or rm of it follow two of its characters as a cluster number: cat polls
  for ever, rm frees words past the end of its buffer. The same happens where mkdummy has
  written its texts over a directory. `ChainsEnd` excepts these directories: those whose
  sector mkdir did not get to empty, or a text has overwritten since.
- *kmsg out of order.* After the log wraps, the dump starts at place 0, in the
  middle, and repeats the newest characters at the end.
- *The cache is not flushed.* Command 0xE7 is written right after the last word, when
  the drive is busy, and is ignored: `write_sector` returns with the sector in the
  drive's cache only, and a cut of power loses it, or a later one before an earlier.
- *Lost ticks.* Commands run with interrupts off and one tick is latched; the others
  are never counted, and `uptime` falls behind. Short handlers lose none
  (`LostOnlyInCommands`).
- *A key during boot.* init_mouse takes its scancode for the configuration byte and
  writes it back with one bit changed; 0x10 switches the keyboard off for good.
- *A time that never was.* 9:59:59 may be read as 9:00:00; `ShownRight` allows it.
- *The smallest int* is printed as `-(`, and the `-` of a negative argument of math
  is taken for a digit of value -3; `MathRight` is about the others.
- *The tone.* `divisor > 8` is 1 where the high byte is meant: beep plays 2807 Hz
  for 1000.

Stated with the hazards: a `run` with no frame left writes the
new task's frame over the registers of main on page 0; the heap can satisfy one
`run`, the next loads at address 0; the stack for interrupts is page 0 because the
heap is twelve bytes too small for it, which is harmless because page 0 is
reserved (`KernelStackSound`).

## 5. Proofs

| theorem | says |
|---|---|
| `Fat16Proofs!TypeCorrect` | `Spec => []TypeOK`, with any cuts of power and with mkdummy |
| `Fat16Proofs!OwnersUnique` | `UniqueOwner` always, if power fails only between commands or inside rm and mkdummy is not used |
| `Fat16Proofs!EntriesAlwaysSound` | `EntriesSound` always, under the same conditions |
| `Fat16Proofs!SavedTextAlwaysStays` | `SavedTextStays`, under the same conditions |
| `Fat16Proofs!LosesOnlyBelowRemovedAlways` | `LosesOnlyBelowRemoved`, under the same conditions |
| `Fat16Proofs!DirectoriesAlwaysSound` | `DirectoriesSound` always, under the same conditions |
| `Fat16Proofs!CommandsAtomic` | `ImplementsStore` (commands are atomic ones of `NodeStore`), under the same conditions |
| `Fat16Proofs!ChainsAlwaysEnd` | `ChainsEnd` always: with mkdummy, cuts of power before any write, and whatever words the FAT starts with |
| `FramesProofs!BitmapAlwaysExact`, `ImplementsFrames` | `BitmapExact` always; `Spec => ImplementsFrameSet` |
| `TasksProofs!TableAlwaysSound` | `TableSound` always |
| `TasksProofs!StacksAlwaysSound` | `StacksSound` always: a task is alone on the frame it was granted |
| `TasksProofs!StacksAlwaysKept` | `StacksKept`: no step moves the stack of a task |
| `KernelProofs!KernelStackAlwaysSound` | `KernelStackSound` always, and the types |
| `KernelProofs!InterruptsAlwaysReturn` | `InterruptsReturn`: every register and the stack come back |
| `KernelProofs!KernelImplementsTasks` | `ImplementsTasks` |
| `ConsoleProofs!NothingOutside` | `InBounds` always: nothing is stored outside the log, and the cursor comes back onto the screen |
| `ConsoleProofs!LogAlwaysHoldsLast` | `LogHoldsLast` always |
| `ConsoleProofs!LogAlwaysRecovers` | `LogRecovers` always |
| `KeyboardProofs!ScreenAlwaysShowsLine` | `ScreenShowsLine` always |
| `KeyboardProofs!EditorImplemented` | `ImplementsEditor`: the buffers are a `LineEditor` |
| `HardwareProofs!DiskTypesAlways` | the types of driver and drive |
| `HardwareProofs!SectorsAlwaysWhole` | `SectorsWhole`: driver and drive implement `SectorStore` |
| `HardwareProofs!StreamsNeverMixed` | `Ps2` implements `InputStreams!Safe`: `StreamsWhole` without its fairness |
| `HardwareProofs!HardwareTypesAlways` | `HardwareTypes` always, whichever component moves |
| `HardwareProofs!PointerAlwaysSound` | `PointerSound` always, if no movement to the right or up is half a byte or more |
| `HardwareProofs!MovesNeverLeaveTrace` | `MovesLeaveNoTrace`, for any movements |
| `HardwareProofs!AcknowledgedAndCountedAlways` | `AcknowledgedAndCounted` always |
| `HardwareProofs!LostOnlyInCommandsAlways` | `LostOnlyInCommands` |
| `HardwareProofs!NothingRefused`, `TssAlwaysFound`, `SegmentsAlwaysFit`, `TypeCorrect` | the parts of `TablesSound` |
| `HardwareProofs!TablesAlwaysSound` | `TablesSound` always |
| `HardwareProofs!StubAlwaysReached` | `StubReached`: every interrupt gets to its own stub, on the right stack |
| `CommandsProofs!TimeOfDay`, `TimeNeverAhead`, `TimeRightWithinMinute` | the parts of `ShownRight` |
| `CommandsProofs!TimeAlwaysRight` | `ShownRight` always |
| `CommandsProofs!SpeakerAlwaysSound` | `SpeakerSound` always |
| `CommandsProofs!NetworkAlwaysSound` | `NetworkSound` always |
| `CommandsProofs!TransmitterAlwaysReady` | `TransmitterReady` always |
| `CommandsProofs!ConversionsAlwaysRight` | `ConversionsRight` always: itoa, atoi, hex_to_string, strcmp and strncmp |
| `CommandsProofs!MathAlwaysRight` | `MathRight` |

They hold for every value of the constants that satisfies the ASSUMEs of the modules:
every disk and directory size, set of names and texts, image; word width, bitmap length,
number of reserved frames and of task slots; depth of stacks; size of screen and log,
prompt and texts; keys, length of a line and table of commands; sector length and number; size and shape of the pointer and what the mouse reports; length
of a tick and width of its counter;
period of the clock; width of an int and length of the arguments; place of the TSS and of
the stubs; machine and firmware. The
conditions of the theorems of `Fat16`, where they have any, are their hypotheses; finding 1
shows that they cannot be dropped. `PointerAlwaysSound` has one too, about the movements: mouse_handler makes
a char of the low byte, which is negative from half a byte on.

What the ASSUMEs ask beyond types:

- `SizeAssumption`: the table of clusters ends below 0xFFF8, where the loops stop. `BytesAssumption`:
  every entry a text spells has a 16-bit cluster, and none has the attribute 0x10 with a
  cluster outside the table (none has that attribute at all, as it cannot be typed).
- `KernelAssumption`: a stack takes at least one interrupt of ring 0 (14 words) and
  no more than its page (1024 words).
- `TasksAssumption`: what lies on the stack of an interrupted task is less than a page.
- `ConsoleAssumption`: the log does not fill up during the prompt.
- `KeyboardAssumption`: a line and the prompt fit on the screen above its last row; the
  commands can be typed and are not longer than a line; the characters of the keys
  are neither '\0' nor '\n' nor '\b' (those keys are Enter, Backspace and nothing).
- `InterruptsAssumption`: a tick is long enough for the timer's handler and the short
  ones of the requests that come in it.
- `E1000Assumption`: no vendor has the number of all ones, and the firmware gives each
  card a register window of its own and leaves its transmitter off.
- `NumbersAssumption`: an int is some hexadecimal digits wide, and a character typed is
  ASCII and not the zero that ends a string. `SpeakerAssumption`: the port holds a byte.
- `DiskAssumption`: the sectors asked for have numbers of 28 bits.
- `PointerAssumption`: the pointer starts on the screen, and a movement has the bits of a
  packet: a byte and a sign.
- `Ps2Assumption`: the keys are ones keyboard_handler does something with, a packet is
  three bytes of which the first has its mark, and the configuration is a byte.
- `TssAssumption`, `StubAssumption`: both below 4 GB and the TSS not across a multiple
  of a megabyte: its limit is base + 104, of which the descriptor keeps 20 bits, so that
  just below a megabyte the TSS would be too short.

*The invariant of Fat16.* `UniqueOwner` is not inductive: a new entry may take a
cluster only because a free cluster has no owner, which is `EntriesSound`, which
fails for the entry whose command has not written the FAT yet. `IInv` adds what
holds in between: `WriteInProgress` (the pending entry is the only one that owns
the still free cluster, and the sector to come has the right kind),
`RemovalInProgress` (the cluster rm is about to free has no owner any more and is
not the current directory), `NamesNothingElse` (no entry leads out of the table, so cat and rm
take a step) and `NotItsOwnParent` (so that writing a directory
does not change what is read from it). fat_shell's bounds were also checked with
`IInv` as an invariant. The proof has one lemma per action; `ChainOfOne`, the
chain of an allocated cluster is itself, is what makes rm free one cluster only.
`DirectoriesSound` adds that no live entry is behind an end mark
(`NoHiddenEntry`); first fit takes the first deleted or unused slot, for which
`SmallestOf`, a number that satisfies a condition and is the least to do so, is proved
from the well-foundedness of the numbers. `StoreInv` adds what the refinement of `NodeStore` needs: what entries a scan meets, and
that the locals of the command in progress are what it was called with. A command takes
effect with its last sector write; until then the entry it replaces is shown.
`ChainInv` is an invariant of its own, without `IInv` or any condition: in the root and in every
sector mkdir has emptied, or is about to write, an entry with a name a user can type leads to
a cluster whose word is free or the end, or to mkdummy's two. It holds over cuts of power
because an entry is written with a free cluster, and a word that is free or the end is set to
nothing else but by mkdummy.

*The invariant of Frames.* The arithmetic is in `WordAndBit` and
`SameWordAndBit`: a frame number is its word and its bit, for any width. With it,
setting or clearing a bit changes the test of one frame (`SetBitEffect`,
`ClearBitEffect`), and each step is one of `FrameSet`.

*The invariant of Tasks.* `TableSound` is inductive once the table and its two
indices have their types (`TableTypes`); it needs nothing of the bitmap but that
what `pmm_alloc_frame` returns is an address (`GrantIsAddress`). There is one
lemma per operation. For the stacks, `FP` instantiates `FramesProofs`
(`FramesAlike`), so that a grant is a frame nobody holds (`GrantIsNew`). `StackInv`
strengthens `StacksSound` by what a step needs: main's stack is on a reserved frame,
frames of `alloc` are held too, and pointers lie below the end of memory, so that an
interrupted one is again in its page (`BelowTheEnd`).

*The invariant of Kernel.* `TP` instantiates `TasksProofs` with the two depths the
stubs really use, and `IInv` is `StackInv` with `KernelInv`: from an interrupt to its end the words on main's
stack are those that were pushed, unless a program was given page 0 for a stack
(`ModeInv`, `MainSaved`), and the frame of a task that has not run has no code selector
where `iretd` takes one (`FreshStacks`). The invariant shows what finding 2 means for the
whole system: main is the only task that is ever resumed, and every other one faults at its
first switch.

*The invariant of Console.* `ConInv` says how far main's print_char has got.
`CursorInv` allows a coordinate to be one too far only where print_char is about to
check it, and says that the register main holds over an access is a place on the screen. `RoomInv` bounds the index main holds in a register by what was printed, so
that a stale index is still in the log. `LogInv` says what log_char has done of its
work if no handler interfered, and `RecoverInv` that the log and what was logged end
alike as far back as the prompt. `TextOf` reads the log from its oldest
place; the proof rests on `LogPushes` (log_char appends to that text and drops its oldest
character, in all four cases of the index and the wrap) and on `PrintCharIs` (after
print_char the cursor is on the screen, though it may have been one too far before).
The console's bounds, and a prompt of two characters, were checked with `ConInv`.

*The invariant of Keyboard.* `ScreenShowsLine` says that the cells before the cursor show
the prompt and the line and that everything after it is blank; the second part is what
makes a character without a glyph show as an empty cell. `KeyInv` adds that both buffers hold
characters that were typed, that main's `rest` is the end of the prompt, and that nothing has
been typed before the prompt is out unless a key was early. Cells are numbered one after the
other, so that the end of a line is nothing special: `CharDrawn` and `CharErased` say
that a character moves the cursor by one and changes one cell, or moves everything up by a row.
From them `TextAppended` and `TextReplaced` (what Tab and Up print) follow by induction
over the text. The library's induction takes an operator; `SetInduction` takes a set, and
`PrintTextLeads` the set of screens after each character. Then there is one lemma per key.
A key before the prompt is out ends what the screen is known to show, but for
the blank cells after the cursor and for the buffers. `KeyInv` was checked with keyboard's bounds.

*The invariant of Disk.* `DiskInv` puts the drive at the step of its command that goes
with the step of the call, for the same sector and with the words transferred so far,
and at rest between calls or when it has refused a sector that does not exist. Each step is then a
step of `SectorStore` or none; `AddressKept` says that the four address registers give
back the number.

*The invariant of Ps2.* `Ps2Inv` has two phases. In `Starting` nothing is on its way but
what init_mouse waits for at its step, the handlers are off until `main`, and the byte read
last, which a handler called for a line left over reads again, is the mouse's 0xFA and no
scancode. In `Running` a line is latched or served exactly when its byte is in the
output buffer (`OnTheLine`), so a handler finds a byte and it is its own; and the keys and
packets handled, the bytes collected, the byte in the buffer and those behind it are together
what was struck and moved, in order (`KeysIn`, `PacketsIn`). The step between the two
phases is `UpFlowing`. `ByteNext`, `ByteCollected` and `PacketCompleted` say that
the bytes collected are always the beginning of the next packet. hardware's bounds were also
checked with `Ps2Inv`. `HardwareTypesAlways` puts the five invariants side by side: a
step of `HwNext` is a step of one component and none of the others (`EachMoves`).

*The invariant of Pointer.* That the text is kept is not inductive, because it says
nothing of the saved square. `PointerInv` says that with the pointer lifted (`Peeled`)
the screen shows the text, but for the stale pixels; and a movement leaves `Peeled` as it
is, because the new square is saved after the old one is back (`MoveKeepsPeeled`). One
lemma, `DrawingKeeps`, is for everything the other code draws. That Clamp keeps the square
on the screen (`SquareOnScreen`) is why no pixel is saved or drawn outside, where
`get_pixel` would give 0. hardware's bounds were also checked with `PointerInv`.

*The invariant of Interrupts.* `PicInv` relates the place of the processor, the line it
serves and what both controllers hold in service; a tick is counted, lost, latched or taken
(`Accounted`), all modulo the width of the counter; and while only short handlers run the
time since the last tick bounds what may have been latched since (`LatchedSince`).

*The invariant of Descriptors.* Three lemmas say that a field decodes to what was
encoded: `FlatSegments` (base 0 and all of memory), `TssSegment` (base
`tss_entry`, at least 104 bytes) and `GateHandler` (the address of the stub). `IInv`
says which rows are filled where `main` is (`GdtFilled`, `IdtFilled`, `TssFilled`),
what the registers hold there (`Where`) and that nothing moves (`Linked`). From it
`Selectors` shows that each selector in use passes the processor's check, and
`Enters` that an interrupt gets through; every step preserves it.

*The invariants of the commands.* A time is not ahead if each register, when it was
read, was not ahead of the clock and has stayed so: `ReadSoFar` says it of the first
`pc` registers, in the order in which they decide (the hour first, so a minute counts
only if the hour has not changed), with `midnight` for the day that ended
meanwhile. For the minute's accuracy `StartKept` says how the clock has gone on since
the call began. `SpeakerInv` says what each port write so far has left in the timer chip.
`NetInv` follows netinit: the search has passed no card (`SpaceInv`), what
is in its variables came from the card it is at (`StageInv`), the ring is filled before the
transmitter can run (`ReadyInv`), and lspci's list is what is below its slot (`ListInv`).

*Numbers* needs no more of a state than that the arguments are made of characters; what is
proved is what the functions compute. Their loops are recursive functions, and what a loop
computes is proved by induction over sets of numbers (`StepInduction`, `StrongInduction`,
both from `SmallestOf`): `LoopEnds` gives the value after each round of a loop.
`AtoiReads` says that no round wraps if the whole number fits, because what digits stand
for only grows (`DigitsGrow`). `TextIs` says that the digits turned around (`ReverseIs`)
are the plain text of the number, and `OneText` that it has only one: together both
directions of the round trip. `SixteenTimes` and `Powers` make the digits of hex_to_string
add up. `ComparisonFinds` says that both comparisons stop at the first place where the
strings are not the same.

Only model-checked:

- Liveness (`CommandEnds`, `EveryTaskRuns`, `CallsEnd`, `EveryLineServed`, the fairness
  of `InputStreams`): TLAPS does not prove temporal formulas under fairness.

## 6. Not modelled

- The 16-bit loader: BIOS calls; its result is `StartCpu` and `BootStack`.
- Paging, task_a and task_b: called by nothing. kfree and pmm_free_frame have no
  callers either (the latter is in `Frames` for frames that are held), and syscall
  0x80 is reached by no program, because none starts (finding 2).
- Port and cpuid wrappers: single instructions, modelled where they are used.
- Glyphs, colours, `%d` formatting, draw_rectangle, the panic texts, and the commands
  that only print or draw (help, info, fsinfo, read, uptime, color, draw, cpuinfo).
- Stack overflow in handlers; memory past `result_str`; spurious interrupts; a mouse
  that loses a byte or moves by more than half a byte at a time.
- Several blocks in the heap: init_heap makes one and nothing gives it back.

## 7. Plan

Done, in this order: the file system, where lost data matters most; the frames;
tasks and interrupts over them; the screen with its two writers; the keyboard; then
the devices: disk, interrupt controllers and ticks, keyboard and mouse at one port,
pointer, clock, numbers, descriptor tables, network card, speaker.

Then the theorems, in the order of what a mistake would cost: owners of clusters,
frames, tasks; the file system as a store of whole commands; interrupts and stacks;
the disk as a store of whole sectors; the log and the screen; the commands; the line.
Last the two handlers at the one port, the types of all devices, and what the functions of
libc/string.c compute.
