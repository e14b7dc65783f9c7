# AssFilterMod: a TLA+ model, checked and proved

AssFilterMod is a DirectShow filter that turns subtitle streams and subtitle
files into bitmaps for a video renderer. This directory models the filter in
TLA+, checks small instances with TLC and proves theorems about it with TLAPS.
Paths below are relative to `src/`; `AF` is `assfilter/AssFilter.cpp`, `AL` is
`assfilter/AssFilterAutoLoader.cpp`, `SP` is `assfilter/AssFilterSettingsProps.cpp`.

    tlc -config External.cfg MCAssFilter      # one run
    tlapm AssFilterProofs.tla                 # one proof module

## 1. The system

### 1.1 Components, their state and their operations

| component | state | operations | modelled by |
|---|---|---|---|
| Filter (`AssFilter.cpp/.h`) | graph, `m_State`, `m_bNotFirstPause`, `m_bNoExtFile`, `m_bExternalFile`, the libass track, the external files and tracks, options, consumer | `JoinFilterGraph`, `Pause`, `Run`, `Stop`, `SetMediaType`, `Receive`, `LoadExternalFile`, `SetCurExternalSub`, `ConnectToConsumer`, `RequestFrame`, `Disconnect` | `AssFilter` |
| ReadOrder bookkeeping (AF:287-333) | `mapSubLine` | the ASS branch of `Receive` | `ReadOrder`, `SubLines`, `LineStore` |
| Input pin (`AssPin.cpp`, `baseclasses/amfilter.cpp`) | connection, media type, allocator | `CheckMediaType`, `SetMediaType`, `ReceiveConnection`, `Disconnect`, `Receive` | `AssFilter`, `PinConnection` |
| Allocator and samples (`baseclasses/amfilter.cpp`) | free list, semaphore, reference counts | `SetProperties`, `Commit`, `Decommit`, `GetBuffer`, `ReleaseBuffer` | `Allocator` |
| Auto loader (`AssFilterAutoLoader.cpp`) | `m_loaded`, its dummy pin, what it finds in the graph | `CheckInput`, `AutoLoad`, `DisableAutoLoad`, `JoinFilterGraph` | `Graph` |
| Consumer interface (`SubRenderIntf.h`) | who provides to whom, frames held by the renderer | `Connect`, `Disconnect`, `Clear`, `DeliverFrame`, options | inside `AssFilter`, `TrayIcon` and `Graph` |
| Tray icon (`BaseTrayIcon.cpp`, `AssFilterTrayIcon.cpp`, `PopupMenu.cpp`) | the object, its window, its thread, a copy of the file list | construction, message loop, menu, property page, destruction | `TrayIcon` |
| SRT file reader (`Tools.cpp`, `srt_read_file`) | stream state, line state | one pass over the file | `SrtFile` |
| SRT line parser (`Tools.cpp`, `ParseSrtLine`) | position in the line, output | one pass over the line | `SrtLine` |
| Settings (`AssFilterSettingsProps.cpp`, `registry.cpp`) | the filter's settings, the pages' copies and controls, the registry key | load, show, edit, reset, apply | `Settings` |
| Bitmap blending (`SubFrame.cpp`) | a frame's bitmap | `Flatten`, `GetBitmap` | `SubFrame` |
| Fonts, log, windows | none that another part reads | | not modelled, see 7 |

### 1.2 How they interact

* The application controls the graph: it adds and removes the filter
  (`JoinFilterGraph`), connects and disconnects the pin, pauses and stops. The
  graph builder tries input pins and filters for every pin of the splitter, and
  the auto loader adds an AssFilter while it is asked whether it takes a type.
* The upstream filter's streaming thread gets samples from the pin's allocator
  and calls the pin's `Receive`, which calls the filter's.
* The consumer's thread calls `RequestFrame` and is answered by `DeliverFrame`
  before the call returns; the filter calls `Clear` when what it would render
  changes.
* The tray icon has a thread of its own. It is created and destroyed by the
  filter under the filter's lock and calls back into `SetCurExternalSub`, which
  takes that lock.
* The filter, its property pages and the auto loader share the registry key; the
  pages write the key, never the filter.

### 1.3 What is hard here, and what makes the parts correct

* **Unlocked tests.** `Receive` tests two flags, then waits for the lock (AF:205).
  Correct: the one sample that is under way while the pin is reconnected gets into the
  next track, and no other sample into the track of another stream.
* **Things flushed together.** The libass events and `mapSubLine` are two records
  of the same lines. Correct: they agree, and no line is lost or stored twice.
* **Frames out with the consumer.** Correct: after any change of what is rendered
  the consumer is told to clear.
* **A filter object that lives on.** Flags and vectors survive the graph they were
  set in; every sequence of lives in graphs must leave the subscripts of
  `RequestFrame` (AF:524) in range and the options those of the track shown.
* **Two objects under construction and destruction** while the tray thread runs:
  correct would be no fault, no use of freed memory and no deadlock. The code leaves two
  windows for a fault and one deadlock; the properties say that there are no others.
* **Connections that fail half way.** Each type that is tried and each allocator
  that is refused must leave both pins as they were.
* **A filter that adds filters** to the graph that is being built: at most one, when
  it is due, in whatever order pins and filters are tried.
* **A pool of samples** that threads wait for, that may be decommitted while samples
  are out and whose last sample deletes it.
* **Copies of settings.** Key, filter, page buffers and controls; a page that shows no
  unsaved change must show what is saved. Two fields do not always.
* **Parallel drawing** into one bitmap in 8-bit arithmetic.
* **Loops over input** in the SRT parser and file reader: they must end, and do but for
  the lines and files named.

`PROJECT.json` lists each hazard with its line and the properties that watch it.

## 2. The modules

| layer | modules |
|---|---|
| one track's lines | `ReadOrder` < `SubLines`, refining `LineStore` |
| the filter | `AssFilter` (with `ReadOrder`), `MCAssFilter` |
| the graph | `PinConnection` < `Graph` (composes the pins with the auto loader, the AssFilters and the consumer), `MCGraph` |
| parts on their own | `TrayIcon`, `Allocator`, `Settings`, `SubFrame`, `SrtFile`, `SrtLine`, with their `MC` modules |
| proofs | `SubLinesProofs`, `AssFilterProofs`, `TrayIconProofs`, `AllocatorProofs`, `GraphProofs` (with the pins' connection), `SubFrameProofs`, `SrtProofs` (line and file), `SettingsProofs` |

### ReadOrder, SubLines, LineStore

`ReadOrder` holds the data of an ASS sample (the number in front, and the rest of
the line) and the pure operators of AF:287-333: `Known` (the search over
`equal_range`), `Remapped` (the number plus count times 30000), `EntryOf`
(what is emplaced), and `ProcessChunk`, which is libass as the filter relies on
it: a ReadOrder the track already holds is dropped. `SubLines` is the state
machine of one track; `LineStore` is what it promises: it counts the copies of each
line, one for a line that was sent and none for any other. The mapping looks at the
track alone: `Copies(line)` are the events with its text at its number or a move away.
A move can bring a line to the number of another one; the refinement is stated for
`ApartLines`, the lines whose number is no multiple of the stride away from another
number of the stream, and `NoLineLost` says of the others that a line is missing only
where such a one has taken its place.

### AssFilter, MCAssFilter

One action per handler. Because each handler takes the filter's lock for the
whole of its work, a handler is one step; `Receive` is two, `ReceiveCheck` and
`ReceiveLocked`, because its test is outside the lock.

| action | code |
|---|---|
| `JoinFilterGraph`, `LeaveFilterGraph` | AF:407-447 |
| `ReceiveConnection` (with `SetMediaType`: `Flush`, `CreateTrayIcon`, `NewTrack`, `ResetSrtHeader`, `MediaOptions`) | amfilter.cpp:2039-2131, AssPin.cpp, AF:103-201 |
| `DisconnectPin` | amfilter.cpp:2136-2184 |
| `ChangeTypeInBand` | amfilter.cpp:2951-3025: a sample may carry a new type, which the pin accepts and the filter ignores |
| `ReceiveCheck`, `ReceiveLocked` (`ReceiveSrt`, `ReceiveAss`) | AF:203-335 |
| `Pause` (`FirstPause`: `LoadExternalFile`, `CreateTrayIcon`, `ConnectToConsumer`) | AF:373-396, 1024-1213, 946-989 |
| `Stop` | AF:398-405 |
| `SetCurExternalSub` (`SelectExternalSub`, `Loaded`) | AF:723-760 |
| `RequestFrame`, `Disconnect` | AF:449-537 |

State: the code's members keep their names. `media` stands for the graph,
`upstream` and `inFlight` for the streaming thread, `renderer` and `cache` for
the consumer, `received` is a history variable, `crashed` records that libass was
given a null track or `Receive` a text it does not survive (the model goes on, and
nothing is claimed of what follows).

Abstractions, each named where it is made:

* A line is a number and a text from small sets; times and styles are left out.
  For SRT the number is the start time, which is what the code uses as ReadOrder.
* Indices count from 1; `vecPos` 0 is the code's `SIZE_MAX`.
* The search of `LoadExternalFile` (directories, names, languages) is abstracted
  to its result, `MediaFiles[media]`, a sequence with no loaded file in it.
* `readable` says whether a file can be opened at that moment. If not,
  `ExtractYuvMatrix` finds no matrix, `ass_read_file` returns null, and
  `srt_read_file` does not return at all, so there is no step. For an SRT file
  `readable` also says that it is one `srt_read_file` comes back from (see `SrtFile`).
* The matrix in an ASS header is one of four values or absent. `SetMediaType` searches the
  header of a stream for two of them and takes every other for `None`; "PC.601" stands for
  those others (`PC.*`, `TV.240M`, `TV.FCC`). `ExtractYuvMatrix` takes what the file says.
* An SRT text of 1024 bytes or more ends the process (`strncpy_s`, AF:263), and in some
  texts `ParseSrtLine` loops for ever or throws. Such a text is `Fatal`, and `crashed`
  then is `"sample"`. That a long line loses its tail (AF:284) is part of what a text is.
* `Run` is `Pause`: the code's `Run` calls `Pause` from the stopped state and
  nothing reads the difference between running and paused.
* Flushing (`BeginFlush`, `EndFlush`) and the base class's runtime-error flag are
  left out: the filter overrides none of them.

Assumptions about the environment, which the code relies on: the graph manager
stops a filter and disconnects its pin before it removes it; a pin is connected
only while the filter is stopped; an upstream pin has one streaming thread, so one
sample is under way. Two more are parameters. With `UpstreamDrains` upstream has no
sample under way when it is disconnected (DirectShow's rule for `Inactive`). `Embedded`
and `External` run without it: the sample between the flag test and the lock may meet a
new track. `LinesOfTheirStream` says what that does without the rule, at most one sample
in a wrong track, and with it, none. With `InBandTypeChange = FALSE` upstream changes its
type by a connection only.

### PinConnection, Graph, MCGraph

`PinConnection` is `CBasePin::Connect` on an output pin with everything it calls: a
step is a point where the other pin, or the choice of an allocator, decides how it
goes on.

| action | code in `baseclasses/amfilter.cpp` |
|---|---|
| `Connect`, `Return`, `NoMoreTypes` | `Connect`, `AgreeMediaType`, `TryMediaTypes` |
| `AttemptConnection` | `CheckConnect`, `SetMediaType` of the output pin |
| `ReceiveConnection`, `Refuse` | `ReceiveConnection`; its failure and `BreakConnect` |
| `UseTheirAllocator`, `RefuseTheirAllocator`, `UseOurAllocator` | `DecideAllocator`, `NotifyAllocator` |
| `FailToComplete` | `CompleteConnect` fails: both pins are disconnected |
| `Disconnect` | `Disconnect` of an input pin and its peer |

A reference to an interface is the pin it belongs to, an allocator the pin that made
it. Which filter splits the file is not known to this code, so its pins offer any
types (`offers`) and decide about allocators as they like. The code of an output pin
(`DecideAllocator`, `CompleteConnect` in the table) runs in whatever filter is upstream;
the filters of this repository have input pins only. It is the base class's, as the
splitters that are built on it have it.

`Graph` puts this machine into a graph. The filters are the auto loader and the
AssFilters there may be; `history` remembers how the application began.

| action | code |
|---|---|
| `Receive` with `CheckInput` | AL:211-277: the first type uses up `m_loaded`, the graph's filters are asked for their types, the registry is asked, an AssFilter is created with `m_bExternalFile` and added |
| `TryLoader`, `LoaderRefused` | AL:82-127: `JoinFilterGraph` refuses a graph with an auto loader or an AssFilter |
| `Join`, `Leave` | AF:407-447 as far as the graph and the consumer see it |
| `Pause` | AF:373-396, 946-989: an AssFilter for external subtitles connects only if it found a file; the consumer takes the first that asks |
| `TryFreePin`, `TryAssFilter`, `RenderOther`, `GiveUp` | `IGraphBuilder::Render`, external: input pins that are free, then the registered filters by merit; a filter added for a call that failed is removed again |

What the code tells apart of a media type is the set it is in: `Seen` by `AutoLoad`
(AL:169-171), `Accepted` by the pin, `Registered` for the graph builder. The sets
differ, and the media of `MCGraph` have types in each difference.
`DisableAutoLoad` without a key is a choice of two values: the variable is not
initialised.

### Allocator

`CBaseAllocator`, `CMemAllocator` and the reference count of `CMediaSample`, as the base
classes have them: no factory template of this project names `CMemAllocator`, and the pin
gets its allocator from `CoCreateInstance` or from upstream. A step is
what happens under the allocator's lock; `GetBuffer` is a loop of such steps around
the wait for the semaphore, and `ReleaseBuffer` has a second step after the lock,
`LeaveReleaseBuffer`, where it reads `m_pNotify` and gives up the reference `Commit`
took. `Commit(n)` made n of `count` samples: fewer when memory ran out half way. An
allocator whose `refs` is 0 has been deleted; whoever comes upon it is at `fault`.

### TrayIcon

Three threads: the application's (which constructs and destroys the icon with the
filter's lock held), the icon's message thread, and the consumer's. A step is
what a thread does between two points where another can interfere: between a virtual
call and the use of the members it reads, before and after the lock is taken, and
between the parts of the construction and the destruction. `icon` tells them apart:

| `icon` | what there is | reached by |
|---|---|---|
| `"base"` | the base part; virtual calls go to the base class, which has no menu | `CreateTrayIcon`, `LeaveDerived` (`BaseTrayIcon.cpp:65`) |
| `"typed"` | the virtual functions of the derived class, its list of files not constructed yet or destroyed already | `EnterDerived`, `DestroyList` (`AssFilterTrayIcon.cpp:31-39`) |
| `"whole"` | all of it | `FinishConstruction` |

A menu or a command of the derived class that uses the list in the state `"typed"` may do
anything a list allows, or fault. `SendMessage` returns only when the other thread
has handled the message, which any message loop does, a modal one included.

The filter's lock is also held while an SRT file is read: by the first `Pause`
(`ReadFirstFile`) and by a switch from the menu. Either read may fail
(`FirstFileFails`, `FileFails`): the thread is `"stuck"` in `srt_read_file` with the
lock, or leaves it with an exception (`"threw"`), after which nothing is claimed.

### SrtFile

`srt_read_file` (`Tools.cpp:547-626`) with the standard stream it reads from: the
two state bits that matter, and `getline` for each way a call can go (a line, the
last line without a newline, nothing left, a line too long for the buffer, a
stream that has failed already). A line is known by its place and its kind. The
reference (`BlockStarts`, `TextOf`, `Fitting`) says without a loop which blocks a file
has, and what of each the event holds.

A block is written into 1024 bytes and cut there (`_TRUNCATE`, `Tools.cpp:617`): the
event has the lines in front of the first that does not fit, the cut part of which is not
told apart from nothing. `Capacity` is how many lines of ordinary text fit; a "wide" line
does not. `ParseSrtLine` is called for every block (615), and a "fatal" line is one it
does not return from, or only with an exception: `ParseFails`.

The outer loop asks for the end of the file and for nothing else. `ReturnsWhenAllRead`
and `ReadableFileEnds` together say that the call returns exactly for the files that
can be opened, have no line of 1023 characters or more, and no subtitle in which
`ParseSrtLine` fails; for any other it is stuck with the filter's lock held, or
throws.

### SrtLine, MCSrtLine

`ParseSrtLine` with `GetTag`, `ConsumeAttribute` and `MatchColorSrt`
(`Tools.cpp:155-530`) over a line of tokens: single signs, and the words the parser
compares with; the blank, the braces and the empty word have names made of letters,
which the translation to SMT needs. White space is a blank, a newline or a carriage
return where the code asks `isspace`, a blank alone where it compares with one. An
iteration of the loop is an action: `OpenTag`, `FontTag` and `FontAttribute`,
`CloseTag`, `NamelessClose`, `MicroDvd`, `LineBreak`, `Literal`, `Copy`, `Return`.
What ends the process is a value of `pc`: a read behind the NUL (`overrun`), a number
`std::stod` cannot read (`threw`), a word longer than the buffer (`aborted`). Not
among them are the short colours `swapRGBtoBGR` writes behind and the numbers too
large for `std::stod`, which would be more values of a word. The output is a sequence
of styles set, newlines and places of the input that are copied; the reference walks
over the tags of the line, knows nothing of the position, and says which style each
piece of text must have.

### Settings, MCSettings

The registry key, the filter's `m_settings`, and of each page `m_settings`, its
controls and `m_bDirty`. Of every kind of field there is one; fields the code treats
alike are not repeated. The actions are `CreateFilter` (`LoadSettings`,
`ReadSettings`), `OpenFrame` and `SwitchTab` (`OnActivate`, a dialog hidden or
destroyed by the system's frame), the edits, `Reset` (`LoadDefaults`) and `Apply`
(`OnApplyChanges`, `SaveSettings`). An indeterminate value is `junk`, and a
comparison with one goes either way. `suspect` and `blind` are history variables:
the fields that were missing or out of range at the start, and those that were
saved for a page without a dialog. `Shows` is what the user reads on the screen.

### SubFrame, MCSubFrame

`Flatten` of `SubFrame.cpp`: the first loop makes the union of the images'
rectangles (`UnionRect` of Windows, which ignores empty ones), the second draws the
images, each row by a worker of `parallel_for` that does one pixel at a time. The
arithmetic is the code's on words of 32 bits, with `% 256` and `% 65536` where its
shifts and masks cut. The three colours are computed alike, so there is one.

## 3. The runs

| run | module | shows |
|---|---|---|
| `SubLines` | SubLines | ReadOrders 0, 1 and 3, 3 texts, stride 3, so that 0 and 3 collide and 1 is apart: a line is missing only for a collision (`NoLineLost`), and for the others the handler implements `LineStore`, one copy of each however often it is sent |
| `Embedded` | MCAssFilter | ASS, SRT and PGS streams, two lives, two frames per connection, one text that `Receive` does not survive, a sample that may be under way while the pin is reconnected: `LinesOfTheirStream`, `NoStaleFrames`, `OptionsMatchTrack`, `SrtLinesKept`, `TypeOK` |
| `External` | MCAssFilter | two streams, three media files (two, one and no subtitle), three lives, in-band type changes and samples under way at a disconnection: the vectors, the subscripts, null tracks, the frames, the options and the tray's copy of the list |
| `Graph` | MCGraph | two output pins, the auto loader and up to four AssFilters, every order of trying and every refusal: connections are two-sided, at most one AssFilter is loaded for external subtitles, and one is when it is due, and there is one provider |
| `Allocator` | Allocator | three threads, two samples: no sample lost or given out twice, nobody asleep beside a free one, a decommit is completed or cancelled and rejects those who wait, a deleted allocator is left alone but for the known step |
| `Settings` | MCSettings | a key that is missing, incomplete, out of range or read-only, two pages: what is shown without an active Apply button is saved but for a scale of 0 and a second radio button, bad values have a cause, `Reset` restores the defaults |
| `SubFrame` | MCSubFrame | up to three images, rows in any order: the picture is the images one over the other, the workers do not meet, no colour exceeds its alpha |
| `SrtFile` | SrtFile | every file of up to five lines of seven kinds: the events are its blocks as far as they fit, and when the call returns |
| `SrtLine` | MCSrtLine | every short line of tags, attributes and MicroDVD codes: each piece has its style, only markup is hidden, and which lines fault or never end |
| `Tray` | TrayIcon | the lock and the memory; the list is used where it is none only in the two windows; the destructor ends and the lock is granted but for the deadlock below and a thread stuck in a file |
| `StaleMap` | MCAssFilter | the map survives a new track when no consumer is connected (finding) |
| `TrayDeadlock` | TrayIcon | the destructor and the tray thread wait for each other, the consumer for both (finding) |

### Bounds, and why they are enough

* `MaxJoins` 2 or 3 lives. Everything that survives a graph is set in one life and
  read in the next; a third life is needed to read what the second appended to
  what the first left (the two vectors of external subtitles). The theorems hold
  for any number.
* `MaxFrames` 1 or 2 per connection: one frame to be stale, a second so that the
  identifiers differ.
* Two ReadOrders and two texts in `Embedded`: a line that reuses a number, a line
  that is repeated, and a new one. Three of each in `SubLines`: the same number
  three times, so that the count in `Remapped` is more than a flag.
* `Stride` 3 instead of 30000: only its relation to the ReadOrders matters, and there are
  numbers a stride apart and numbers that are not. The theorems hold for any.
* `Fatal`: one of the two texts of `Embedded`, so that an SRT sample that is parsed
  can come before and after one that is not.
* The media of `MCAssFilter`: `film` has an SRT and an ASS file with a matrix that is
  not one of the two `SetMediaType` knows, `series` one ASS file without, `clip` none.
  So there are lists to switch in, to append to and an empty search. Of the streams
  one ASS header has a matrix that `SetMediaType` knows and one, `pcStream` of
  `External`, another.
* `Graph`: a second output pin, so that one can be connected, tried or given up
  while the loader acts for the other; four AssFilters leave one to be created by
  the loader, one by the graph builder and two to be removed and replaced.
  `MCMedia` has a type in every difference of the sets `Seen`, `Accepted` and
  `Registered`, before and after one of another. The AssFilters are alike, so
  `MCSpec` lets the application put in a fixed one at the start.
* `Allocator`: two samples so that one can be free while another is out; three
  threads so that two can wait while a third gives a sample back. `MaxNoWaits` 1:
  one call with `AM_GBF_NOWAIT` that is counted without waiting.
* `Settings`: `MaxEdits` 2, a change in each of the two pages, or a change and its
  opposite; the pages can be opened, hidden and applied without bound.
* `SubFrame`: a glyph, its border and its shadow that overlap, touch or have no
  pixels; colours, transparencies and bitmap values at the ends of the byte and in
  the middle.
* `MaxLines` 5 in `SrtFile`: a number, a time line, two lines of text or a second time
  line, and the end or the next block, of every kind of line.
  `Capacity` 2: a block of three lines is cut, and one of two is not.
* `SrtLine`: every line of up to four of the tokens of plain tags, four behind
  `<font ` and four behind `{`, up to three whole tags in a row, and the lines of
  `OddLines`. A fault needs at most an opening, a name, a separator and a value.
* `CHECK_DEADLOCK FALSE` is set where the bounds end a behaviour (no life is left in
  the runs of `AssFilter`), where a call returns (`SrtFile`, `SrtLine`, `SubFrame`),
  where the pins may have let go of the allocator for good (`Allocator`), and in
  `Tray`, where the deadlock that `TrayDeadlock` shows is real.

The width of the integers is part of `SubFrame` only. In `ReadOrder` the number is
an `int` and would need more than 70000 lines with one number to overflow.

### Fairness

`SrtFile` and `SrtLine` are functions that run on their caller's thread: weak fairness
of their steps. In `Allocator`, `GoesOn(t)` is what a thread does that is inside
`GetBuffer`: weak fairness, a running thread goes on and a semaphore with a count lets
one through; nobody has to ask for a sample, give one back or commit. In `TrayIcon`,
`Fairness` says that a thread which can go on, and does not fail in a file, does (weak
fairness of the destructor's steps, the thread's own steps and the end of a frame),
and that a thread waiting for the lock gets it when it is free again and again (strong
fairness: a Windows critical section is not fair, but a waiter is not passed over for
ever by threads that also do other work). Nothing is assumed of a file: nothing makes
a read fail, and nothing makes it end well but the step of the thread that goes on.
Nor is anything assumed of the user: no click is fair, and the menu or the page is
only sure to go away once the window that owns it is destroyed. Nobody is forced to
create or destroy the icon or to ask for a frame.

## 4. What is proved

| module | theorem | says |
|---|---|---|
| SubLinesProofs | `TypeCorrect`, `Invariance`, `NoLineIsLost`, `ImplementsStore` | a line received is an event unless one a multiple of the stride away took its place, and for the lines without such another the handler implements `LineStore`, for all ReadOrders, texts and strides |
| AssFilterProofs | `Invariance`, `TypeCorrect`, `TracksAreOfTheirFiles`, `ExternalSubtitlesRenderable` | the types hold, a loaded file names its own track, both subscripts of `RequestFrame` are in range |
| AssFilterProofs | `FramesAreNotStale`, `SamplesGoToTheirTrack` | `NoStaleFrames` always; `LinesOfTheirStream` when upstream does not change its type in band, whether it drains or not |
| AssFilterProofs | `OptionsAreOfTheTrack`, `NullTracksHaveACause`, `SrtLinesAreKept`, `TrayMenuIsRight` | `OptionsMatchTrack` (with the two matrices the code misses), `NullTrackHasCause`, `SrtLinesKept` and `TrayMenuNamesFiles`, always: also with late samples and in-band type changes |
| TrayIconProofs | `LockIsDisciplined`, `MemoryOutlivesThread`, `FaultsAreInTheWindows` | lock discipline, no free before the thread has ended, faults only before the list is copied, in teardown or without a window |
| AllocatorProofs | `AllocatorAccounts`, `AllocatorWakes`, `AllocatorDecommitPends`, `AllocatorDeletion` | the four invariants of the run, for any finite set of threads and any number of samples |
| GraphProofs | `PinsAgree` | after every call both pins agree on peer, type and allocator, for any pins and types |
| GraphProofs | `GraphConnects`, `GraphPinsAgree` | the graph implements the pins' connection, so `PinsAgree` holds in it |
| GraphProofs | `GraphHasOneAutoLoaded`, `GraphHasOneProvider` | at most one AssFilter is loaded for external subtitles, and the consumer has one provider |
| GraphProofs | `GraphAutoLoadsWhenDue` | a graph whose pins are all rendered has an AssFilter if the auto loader had its chance and nothing forbade it |
| SubFrameProofs | `FramePremultiplied`, `FrameWorkersApart` | no colour exceeds its alpha and both fit a byte; the threads of one image write to different pixels of the bitmap |
| SubFrameProofs | `FrameIsLayered` | the bitmap is the images over each other in their order, in whatever order the threads drew the rows |
| SrtProofs | `FileInvariance`, `BlocksAreEvents`, `ReturnsOnlyAtTheEnd` | the events are the blocks of the file, each with its lines up to the first that does not fit, for files of any length and any buffer; the reader returns only from the end of a file it could read and in which `ParseSrtLine` did not fail |
| SrtProofs | `ParserInvariance`, `OnlyMarkup`, `Faults` | for every line: only markup is hidden, and a fault has its cause at or behind the place the parser had come to |
| SrtProofs | `StyleInvariance`, `Styled` | for every well-formed line: the output is the text outside the tags, in order and in the styles the tags give it |
| SrtProofs | `LinesEnd`, `FilesEnd` | every step of either loop leaves less to do, for lines without a nameless closing tag and for files that can be read |
| SettingsProofs | `Invariance`, `CleanPageShowsTheKey`, `OnlyBlindPagesSaveJunk` | a clean page shows what is saved, but for a scale of 0 and a second radio button; a bad value in the key has a cause; for every key and any use of the pages |
| SettingsProofs | `ApplyAfterReset` | the action property `ResetRestores`: what is saved after `Reset` are the defaults, but for the alignment |

Assumptions: those of the constants, which TLC evaluates in the runs (what stands
for a null pointer is none of the things it could be confused with, sets of threads
are finite, an image is as libass makes it: its bitmap has the bytes its stride and
height say), and the ones written in the theorems.

**SubLines.** `NoLineLost` is not inductive: that a moved ReadOrder is not one of
another line with the same number depends on where the earlier ones went. `IInv` adds
that each entry was moved by a number of strides below the number of entries with its
key (`MovedByOccurrence`), that two entries with one key share neither the ReadOrder
nor the text (`DistinctPerKey`), that an entry without its event has one with its
ReadOrder in the way (`EventsAreEntries`), and that the map and the history are the
same lines. Two lines meet only where their numbers are a multiple of the stride
apart: this arithmetic (`StridesMeet`, `StridesDiffer`, `MovesMeet`) is the heart of
the proof, with lemmas on the count of a key. `CopiesCounted` then gives the
refinement: an apart line has one copy from the moment it was received.

**AssFilter.** `TypeOK` and the two vectors' agreement hold only together with facts
about the order of the calls: `PinInv` (a pin, a sample under way and an embedded
track exist only outside external mode, and none outside a graph) and `ExtInv`
(once there are external files the filter stays in external mode and the current
one is loaded before a consumer can be connected). The proof has one lemma per
operation. `SelectAgrees` is the central one: a switch keeps the two vectors
together whatever was loaded before, because a file that is loaded gets the next
position, which no other file has.

`FrameInv` adds that a filter without a consumer has no frames
out; the interesting cases are `ReceiveConnection`, where `SetMediaType` does not
clear if there is no track (then nothing was rendered either), and the first
pause, which cannot have a consumer yet. `StreamInv` adds that a sample under way
that is not of the track's stream was under way when the track was made, so the track has
received nothing yet: it will be the only stray. With `UpstreamDrains` there is none.
It needs that upstream changes its type by a connection only.
`OptionsInv` rests on one fact the code does not say: once there are external files
there is no embedded track, because the first file is read into `m_track` and moved
away. So the options are those of the embedded track while there is one, else those
of the current file, and `FilesRead` says the list has the matrix of the file's header
for every file whose track could be read, and that a null track is one of an ASS file,
which also gives `NullTrackHasCause`. The same fact keeps an embedded ASS track from being
taken for an SRT track without a header (`SrtInv`). `TrayInv` says when there can be
an icon: not outside a graph, and in external mode not before the first pause, which
finds the files first.

**TrayIcon.** `AppAndIcon` ties how far the application's thread is to how much of the
icon exists and to where the message thread can be: in the base constructor it can
have a window and a loop but no menu, because a virtual call finds the base class.
From `EnterDerived` on that is over, and `FaultOnlyInWindow` is all that is left to
say until the list is copied.

**Allocator.** The four properties need two counts. `WakeInv`: the semaphore and
`m_lWaiting` together are the threads that wait plus the calls that were counted
without waiting, and while there is a sample, or the allocator is decommitted,
nobody is left in `m_lWaiting`. `RefsInv`: the references are those of the pins,
the one `Commit` took, and one for every thread that has completed a decommit and
not given it up. The steps that move a thread from one place to another rest on
lemmas about the cardinality of the set at each place.

**PinConnection, Graph.** `PinInv` says of every stage of a call what each pin holds
already; only one call is under way, so every other pin is connected two-sided or
holds nothing. `Graph` then needs no proof about pins: each of its steps is a step
of `PinConnection` or leaves the pins alone. `GraphInv` adds that a filter that is
being tried is in the graph and has not been paused, that a filter outside the graph
is as new (`FreshInv`), and that an auto loader that may still act sees no
auto-loaded filter (`LoadedInv`): the last is what the refusals of `JoinFilterGraph`
and the flag `m_loaded` achieve together.

`AutoLoadedWhenDue` speaks of what did happen while the graph was built, so `DueInv`
keeps the past: once the auto loader has been tried at a pin for which it is due, or
has spent its one chance where it acts on every pin, there is an AssFilter that stays
(`TriedInv`, `SpentInv`, `Staying`), and its key stays what it was (`KeyKept`). The
proof showed what the runs had not: the property's condition has to ask for a pin on
which the loader acts, as "it acts on all pins" also holds of a graph without any.
`Outputs` is not empty in the run.

**SubFrame.** That a colour does not exceed its alpha is kept because both are made
smaller by the same factor, with the same rounding, and because the colour that is
added is a product with the alpha that is added; that nothing overflows, because
the alpha of an image is at most 254 and what is kept of the pixel below is at most
255 minus that. `RectInv` (the rectangle holds every image the first loop has
passed) puts every pixel that is written inside the bitmap; that two rows do not
meet is a lemma about the grid `y * Width + x`. `PictureInv` says what the bitmap
shows while an image is being drawn: at a place that a worker has passed the layers
up to this image, elsewhere the layers before it. `Layers` is a recursive function
of the number of images, and that it is the function its equation says is an
induction. The library's induction theorems cannot be used (they have an operator as
a parameter), so `LeastNat`, every set of numbers that is not empty has a least one,
is derived from the well-foundedness of the subsets of a finite set
(`FS_StrictSubsetOrderingWellFounded`), and `LayersAreDefined` from it.

**SrtFile.** The reader makes one pass and remembers only its block, the reference
looks at the whole file. `FileInv` ties them: while a block is open no line since its
time line was blank and all of them are in it (`OpenBlock`); while none is open and
the stream is good, every time line read has a blank line behind it
(`NextTimeStarts`), so that the next one starts a block; the events are the blocks
left so far, each with its lines in front of the first that does not fit
(`EventsInv`). `StreamInv` says what the flags of the stream tell of the lines read,
from which `ReturnsOnlyAtTheEnd` follows.

**SrtLine.** A loop that searches the line is `After`, a `CHOOSE`: that there is such
a place is `LeastNat` again, from the NUL behind the line, and what the searches pass
over is what `OnlyMarkupIsHidden` allows to be hidden. `StyledAsTagged` compares the
last override before an item of the output with the last tag before a place of the
line, and neither side is a function of the state of the loop. `StyleInv` gives both a
meaning for the part of the line that was passed. `PlaceInv` says what the output
would give a next item (`Now`): between tags the style of this place; inside a font
tag, where one attribute may have been put out and the other not, what the attributes
read so far give. `TextInv` says that the items that are text are exactly the text
passed, in its order, each in the style of its place. The proof rests on the shape of
a well-formed tag (`TagShape`, from the set `TagBodies`), on what `ConsumeAttribute`
reads of an attribute with and without quotes (`AttributeRead`), on what the reference
takes from the same body (`PlainSetting`, `ClosingSetting`, `OneFontSetting`,
`TwoFontSetting`), and on the fact that an override or a tag behind the others is the
maximum of its set (`NowGiven`, `BehindTag`).

`LinesEnd` and `FilesEnd` are the safety part of `EndsUnlessNameless` and
`ReadableFileEnds`: a natural number (`Left`, `FileLeft`) gets less with every step that
does not end the call. That a step is taken at all is fairness, and left to TLC. The
first has the nameless closing tag as its only exception, for lines of any length.

**Settings.** Key, `m_settings` and controls are tied field by field (`FieldInv`).
`Saved` holds of hidden pages too, which `ShownIsSaved` does not speak of, since a
page is shown again without being filled; it says that the page would save again what
is saved. From it, and from `ButtonsInv` (one button is down, or one and the
default's), `ShownIsSaved` follows, with a scale of 0 and the second button as the
only differences between what is shown and what would be saved. `Caused` says that
what `Apply` would save is proper or has a cause, before it is saved; `Restored`
follows a page from `Reset` to `Apply`. Each action changes one page or one field, and
`FieldKept` does the rest.

## 5. What is only model-checked

* Liveness (`TeardownEnds`, `LockIsGranted`, `ReadableFileEnds`, `EndsUnlessNameless`,
  `WaitersAreRejected`) and everything about `ENABLED` is out of the prover's reach.
  For the two SRT loops, `LinesEnd` and `FilesEnd` prove that no step leaves as much to
  do as before; for the others TLC alone speaks.

Every invariant and every action property of the runs, and both refinements, are proved.

## 6. Findings

Two are runs that TLC refutes, with the line each contradicts quoted in
`PROJECT.json`.

1. `StaleMap` (AF:119): `mapSubLine` is cleared only with a consumer, the track is
   replaced always; lines of the new track are taken for duplicates.
2. `TrayDeadlock` (AF:441): the icon is destroyed with the filter's lock held while
   its thread may be waiting for that lock.

The models behave in the following ways too, because the code does. No run is
spent on them; where a property had to make room for one, its definition says so.

* Filter: with more than 30000 lines a moved ReadOrder can meet a later one and libass
  drops that line (AF:326): `NoLineLost` and `ApartLines` say which. A known line is
  compared without its time (AF:315). A file that cannot be read leaves a null track,
  which `RequestFrame` gives to libass (AF:733). An embedded SRT line of 1024 bytes or
  more ends the process (AF:263). For an embedded ASS track whose header names another
  matrix than `TV.601` or `TV.709` the option says `None`, and for any header without
  one too (AF:164-180, `Tools.cpp:124`), where `SubRenderIntf.h:94-98` has the
  header's field forwarded and `TV.601` for a header without it: `MatrixMissed` is
  this exception of `OptionsMatchTrack`. `Receive` does not look again under the lock,
  so a late sample is parsed after a disconnection, or into the next stream's track
  (AF:205). The list of files and the current index survive the graph and name an
  earlier media file (AF:1212). `m_bNoExtFile` is never reset, so the filter stops
  looking (AF:384). The bounds test of `SetCurExternalSub` is made before the lock is
  taken (AF:725). A provider that is refused does not ask the next consumer (AF:957).
* Auto loader: without the key `DisableAutoLoad` returns a variable nobody set (AL:198).
  The first type of any kind uses up `m_loaded`. SSA is registered and accepted but not
  among the types `AutoLoad` looks for (AL:169), UTF-8 text with another format is
  looked for but refused. `m_bExternalFile` is not reset when the filter leaves.
* Allocator: `ReleaseBuffer` reads `m_pNotify` after it has left the lock and without a
  reference of its own, so the allocator may be gone (`amfilter.cpp:4823`). A call
  with `AM_GBF_NOWAIT` is counted in `m_lWaiting` though it does not wait, and the
  semaphore is then one too high; the waiter that wakes for nothing asks again.
* Settings: a scale of 0 that was typed and applied stays on the screen while 100 is
  saved (SP:204-206). `Reset` leaves the alignment as it was: the default's button is
  checked beside the old one, and Apply saves the first of the two (SP:449). A page
  that was applied while its dialog was gone saves what its controls no longer say
  (SP:202).
* SubFrame: the alpha of an opaque pixel is 254. `GetBitmap` takes the pitch
  from the size even when the caller asked for no size (`SubFrame.cpp:89`).
* SRT: `ParseSrtLine` does not end for a closing tag without a name (`Tools.cpp:386`),
  reads past the line for an attribute without `=` or a brace at the end, and
  `std::stod` throws for a size that is not a number. In a file, a subtitle that does
  not fit 1024 bytes loses its tail (`Tools.cpp:617`).
* Tray icon: a right click after the base constructor has returned and before the list of
  files is copied uses a list that is none (`AssFilterTrayIcon.cpp:31-34`), as does a menu
  that is being built when the icon is destroyed. A switch to an SRT file that is not read
  to its end keeps the filter's lock for ever (AF:743).

Hazards that were found to be harmless are as much a result: the SRT header flag, the
subscripts in range, the frames after switches, the options but for those matrices,
refused connections, allocators decommitted with samples out, rows drawn in parallel.

## 7. What is not modelled

* Fonts (`FontInstaller.cpp`), the layout and texts of the dialogs
  (`BaseDSPropPage.cpp`), the log (`AssDebug.cpp`): system calls and tables without
  state that another part reads. Of the registration (`AssEntry.cpp`) only the types
  and merits are part of `Graph`.
* The directory search and file names of `LoadExternalFile` (its result is a constant
  of `AssFilter`), code pages and character conversion.
* The getters of the option interface (AF:539), which read the option maps without the
  lock. A reader on another thread can see a map while it grows: what it gets is
  undefined, and a property could only say so.
* Flushing and the base class's runtime-error flag; a `CoCreateInstance` or
  `AddFilter` that fails; `OnDisconnect` of the pages (SP:58); several processes that
  write the key (SP:493).
* Most of the vendored DirectShow base classes (`baseclasses/`): renderers, transforms,
  windows, clocks, position passing and the debug library are compiled with the
  filter and never reached by it. They, and the headers of libass and of the UTF-8
  library, are most of the lines of this repository; what the filter inherits or
  relies on (pins, allocator, samples, `Receive`) is modelled from `amfilter.cpp`.

## 8. What is left

1. `SubRender`: the contract of provider and consumer as an abstract specification that
   `AssFilter` implements, with the unlocked getters and the order of `Clear` and the
   options.
2. The file search of `LoadExternalFile` as a module of its own, from which
   `MediaFiles` follows.
3. Flushing: `m_bFlushing` and `m_bRunTimeError` among the variables of a sample.

