# RedFox in TLA+

RedFox is a C++23 library for games and tools in three parts: `core` (files,
images, libraries, logging, crash reports), `render` (delegates, windows, Vulkan
objects) and `net` (a UDP client and server).  This directory specifies the parts
of it whose correctness depends on the order in which things happen: TLA+
modules, the TLC configurations that model-check them, and proofs for TLAPS.
Paths below are relative to the repository.

## Running it

    tlc -config MCNetServer.cfg MCNetServer      # each run is one cfg, see "Runs"
    tlapm NetServer_proof.tla                    # each *_proof module

A run listed as *violation* is expected to end in a counterexample: it shows a
place where the code and a comment, a test or a message of the code disagree.

## Inventory

| component | state it keeps | operations | hard behaviour | what makes it correct |
|---|---|---|---|---|
| net server (`src/net/server.cpp`) | `clients_`: endpoint -> id, agent, state, time last heard; time heartbeats were sent; the socket | `host`, `process` (receive loop, heartbeats, timeout loop), `send`, `broadcast`, four callback tables | verdicts by a time read earlier; callbacks and sends that throw in the middle of a loop; endless traffic; ids by table size | callbacks agree with the table; no session without entry; verdicts are right; `process` returns; ids are unique |
| net client (`src/net/client.cpp`) | connection state, server state, handshake flag, three times, the socket | `connect`, `process`, `send`, `disconnect`, five callback tables | two threads without a lock; three ways to end; use after close; members without initialiser | one end per connection; timeouts are true; a silent server is noticed; `process` throws only when the application knows why |
| net session | both of the above and the datagrams on the way | - | loss, delay, reordering, duplication; ratio of interval and timeout | a live peer is never called dead; a departed one is forgotten; nobody is said to leave who has not |
| wire format (`src/net/utils.cpp`) | - | `serialize_internal`, `deserialize_internal` | sizes at the boundary, cut datagrams | what is written is read |
| callback table (`library.ipp`) | key -> callable under a mutex | `define`, `undefine`, `clear`, `contains`, `size`, `call` | callables that call back, threads that undefine what runs, exceptions | no self-deadlock; nobody is skipped; nothing undefined before the call runs |
| dynamic libraries (`src/core/library.cpp`) | static cache name -> `shared_ptr<lib>` | `load_library`, `unload_library`, `get_function` | unlocked cache; `dlclose` under functions in use | one handle per name; no function of a closed library is called |
| containers (`mass.hpp`, `map.ipp`) | inline array and size; two maps | push, pop, erase; insert, exsert | element lifetimes; two maps in step | every element is constructed and destroyed once; the maps are inverse |
| files (`src/core/file.cpp`) | the file system | read, write, rename, delete | failures between delete and write | content is not lost |
| crash monitor (`src/core/monitor.cpp`) | signal handlers, save path | `activate`, the handler | crashes in the handler | it ends, with at most one report |
| delegates (`src/render/interface/delegate*`) | one instance, display, window map | create, poll, terminate, (de)register | windows closed inside their event; display used after close | events only reach live windows |
| windows (`src/render/interface/window*`) | key states, window state, flags, display mode, cursor | event handlers, flags, fullscreen, close | re-entrant callbacks; failures half way into fullscreen | key life cycle; the desktop mode is restored |
| Vulkan objects (`src/render/vulkan/*`) | handles | init, destroy, recreate, copy | failures part way; use after destroy | nothing leaks, nothing dies twice |

How they interact.  An application thread owns a server or client and calls
`process`; that calls back into the application through callback tables, which
may call `send` or `disconnect` again.  Server and client meet only on the wire.
A delegate owns the connection to the window system and hands events to windows,
which call back into the application; a window gives Vulkan its surface.  The
monitor is entered by signals.

`src/net/socket.cpp`, `src/net/connection.cpp` and `include/RF/net/types/` are an
earlier TCP transport that no CMake target builds.

## Modules

| module | models | extends / instantiates |
|---|---|---|
| `Membership` | the abstract contract of the server's callbacks: sessions open, live and close | - |
| `NetServer` | `server.cpp` | instantiates `Membership` |
| `NetServer_proof` | theorems about `NetServer` | extends it |
| `NetClient` | `client.cpp` | - |
| `NetClient_proof` | theorems about `NetClient` | extends it |
| `NetSession` | a server and a client on a link | instantiates `NetServer`, `NetClient` |
| `NetSession_proof` | theorems about `NetSession` | extends it |
| `NetWire` | `utils.cpp` | - |
| `CallbackTable` | `abstract_function_t` in `library.ipp` | - |
| `CallbackTable_proof` | theorems about `CallbackTable` | extends it |
| `LibraryCache` | `library.cpp`, `lib` in `library.ipp`, and the dynamic loader | - |
| `Mass` | `mass.hpp` | - |
| `BiMap` | `map.ipp` | - |
| `KeyTables` | the three key tables of `virtual_key.hpp`, data for `BiMap` | - |
| `FileStore` | `read_file`, `write_file`, `delete_file`, `rename_file` of `file.cpp` | - |
| `CrashMonitor` | `monitor.cpp` on Unix, and the delivery of signals | - |
| `Delegate` | `delegate.cpp`, the life of an `x11_delegate`, `get_x11_dyfuncs` | - |
| `VideoModes` | `find_fitting_video_mode_` of `window.cpp`, `enumerate_video_modes` | - |
| `X11Window` | `x11_window.cpp`, what it inherits from `window.cpp`, the event loop of `x11_delegate.cpp` | - |
| `Win32Window` | `win32_window.cpp`, its window procedure, the message loop of `win32_delegate.cpp` | - |
| `MCWindow` | nothing: a window of one platform or the other, under the same properties | instantiates `X11Window`, `Win32Window` |
| `Window_proof` | theorems about windows of both platforms | extends `MCWindow` |
| `GpuObject` | `init`, `copy`, `destroy` of the buffers, images, pipelines, framebuffers, samplers, ... of `src/render/vulkan/` | - |
| `ObjectClasses` | the table of those classes, data for `GpuObject` | - |
| `Swapchain` | `swapchain.cpp` | - |
| `ImageLayout` | the layout tracking of `image.cpp` and `render_pass.cpp` | - |
| `DescriptorSet` | `descriptor_set.cpp` | - |
| `RedFoxParts` | nothing of its own: the twelve parts that share no state, side by side, with what they assume of their constants | instantiates `GpuObject`, `Swapchain`, `ImageLayout`, `DescriptorSet`, `NetWire`, `LibraryCache`, `Mass`, `BiMap`, `FileStore`, `CrashMonitor`, `Delegate`, `VideoModes` |
| `Vulkan_proof` | theorems about `GpuObject`, `Swapchain`, `DescriptorSet`, `ImageLayout` | extends `RedFoxParts` |
| `Core_proof` | theorems about `LibraryCache`, `Mass`, `BiMap`, `FileStore`, `NetWire`, `CrashMonitor` | extends `RedFoxParts` |
| `Display_proof` | theorems about `Delegate`, `VideoModes` | extends `RedFoxParts` |
| `MCParts` | the classes and key tables of the code and sample values for TLC | extends `RedFoxParts`, `KeyTables`, `ObjectClasses` |
| other `MC...` | symmetry and sample values for TLC | extend the above |

Operators called `Mut_...` are wrong versions of the definition that follows
them (a dropped guard, an off-by-one, a missing reset).  Nothing uses them: with
one in the place of the right one, the property it belongs to fails, which shows
that the property looks at that code.

### NetServer

`process()` is one call in the code and several steps in the model, because a
datagram, the clock or an exception can come in at many points.  `pc` is where
the call is: `Receiving` (in the loop of lines 143-202), `Handling` (a datagram
has been read and its client found or made), `Erasing` (between `on_disconnect`
and `erase`, lines 176-177), `Sweeping` (the timeout loop).  The order of the
code is kept: a client is put in the table before `on_connect`, removed after
`on_disconnect`; the clients that time out are collected and erased after the
loop.  The iteration order of the `unordered_map` is left open.

A time point is an age: `clients[e].silence` is `now - last_heartbeat`.  Ages
grow with `Tick` and stop one above the largest threshold they are compared
with, where all comparisons have their final answer.  The `now` of the timeout
loop is the function `sweep`, the ages at the moment `now` was read.

`view` and `event` are history: what the callbacks have told the application.
`departed` is history too.  With `Throws`, callbacks, sends and the parser may
throw at each point where the code allows it; the exception leaves `process()`
and its locals are lost.  The owner is assumed to catch it and to go on, which
is the case in which something can go wrong.

### NetClient

Two threads, as in `test/net/client.cpp`: one calls `connect` and `process`, the
other sends and disconnects.  `pc[t]` is where a thread is.  `disconnect()` is
three steps (`Leaving`: send, `Closing`: close, `Parting`: `on_disconnect`) and is
called by the user, by a Disconnect message and by the timeout; `after` says where
the main thread goes on afterwards.  Calls on the closed socket throw.  So do callbacks,
with `throws`: a callback table runs all its callables and throws afterwards, and the
call that told the application ends there (`Resume`).  `connect()` then leaves the
socket blocking, and `process()` leaves out what comes after the callback, the
`disconnect()` after `on_timeout` for instance.
`conn_state_` and `server_socket_state_` are not initialised by the code
(`client.hpp:66-67`); `InitialConn` is the set of values the former may hold, the
latter may hold either.  Read by itself the model is an interleaving of socket
calls and callbacks; the data race on the socket object proper, which is
undefined behaviour, is not modelled beyond that.

### NetSession

The server and the client step as they do alone; what one sends is on its way to
the other until it is read or lost.  A set of kinds is enough, because no handler
tells two datagrams of a kind apart.  `Timely` holds the clock back until both
sides have finished a pass and the link is empty, which `turns` keeps the account of;
without it a datagram may be late by any time, so that it comes after the entry it was
for has timed out.  `Lossy` and `Doubling` switch loss and duplication; what comes for
a closed socket is lost on any link.  The client's connection deadline is left out
here, which the lemma `NetClient_proof!DeadlineCorrect` justifies.

### NetWire

`Width` bytes of `Base` values stand for the 8 bytes of 256 in the code; nothing
in the algorithm depends on these numbers, and the theorem is about any.  A number
is written and read by a loop over its bytes, as in the code: `BigEndian` cuts one off
after the other, `Native` shifts them in, with the wrap-around of the type
(`Power[Width]`).  Reading a datagram is modelled with one step for
each pass of the loop.  The datagrams read are those a peer wrote, whole or cut;
`offset + body_size` stays far below the wrap-around of `size_t` for them, so
that wrap-around is not modelled.

### CallbackTable

Each thread has a stack of calls, since a callable runs inside `call()` and may
use the table itself.  `ever` and `always` are history: which entries were in the
table at some time, and all the time, since a call began.

### LibraryCache

Threads load, unload and release libraries.  A `lib` lives while the map, a thread or a
call has its `shared_ptr`; the destruction of those nobody has any more belongs to
the step that drops the last one (`Settle`).  The loader is external: it counts how
often a library is open, and a library that is mapped again may be somewhere else
(`mapping`).  The static map has no lock; when two threads are in it at the same time
and one changes it, the program's behaviour is undefined and the model stops
(`torn`).  What is left are the interleavings without a race proper, such as two
`dlopen` of one name between the `find` and the `insert` of two threads.

### Mass, BiMap

`Mass` follows each cell of the buffer: nothing, an object, or an object that has been
moved from.  Constructors and moves may throw half way.  Where T has no constructor that
moves, `std::move` copies and the source keeps its value (`copies`, which a T is or is
not for good).  `content`, `lost`, `twice` and `threw` are history.  `BiMap` is made of a list, or starts empty and is changed by
`insert` and `exsert`; the lists are the tables of `KeyTables`.

### FileStore

A call is several steps: `Read`, `Delete`, `Open`, `Put`, each of which the disk may
fail, and between which the process may end (`Crash`).  `hurt` is history: the faults
that came while a rename had the content in memory only.  A stream that is not opened
as binary writes CR LF for a newline on Windows, and `rename_file` reads with and
writes without that flag.

### CrashMonitor

Signals come from outside (`Arrive`), from what a thread does (`Fault`), or from
`abort()`, at any point, also inside a handler that is under way; a thread has a stack
of handlers and a signal mask.  `signal()` of the C library blocks the signal while its
handler runs.  The handler is taken apart where something else can come between:
`Enter`, `Rethrow`, `Write` (the file is opened, and emptied), `Put`, the dialogue,
`Abort`; `Escape` is an exception that leaves it.  A signal that finds the thread in the
allocator ends in a handler that waits for ever (`Stuck`).

### Delegate

`RF::delegate::create` is a sequence of steps that may fail, in the order in which C++
evaluates them: the probe of `current_video_mode` comes first, then the constructor
of the base, the members, the body.  What an exception undoes is what has been
constructed by then.  The application may make and end several delegates, call
`terminate()`, close or delete windows, also inside a callback.  A callback may poll
again, so handlers of one window and of several nest: `handling` is the chain of those
under way, at most `MaxPolls` for TLC, and what an inner callback deletes an outer
handler may still be at work on (`undercut`, `touched`).  Xlib's answer to a
display that is null or closed is external: null ends the process; the second close of
a display is recorded in `twice`.

### VideoModes

`EnumerateVideoModes` goes through the modes XRandR knows, one a step, and lists those
that have an extent and the totals `hTotal` and `vTotal` by which the refresh rate is
computed (`Usable`); then one search goes through the list, again one a step.  `Width`
stands for 2^32, and extents, like differences, are taken modulo `Width`.

### Win32Window

As `X11Window`, with one difference that makes it a module of its own: there is no
queue for what Windows tells a window about itself.  `ShowWindow`, `SetWindowPos`,
`SetForegroundWindow` and `DestroyWindow` call the window procedure before they
return.  `stack` therefore has frames for such calls (`Sent`, with the messages still to
be sent; `Sized` and `Destroying` for what the code does after them), and handlers nest
whether the application polls or not.  Which messages Windows sends, and in which
order, is external; where the documentation leaves it open, both orders are
possible.  The exceptions of an exception: a throw that has to pass a frame of Windows
may be swallowed there or end the process.  `misled` and `mixed` are history: the last
activation was one the code does not know (`WA_CLICKACTIVE`) or came out of order;
Borderless has been used together with Fullscreen.

### X11Window

The handlers of a window call the application back, and a callback may do what the
main loop does: poll for events, set the Fullscreen flag, close the window.  `stack`
is the chain of calls this makes, the last one on top: `Poll` for `poll_events()`,
and for each callback a frame that says what its handler still has to do when it
returns (`StateTold`: switch the display mode; `DownTold`, `UpTold`: move the key on;
`Told`: nothing).  The part of a handler between two callbacks is one step.  An
exception (an XRandR call that fails, with `Fails`) cuts the stack back to a callback
that catches it or to the main loop.

The X server and the window manager are external: `mapped`, `focused`, `mode` and
the `iconify` request are their state, `queue` is the events the window has not read.
What the user does comes in any order; events of one window arrive in the order they
were sent.  `XSetInputFocus` on a window that is not viewable is an error for which
Xlib's default handler ends the process (`alive`).  Keyboard keys and mouse keys
have the same handlers and are one set, `Keys`.  Cursor, title, size and position
are not modelled: their handlers store the value and call one callback.

`last`, `seen` and `excuse` are history, kept to say what may be expected: the
last event handled of a key, whether the window has heard of its state at all, and
why the display mode need not fit the state.

### GpuObject

The classes of `src/render/vulkan/` repeat one pattern: `init()` creates handles one
after the other and may throw between any two of them; `destroy()` destroys the
members and throws when `initialised_` is false.  Nothing is undone by a throw.  The
classes differ in when they set the flag (before the first creation or after the
last), in what they create and in which of it is temporary; `Class` is the record of
these differences, and `ObjectClasses` has the table of the classes of the code; the
super buffer is like the buffer.  A handle is not a number but the state of the
variable that holds it: `null`, `live` or `dead`.  Creations and destructions are
Vulkan's, which is external: passing over null handles in a destruction is its rule.

`lost`, `twice` and `failed` are history: live handles that nothing names any more,
second destructions, calls that threw.

### Swapchain

`swapchain_impl_t` has no flag, and its `recreate()` is a `destroy()` and an `init()`
that starts with the handles and vectors the last one left.  The creations of
`init()` are steps, any of which may throw.  `recreate()` passes its own member
`buffer_attachments_` as a span to `init()`, whose line 56 assigns that same member;
the vector's storage may be gone afterwards, so what line 164 reads is open
(`span = "dangling"`, `wild`).  The `submit_and_present` path is not modelled.

### ImageLayout

The host's record of an image's layout (`barrier_data_`) against the layout the GPU
has given it.  A framebuffer may share the image object of the application
(`ShareFramebuffer`) or hold a copy of it (`create_framebuffer`).  `create_info`
updates the record when the pass is recorded; the GPU reaches the layout when the
pass runs; `trans()` can come in between.  One pass is recorded at a time.  Levels,
layers, access and stages are not modelled.

### DescriptorSet

No flag says how far a descriptor set has come, so every operation is enabled at any
time.  A handle is again null, live or dead, with the indices its layout was made of;
`reached` is what the writes have reached in the set.  `allocate()` is one step that
succeeds, or throws because it cannot make the layout (line 54), or because it cannot
make the set of it (line 61).  It is called once, or again after it has thrown: the
application destroys a set before it allocates it anew.  It owes that `destroy()` for
a call that threw too, since the exception does not say whether there is a layout.

## Runs

Each run takes one instance and asks everything of it that the instance can
answer; safety and liveness share a run where they need the same bounds.

| run | instance | checks |
|---|---|---|
| `server` | 2 endpoints, no exceptions, fairness | `ViewMatchesTable`; refinement of `Membership` (`KeepsContract`); `SilentLeaves`, `HostedProcessReturns` |
| `server_throws` | 2 endpoints, exceptions | `TypeOK`, `NoPhantom`, `VerdictsAreSound`, `IdsDistinctUntilDeparture` |
| `server_send` | violation | `SendReachesOneClient` (server.hpp:44) |
| `client` | two threads, any initial state, callbacks that throw or do not, fairness | `VerdictsAreSound`, `PartsOnce`, `TimesOutOnce`, `ThrowsAfterParting`; `SilenceIsNoticed`, `KeepsBeating` |
| `client_handshake` | violation | `ConnectedMeansHeard` (client.cpp:187) |
| `client_timeout` | violation | `TimeoutPassReturns` (test/net/client.cpp:51) |
| `session` | lossy and doubling link, datagrams late by any time, fairness | `VoluntaryMeansLeft`, `ClosedIsForgotten` |
| `session_timely` | timely link, interval 1, timeout 3 | `HealthyLinkIsQuiet` |
| `parts` | see the table below | 14 invariants, see there |
| `image_layout` | violation | `ImageIsUpdated` (render_pass.cpp:169) |
| `window` | X11 or Win32: 1 window, 1 key, 2 unread events, calls nested to depth 3, display switches may fail | `KeysFollowEvents`, `StateIsTrue`, `ModeFitsState`, `NeverLingers`; on X11 `KilledOnlyByRace` |
| `callbacks` | 2 threads, 2 keys, depth 2 | `NoSelfDeadlock`, `RunsWereDefined`, `NobodyIsSkipped` |

| part of `parts` | instance | invariants |
|---|---|---|
| object (`GpuObject`) | the 10 classes of the code | `FlagIsTrue`, `DestroyedOnce`, `NoMemberIsLost` |
| swapchain | up to 2 images | `WholeWhenReady`, `HandlesAreAccounted` |
| descriptors | 2 bindings, 2 indices, up to 2 bindings added | `WholeWhenReady`, `HandlesAreAccounted` |
| image (`ImageLayout`) | 2 layouts, 2 framebuffers | `LayoutIsKnown` |
| wire (`NetWire`) | 2 base-3 digits, up to 2 bodies of up to 4 bytes, every cut | `ReadsWhatWasWritten` |
| library (`LibraryCache`) | 2 threads, 1 name, libraries mapped up to 2 times | `LibrariesAreOpen` |
| mass | 3 cells, 2 values, moving or copying | `ElementsAreAccounted` |
| bimap (`BiMap`) | the three key tables; insert and exsert on 3 keys and 3 values | `MapsAreInverse` |
| file (`FileStore`) | 2 paths, contents with and without a newline, both platforms | `ContentSurvives` |
| monitor (`CrashMonitor`) | 2 threads, SIGABRT and SIGSEGV, 2 handlers at a time | `CrashIsReported` |
| delegate | 2 delegates, 2 windows, 2 handlers nested | `DelegateIsAccounted` |
| modes (`VideoModes`) | 2-bit numbers, up to 2 modes, with and without totals | `ExactModeIsFound` |

Bounds.  Clients interact only through the table's size (the ids) and the order
of the loop over them, so two endpoints show a pair that interferes; the proofs
hold for any number.  The durations are chosen so that every order occurs in
which a threshold can be reached: at it, above it, the heartbeat before the state
change before the timeout.  In `session` they are all zero, so that each tick
brings every threshold: this run asks what may be concluded from silence on a
link that delays, loses and repeats, and not how long a silence lasts.  It is not
`Timely`, so a datagram may stay on its way while the clock ticks and the entry of its
sender times out.  Two threads and a nesting of two suffice for a callable to meet its own call and
another thread's.  In `window` the handlers of a key read and write that key's state
only, so one key stands for all; a nesting of three lets a callback poll the events
that overtake its own handler, and catch what that handler throws; two unread events
are a pair in either order.  The durations of `session_timely` are the smallest for which
its property holds: the timeout must be two ticks above the interval, one for the
pass and one for the way; at one tick it fails.  In `parts` the part is chosen in the
initial state and the others rest, so its states are the sum and not the product of
the parts'; two images show a vector that grows and one that shrinks, two framebuffers
one that shares the image object beside one that has a copy; three cells of a mass, or
three pairs of a map, have an element between two others; two signals are one of each
kind, `abort`'s own and a fault, and two handlers are one on top of the other or one
beside it; a library that is mapped twice may have moved; two delegates are the one
that exists and the one that may not be made; two handlers are one and another, of the
same window or not, that was polled for in its callback; two modes are one to choose and one to
be misled by.  `parts` does not check for deadlock, because the reading of a datagram
ends, a crashed process too, and a map made of a list is const.

Fairness.  The owner's loop calls `process()` again and again (weak fairness of
`Process`), code that runs goes on running, the clock ticks.  The end of the
receive loop, `WouldBlock`, is strongly fair: with datagrams that arrive for ever
faster than they are handled the loop of line 143 does not end and no property of
progress holds, so it is assumed that the socket's queue is empty again and
again.  `session` assumes less, none of it of the client, which may stop at any time:
the server's owner goes on, the clock ticks, and what is on its way to the server does
not stay there for ever, it is delivered for the last time or lost (`LoseToServer`).

## What the runs show beyond "it holds"

- Ids are reused while in use, so `send(id)` reaches several clients after a
  departure (`server_send`); until the first departure they are distinct, which
  is proved.
- `Connected` says nothing about the server (`client_handshake`): the flag is set
  by the receiving function itself, so the connection deadline is dead code, which
  the lemma `DeadlineCorrect` proves.
- The `process()` in which the server times out sends a heartbeat on the socket
  it has closed, if one is due, and throws (`client_timeout`).  What holds instead
  is `ThrowsAfterParting`: whenever `process()` throws, somebody has parted or is
  just telling the application so.

More observations can be read off the models and have no run of their own:

- `process()` called before `host()` never returns from the receive on a socket
  that is still blocking (`HostedProcessReturns` therefore asks for `hosted`).
- After `disconnect()` the connection state stays `Connected`, so a second
  `connect()` is rejected although nothing is live.
- A client whose `on_timeout` throws never gets to its `disconnect()`: the socket stays
  open, no heartbeat is sent, and every later `process()` calls `on_timeout` again
  (`SilenceIsNoticed` and `KeepsBeating` except it, `TimesOutOnce` speaks of calls that
  have returned).  When `on_connection_state_change` throws inside `connect()`, the
  socket is still blocking and nothing has been sent, so the next `process()` may wait
  for ever.
- The input thread of `test/net/client.cpp:84` may disconnect while the main
  thread is inside `process()`, whose next socket call then throws.
- A window reports `Focused` before any event has said so (`window.cpp:12`),
  which is why `StateIsTrue` asks for `seen`.
- A key press that the application polls inside the callback of the release is taken
  back: `handle_virtual_key_up` calls itself after the callback and treats the new
  press as its own (`x11_window.cpp:605`).  `KeysFollowEvents` excepts it.
- `close()` leaves the display mode alone: a fullscreen window that is closed, or
  that is closed in its state callback, may leave the screen in the video mode of the
  window (`ModeFitsState` asks for `open`).
- `focus()` after the state callback (`x11_window.cpp:89`) races with the window
  manager: when the window has become an icon in between, the process ends
  (`KilledOnlyByRace` says that this race is the only way).
- A fullscreen window that was made an icon cannot come back while the flag is set:
  the MapNotify makes it `Visible`, which minimises it again.
- The image that made a framebuffer with `create_framebuffer` does not hear of the
  layout a pass leaves (`image_layout`): the framebuffer holds a copy of the image
  object.  What holds is `LastObjectKnows` and, without copies, `SharingIsSafe`.
- An image that is destroyed and initialised again keeps the layout it tracked, and a
  `trans()` between recording and running a pass goes by the layout the pass will
  leave; both are excepted from these properties.
- Setting the flag first makes a failed `init()` destroyable but lets `destroy()` touch
  handles of an earlier life; setting it last does the opposite: nothing dies twice,
  but what a failed `init()` made is out of reach.  `DestroyedOnce` and
  `NoMemberIsLost` say which class has which.
- `init_graphics` creates the pipeline layout twice and loses the first.
- After a `recreate()` that threw, the framebuffers of before are still in the vector,
  and the next `destroy()` or `recreate()` destroys them again (`HandlesAreAccounted`
  asks for `failed`).
- The device creates its queues without one of the compute family, of which
  `getQueue` is called all the same; the dependencies of a render pass leave out the
  last subpass (`render_pass.cpp:77`).  Neither is modelled.
- `set_flag` on a window out of focus switches the display at once, `excuse = "forced"`.
- A Win32 window that is activated with the mouse (`WA_CLICKACTIVE`) stays `Visible`
  (`win32_window.cpp:111-124`), so a fullscreen window brought back with a click stays in
  the desktop's mode; `StateIsTrue` excepts it.  Restoring gives a Borderless window its
  frame back, `WM_SYSKEYUP` is not handled, the destructor calls `DestroyWindow` again on
  a window that `close()` has destroyed.
- `find_fitting_video_mode_` gives up the mode of the right size when one before it has
  the right width or height only, and returns an uninitialised mode when every mode of
  the display is one short of the window in width or in height, which -1 wrapped around is
  (`ExactModeIsFound` says exactly when).
- Each `x11_delegate` leaves the connection of its probe open; without an X server the
  probe reads through a null display (`x11_delegate.cpp:25`).  `terminate()` before the
  destructor closes the display twice; a window deleted in its own callback, or in one
  of another window that was polled for inside it, is used afterwards
  (`DelegateIsAccounted` names these as the only ways).
- The crash handler's log is overwritten by the log of a crash inside it; a signal that
  comes while the application handles an exception shows that exception and writes no
  log; without a save path the handler throws out of a signal handler.  The thread that
  is unwound by that goes on with its signals blocked and SIGABRT at its default.
- `rename_file` loses the content when the write after the deletion fails, or when
  `read_file` could not read: it does not ask, and a buffer of zeros is written
  (`ContentSurvives` excepts these).  A full disk is not reported by `write_file` at all.
- `mass::erase` never destroys the element it has moved the last from, and a throwing
  move leaves a hole inside `size()`.  Where T has no constructor that moves, the last
  element is left with its value, and each element before it is built over one that has
  its value too: what these own is lost (`OnlyMovedFromAreLeft` excepts `copies`).
- `RightShift` of Cocoa is listed as `LShift`: the map back from `LShift` is to the first.
  X11 has no entry for `I`.
- A library loaded by two threads at the same time is opened twice and the first handle
  leaves the cache, but both are closed in the end, and functions taken from either stay
  valid as long as the library is in the cache (`LibrariesAreOpen`).  A function taken
  from a library that nobody keeps dangles: `get_function` hands out a bare pointer.
- An `allocate()` of a descriptor set that cannot make the set leaves a layout that the
  next one overwrites.  One that cannot make the layout leaves `layout_` as it was: on a
  set that was destroyed before, the `destroy()` that follows destroys the same layout
  again, and without it the layout of the other failure would be lost
  (`LayoutsAreAccounted` names these two as the only ways).  A write through a binding
  that was bound anew after `allocate()` goes to a place the set does not have; a set and its bindings hold `handle_ptr`s to each other, so they are never
  freed.

## Proofs

`NetServer_proof` rests on the inductive invariant `IInv`: the types (`Shape`),
the agreement of `view`, table and the clients about to be erased (`Told`), the
verdicts of the timeout loop (`Judged`) and the ids (`Numbered`).  None of the
checked invariants is inductive by itself: `ViewMatchesTable` needs to know that a
client in `Erasing` is in the table, `VerdictsAreSound` that the age in `sweep` is at
most the true age, and the ids are distinct only because they are exactly
`1 .. n` of a table of size `n` until somebody leaves, for which the proof counts
with the library's theorems on `Cardinality`.  `ContractCorrect` is a refinement:
every step of `NetServer` is a step of `Membership` or leaves its variables alone,
under the assumption that nothing throws.  With exceptions the contract does not
hold, and need not: a client whose `on_disconnect` threw is told about again; what
holds then is `NoPhantom`.

`NetClient_proof` has one invariant for both threads.  That `on_disconnect` is
called once per thread needs: whoever is past `Closing` has closed the socket, a
thread that has parted finds it closed, and so never gets beyond its send again.

`CallbackTable_proof` needs two things of each state: whoever has the lock is in the
critical section of its topmost call, where no callable runs (`HolderIsLocked`), and
every call on a stack, not only the topmost, has in its snapshot, or has run, all that
has been in the table since it began, and nothing that never was (`Known`).

`NetSession_proof` has two theorems.  `VoluntaryCorrect` shows that the goodbye is the
last word of a client: while a Disconnect is on its way, being handled or just told
(`Said`), the client's socket is not open.  A link that repeats, loses and reorders
cannot change that, because only `SendGoodbye` makes such a datagram and the step after
it closes the socket.

`HealthyLinkCorrect` is about `Punctual` links: the clock waits for both loops, nothing
is lost, and both timeouts are two ticks or more above the heartbeat interval; datagrams
may be doubled or not, and the intervals are any.  Its invariant `TInv` relates the four
clocks of a direction: with nothing under way the server's silence is at most the time
since the client sent (`sinceSent`), or one tick more while a heartbeat is due that the
client has yet to send in this turn (`ServerHears`); the same holds the other way
(`ClientHears`).  It needs what a pass has read of the clock (`ReadsClock`: this tick or
the last), and that a client that is open is known to the server or about to be
(`Going`).  At a timeout one tick above the interval the theorem is false, as TLC shows.

The other theorems are about parts that share nothing.  Each is proved of the part
alone, from an inductive invariant that TLC has checked first, and then of every
behaviour of `RedFoxParts`, by the lemma `...Alone` that a behaviour of the whole is one
of the part.

`Vulkan_proof`:

- `GpuObject`, for every table of classes that is `WellMade` (temporaries are not members,
  and a class that sets the flag first creates each handle once; `MCParts` checks that
  the classes of the code are).  The invariant is `ObjectShape`, `Made` (what an `init()`
  under way has created is live), `Trusted` (`FlagIsTrue`, also while `copy()` runs) and
  `DestroyedOnce` itself: no handle dies twice because a flag that can be trusted means
  live handles.  `Kept` adds, for the classes `NoMemberIsLost` speaks of, that what an
  `init()` has yet to create is not live.
- `Swapchain`, for any number of images: at each place of `init()` (`Phases`) it is known
  which vector is live, up to which index, and that no other is; so the creation that
  overwrites a handle overwrites a dead one.
- `DescriptorSet`, for any bindings: while a layout lives a `destroy()` is owed; where
  `allocate()` is tried again with a live layout it threw for want of a set, and where a
  `destroy()` is owed with a dead one it threw for want of a layout (`LayoutIsOwed`).
- `ImageLayout`, for any layouts and framebuffers: the object used last knows what the image
  has or will have when the recorded pass has run (`LatestKnows`), and of shared objects
  nothing wrong has been recorded yet (`Shared`); both hold only until an image is made
  again or a `trans()` overtakes a pass, as the properties say.

`Core_proof`:

- `LibraryCache`, for any threads, names and objects, counts: the loader's count of a
  library is the number of valid objects of that name (`OpenedByObjects`), those that a
  step destroys included, by the library's theorems on `Cardinality`.  Functions are then
  of mapped libraries because somebody has an object of theirs (`FunctionsCovered`).
- `Mass`, for any capacity and elements, moved or copied: `ElementsAreAccounted` is inductive with the types;
  the work is in the loops of copying, destroying and shifting, wherever one throws
  (`CopiedCells`, `DestroyedCells`, `ShiftedCells`).
- `BiMap`, for any lists: `MapsAreInverse` is inductive; that the maps made of a list are
  inverse rests on each key having a first pair (`FirstPair`).
- `FileStore`, for contents of any length, `ContentSurvives` with the types: a text written
  with CR LF and read back is a text again (`TextIsSeq`, by the least length of which it
  would not be).
- `NetWire`, for messages of any length, numbers of any width and bytes of any size.  The
  functions of the model that are defined recursively exist and unfold (`Iteration`, by
  `CountingUp`); from that a number is read as it was written (`NumberReadBack`: what
  has been read of its bytes is what was left of it when the others had been cut off).
  `Layout(m)` is what has been written before each body; what is written first stays in
  its place (`LayoutStays`).  The invariant `WireInv` then says that the first `k` bodies
  have been read and `offset` is where body `k + 1` would begin.
- `CrashMonitor`, for any threads and signals: what the handler on top has done when it is
  where it is (`Reported`), that beyond its first step SIGABRT ends the process
  (`Disarmed`) and that a handled signal is blocked (`OwnBlocked`).

`Display_proof`:

- `Delegate`, for any delegates and windows: `created_` knows of the delegate that is made
  or being made (`OneAtMost`), what XRandR has given follows from how far the making has
  come (`Got`), the map has the windows that are open, and of all the handlers under way,
  to any depth, one whose window is deleted has been undercut (`WindowsKnown`), and a
  connection is closed twice only after a `terminate()` (`ClosedOnce`).
- `VideoModes`, for any list of modes and unsigned numbers of any width: what the choice
  among the modes seen so far is (`Choice`), over a list that has every mode with an extent
  and totals, and no other (`Listing`).

`Window_proof`, for any keys, any length of the queue and calls nested to any depth:

- On X11 (`XInv`) the state of the window is wrong while events wait, so the invariant says
  what the last event of each kind in the queue will make of it (`XEventsInv`): focus if
  the last of those that change it is a FocusIn, hidden if it is an UnmapNotify.  A
  fullscreen window out of focus is an icon, or one has been asked for and will be, or the
  news is in the queue (`XLingerInv`).  A key is where the last event left it, but for the
  handler under way (`XKeysInv`).
- On Windows (`WInv`) there is no queue but messages inside calls.  The state is true but
  for the message that is next (`WNextInv`); a message that waits below others and says the
  window is no icon is true when its turn comes (`WLaterInv`).
- `KilledOnlyByRaceCorrect` is an action property: of all steps only `focus()` after the
  callback ends the process, and only when the window has become an icon meanwhile.

The assumptions are those the modules state for their constants: a finite set of
endpoints and of library objects; durations, the numbers of images and of modes and the depth of polls in
`Nat`; a number has one byte or more, and a byte, like an unsigned number, two values or
more; messages are records of such numbers and sequences of bytes whose lengths can be
written; the lists a map is made of are sequences of pairs and the contents of files
sequences of characters; and names like `NoThread`, `NoLib`, `Own`, `None` or "none" stand
for nothing else.  The windows need none.

Only model-checked: everything under fairness (`SilentLeaves`, `HostedProcessReturns`,
`SilenceIsNoticed`, `KeepsBeating`, `ClosedIsForgotten`), because liveness and ENABLED are
out of reach of the prover, and what runs show to be violated.  Every invariant of the
passing runs is proved.  The theorems of the library that take an operator as a parameter,
those on induction among them, cannot be used; where an induction is needed the proofs go
by the least number for which something fails (`LeastNumber`).

## Not modelled

The data races proper (undefined behaviour) on the socket and in the library cache; the
Cocoa delegate and window, whose events are notifications of AppKit; the cursor;
directories; the content of messages and agents; errors of the operating system other
than would-block and closed sockets; what `clients()` returns.  Of the actions modelled
these details are left out: a `SetAgent` without a body, of which `server.cpp:182` reads
out of bounds, may do nothing or throw but not end the process; the state callback, the
`non_blocking` and the first send of `connect()` are one step, and so are the calls of
`std::signal` in `activate()`; a state callback of a window throws what a failed display
switch inside it throws, and nothing of the application's own; a FocusIn of detail
`NotifyPointer` is no event; a delegate is not deleted while its `poll_events()` is under
way.  The parts with status
`not_modelled` in `PROJECT.json` are left out for the reasons given there: they convert
data, query the system, or are not built.

## Plan

1. Net, callback table: done, modelled, checked and proved but for liveness.
2. `X11Window`, `Win32Window`, `Delegate`, `VideoModes`: done without the cursor, and
   proved.  Left: two windows that share one display mode, the Cocoa window.
3. `GpuObject`, `Swapchain`, `ImageLayout`, `DescriptorSet`: done and proved.  Left:
   `submit_and_present` and `recreate()` while work is pending, barriers by level and
   layer.
4. `LibraryCache`, `Mass`, `BiMap`, `FileStore`, `CrashMonitor`: done and proved.
5. Abstract specifications worth stating beside `Membership`, and proving as refinements:
   a buffer that holds a sequence (`Mass`), a file system with an atomic rename and the
   faults that break it (`FileStore`), a key that is up or down (the windows).
