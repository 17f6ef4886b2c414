-------------------------------- MODULE RedFoxParts ----------------------------
(***************************************************************************)
(* The parts of the library that share nothing, each for itself: the       *)
(* Vulkan objects (GpuObject), the swapchain (Swapchain), the layout of an *)
(* image (ImageLayout), descriptor sets (DescriptorSet), the datagrams     *)
(* (NetWire), dynamic libraries (LibraryCache), the containers (Mass,      *)
(* BiMap), files (FileStore), the crash monitor (CrashMonitor), the        *)
(* delegate (Delegate) and the choice of a video mode (VideoModes).  A     *)
(* behaviour is one of one part, the others stay as they begin.            *)
(***************************************************************************)
EXTENDS Naturals

CONSTANTS
  Parts,                          \* the parts that are run
  Slots, Classes,                 \* of GpuObject
  MaxImages,                      \* of Swapchain
  Layouts, Buffers,               \* of ImageLayout
  Bindings, Indices, MaxBindings, \* of DescriptorSet
  Width, Base, Messages,          \* of NetWire
  Threads,                        \* of LibraryCache and CrashMonitor
  Names, Libs, MaxLoads,          \* of LibraryCache
  N, Elements,                    \* of Mass: its capacity and what it holds
  Lists, Keys, Values,            \* of BiMap
  Paths, Contents, MaxSize,       \* of FileStore
  Signals, Faults, MaxFrames,     \* of CrashMonitor
  Delegates, Windows, MaxPolls,   \* of Delegate
  Pixels, MaxModes                \* of VideoModes: its Width, and the bound

VARIABLES
  part,
  class, initialised, slot, job, at, lost, twice, failed,
  handle, views, buffers, sc_pc, sc_at, span, owned, ready, sc_lost, sc_twice,
  sc_failed, wild,
  live, tracked, object, recorded, actual, latest, wrong, remade, overtook,
  written, data, pc, offset, message,
  index, bindings, layout, ds_handle, reached, ds_ready, stray, ds_owned, thrown,
  ds_lost, ds_twice, ds_failed,
  libraries, lib, held, call, opened, mapping, functions, torn,
  copies, exists, cell, size, content, ms_lost, ms_twice, threw,
  list, forward, reverse, split,
  windows, file, fs_job,
  handled, path, frames, blocked, catching, log, fate, spoilt, rearmed,
  created, delegates, display, window, window_map, dg_pc, making, infos, handling,
  alive, left, told, dg_twice, touched, undercut,
  screen, listed, modes, extent, best, least, vm_at

objectVars == <<class, initialised, slot, job, at, lost, twice, failed>>
swapchainVars == <<handle, views, buffers, sc_pc, sc_at, span, owned, ready, sc_lost,
                   sc_twice, sc_failed, wild>>
imageVars == <<live, tracked, object, recorded, actual, latest, wrong, remade, overtook>>
wireVars  == <<written, data, pc, offset, message>>
descriptorVars == <<index, bindings, layout, ds_handle, reached, ds_ready, stray, ds_owned,
                    thrown, ds_lost, ds_twice, ds_failed>>
libraryVars  == <<libraries, lib, held, call, opened, mapping, functions, torn>>
massVars     == <<copies, exists, cell, size, content, ms_lost, ms_twice, threw>>
bimapVars    == <<list, forward, reverse, split>>
fileVars     == <<windows, file, fs_job>>
monitorVars  == <<handled, path, frames, blocked, catching, log, fate, spoilt, rearmed>>
delegateVars == <<created, delegates, display, window, window_map, dg_pc, making, infos,
                  handling, alive, left, told, dg_twice, touched, undercut>>
modeVars     == <<screen, listed, modes, extent, best, least, vm_at>>
partsVars == <<part, objectVars, swapchainVars, imageVars, wireVars, descriptorVars, libraryVars,
               massVars, bimapVars, fileVars, monitorVars, delegateVars, modeVars>>

-------------------------------------------------------------------------------
GO == INSTANCE GpuObject
SC == INSTANCE Swapchain
        WITH pc <- sc_pc, at <- sc_at, lost <- sc_lost, twice <- sc_twice,
             failed <- sc_failed
IL == INSTANCE ImageLayout
DS == INSTANCE DescriptorSet
        WITH handle <- ds_handle, ready <- ds_ready, owned <- ds_owned, lost <- ds_lost,
             twice <- ds_twice, failed <- ds_failed
NW == INSTANCE NetWire
LC == INSTANCE LibraryCache
MS == INSTANCE Mass WITH Values <- Elements, lost <- ms_lost, twice <- ms_twice
BM == INSTANCE BiMap
FS == INSTANCE FileStore WITH job <- fs_job
CM == INSTANCE CrashMonitor
DG == INSTANCE Delegate WITH object <- delegates, pc <- dg_pc, twice <- dg_twice
VM == INSTANCE VideoModes WITH Width <- Pixels, at <- vm_at

\* What the parts assume of their constants.
ASSUME ClassesAssumption  == \A c \in Classes : GO!WellMade(c)
ASSUME ImagesAssumption   == MaxImages \in Nat
ASSUME LayoutAssumption   == IL!NamesAssumption
ASSUME WireAssumption     == NW!WireAssumption /\ NW!MessageAssumption
ASSUME LibsAssumption     == LC!LibsAssumption
ASSUME MassAssumption     == MS!CapacityAssumption
ASSUME MapsAssumption     == BM!ListsAssumption
ASSUME FilesAssumption    == FS!ContentsAssumption
ASSUME SignalAssumption   == CM!SignalAssumption
ASSUME DelegateAssumption == DG!NamesAssumption
ASSUME ModesAssumption    == VM!VideoModesAssumption

-------------------------------------------------------------------------------
SomeOf(S) == CHOOSE x \in S : TRUE

\* Parts that are not run begin in one state.
Rest ==
  /\ IF part = "object" THEN TRUE ELSE class = SomeOf(Classes)
  /\ IF part = "wire" THEN TRUE ELSE written = SomeOf(Messages) /\ data = <<>>
  /\ IF part = "bimap" THEN TRUE ELSE list = SomeOf(Lists)
  /\ IF part = "file" THEN TRUE ELSE windows = FALSE
  /\ IF part = "mass" THEN TRUE ELSE copies = FALSE
  /\ IF part = "modes" THEN TRUE ELSE screen = <<>> /\ extent = [x |-> 1, y |-> 1]

PartsInit ==
  /\ part \in Parts
  /\ Rest
  /\ GO!Init /\ SC!Init /\ IL!Init /\ DS!Init /\ NW!Init /\ LC!Init /\ MS!Init
  /\ BM!Init /\ FS!Init /\ CM!Init /\ DG!Init /\ VM!Init

PartsNext ==
  /\ UNCHANGED part
  /\ IF part = "object" THEN GO!Next ELSE UNCHANGED objectVars
  /\ IF part = "swapchain" THEN SC!Next ELSE UNCHANGED swapchainVars
  /\ IF part = "image" THEN IL!Next ELSE UNCHANGED imageVars
  /\ IF part = "descriptors" THEN DS!Next ELSE UNCHANGED descriptorVars
  /\ IF part = "wire" THEN NW!Next ELSE UNCHANGED wireVars
  /\ IF part = "library" THEN LC!Next ELSE UNCHANGED libraryVars
  /\ IF part = "mass" THEN MS!Next ELSE UNCHANGED massVars
  /\ IF part = "bimap" THEN BM!Next ELSE UNCHANGED bimapVars
  /\ IF part = "file" THEN FS!Next ELSE UNCHANGED fileVars
  /\ IF part = "monitor" THEN CM!Next ELSE UNCHANGED monitorVars
  /\ IF part = "delegate" THEN DG!Next ELSE UNCHANGED delegateVars
  /\ IF part = "modes" THEN VM!Next ELSE UNCHANGED modeVars

PartsSpec == PartsInit /\ [][PartsNext]_partsVars

-------------------------------------------------------------------------------
(* The properties of the instances, by their names                         *)

\* An object that says it is initialised holds live handles, unless its class says so
\* too early and an init() has failed (init of buffer.cpp, image.cpp, pipeline.cpp, ...).
FlagIsTrue == GO!FlagIsTrue

\* No handle is destroyed twice, or only after a failed init() where the class sets its
\* flag first (destroy of buffer.cpp, image.cpp, pipeline.cpp, ...).
DestroyedOnce == GO!DestroyedOnce

\* No member's handle is lost where the class sets its flag first or owns one handle
\* (init of buffer.cpp, image.cpp, pipeline.cpp, ...).
NoMemberIsLost == GO!NoMemberIsLost

\* A swapchain that is ready has live handles for every image, as many views as
\* framebuffers (swapchain.cpp:49-178); a descriptor set that is ready has a place
\* for each of its bindings (descriptor_set.cpp:33-165).
WholeWhenReady == SC!WholeWhenReady /\ DS!WholeWhenReady

\* A swapchain loses no handle, and destroys none twice unless an init() has failed
\* (swapchain.cpp:198-241); a descriptor set loses a layout, or destroys one twice, only
\* after an allocate() that failed at the set, or at the layout (descriptor_set.cpp:15-62).
HandlesAreAccounted == SC!HandlesAreAccounted /\ DS!LayoutsAreAccounted

\* The image object through which the layout was last changed knows the layout, and
\* framebuffers that share the application's object never lead to a barrier or a pass
\* with a wrong one (image.cpp:127-200, render_pass.cpp:120-172).
LayoutIsKnown == IL!LayoutIsKnown

\* "update the image's barrier", render_pass.cpp:169.
ImageIsUpdated == IL!ImageIsUpdated

\* A datagram that arrives whole is read as it was written, and one cut short is
\* rejected or read as a prefix (net/utils.cpp:27-97).
ReadsWhatWasWritten == NW!RoundTrip /\ NW!CutShowsNoGarbage

\* A library whose functions are held stays mapped, and is mapped for as many objects
\* as the cache and the application hold (library.cpp:6-48, library.ipp:4-38).
LibrariesAreOpen == LC!LibrariesAreOpen

\* A mass holds what was put into it, and each element ends once but for those that
\* erase() has moved from, or copied where its type cannot be moved (mass.hpp:19-141).
ElementsAreAccounted == MS!ElementsAreAccounted

\* The two maps of a bimap are inverse to each other until exsert() is given a key
\* and a value of two pairs, the key tables included (map.ipp:1-61).
MapsAreInverse == BM!MapsAreInverse

\* What a file held is in the file, or in the file it is renamed to, unless a write
\* has failed half way (file.cpp:90-153).
ContentSurvives == FS!ContentSurvives

\* A crash is logged before its dialogue is shown, the log stays behind, and the
\* handler is not entered twice for one signal (monitor.cpp:18-181).
CrashIsReported == CM!CrashIsReported

\* There is one delegate at most and created_ knows it, what XRandR gave is given back,
\* a handler outlives its window only when that is deleted inside the handler, and a
\* connection is closed twice only after terminate()
\* (delegate.cpp:17-26, x11_delegate.cpp:6-183).
DelegateIsAccounted == DG!DelegateIsAccounted

\* The video mode of the window's size is found, if the display has one with totals and
\* none listed before it has the window's width alone or height alone (window.cpp:36-72,
\* x11_delegate.cpp:83-119).
ExactModeIsFound == VM!ExactModeIsFound

===============================================================================
