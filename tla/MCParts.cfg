SPECIFICATION PartsSpec
CONSTANTS
  Slots <- MCSlots
  Classes <- MCClasses
  Parts = {"object", "swapchain", "image", "descriptors", "wire", "library", "mass", "bimap", "file",
           "monitor", "delegate", "modes"}
  MaxImages = 2
  Layouts = {"read", "colour"}
  Buffers = {"f1", "f2"}
  Bindings = {"b1", "b2"}
  Indices = {"i1", "i2"}
  MaxBindings = 2
  Width = 2
  Base = 3
  Messages <- MCMessages
  Threads = {"t1", "t2"}
  Names = {"n1"}
  Libs = {"o1", "o2", "o3"}
  MaxLoads = 2
  N = 3
  Elements = {1, 2}
  Lists <- MCLists
  Keys = {"k1", "k2", "k3"}
  Values = {"v1", "v2", "v3"}
  Paths = {"p", "q"}
  Contents <- MCContents
  MaxSize = 2
  Signals = {"ABRT", "SEGV"}
  Faults = {"SEGV"}
  MaxFrames = 2
  Delegates = {"d1", "d2"}
  Windows = {"w1", "w2"}
  MaxPolls = 2
  Pixels = 4
  MaxModes = 2
INVARIANTS
  FlagIsTrue
  DestroyedOnce
  NoMemberIsLost
  WholeWhenReady
  HandlesAreAccounted
  LayoutIsKnown
  ReadsWhatWasWritten
  LibrariesAreOpen
  ElementsAreAccounted
  MapsAreInverse
  ContentSurvives
  CrashIsReported
  DelegateIsAccounted
  ExactModeIsFound
CHECK_DEADLOCK FALSE
