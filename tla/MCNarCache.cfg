SPECIFICATION FairSpec
CONSTANTS
  r1 = r1
  r2 = r2
  hello = hello
  canonical = canonical
  script = script
  empty = empty
  bA = bA
  bB = bB
  bT = bT
  bCanonical = bCanonical
  bFile = bFile
  bTwice = bTwice
  Requests = {r1, r2}
  Paths = {hello, canonical, script, empty}
  Builds = {bA, bB, bT, bCanonical, bFile, bTwice}
  NoBuild = NoBuild
  NoRequest = NoRequest
  Closures <- MCClosures
  Served <- MCServed
  Archive <- MCArchive
  Symlinks <- MCSymlinks
  MaxFaults = 1
  MaxFull = 1
  MaxCrashes = 1
INVARIANTS CachedIsWhole NoDuplicateFetch
PROPERTIES RequestEnds ImplementsStore
