------------------------------ MODULE FlashKv ------------------------------
(***************************************************************************)
(* The key-value store of the embassy firmware (FlashKv): a map in RAM     *)
(* that answers every read, mirrored to two flash sectors that are erased  *)
(* and rewritten whole at every set and remove.                            *)
(*                                                                         *)
(* A set is synchronous, so no other task runs in the middle of it; it is  *)
(* two steps here, the erase and the write, because the power may fail     *)
(* between them.  Of the keys, the configuration (the list of networks in  *)
(* it, NoConfig when the key is absent) and the boot mode are kept.        *)
(***************************************************************************)
EXTENDS Naturals, Sequences

CONSTANTS
  NetworkLists, \* the network lists a configuration may have
  NoConfig,     \* no configuration is stored
  TornConfig,   \* stands for the contents of a half-written region
  TooBig        \* the lists whose configuration does not fit the flash region

ASSUME FlashAssumption ==
  /\ NoConfig \notin NetworkLists
  /\ TornConfig \notin NetworkLists \cup {NoConfig}
  /\ TooBig \subseteq NetworkLists

VARIABLES
  cache,  \* the map in RAM
  flash,  \* what a boot would read
  flush   \* the write under way: its phase, and what its caller does after it

kv == <<cache, flash, flush>>

Modes == {"none", "sta", "ap"}

Store == [mode : Modes, config : NetworkLists \cup {NoConfig}]

\* An erased region: bad magic, an empty map.
Blank == [mode |-> "none", config |-> NoConfig]

\* A region whose write stopped after the header: the next entry's length
\* reads 0xFFFFFFFF.
Torn == [mode |-> "none", config |-> TornConfig]

\* FlashKv::load panics on it: adding the length to the position overflows
\* a 32-bit usize before the bound is checked.
Loads(s) == s # Torn

\* then names the caller's next step: "replace" puts list into the App,
\* "reboot" asks for a reset after a flush that succeeded, "always" after any.
Flushes ==
  [phase : {"idle", "erase", "write"},
   then  : {"none", "replace", "reboot", "always"},
   list  : NetworkLists \cup {NoConfig}]

Idle == [phase |-> "idle", then |-> "none", list |-> NoConfig]

KvTypeOK ==
  /\ cache \in Store
  /\ flash \in Store \cup {Torn}
  /\ flush \in Flushes

\* FlashKv::set and remove: the map changes first, the flush follows.
SetMode(m, then) ==
  /\ cache' = [cache EXCEPT !.mode = m]
  /\ flush' = [phase |-> "erase", then |-> then, list |-> NoConfig]
  /\ flash' = flash

SetConfig(l, then) ==
  /\ cache' = [cache EXCEPT !.config = l]
  /\ flush' = [phase |-> "erase", then |-> then, list |-> l]
  /\ flash' = flash

\* The blob does not fit: NvsError::Full, before the region is touched.
Fits == cache.config \notin TooBig

FlushErase ==
  /\ flush.phase = "erase"
  /\ Fits
  /\ flash' = Blank
  /\ flush' = [flush EXCEPT !.phase = "write"]
  /\ cache' = cache

FlushWrite ==
  /\ flush.phase = "write"
  /\ flash' = cache
  /\ flush' = Idle
  /\ cache' = cache

\* What a flush that stops in its present phase leaves in the region.
Interrupted ==
  IF flush.phase = "write" THEN {Blank, Torn}
  ELSE IF flush.phase = "erase" /\ Fits THEN {flash, Blank}
  ELSE {flash}

\* The blob does not fit, the erase fails or the write does.  The map keeps
\* the new value in every case.
FlushFails ==
  /\ flush.phase # "idle"
  /\ flush' = Idle
  /\ flash' \in Interrupted
  /\ cache' = cache
=============================================================================
