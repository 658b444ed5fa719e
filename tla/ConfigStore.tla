----------------------------- MODULE ConfigStore -----------------------------
(***************************************************************************)
(* The configuration: the copy in memory (AppInner::config), the copy in    *)
(* NVS, the values pushed into running components, and everyone who writes  *)
(* them.                                                                    *)
(*                                                                         *)
(*  - the two HTTP servers and the serial console each copy the whole       *)
(*    configuration, change their part of the copy, save it and put it in   *)
(*    effect, with no lock held from one step to the next;                  *)
(*  - App::replace_config pushes the live-tunable values one lock at a time *)
(*    before it replaces the configuration itself;                          *)
(*  - a factory reset erases NVS and reboots a while later;                 *)
(*  - the device may crash between any two steps, and every save may fail.  *)
(*                                                                         *)
(* A configuration is abstracted to three parts: the WiFi networks, whose   *)
(* passwords are secrets matched by SSID; a section without secrets that    *)
(* running components hold copies of (switches); and one secret that is not *)
(* in a list (https.key_pem), which the first boot generates.               *)
(***************************************************************************)
EXTENDS Naturals, FiniteSets, Selection

CONSTANTS
  Writers,      \* threads that write the configuration
  Ssids, Passwords,
  NetworkLists, \* the network lists a request may carry
  Switches,     \* the values of the switches section
  Keys,         \* the non-empty values of https.key_pem
  Blank,        \* the empty string
  Generated,    \* the key tls_certgen makes
  Default,      \* Config::default()
  MaxRequests   \* bound on the number of requests

Secret  == Keys \cup {Blank, Generated}
Network == [ssid : Ssids, password : Passwords \cup {Blank}]
Config  == [networks : Seq(Network), switches : Switches, key : Secret]

ASSUME ConfigAssumption ==
  /\ NetworkLists \subseteq Seq(Network)
  /\ Default \in Config
  /\ Blank \notin Keys \cup {Generated}
  /\ MaxRequests \in Nat

VARIABLES
  mem,         \* AppInner::config
  nvs,         \* NVS key of the configuration: {} if absent, or {c}
  live,        \* what the two sprinklers and the valve hold of switches
  supervisor,  \* the WiFi supervisor's network list
  writer,      \* per writer: its next step, its request's kind, its copy
  resetting,   \* a factory reset waits for its reboot
  accepted,    \* history: what the device booted with or NVS took since
  overlapped,  \* history: two of these procedures overlapped since boot
  unpushed,    \* history: the supervisor was told too early or not at all
  requests     \* history: requests so far

history == <<accepted, overlapped, unpushed, requests>>
vars == <<mem, nvs, live, supervisor, writer, resetting, history>>

LiveParts == {"sprinkler_1", "sprinkler_2", "valve"}

-----------------------------------------------------------------------------
(* Secrets: blanked on the way out, restored on the way in.                 *)

Redact(c) ==
  [c EXCEPT !.networks = [i \in DOMAIN @ |-> [@[i] EXCEPT !.password = Blank]],
            !.key = Blank]

\* The first stored network with this SSID, if any, keeps its password.
StoredAt(ssid, stored) == {j \in DOMAIN stored : stored[j].ssid = ssid}
First(indexes) == CHOOSE j \in indexes : \A k \in indexes : j <= k

\* Mutant of RestoreNetworks: the SSID is not compared.
RestoreAnyPassword(new, stored) ==
  [i \in DOMAIN new |->
     IF new[i].password = Blank /\ stored # <<>>
     THEN [new[i] EXCEPT !.password = stored[1].password]
     ELSE new[i]]

RestoreNetworks(new, stored) ==
  [i \in DOMAIN new |->
     IF new[i].password = Blank /\ StoredAt(new[i].ssid, stored) # {}
     THEN [new[i] EXCEPT !.password =
             stored[First(StoredAt(new[i].ssid, stored))].password]
     ELSE new[i]]

RestoreKey(new, stored) == IF new = Blank THEN stored ELSE new

MergePreservingSecrets(c, incoming) ==
  [networks |-> RestoreNetworks(incoming.networks, c.networks),
   switches |-> incoming.switches,
   key      |-> RestoreKey(incoming.key, c.key)]

-----------------------------------------------------------------------------
(* What each request makes of a copy of the configuration.                  *)

Inputs == [networks : NetworkLists, switches : Switches, key : Keys \cup {Blank}]

\* The console's wifi commands push the list to the supervisor at the end.
Console == {"add", "del", "clear"}
Kind    == {"all", "wifi", "switches", "https"} \cup Console

Without(list, ssid) == SelectIn(list, {n \in Network : n.ssid # ssid})

Update(kind, c) == [kind |-> kind, cfg |-> c]

Updates(c) ==
  {Update("all", MergePreservingSecrets(c, in)) : in \in Inputs}
  \cup {Update("wifi", [c EXCEPT !.networks = RestoreNetworks(n, @)]) :
          n \in NetworkLists}
  \cup {Update("switches", [c EXCEPT !.switches = v]) : v \in Switches}
  \cup {Update("https", [c EXCEPT !.key = RestoreKey(k, @)]) :
          k \in Keys \cup {Blank}}
  \cup {Update("add", [c EXCEPT !.networks = Append(Without(@, n.ssid), n)]) :
          n \in Network}
  \cup {Update("del", [c EXCEPT !.networks = Without(@, ssid)]) :
          ssid \in Ssids}
  \cup {Update("clear", [c EXCEPT !.networks = <<>>])}

-----------------------------------------------------------------------------
(* Boot: NVS or the defaults, and a generated key where there is none;      *)
(* generating it may fail, and so may saving it.                            *)

Loaded(stored) == IF stored = {} THEN Default ELSE CHOOSE c \in stored : TRUE

Keyed(c) == [c EXCEPT !.key = IF @ = Blank THEN Generated ELSE @]

BootConfigs(stored) == {Loaded(stored), Keyed(Loaded(stored))}

NoWriter == [pc |-> "idle", kind |-> "all", cfg |-> Default]

Start(c) ==
  /\ mem' = c
  /\ live' = [p \in LiveParts |-> c.switches]
  /\ supervisor' = c.networks
  /\ writer' = [w \in Writers |-> NoWriter]
  /\ resetting' = FALSE
  /\ accepted' = {c}
  /\ overlapped' = FALSE /\ unpushed' = FALSE /\ UNCHANGED requests

Boot(generated, saved) ==
  LET found == Loaded(nvs)
      c == IF generated THEN Keyed(found) ELSE found
  IN /\ Start(c)
     /\ nvs' = IF c # found /\ saved THEN {c} ELSE nvs

\* The first boot: the defaults, with or without a key, saved or not.
Init ==
  /\ mem \in BootConfigs({})
  /\ nvs \in {{}, {mem}} /\ (mem = Default => nvs = {})
  /\ live = [p \in LiveParts |-> mem.switches]
  /\ supervisor = mem.networks
  /\ writer = [w \in Writers |-> NoWriter]
  /\ resetting = FALSE
  /\ accepted = {mem}
  /\ overlapped = FALSE /\ unpushed = FALSE /\ requests = 0

Idle == \A w \in Writers : writer[w].pc = "idle"

-----------------------------------------------------------------------------
(* A writer: the copy is made and changed, ...                              *)
Copy(w, u) ==
  /\ writer[w].pc = "idle" /\ requests < MaxRequests
  /\ requests' = requests + 1
  /\ writer' = [writer EXCEPT ![w] =
       [pc   |-> IF u.kind = "wifi" THEN "push" ELSE "save",
        kind |-> u.kind, cfg |-> u.cfg]]
  /\ overlapped' = (overlapped \/ ~Idle \/ resetting)
  /\ UNCHANGED <<mem, nvs, live, supervisor, resetting, accepted, unpushed>>

(* ... PUT /api/config/wifi tells the supervisor before the save, ...       *)
Push(w) ==
  /\ writer[w].pc = "push"
  /\ supervisor' = writer[w].cfg.networks
  /\ writer' = [writer EXCEPT ![w].pc = "save"]
  /\ UNCHANGED <<mem, nvs, live, resetting, history>>

\* Mutant of Save: a failed save does not stop the writer.
SaveCarriesOn(w, ok) ==
  /\ writer[w].pc = "save"
  /\ nvs' = IF ok THEN {writer[w].cfg} ELSE nvs
  /\ accepted' = IF ok THEN accepted \cup {writer[w].cfg} ELSE accepted
  /\ writer' = [writer EXCEPT ![w].pc = "sprinkler_1"]
  /\ UNCHANGED <<mem, live, supervisor, resetting, overlapped, unpushed,
                 requests>>

(* ... the copy is saved, and a failed save ends the request, ...           *)
Save(w, ok) ==
  /\ writer[w].pc = "save"
  /\ IF ok
     THEN /\ nvs' = {writer[w].cfg}
          /\ accepted' = accepted \cup {writer[w].cfg}
          /\ writer' = [writer EXCEPT ![w].pc = "sprinkler_1"]
          /\ UNCHANGED unpushed
     ELSE /\ writer' = [writer EXCEPT ![w] = NoWriter]
          /\ unpushed' = (unpushed \/ writer[w].kind = "wifi")
          /\ UNCHANGED <<nvs, accepted>>
  /\ UNCHANGED <<mem, live, supervisor, resetting, overlapped, requests>>

(* ... replace_config hands the switches section to the two sprinklers and  *)
(* the valve, under a lock each, ...                                        *)
AfterPart(p) == CASE p = "sprinkler_1" -> "sprinkler_2"
                  [] p = "sprinkler_2" -> "valve"
                  [] p = "valve"       -> "replace"

\* Mutant of PushLive: the valve keeps its timing.
PushSprinklers(w, p) ==
  /\ writer[w].pc = p
  /\ live' = IF p = "valve" THEN live
             ELSE [live EXCEPT ![p] = writer[w].cfg.switches]
  /\ writer' = [writer EXCEPT ![w].pc = AfterPart(p)]
  /\ UNCHANGED <<mem, nvs, supervisor, resetting, history>>

PushLive(w, p) ==
  /\ writer[w].pc = p
  /\ live' = [live EXCEPT ![p] = writer[w].cfg.switches]
  /\ writer' = [writer EXCEPT ![w].pc = AfterPart(p)]
  /\ UNCHANGED <<mem, nvs, supervisor, resetting, history>>

(* ... and puts the copy in effect.                                         *)
Replace(w) ==
  LET c == writer[w].cfg
      kind == writer[w].kind
  IN /\ writer[w].pc = "replace"
     /\ mem' = c
     /\ writer' = [writer EXCEPT ![w] =
                     IF kind \in Console THEN [@ EXCEPT !.pc = "push_after"]
                     ELSE NoWriter]
     /\ unpushed' = CASE kind = "wifi" -> FALSE
                      [] kind = "all"  -> unpushed \/ c.networks # supervisor
                      [] OTHER         -> unpushed
     /\ UNCHANGED <<nvs, live, supervisor, resetting, accepted, overlapped,
                    requests>>

PushAfter(w) ==
  /\ writer[w].pc = "push_after"
  /\ supervisor' = writer[w].cfg.networks
  /\ unpushed' = FALSE
  /\ writer' = [writer EXCEPT ![w] = NoWriter]
  /\ UNCHANGED <<mem, nvs, live, resetting, accepted, overlapped, requests>>

-----------------------------------------------------------------------------
\* Mutant of FactoryReset: nothing is erased.
ResetKeepsConfig ==
  /\ ~resetting
  /\ resetting' = TRUE
  /\ overlapped' = (overlapped \/ ~Idle)
  /\ UNCHANGED <<mem, nvs, live, supervisor, writer, accepted, unpushed, requests>>

(* A factory reset erases the configuration; the reboot comes later.  (If   *)
(* erasing fails, nothing happens.)                                         *)
FactoryReset ==
  /\ ~resetting
  /\ nvs' = {}
  /\ resetting' = TRUE
  /\ overlapped' = (overlapped \/ ~Idle)
  /\ UNCHANGED <<mem, live, supervisor, writer, accepted, unpushed, requests>>

(* The reboot after a reset, on demand, or after a crash, at any time.      *)
Reboot == \E generated, saved \in BOOLEAN : Boot(generated, saved)

Next ==
  \/ \E w \in Writers, u \in Updates(mem) : Copy(w, u)
  \/ \E w \in Writers : Push(w) \/ Replace(w) \/ PushAfter(w)
  \/ \E w \in Writers, ok \in BOOLEAN : Save(w, ok)
  \/ \E w \in Writers, p \in LiveParts : PushLive(w, p)
  \/ FactoryReset
  \/ Reboot

Spec == Init /\ [][Next]_vars

-----------------------------------------------------------------------------
(* Correctness.                                                             *)

WriterSteps == {"idle", "push", "save", "replace", "push_after"} \cup LiveParts

TypeOK ==
  /\ mem \in Config
  /\ nvs \subseteq Config /\ \A c, d \in nvs : c = d
  /\ live \in [LiveParts -> Switches]
  /\ supervisor \in Seq(Network)
  /\ writer \in [Writers -> [pc : WriterSteps, kind : Kind, cfg : Config]]
  /\ resetting \in BOOLEAN
  /\ accepted \subseteq Config
  /\ overlapped \in BOOLEAN /\ unpushed \in BOOLEAN /\ requests \in Nat

(* The configuration in effect is never ahead of what was saved: whatever   *)
(* the order of the writers' steps, and whichever saves fail, the device    *)
(* runs with what it booted with or with something NVS has taken since.     *)
EffectiveWasSaved == mem \in accepted

(* Where writers do not overlap, the four copies agree whenever none is at  *)
(* work: a reboot would bring back the configuration in effect, and the     *)
(* sprinklers, the valve and the WiFi supervisor have their part of it --   *)
(* in spite of failed saves and crashes.  The supervisor is excepted after  *)
(* a PUT /api/config, which does not tell it of new networks, and after a   *)
(* PUT /api/config/wifi whose save fails, which told it too early.          *)
CopiesAgree ==
  (Idle /\ ~overlapped /\ ~resetting) =>
    /\ mem \in BootConfigs(nvs)
    /\ \A p \in LiveParts : live[p] = mem.switches
    /\ ~unpushed => supervisor = mem.networks

(* A factory reset nothing overlaps boots with the defaults.                *)
ResetForgets ==
  [][(resetting /\ ~overlapped /\ ~resetting') => mem' \in BootConfigs({})]_vars

DistinctSsids(list) ==
  \A i, j \in DOMAIN list : list[i].ssid = list[j].ssid => i = j

(* Sending back what GET /api/config showed, secrets blanked, changes       *)
(* nothing, for every configuration the writers can bring about in which no *)
(* two networks have the same SSID.                                         *)
RoundTrip ==
  DistinctSsids(mem.networks) => MergePreservingSecrets(mem, Redact(mem)) = mem
=============================================================================
