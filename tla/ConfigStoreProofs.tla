-------------------------- MODULE ConfigStoreProofs --------------------------
(***************************************************************************)
(* Theorems about ConfigStore, for any number of writers and requests.      *)
(***************************************************************************)
EXTENDS ConfigStore, SelectionProofs

-----------------------------------------------------------------------------
(* The records behind the variables, without what they hold.                *)

IsConfig(c) == c = [networks |-> c.networks, switches |-> c.switches, key |-> c.key]

Shape ==
  /\ IsConfig(mem)
  /\ \A c \in nvs : IsConfig(c) /\ nvs = {c}
  /\ live = [p \in LiveParts |-> live[p]]
  /\ writer = [w \in Writers |->
                 [pc |-> writer[w].pc, kind |-> writer[w].kind,
                  cfg |-> writer[w].cfg]]
  /\ \A w \in Writers : /\ writer[w].pc \in WriterSteps /\ writer[w].kind \in Kind
                          /\ IsConfig(writer[w].cfg)
  /\ resetting \in BOOLEAN /\ overlapped \in BOOLEAN /\ unpushed \in BOOLEAN

(* What a request makes of the configuration: only four of the kinds touch  *)
(* the networks.                                                            *)
LEMMA UpdateFacts ==
  ASSUME NEW c, IsConfig(c), NEW u \in Updates(c)
  PROVE  /\ u.kind \in Kind /\ IsConfig(u.cfg)
         /\ u.kind \in {"switches", "https"} => u.cfg.networks = c.networks
<1> DEFINE Good(k, d) ==
      /\ k \in Kind /\ IsConfig(d)
      /\ k \in {"switches", "https"} => d.networks = c.networks
<1>0. ASSUME NEW k, NEW d, Good(k, d), u = Update(k, d)
      PROVE  Good(u.kind, u.cfg)
  <2>1. u.kind = k /\ u.cfg = d
    BY <1>0 DEF Update
  <2>2. QED BY <1>0, <2>1
<1>1. ASSUME NEW in \in Inputs PROVE Good("all", MergePreservingSecrets(c, in))
  BY DEF Inputs, MergePreservingSecrets, IsConfig, Kind
<1>2. ASSUME NEW n PROVE /\ Good("wifi", [c EXCEPT !.networks = n])
                         /\ Good("add", [c EXCEPT !.networks = n])
                         /\ Good("del", [c EXCEPT !.networks = n])
                         /\ Good("clear", [c EXCEPT !.networks = n])
  BY DEF IsConfig, Kind, Console
<1>3. ASSUME NEW v PROVE /\ Good("switches", [c EXCEPT !.switches = v])
                         /\ Good("https", [c EXCEPT !.key = v])
  BY DEF IsConfig, Kind
<1>4. \/ \E in \in Inputs : u = Update("all", MergePreservingSecrets(c, in))
      \/ \E n : \/ u = Update("wifi", [c EXCEPT !.networks = n])
                \/ u = Update("add", [c EXCEPT !.networks = n])
                \/ u = Update("del", [c EXCEPT !.networks = n])
                \/ u = Update("clear", [c EXCEPT !.networks = n])
      \/ \E v : \/ u = Update("switches", [c EXCEPT !.switches = v])
                \/ u = Update("https", [c EXCEPT !.key = v])
  BY Zenon DEF Updates
<1> HIDE DEF Good
<1>5. Good(u.kind, u.cfg)
  BY <1>0, <1>1, <1>2, <1>3, <1>4, Zenon
<1>6. QED BY <1>5 DEF Good

(* Booting finds a configuration.                                           *)
LEMMA LoadedFacts ==
  ASSUME NEW s, \A c \in s : IsConfig(c) /\ s = {c}
  PROVE  /\ IsConfig(Loaded(s)) /\ IsConfig(Keyed(Loaded(s)))
         /\ Keyed(Keyed(Loaded(s))) = Keyed(Loaded(s))
         /\ \A c \in s : Loaded(s) = c
<1>1. IsConfig(Default)
  BY ConfigAssumption DEF Config, IsConfig
<1>2. \A c \in s : Loaded(s) = c
  BY DEF Loaded
<1>3. IsConfig(Loaded(s))
  BY <1>1, <1>2 DEF Loaded
<1>4. Blank # Generated
  BY ConfigAssumption
<1>5. ASSUME NEW c, IsConfig(c) PROVE IsConfig(Keyed(c)) /\ Keyed(Keyed(c)) = Keyed(c)
  <2>1. CASE c.key = Blank
    <3>1. Keyed(c) = [networks |-> c.networks, switches |-> c.switches,
                      key |-> Generated]
      BY <1>5, <2>1 DEF Keyed, IsConfig
    <3>2. QED BY <1>4, <3>1 DEF Keyed, IsConfig
  <2>2. CASE c.key # Blank
    <3>1. Keyed(c) = c
      BY <1>5, <2>2 DEF Keyed, IsConfig
    <3>2. QED BY <1>5, <3>1
  <2>3. QED BY <2>1, <2>2
<1>6. QED BY <1>2, <1>3, <1>5

-----------------------------------------------------------------------------
(* The invariants.                                                          *)

(* A writer past its save has a copy that NVS took.                         *)
SavedInv ==
  /\ mem \in accepted
  /\ \A w \in Writers :
       writer[w].pc \in LiveParts \cup {"replace"} => writer[w].cfg \in accepted

Agree ==
  /\ mem \in BootConfigs(nvs)
  /\ \A p \in LiveParts : live[p] = mem.switches

(* Where the one writer at work stands, and which copies it has already     *)
(* replaced.                                                                *)
WriterInv(w) ==
  LET pc == writer[w].pc
      kind == writer[w].kind
      c == writer[w].cfg
  IN /\ pc \in {"push", "save"} => Agree
     /\ pc = "push" => kind = "wifi" /\ (~unpushed => supervisor = mem.networks)
     /\ pc = "save" /\ kind # "wifi" /\ ~unpushed => supervisor = mem.networks
     /\ pc \notin {"idle", "push"} /\ kind = "wifi" => supervisor = c.networks
     /\ pc # "idle" /\ kind \in {"switches", "https"} /\ ~unpushed
          => supervisor = c.networks
     /\ pc \in LiveParts \cup {"replace"} => nvs = {c}
     /\ pc \in {"sprinkler_2", "valve", "replace"} => live["sprinkler_1"] = c.switches
     /\ pc \in {"valve", "replace"} => live["sprinkler_2"] = c.switches
     /\ pc = "replace" => live["valve"] = c.switches
     /\ pc = "push_after" => mem = c /\ Agree

QuietInv ==
  ~overlapped =>
    /\ \A v, w \in Writers :
         writer[v].pc # "idle" /\ writer[w].pc # "idle" => v = w
    /\ resetting => Idle /\ nvs = {}
    /\ Idle /\ ~resetting => Agree /\ (~unpushed => supervisor = mem.networks)
    /\ \A w \in Writers : WriterInv(w)

Inv == Shape /\ SavedInv /\ QuietInv

(* A step of one writer, which leaves the others alone.                     *)
WriterStep(w, r) == writer' = [writer EXCEPT ![w] = r]

LEMMA WriterStepFacts ==
  ASSUME Shape, NEW w \in Writers, NEW r, WriterStep(w, r),
         r = [pc |-> r.pc, kind |-> r.kind, cfg |-> r.cfg],
         r.pc \in WriterSteps, r.kind \in Kind, IsConfig(r.cfg)
  PROVE  /\ writer'[w] = r
         /\ \A v \in Writers : v # w => writer'[v] = writer[v]
         /\ writer' = [v \in Writers |->
                         [pc |-> writer'[v].pc, kind |-> writer'[v].kind,
                          cfg |-> writer'[v].cfg]]
         /\ \A v \in Writers : /\ writer'[v].pc \in WriterSteps
                                 /\ writer'[v].kind \in Kind
                                 /\ IsConfig(writer'[v].cfg)
<1>1. \A v \in Writers : writer[v] = [pc |-> writer[v].pc, kind |-> writer[v].kind,
                                      cfg |-> writer[v].cfg]
  BY DEF Shape
<1>2. writer' = [v \in Writers |-> IF v = w THEN r ELSE writer[v]]
  BY DEF Shape, WriterStep
<1>3. /\ writer'[w] = r
      /\ \A v \in Writers : v # w => writer'[v] = writer[v]
  BY <1>2
<1>4. \A v \in Writers : writer'[v] = [pc |-> writer'[v].pc, kind |-> writer'[v].kind,
                                       cfg |-> writer'[v].cfg]
  BY <1>1, <1>3
<1>5. \A v \in Writers : /\ writer'[v].pc \in WriterSteps
                          /\ writer'[v].kind \in Kind
                          /\ IsConfig(writer'[v].cfg)
  BY <1>3 DEF Shape
<1>6. writer' = [v \in Writers |->
                   [pc |-> writer'[v].pc, kind |-> writer'[v].kind,
                    cfg |-> writer'[v].cfg]]
  BY <1>2, <1>4
<1>7. QED BY <1>3, <1>5, <1>6

LEMMA NoWriterFacts ==
  /\ NoWriter = [pc |-> NoWriter.pc, kind |-> NoWriter.kind, cfg |-> NoWriter.cfg]
  /\ NoWriter.pc = "idle" /\ NoWriter.pc \in WriterSteps
  /\ NoWriter.kind \in Kind /\ IsConfig(NoWriter.cfg)
<1>1. IsConfig(Default)
  BY ConfigAssumption DEF Config, IsConfig
<1>2. QED BY <1>1 DEF NoWriter, WriterSteps, Kind

(* The shape of writer alone, and the steps that keep it.                   *)
WriterShape ==
  /\ writer = [w \in Writers |->
                 [pc |-> writer[w].pc, kind |-> writer[w].kind,
                  cfg |-> writer[w].cfg]]
  /\ \A w \in Writers : /\ writer[w].pc \in WriterSteps /\ writer[w].kind \in Kind
                          /\ IsConfig(writer[w].cfg)

LEMMA PcFacts ==
  ASSUME Shape, NEW w \in Writers, NEW p \in WriterSteps,
         writer' = [writer EXCEPT ![w].pc = p]
  PROVE  /\ writer'[w].pc = p /\ writer'[w].kind = writer[w].kind
         /\ writer'[w].cfg = writer[w].cfg
         /\ \A v \in Writers : v # w => writer'[v] = writer[v]
         /\ WriterShape'
<1> DEFINE r == [pc |-> p, kind |-> writer[w].kind, cfg |-> writer[w].cfg]
<1>1. writer[w] = [pc |-> writer[w].pc, kind |-> writer[w].kind,
                   cfg |-> writer[w].cfg]
  BY DEF Shape
<1>2. [writer[w] EXCEPT !.pc = p] = r
  BY <1>1
<1>3. WriterStep(w, r)
  BY <1>2 DEF WriterStep
<1>4. r = [pc |-> r.pc, kind |-> r.kind, cfg |-> r.cfg] /\ r.pc = p
      /\ r.kind = writer[w].kind /\ r.cfg = writer[w].cfg
  OBVIOUS
<1>5. r.kind \in Kind /\ IsConfig(r.cfg)
  BY <1>4 DEF Shape
<1> HIDE DEF r
<1>6. QED BY <1>3, <1>4, <1>5, WriterStepFacts DEF WriterShape

LEMMA DoneFacts ==
  ASSUME Shape, NEW w \in Writers, WriterStep(w, NoWriter)
  PROVE  /\ writer'[w].pc = "idle"
         /\ \A v \in Writers : v # w => writer'[v] = writer[v]
         /\ WriterShape'
  BY NoWriterFacts, WriterStepFacts DEF WriterShape

(* In a quiet device, the others are idle while one writer is at work.      *)
LEMMA Alone ==
  ASSUME Shape, QuietInv, ~overlapped, NEW w \in Writers, writer[w].pc # "idle"
  PROVE  /\ ~resetting /\ ~Idle
         /\ \A v \in Writers : v # w => writer[v].pc = "idle"
         /\ WriterInv(w)
  BY DEF QuietInv, Idle

(* An idle writer has nothing to keep.                                      *)
LEMMA IdleInv ==
  ASSUME NEW w \in Writers, writer'[w].pc = "idle"
  PROVE  WriterInv(w)'
  BY DEF WriterInv, LiveParts

(* A step of writer w keeps QuietInv if it keeps w's part of it.            *)
LEMMA QuietStep ==
  ASSUME Shape, QuietInv, NEW w \in Writers, writer[w].pc # "idle",
         \A v \in Writers : v # w => writer'[v] = writer[v],
         overlapped' = overlapped, resetting' = resetting,
         ~overlapped => /\ WriterInv(w)'
                        /\ writer'[w].pc = "idle" =>
                             /\ Agree'
                             /\ ~unpushed' => supervisor' = mem'.networks
  PROVE  QuietInv'
<1> SUFFICES ASSUME ~overlapped
             PROVE  /\ \A u, v \in Writers :
                         writer'[u].pc # "idle" /\ writer'[v].pc # "idle" => u = v
                    /\ ~resetting'
                    /\ Idle' => Agree' /\ (~unpushed' => supervisor' = mem'.networks)
                    /\ \A v \in Writers : WriterInv(v)'
  BY DEF QuietInv
<1>1. ~resetting /\ \A v \in Writers : v # w => writer'[v].pc = "idle"
  BY Alone
<1>2. ASSUME NEW v \in Writers, v # w PROVE WriterInv(v)'
  BY <1>1, <1>2, IdleInv
<1>3. Idle' => writer'[w].pc = "idle"
  BY DEF Idle
<1>4. QED BY <1>1, <1>2, <1>3

-----------------------------------------------------------------------------
(* One lemma per step.                                                      *)

LEMMA PushStep ==
  ASSUME Inv, NEW w \in Writers, Push(w)
  PROVE  Inv'
<1> USE DEF Inv, history
<1>1. /\ writer'[w].pc = "save" /\ writer'[w].kind = writer[w].kind
      /\ writer'[w].cfg = writer[w].cfg
      /\ \A v \in Writers : v # w => writer'[v] = writer[v]
      /\ WriterShape'
  <2>1. "save" \in WriterSteps
    BY DEF WriterSteps
  <2>2. QED BY <2>1, PcFacts DEF Push
<1>2. Shape'
  BY <1>1 DEF Push, Shape, WriterShape
<1>3. SavedInv'
  BY <1>1 DEF Push, SavedInv, LiveParts
<1>4. ASSUME ~overlapped PROVE WriterInv(w)'
  <2>1. WriterInv(w) /\ writer[w].pc = "push" /\ writer[w].kind = "wifi"
    BY <1>4, Alone DEF Push, WriterInv
  <2>2. supervisor' = writer[w].cfg.networks
    BY DEF Push
  <2>3. Agree'
    BY <2>1 DEF Push, WriterInv, Agree
  <2>4. QED BY <1>1, <2>1, <2>2, <2>3 DEF WriterInv, LiveParts
<1>5. QuietInv'
  <2>1. writer[w].pc # "idle" /\ overlapped' = overlapped /\ resetting' = resetting
    BY DEF Push
  <2>2. QED BY <1>1, <1>4, <2>1, QuietStep
<1>6. QED BY <1>2, <1>3, <1>5

LEMMA PushLiveStep ==
  ASSUME Inv, NEW w \in Writers, NEW p \in LiveParts, PushLive(w, p)
  PROVE  Inv'
<1> USE DEF Inv, history
<1>0. writer[w].pc = p /\ AfterPart(p) \in {"sprinkler_2", "valve", "replace"}
      /\ AfterPart(p) \in WriterSteps
  BY DEF PushLive, LiveParts, AfterPart, WriterSteps
<1>1. /\ writer'[w].pc = AfterPart(p) /\ writer'[w].kind = writer[w].kind
      /\ writer'[w].cfg = writer[w].cfg
      /\ \A v \in Writers : v # w => writer'[v] = writer[v]
      /\ WriterShape'
  BY <1>0, PcFacts DEF PushLive
<1>2. live' = [q \in LiveParts |-> IF q = p THEN writer[w].cfg.switches ELSE live[q]]
  BY DEF PushLive, Shape
<1>3. Shape'
  BY <1>1, <1>2 DEF PushLive, Shape, WriterShape
<1>4. SavedInv'
  BY <1>0, <1>1 DEF PushLive, SavedInv, LiveParts
<1>5. ASSUME ~overlapped PROVE WriterInv(w)'
  <2>1. WriterInv(w)
    BY <1>0, <1>5, Alone DEF LiveParts
  <2>2. /\ nvs' = nvs /\ supervisor' = supervisor /\ unpushed' = unpushed
        /\ nvs = {writer[w].cfg}
    BY <1>0, <2>1 DEF PushLive, WriterInv, LiveParts
  <2>3. CASE p = "sprinkler_1"
    BY <1>0, <1>1, <1>2, <2>1, <2>2, <2>3 DEF WriterInv, LiveParts, AfterPart
  <2>4. CASE p = "sprinkler_2"
    BY <1>0, <1>1, <1>2, <2>1, <2>2, <2>4 DEF WriterInv, LiveParts, AfterPart
  <2>5. CASE p = "valve"
    BY <1>0, <1>1, <1>2, <2>1, <2>2, <2>5 DEF WriterInv, LiveParts, AfterPart
  <2>6. QED BY <2>3, <2>4, <2>5 DEF LiveParts
<1>6. QuietInv'
  <2>1. /\ writer[w].pc # "idle" /\ writer'[w].pc # "idle"
        /\ overlapped' = overlapped /\ resetting' = resetting
    BY <1>0, <1>1 DEF PushLive, LiveParts
  <2>2. QED BY <1>1, <1>5, <2>1, QuietStep
<1>7. QED BY <1>3, <1>4, <1>6

(* A configuration NVS holds is one a reboot brings back.                   *)
LEMMA StoredBoots ==
  ASSUME NEW c PROVE c \in BootConfigs({c})
  BY DEF BootConfigs, Loaded

LEMMA SaveStep ==
  ASSUME Inv, NEW w \in Writers, NEW ok \in BOOLEAN, Save(w, ok)
  PROVE  Inv'
<1> USE DEF Inv
<1>0. /\ writer[w].pc = "save" /\ overlapped' = overlapped /\ resetting' = resetting
      /\ mem' = mem /\ live' = live /\ supervisor' = supervisor
  BY DEF Save
<1>1. CASE ok
  <2>1. /\ nvs' = {writer[w].cfg} /\ accepted' = accepted \cup {writer[w].cfg}
        /\ writer' = [writer EXCEPT ![w].pc = "sprinkler_1"] /\ unpushed' = unpushed
    BY <1>1 DEF Save
  <2>2. /\ writer'[w].pc = "sprinkler_1" /\ writer'[w].kind = writer[w].kind
        /\ writer'[w].cfg = writer[w].cfg
        /\ \A v \in Writers : v # w => writer'[v] = writer[v]
        /\ WriterShape'
    <3>1. "sprinkler_1" \in WriterSteps
      BY DEF WriterSteps, LiveParts
    <3>2. QED BY <2>1, <3>1, PcFacts
  <2>3. Shape'
    BY <1>0, <2>1, <2>2 DEF Shape, WriterShape
  <2>4. SavedInv'
    BY <1>0, <2>1, <2>2 DEF SavedInv
  <2>5. ASSUME ~overlapped PROVE WriterInv(w)'
    <3>1. WriterInv(w)
      BY <1>0, <2>5, Alone
    <3>2. QED BY <1>0, <2>1, <2>2, <3>1 DEF WriterInv, LiveParts
  <2>6. QuietInv'
    BY <1>0, <2>2, <2>5, QuietStep
  <2>7. QED BY <2>3, <2>4, <2>6
<1>2. CASE ~ok
  <2>1. /\ nvs' = nvs /\ accepted' = accepted /\ WriterStep(w, NoWriter)
        /\ unpushed' = (unpushed \/ writer[w].kind = "wifi")
    BY <1>2 DEF Save, WriterStep
  <2>2. /\ writer'[w].pc = "idle"
        /\ \A v \in Writers : v # w => writer'[v] = writer[v]
        /\ WriterShape'
    BY <2>1, DoneFacts
  <2>3. Shape'
    BY <1>0, <2>1, <2>2 DEF Shape, WriterShape
  <2>4. SavedInv'
    BY <1>0, <2>1, <2>2 DEF SavedInv, LiveParts
  <2>5. ASSUME ~overlapped
        PROVE  /\ WriterInv(w)' /\ Agree'
               /\ ~unpushed' => supervisor' = mem'.networks
    <3>1. WriterInv(w)
      BY <1>0, <2>5, Alone
    <3>2. WriterInv(w)'
      BY <2>2, IdleInv
    <3>3. Agree'
      BY <1>0, <2>1, <3>1 DEF WriterInv, Agree
    <3>4. ~unpushed' => supervisor' = mem'.networks
      BY <1>0, <2>1, <3>1 DEF WriterInv
    <3>5. QED BY <3>2, <3>3, <3>4
  <2>6. QuietInv'
    BY <1>0, <2>2, <2>5, QuietStep
  <2>7. QED BY <2>3, <2>4, <2>6
<1>3. QED BY <1>1, <1>2

LEMMA ReplaceStep ==
  ASSUME Inv, NEW w \in Writers, Replace(w)
  PROVE  Inv'
<1> USE DEF Inv
<1> DEFINE c == writer[w].cfg
           kind == writer[w].kind
<1>0. /\ writer[w].pc = "replace" /\ overlapped' = overlapped
      /\ resetting' = resetting /\ mem' = c /\ live' = live /\ nvs' = nvs
      /\ supervisor' = supervisor /\ accepted' = accepted
      /\ unpushed' = CASE kind = "wifi" -> FALSE
                       [] kind = "all"  -> unpushed \/ c.networks # supervisor
                       [] OTHER         -> unpushed
  BY DEF Replace
<1>1. /\ writer'[w].pc = IF kind \in Console THEN "push_after" ELSE "idle"
      /\ kind \in Console => writer'[w].kind = kind /\ writer'[w].cfg = c
      /\ \A v \in Writers : v # w => writer'[v] = writer[v]
      /\ WriterShape'
  <2>1. CASE kind \in Console
    <3>1. "push_after" \in WriterSteps
      BY DEF WriterSteps
    <3>2. writer' = [writer EXCEPT ![w].pc = "push_after"]
      BY <2>1 DEF Replace
    <3>3. /\ writer'[w].pc = "push_after" /\ writer'[w].kind = kind
          /\ writer'[w].cfg = c
          /\ \A v \in Writers : v # w => writer'[v] = writer[v]
          /\ WriterShape'
      BY <3>1, <3>2, PcFacts
    <3>4. QED BY <2>1, <3>3
  <2>2. CASE kind \notin Console
    <3>1. WriterStep(w, NoWriter)
      BY <2>2 DEF Replace, WriterStep
    <3>2. QED BY <2>2, <3>1, DoneFacts
  <2>3. QED BY <2>1, <2>2
<1>2. IsConfig(c) /\ kind \in Kind /\ unpushed \in BOOLEAN
  BY DEF Shape
<1>3. unpushed' \in BOOLEAN
  BY <1>0, <1>2
<1>4. Shape'
  BY <1>0, <1>1, <1>2, <1>3 DEF Shape, WriterShape
<1>5. SavedInv'
  BY <1>0, <1>1 DEF SavedInv, LiveParts
<1>6. ASSUME ~overlapped
      PROVE  /\ WriterInv(w)' /\ Agree'
             /\ kind \notin Console /\ ~unpushed' => supervisor' = mem'.networks
  <2>1. WriterInv(w)
    BY <1>0, <1>6, Alone
  <2>2. nvs = {c} /\ \A p \in LiveParts : live[p] = c.switches
    BY <1>0, <2>1 DEF WriterInv, LiveParts
  <2>3. Agree'
    BY <1>0, <2>2, StoredBoots DEF Agree
  <2>4. kind \notin Console /\ ~unpushed' => supervisor' = c.networks
    <3>1. CASE kind = "wifi"
      BY <1>0, <2>1, <3>1 DEF WriterInv
    <3>2. CASE kind = "all"
      BY <1>0, <3>2
    <3>3. CASE kind \in {"switches", "https"}
      BY <1>0, <2>1, <3>3 DEF WriterInv
    <3>4. QED BY <1>2, <3>1, <3>2, <3>3 DEF Kind
  <2>5. WriterInv(w)'
    <3>1. CASE kind \in Console
      BY <1>0, <1>1, <2>3, <3>1 DEF WriterInv, LiveParts, Console
    <3>2. CASE kind \notin Console
      BY <1>1, <3>2, IdleInv
    <3>3. QED BY <3>1, <3>2
  <2>6. QED BY <1>0, <2>3, <2>4, <2>5
<1>7. QuietInv'
  <2>1. writer'[w].pc = "idle" => kind \notin Console
    BY <1>1
  <2>2. QED BY <1>0, <1>1, <1>6, <2>1, QuietStep
<1>8. QED BY <1>4, <1>5, <1>7

LEMMA PushAfterStep ==
  ASSUME Inv, NEW w \in Writers, PushAfter(w)
  PROVE  Inv'
<1> USE DEF Inv
<1>0. /\ writer[w].pc = "push_after" /\ overlapped' = overlapped
      /\ resetting' = resetting /\ mem' = mem /\ live' = live /\ nvs' = nvs
      /\ supervisor' = writer[w].cfg.networks /\ accepted' = accepted
      /\ unpushed' = FALSE /\ WriterStep(w, NoWriter)
  BY DEF PushAfter, WriterStep
<1>1. /\ writer'[w].pc = "idle"
      /\ \A v \in Writers : v # w => writer'[v] = writer[v]
      /\ WriterShape'
  BY <1>0, DoneFacts
<1>2. Shape'
  BY <1>0, <1>1 DEF Shape, WriterShape
<1>3. SavedInv'
  BY <1>0, <1>1 DEF SavedInv, LiveParts
<1>4. ASSUME ~overlapped
      PROVE  WriterInv(w)' /\ Agree' /\ supervisor' = mem'.networks
  <2>1. WriterInv(w)
    BY <1>0, <1>4, Alone
  <2>2. Agree' /\ supervisor' = mem'.networks
    BY <1>0, <2>1 DEF WriterInv, Agree
  <2>3. QED BY <1>1, <2>2, IdleInv
<1>5. QuietInv'
  BY <1>0, <1>1, <1>4, QuietStep
<1>6. QED BY <1>2, <1>3, <1>5

LEMMA CopyStep ==
  ASSUME Inv, NEW w \in Writers, NEW u \in Updates(mem), Copy(w, u)
  PROVE  Inv'
<1> USE DEF Inv
<1> DEFINE r == [pc |-> IF u.kind = "wifi" THEN "push" ELSE "save",
                 kind |-> u.kind, cfg |-> u.cfg]
<1>0. /\ writer[w].pc = "idle" /\ overlapped' = (overlapped \/ ~Idle \/ resetting)
      /\ resetting' = resetting /\ mem' = mem /\ live' = live /\ nvs' = nvs
      /\ supervisor' = supervisor /\ accepted' = accepted
      /\ unpushed' = unpushed /\ WriterStep(w, r)
  BY DEF Copy, WriterStep
<1>1. /\ u.kind \in Kind /\ IsConfig(u.cfg)
      /\ u.kind \in {"switches", "https"} => u.cfg.networks = mem.networks
  BY UpdateFacts DEF Shape
<1>2. /\ r = [pc |-> r.pc, kind |-> r.kind, cfg |-> r.cfg]
      /\ r.pc = (IF u.kind = "wifi" THEN "push" ELSE "save")
      /\ r.kind = u.kind /\ r.cfg = u.cfg
  OBVIOUS
<1>3. r.pc \in WriterSteps /\ r.kind \in Kind /\ IsConfig(r.cfg)
  BY <1>1, <1>2 DEF WriterSteps
<1> HIDE DEF r
<1>4. /\ writer'[w] = r
      /\ \A v \in Writers : v # w => writer'[v] = writer[v]
      /\ WriterShape'
  BY <1>0, <1>2, <1>3, WriterStepFacts DEF WriterShape
<1>5. Shape'
  BY <1>0, <1>4 DEF Shape, WriterShape
<1>6. SavedInv'
  BY <1>0, <1>2, <1>4 DEF SavedInv, LiveParts
<1>7. QuietInv'
  <2> SUFFICES ASSUME ~overlapped, Idle, ~resetting
               PROVE  /\ \A v, x \in Writers :
                           writer'[v].pc # "idle" /\ writer'[x].pc # "idle" => v = x
                      /\ ~resetting' /\ ~Idle'
                      /\ \A v \in Writers : WriterInv(v)'
    BY <1>0 DEF QuietInv
  <2>1. Agree /\ (~unpushed => supervisor = mem.networks)
    BY DEF QuietInv
  <2>2. \A v \in Writers : v # w => writer'[v].pc = "idle"
    BY <1>4 DEF Idle
  <2>3. WriterInv(w)'
    <3>1. Agree'
      BY <1>0, <2>1 DEF Agree
    <3>2. QED BY <1>0, <1>1, <1>2, <1>4, <2>1, <3>1 DEF WriterInv, LiveParts
  <2>4. ASSUME NEW v \in Writers, v # w PROVE WriterInv(v)'
    BY <2>2, <2>4, IdleInv
  <2>5. ~Idle'
    BY <1>2, <1>4 DEF Idle
  <2>6. QED BY <1>0, <2>2, <2>3, <2>4, <2>5
<1>8. QED BY <1>5, <1>6, <1>7

LEMMA ResetStep ==
  ASSUME Inv, FactoryReset
  PROVE  Inv'
<1> USE DEF Inv
<1>0. /\ overlapped' = (overlapped \/ ~Idle) /\ resetting' = TRUE /\ mem' = mem
      /\ live' = live /\ nvs' = {} /\ accepted' = accepted
      /\ unpushed' = unpushed /\ writer' = writer
  BY DEF FactoryReset
<1>1. Shape' /\ SavedInv'
  BY <1>0 DEF Shape, SavedInv
<1>2. QuietInv'
  <2> SUFFICES ASSUME ~overlapped, Idle
               PROVE  /\ \A v, x \in Writers :
                           writer'[v].pc # "idle" /\ writer'[x].pc # "idle" => v = x
                      /\ Idle'
                      /\ \A v \in Writers : WriterInv(v)'
    BY <1>0 DEF QuietInv
  <2>1. \A v \in Writers : writer'[v].pc = "idle"
    BY <1>0 DEF Idle
  <2>2. QED BY <2>1, IdleInv DEF Idle
<1>3. QED BY <1>1, <1>2

(* Boot ends in a configuration another boot would end in.                  *)
LEMMA StartInv ==
  ASSUME NEW c, IsConfig(c), Start(c), c \in BootConfigs(nvs'),
         \A d \in nvs' : IsConfig(d) /\ nvs' = {d}
  PROVE  Inv'
<1>1. /\ mem' = c /\ live' = [p \in LiveParts |-> c.switches]
      /\ supervisor' = c.networks /\ writer' = [w \in Writers |-> NoWriter]
      /\ resetting' = FALSE /\ accepted' = {c}
      /\ overlapped' = FALSE /\ unpushed' = FALSE
  BY DEF Start
<1>2. \A w \in Writers : writer'[w] = NoWriter /\ writer'[w].pc = "idle"
  BY <1>1, NoWriterFacts
<1>3. WriterShape'
  <2>1. \A w \in Writers : writer'[w] = [pc |-> writer'[w].pc, kind |-> writer'[w].kind,
                                         cfg |-> writer'[w].cfg]
    BY <1>2, NoWriterFacts
  <2>2. QED BY <1>1, <1>2, <2>1, NoWriterFacts DEF WriterShape
<1>4. Shape'
  BY <1>1, <1>3 DEF Shape, WriterShape
<1>5. SavedInv'
  BY <1>1, <1>2 DEF SavedInv, LiveParts
<1>6. QuietInv'
  <2>1. Agree'
    BY <1>1 DEF Agree
  <2>2. QED BY <1>1, <1>2, <2>1, IdleInv DEF QuietInv
<1>7. QED BY <1>4, <1>5, <1>6 DEF Inv

LEMMA RebootStep ==
  ASSUME Inv, Reboot
  PROVE  Inv' /\ mem' \in BootConfigs(nvs)
<1>1. PICK g \in BOOLEAN, s \in BOOLEAN : Boot(g, s)
  BY DEF Reboot
<1> DEFINE found == Loaded(nvs)
           c == IF g THEN Keyed(found) ELSE found
<1>2. Start(c) /\ nvs' = IF c # found /\ s THEN {c} ELSE nvs
  BY <1>1 DEF Boot
<1>3. /\ IsConfig(found) /\ IsConfig(Keyed(found))
      /\ \A d \in nvs : IsConfig(d) /\ nvs = {d}
  BY LoadedFacts DEF Inv, Shape
<1>4. IsConfig(c) /\ c \in BootConfigs(nvs)
  BY <1>3 DEF BootConfigs
<1>5. mem' = c
  BY <1>2 DEF Start
<1> HIDE DEF c
<1>6. c \in BootConfigs(nvs') /\ \A d \in nvs' : IsConfig(d) /\ nvs' = {d}
  <2>1. CASE nvs' = {c}
    BY <1>4, <2>1, StoredBoots
  <2>2. CASE nvs' = nvs
    BY <1>3, <1>4, <2>2
  <2>3. QED BY <1>2, <2>1, <2>2
<1>7. QED BY <1>2, <1>4, <1>5, <1>6, StartInv

-----------------------------------------------------------------------------
(* The theorems.                                                            *)

LEMMA InitInv == Init => Inv
<1> SUFFICES ASSUME Init PROVE Inv
  OBVIOUS
<1>1. /\ IsConfig(Loaded({})) /\ IsConfig(Keyed(Loaded({})))
  BY LoadedFacts
<1>2. IsConfig(mem)
  BY <1>1 DEF Init, BootConfigs
<1>3. mem \in BootConfigs(nvs)
  BY StoredBoots DEF Init
<1>4. \A w \in Writers : writer[w] = NoWriter /\ writer[w].pc = "idle"
  BY NoWriterFacts DEF Init
<1>5. WriterShape
  <2>1. \A w \in Writers : writer[w] = [pc |-> writer[w].pc, kind |-> writer[w].kind,
                                        cfg |-> writer[w].cfg]
    BY <1>4, NoWriterFacts
  <2>2. QED BY <1>4, <2>1, NoWriterFacts DEF WriterShape, Init
<1>6. Shape
  BY <1>2, <1>5 DEF Init, Shape, WriterShape
<1>7. SavedInv
  BY <1>4 DEF Init, SavedInv, LiveParts
<1>8. QuietInv
  <2>1. Agree
    BY <1>3 DEF Agree, Init
  <2>2. \A w \in Writers : WriterInv(w)
    BY <1>4 DEF WriterInv, LiveParts
  <2>3. QED BY <1>4, <2>1, <2>2 DEF QuietInv, Init
<1>9. QED BY <1>6, <1>7, <1>8 DEF Inv

(* The conjunction of the invariants is inductive.                          *)
LEMMA Inductive == Spec => []Inv
<1>1. Inv /\ [Next]_vars => Inv'
  <2> SUFFICES ASSUME Inv, [Next]_vars PROVE Inv'
    OBVIOUS
  <2>1. CASE UNCHANGED vars
    BY <2>1 DEF vars, history, Inv, Shape, SavedInv, QuietInv, WriterInv, Agree, Idle
  <2>2. QED
    BY <2>1, CopyStep, PushStep, SaveStep, PushLiveStep, ReplaceStep,
       PushAfterStep, ResetStep, RebootStep DEF Next
<1>2. QED BY InitInv, <1>1, PTL DEF Spec

(* The configuration in effect is one NVS has taken, or the one the device  *)
(* booted with, however the steps of PUT handlers and console commands      *)
(* interleave and whichever saves fail.                                     *)
THEOREM SaveComesFirst == Spec => []EffectiveWasSaved
<1>1. Inv => EffectiveWasSaved
  BY DEF Inv, SavedInv, EffectiveWasSaved
<1>2. QED BY Inductive, <1>1, PTL

(* Writers that do not overlap leave memory, NVS, the running components    *)
(* and the WiFi supervisor in agreement, through failed saves and crashes.  *)
THEOREM QuietAgreement == Spec => []CopiesAgree
<1>1. Inv => CopiesAgree
  BY DEF Inv, QuietInv, CopiesAgree, Agree
<1>2. QED BY Inductive, <1>1, PTL

(* A factory reset that no request overlaps boots with the defaults.        *)
THEOREM CleanReset == Spec => ResetForgets
<1>1. ASSUME Inv, [Next]_vars, resetting, ~overlapped, ~resetting'
      PROVE  mem' \in BootConfigs({})
  <2>1. nvs = {}
    BY <1>1 DEF Inv, QuietInv
  <2>2. Reboot
    BY <1>1 DEF Next, Copy, Push, Save, PushLive, Replace, PushAfter,
                FactoryReset, vars, history
  <2>3. QED BY <1>1, <2>1, <2>2, RebootStep
<1>2. Inv /\ [Next]_vars =>
        [(resetting /\ ~overlapped /\ ~resetting') => mem' \in BootConfigs({})]_vars
  BY <1>1
<1>3. QED BY Inductive, <1>2, PTL DEF Spec, ResetForgets

(* merge_preserving_secrets undoes redact_secrets_for_api, for every        *)
(* configuration without two networks of the same SSID.                     *)
THEOREM RedactionRoundTrip ==
  ASSUME NEW c \in Config, DistinctSsids(c.networks)
  PROVE  MergePreservingSecrets(c, Redact(c)) = c
<1> DEFINE list == c.networks
           red == Redact(c)
<1>1. /\ list \in Seq(Network) /\ c.key \in Secret
      /\ c = [networks |-> list, switches |-> c.switches, key |-> c.key]
  BY DEF Config
<1>2. /\ red.networks = [i \in DOMAIN list |-> [list[i] EXCEPT !.password = Blank]]
      /\ red.switches = c.switches /\ red.key = Blank
  BY <1>1 DEF Redact
<1>3. RestoreKey(red.key, c.key) = c.key
  BY <1>2 DEF RestoreKey
<1>4. DOMAIN list = 1 .. Len(list) /\ Len(list) \in Nat
      /\ list = [i \in DOMAIN list |-> list[i]]
  BY <1>1
<1>5. ASSUME NEW i \in DOMAIN list
      PROVE  /\ red.networks[i].password = Blank /\ red.networks[i].ssid = list[i].ssid
             /\ [red.networks[i] EXCEPT !.password = list[i].password] = list[i]
  <2>1. list[i] \in Network
    BY <1>1, <1>4
  <2>2. QED BY <1>2, <2>1 DEF Network
<1> HIDE DEF red
<1>6. ASSUME NEW i \in DOMAIN list
      PROVE  RestoreNetworks(red.networks, list)[i] = list[i]
  <2>1. StoredAt(red.networks[i].ssid, list) = {i}
    <3>1. \A j \in DOMAIN list : list[j].ssid = list[i].ssid => j = i
      BY DEF DistinctSsids
    <3>2. red.networks[i].ssid = list[i].ssid
      BY <1>5
    <3> HIDE DEF list
    <3>3. QED BY <3>1, <3>2 DEF StoredAt
  <2>2. i <= i
    BY <1>4
  <2>3. First({i}) = i
    <3>1. \E j \in {i} : \A k \in {i} : j <= k
      BY <2>2
    <3>2. First({i}) \in {i}
      BY <3>1 DEF First
    <3>3. QED BY <3>2
  <2>4. DOMAIN red.networks = DOMAIN list
    BY <1>2
  <2>5. RestoreNetworks(red.networks, list)[i]
          = [red.networks[i] EXCEPT !.password = list[i].password]
    BY <1>5, <2>1, <2>3, <2>4 DEF RestoreNetworks
  <2>6. QED BY <1>5, <2>5
<1>7. RestoreNetworks(red.networks, list) = list
  <2>1. DOMAIN red.networks = DOMAIN list
    BY <1>2
  <2>2. RestoreNetworks(red.networks, list)
          = [i \in DOMAIN list |-> RestoreNetworks(red.networks, list)[i]]
    BY <2>1 DEF RestoreNetworks
  <2>3. QED BY <1>4, <1>6, <2>2
<1>8. MergePreservingSecrets(c, red) = [networks |-> list, switches |-> c.switches,
                                        key |-> c.key]
  BY <1>2, <1>3, <1>7 DEF MergePreservingSecrets
<1>9. QED BY <1>1, <1>8 DEF red
-----------------------------------------------------------------------------
(* The type of the configuration, and the round trip.                       *)

(* The merge finds a password of the stored list.                           *)
LEMMA RestoredType ==
  ASSUME NEW new \in Seq(Network), NEW stored \in Seq(Network)
  PROVE  RestoreNetworks(new, stored) \in Seq(Network)
<1>1. ASSUME NEW ssid, StoredAt(ssid, stored) # {}
      PROVE  stored[First(StoredAt(ssid, stored))] \in Network
  <2> DEFINE at == StoredAt(ssid, stored)
  <2>1. at \subseteq Nat /\ at \subseteq DOMAIN stored
    BY DEF StoredAt
  <2> HIDE DEF at
  <2>2. \E j \in at : \A k \in at : j <= k
    BY <1>1, <2>1, LeastNatural DEF at
  <2>3. First(at) \in at
    BY <2>2 DEF First
  <2>4. QED BY <2>1, <2>3 DEF at
<1>2. ASSUME NEW i \in DOMAIN new
      PROVE  RestoreNetworks(new, stored)[i] \in Network
  <2>1. new[i] \in Network
    OBVIOUS
  <2>2. CASE new[i].password = Blank /\ StoredAt(new[i].ssid, stored) # {}
    <3> DEFINE found == stored[First(StoredAt(new[i].ssid, stored))]
    <3>1. found \in Network
      BY <1>1, <2>2
    <3>2. RestoreNetworks(new, stored)[i] = [new[i] EXCEPT !.password = found.password]
      BY <2>2 DEF RestoreNetworks
    <3> HIDE DEF found
    <3>3. QED BY <2>1, <3>1, <3>2 DEF Network
  <2>3. CASE ~(new[i].password = Blank /\ StoredAt(new[i].ssid, stored) # {})
    BY <2>1, <2>3 DEF RestoreNetworks
  <2>4. QED BY <2>2, <2>3
<1>3. DOMAIN new = 1 .. Len(new) /\ Len(new) \in Nat
  OBVIOUS
<1>4. RestoreNetworks(new, stored)
        = [i \in 1 .. Len(new) |-> RestoreNetworks(new, stored)[i]]
  BY <1>3 DEF RestoreNetworks
<1> DEFINE f == RestoreNetworks(new, stored)
<1> HIDE DEF f
<1>5. f = [i \in 1 .. Len(new) |-> f[i]] /\ \A i \in 1 .. Len(new) : f[i] \in Network
  BY <1>2, <1>3, <1>4 DEF f
<1>6. f \in Seq(Network)
  BY <1>3, <1>5
<1>7. QED BY <1>6 DEF f

(* What a request makes of a configuration is one.                          *)
LEMMA UpdateType ==
  ASSUME NEW c \in Config, NEW u \in Updates(c)
  PROVE  u.kind \in Kind /\ u.cfg \in Config
<1>1. /\ c.networks \in Seq(Network) /\ c.switches \in Switches /\ c.key \in Secret
      /\ c = [networks |-> c.networks, switches |-> c.switches, key |-> c.key]
  BY DEF Config
<1>2. ASSUME NEW list \in Seq(Network) PROVE [c EXCEPT !.networks = list] \in Config
  BY <1>2 DEF Config
<1>3. ASSUME NEW k, NEW d, k \in Kind, d \in Config, u = Update(k, d)
      PROVE  u.kind \in Kind /\ u.cfg \in Config
  BY <1>3 DEF Update
<1>4. ASSUME NEW k \in Keys \cup {Blank} PROVE RestoreKey(k, c.key) \in Secret
  BY <1>1 DEF RestoreKey, Secret
<1>5. CASE \E in \in Inputs : u = Update("all", MergePreservingSecrets(c, in))
  <2>1. PICK in \in Inputs : u = Update("all", MergePreservingSecrets(c, in))
    BY <1>5
  <2>2. /\ in.networks \in Seq(Network) /\ in.switches \in Switches
        /\ in.key \in Keys \cup {Blank}
    BY ConfigAssumption DEF Inputs
  <2>3. RestoreNetworks(in.networks, c.networks) \in Seq(Network)
    BY <1>1, <2>2, RestoredType
  <2>4. MergePreservingSecrets(c, in) \in Config
    BY <1>4, <2>2, <2>3 DEF MergePreservingSecrets, Config
  <2>5. QED BY <1>3, <2>1, <2>4 DEF Kind
<1>6. CASE \E n \in NetworkLists :
             u = Update("wifi", [c EXCEPT !.networks = RestoreNetworks(n, c.networks)])
  <2>1. PICK n \in NetworkLists :
          u = Update("wifi", [c EXCEPT !.networks = RestoreNetworks(n, c.networks)])
    BY <1>6
  <2>2. RestoreNetworks(n, c.networks) \in Seq(Network)
    BY <1>1, ConfigAssumption, RestoredType
  <2>3. QED BY <1>2, <1>3, <2>1, <2>2 DEF Kind
<1>7. CASE \E v \in Switches : u = Update("switches", [c EXCEPT !.switches = v])
  <2>1. PICK v \in Switches : u = Update("switches", [c EXCEPT !.switches = v])
    BY <1>7
  <2>2. [c EXCEPT !.switches = v] \in Config
    BY DEF Config
  <2>3. QED BY <1>3, <2>1, <2>2 DEF Kind
<1>8. CASE \E k \in Keys \cup {Blank} :
             u = Update("https", [c EXCEPT !.key = RestoreKey(k, c.key)])
  <2>1. PICK k \in Keys \cup {Blank} :
          u = Update("https", [c EXCEPT !.key = RestoreKey(k, c.key)])
    BY <1>8
  <2>2. [c EXCEPT !.key = RestoreKey(k, c.key)] \in Config
    BY <1>4 DEF Config
  <2>3. QED BY <1>3, <2>1, <2>2 DEF Kind
<1>9. CASE \E n \in Network :
             u = Update("add", [c EXCEPT !.networks = Append(Without(c.networks, n.ssid), n)])
  <2>1. PICK n \in Network :
          u = Update("add", [c EXCEPT !.networks = Append(Without(c.networks, n.ssid), n)])
    BY <1>9
  <2>2. Without(c.networks, n.ssid) \in Seq(Network)
    BY <1>1, SelectInSelects DEF Without
  <2>3. Append(Without(c.networks, n.ssid), n) \in Seq(Network)
    BY <2>2
  <2>4. QED BY <1>2, <1>3, <2>1, <2>3 DEF Kind, Console
<1>10. CASE \E ssid \in Ssids :
              u = Update("del", [c EXCEPT !.networks = Without(c.networks, ssid)])
  <2>1. PICK ssid \in Ssids :
          u = Update("del", [c EXCEPT !.networks = Without(c.networks, ssid)])
    BY <1>10
  <2>2. Without(c.networks, ssid) \in Seq(Network)
    BY <1>1, SelectInSelects DEF Without
  <2>3. QED BY <1>2, <1>3, <2>1, <2>2 DEF Kind, Console
<1>11. CASE u = Update("clear", [c EXCEPT !.networks = <<>>])
  <2>1. <<>> \in Seq(Network)
    OBVIOUS
  <2>2. QED BY <1>2, <1>3, <1>11, <2>1 DEF Kind, Console
<1>12. QED BY <1>5, <1>6, <1>7, <1>8, <1>9, <1>10, <1>11, Zenon DEF Updates

LEMMA LoadedType ==
  ASSUME NEW s, s \subseteq Config
  PROVE  BootConfigs(s) \subseteq Config
<1>1. Loaded(s) \in Config
  BY ConfigAssumption DEF Loaded
<1>2. ASSUME NEW c \in Config PROVE Keyed(c) \in Config
  BY DEF Keyed, Config, Secret
<1>3. QED BY <1>1, <1>2 DEF BootConfigs

LEMMA NoWriterType == NoWriter \in [pc : WriterSteps, kind : Kind, cfg : Config]
  BY ConfigAssumption DEF NoWriter, WriterSteps, Kind

(* A boot from a configuration of the right type.                           *)
LEMMA StartType ==
  ASSUME TypeOK, NEW c \in Config, Start(c), nvs' \subseteq Config,
         \A d, e \in nvs' : d = e
  PROVE  TypeOK'
<1>1. /\ mem' = c /\ live' = [p \in LiveParts |-> c.switches]
      /\ supervisor' = c.networks /\ writer' = [w \in Writers |-> NoWriter]
      /\ resetting' = FALSE /\ accepted' = {c}
      /\ overlapped' = FALSE /\ unpushed' = FALSE /\ requests' = requests
  BY DEF Start
<1>2. c.switches \in Switches /\ c.networks \in Seq(Network)
  BY DEF Config
<1>3. writer' \in [Writers -> [pc : WriterSteps, kind : Kind, cfg : Config]]
  BY <1>1, NoWriterType
<1>4. QED BY <1>1, <1>2, <1>3 DEF TypeOK

(* A step of writer w alone.                                                *)
LEMMA PcType ==
  ASSUME writer \in [Writers -> [pc : WriterSteps, kind : Kind, cfg : Config]],
         NEW w \in Writers,
         \/ writer' = [writer EXCEPT ![w] = NoWriter]
         \/ \E p \in WriterSteps : writer' = [writer EXCEPT ![w].pc = p]
  PROVE  writer' \in [Writers -> [pc : WriterSteps, kind : Kind, cfg : Config]]
<1>1. CASE writer' = [writer EXCEPT ![w] = NoWriter]
  BY <1>1, NoWriterType
<1>2. CASE \E p \in WriterSteps : writer' = [writer EXCEPT ![w].pc = p]
  BY <1>2
<1>3. QED BY <1>1, <1>2

LEMMA TypeStep == TypeOK /\ [Next]_vars => TypeOK'
<1> SUFFICES ASSUME TypeOK, [Next]_vars PROVE TypeOK'
  OBVIOUS
<1> DEFINE WriterType == [pc : WriterSteps, kind : Kind, cfg : Config]
<1>0. /\ mem \in Config /\ writer \in [Writers -> WriterType]
      /\ nvs \subseteq Config /\ accepted \subseteq Config /\ requests \in Nat
      /\ \A c, d \in nvs : c = d
  BY DEF TypeOK
<1>00. ASSUME NEW w \in Writers
       PROVE  /\ writer[w].cfg \in Config /\ writer[w].kind \in Kind
              /\ writer[w].cfg.networks \in Seq(Network)
              /\ writer[w].cfg.switches \in Switches
  <2>1. writer[w].cfg \in Config /\ writer[w].kind \in Kind
    BY <1>0
  <2>2. QED BY <2>1 DEF Config
<1>1. ASSUME NEW w \in Writers, NEW u \in Updates(mem), Copy(w, u) PROVE TypeOK'
  <2>1. u.kind \in Kind /\ u.cfg \in Config
    BY <1>0, UpdateType
  <2>2. /\ requests' = requests + 1
        /\ writer' = [writer EXCEPT ![w] =
             [pc   |-> IF u.kind = "wifi" THEN "push" ELSE "save",
              kind |-> u.kind, cfg |-> u.cfg]]
        /\ overlapped' = (overlapped \/ ~Idle \/ resetting)
        /\ UNCHANGED <<mem, nvs, live, supervisor, resetting, accepted, unpushed>>
    BY <1>1 DEF Copy
  <2>3. [pc |-> IF u.kind = "wifi" THEN "push" ELSE "save",
         kind |-> u.kind, cfg |-> u.cfg] \in WriterType
    BY <2>1 DEF WriterSteps
  <2>4. writer' \in [Writers -> WriterType]
    BY <1>0, <2>2, <2>3
  <2>5. overlapped' \in BOOLEAN
    BY <2>2
  <2>6. QED BY <2>2, <2>4, <2>5 DEF TypeOK
<1>2. ASSUME NEW w \in Writers, Push(w) PROVE TypeOK'
  <2>1. /\ supervisor' = writer[w].cfg.networks
        /\ writer' = [writer EXCEPT ![w].pc = "save"]
        /\ UNCHANGED <<mem, nvs, live, resetting, history>>
    BY <1>2 DEF Push
  <2>2. writer' \in [Writers -> WriterType]
    BY <1>0, <2>1, PcType DEF WriterSteps
  <2>3. QED BY <1>00, <2>1, <2>2 DEF TypeOK, history
<1>3. ASSUME NEW w \in Writers, Replace(w) PROVE TypeOK'
  <2>1. /\ mem' = writer[w].cfg
        /\ writer' = [writer EXCEPT ![w] =
                        IF writer[w].kind \in Console THEN [@ EXCEPT !.pc = "push_after"]
                        ELSE NoWriter]
        /\ unpushed' \in BOOLEAN
        /\ UNCHANGED <<nvs, live, supervisor, resetting, accepted, overlapped, requests>>
    <3>1. unpushed \in BOOLEAN /\ writer[w].kind \in Kind
      BY <1>00 DEF TypeOK
    <3>2. unpushed' \in BOOLEAN
      BY <1>3, <3>1 DEF Replace, Kind
    <3>3. QED BY <1>3, <3>2 DEF Replace
  <2>2. writer' \in [Writers -> WriterType]
    <3>1. CASE writer[w].kind \in Console
      <4>1. writer' = [writer EXCEPT ![w].pc = "push_after"]
        BY <2>1, <3>1
      <4>2. QED BY <1>0, <4>1, PcType DEF WriterSteps
    <3>2. CASE writer[w].kind \notin Console
      <4>1. writer' = [writer EXCEPT ![w] = NoWriter]
        BY <2>1, <3>2
      <4>2. QED BY <1>0, <4>1, PcType
    <3>3. QED BY <3>1, <3>2
  <2>3. QED BY <1>00, <2>1, <2>2 DEF TypeOK
<1>4. ASSUME NEW w \in Writers, PushAfter(w) PROVE TypeOK'
  <2>1. /\ supervisor' = writer[w].cfg.networks
        /\ unpushed' = FALSE
        /\ writer' = [writer EXCEPT ![w] = NoWriter]
        /\ UNCHANGED <<mem, nvs, live, resetting, accepted, overlapped, requests>>
    BY <1>4 DEF PushAfter
  <2>2. writer' \in [Writers -> WriterType]
    BY <1>0, <2>1, PcType
  <2>3. QED BY <1>00, <2>1, <2>2 DEF TypeOK
<1>5. ASSUME NEW w \in Writers, NEW ok \in BOOLEAN, Save(w, ok) PROVE TypeOK'
  <2>1. CASE ok
    <3>1. /\ nvs' = {writer[w].cfg}
          /\ accepted' = accepted \cup {writer[w].cfg}
          /\ writer' = [writer EXCEPT ![w].pc = "sprinkler_1"]
          /\ UNCHANGED <<unpushed, mem, live, supervisor, resetting, overlapped, requests>>
      BY <1>5, <2>1 DEF Save
    <3>2. writer' \in [Writers -> WriterType]
      BY <1>0, <3>1, PcType DEF WriterSteps, LiveParts
    <3>3. QED BY <1>0, <1>00, <3>1, <3>2 DEF TypeOK
  <2>2. CASE ~ok
    <3>1. /\ writer' = [writer EXCEPT ![w] = NoWriter]
          /\ unpushed' = (unpushed \/ writer[w].kind = "wifi")
          /\ UNCHANGED <<nvs, accepted, mem, live, supervisor, resetting, overlapped,
                         requests>>
      BY <1>5, <2>2 DEF Save
    <3>2. writer' \in [Writers -> WriterType] /\ unpushed' \in BOOLEAN
      BY <1>0, <3>1, PcType
    <3>3. QED BY <3>1, <3>2 DEF TypeOK
  <2>3. QED BY <2>1, <2>2
<1>6. ASSUME NEW w \in Writers, NEW p \in LiveParts, PushLive(w, p) PROVE TypeOK'
  <2>1. /\ live' = [live EXCEPT ![p] = writer[w].cfg.switches]
        /\ writer' = [writer EXCEPT ![w].pc = AfterPart(p)]
        /\ UNCHANGED <<mem, nvs, supervisor, resetting, history>>
    BY <1>6 DEF PushLive
  <2>2. AfterPart(p) \in WriterSteps
    BY DEF AfterPart, LiveParts, WriterSteps
  <2>3. writer' \in [Writers -> WriterType]
    BY <1>0, <2>1, <2>2, PcType
  <2>4. live' \in [LiveParts -> Switches]
    BY <1>00, <2>1 DEF TypeOK
  <2>5. QED BY <2>1, <2>3, <2>4 DEF TypeOK, history
<1>7. ASSUME FactoryReset PROVE TypeOK'
  <2>1. /\ nvs' = {} /\ resetting' = TRUE
        /\ overlapped' = (overlapped \/ ~Idle)
        /\ UNCHANGED <<mem, live, supervisor, writer, accepted, unpushed, requests>>
    BY <1>7 DEF FactoryReset
  <2>2. overlapped' \in BOOLEAN
    BY <2>1
  <2>3. QED BY <2>1, <2>2 DEF TypeOK
<1>8. ASSUME Reboot PROVE TypeOK'
  <2>1. PICK g \in BOOLEAN, s \in BOOLEAN : Boot(g, s)
    BY <1>8 DEF Reboot
  <2> DEFINE found == Loaded(nvs)
             c == IF g THEN Keyed(found) ELSE found
  <2>2. Start(c) /\ nvs' = IF c # found /\ s THEN {c} ELSE nvs
    BY <2>1 DEF Boot
  <2>3. c \in Config
    BY <1>0, LoadedType DEF BootConfigs
  <2> HIDE DEF c
  <2>4. nvs' \subseteq Config /\ \A d, e \in nvs' : d = e
    BY <1>0, <2>2, <2>3
  <2>5. QED BY <2>2, <2>3, <2>4, StartType
<1>9. CASE UNCHANGED vars
  BY <1>9 DEF vars, history, TypeOK
<1>10. QED
  BY <1>1, <1>2, <1>3, <1>4, <1>5, <1>6, <1>7, <1>8, <1>9 DEF Next

(* Every step of the writers, a reset or a boot keeps every copy of the     *)
(* configuration a configuration: the merge and the console's edits of the  *)
(* list make networks of networks.                                          *)
THEOREM TypeCorrect == Spec => []TypeOK
<1>1. Init => TypeOK
  <2> SUFFICES ASSUME Init PROVE TypeOK
    OBVIOUS
  <2>1. mem \in Config
    BY LoadedType DEF Init
  <2>2. nvs \subseteq Config /\ \A c, d \in nvs : c = d
    BY <2>1 DEF Init
  <2>3. mem.switches \in Switches /\ mem.networks \in Seq(Network)
    BY <2>1 DEF Config
  <2>4. writer \in [Writers -> [pc : WriterSteps, kind : Kind, cfg : Config]]
    BY NoWriterType DEF Init
  <2>5. QED BY <2>1, <2>2, <2>3, <2>4 DEF Init, TypeOK
<1>2. QED BY <1>1, TypeStep, PTL DEF Spec

(* GET /api/config and a PUT of what it showed: for every configuration the *)
(* writers can bring about without two networks of the same SSID, nothing   *)
(* changes.                                                                 *)
THEOREM SecretsSurvive == Spec => []RoundTrip
<1>1. TypeOK => RoundTrip
  BY RedactionRoundTrip DEF TypeOK, RoundTrip
<1>2. QED BY <1>1, TypeCorrect, PTL
=============================================================================
